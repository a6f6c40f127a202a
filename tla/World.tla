-------------------------------- MODULE World --------------------------------
(***************************************************************************)
(* What the world keeps: the pictures of its nations, the rights to        *)
(* administer it (00_core), the permanent numbers of its players           *)
(* (03_registry), its map with who owns what (01_map), and the files that  *)
(* map is built into (tools/map_pipeline).  The five share no state here:  *)
(* a step of the world is a step of one of them.                           *)
(***************************************************************************)
EXTENDS Integers, Sequences, FiniteSets

CONSTANTS
  Applicant, Session, Kind, File, Raw, Target, MaxPixels, MaxSide,     \* pictures
  MaxFiled, MaxUploads, MaxRemovals,
  Person, Request, MaxPending, HardCap, Lifetime, MaxRows,          \* administrators
  MaxStarts, MaxActs,
  Reader, MaxPlayers, Attempts,                                     \* numbers
  Instance, Nation, Release, MaxTurn, MaxChanges, MaxBoots,         \* the map
  Name, Spare, Sea, Patient, MaxEdits, MaxCareless, MaxStops        \* its files

(* What the schemas of the configuration ask of the limits, and what a     *)
(* release's map is.  Zero is nobody's id, one stands for the first        *)
(* administrator of ADMIN_VK_USER_IDS.                                     *)
Limited ==
  /\ MaxPending \in Nat \ {0} /\ HardCap \in Nat \ {0} /\ MaxRows \in Nat \ {0}
  /\ MaxActs \in Nat /\ Lifetime \in Nat /\ IsFiniteSet(Request) /\ 1 \in Person

MapsAreFinite ==
  \A r \in Release :
    /\ DOMAIN r.nodes \subseteq Nat /\ IsFiniteSet(DOMAIN r.nodes)
    /\ r.nodes \in [DOMAIN r.nodes -> {"LAND", "SEA"}]

(* A picture has pixels; a flag lies and a portrait stands, and neither is *)
(* more than twice as long as it is wide.  The last part the schema leaves *)
(* open; the shipped sizes, 600 x 400 and 600 x 800, keep it.              *)
SizesAreModest ==
  /\ \A raw \in Raw : raw.w \in Nat \ {0} /\ raw.h \in Nat \ {0}
  /\ \A k \in Kind :
       LET w == Target[k][1]  h == Target[k][2]
       IN /\ w \in Nat \ {0} /\ h \in Nat \ {0}
          /\ IF k = "flag" THEN h < w /\ w <= 2 * h ELSE w < h /\ h <= 2 * w

(* Keys are numbers; a name, a spare key and a sea's are told apart.       *)
KeysAreNumbers ==
  /\ Name \subseteq Nat /\ Spare \subseteq Nat /\ Sea \subseteq Nat /\ Name # {}
  /\ Name \cap Spare = {} /\ Name \cap Sea = {} /\ Spare \cap Sea = {}
  /\ IsFiniteSet(Name \cup Spare \cup Sea)

ASSUME WorldAssumption ==
  /\ Limited /\ MapsAreFinite /\ SizesAreModest /\ KeysAreNumbers
  /\ MaxFiled \in Nat /\ MaxPlayers \in Nat

VARIABLES
  app, filed, nations, rows, lastId, tx, removed, left,                               \* Pictures
  root, players, grants, req, audit, nextRow, links, issued, entered, clock, starts,  \* Admins
  roster, registered, numbers, counter, request, handed,                              \* Numbers
  prov, journal, turn, change, inst, client, boots,                                   \* MapWorld
  inputs, lock, manifest, geometry, borders, job, known, taken, careless, edits, stops  \* MapBuild

pictureVars  == <<app, filed, nations, rows, lastId, tx, removed, left>>
adminVars    == <<root, players, grants, req, audit, nextRow, links, issued, entered, clock,
                  starts>>
numberVars   == <<roster, registered, numbers, counter, request, handed>>
provinceVars == <<prov, journal, turn, change, inst, client, boots>>
buildVars    == <<inputs, lock, manifest, geometry, borders, job, known, taken, careless, edits,
                  stops>>
worldVars    == <<pictureVars, adminVars, numberVars, provinceVars, buildVars>>

Picture == INSTANCE Pictures
             WITH Player <- Applicant, audit <- removed, MaxActs <- MaxRemovals
Admin   == INSTANCE Admins
Number  == INSTANCE Numbers
Map     == INSTANCE MapWorld WITH MaxRows <- MaxChanges
Build   == INSTANCE MapBuild

WorldInit == Picture!Init /\ Admin!Init /\ Number!Init /\ Map!Init /\ Build!Init

WorldNext ==
  \/ Picture!Next /\ UNCHANGED <<adminVars, numberVars, provinceVars, buildVars>>
  \/ Admin!Next   /\ UNCHANGED <<pictureVars, numberVars, provinceVars, buildVars>>
  \/ Number!Next  /\ UNCHANGED <<pictureVars, adminVars, provinceVars, buildVars>>
  \/ Map!Next     /\ UNCHANGED <<pictureVars, adminVars, numberVars, buildVars>>
  \/ Build!Next   /\ UNCHANGED <<pictureVars, adminVars, numberVars, provinceVars>>

WorldSpec == WorldInit /\ [][WorldNext]_worldVars

-----------------------------------------------------------------------------
(* What is accepted as a picture can be cut to its format; every picture   *)
(* has its owner, those under review stand, and none leaves without a      *)
(* record (process_image, replace_image, accept, delete_image).            *)
PicturesAreKept ==
  /\ Picture!CropFits /\ []Picture!PicturesHaveOwners
  /\ Picture!ReviewedPicturesStand /\ Picture!PicturesLeaveOnRecord

(* The rights to administer: a grant has its player, and the last          *)
(* administrator stays through any revocations made one at a time.  A link *)
(* opens the panel once; the links and the journal are bounded.  A number  *)
(* is one player's for ever, and an earlier player's is lower              *)
(* (AdminGrantService, PanelLinkStore, ensure_player_numbers).             *)
PeopleAreKept ==
  /\ []Admin!GrantsHavePlayers /\ []Admin!LinkOpensOnce
  /\ []Admin!LinksAreBounded /\ []Admin!JournalIsBounded
  /\ []Number!NumbersArePermanent /\ []Number!NumbersFollowArrival
  /\ Admin!LastAdminStays

(* The world follows the map, and the journal the world (startup_map,      *)
(* ProvinceService.transfer, owners_at_turn, get_map_manifest).            *)
WorldFollowsMap ==
  /\ []Map!JournalIsTheOwner /\ []Map!ProvincesAreTheMap /\ []Map!UnchangedIsTrue
  /\ Map!PastStands /\ Map!AnswersStand /\ Map!NothingIsTaken /\ Map!ReportForesees

(* Once given, an id is its province's for ever, and the lock that keeps   *)
(* the ids only grows and stays readable (ids.py).                         *)
IdsArePermanent ==
  []Build!IdsFollowProvinces /\ []Build!LockStaysLoadable /\ Build!LockOnlyGrows
=============================================================================
