----------------------------- MODULE Migrations -----------------------------
(***************************************************************************)
(* The database through the releases: the revisions of alembic as scripts  *)
(* of statements, and deploy.sh, which stops the backend, brings the base  *)
(* to the head of the new code in one transaction and starts the backend.  *)
(*                                                                         *)
(* The schema is a set of <<table, item>>: a column that something is done *)
(* to after its table was made, or a constraint; <<table, "">> is the      *)
(* table.  Of the rows there is what a revision rewrites or what a         *)
(* constraint of a later revision can refuse.  A turn is a number of its   *)
(* revision's counting; what is not stored is the date of each (date,      *)
(* today) and the moment a nation was founded at (born).                   *)
(***************************************************************************)
EXTENDS Integers, FiniteSets, SequencesExt

CONSTANTS
  Name, Folded,   \* names, and the key of each: NFKC, case, the letter yo
  Release,        \* the head revisions of the releases
  MaxPlays,       \* bound: what the players do
  MaxTries        \* bound: deployments, rollbacks, restores, steps down

VARIABLES
  db,             \* the base
  code,           \* the release that is checked out and built
  backend,        \* the release that runs
  phase,          \* what is under way: nothing, a deployment, a rollback
  prev,           \* PREV_SHA: what was checked out when it began
  dump,           \* the base as it was then
  ran,            \* the releases that have run
  plays, tries

vars == <<db, code, backend, phase, prev, dump, ran, plays, tries>>

Null == "NULL"
NoTurn == -1
Nobody == 0
Stopped == 0

Table(t, items) == {<<t, i>> : i \in items \cup {""}}
Add(items)      == [do |-> "add", items |-> items]
Drop(items)     == [do |-> "drop", items |-> items]
DropTable(t)    == [do |-> "drop table", table |-> t]
Do(what)        == [do |-> what]

-----------------------------------------------------------------------------
(* The revisions.                                                          *)

R0001 == [up   |-> <<Add(Table("players", {"vk_user_id unique", "vk index"})
                      \cup Table("nations", {"owner unique", "owner index", "name unique"})
                      \cup Table("provinces", {})
                      \cup Table("scheduled_actions", {"nation_id not null"})
                      \cup Table("game_clock", {"turn default 0"})
                      \cup Table("tick_log", {"turn_number unique"})), Do("seed")>>,
          down |-> <<DropTable("scheduled_actions"), DropTable("tick_log"), DropTable("game_clock"),
                     DropTable("provinces"), DropTable("nations"), DropTable("players")>>]

R0002 == [up   |-> <<Drop({<<"tick_log", "turn_number unique">>}), Add({<<"tick_log", "primary key">>})>>,
          down |-> <<Add({<<"tick_log", "turn_number unique">>}), Drop({<<"tick_log", "primary key">>})>>]

Keys0003 == {<<"nations", "-> players">>, <<"provinces", "-> nations">>, <<"scheduled_actions", "-> nations">>}
Old0003  == {<<"players", "vk_user_id unique">>, <<"players", "vk index">>,
             <<"nations", "owner unique">>, <<"nations", "owner index">>}
New0003  == {<<"players", "vk unique index">>, <<"nations", "owner unique index">>}
R0003 == [up   |-> <<Add(Keys0003), Drop(Old0003), Add(New0003)>>,
          down |-> <<Drop(New0003), Add(Old0003), Drop(Keys0003)>>]

R0004 == [up   |-> <<Drop({<<"scheduled_actions", "-> nations">>, <<"scheduled_actions", "nation_id not null">>}),
                     Add({<<"scheduled_actions", "-> nations or null">>})>>,
          down |-> <<Drop({<<"scheduled_actions", "-> nations or null">>}),
                     Add({<<"scheduled_actions", "nation_id not null">>, <<"scheduled_actions", "-> nations">>})>>]

Profile == {"nations"} \X {"leader_name", "leader_title", "history_url"}
R0005 == [up |-> <<Add(Profile)>>, down |-> <<Drop(Profile)>>]

Kinds0006 == {"provinces"} \X {"kind", "kind check", "sea unowned"}
R0006 == [up   |-> <<Do("refuse owned placeholders"), Do("refuse keys to provinces"),
                     Do("delete placeholders"), Add(Kinds0006),
                     Add(Table("map_ownership_log", {"-> provinces", "claim complete"}))>>,
          down |-> <<DropTable("map_ownership_log"), Drop(Kinds0006), Do("restore placeholders")>>]

R0007 == [up   |-> <<Add(Table("bot_consents", {"-> players"})
                      \cup Table("bot_outbox", {"-> players", "event unique"})
                      \cup Table("bot_vk_events", {"event_id unique"})
                      \cup Table("bot_state", {"last_digest_turn default 0"})), Do("seed digest")>>,
          down |-> <<DropTable("bot_state"), DropTable("bot_vk_events"), DropTable("bot_outbox"),
                     DropTable("bot_consents")>>]

Stats0008 == {"players"} \X {"level", "level check", "judge_rating", "rating check"}
Turn0008  == {"nations"} \X {"created_turn", "created_turn not null", "created_turn >= 0"}
R0008 == [up   |-> <<Add(Stats0008), Add({<<"nations", "created_turn">>}), Do("backfill turns"), Add(Turn0008)>>,
          down |-> <<Drop(Turn0008), Drop(Stats0008)>>]

R0009 == [up |-> <<Add(Table("registry_vk_profiles", {"-> players"}))>>,
          down |-> <<DropTable("registry_vk_profiles")>>]

R0010 == [up   |-> <<Add(Table("orders", {"-> players", "number unique", "request unique", "distribution whole",
                                          "verdict whole"}))>>,
          down |-> <<DropTable("orders")>>]

Plain0011 == {"nations"} \X {"gender", "succession_type", "motto", "description", "leader_bio", "capital_name"}
Gone0011  == {"nations"} \X {"flag_id", "portrait_id"}
Anthem    == {<<"nations", "anthem_url">>}
Short0011 == {"nations"} \X {"short_name", "short_name unique", "capital -> provinces"}
R0011 == [up   |-> <<Add(Plain0011 \cup Gone0011 \cup Anthem \cup Short0011)>>,
          down |-> <<Drop(Plain0011 \cup Gone0011 \cup Anthem \cup Short0011)>>]

R0012 == [up   |-> <<Do("backfill short names"), Add({<<"nations", "short_name not null">>})>>,
          down |-> <<Drop({<<"nations", "short_name not null">>})>>]

OrderFlag == {<<"orders", "nation_flag_id">>}
R0013 == [up   |-> <<Add({<<"orders", "short_name">>} \cup OrderFlag), Do("backfill orders"),
                     Add({<<"orders", "short_name not null">>})>>,
          down |-> <<Drop({"orders"} \X {"short_name", "short_name not null"} \cup OrderFlag)>>]

R0014 == [up   |-> <<Add({<<"map_ownership_log", "short_name">>}), Do("backfill claims")>>,
          down |-> <<Drop({<<"map_ownership_log", "short_name">>})>>]

R0015 == [up   |-> <<Add(Table("admin_grants", {"-> players", "player unique"}) \cup Table("admin_audit_log", {}))>>,
          down |-> <<DropTable("admin_audit_log"), DropTable("admin_grants")>>]

R0016 == [up   |-> <<Add(Table("registry_player_numbers", {"-> players", "number unique"})
                      \cup Table("registry_number_counter", {})), Do("number players")>>,
          down |-> <<DropTable("registry_number_counter"), DropTable("registry_player_numbers")>>]

R0017 == [up |-> <<Drop(Gone0011), Drop(OrderFlag)>>, down |-> <<Add(Gone0011), Add(OrderFlag)>>]

R0018 == [up   |-> <<Add(Table("nation_images", {"-> nations", "nation_id not null", "nation unique"}))>>,
          down |-> <<DropTable("nation_images")>>]

Reviewer  == {"nation_applications"} \X {"reviewer_player_id", "reviewer -> players", "reviewer_assigned_at"}
Shared0019 == {"nation_images"} \X {"application_id", "-> applications", "application unique", "one owner"}
R0019 == [up   |-> <<Add(Table("nation_applications", {"one live", "pending name unique", "-> players"}) \cup Reviewer
                      \cup Table("nation_application_provinces", {"one reserve", "-> provinces"})),
                     Drop({<<"nation_images", "nation_id not null">>}), Add(Shared0019)>>,
          down |-> <<Do("delete application pictures"), Drop(Shared0019),
                     Add({<<"nation_images", "nation_id not null">>}),
                     DropTable("nation_application_provinces"), DropTable("nation_applications")>>]

R0020 == [up |-> <<Drop(Anthem), Drop(Reviewer)>>, down |-> <<Add(Anthem), Add(Reviewer)>>]

Both      == {"nations", "nation_applications"}
Keys0021  == Both \X {"keys"}
Whole0021 == Both \X {"keys not null"} \cup {<<"nations", "keys unique">>, <<"nation_applications", "pending keys unique">>}
R0021 == [up   |-> <<Do("refuse equal keys"), Add(Keys0021), Do("backfill keys"), Add(Whole0021)>>,
          down |-> <<Drop(Whole0021), Drop(Keys0021)>>]

From(n) == {<<"nations", "created_turn >= " \o n>>, <<"game_clock", "turn default " \o n>>,
            <<"bot_state", "last_digest_turn default " \o n>>}
\* a variant: the constraints before the rows
R0022First == [up   |-> <<Drop(From("0")), Add(From("1")), Do("shift up")>>,
               down |-> <<Drop(From("1")), Add(From("0")), Do("shift down")>>]
R0022 == [up   |-> <<Do("shift up"), Drop(From("0")), Add(From("1"))>>,
          down |-> <<Drop(From("1")), Add(From("0")), Do("shift down")>>]

R0023 == [up   |-> <<Add(Table("judge_rating_log", {"-> players", "source unique"}))>>,
          down |-> <<DropTable("judge_rating_log")>>]

Refusal == {"orders"} \X {"refused_judge_ids", "assignment_no", "assignment_no >= 1"}
R0024 == [up |-> <<Add(Refusal)>>, down |-> <<Drop(Refusal)>>]

Chain == <<R0001, R0002, R0003, R0004, R0005, R0006, R0007, R0008, R0009, R0010, R0011, R0012,
           R0013, R0014, R0015, R0016, R0017, R0018, R0019, R0020, R0021, R0022, R0023, R0024>>

-----------------------------------------------------------------------------
(* What a statement does to the rows, and what refuses it.                 *)

NoRows == [today |-> 0, clock |-> NoTurn, digest |-> NoTurn, placeholders |-> "none", ticks |-> {},
             nations |-> {}, log |-> {}, orders |-> {}, acts |-> {}, apps |-> {}, images |-> {},
             players |-> <<>>, numbers |-> {}, counter |-> Nobody]
Empty == [schema |-> {}, rev |-> 0, rows |-> NoRows]
Aborted == [rev |-> -1]

Has(schema, t, i) == <<t, i>> \in schema

(* A column that is gone takes its values with it, a table its rows.       *)
Kept(schema, r) ==
  LET in(t, rows) == IF Has(schema, t, "") THEN rows ELSE {} IN
  [r EXCEPT
     !.nations = {[n EXCEPT !.short = IF Has(schema, "nations", "short_name") THEN @ ELSE Null,
                            !.turn  = IF Has(schema, "nations", "created_turn") THEN @ ELSE NoTurn,
                            !.keys  = IF Has(schema, "nations", "keys") THEN @ ELSE Null] :
                  n \in in("nations", @)},
     !.log     = {[l EXCEPT !.short = IF Has(schema, "map_ownership_log", "short_name") THEN @ ELSE Null] :
                  l \in in("map_ownership_log", @)},
     !.orders  = {[o EXCEPT !.short = IF Has(schema, "orders", "short_name") THEN @ ELSE Null] :
                  o \in in("orders", @)},
     !.apps    = {[a EXCEPT !.keys = IF Has(schema, "nation_applications", "keys") THEN @ ELSE Null] :
                  a \in in("nation_applications", @)},
     !.images  = in("nation_images", @),
     !.numbers = in("registry_player_numbers", @),
     !.counter = IF Has(schema, "registry_number_counter", "") THEN @ ELSE Nobody,
     !.digest  = IF Has(schema, "bot_state", "") THEN @ ELSE NoTurn]

Keys(row) == <<Folded[row.name], Folded[row.short]>>

(* _backfill_created_turn: the last turn that was completed by then.       *)
LastTurn(r, born) == Max({0} \cup {t.turn : t \in {u \in r.ticks : u.ok /\ u.at <= born}})

(* The short name of a row's nation, or else the full name it was given.   *)
ShortOf(r, row) ==
  LET alive == {n \in r.nations : n.id = row.nation} IN
  IF alive = {} THEN row.name ELSE (CHOOSE n \in alive : TRUE).short

(* _shift_turns: every stored turn, and a NULL stays NULL.                 *)
Shifted(turn, by) == IF turn = NoTurn THEN NoTurn ELSE turn + by

\* a variant: the journal of the provinces is forgotten
ShiftMost(r, by) ==
  [r EXCEPT !.clock = @ + by, !.digest = Shifted(@, by),
            !.nations = {[n EXCEPT !.turn = Shifted(@, by)] : n \in @},
            !.ticks = {[t EXCEPT !.turn = @ + by] : t \in @},
            !.acts = {[a EXCEPT !.turn = @ + by] : a \in @}]
Shift(r, by) ==
  [r EXCEPT !.clock = @ + by, !.digest = Shifted(@, by),
            !.nations = {[n EXCEPT !.turn = Shifted(@, by)] : n \in @},
            !.ticks = {[t EXCEPT !.turn = @ + by] : t \in @},
            !.acts = {[a EXCEPT !.turn = @ + by] : a \in @},
            !.log = {[l EXCEPT !.turn = @ + by] : l \in @}]

Rewritten(do, r) ==
  CASE do = "seed" -> [r EXCEPT !.clock = 0, !.placeholders = "free"]
    [] do = "seed digest" -> [r EXCEPT !.digest = 0]
    [] do = "delete placeholders" -> [r EXCEPT !.placeholders = "none"]
    [] do = "restore placeholders" -> [r EXCEPT !.placeholders = "free"]
    [] do = "backfill turns" ->
         [r EXCEPT !.nations = {[n EXCEPT !.turn = LastTurn(r, n.born)] : n \in @}]
    [] do = "backfill short names" ->
         [r EXCEPT !.nations = {[n EXCEPT !.short = IF @ = Null THEN n.name ELSE @] : n \in @}]
    [] do = "backfill orders" ->
         [r EXCEPT !.orders = {[o EXCEPT !.short = ShortOf(r, o)] : o \in @}]
    [] do = "backfill claims" ->
         [r EXCEPT !.log = {[l EXCEPT !.short = ShortOf(r, l)] : l \in @}]
    [] do = "number players" ->
         [r EXCEPT !.numbers = {<<r.players[i], i>> : i \in DOMAIN r.players},
                   !.counter = Len(r.players)]
    [] do = "delete application pictures" ->
         [r EXCEPT !.images = {i \in @ : i.owner = "nation"}]
    [] do = "backfill keys" ->
         [r EXCEPT !.nations = {[n EXCEPT !.keys = Keys(n)] : n \in @},
                   !.apps = {[a EXCEPT !.keys = Keys(a)] : a \in @}]
    [] do = "shift up" -> Shift(r, 1)
    [] do = "shift down" -> Shift(r, -1)
    [] OTHER -> r

Differ(rows, f(_)) == \A x, y \in rows : x # y => f(x) # f(y)
BothDiffer(rows) == /\ Differ(rows, LAMBDA x : Keys(x)[1]) /\ Differ(rows, LAMBDA x : Keys(x)[2])
Pending(r) == {a \in r.apps : a.status = "PENDING"}

(* The guards that raise before anything is touched.                       *)
Refused(do, schema, r) ==
  CASE do = "refuse owned placeholders" -> r.placeholders = "owned"
    [] do = "refuse keys to provinces" ->
         schema \cap {<<"nations", "capital -> provinces">>, <<"map_ownership_log", "-> provinces">>} # {}
    [] do = "refuse equal keys" -> ~BothDiffer(r.nations) \/ ~BothDiffer(Pending(r))
    [] OTHER -> FALSE

(* The constraints the base holds the rows to.                             *)
Holds(schema, r) ==
  LET claims(t, i, P) == Has(schema, t, i) => P IN
  /\ claims("nations", "name unique", Differ(r.nations, LAMBDA n : n.name))
  /\ claims("nations", "short_name unique",
            Differ({n \in r.nations : n.short # Null}, LAMBDA n : n.short))
  /\ claims("nations", "short_name not null", \A n \in r.nations : n.short # Null)
  /\ claims("nations", "created_turn not null", \A n \in r.nations : n.turn # NoTurn)
  /\ claims("nations", "created_turn >= 0", \A n \in r.nations : n.turn >= 0)
  /\ claims("nations", "created_turn >= 1", \A n \in r.nations : n.turn >= 1)
  /\ claims("nations", "keys not null", \A x \in r.nations : x.keys # Null)
  /\ claims("nations", "keys unique", BothDiffer(r.nations))
  /\ claims("nation_applications", "keys not null", \A x \in r.apps : x.keys # Null)
  /\ claims("nation_applications", "pending keys unique", BothDiffer(Pending(r)))
  /\ claims("scheduled_actions", "nation_id not null", \A a \in r.acts : a.nation # Nobody)
  /\ claims("orders", "short_name not null", \A o \in r.orders : o.short # Null)
  /\ claims("nation_images", "nation_id not null", \A i \in r.images : i.owner = "nation")
  /\ claims("registry_player_numbers", "number unique", Differ(r.numbers, LAMBDA p : p[2]))

Reshaped(schema, s) ==
  CASE s.do = "add" -> schema \cup s.items
    [] s.do = "drop" -> schema \ s.items
    [] s.do = "drop table" -> {x \in schema : x[1] # s.table}
    [] OTHER -> schema

Executed(d, s) ==
  IF d = Aborted \/ Refused(s.do, d.schema, d.rows) THEN Aborted ELSE
  LET schema == Reshaped(d.schema, s)
      r == Rewritten(s.do, Kept(schema, d.rows))
  IN IF Holds(schema, r) THEN [schema |-> schema, rev |-> d.rev, rows |-> r] ELSE Aborted

Ran(d, script, rev) ==
  LET end == FoldLeft(Executed, d, script) IN IF end = Aborted THEN end ELSE [end EXCEPT !.rev = rev]

(* alembic upgrade head: the revisions that are left, in one transaction;  *)
(* a base ahead of the code cannot be located.                             *)
Upgraded(d, head) ==
  IF d.rev > head THEN Aborted
  ELSE FoldLeft(LAMBDA e, n : IF e = Aborted THEN e ELSE Ran(e, Chain[n].up, n), d,
                [i \in 1..(head - d.rev) |-> d.rev + i])

Downgraded(d, rev) ==
  FoldLeft(LAMBDA e, n : IF e = Aborted THEN e ELSE Ran(e, Chain[n].down, n - 1), d,
           [i \in 1..(d.rev - rev) |-> d.rev + 1 - i])

-----------------------------------------------------------------------------
(* The game at the release that runs: rows its schema takes.               *)

Rows == db.rows
Seen(t, i) == Has(db.schema, t, i)
FirstTurn(rev) == IF rev >= 22 THEN 1 ELSE 0

Play(r) ==
  /\ backend # Stopped /\ plays < MaxPlays /\ Holds(db.schema, r)
  /\ db' = [db EXCEPT !.rows = r] /\ plays' = plays + 1
  /\ UNCHANGED <<code, backend, phase, prev, dump, ran, tries>>

Named(row) == [row EXCEPT !.keys = IF Seen("nations", "keys") THEN Keys(row) ELSE Null]

Found ==
  \E n \in Name, s \in Name \cup {Null} :
    /\ s # Null => Seen("nations", "short_name")
    /\ Seen("nations", "keys") => s # Null
    /\ Play([Rows EXCEPT
         !.nations = @ \cup {Named([id |-> plays + 1, name |-> n, short |-> s, keys |-> Null, born |-> plays,
                              turn |-> IF Seen("nations", "created_turn") THEN Rows.clock ELSE NoTurn,
                              date |-> Rows.today])},
         !.placeholders = IF @ = "free" THEN "owned" ELSE @])

Fall(n) ==
  Play([Rows EXCEPT !.nations = @ \ {n},
          !.acts = {[a EXCEPT !.nation = IF @ = n.id THEN Nobody ELSE @] : a \in @},
          !.images = {i \in @ : i.owner # "nation"},
          !.placeholders = IF @ = "owned" THEN "free" ELSE @])

(* A tick, and the action that is planned for its turn.                    *)
Turn(ok) ==
  LET t == Rows.clock + 1 IN
  Play([Rows EXCEPT !.ticks = @ \cup {[turn |-> t, at |-> plays, ok |-> ok, date |-> Rows.today + 1]},
          !.clock = IF ok THEN t ELSE @, !.today = IF ok THEN @ + 1 ELSE @,
          !.digest = IF ok /\ @ # NoTurn THEN t ELSE @])

Record(n) ==
  LET short(t) == IF Seen(t, "short_name") THEN n.short ELSE Null IN
  Play([Rows EXCEPT
    !.acts = @ \cup {[nation |-> n.id, turn |-> Rows.clock + 1, date |-> Rows.today + 1]},
    !.log = IF Seen("map_ownership_log", "")
            THEN @ \cup {[nation |-> n.id, name |-> n.name, short |-> short("map_ownership_log"),
                          turn |-> Rows.clock, date |-> Rows.today]} ELSE @,
    !.orders = IF Seen("orders", "")
               THEN @ \cup {[nation |-> n.id, name |-> n.name, short |-> short("orders")]} ELSE @,
    !.images = IF Seen("nation_images", "") THEN @ \cup {[owner |-> "nation"]} ELSE @])

Apply(n) ==
  /\ Seen("nation_applications", "")
  /\ Play([Rows EXCEPT
       !.apps = @ \cup {[name |-> n, short |-> n, status |-> "PENDING",
                         keys |-> IF Seen("nation_applications", "keys")
                                  THEN <<Folded[n], Folded[n]>> ELSE Null]},
       !.images = @ \cup {[owner |-> "application"]}])

Join ==
  Play([Rows EXCEPT !.players = Append(@, plays + 1),
          !.counter = IF Seen("registry_player_numbers", "") THEN @ + 1 ELSE @,
          !.numbers = IF Seen("registry_player_numbers", "")
                      THEN @ \cup {<<plays + 1, Rows.counter + 1>>} ELSE @])

Leave(p) ==
  Play([Rows EXCEPT !.players = SelectSeq(@, LAMBDA q : q # p), !.numbers = {x \in @ : x[1] # p}])

Game ==
  \/ Found \/ Turn(TRUE) \/ Turn(FALSE) \/ Join
  \/ \E n \in Rows.nations : Fall(n) \/ Record(n)
  \/ \E n \in Name : Apply(n)
  \/ \E i \in DOMAIN Rows.players : Leave(Rows.players[i])

-----------------------------------------------------------------------------
(* deploy.sh and the runbook.                                              *)

Try == tries < MaxTries /\ tries' = tries + 1

(* preflight to build: the base is saved, the new code is there; the old   *)
(* backend runs on.                                                        *)
Deploy(v) ==
  /\ Try /\ code' = v /\ prev' = code /\ dump' = db /\ phase' = "deploy"
  /\ UNCHANGED <<db, backend, ran, plays>>

Stop ==
  /\ phase = "deploy" /\ backend # Stopped /\ backend' = Stopped
  /\ UNCHANGED <<db, code, phase, prev, dump, ran, plays, tries>>

\* a variant: the backend is not stopped before the migrations
MigrateLive ==
  /\ phase # "idle" /\ db.rev # code
  /\ \E d \in {Upgraded(db, code)} : d # Aborted /\ db' = d
  /\ UNCHANGED <<code, backend, phase, prev, dump, ran, plays, tries>>

(* The one-shot container migrate: rebuild_stack runs it with the backend  *)
(* stopped, the rollback's "up" with whatever runs.                        *)
Migrate ==
  /\ phase # "idle" /\ (phase = "deploy" => backend = Stopped)
  /\ db.rev # code
  /\ \E d \in {Upgraded(db, code)} : d # Aborted /\ db' = d
  /\ UNCHANGED <<code, backend, phase, prev, dump, ran, plays, tries>>

(* up: the backend depends on the success of migrate.                      *)
Start ==
  /\ phase # "idle" /\ (phase = "deploy" => backend = Stopped) /\ db.rev = code
  /\ backend' = code /\ phase' = "idle" /\ ran' = ran \cup {code}
  /\ UNCHANGED <<db, code, prev, dump, plays, tries>>

(* What print_rollback says: check out PREV_SHA, then up.                  *)
Rollback ==
  /\ Try /\ prev # Stopped /\ code # prev /\ code' = prev /\ phase' = "rollback"
  /\ UNCHANGED <<db, backend, prev, dump, ran, plays>>

(* The base back from the dump, with the backend stopped.                  *)
Restore ==
  /\ Try /\ dump.rev > 0 /\ backend' = Stopped /\ db' = dump /\ phase' = "rollback"
  /\ UNCHANGED <<code, prev, dump, ran, plays>>

(* alembic downgrade by hand, of a base the code knows.                    *)
Lower(v) ==
  /\ Try /\ backend = Stopped /\ v < db.rev /\ db.rev <= code
  /\ \E d \in {Downgraded(db, v)} : d # Aborted /\ db' = d
  /\ UNCHANGED <<code, backend, phase, prev, dump, ran, plays>>

Init ==
  /\ db = Empty /\ dump = Empty /\ code = 0 /\ backend = Stopped /\ prev = 0
  /\ phase = "idle" /\ ran = {} /\ plays = 0 /\ tries = 0

Next ==
  \/ Game
  \/ \E v \in Release : Deploy(v) \/ Lower(v)
  \/ Stop \/ Migrate \/ Start \/ Rollback \/ Restore

Spec == Init /\ [][Next]_vars

-----------------------------------------------------------------------------
TypeOK ==
  /\ code \in Release \cup {0} /\ backend \in Release \cup {Stopped} /\ prev \in Release \cup {0}
  /\ phase \in {"idle", "deploy", "rollback"} /\ ran \subseteq Release
  /\ db.rev \in 0..Len(Chain) /\ DOMAIN Rows = DOMAIN NoRows

(* The backend runs on the schema of its own release, however deployments  *)
(* are broken off and taken back - but for a rollback to a code that never *)
(* ran: PREV_SHA of a deployment after one that failed.                    *)
SchemaFitsCode ==
  backend # Stopped => db.rev = backend \/ (phase = "rollback" /\ code \notin ran)

(* A revision's schema does not depend on the way there, up or down.       *)
SchemaAt(n) == FoldLeft(LAMBDA schema, r : FoldLeft(Reshaped, schema, r.up), {}, SubSeq(Chain, 1, n))
Schemas == [n \in 0..Len(Chain) |-> SchemaAt(n)]
SchemaIsTheRevisions == db.schema = Schemas[db.rev]

(* Every turn that is stored keeps its date.                               *)
DatesStand ==
  LET dated(x) == x.turn # NoTurn => x.turn - FirstTurn(db.rev) = x.date IN
  db.rev > 0 =>
    /\ Rows.clock - FirstTurn(db.rev) = Rows.today
    /\ \A x \in Rows.nations \cup Rows.ticks \cup Rows.log \cup Rows.acts : dated(x)
    /\ Rows.digest # NoTurn => Rows.digest - FirstTurn(db.rev) \in 0..Rows.today

(* What was filled in is what the code of the revision would have written: *)
(* numbers in the order of arrival, names of the nation or of the row.     *)
BackfillsAreTrue ==
  /\ \A x, y \in Rows.numbers : x[1] < y[1] => x[2] < y[2]
  /\ \A x \in Rows.numbers : x[2] <= Rows.counter
  /\ Seen("map_ownership_log", "short_name") =>
       \A l \in Rows.log : l.short # Null /\ \A n \in Rows.nations : n.id = l.nation => n.short = l.short
  /\ Seen("nations", "keys") => \A n \in Rows.nations : n.keys = Keys(n)

(* A migration gives up only for what its revision says: placeholders that *)
(* have an owner, a full name that is another's short name, names of one   *)
(* key.  A step down never does.                                           *)
Shortened(n) == IF n.short = Null THEN n.name ELSE n.short
Foreseen ==
  LET pairs == {p \in Rows.nations \X Rows.nations : p[1] # p[2]} IN
  \/ db.rev < 6 /\ Rows.placeholders = "owned"
  \/ db.rev < 12 /\ \E p \in pairs : Shortened(p[1]) = Shortened(p[2])
  \/ db.rev < 21 /\ \E p \in pairs : \/ Folded[p[1].name] = Folded[p[2].name]
                                     \/ Folded[Shortened(p[1])] = Folded[Shortened(p[2])]
  \/ db.rev < 21 /\ ~BothDiffer(Pending(Rows))
AbortsAreForeseen ==
  backend = Stopped /\ phase = "deploy" =>
    /\ db.rev < code /\ Upgraded(db, code) = Aborted => Foreseen
    /\ db.rev > Min(Release) => Downgraded(db, Min(Release)) # Aborted
=============================================================================
