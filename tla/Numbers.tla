------------------------------ MODULE Numbers -------------------------------
(***************************************************************************)
(* The permanent numbers of the players (module 03_registry): whoever      *)
(* opens the registry gives a number to every player who has none.  The    *)
(* players are listed, the lock of the numbers is waited for, what is      *)
(* still missing is read again, and the numbers are committed.  A player  *)
(* is the place of its registration, so that list_for_registry, ordered by *)
(* (created_at, id), lists the players in their own order.                 *)
(***************************************************************************)
EXTENDS Integers, FiniteSets

CONSTANTS
  Reader,      \* requests that show the registry
  MaxPlayers,  \* bound: players ever registered
  Attempts     \* tries of ensure_player_numbers

VARIABLES
  roster,      \* the players there are
  registered,  \* players so far
  numbers,     \* registry_player_numbers, 0 where there is no row
  counter,     \* registry_number_counter.last_number
  request,     \* what each request has read
  handed       \* every number ever given, and to whom

vars == <<roster, registered, numbers, counter, request, handed>>

Player == 1..MaxPlayers
Idle   == [stage |-> "idle", tries |-> 0, missing |-> {}]
NoNumber(p) == numbers[p] = 0
Listed == {p \in roster : NoNumber(p)}

Init ==
  /\ roster = {} /\ registered = 0 /\ counter = 0 /\ handed = {}
  /\ numbers = [p \in Player |-> 0]
  /\ request = [r \in Reader |-> Idle]

Register ==
  /\ registered < MaxPlayers /\ registered' = registered + 1
  /\ roster' = roster \cup {registered + 1}
  /\ UNCHANGED <<numbers, counter, request, handed>>

(* registry_delete_player, in the player's deletion.                       *)
Delete(p) ==
  /\ p \in roster /\ roster' = roster \ {p}
  /\ numbers' = [numbers EXCEPT ![p] = 0]
  /\ UNCHANGED <<registered, counter, request, handed>>

(* Nothing is missing: nothing is waited for, and the request is answered. *)
List(r) ==
  /\ request[r].stage = "idle"
  /\ request' = [request EXCEPT ![r] =
       IF Listed = {} THEN Idle ELSE [@ EXCEPT !.stage = "listed", !.missing = Listed]]
  /\ UNCHANGED <<roster, registered, numbers, counter, handed>>

Free == \A r \in Reader : request[r].stage # "issuing"

(* The lock is taken, what others have given meanwhile is not given again. *)
Take(r) ==
  LET still == {p \in request[r].missing : NoNumber(p)}
  IN /\ request[r].stage = "listed" /\ Free
     /\ request' = [request EXCEPT ![r] =
          IF still = {} THEN Idle ELSE [@ EXCEPT !.stage = "issuing", !.missing = still]]
     /\ UNCHANGED <<roster, registered, numbers, counter, handed>>

(* One after another in the order of the list.                             *)
NumberOf(todo, p) == counter + Cardinality({q \in todo : q <= p})

Issue(r) ==
  LET todo == request[r].missing
  IN /\ todo \subseteq roster
     /\ numbers' = [p \in Player |-> IF p \in todo THEN NumberOf(todo, p) ELSE numbers[p]]
     /\ counter' = counter + Cardinality(todo)
     /\ handed' = handed \cup {<<NumberOf(todo, p), p>> : p \in todo}

(* A player who is gone has no row to refer to: the commit fails and all   *)
(* is read again, up to the third time.                                    *)
Conflict(r) ==
  /\ ~(request[r].missing \subseteq roster)
  /\ UNCHANGED <<numbers, counter, handed>>

Commit(r) ==
  /\ request[r].stage = "issuing"
  /\ \/ Issue(r) /\ request' = [request EXCEPT ![r] = Idle]
     \/ /\ Conflict(r)
        /\ request' = [request EXCEPT ![r] =
             IF @.tries + 1 = Attempts THEN Idle ELSE [Idle EXCEPT !.tries = request[r].tries + 1]]
  /\ UNCHANGED <<roster, registered>>

Show(r) == List(r) \/ Take(r) \/ Commit(r)

Next == Register \/ (\E p \in Player : Delete(p)) \/ \E r \in Reader : Show(r)

Spec == Init /\ [][Next]_vars

-----------------------------------------------------------------------------
(* Properties.                                                             *)

TypeOK ==
  /\ roster \subseteq Player /\ registered \in 0..MaxPlayers
  /\ numbers \in [Player -> 0..MaxPlayers] /\ counter \in 0..MaxPlayers
  /\ handed \subseteq (1..MaxPlayers) \X Player
  /\ \A p \in Player : numbers[p] # 0 => p \in roster

(* A number belongs to one player for ever, also when that player is gone. *)
NumbersArePermanent ==
  /\ \A a, b \in handed : (a[1] = b[1]) = (a[2] = b[2])
  /\ \A p \in Player : numbers[p] # 0 => <<numbers[p], p>> \in handed

(* Whoever came first has the lower number, whichever requests raced to    *)
(* give them.                                                              *)
NumbersFollowArrival ==
  \A p, q \in Player :
    p < q /\ p \in roster /\ numbers[q] # 0 =>
      numbers[p] # 0 /\ numbers[p] < numbers[q]
=============================================================================
