------------------------- MODULE TickEngine_proofs -------------------------
(***************************************************************************)
(* Proofs about TickEngine for every set of schedulers and administrators, *)
(* every day length and every bound.                                       *)
(*                                                                         *)
(* Two inductive invariants.  EngineInv says who may hold which lock and   *)
(* that next_turn is still current_turn + 1; it holds with the world reset *)
(* enabled.  JournalInv adds what ties the journal to the clock and holds  *)
(* until a reset of the world begins (Unreset).                            *)
(***************************************************************************)
EXTENDS TickEngine, TLAPS

(* The pc of a worker says exactly whether it holds the advisory lock.     *)
LockInv == \A w \in Worker : pc[w] \in LockPcs <=> lock = w

(* next_turn, read under the clock row lock, is still the next turn.       *)
TurnInv == \A w \in Worker : pc[w] \in ClockPcs => turn[w] = clock.turn + 1

(* A reset that has written the clock row excludes the ticks that read it. *)
ClockInv == ClockHeldByReset => \A w \in Worker : pc[w] \notin ClockPcs

EngineInv == TypeOK /\ LockInv /\ TurnInv /\ ClockInv

(***************************************************************************)
(* Type correctness.                                                       *)
(***************************************************************************)
LEMMA NextTickNat == ASSUME NEW t \in Nat PROVE NextTickAfter(t) \in Nat
  <1>1. Day \in Nat \ {0}  BY TickAssumption
  <1>2. t \div Day \in Nat  BY <1>1
  <1> QED  BY <1>1, <1>2 DEF NextTickAfter

LEMMA TypeInit == Init => TypeOK
  <1> SUFFICES ASSUME Init PROVE TypeOK  OBVIOUS
  <1>1. /\ Day \in Nat /\ MaxFaults \in Nat /\ MaxManual \in Nat /\ MaxResets \in Nat
        /\ MaxTroubles \in Nat
    BY TickAssumption
  <1>2. clock \in ClockRow  BY <1>1 DEF Init, ClockRow
  <1>3. budget \in [Bounds -> Nat] /\ budget["resets"] <= MaxResets
    BY <1>1 DEF Init, Bounds
  <1> QED  BY <1>2, <1>3 DEF Init, TypeOK, Id, Statuses, Outcomes, Pcs, LockPcs,
             ClockPcs, ResetPcs, NoRow

LEMMA SpendType ==
  ASSUME budget \in [Bounds -> Nat], budget["resets"] <= MaxResets,
         NEW f \in {"faults", "manual", "resets"}, Spend(f)
  PROVE  /\ budget' \in [Bounds -> Nat] /\ budget'["resets"] <= MaxResets
         /\ budget'["resets"] = budget["resets"] - (IF f = "resets" THEN 1 ELSE 0)
  <1>1. MaxResets \in Nat  BY TickAssumption
  <1> QED  BY <1>1 DEF Spend, Bounds

LEMMA TypeStep == TypeOK /\ [Next]_vars => TypeOK'
  <1> SUFFICES ASSUME TypeOK, [Next]_vars PROVE TypeOK'  OBVIOUS
  <1> USE DEF TypeOK, Pcs, LockPcs, ClockPcs, ResetPcs, Outcomes, Goto, Answer
  <1>1. CASE Advance  BY <1>1 DEF Advance, logVars, tickVars, resetVars
  <1>2. CASE Reap  BY <1>2 DEF Reap, logVars, tickVars, resetVars
  <1>3. ASSUME NEW w \in Worker, RunTick(w) PROVE TypeOK'
    <2>1. CASE TryLock(w)  BY <2>1 DEF TryLock, logVars, resetVars
    <2>2. CASE ReadClock(w)
      BY <2>2 DEF ReadClock, Release, ClockRow, logVars, resetVars
    <2>3. CASE InsertRunning(w)
      BY <2>3 DEF InsertRunning, Release, Statuses, resetVars
    <2>4. CASE RunPhases(w)  BY <2>4 DEF RunPhases, logVars, resetVars
    <2>5. CASE FailPhases(w)
      BY <2>5, SpendType DEF FailPhases, Release, logVars, tickVars, resetVars
    <2>6. CASE StageCompleted(w)
      BY <2>6 DEF StageCompleted, logVars, tickVars, resetVars
    <2>7. CASE Commit(w)
      <3>1. clock' \in ClockRow  BY <2>7, NextTickNat DEF Commit, ClockRow
      <3>2. status' \in [Id -> Statuses]  BY <2>7 DEF Commit, SetStatus, Statuses
      <3> QED  BY <2>7, <3>1, <3>2 DEF Commit, Release, resetVars
    <2>8. CASE FailCommit(w)
      BY <2>8, SpendType DEF FailCommit, Release, logVars, resetVars
    <2>9. CASE WriteFailed(w)
      <3>1. status' \in [Id -> Statuses]
        BY <2>9 DEF WriteFailed, SetStatus, Statuses
      <3> QED  BY <2>9, <3>1 DEF WriteFailed, resetVars
    <2> QED  BY <1>3, <2>1, <2>2, <2>3, <2>4, <2>5, <2>6, <2>7, <2>8, <2>9 DEF RunTick
  <1>4. ASSUME NEW w \in Worker, Lifecycle(w) PROVE TypeOK'
    <2>1. CASE Wake(w)  BY <2>1 DEF Wake, logVars, tickVars, resetVars
    <2>2. CASE RequestTick(w)
      BY <2>2, SpendType DEF RequestTick, logVars, tickVars, resetVars
    <2>3. CASE Rest(w)  BY <2>3 DEF Rest, Forget, logVars, resetVars
    <2>4. CASE Crash(w)
      BY <2>4, SpendType DEF Crash, Forget, logVars, resetVars
    <2>5. CASE Boot(w)  BY <2>5 DEF Boot, logVars, tickVars, resetVars
    <2>6. CASE Recover(w)
      BY <2>6 DEF Recover, Release, Statuses, tickVars, resetVars
    <2> QED  BY <1>4, <2>1, <2>2, <2>3, <2>4, <2>5, <2>6 DEF Lifecycle
  <1>5. CASE Reset
    <2>1. CASE ResetDelete
      BY <2>1, SpendType DEF ResetDelete, logVars, tickVars
    <2>2. CASE ResetSequence  BY <2>2 DEF ResetSequence, logVars, tickVars
    <2>3. CASE ResetRead
      <3>1. rnew' \in ClockRow  BY <2>3, NextTickNat DEF ResetRead, ClockRow
      <3> QED  BY <2>3, <3>1 DEF ResetRead, logVars, tickVars
    <2>4. CASE ResetFlush  BY <2>4 DEF ResetFlush, logVars, tickVars
    <2>5. CASE ResetCommit
      <3>1. clock' \in ClockRow  BY <2>5 DEF ResetCommit, ClockRow
      <3> QED  BY <2>5, <3>1 DEF ResetCommit, Statuses, tickVars
    <2>6. CASE AbortReset  BY <2>6 DEF AbortReset, logVars, tickVars
    <2>7. ASSUME NEW w \in Worker, AbortTick(w) PROVE TypeOK'
      BY <2>7 DEF AbortTick, Release, logVars, tickVars, resetVars
    <2> QED  BY <1>5, <2>1, <2>2, <2>3, <2>4, <2>5, <2>6, <2>7 DEF Reset
  <1>6. CASE UNCHANGED vars
    BY <1>6 DEF vars, logVars, tickVars, resetVars
  <1> QED  BY <1>1, <1>2, <1>3, <1>4, <1>5, <1>6 DEF Next

(* Every reachable state is well typed.                                    *)
THEOREM TypeCorrect == Spec => []TypeOK
  BY TypeInit, TypeStep, PTL DEF Spec

-----------------------------------------------------------------------------
(***************************************************************************)
(* The tick mutex and the turn counter.                                    *)
(***************************************************************************)
LEMMA EngineInit == Init => EngineInv
  <1> SUFFICES ASSUME Init PROVE EngineInv  OBVIOUS
  <1>1. TypeOK  BY TypeInit
  <1>2. LockInv  BY TickAssumption DEF Init, LockInv, LockPcs, ClockPcs
  <1>3. TurnInv  BY DEF Init, TurnInv, ClockPcs
  <1>4. ClockInv  BY DEF Init, ClockInv, ClockHeldByReset
  <1> QED  BY <1>1, <1>2, <1>3, <1>4 DEF EngineInv

LEMMA EngineStep == EngineInv /\ [Next]_vars => EngineInv'
  <1> SUFFICES ASSUME EngineInv, [Next]_vars PROVE EngineInv'  OBVIOUS
  <1> USE DEF LockPcs, ClockPcs, Goto
  <1>0. TypeOK'  BY TypeStep DEF EngineInv
  <1>a. TypeOK /\ LockInv /\ TurnInv /\ ClockInv  BY DEF EngineInv
  <1>b. NoWorker \notin Worker /\ Ghost \notin Worker /\ NoWorker # Ghost
    BY TickAssumption
  <1>c. pc \in [Worker -> Pcs] /\ turn \in [Worker -> Nat] /\ clock \in ClockRow
    BY <1>a DEF TypeOK
  <1> SUFFICES LockInv' /\ TurnInv' /\ ClockInv'  BY <1>0 DEF EngineInv
  <1> USE <1>a, <1>b, <1>c DEF LockInv, TurnInv, ClockInv, ClockHeldByReset, resetVars
  <1>1. CASE Advance  BY <1>1 DEF Advance, tickVars
  <1>2. CASE Reap  BY <1>2 DEF Reap, tickVars
  <1>3. ASSUME NEW w \in Worker, RunTick(w) PROVE LockInv' /\ TurnInv' /\ ClockInv'
    <2>1. CASE TryLock(w)  BY <2>1 DEF TryLock
    <2>2. CASE ReadClock(w)  BY <2>2 DEF ReadClock, Release
    <2>3. CASE InsertRunning(w)  BY <2>3 DEF InsertRunning, Release
    <2>4. CASE RunPhases(w)  BY <2>4 DEF RunPhases
    <2>5. CASE FailPhases(w)  BY <2>5 DEF FailPhases, Release, tickVars
    <2>6. CASE StageCompleted(w)  BY <2>6 DEF StageCompleted, tickVars
    <2>7. CASE Commit(w)
      <3>1. lock = w /\ clock'.turn = turn[w] /\ lock' = NoWorker
        BY <2>7 DEF Commit, Release
      <3>2. \A v \in Worker : pc'[v] \notin ClockPcs
        BY <2>7, <3>1 DEF Commit
      <3> QED  BY <2>7, <3>1, <3>2 DEF Commit
    <2>8. CASE FailCommit(w)  BY <2>8 DEF FailCommit, Release
    <2>9. CASE WriteFailed(w)  BY <2>9 DEF WriteFailed
    <2> QED  BY <1>3, <2>1, <2>2, <2>3, <2>4, <2>5, <2>6, <2>7, <2>8, <2>9 DEF RunTick
  <1>4. ASSUME NEW w \in Worker, Lifecycle(w) PROVE LockInv' /\ TurnInv' /\ ClockInv'
    <2>1. CASE Wake(w)  BY <2>1 DEF Wake, tickVars
    <2>2. CASE RequestTick(w)  BY <2>2 DEF RequestTick, tickVars
    <2>3. CASE Rest(w)  BY <2>3 DEF Rest, Forget
    <2>4. CASE Crash(w)  BY <2>4 DEF Crash, Forget
    <2>5. CASE Boot(w)  BY <2>5 DEF Boot, tickVars
    <2>6. CASE Recover(w)  BY <2>6 DEF Recover, Release, tickVars
    <2> QED  BY <1>4, <2>1, <2>2, <2>3, <2>4, <2>5, <2>6 DEF Lifecycle
  <1>5. CASE Reset
    <2>1. CASE ResetDelete  BY <2>1 DEF ResetDelete, tickVars
    <2>2. CASE ResetSequence  BY <2>2 DEF ResetSequence, tickVars
    <2>3. CASE ResetRead  BY <2>3 DEF ResetRead, tickVars
    <2>4. CASE ResetFlush  BY <2>4 DEF ResetFlush, ClockHeldByTick, tickVars
    <2>5. CASE ResetCommit
      <3>1. CASE rread = rnew
        <4>1. clock'.turn = clock.turn  BY <2>5, <3>1 DEF ResetCommit
        <4> QED  BY <2>5, <4>1 DEF ResetCommit, tickVars
      <3>2. CASE rread # rnew  BY <2>5, <3>2 DEF ResetCommit, tickVars
      <3> QED  BY <3>1, <3>2
    <2>6. CASE AbortReset  BY <2>6 DEF AbortReset, tickVars
    <2>7. ASSUME NEW w \in Worker, AbortTick(w) PROVE LockInv' /\ TurnInv' /\ ClockInv'
      BY <2>7 DEF AbortTick, Deadlocked, Release, tickVars
    <2> QED  BY <1>5, <2>1, <2>2, <2>3, <2>4, <2>5, <2>6, <2>7 DEF Reset
  <1>6. CASE UNCHANGED vars  BY <1>6 DEF vars, tickVars
  <1> QED  BY <1>1, <1>2, <1>3, <1>4, <1>5, <1>6 DEF Next

THEOREM EngineInvariant == Spec => []EngineInv
  BY EngineInit, EngineStep, PTL DEF Spec

(* At most one tick or recovery is ever past the advisory lock, with any   *)
(* number of instances, administrators, crashes and resets.                *)
THEOREM MutualExclusion == Spec => []SingleTick
  <1>1. EngineInv => SingleTick  BY DEF EngineInv, LockInv, SingleTick
  <1> QED  BY <1>1, EngineInvariant, PTL

(* The committed turn changes only when a tick commits or a reset does.    *)
LEMMA ClockWriters ==
  ASSUME TypeOK, [Next]_vars
  PROVE  UNCHANGED clock \/ ResetCommit \/ \E w \in Worker : Commit(w)
  BY DEF Next, vars, Advance, Reap, RunTick, Lifecycle, Reset, TryLock, ReadClock,
         InsertRunning, RunPhases, FailPhases, StageCompleted, FailCommit, WriteFailed,
         Wake, RequestTick, Rest, Crash, Boot, Recover, ResetDelete, ResetSequence,
         ResetRead, ResetFlush, AbortReset, AbortTick

(* INV-5 for every instance: next_turn, read long before the commit, is    *)
(* still current_turn + 1 when it is written.                              *)
THEOREM TurnMonotone == Spec => TurnStepsByOne
  <1>1. EngineInv /\ [Next]_vars =>
          [clock'.turn # clock.turn => clock'.turn = clock.turn + 1 \/ ResetCommit]_vars
    <2> SUFFICES ASSUME EngineInv, [Next]_vars, clock'.turn # clock.turn, ~ResetCommit
                 PROVE  clock'.turn = clock.turn + 1
      OBVIOUS
    <2>1. PICK w \in Worker : Commit(w)  BY ClockWriters DEF EngineInv
    <2>2. clock'.turn = turn[w] /\ pc[w] \in ClockPcs
      BY <2>1 DEF Commit, ClockPcs
    <2> QED  BY <2>2 DEF EngineInv, TurnInv
  <1> QED  BY <1>1, EngineInvariant, PTL DEF Spec, TurnStepsByOne

-----------------------------------------------------------------------------
(***************************************************************************)
(* The schedule.  A scheduler's tick found its slot due under the clock    *)
(* row lock, and no step but its own commit writes the row while it runs.  *)
(***************************************************************************)
SlotInv ==
  /\ \A w \in Scheduler : pc[w] \in ClockPcs => clock.next <= now
  /\ \A w \in Scheduler : pc[w] \in {"stage", "commit"} => clock.next <= staged[w]

(* The next slot is strictly after the instant it is computed from.        *)
LEMMA NextTickIsLater == ASSUME NEW t \in Nat PROVE t < NextTickAfter(t)
  <1>1. Day \in Nat /\ Day > 0  BY TickAssumption
  <1>2. \A d \in Nat : d > 0 => t < ((t \div d) + 1) * d
    <2> SUFFICES ASSUME NEW d \in Nat, d > 0 PROVE t < ((t \div d) + 1) * d
      OBVIOUS
    <2>1. t = d * (t \div d) + (t % d) /\ t % d < d /\ t \div d \in Nat  OBVIOUS
    <2> DEFINE q == t \div d
    <2>2. (q + 1) * d = d * q + d  BY <2>1
    <2> QED  BY <2>1, <2>2
  <1> QED  BY <1>1, <1>2 DEF NextTickAfter

(* While a tick holds the clock row lock, only its own commit writes it.   *)
LEMMA ClockIsHeld ==
  ASSUME EngineInv, [Next]_vars, NEW w \in Worker, pc[w] \in ClockPcs, pc'[w] \in ClockPcs
  PROVE  clock'.next = clock.next
  <1> USE DEF ClockPcs
  <1>1. TypeOK /\ LockInv /\ ClockInv  BY DEF EngineInv
  <1>2. CASE UNCHANGED clock  BY <1>2
  <1>3. CASE ResetCommit
    <2>1. rread = rnew  BY <1>1, <1>3 DEF ClockInv, ClockHeldByReset, ResetCommit
    <2> QED  BY <1>3, <2>1 DEF ResetCommit
  <1>4. ASSUME NEW v \in Worker, Commit(v) PROVE FALSE
    <2>1. pc[v] = "commit" /\ pc' = [pc EXCEPT ![v] = "pace"]  BY <1>4 DEF Commit, Goto
    <2>2. v = w  BY <1>1, <2>1 DEF LockInv, LockPcs
    <2> QED  BY <1>1, <2>1, <2>2 DEF TypeOK
  <1> QED  BY <1>1, <1>2, <1>3, <1>4, ClockWriters

(* What a step may do to a scheduler that holds the clock row lock after   *)
(* it: it held it before, or it has just found the slot due; what it has   *)
(* staged is the instant of the step that staged it.                       *)
LEMMA SlotSteps ==
  ASSUME TypeOK, [Next]_vars, NEW w \in Scheduler, pc'[w] \in ClockPcs
  PROVE  /\ pc[w] \in ClockPcs \/ (clock.next <= now /\ clock' = clock)
         /\ pc'[w] \in {"stage", "commit"} =>
              \/ pc[w] = "phases" /\ staged'[w] = now
              \/ pc[w] \in {"stage", "commit"} /\ staged'[w] = staged[w]
  <1> USE DEF TypeOK, ClockPcs, Goto
  <1>0. w \in Worker /\ w \notin Admin  BY TickAssumption DEF Worker
  <1> DEFINE Goal ==
        /\ pc[w] \in ClockPcs \/ (clock.next <= now /\ clock' = clock)
        /\ pc'[w] \in {"stage", "commit"} =>
              \/ pc[w] = "phases" /\ staged'[w] = now
              \/ pc[w] \in {"stage", "commit"} /\ staged'[w] = staged[w]
  <1>1. CASE Advance  BY <1>0, <1>1 DEF Advance, tickVars
  <1>2. CASE Reap  BY <1>0, <1>2 DEF Reap, tickVars
  <1>3. ASSUME NEW v \in Worker, RunTick(v) PROVE Goal
    <2>1. CASE TryLock(v)  BY <1>0, <2>1 DEF TryLock
    <2>2. CASE ReadClock(v)  BY <1>0, <2>2 DEF ReadClock
    <2>3. CASE InsertRunning(v)  BY <1>0, <2>3 DEF InsertRunning
    <2>4. CASE RunPhases(v)  BY <1>0, <2>4 DEF RunPhases
    <2>5. CASE FailPhases(v)  BY <1>0, <2>5 DEF FailPhases, tickVars
    <2>6. CASE StageCompleted(v)  BY <1>0, <2>6 DEF StageCompleted, tickVars
    <2>7. CASE Commit(v)  BY <1>0, <2>7 DEF Commit
    <2>8. CASE FailCommit(v)  BY <1>0, <2>8 DEF FailCommit
    <2>9. CASE WriteFailed(v)  BY <1>0, <2>9 DEF WriteFailed
    <2> QED  BY <1>3, <2>1, <2>2, <2>3, <2>4, <2>5, <2>6, <2>7, <2>8, <2>9 DEF RunTick
  <1>4. ASSUME NEW v \in Worker, Lifecycle(v) PROVE Goal
    <2>1. CASE Wake(v)  BY <1>0, <2>1 DEF Wake, tickVars
    <2>2. CASE RequestTick(v)  BY <1>0, <2>2 DEF RequestTick, tickVars
    <2>3. CASE Rest(v)  BY <1>0, <2>3 DEF Rest, Forget
    <2>4. CASE Crash(v)  BY <1>0, <2>4 DEF Crash, Forget
    <2>5. CASE Boot(v)  BY <1>0, <2>5 DEF Boot, tickVars
    <2>6. CASE Recover(v)  BY <1>0, <2>6 DEF Recover, tickVars
    <2> QED  BY <1>4, <2>1, <2>2, <2>3, <2>4, <2>5, <2>6 DEF Lifecycle
  <1>5. CASE Reset
    <2>1. CASE \E v \in Worker : AbortTick(v)  BY <1>0, <2>1 DEF AbortTick, tickVars
    <2>2. CASE ~\E v \in Worker : AbortTick(v)
      BY <1>0, <1>5, <2>2 DEF Reset, ResetDelete, ResetSequence, ResetRead, ResetFlush,
         ResetCommit, AbortReset, tickVars
    <2> QED  BY <2>1, <2>2
  <1>6. CASE UNCHANGED vars  BY <1>0, <1>6 DEF vars, tickVars
  <1> QED  BY <1>1, <1>2, <1>3, <1>4, <1>5, <1>6 DEF Next

LEMMA TimeForward == ASSUME TypeOK, [Next]_vars PROVE now' >= now
  <1>1. CASE Advance  BY <1>1 DEF Advance, TypeOK
  <1>2. CASE now' = now  BY <1>2 DEF TypeOK
  <1>3. Advance \/ now' = now
    BY DEF Next, vars, Reap, RunTick, Lifecycle, Reset, TryLock, ReadClock,
         InsertRunning, RunPhases, FailPhases, StageCompleted, Commit, FailCommit,
         WriteFailed, Wake, RequestTick, Rest, Crash, Boot, Recover, ResetDelete,
         ResetSequence, ResetRead, ResetFlush, ResetCommit, AbortReset, AbortTick
  <1> QED  BY <1>1, <1>2, <1>3

LEMMA SlotStep == EngineInv /\ SlotInv /\ [Next]_vars => SlotInv'
  <1> SUFFICES ASSUME EngineInv, SlotInv, [Next]_vars, NEW w \in Scheduler,
                      pc'[w] \in ClockPcs
               PROVE  /\ clock'.next <= now'
                      /\ pc'[w] \in {"stage", "commit"} => clock'.next <= staged'[w]
    BY DEF SlotInv, ClockPcs
  <1>1. TypeOK /\ TypeOK'  BY TypeStep DEF EngineInv
  <1>2. /\ now \in Nat /\ now' \in Nat /\ clock.next \in Nat /\ clock'.next \in Nat
        /\ w \in Worker
    BY <1>1 DEF TypeOK, ClockRow, Worker
  <1>3. now' >= now  BY <1>1, TimeForward
  <1>4. clock'.next = clock.next /\ clock.next <= now
    <2>1. CASE pc[w] \in ClockPcs  BY <1>2, <2>1, ClockIsHeld DEF SlotInv
    <2>2. CASE pc[w] \notin ClockPcs  BY <1>1, <2>2, SlotSteps
    <2> QED  BY <2>1, <2>2
  <1>5. pc'[w] \in {"stage", "commit"} => clock'.next <= staged'[w]
    BY <1>1, <1>4, SlotSteps DEF SlotInv
  <1> QED  BY <1>2, <1>3, <1>4, <1>5

(* No slot is served twice: a scheduler's tick commits only a slot that    *)
(* was due when it began and puts the schedule past it, whatever the other *)
(* instances, the administrators and the resets do meanwhile.              *)
THEOREM SlotsServedOnce == Spec => SlotServedOnce
  <1>1. Init => SlotInv  BY DEF Init, SlotInv, ClockPcs, Worker
  <1>2. EngineInv /\ SlotInv =>
          [\A w \in Scheduler :
             Commit(w) => clock.next <= staged[w] /\ clock.next < clock'.next]_vars
    <2> SUFFICES ASSUME EngineInv, SlotInv, NEW w \in Scheduler, Commit(w)
                 PROVE  clock.next <= staged[w] /\ clock.next < clock'.next
      OBVIOUS
    <2>1. w \in Worker /\ staged[w] \in Nat /\ clock.next \in Nat
      BY DEF EngineInv, TypeOK, ClockRow, Worker
    <2>2. clock.next <= staged[w]  BY DEF SlotInv, Commit
    <2>3. clock'.next = NextTickAfter(staged[w])  BY DEF Commit
    <2> QED  BY <2>1, <2>2, <2>3, NextTickNat, NextTickIsLater
  <1>3. Spec => []SlotInv  BY <1>1, SlotStep, EngineInvariant, PTL DEF Spec
  <1> QED  BY <1>2, <1>3, EngineInvariant, PTL DEF SlotServedOnce

-----------------------------------------------------------------------------
(***************************************************************************)
(* The journal, until a reset of the world begins.                         *)
(***************************************************************************)
LivePcs == {"phases", "stage", "commit"}

(* No reset is under way.                                                  *)
ResetFree == rpc = "none" /\ rdel = {}

TurnPositive == clock.turn >= 1

(* Ids are handed out in order and never return to the sequence.           *)
SeqInv == \A i \in Id : status[i] # "absent" <=> i < seq

(* The row of an attempt that can still commit is the newest one.          *)
LiveRowNewest == \A w \in Worker : pc[w] \in LivePcs => row[w] + 1 = seq

(* The row of a rolled-back attempt that has yet to write FAILED: maybe a  *)
(* recovery was there before it, never a COMPLETED update.                 *)
LoserRow ==
  \A w \in Worker : pc[w] = "failing" =>
    row[w] \in Id /\ status[row[w]] \in {"RUNNING", "FAILED"}

(* No two attempts share a row.                                            *)
RowsDistinct ==
  \A v, w \in Worker :
    v # w /\ pc[v] \in LivePcs \cup {"failing"} /\ pc[w] \in LivePcs \cup {"failing"}
      => row[v] # row[w]

JournalInv ==
  /\ ResetFree /\ TurnPositive /\ SeqInv
  /\ LiveRowRunning /\ LiveRowNewest /\ LoserRow /\ RowsDistinct
  /\ JournalMatchesClock /\ NewestRowDecides

LEMMA JournalInit == Init => JournalInv
  <1> SUFFICES ASSUME Init PROVE JournalInv  OBVIOUS
  <1>1. 2..clock.turn = {}  BY DEF Init
  <1>2. \A i \in Id : status[i] = "absent" /\ ~(i < seq)  BY DEF Init, Id
  <1>3. \A w \in Worker : pc[w] \in {"dead", "wait"}  BY DEF Init
  <1> QED
    BY <1>1, <1>2, <1>3 DEF Init, JournalInv, ResetFree, TurnPositive, SeqInv, LiveRowRunning,
       LiveRowNewest, LoserRow, RowsDistinct, JournalMatchesClock, NewestRowDecides,
       LivePcs

(* A step that leaves clock and journal alone, and enters no new attempt,  *)
(* keeps the invariant.                                                    *)
LEMMA JournalFrame ==
  ASSUME JournalInv, ResetFree', UNCHANGED <<clock, logVars>>,
         \A w \in Worker : pc'[w] \in LivePcs =>
            pc[w] \in LivePcs /\ row'[w] = row[w] /\ turn'[w] = turn[w],
         \A w \in Worker : pc'[w] = "failing" =>
            pc[w] \in LivePcs \cup {"failing"} /\ row'[w] = row[w],
         TypeOK
  PROVE  JournalInv'
  <1> USE DEF JournalInv, LivePcs, logVars
  <1>1. TurnPositive' /\ SeqInv' /\ JournalMatchesClock' /\ NewestRowDecides'
    BY DEF TurnPositive, SeqInv, JournalMatchesClock, NewestRowDecides
  <1>2. LiveRowRunning' /\ LiveRowNewest'
    BY DEF LiveRowRunning, LiveRowNewest
  <1>3. LoserRow'
    BY DEF LoserRow, LiveRowRunning, TypeOK, NoRow
  <1>4. RowsDistinct'  BY DEF RowsDistinct
  <1> QED  BY <1>1, <1>2, <1>3, <1>4

LEMMA EngineTypes ==
  ASSUME EngineInv
  PROVE /\ status \in [Id -> Statuses] /\ logTurn \in [Id -> Nat]
        /\ pc \in [Worker -> Pcs] /\ row \in [Worker -> Id \cup {NoRow}]
        /\ turn \in [Worker -> Nat] /\ clock.turn \in Nat /\ seq \in Nat
        /\ Id \subseteq Nat
  <1>1. Id \subseteq Nat  BY TickAssumption DEF Id
  <1> QED  BY <1>1 DEF EngineInv, TypeOK, ClockRow

LEMMA JournalInsert ==
  ASSUME EngineInv, JournalInv, NEW w \in Worker, InsertRunning(w)
  PROVE  JournalInv'
  <1> USE DEF JournalInv, LivePcs, Goto
  <1>0. /\ lock = w /\ pc[w] = "log" /\ turn[w] = clock.turn + 1
        /\ \A v \in Worker : v # w => pc[v] \notin LockPcs
    BY DEF EngineInv, LockInv, TurnInv, InsertRunning, LockPcs, ClockPcs
  <1>1. status[seq] = "absent" /\ seq \in Id /\ seq' = seq + 1
    BY DEF InsertRunning, SeqInv, EngineInv, TypeOK, Id
  <1>2. /\ status' = [status EXCEPT ![seq] = "RUNNING"]
        /\ logTurn' = [logTurn EXCEPT ![seq] = turn[w]]
        /\ row' = [row EXCEPT ![w] = seq]
        /\ pc' = [pc EXCEPT ![w] = "phases"]
        /\ UNCHANGED <<clock, turn, rpc, rdel>>
    BY <1>1 DEF InsertRunning, resetVars
  <1>3. /\ status \in [Id -> Statuses] /\ logTurn \in [Id -> Nat]
        /\ pc \in [Worker -> Pcs] /\ row \in [Worker -> Id \cup {NoRow}]
        /\ turn \in [Worker -> Nat] /\ clock.turn \in Nat /\ seq \in Nat
        /\ Id \subseteq Nat
    BY EngineTypes
  <1>4. \A v \in Worker : v # w => pc'[v] \notin {"phases", "stage", "commit"}
    BY <1>0, <1>2, <1>3 DEF LockPcs, ClockPcs
  <1>5. ResetFree' /\ TurnPositive'  BY <1>2 DEF ResetFree, TurnPositive
  <1>6. SeqInv'
    BY <1>1, <1>2, <1>3 DEF SeqInv
  <1>7. LiveRowRunning' /\ LiveRowNewest'
    <2>1. row'[w] = seq /\ status'[seq] = "RUNNING" /\ logTurn'[seq] = turn'[w]
      BY <1>1, <1>2, <1>3
    <2>2. seq # NoRow  BY <1>1 DEF Id, NoRow
    <2> QED  BY <1>1, <1>4, <2>1, <2>2 DEF LiveRowRunning, LiveRowNewest
  <1>8. LoserRow'
    <2> SUFFICES ASSUME NEW v \in Worker, pc'[v] = "failing"
                 PROVE  row'[v] \in Id /\ status'[row'[v]] \in {"RUNNING", "FAILED"}
      BY DEF LoserRow
    <2>1. v # w /\ pc[v] = "failing" /\ row'[v] = row[v]  BY <1>2, <1>3
    <2>2. row[v] \in Id /\ status[row[v]] \in {"RUNNING", "FAILED"}
      BY <2>1 DEF LoserRow
    <2> QED  BY <1>1, <1>2, <1>3, <2>1, <2>2
  <1>9. RowsDistinct'
    <2>1. \A v \in Worker : v # w /\ pc'[v] \in {"phases", "stage", "commit", "failing"}
            => row'[v] # seq
      BY <1>1, <1>2, <1>3, <1>4 DEF LoserRow
    <2>2. row'[w] = seq /\ \A v \in Worker : v # w => row'[v] = row[v] /\ pc'[v] = pc[v]
      BY <1>2, <1>3
    <2> QED  BY <2>1, <2>2 DEF RowsDistinct
  <1>10. JournalMatchesClock'
    <2>1. \A i \in Id : status'[i] = "COMPLETED" <=> status[i] = "COMPLETED"
      BY <1>1, <1>2, <1>3
    <2>2. \A i \in Id : status[i] = "COMPLETED" => logTurn'[i] = logTurn[i]
      BY <1>1, <1>2, <1>3
    <2> QED  BY <1>2, <2>1, <2>2 DEF JournalMatchesClock
  <1>11. NewestRowDecides'
    <2>1. \A i \in Id : status'[i] = "COMPLETED" =>
            status[i] = "COMPLETED" /\ i # seq /\ logTurn'[i] = logTurn[i]
            /\ logTurn[i] \in 2..clock.turn
      BY <1>1, <1>2, <1>3 DEF JournalMatchesClock
    <2>2. logTurn'[seq] = clock.turn + 1
      BY <1>0, <1>1, <1>2, <1>3
    <2>3. \A i \in Id : i # seq => status'[i] = status[i] /\ logTurn'[i] = logTurn[i]
      BY <1>1, <1>2, <1>3
    <2> SUFFICES ASSUME NEW i \in Id, NEW j \in Id, status'[i] = "COMPLETED",
                        status'[j] # "absent", i < j
                 PROVE  logTurn'[i] < logTurn'[j]
      BY DEF NewestRowDecides
    <2>4. CASE j = seq
      <3>1. logTurn'[i] \in 2..clock.turn  BY <2>1
      <3> QED  BY <1>3, <2>2, <2>4, <3>1
    <2>5. CASE j # seq
      <3>1. status[i] = "COMPLETED" /\ logTurn'[i] = logTurn[i]  BY <2>1
      <3>2. status[j] # "absent" /\ logTurn'[j] = logTurn[j]  BY <2>3, <2>5
      <3> QED  BY <3>1, <3>2 DEF NewestRowDecides
    <2> QED  BY <2>4, <2>5
  <1> QED  BY <1>5, <1>6, <1>7, <1>8, <1>9, <1>10, <1>11

LEMMA JournalCommit ==
  ASSUME EngineInv, JournalInv, NEW w \in Worker, Commit(w)
  PROVE  JournalInv' /\ \A i \in Id : status'[i] = IF i = row[w] THEN "COMPLETED" ELSE status[i]
  <1> USE DEF JournalInv, LivePcs, Goto
  <1>0. /\ lock = w /\ pc[w] = "commit" /\ turn[w] = clock.turn + 1
        /\ \A v \in Worker : v # w => pc[v] \notin LockPcs
    BY DEF EngineInv, LockInv, TurnInv, Commit, LockPcs, ClockPcs
  <1>1. /\ status \in [Id -> Statuses] /\ logTurn \in [Id -> Nat]
        /\ pc \in [Worker -> Pcs] /\ row \in [Worker -> Id \cup {NoRow}]
        /\ turn \in [Worker -> Nat] /\ clock.turn \in Nat /\ seq \in Nat
        /\ Id \subseteq Nat
    BY EngineTypes
  <1>2. /\ row[w] \in Id /\ row[w] + 1 = seq /\ status[row[w]] = "RUNNING"
        /\ logTurn[row[w]] = clock.turn + 1
    BY <1>0, <1>1 DEF LiveRowRunning, LiveRowNewest
  <1>3. status' = [status EXCEPT ![row[w]] = "COMPLETED"]
    BY <1>2 DEF Commit, SetStatus, NoRow, Id
  <1>4. /\ pc' = [pc EXCEPT ![w] = "pace"] /\ clock'.turn = clock.turn + 1
        /\ UNCHANGED <<logTurn, seq, row, turn, rpc, rdel>>
    BY <1>0 DEF Commit, resetVars
  <1>5. \A v \in Worker : pc'[v] \notin {"phases", "stage", "commit"}
    BY <1>0, <1>1, <1>4 DEF LockPcs, ClockPcs
  <1>6. \A i \in Id : status'[i] = IF i = row[w] THEN "COMPLETED" ELSE status[i]
    BY <1>1, <1>2, <1>3
  <1>7. ResetFree' /\ TurnPositive' /\ SeqInv'
    BY <1>1, <1>2, <1>4, <1>6 DEF ResetFree, TurnPositive, SeqInv
  <1>8. LiveRowRunning' /\ LiveRowNewest'
    BY <1>5 DEF LiveRowRunning, LiveRowNewest
  <1>9. LoserRow' /\ RowsDistinct'
    <2>1. \A v \in Worker : pc'[v] = "failing" => v # w /\ pc[v] = "failing"
      BY <1>1, <1>4
    <2>2. \A v \in Worker : pc'[v] = "failing" => row[v] # row[w]
      BY <1>0, <2>1 DEF RowsDistinct
    <2>3. LoserRow'
      <3> SUFFICES ASSUME NEW v \in Worker, pc'[v] = "failing"
                   PROVE  row[v] \in Id /\ status'[row[v]] \in {"RUNNING", "FAILED"}
        BY <1>4 DEF LoserRow
      <3>1. pc[v] = "failing" /\ row[v] # row[w]  BY <2>1, <2>2
      <3>2. row[v] \in Id /\ status[row[v]] \in {"RUNNING", "FAILED"}
        BY <3>1 DEF LoserRow
      <3> QED  BY <1>6, <3>1, <3>2
    <2>4. RowsDistinct'
      <3>1. \A v \in Worker : pc'[v] \in {"phases", "stage", "commit", "failing"}
              => pc[v] = "failing"
        BY <1>5, <2>1
      <3> QED  BY <1>4, <3>1 DEF RowsDistinct
    <2> QED  BY <2>3, <2>4
  <1>10. JournalMatchesClock'
    <2>1. \A i \in Id : status'[i] = "COMPLETED" => logTurn'[i] \in 2..clock'.turn
      <3> SUFFICES ASSUME NEW i \in Id, status'[i] = "COMPLETED"
                   PROVE  logTurn[i] \in 2..(clock.turn + 1)
        BY <1>4
      <3>1. CASE i = row[w]
        <4>1. clock.turn + 1 >= 2
          BY <1>1 DEF TurnPositive
        <4> QED  BY <1>1, <1>2, <3>1, <4>1
      <3>2. CASE i # row[w]
        <4>1. logTurn[i] \in 2..clock.turn  BY <1>6, <3>2 DEF JournalMatchesClock
        <4> QED  BY <1>1, <4>1
      <3> QED  BY <3>1, <3>2
    <2>2. \A t \in 2..clock'.turn : \E i \in Id : status'[i] = "COMPLETED" /\ logTurn'[i] = t
      <3> SUFFICES ASSUME NEW t \in 2..(clock.turn + 1)
                   PROVE  \E i \in Id : status'[i] = "COMPLETED" /\ logTurn[i] = t
        BY <1>4
      <3>1. CASE t = clock.turn + 1  BY <1>2, <1>6, <3>1
      <3>2. CASE t # clock.turn + 1
        <4>1. t \in 2..clock.turn  BY <1>1, <3>2
        <4>2. PICK i \in Id : status[i] = "COMPLETED" /\ logTurn[i] = t
          BY <4>1 DEF JournalMatchesClock
        <4> QED  BY <1>6, <4>2
      <3> QED  BY <3>1, <3>2
    <2>3. \A i, j \in Id :
            status'[i] = "COMPLETED" /\ status'[j] = "COMPLETED" /\ logTurn'[i] = logTurn'[j]
              => i = j
      <3>1. \A i \in Id : status'[i] = "COMPLETED" /\ i # row[w] => logTurn[i] # clock.turn + 1
        <4> TAKE i \in Id
        <4> HAVE status'[i] = "COMPLETED" /\ i # row[w]
        <4>1. logTurn[i] \in 2..clock.turn  BY <1>6 DEF JournalMatchesClock
        <4> QED  BY <1>1, <4>1
      <3> QED  BY <1>2, <1>4, <1>6, <3>1 DEF JournalMatchesClock
    <2> QED  BY <2>1, <2>2, <2>3 DEF JournalMatchesClock
  <1>11. NewestRowDecides'
    <2> SUFFICES ASSUME NEW i \in Id, NEW j \in Id, status'[i] = "COMPLETED",
                        status'[j] # "absent", i < j
                 PROVE  logTurn[i] < logTurn[j]
      BY <1>4 DEF NewestRowDecides
    <2>1. j < seq  BY <1>2, <1>6 DEF SeqInv
    <2>2. i # row[w]  BY <1>1, <1>2, <2>1
    <2>3. status[i] = "COMPLETED" /\ status[j] # "absent"  BY <1>2, <1>6, <2>2
    <2> QED  BY <2>3 DEF NewestRowDecides
  <1> QED  BY <1>6, <1>7, <1>8, <1>9, <1>10, <1>11

(* A FAILED write or a recovery settles rows that no attempt can complete. *)
LEMMA JournalFailure ==
  ASSUME EngineInv, JournalInv, NEW w \in Worker, WriteFailed(w)
  PROVE  JournalInv' /\ \A i \in Id :
           status[i] \in {"COMPLETED", "FAILED"} => status'[i] = status[i]
  <1> USE DEF JournalInv, LivePcs, Goto
  <1>0. pc[w] = "failing" /\ row[w] \in Id /\ status[row[w]] \in {"RUNNING", "FAILED"}
    BY DEF WriteFailed, LoserRow
  <1>1. status' = [status EXCEPT ![row[w]] = "FAILED"]
    BY <1>0 DEF WriteFailed, SetStatus, NoRow, Id
  <1>2. /\ pc' = [pc EXCEPT ![w] = "pace"]
        /\ UNCHANGED <<clock, logTurn, seq, row, turn, rpc, rdel>>
    BY DEF WriteFailed, resetVars
  <1>3. \A i \in Id : status'[i] = IF i = row[w] THEN "FAILED" ELSE status[i]
    BY <1>0, <1>1, EngineTypes
  <1>4. \A v \in Worker : pc'[v] \in {"phases", "stage", "commit", "failing"} =>
          v # w /\ pc'[v] = pc[v] /\ row[v] # row[w]
    <2>1. \A v \in Worker : pc'[v] \in {"phases", "stage", "commit", "failing"} =>
            v # w /\ pc'[v] = pc[v]
      BY <1>2, EngineTypes
    <2> QED  BY <1>0, <2>1 DEF RowsDistinct
  <1>5. \A i \in Id : status'[i] = "COMPLETED" <=> status[i] = "COMPLETED"
    BY <1>0, <1>3
  <1>6. \A i \in Id : status'[i] = "absent" <=> status[i] = "absent"
    BY <1>0, <1>3
  <1>7. ResetFree' /\ TurnPositive' /\ SeqInv'
    BY <1>2, <1>6 DEF ResetFree, TurnPositive, SeqInv
  <1>8. LiveRowRunning' /\ LiveRowNewest'
    <2> SUFFICES ASSUME NEW v \in Worker, pc'[v] \in {"phases", "stage", "commit"}
                 PROVE  /\ row[v] # NoRow /\ status'[row[v]] = "RUNNING"
                        /\ logTurn[row[v]] = turn[v] /\ row[v] + 1 = seq
      BY <1>2 DEF LiveRowRunning, LiveRowNewest
    <2>1. row[v] # row[w] /\ pc[v] \in {"phases", "stage", "commit"}  BY <1>4
    <2>2. /\ row[v] # NoRow /\ status[row[v]] = "RUNNING"
          /\ logTurn[row[v]] = turn[v] /\ row[v] + 1 = seq
      BY <2>1 DEF LiveRowRunning, LiveRowNewest
    <2>3. row[v] \in Id  BY <2>2, EngineTypes
    <2> QED  BY <1>3, <2>1, <2>2, <2>3
  <1>9. LoserRow'
    <2> SUFFICES ASSUME NEW v \in Worker, pc'[v] = "failing"
                 PROVE  row[v] \in Id /\ status'[row[v]] \in {"RUNNING", "FAILED"}
      BY <1>2 DEF LoserRow
    <2>1. row[v] # row[w] /\ pc[v] = "failing"  BY <1>4
    <2>2. row[v] \in Id /\ status[row[v]] \in {"RUNNING", "FAILED"}
      BY <2>1 DEF LoserRow
    <2> QED  BY <1>3, <2>1, <2>2
  <1>10. RowsDistinct'  BY <1>2, <1>4 DEF RowsDistinct
  <1>11. JournalMatchesClock' /\ NewestRowDecides'
    BY <1>2, <1>5, <1>6 DEF JournalMatchesClock, NewestRowDecides
  <1>12. \A i \in Id : status[i] \in {"COMPLETED", "FAILED"} => status'[i] = status[i]
    BY <1>0, <1>3
  <1> QED  BY <1>7, <1>8, <1>9, <1>10, <1>11, <1>12

LEMMA JournalRecovery ==
  ASSUME EngineInv, JournalInv, NEW w \in Worker, Recover(w)
  PROVE  JournalInv' /\ \A i \in Id :
           status[i] \in {"COMPLETED", "FAILED"} => status'[i] = status[i]
  <1> USE DEF JournalInv, LivePcs, Goto
  <1>0. /\ pc[w] = "recover"
        /\ \A v \in Worker : pc[v] \notin {"phases", "stage", "commit"}
    BY DEF EngineInv, LockInv, Recover, LockPcs, ClockPcs
  <1>1. /\ pc' = [pc EXCEPT ![w] = "wait"]
        /\ UNCHANGED <<clock, logTurn, seq, row, turn, rpc, rdel>>
    BY DEF Recover, resetVars, tickVars
  <1>2. \A i \in Id : status'[i] = IF status[i] = "RUNNING" THEN "FAILED" ELSE status[i]
    BY DEF Recover
  <1>3. \A v \in Worker : pc'[v] \notin {"phases", "stage", "commit"}
    BY <1>0, <1>1, EngineTypes
  <1>4. \A v \in Worker : pc'[v] = "failing" => pc[v] = "failing"
    BY <1>1, EngineTypes
  <1>5. \A i \in Id : status'[i] = "COMPLETED" <=> status[i] = "COMPLETED"
    BY <1>2
  <1>6. \A i \in Id : status'[i] = "absent" <=> status[i] = "absent"
    BY <1>2
  <1>7. ResetFree' /\ TurnPositive' /\ SeqInv'
    BY <1>1, <1>6 DEF ResetFree, TurnPositive, SeqInv
  <1>8. LiveRowRunning' /\ LiveRowNewest'
    BY <1>3 DEF LiveRowRunning, LiveRowNewest
  <1>9. LoserRow'  BY <1>1, <1>2, <1>4 DEF LoserRow
  <1>10. RowsDistinct'  BY <1>1, <1>3, <1>4 DEF RowsDistinct
  <1>11. JournalMatchesClock' /\ NewestRowDecides'
    BY <1>1, <1>5, <1>6 DEF JournalMatchesClock, NewestRowDecides
  <1>12. \A i \in Id : status[i] \in {"COMPLETED", "FAILED"} => status'[i] = status[i]
    BY <1>2
  <1> QED  BY <1>7, <1>8, <1>9, <1>10, <1>11, <1>12

(* A world that no step has begun to reset was so before the step, and the *)
(* step begins no reset.                                                   *)
LEMMA UnresetBefore ==
  ASSUME TypeOK, [Next]_vars, Unreset'
  PROVE  Unreset /\ ~ResetDelete
  <1>0. budget \in [Bounds -> Nat] /\ budget["resets"] <= MaxResets /\ MaxResets \in Nat
    BY TickAssumption DEF TypeOK
  <1>1. ASSUME NEW f \in {"faults", "manual"}, Spend(f)
        PROVE  budget'["resets"] = budget["resets"]
    BY <1>0, <1>1, SpendType DEF Bounds
  <1>2. ~ResetDelete
    BY <1>0, SpendType DEF ResetDelete, Unreset, Bounds
  <1>3. CASE UNCHANGED budget  BY <1>2, <1>3 DEF Unreset
  <1>4. CASE \E f \in {"faults", "manual"} : Spend(f)  BY <1>1, <1>2, <1>4 DEF Unreset
  <1> QED
    BY <1>2, <1>3, <1>4 DEF Next, vars, Advance, Reap, RunTick, Lifecycle, Reset,
       TryLock, ReadClock, InsertRunning, RunPhases, FailPhases, StageCompleted, Commit,
       FailCommit, WriteFailed, Wake, RequestTick, Rest, Crash, Boot, Recover,
       ResetSequence, ResetRead, ResetFlush, ResetCommit, AbortReset, AbortTick

LEMMA JournalStep ==
  ASSUME Unreset', EngineInv, JournalInv, [Next]_vars
  PROVE  JournalInv'
  <1> USE DEF LivePcs, Goto
  <1>r. ~ResetDelete  BY UnresetBefore DEF EngineInv
  <1>0. TypeOK /\ pc \in [Worker -> Pcs] /\ row \in [Worker -> Id \cup {NoRow}]
        /\ turn \in [Worker -> Nat]
    BY DEF EngineInv, TypeOK
  <1>a. ResetFree  BY DEF JournalInv
  <1>1. ASSUME NEW w \in Worker,
               Wake(w) \/ RequestTick(w) \/ TryLock(w) \/ ReadClock(w) \/ RunPhases(w)
               \/ FailPhases(w) \/ StageCompleted(w) \/ FailCommit(w) \/ Boot(w)
        PROVE  JournalInv'
    <2>1. ResetFree' /\ UNCHANGED <<clock, logVars, row>>
      BY <1>1, <1>a DEF ResetFree, Wake, RequestTick, TryLock, ReadClock, RunPhases,
         FailPhases, StageCompleted, FailCommit, Boot, resetVars, tickVars
    <2>2. \A v \in Worker : pc'[v] \in LivePcs =>
            pc[v] \in LivePcs /\ turn'[v] = turn[v]
      BY <1>1, <1>0 DEF Wake, RequestTick, TryLock, ReadClock, RunPhases,
         FailPhases, StageCompleted, FailCommit, Boot, tickVars, Pcs
    <2>3. \A v \in Worker : pc'[v] = "failing" => pc[v] \in LivePcs \cup {"failing"}
      BY <1>1, <1>0 DEF Wake, RequestTick, TryLock, ReadClock, RunPhases,
         FailPhases, StageCompleted, FailCommit, Boot
    <2> QED  BY <1>0, <2>1, <2>2, <2>3, JournalFrame
  <1>2. ASSUME NEW w \in Worker, Rest(w) \/ Crash(w)
        PROVE  JournalInv'
    <2>1. ResetFree' /\ UNCHANGED <<clock, logVars>>
      BY <1>2, <1>a DEF ResetFree, Rest, Crash, resetVars
    <2>2. pc'[w] \in {"dead", "wait"} /\ \A v \in Worker : v # w =>
            pc'[v] = pc[v] /\ row'[v] = row[v] /\ turn'[v] = turn[v]
      BY <1>2, <1>0 DEF Rest, Crash, Forget, TypeOK
    <2> QED  BY <1>0, <2>1, <2>2, JournalFrame
  <1>3. ASSUME NEW w \in Worker, InsertRunning(w) PROVE JournalInv'
    BY <1>3, JournalInsert
  <1>4. ASSUME NEW w \in Worker, Commit(w) PROVE JournalInv'
    BY <1>4, JournalCommit
  <1>5. ASSUME NEW w \in Worker, WriteFailed(w) PROVE JournalInv'
    BY <1>5, JournalFailure
  <1>6. ASSUME NEW w \in Worker, Recover(w) PROVE JournalInv'
    BY <1>6, JournalRecovery
  <1>7. CASE Advance
    BY <1>7, <1>0, <1>a, JournalFrame DEF Advance, ResetFree, resetVars, tickVars
  <1>8. CASE Reap
    BY <1>8, <1>0, <1>a, JournalFrame DEF Reap, ResetFree, resetVars, tickVars
  <1>9. CASE Reset
    BY <1>9, <1>a, <1>r DEF Reset, ResetFree, ResetSequence, ResetRead, ResetFlush,
       ResetCommit, AbortReset, AbortTick, Deadlocked
  <1>10. CASE UNCHANGED vars
    BY <1>10, <1>0, <1>a, JournalFrame DEF vars, ResetFree, resetVars, tickVars
  <1> QED
    BY <1>1, <1>2, <1>3, <1>4, <1>5, <1>6, <1>7, <1>8, <1>9, <1>10
       DEF Next, RunTick, Lifecycle

THEOREM JournalInvariant == Spec => [](EngineInv /\ (Unreset => JournalInv))
  <1>1. Init => EngineInv /\ JournalInv  BY EngineInit, JournalInit
  <1>2. EngineInv /\ (Unreset => JournalInv) /\ [Next]_vars
          => (EngineInv /\ (Unreset => JournalInv))'
    BY EngineStep, JournalStep, UnresetBefore DEF EngineInv
  <1> QED  BY <1>1, <1>2, PTL DEF Spec

(* No recovery ever marks an attempt that can still commit.                *)
THEOREM LiveAttemptsKeepTheirRow == Spec => [](Unreset => LiveRowRunning)
  <1>1. JournalInv => LiveRowRunning  BY DEF JournalInv
  <1> QED  BY <1>1, JournalInvariant, PTL

(* INV-TICK-ATOMICITY: every turn played has exactly one COMPLETED row.    *)
THEOREM JournalIsExact == Spec => [](Unreset => JournalMatchesClock)
  <1>1. JournalInv => JournalMatchesClock  BY DEF JournalInv
  <1> QED  BY <1>1, JournalInvariant, PTL

(* The row with the greatest id is the verdict on its turn.                *)
THEOREM NewestRowIsActual == Spec => [](Unreset => NewestRowDecides)
  <1>1. JournalInv => NewestRowDecides  BY DEF JournalInv
  <1> QED  BY <1>1, JournalInvariant, PTL

(* The journal is sound: the three together.                               *)
THEOREM JournalSound == Spec => []JournalIsSound
  <1>1. JournalInv => LiveRowRunning /\ JournalMatchesClock /\ NewestRowDecides
    BY DEF JournalInv
  <1>2. (Unreset => JournalInv) => JournalIsSound  BY <1>1 DEF JournalIsSound
  <1> QED  BY <1>2, JournalInvariant, PTL

(* How a step can change the committed journal and clock at all.           *)
LEMMA JournalWriters ==
  ASSUME ResetFree, ~ResetDelete, [Next]_vars
  PROVE  \/ UNCHANGED <<clock, status, logTurn>>
         \/ \E w \in Worker : Commit(w)
         \/ UNCHANGED clock /\ \E w \in Worker :
              InsertRunning(w) \/ WriteFailed(w) \/ Recover(w)
  BY DEF ResetFree, Next, vars, logVars, resetVars, Advance, Reap, RunTick, Lifecycle, Reset,
         TryLock, ReadClock, InsertRunning, RunPhases, FailPhases, StageCompleted,
         FailCommit, WriteFailed, Wake, RequestTick, Rest, Crash, Boot, Recover,
         ResetSequence, ResetRead, ResetFlush, ResetCommit, AbortReset, AbortTick,
         Deadlocked

LEMMA InsertKeepsRows ==
  ASSUME EngineInv, JournalInv, NEW w \in Worker, InsertRunning(w)
  PROVE  \A i \in Id : status[i] # "absent" =>
           i # seq /\ status'[i] = status[i] /\ logTurn'[i] = logTurn[i]
  <1>1. status[seq] = "absent" /\ seq \in Id
    BY DEF InsertRunning, JournalInv, SeqInv, EngineInv, TypeOK, Id
  <1>2. status' = [status EXCEPT ![seq] = "RUNNING"]
        /\ logTurn' = [logTurn EXCEPT ![seq] = turn[w]]
    BY <1>1 DEF InsertRunning
  <1> QED  BY <1>1, <1>2, EngineTypes

(* A settled row keeps its verdict: the late FAILED write of a rolled-back *)
(* attempt never hits a COMPLETED row.                                     *)
THEOREM SettledRowsAreFinal == Spec => SettledRowsFinal
  <1>1. ASSUME EngineInv, JournalInv, ~ResetDelete, [Next]_vars
        PROVE  \A i \in Id : status[i] \in {"COMPLETED", "FAILED"} => status'[i] = status[i]
    <2>1. CASE UNCHANGED <<clock, status, logTurn>>  BY <2>1
    <2>2. ASSUME NEW w \in Worker, Commit(w)
          PROVE  \A i \in Id : status[i] \in {"COMPLETED", "FAILED"} => status'[i] = status[i]
      <3>1. status[row[w]] = "RUNNING"
        BY <1>1, <2>2 DEF Commit, JournalInv, LiveRowRunning
      <3> QED  BY <1>1, <2>2, <3>1, JournalCommit
    <2>3. ASSUME NEW w \in Worker, InsertRunning(w)
          PROVE  \A i \in Id : status[i] \in {"COMPLETED", "FAILED"} => status'[i] = status[i]
      BY <1>1, <2>3, InsertKeepsRows
    <2>4. ASSUME NEW w \in Worker, WriteFailed(w)
          PROVE  \A i \in Id : status[i] \in {"COMPLETED", "FAILED"} => status'[i] = status[i]
      BY <1>1, <2>4, JournalFailure
    <2>5. ASSUME NEW w \in Worker, Recover(w)
          PROVE  \A i \in Id : status[i] \in {"COMPLETED", "FAILED"} => status'[i] = status[i]
      BY <1>1, <2>5, JournalRecovery
    <2> QED  BY <1>1, <2>1, <2>2, <2>3, <2>4, <2>5, JournalWriters DEF JournalInv
  <1>2. EngineInv /\ (Unreset => JournalInv) /\ [Next]_vars =>
          [Unreset' => \A i \in Id :
             status[i] \in {"COMPLETED", "FAILED"} => status'[i] = status[i]]_vars
    BY <1>1, UnresetBefore DEF EngineInv
  <1> QED  BY <1>2, JournalInvariant, PTL DEF Spec, SettledRowsFinal

-----------------------------------------------------------------------------
(***************************************************************************)
(* The engine implements TurnLedger.                                       *)
(***************************************************************************)
Played == {logTurn[i] : i \in {j \in Id : status[j] = "COMPLETED"}}

LEMMA LedgerStep ==
  ASSUME EngineInv, Unreset => JournalInv, [Next]_vars
  PROVE  [Ledger!PlayTurn \/ Ledger!Rewind]_(Ledger!vars)
  <1> USE DEF Ledger!PlayTurn, Ledger!Rewind, Ledger!vars
  <1> SUFFICES ASSUME Unreset' PROVE [Ledger!PlayTurn \/ Ledger!Rewind]_(Ledger!vars)
    OBVIOUS
  <1>b. Unreset /\ ~ResetDelete  BY UnresetBefore DEF EngineInv
  <1>0. JournalInv /\ ResetFree  BY <1>b DEF JournalInv
  <1>1. CASE UNCHANGED <<clock, status, logTurn>>  BY <1>1, <1>b
  <1>2. ASSUME NEW w \in Worker, Commit(w) PROVE Ledger!PlayTurn
    <2>1. /\ clock'.turn = clock.turn + 1 /\ logTurn' = logTurn
          /\ row[w] \in Id /\ logTurn[row[w]] = clock.turn + 1
      BY <1>0, <1>2, EngineTypes DEF Commit, EngineInv, TurnInv, ClockPcs, JournalInv,
         LiveRowRunning
    <2>2. \A i \in Id : status'[i] = IF i = row[w] THEN "COMPLETED" ELSE status[i]
      BY <1>0, <1>2, JournalCommit
    <2>3. Played' = Played \cup {clock.turn + 1}
      BY <2>1, <2>2 DEF Played
    <2> QED  BY <1>b, <2>1, <2>3 DEF Played
  <1>3. ASSUME NEW w \in Worker, InsertRunning(w) \/ WriteFailed(w) \/ Recover(w),
               UNCHANGED clock
        PROVE  UNCHANGED Ledger!vars
    <2>1. \A i \in Id : status'[i] = "COMPLETED" <=> status[i] = "COMPLETED"
      <3>1. CASE InsertRunning(w)
        <4>1. status[seq] = "absent" /\ seq \in Id
          BY <1>0, <3>1 DEF InsertRunning, JournalInv, SeqInv, EngineInv, TypeOK, Id
        <4>2. status' = [status EXCEPT ![seq] = "RUNNING"]
          BY <3>1, <4>1 DEF InsertRunning
        <4> QED  BY <4>1, <4>2, EngineTypes
      <3>2. CASE WriteFailed(w)
        <4>1. row[w] \in Id /\ status[row[w]] \in {"RUNNING", "FAILED"}
          BY <1>0, <3>2 DEF WriteFailed, JournalInv, LoserRow
        <4>2. status' = [status EXCEPT ![row[w]] = "FAILED"]
          BY <3>2, <4>1 DEF WriteFailed, SetStatus, NoRow, Id
        <4> QED  BY <4>1, <4>2, EngineTypes
      <3>3. CASE Recover(w)  BY <3>3 DEF Recover
      <3> QED  BY <1>3, <3>1, <3>2, <3>3
    <2>2. \A i \in Id : status[i] = "COMPLETED" => logTurn'[i] = logTurn[i]
      BY <1>0, <1>3, InsertKeepsRows DEF WriteFailed, Recover
    <2>3. Played' = Played  BY <2>1, <2>2 DEF Played
    <2> QED  BY <1>3, <1>b, <2>3 DEF Played
  <1> QED  BY <1>0, <1>b, <1>1, <1>2, <1>3, JournalWriters

(* Every behaviour of the engine is one of the ledger: turns are played    *)
(* one by one, once each, and each of them is on record, until a reset.    *)
THEOREM EngineImplementsLedger == Spec => PlaysTurnsInOrder
  <1>1. Init => Ledger!Init  BY DEF Init, Ledger!Init, Unreset, Bounds
  <1>2. EngineInv /\ (Unreset => JournalInv) /\ [Next]_vars
          => [Ledger!PlayTurn \/ Ledger!Rewind]_(Ledger!vars)
    BY LedgerStep
  <1> QED
    BY <1>1, <1>2, JournalInvariant, PTL DEF Spec, PlaysTurnsInOrder, Ledger!Spec
=============================================================================
