----------------------------- MODULE TickEngine -----------------------------
(***************************************************************************)
(* The daily tick of PAX ATOMICA: TickOrchestrator.run_tick, the scheduler *)
(* loop and the admin's manual run that call it, the boot-time recovery of *)
(* the tick journal and the world reset, as transactions of one database.  *)
(*                                                                         *)
(* Several application instances share the database (an overlapping deploy)*)
(* and each runs one scheduler loop; admin requests call run_tick as well. *)
(* A step is one database statement or commit.  Postgres is modelled by    *)
(* what the code relies on: the advisory transaction lock, the row lock of *)
(* SELECT .. FOR UPDATE, row locks of uncommitted writes, and the deadlock *)
(* detector.                                                               *)
(***************************************************************************)
EXTENDS Integers

CONSTANTS
  Scheduler,      \* scheduler loops, one per application instance
  Admin,          \* admin requests POST /tick/run
  NoWorker,       \* nobody holds the advisory lock
  Ghost,          \* a dead client's connection the database has not reaped
  Day,            \* length of a day in time units: one slot per day
  MaxTime,        \* bound: the last instant
  MaxLog,         \* bound: tick_log ids
  MaxFaults,      \* bound: failures and crashes
  MaxManual,      \* bound: manual runs
  MaxResets,      \* bound: world resets
  MaxTroubles,    \* bound: failures, manual runs and resets together
  ResetAllowed    \* the ADMIN_ALLOW_RESET environment gate

Worker == Scheduler \cup Admin
Id     == 1..MaxLog

ASSUME TickAssumption ==
  /\ Day \in Nat \ {0}
  /\ MaxTime \in Nat /\ MaxLog \in Nat /\ MaxFaults \in Nat
  /\ MaxManual \in Nat /\ MaxResets \in Nat /\ MaxTroubles \in Nat
  /\ ResetAllowed \in BOOLEAN
  /\ Scheduler \cap Admin = {}
  /\ NoWorker \notin Worker /\ Ghost \notin Worker /\ NoWorker # Ghost

VARIABLES
  now,        \* wall clock
  clock,      \* committed game_clock row: turn, last (0 = never), next
  status,     \* committed tick_log: id -> status, "absent" when no row
  logTurn,    \* committed tick_log: id -> turn_number
  seq,        \* next value of the tick_log identity sequence
  lock,       \* holder of TICK_ADVISORY_LOCK_KEY
  pc,         \* where each worker stands
  turn,       \* run_tick's next_turn
  row,        \* run_tick's tick_log_id
  staged,     \* the instant finalize_tick wrote into the open transaction
  outcome,    \* the last TickOutcome run_scheduled_tick returned
  rpc,        \* where the reset transaction stands
  rdel,       \* tick_log ids the open reset transaction has deleted
  rread,      \* the game_clock row the reset loaded
  rnew,       \* the values the reset assigned to it
  budget      \* what is left of the bounds: faults, manual runs, resets, all of them

logVars   == <<status, logTurn, seq>>
tickVars  == <<turn, row, staged, outcome>>
resetVars == <<rpc, rdel, rread, rnew>>
vars == <<now, clock, logVars, lock, pc, tickVars, resetVars, budget>>

NoRow == 0

(* next_tick_after: the next local tick time strictly after the instant.   *)
NextTickAfter(t) == ((t \div Day) + 1) * Day

Statuses == {"absent", "RUNNING", "COMPLETED", "FAILED"}
Outcomes == {"none", "EXECUTED", "SKIPPED_LOCKED", "SKIPPED_NOT_DUE", "FAILED"}
(* The steps at which a tick's transaction holds the game_clock row lock,  *)
(* and those at which a transaction holds the advisory lock.               *)
ClockPcs == {"log", "phases", "stage", "commit"}
LockPcs  == {"locked", "recover"} \cup ClockPcs
Pcs      == {"dead", "wait", "begin", "failing", "pace"} \cup LockPcs
ResetPcs == {"none", "deleted", "seq", "read", "commit"}
ClockRow == [turn : Nat, last : Nat, next : Nat]
Bounds   == {"faults", "manual", "resets", "troubles"}

TypeOK ==
  /\ now \in Nat
  /\ clock \in ClockRow
  /\ status \in [Id -> Statuses]
  /\ logTurn \in [Id -> Nat]
  /\ seq \in Nat \ {0}
  /\ lock \in Worker \cup {NoWorker, Ghost}
  /\ pc \in [Worker -> Pcs]
  /\ turn \in [Worker -> Nat]
  /\ row \in [Worker -> Id \cup {NoRow}]
  /\ staged \in [Worker -> Nat]
  /\ outcome \in [Worker -> Outcomes]
  /\ rpc \in ResetPcs
  /\ rdel \in SUBSET Id
  /\ rread \in ClockRow
  /\ rnew \in ClockRow
  /\ budget \in [Bounds -> Nat] /\ budget["resets"] <= MaxResets

Init ==
  /\ now = 0
  /\ clock = [turn |-> 1, last |-> 0, next |-> Day]
  /\ status = [i \in Id |-> "absent"]
  /\ logTurn = [i \in Id |-> 0]
  /\ seq = 1
  /\ lock = NoWorker
  /\ pc = [w \in Worker |-> IF w \in Scheduler THEN "dead" ELSE "wait"]
  /\ turn = [w \in Worker |-> 0]
  /\ row = [w \in Worker |-> NoRow]
  /\ staged = [w \in Worker |-> 0]
  /\ outcome = [w \in Worker |-> "none"]
  /\ rpc = "none"
  /\ rdel = {}
  /\ rread = clock
  /\ rnew = clock
  /\ budget = [b \in Bounds |-> IF b = "faults" THEN MaxFaults
                               ELSE IF b = "manual" THEN MaxManual
                               ELSE IF b = "resets" THEN MaxResets ELSE MaxTroubles]

-----------------------------------------------------------------------------
(* What one transaction waits for in another: row and sequence locks.      *)

ClockHeldByTick   == lock = Ghost \/ \E w \in Worker : pc[w] \in ClockPcs
LogHeldByTick     == lock = Ghost \/ \E w \in Worker : pc[w] = "commit"
ClockHeldByReset  == rpc = "commit" /\ rread # rnew
SequenceHeld      == rpc \in {"seq", "read", "commit"}
RowHeldByReset(w) == row[w] \in rdel

(* The end of w's transaction, by commit or rollback, frees its locks.     *)
Release(w) == lock' = IF lock = w THEN NoWorker ELSE lock
Goto(w, p) == pc' = [pc EXCEPT ![w] = p]
Answer(w, o) == outcome' = [outcome EXCEPT ![w] = o]
Forget(w) ==   \* the locals of the call are gone
  /\ turn' = [turn EXCEPT ![w] = 0] /\ row' = [row EXCEPT ![w] = NoRow]
  /\ staged' = [staged EXCEPT ![w] = 0] /\ outcome' = [outcome EXCEPT ![w] = "none"]
Spend(f) ==
  /\ budget[f] > 0 /\ budget["troubles"] > 0
  /\ budget' = [b \in Bounds |-> IF b \in {f, "troubles"} THEN budget[b] - 1 ELSE budget[b]]

(* A row that is gone (the reset removed it) is matched by no UPDATE.      *)
SetStatus(i, s) ==
  status' = IF i # NoRow /\ status[i] # "absent"
            THEN [status EXCEPT ![i] = s] ELSE status

-----------------------------------------------------------------------------
(* Variants of the steps below with a mistake in them: each one is what    *)
(* some property of this module is there to exclude.                       *)

(* The result of pg_try_advisory_xact_lock is not looked at.               *)
TryLockIgnored(w) ==
  /\ pc[w] = "begin"
  /\ lock' = IF lock = NoWorker THEN w ELSE lock
  /\ Goto(w, "locked")
  /\ UNCHANGED <<now, clock, logVars, tickVars, resetVars, budget>>

(* No schedule re-check under the lock.                                    *)
ReadClockUnchecked(w) ==
  /\ pc[w] = "locked" /\ ~ClockHeldByReset
  /\ Goto(w, "log") /\ turn' = [turn EXCEPT ![w] = clock.turn + 1]
  /\ UNCHANGED <<now, clock, logVars, lock, row, staged, outcome, resetVars, budget>>

(* The turn is counted by the journal's rows.                              *)
ReadClockByJournal(w) ==
  /\ pc[w] = "locked" /\ (w \in Admin \/ clock.next <= now)
  /\ ~ClockHeldByReset /\ Goto(w, "log") /\ turn' = [turn EXCEPT ![w] = seq + 1]
  /\ UNCHANGED <<now, clock, logVars, lock, row, staged, outcome, resetVars, budget>>

(* A handler raised, but what the tick wrote is committed all the same.    *)
FailPhasesCommitted(w) ==
  /\ pc[w] = "phases" /\ Spend("faults")
  /\ clock' = [clock EXCEPT !.turn = turn[w]]
  /\ Goto(w, "failing") /\ Release(w)
  /\ UNCHANGED <<now, logVars, tickVars, resetVars>>

(* COMPLETED is written on a second connection, before the commit.         *)
StageCompletedApart(w) ==
  /\ pc[w] = "stage" /\ ~RowHeldByReset(w)
  /\ SetStatus(row[w], "COMPLETED") /\ Goto(w, "commit")
  /\ UNCHANGED <<now, clock, logTurn, seq, lock, tickVars, resetVars, budget>>

(* A failed tick ends the loop.                                            *)
RestAfterSuccess(w) ==
  /\ pc[w] = "pace" /\ outcome[w] # "FAILED"
  /\ Goto(w, "wait") /\ Forget(w)
  /\ UNCHANGED <<now, clock, logVars, lock, resetVars, budget>>

(* The recovery's UPDATE has lost its WHERE.                               *)
RecoverEveryRow(w) ==
  /\ pc[w] = "recover"
  /\ status' = [i \in Id |-> IF status[i] # "absent" THEN "FAILED" ELSE "absent"]
  /\ Goto(w, "wait") /\ Release(w)
  /\ UNCHANGED <<now, clock, logTurn, seq, tickVars, resetVars, budget>>

-----------------------------------------------------------------------------
(* The wall clock.                                                         *)
Advance ==
  /\ now < MaxTime
  /\ now' = now + 1
  /\ UNCHANGED <<clock, logVars, lock, pc, tickVars, resetVars, budget>>

(* scheduler_loop: _read_next_tick_at saw a due slot.                      *)
Wake(w) ==
  /\ w \in Scheduler /\ pc[w] = "wait" /\ clock.next <= now
  /\ Goto(w, "begin")
  /\ UNCHANGED <<now, clock, logVars, lock, tickVars, resetVars, budget>>

(* admin_tick_run: the manual run, never gated by the schedule.            *)
RequestTick(w) ==
  /\ w \in Admin /\ pc[w] = "wait"
  /\ Spend("manual")
  /\ Goto(w, "begin")
  /\ UNCHANGED <<now, clock, logVars, lock, tickVars, resetVars>>

(* pg_try_advisory_xact_lock, the first statement of run_tick.             *)
TryLock(w) ==
  /\ pc[w] = "begin"
  /\ \/ /\ lock = NoWorker
        /\ lock' = w /\ Goto(w, "locked")
        /\ UNCHANGED outcome
     \/ /\ lock # NoWorker
        /\ Goto(w, "pace") /\ Answer(w, "SKIPPED_LOCKED")
        /\ UNCHANGED lock
  /\ UNCHANGED <<now, clock, logVars, turn, row, staged, resetVars, budget>>

(* The schedule re-check under the clock row lock, then current_turn.      *)
ReadClock(w) ==
  /\ pc[w] = "locked"
  /\ ~ClockHeldByReset /\ \A v \in Worker : pc[v] \notin ClockPcs
  /\ \/ /\ w \in Scheduler /\ clock.next > now
        /\ Goto(w, "pace") /\ Answer(w, "SKIPPED_NOT_DUE") /\ Release(w)
        /\ UNCHANGED turn
     \/ /\ w \in Admin \/ clock.next <= now
        /\ Goto(w, "log") /\ turn' = [turn EXCEPT ![w] = clock.turn + 1]
        /\ UNCHANGED <<outcome, lock>>
  /\ UNCHANGED <<now, clock, logVars, row, staged, resetVars, budget>>

(* The RUNNING row, committed on a connection of its own.  A key the reset *)
(* left in use is an IntegrityError before the try block: no FAILED write. *)
InsertRunning(w) ==
  /\ pc[w] = "log" /\ seq \in Id /\ ~SequenceHeld
  /\ seq' = seq + 1
  /\ \/ /\ status[seq] = "absent"
        /\ status' = [status EXCEPT ![seq] = "RUNNING"]
        /\ logTurn' = [logTurn EXCEPT ![seq] = turn[w]]
        /\ row' = [row EXCEPT ![w] = seq]
        /\ Goto(w, "phases")
        /\ UNCHANGED <<lock, outcome>>
     \/ /\ status[seq] # "absent"
        /\ Goto(w, "pace") /\ Answer(w, "FAILED") /\ Release(w)
        /\ UNCHANGED <<status, logTurn, row>>
  /\ UNCHANGED <<now, clock, turn, staged, resetVars, budget>>

(* Every phase handler and finalize_tick ran in the open transaction.      *)
RunPhases(w) ==
  /\ pc[w] = "phases"
  /\ staged' = [staged EXCEPT ![w] = now]
  /\ Goto(w, "stage")
  /\ UNCHANGED <<now, clock, logVars, lock, turn, row, outcome, resetVars, budget>>

(* A handler raised: the rollback comes first and frees the locks.         *)
FailPhases(w) ==
  /\ pc[w] = "phases"
  /\ Spend("faults")
  /\ Goto(w, "failing") /\ Release(w)
  /\ UNCHANGED <<now, clock, logVars, tickVars, resetVars>>

(* The COMPLETED update, in the tick's own transaction.                    *)
StageCompleted(w) ==
  /\ pc[w] = "stage" /\ ~RowHeldByReset(w)
  /\ Goto(w, "commit")
  /\ UNCHANGED <<now, clock, logVars, lock, tickVars, resetVars, budget>>

(* session.begin() commits: clock and journal row appear together.         *)
Commit(w) ==
  /\ pc[w] = "commit"
  /\ clock' = [turn |-> turn[w], last |-> staged[w],
               next |-> NextTickAfter(staged[w])]
  /\ SetStatus(row[w], "COMPLETED")
  /\ Goto(w, "pace") /\ Answer(w, "EXECUTED") /\ Release(w)
  /\ UNCHANGED <<now, logTurn, seq, turn, row, staged, resetVars, budget>>

(* The commit itself fails, outside run_tick's try block.                  *)
FailCommit(w) ==
  /\ pc[w] = "commit"
  /\ Spend("faults")
  /\ Goto(w, "pace") /\ Answer(w, "FAILED") /\ Release(w)
  /\ UNCHANGED <<now, clock, logVars, turn, row, staged, resetVars>>

(* The FAILED update on a separate session, after the rollback.            *)
WriteFailed(w) ==
  /\ pc[w] = "failing" /\ ~RowHeldByReset(w)
  /\ SetStatus(row[w], "FAILED")
  /\ Goto(w, "pace") /\ Answer(w, "FAILED")
  /\ UNCHANGED <<now, clock, logTurn, seq, lock, turn, row, staged, resetVars,
                 budget>>

(* The scheduler's retry delay is over, or the admin has the answer.       *)
Rest(w) ==
  /\ pc[w] = "pace"
  /\ Goto(w, "wait") /\ Forget(w)
  /\ UNCHANGED <<now, clock, logVars, lock, resetVars, budget>>

-----------------------------------------------------------------------------
(* A worker is killed, or cancelled at shutdown: CancelledError is no      *)
(* Exception, so run_tick writes nothing.  Its connection lingers.         *)
Crash(w) ==
  /\ pc[w] # "dead" /\ (pc[w] = "wait" => w \in Scheduler)
  /\ Spend("faults")
  /\ lock' = IF lock = w THEN Ghost ELSE lock
  /\ Goto(w, IF w \in Scheduler THEN "dead" ELSE "wait") /\ Forget(w)
  /\ UNCHANGED <<now, clock, logVars, resetVars>>

(* The database notices the dead client and rolls its transaction back.    *)
Reap ==
  /\ lock = Ghost
  /\ lock' = NoWorker
  /\ UNCHANGED <<now, clock, logVars, pc, tickVars, resetVars, budget>>

(* lifespan boots the instance: recover_interrupted_ticks tries the lock.  *)
Boot(w) ==
  /\ w \in Scheduler /\ pc[w] = "dead"
  /\ \/ /\ lock = NoWorker
        /\ lock' = w /\ Goto(w, "recover")
     \/ /\ lock # NoWorker
        /\ Goto(w, "wait")
        /\ UNCHANGED lock
  /\ UNCHANGED <<now, clock, logVars, tickVars, resetVars, budget>>

(* mark_interrupted_ticks and the commit that releases the lock.           *)
Recover(w) ==
  /\ pc[w] = "recover"
  /\ \A i \in rdel : status[i] # "RUNNING"
  /\ status' = [i \in Id |-> IF status[i] = "RUNNING" THEN "FAILED" ELSE status[i]]
  /\ Goto(w, "wait") /\ Release(w)
  /\ UNCHANGED <<now, clock, logTurn, seq, tickVars, resetVars, budget>>

-----------------------------------------------------------------------------
(* The world reset: 00_core's admin_reset takes no advisory lock.          *)

(* DELETE FROM tick_log, of the rows it sees.                              *)
ResetDelete ==
  /\ ResetAllowed /\ rpc = "none" /\ ~LogHeldByTick
  /\ Spend("resets")
  /\ rdel' = {i \in Id : status[i] # "absent"}
  /\ rpc' = "deleted"
  /\ UNCHANGED <<now, clock, logVars, lock, pc, tickVars, rread, rnew>>

(* ALTER SEQUENCE .. RESTART WITH 1, transactional.                        *)
ResetSequence ==
  /\ rpc = "deleted"
  /\ rpc' = "seq"
  /\ UNCHANGED <<now, clock, logVars, lock, pc, tickVars, rdel, rread, rnew, budget>>

(* The clock is loaded without a lock and its attributes assigned.         *)
ResetRead ==
  /\ rpc = "seq"
  /\ rread' = clock
  /\ rnew' = [turn |-> 1, last |-> 0, next |-> NextTickAfter(now)]
  /\ rpc' = "read"
  /\ UNCHANGED <<now, clock, logVars, lock, pc, tickVars, rdel, budget>>

(* flush(): an UPDATE of the columns that differ, or no statement at all.  *)
ResetFlush ==
  /\ rpc = "read"
  /\ rread # rnew => ~ClockHeldByTick
  /\ rpc' = "commit"
  /\ UNCHANGED <<now, clock, logVars, lock, pc, tickVars, rdel, rread, rnew, budget>>

ResetCommit ==
  /\ rpc = "commit"
  /\ clock' = [turn |-> IF rnew.turn # rread.turn THEN 1 ELSE clock.turn,
               last |-> IF rnew.last # rread.last THEN 0 ELSE clock.last,
               next |-> IF rnew.next # rread.next THEN rnew.next ELSE clock.next]
  /\ status' = [i \in Id |-> IF i \in rdel THEN "absent" ELSE status[i]]
  /\ seq' = 1
  /\ rpc' = "none" /\ rdel' = {}
  /\ UNCHANGED <<now, logTurn, lock, pc, tickVars, rread, rnew, budget>>

(* The reset waits for the clock row and the tick for the journal row: the *)
(* database aborts one of the two.                                         *)
Deadlocked(w) ==
  /\ pc[w] = "stage" /\ RowHeldByReset(w)
  /\ rpc = "read" /\ rread # rnew

AbortTick(w) ==
  /\ Deadlocked(w)
  /\ Goto(w, "failing") /\ Release(w)
  /\ UNCHANGED <<now, clock, logVars, tickVars, resetVars, budget>>

AbortReset ==
  /\ \E w \in Worker : Deadlocked(w)
  /\ rpc' = "none" /\ rdel' = {}
  /\ UNCHANGED <<now, clock, logVars, lock, pc, tickVars, rread, rnew, budget>>

-----------------------------------------------------------------------------
RunTick(w) ==
  \/ TryLock(w) \/ ReadClock(w) \/ InsertRunning(w) \/ RunPhases(w)
  \/ FailPhases(w) \/ StageCompleted(w) \/ Commit(w) \/ FailCommit(w)
  \/ WriteFailed(w)

Lifecycle(w) == Wake(w) \/ RequestTick(w) \/ Rest(w) \/ Crash(w) \/ Boot(w) \/ Recover(w)

Reset ==
  \/ ResetDelete \/ ResetSequence \/ ResetRead \/ ResetFlush \/ ResetCommit
  \/ AbortReset \/ \E w \in Worker : AbortTick(w)

Next == Advance \/ Reap \/ Reset \/ \E w \in Worker : RunTick(w) \/ Lifecycle(w)

Spec == Init /\ [][Next]_vars

(* The loop of every instance keeps running, a booting container boots, a  *)
(* statement that is not blocked is executed, dead clients are reaped.     *)
TickFairness(w) ==
  /\ WF_vars(Boot(w)) /\ WF_vars(Recover(w)) /\ WF_vars(Wake(w)) /\ WF_vars(Rest(w))
  /\ WF_vars(TryLock(w)) /\ WF_vars(ReadClock(w)) /\ WF_vars(InsertRunning(w))
  /\ WF_vars(RunPhases(w)) /\ WF_vars(StageCompleted(w)) /\ WF_vars(Commit(w))
  /\ WF_vars(WriteFailed(w))

ResetFairness ==
  /\ WF_vars(ResetSequence) /\ WF_vars(ResetRead) /\ WF_vars(ResetFlush)
  /\ WF_vars(ResetCommit) /\ WF_vars(AbortReset)

Fairness ==
  /\ WF_vars(Advance) /\ WF_vars(Reap) /\ ResetFairness
  /\ \A w \in Worker : TickFairness(w)

FairSpec == Spec /\ Fairness

-----------------------------------------------------------------------------
(* Safety of every configuration.                                          *)

(* The tick mutex: no two workers are ever past the advisory lock at once, *)
(* whatever crashes, lingering connections and recoveries do.              *)
SingleTick ==
  \A v, w \in Worker : pc[v] \in LockPcs /\ pc[w] \in LockPcs => v = w

(* INV-5: the committed turn moves by exactly +1, by a tick, although      *)
(* next_turn was read long before the commit; only a reset rewinds it.     *)
TurnStepsByOne ==
  [][clock'.turn # clock.turn => clock'.turn = clock.turn + 1 \/ ResetCommit]_vars

(* A slot is served by one automatic tick: a scheduler's tick commits only *)
(* a slot that was due, and moves the schedule past it.                    *)
SlotServedOnce ==
  [][\A w \in Scheduler :
       Commit(w) => clock.next <= staged[w] /\ clock.next < clock'.next]_vars

-----------------------------------------------------------------------------
(* Safety of the journal, as long as no reset of the world has begun.      *)
Unreset == budget["resets"] = MaxResets

(* The recovery of another instance never marks an attempt that can still  *)
(* commit: its row is RUNNING and carries its turn until it ends.          *)
LiveRowRunning ==
  \A w \in Worker : pc[w] \in {"phases", "stage", "commit"} =>
    row[w] # NoRow /\ status[row[w]] = "RUNNING" /\ logTurn[row[w]] = turn[w]

(* INV-TICK-ATOMICITY: the journal and the clock agree.  Every turn played *)
(* has exactly one COMPLETED row, and no row claims a turn not played.     *)
JournalMatchesClock ==
  /\ \A i \in Id : status[i] = "COMPLETED" => logTurn[i] \in 2..clock.turn
  /\ \A t \in 2..clock.turn :
       \E i \in Id : status[i] = "COMPLETED" /\ logTurn[i] = t
  /\ \A i, j \in Id :
       status[i] = "COMPLETED" /\ status[j] = "COMPLETED" /\ logTurn[i] = logTurn[j]
         => i = j

(* "The record with the greatest id is the actual one": once a turn is     *)
(* COMPLETED, no later row of that turn exists.                            *)
NewestRowDecides ==
  \A i, j \in Id :
    status[i] = "COMPLETED" /\ status[j] # "absent" /\ i < j
      => logTurn[i] < logTurn[j]

(* The journal can be trusted, whatever fails while it is written: live    *)
(* attempts keep their rows, the rows agree with the clock, and the newest *)
(* one decides, until a reset of the world begins.                         *)
JournalIsSound ==
  Unreset => LiveRowRunning /\ JournalMatchesClock /\ NewestRowDecides

(* A settled row is never settled again: neither the late FAILED write of  *)
(* a rolled-back attempt nor a recovery changes a verdict; a reset may.    *)
SettledRowsFinal ==
  [][Unreset' => \A i \in Id :
       status[i] \in {"COMPLETED", "FAILED"} => status'[i] = status[i]]_vars

(* Seen from outside, the engine plays the turns of TurnLedger one by one. *)
Ledger == INSTANCE TurnLedger WITH
            current <- clock.turn,
            played  <- {logTurn[i] : i \in {j \in Id : status[j] = "COMPLETED"}},
            rewound <- ~Unreset

(* Locks, retries, lost races, crashes and recoveries are invisible: the   *)
(* engine implements "turns are played once each, in order, and each one   *)
(* is on record".                                                          *)
PlaysTurnsInOrder == Ledger!Spec

-----------------------------------------------------------------------------
(* Liveness.                                                               *)

(* A due slot is eventually served, through failed ticks, crashes and lost *)
(* races for the lock, once the faults stop: "a failed tick never stops    *)
(* the schedule" (scheduler.py).  With a reset on its way this is not so:  *)
(* a tick and a reset can wait for each other outside of the database.     *)
DueSlotIsServed == (Unreset /\ clock.next <= now) ~> (clock.next > now \/ ~Unreset)

(* A tick whose COMPLETED update waits for a reset that waits for its      *)
(* clock row gets out of it.                                               *)
TickEnds == \A w \in Worker : (pc[w] = "stage") ~> (pc[w] # "stage")

DueSlotServed == DueSlotIsServed /\ TickEnds

-----------------------------------------------------------------------------
(* Statements of the sources that the code does not keep.                  *)

(* scheduler.py: "the orchestrator already guarantees the failed attempt   *)
(* is atomic and recorded in tick_log": an attempt that answered FAILED    *)
(* has left no RUNNING row of its own.                                     *)
FailedAttemptRecorded ==
  \A w \in Worker :
    pc[w] = "pace" /\ outcome[w] = "FAILED" /\ row[w] # NoRow
      => status[row[w]] # "RUNNING"

(* admin_reset: it "deletes ... the whole tick_log journal (restarting its *)
(* id counter at 1), and rewinds game_clock to turn 1".                    *)
ResetLeavesFreshWorld ==
  [][ResetCommit => clock'.turn = 1 /\ \A i \in Id : status'[i] = "absent"]_vars
=============================================================================
