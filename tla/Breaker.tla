------------------------------ MODULE Breaker ------------------------------
(***************************************************************************)
(* The circuit breaker of the bot's VK calls (breaker.py) and the callers  *)
(* that share it: the sends of one process, up to sender.concurrency at a  *)
(* time, and the on-demand consent checks.  A caller asks allow(), awaits  *)
(* the rate limiter, the database and VK, and then calls record() - or     *)
(* returns early and never does.                                           *)
(***************************************************************************)
EXTENDS Integers, Sequences, FiniteSets

CONSTANTS
  Caller,       \* coroutines that may be between allow() and record()
  Checker,      \* those among them that run check_allowed
  Window,       \* breaker.window_seconds
  MinAttempts,  \* breaker.min_attempts
  Num, Den,     \* breaker.failure_ratio = Num / Den
  OpenFor,      \* breaker.open_seconds
  MaxTime,      \* bound: the last instant
  MaxResults,   \* bound: results recorded when a closed breaker takes a call
  MaxAbandons   \* bound: early returns after allow()

ASSUME BreakerAssumption ==
  /\ Checker \subseteq Caller
  /\ {Window, MaxResults, MaxAbandons} \subseteq Nat
  /\ {MinAttempts, Num, Den, OpenFor, MaxTime} \subseteq Nat \ {0}
  /\ Num <= Den

VARIABLES
  now,       \* monotonic clock, from 1
  mode,      \* _state
  openedAt,  \* _opened_at, 0 before the first opening
  probing,   \* _probe_in_flight
  window,    \* _window: counted results, oldest first
  call,      \* what each caller is doing
  results,   \* every result a caller has had from VK, oldest first
  abandons   \* early returns left

vars == <<now, mode, openedAt, probing, window, call, results, abandons>>

Modes  == {"CLOSED", "OPEN", "HALF_OPEN"}
Result == [at : Nat, failed : BOOLEAN]

TypeOK ==
  /\ now \in 1..MaxTime
  /\ mode \in Modes
  /\ openedAt \in 0..now
  /\ probing \in BOOLEAN /\ (probing => mode = "HALF_OPEN")
  /\ window \in Seq(Result)
  /\ call \in [Caller -> {"idle", "send", "probe"}]
  /\ results \in Seq(Result)
  /\ abandons \in Nat

Init ==
  /\ now = 1
  /\ mode = "CLOSED"
  /\ openedAt = 0
  /\ probing = FALSE
  /\ window = <<>>
  /\ call = [c \in Caller |-> "idle"]
  /\ results = <<>>
  /\ abandons = MaxAbandons

(* A variant with a mistake in it: HALF_OPEN without looking at the clock.  *)
ExpiredAtOnce == mode = "OPEN"

(* The `state` property: reading it turns an expired OPEN into HALF_OPEN.  *)
Expired == mode = "OPEN" /\ now - openedAt >= OpenFor
State   == IF Expired THEN "HALF_OPEN" ELSE mode

Failures(s) == Cardinality({i \in 1..Len(s) : s[i].failed})
Trips(s)    == Len(s) >= MinAttempts /\ Failures(s) * Den >= Num * Len(s)

-----------------------------------------------------------------------------
(* Variants with a mistake in them, for the properties to exclude.         *)

(* The window is not pruned.                                               *)
FirstKeptEver(i) == i = 1

-----------------------------------------------------------------------------
(* record(success, counts).                                                *)

(* popleft ends at the first entry still in the window.                    *)
FirstKept(i) ==
  /\ \A j \in 1..(i - 1) : now - window[j].at > Window
  /\ i <= Len(window) => now - window[i].at <= Window

FoldResult(success) ==
  \E i \in 1..(Len(window) + 1) :
    /\ FirstKept(i)
    /\ window' = Append(SubSeq(window, i, Len(window)), [at |-> now, failed |-> ~success])
    /\ IF Trips(window') THEN mode' = "OPEN" /\ openedAt' = now
                         ELSE UNCHANGED <<mode, openedAt>>
    /\ UNCHANGED probing

FoldProbe(success) ==
  /\ probing' = FALSE
  /\ \/ ~probing /\ UNCHANGED <<mode, openedAt, window>>
     \/ probing /\ success /\ mode' = "CLOSED" /\ window' = <<>> /\ UNCHANGED openedAt
     \/ probing /\ ~success /\ mode' = "OPEN" /\ openedAt' = now /\ UNCHANGED window

Fold(success, counts) ==
  \/ mode = "HALF_OPEN" /\ FoldProbe(success)
  \/ mode = "CLOSED" /\ counts /\ FoldResult(success)
  \/ /\ mode = "OPEN" \/ (mode = "CLOSED" /\ ~counts)
     /\ UNCHANGED <<mode, openedAt, probing, window>>

(* Reading `state` - by allow(), or by the admin view - stores what it is. *)
Look ==
  /\ mode' = State
  /\ probing' = IF Expired THEN FALSE ELSE probing

Peek ==
  /\ Expired /\ Look
  /\ UNCHANGED <<now, openedAt, window, call, results, abandons>>

(* allow() answers True: a send of a closed breaker, or the probe.         *)
Allow(c) ==
  /\ call[c] = "idle"
  /\ \/ /\ State = "CLOSED" /\ Len(results) < MaxResults
        /\ call' = [call EXCEPT ![c] = "send"]
        /\ UNCHANGED <<mode, probing>>
     \/ /\ State = "HALF_OPEN" /\ (probing => Expired)
        /\ call' = [call EXCEPT ![c] = "probe"]
        /\ mode' = "HALF_OPEN" /\ probing' = TRUE
  /\ UNCHANGED <<now, openedAt, window, results, abandons>>

(* VK answered, or the request failed.  The sender counts nothing but the  *)
(* failures of the counted classes; check_allowed counts every answer.     *)
Record(c, success) ==
  /\ call[c] # "idle"
  /\ Fold(success, c \in Checker \/ ~success)
  /\ results' = Append(results, [at |-> now, failed |-> ~success])
  /\ call' = [call EXCEPT ![c] = "idle"]
  /\ UNCHANGED <<now, abandons>>

(* allow() said True, but the lease was lost, a row had expired, the text  *)
(* did not render, or the limiter took too long: record() is never called. *)
Abandon(c) ==
  /\ call[c] # "idle" /\ abandons > 0
  /\ abandons' = abandons - 1
  /\ call' = [call EXCEPT ![c] = "idle"]
  /\ UNCHANGED <<now, mode, openedAt, probing, window, results>>

Tick ==
  /\ now < MaxTime
  /\ now' = now + 1
  /\ UNCHANGED <<mode, openedAt, probing, window, call, results, abandons>>

Next ==
  \/ Tick \/ Peek
  \/ \E c \in Caller : Allow(c) \/ Record(c, TRUE) \/ Record(c, FALSE) \/ Abandon(c)

Spec == Init /\ [][Next]_vars

(* Calls end (they have timeouts) and the sender keeps asking.             *)
FairSpec ==
  /\ Spec /\ WF_vars(Tick)
  /\ WF_vars(\E c \in Caller : Allow(c))
  /\ \A c \in Caller : WF_vars(Record(c, TRUE) \/ Record(c, FALSE) \/ Abandon(c))

-----------------------------------------------------------------------------
(* Safety.                                                                 *)

(* After an opening no call is let through for open_seconds, however late  *)
(* the results of the calls before it come in: neither a send nor a probe. *)
QuietAfterOpening ==
  [][\A c \in Caller : call[c] = "idle" /\ call'[c] # "idle" =>
       openedAt = 0 \/ now >= openedAt + OpenFor]_vars

(* The breaker leaves OPEN only for HALF_OPEN, and only in time.           *)
OpenLasts ==
  [][mode = "OPEN" /\ mode' # "OPEN" =>
       mode' = "HALF_OPEN" /\ now >= openedAt + OpenFor]_vars

(* An opening is quiet and lasts: the two together.                        *)
OpeningIsQuiet == QuietAfterOpening /\ OpenLasts

(* The results of s that came within the window.                           *)
Lately(s) == {i \in DOMAIN s : now - s[i].at <= Window}

(* A closed breaker opens on what VK has answered lately: MinAttempts      *)
(* results within the window, of which the ratio of MinAttempts failed.    *)
FailuresStandBehindOpening ==
  [][mode = "CLOSED" /\ mode' = "OPEN" =>
       /\ Cardinality(Lately(results')) >= MinAttempts
       /\ Cardinality({i \in Lately(results') : results'[i].failed}) * Den >= Num * MinAttempts]_vars

(* HALF_OPEN is left in the end: the queue is never shut for good.         *)
ProbeDecides == (mode = "HALF_OPEN") ~> (mode # "HALF_OPEN")

-----------------------------------------------------------------------------
(* Statements of the sources that the code does not keep.                  *)

(* breaker.py: the breaker "admits exactly one probe in HALF_OPEN".        *)
OneProbe == Cardinality({c \in Caller : call[c] = "probe"}) <= 1

(* breaker.py: "Only the probe's own record resolves HALF_OPEN."           *)
ProbeResolves ==
  [][mode = "HALF_OPEN" /\ mode' # "HALF_OPEN" =>
       \E c \in Caller : call[c] = "probe" /\ call'[c] = "idle"]_vars

(* 02_bot.md: n is the number of requests in the window and f the failures *)
(* among them; the breaker opens when f/n reaches the ratio.               *)
OpensOnRatio ==
  [][mode = "CLOSED" /\ mode' = "OPEN" =>
       Cardinality({i \in Lately(results') : results'[i].failed}) * Den
         >= Num * Cardinality(Lately(results'))]_vars
=============================================================================
