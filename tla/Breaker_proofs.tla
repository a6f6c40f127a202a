--------------------------- MODULE Breaker_proofs ---------------------------
(***************************************************************************)
(* What the breaker guarantees for any number of callers, any window, any  *)
(* ratio and any pattern of late, lost and missing results.                *)
(***************************************************************************)
EXTENDS Breaker, FiniteSetTheorems, TLAPS

(* Out of OPEN, the latest opening, if any, is open_seconds old: HALF_OPEN *)
(* is reached in time, and CLOSED from HALF_OPEN.                          *)
RestInTime == mode # "OPEN" => openedAt = 0 \/ now >= openedAt + OpenFor

IInv == TypeOK /\ RestInTime

(* Folding a result changes the breaker's four fields within their types.  *)
LEMMA FoldTyped ==
  ASSUME TypeOK, NEW success \in BOOLEAN, NEW counts \in BOOLEAN,
         Fold(success, counts), UNCHANGED now
  PROVE  /\ mode' \in Modes
         /\ openedAt' \in 0..now
         /\ probing' \in BOOLEAN /\ (probing' => mode' = "HALF_OPEN")
         /\ window' \in Seq(Result)
         /\ mode' # "OPEN" => mode # "OPEN" /\ openedAt' = openedAt
         /\ mode = "OPEN" => mode' = "OPEN"
<1>1. CASE mode = "HALF_OPEN" /\ FoldProbe(success)
  <2>1. now \in Nat
    BY BreakerAssumption DEF BreakerAssumption, TypeOK
  <2>2. <<>> \in Seq(Result)
    OBVIOUS
  <2>3. probing' = FALSE
    BY <1>1 DEF FoldProbe
  <2>4. mode' \in Modes /\ openedAt' \in 0..now /\ window' \in Seq(Result)
    <3>1. mode \in Modes /\ openedAt \in 0..now /\ window \in Seq(Result)
      BY DEF TypeOK
    <3>2. \/ mode' = mode /\ openedAt' = openedAt /\ window' = window
          \/ mode' = "CLOSED" /\ openedAt' = openedAt /\ window' = <<>>
          \/ mode' = "OPEN" /\ openedAt' = now /\ window' = window
      BY <1>1 DEF FoldProbe
    <3>3. mode' \in Modes
      BY <3>1, <3>2 DEF Modes
    <3>4. openedAt' \in 0..now
      BY <2>1, <3>1, <3>2
    <3>5. window' \in Seq(Result)
      BY <2>2, <3>1, <3>2
    <3> QED
      BY <3>3, <3>4, <3>5
  <2>5. mode' # "OPEN" => mode # "OPEN" /\ openedAt' = openedAt
    BY <1>1 DEF FoldProbe
  <2> QED
    BY <1>1, <2>3, <2>4, <2>5
<1>2. CASE mode = "CLOSED" /\ counts /\ FoldResult(success)
  <2>1. PICK i \in 1..(Len(window) + 1) :
          /\ window' = Append(SubSeq(window, i, Len(window)),
                              [at |-> now, failed |-> ~success])
          /\ IF Trips(window') THEN mode' = "OPEN" /\ openedAt' = now
                               ELSE UNCHANGED <<mode, openedAt>>
          /\ UNCHANGED probing
    BY <1>2 DEF FoldResult
  <2>2. SubSeq(window, i, Len(window)) \in Seq(Result)
    BY DEF TypeOK
  <2>3. [at |-> now, failed |-> ~success] \in Result
    BY DEF TypeOK, Result
  <2>4. window' \in Seq(Result)
    BY <2>1, <2>2, <2>3
  <2> QED
    BY <1>2, <2>1, <2>4 DEF TypeOK, Modes
<1>3. CASE /\ mode = "OPEN" \/ (mode = "CLOSED" /\ ~counts)
           /\ UNCHANGED <<mode, openedAt, probing, window>>
  BY <1>3 DEF TypeOK, Modes
<1> QED
  BY <1>1, <1>2, <1>3 DEF Fold

LEMMA InitInv == Init => IInv
<1> SUFFICES ASSUME Init PROVE IInv
  OBVIOUS
<1> USE BreakerAssumption DEF BreakerAssumption, Init
<1>1. now \in 1..MaxTime /\ openedAt \in 0..now /\ abandons \in Nat
  OBVIOUS
<1>2. mode \in Modes /\ probing \in BOOLEAN /\ (probing => mode = "HALF_OPEN")
  BY DEF Modes
<1>3. call \in [Caller -> {"idle", "send", "probe"}]
  OBVIOUS
<1>4. window \in Seq(Result) /\ results \in Seq(Result)
  OBVIOUS
<1>5. RestInTime
  BY DEF RestInTime
<1> QED
  BY <1>1, <1>2, <1>3, <1>4, <1>5 DEF IInv, TypeOK

(* Every step keeps the types and the time of HALF_OPEN.                   *)
LEMMA NextInv == IInv /\ [Next]_vars => IInv'
<1> SUFFICES ASSUME IInv, [Next]_vars PROVE IInv'
  OBVIOUS
<1> USE BreakerAssumption DEF BreakerAssumption, IInv
<1>1. CASE Tick
  <2>1. now' \in 1..MaxTime /\ now' = now + 1 /\ openedAt' \in 0..now'
    BY <1>1 DEF Tick, TypeOK
  <2>2. (probing \in BOOLEAN /\ (probing => mode = "HALF_OPEN"))'
    BY <1>1 DEF Tick, TypeOK
  <2>3. RestInTime'
    BY <1>1, <2>1 DEF Tick, TypeOK, RestInTime
  <2> QED
    BY <1>1, <2>1, <2>2, <2>3 DEF Tick, TypeOK
<1>2. CASE Peek
  BY <1>2 DEF Peek, Look, State, Expired, TypeOK, RestInTime, Modes
<1>3. ASSUME NEW c \in Caller, Allow(c) PROVE IInv'
  <2>1. call' \in [Caller -> {"idle", "send", "probe"}]
    BY <1>3 DEF Allow, TypeOK
  <2>2. (probing \in BOOLEAN /\ (probing => mode = "HALF_OPEN"))'
    <3>1. probing \in BOOLEAN /\ (probing => mode = "HALF_OPEN")
      BY DEF TypeOK
    <3>2. CASE mode' = mode /\ probing' = probing
      BY <3>1, <3>2
    <3>3. CASE mode' = "HALF_OPEN" /\ probing' = TRUE
      BY <3>3
    <3> QED
      BY <1>3, <3>2, <3>3 DEF Allow
  <2>3. mode' \in Modes /\ RestInTime'
    BY <1>3 DEF Allow, State, Expired, TypeOK, RestInTime, Modes
  <2> QED
    BY <1>3, <2>1, <2>2, <2>3 DEF Allow, TypeOK
<1>4. ASSUME NEW c \in Caller, NEW success \in BOOLEAN, Record(c, success) PROVE IInv'
  <2>1. (c \in Checker \/ ~success) \in BOOLEAN
    OBVIOUS
  <2>2. Fold(success, c \in Checker \/ ~success) /\ UNCHANGED <<now, abandons>>
    BY <1>4 DEF Record
  <2>3. /\ mode' \in Modes
        /\ openedAt' \in 0..now
        /\ probing' \in BOOLEAN /\ (probing' => mode' = "HALF_OPEN")
        /\ window' \in Seq(Result)
        /\ mode' # "OPEN" => mode # "OPEN" /\ openedAt' = openedAt
    BY <2>1, <2>2, FoldTyped
  <2>4. results' \in Seq(Result)
    BY <1>4 DEF Record, TypeOK, Result
  <2>5. call' \in [Caller -> {"idle", "send", "probe"}]
    BY <1>4 DEF Record, TypeOK
  <2> QED
    BY <2>2, <2>3, <2>4, <2>5 DEF TypeOK, RestInTime
<1>5. ASSUME NEW c \in Caller, Abandon(c) PROVE IInv'
  BY <1>5 DEF Abandon, TypeOK, RestInTime, Modes
<1>6. CASE UNCHANGED vars
  BY <1>6 DEF vars, TypeOK, RestInTime, Modes
<1> QED
  BY <1>1, <1>2, <1>3, <1>4, <1>5, <1>6 DEF Next

LEMMA Invariance == Spec => []IInv
  BY InitInv, NextInv, PTL DEF Spec

(* The breaker's fields stay well typed, and the probe flag is only ever   *)
(* set in HALF_OPEN.                                                       *)
THEOREM TypeCorrect == Spec => []TypeOK
<1>1. IInv => TypeOK
  BY DEF IInv
<1> QED
  BY <1>1, Invariance, PTL

(* No call is let through for open_seconds after an opening.               *)
THEOREM QuietWhileOpen == Spec => QuietAfterOpening
<1>1. IInv /\ [Next]_vars =>
        [\A c \in Caller : call[c] = "idle" /\ call'[c] # "idle" =>
           openedAt = 0 \/ now >= openedAt + OpenFor]_vars
  <2> SUFFICES ASSUME IInv, Next, NEW c \in Caller, call[c] = "idle", call'[c] # "idle"
               PROVE  openedAt = 0 \/ now >= openedAt + OpenFor
    BY DEF vars
  <2> USE BreakerAssumption DEF BreakerAssumption
  <2>1. PICK d \in Caller : Allow(d) \/ Record(d, TRUE) \/ Record(d, FALSE) \/ Abandon(d)
    BY DEF Next, Tick, Peek
  <2>2. Allow(d)
    <3>1. ~(Record(d, TRUE) \/ Record(d, FALSE) \/ Abandon(d))
      BY DEF Record, Abandon, IInv, TypeOK
    <3> QED
      BY <2>1, <3>1
  <2> QED
    BY <2>2 DEF Allow, State, Expired, IInv, TypeOK, RestInTime, Modes
<1> QED
  BY <1>1, Invariance, PTL DEF Spec, QuietAfterOpening

(* OPEN is left only for HALF_OPEN, and only in time.                      *)
THEOREM OpenIsKept == Spec => OpenLasts
<1>1. IInv /\ [Next]_vars =>
        [mode = "OPEN" /\ mode' # "OPEN" =>
           mode' = "HALF_OPEN" /\ now >= openedAt + OpenFor]_vars
  <2> SUFFICES ASSUME IInv, Next, mode = "OPEN", mode' # "OPEN"
               PROVE  mode' = "HALF_OPEN" /\ now >= openedAt + OpenFor
    BY DEF vars
  <2> USE BreakerAssumption DEF BreakerAssumption
  <2>1. CASE Peek
    BY <2>1 DEF Peek, Look, State, Expired, IInv, TypeOK
  <2>2. ASSUME NEW c \in Caller, Allow(c) PROVE mode' = "HALF_OPEN" /\ now >= openedAt + OpenFor
    BY <2>2 DEF Allow, State, Expired, IInv, TypeOK
  <2>3. ASSUME NEW c \in Caller, NEW success \in BOOLEAN, Record(c, success) PROVE FALSE
    <3>1. (c \in Checker \/ ~success) \in BOOLEAN
      OBVIOUS
    <3> QED
      BY <2>3, <3>1, FoldTyped DEF Record, IInv
  <2> QED
    BY <2>1, <2>2, <2>3 DEF Next, Tick, Abandon
<1> QED
  BY <1>1, Invariance, PTL DEF Spec, OpenLasts

(* An opening is quiet and lasts.                                          *)
THEOREM OpeningHolds == Spec => OpeningIsQuiet
<1> QED
  BY QuietWhileOpen, OpenIsKept DEF OpeningIsQuiet

-----------------------------------------------------------------------------
(* What stands behind an opening.  The window is a part of what VK has     *)
(* answered: each of its entries is a result of its own, in the order of   *)
(* the clock.                                                              *)
Within(w, r) == {f \in [1..Len(w) -> 1..Len(r)] :
                   /\ \A i \in 1..Len(w) : r[f[i]] = w[i]
                   /\ \A i, j \in 1..Len(w) : f[i] = f[j] => i = j}

Dated(w) == /\ \A i \in 1..Len(w) : w[i].at <= now
            /\ \A i, j \in 1..Len(w) : i < j => w[i].at <= w[j].at

WindowInv == Within(window, results) # {} /\ Dated(window)

LEMMA EntriesTyped ==
  ASSUME NEW w \in Seq(Result)
  PROVE  Len(w) \in Nat /\ \A k \in 1..Len(w) : w[k] \in Result /\ w[k].at \in Nat
<1>1. Len(w) \in Nat /\ \A k \in 1..Len(w) : w[k] \in Result
  OBVIOUS
<1>2. \A x \in Result : x.at \in Nat
  BY DEF Result
<1> QED
  BY <1>1, <1>2

(* A result more leaves the window where it was among the results.         *)
LEMMA WithinMore ==
  ASSUME NEW w \in Seq(Result), NEW r \in Seq(Result), NEW x \in Result,
         Within(w, r) # {}
  PROVE  Within(w, Append(r, x)) # {}
<1> DEFINE s == Append(r, x)
<1>1. PICK f \in Within(w, r) : TRUE
  OBVIOUS
<1>2. f \in [1..Len(w) -> 1..Len(r)] /\ Len(w) \in Nat /\ Len(r) \in Nat
  BY <1>1 DEF Within
<1>3. Len(s) = Len(r) + 1 /\ \A k \in 1..Len(r) : s[k] = r[k]
  OBVIOUS
<1> HIDE DEF s
<1>4. f \in [1..Len(w) -> 1..Len(s)]
  BY <1>2, <1>3
<1>5. \A i \in 1..Len(w) : s[f[i]] = w[i]
  BY <1>1, <1>2, <1>3 DEF Within
<1>6. \A i, j \in 1..Len(w) : f[i] = f[j] => i = j
  BY <1>1 DEF Within
<1>7. f \in Within(w, s)
  BY <1>4, <1>5, <1>6 DEF Within
<1> QED
  BY <1>7 DEF s

(* Counting a result: what is left of the window and the result, which is  *)
(* now the last one.                                                       *)
LEMMA WithinCounted ==
  ASSUME NEW w \in Seq(Result), NEW r \in Seq(Result), NEW x \in Result,
         NEW i \in 1..(Len(w) + 1), Within(w, r) # {}
  PROVE  Within(Append(SubSeq(w, i, Len(w)), x), Append(r, x)) # {}
<1> DEFINE v == Append(SubSeq(w, i, Len(w)), x)
           s == Append(r, x)
<1>1. PICK f \in Within(w, r) : TRUE
  OBVIOUS
<1>2. f \in [1..Len(w) -> 1..Len(r)] /\ Len(w) \in Nat /\ Len(r) \in Nat
  BY <1>1 DEF Within
<1>3. /\ Len(s) = Len(r) + 1 /\ s[Len(r) + 1] = x
      /\ \A k \in 1..Len(r) : s[k] = r[k]
  OBVIOUS
<1>4. /\ Len(v) = Len(w) - i + 2 /\ v[Len(v)] = x
      /\ \A k \in 1..(Len(v) - 1) : v[k] = w[k + i - 1]
  OBVIOUS
<1> HIDE DEF v, s
<1> DEFINE g == [k \in 1..Len(v) |-> IF k = Len(v) THEN Len(r) + 1 ELSE f[k + i - 1]]
<1>5. \A k \in 1..(Len(v) - 1) : k + i - 1 \in 1..Len(w) /\ g[k] = f[k + i - 1] /\ g[k] \in 1..Len(r)
  <2> TAKE k \in 1..(Len(v) - 1)
  <2>1. i \in Nat /\ k \in Nat /\ k <= Len(w) - i + 1 /\ k >= 1 /\ i >= 1 /\ Len(v) \in Nat
    BY <1>2, <1>4
  <2>2. k + i - 1 \in 1..Len(w)
    BY <2>1, <1>2
  <2>3. k \in 1..Len(v) /\ k # Len(v)
    BY <2>1
  <2>4. g[k] = f[k + i - 1]
    BY <2>3
  <2> QED
    BY <2>2, <2>4, <1>2
<1>6. Len(v) \in Nat /\ Len(v) \in 1..Len(v) /\ g[Len(v)] = Len(r) + 1
  BY <1>2, <1>4
<1>7. g \in [1..Len(v) -> 1..Len(s)]
  <2>1. \A k \in 1..Len(v) : g[k] \in 1..Len(s)
    <3> HIDE DEF g
    <3> TAKE k \in 1..Len(v)
    <3>1. k = Len(v) \/ k \in 1..(Len(v) - 1)
      BY <1>6
    <3>2. CASE k = Len(v)
      BY <3>2, <1>2, <1>3, <1>6
    <3>3. CASE k \in 1..(Len(v) - 1)
      <4>1. g[k] \in 1..Len(r)
        BY <3>3, <1>5
      <4> QED
        BY <4>1, <1>2, <1>3
    <3> QED
      BY <3>1, <3>2, <3>3
  <2> QED
    BY <2>1
<1> HIDE DEF g
<1>8. \A k \in 1..Len(v) : s[g[k]] = v[k]
  <2> TAKE k \in 1..Len(v)
  <2>1. CASE k = Len(v)
    BY <2>1, <1>3, <1>4, <1>6
  <2>2. CASE k # Len(v)
    <3>1. k \in 1..(Len(v) - 1)
      BY <2>2, <1>6
    <3>2. r[f[k + i - 1]] = w[k + i - 1]
      BY <3>1, <1>1, <1>5 DEF Within
    <3> QED
      BY <3>1, <3>2, <1>3, <1>4, <1>5
  <2> QED
    BY <2>1, <2>2
<1>9. \A k, l \in 1..Len(v) : g[k] = g[l] => k = l
  <2> SUFFICES ASSUME NEW k \in 1..Len(v), NEW l \in 1..Len(v), g[k] = g[l] PROVE k = l
    OBVIOUS
  <2>1. CASE k = Len(v) \/ l = Len(v)
    <3>1. k \in 1..(Len(v) - 1) \/ k = Len(v)
      BY <1>6
    <3>2. l \in 1..(Len(v) - 1) \/ l = Len(v)
      BY <1>6
    <3> QED
      BY <2>1, <3>1, <3>2, <1>2, <1>5, <1>6
  <2>2. CASE k # Len(v) /\ l # Len(v)
    <3>1. k \in 1..(Len(v) - 1) /\ l \in 1..(Len(v) - 1)
      BY <2>2, <1>6
    <3>2. f[k + i - 1] = f[l + i - 1] /\ k + i - 1 \in 1..Len(w) /\ l + i - 1 \in 1..Len(w)
      BY <3>1, <1>5
    <3>3. k + i - 1 = l + i - 1
      BY <3>2, <1>1 DEF Within
    <3> QED
      BY <3>1, <3>3, <1>6
  <2> QED
    BY <2>1, <2>2
<1>10. g \in Within(v, s)
  BY <1>7, <1>8, <1>9 DEF Within
<1> QED
  BY <1>10 DEF v, s

(* The window after pruning and counting is dated, and all of it recent.   *)
LEMMA CountedIsRecent ==
  ASSUME TypeOK, Dated(window), NEW i \in 1..(Len(window) + 1), FirstKept(i),
         NEW x \in Result, x.at = now
  PROVE  LET v == Append(SubSeq(window, i, Len(window)), x)
         IN  v \in Seq(Result) /\ Dated(v) /\ \A k \in 1..Len(v) : now - v[k].at <= Window
<1> DEFINE v == Append(SubSeq(window, i, Len(window)), x)
<1>1. /\ window \in Seq(Result) /\ Len(window) \in Nat /\ now \in Nat /\ Window \in Nat
      /\ \A k \in 1..Len(window) : window[k].at \in Nat
  <2>1. window \in Seq(Result) /\ now \in Nat /\ Window \in Nat
    BY BreakerAssumption DEF TypeOK, BreakerAssumption
  <2> QED
    BY <2>1, EntriesTyped
<1>2. v \in Seq(Result)
  BY <1>1
<1>3. /\ Len(v) = Len(window) - i + 2 /\ v[Len(v)] = x
      /\ \A k \in 1..(Len(v) - 1) : v[k] = window[k + i - 1]
  BY <1>1
<1> HIDE DEF v
<1>4. \A k \in 1..(Len(v) - 1) : k + i - 1 \in 1..Len(window) /\ k + i - 1 >= i /\ i <= Len(window)
  BY <1>1, <1>3
<1>5. \A k \in 1..Len(v) : k = Len(v) \/ k \in 1..(Len(v) - 1)
  <2>1. Len(v) \in Nat
    BY <1>1, <1>3
  <2> QED
    BY <2>1
<1>6. \A k \in 1..(Len(v) - 1) : v[k].at \in Nat /\ v[k].at <= now
  BY <1>1, <1>3, <1>4 DEF Dated
<1>7. \A k \in 1..Len(v) : v[k].at \in Nat /\ v[k].at <= now
  BY <1>1, <1>3, <1>5, <1>6
<1>8. \A k, l \in 1..Len(v) : k < l => v[k].at <= v[l].at
  <2> SUFFICES ASSUME NEW k \in 1..Len(v), NEW l \in 1..Len(v), k < l
               PROVE  v[k].at <= v[l].at
    OBVIOUS
  <2>1. CASE l = Len(v)
    BY <2>1, <1>1, <1>3, <1>7
  <2>2. CASE l # Len(v)
    <3>1. k \in 1..(Len(v) - 1) /\ l \in 1..(Len(v) - 1)
      BY <2>2, <1>1, <1>3
    <3>2. k + i - 1 < l + i - 1 /\ k + i - 1 \in 1..Len(window) /\ l + i - 1 \in 1..Len(window)
      BY <3>1, <1>1, <1>3
    <3>3. window[k + i - 1].at <= window[l + i - 1].at
      BY <3>2 DEF Dated
    <3> QED
      BY <3>1, <3>3, <1>3
  <2> QED
    BY <2>1, <2>2
<1>9. \A k \in 1..Len(v) : now - v[k].at <= Window
  <2> TAKE k \in 1..Len(v)
  <2>1. CASE k = Len(v)
    BY <2>1, <1>1, <1>3
  <2>2. CASE k \in 1..(Len(v) - 1)
    <3>1. i \in 1..Len(window) /\ now - window[i].at <= Window
      BY <2>2, <1>1, <1>4 DEF FirstKept
    <3>2. k + i - 1 \in 1..Len(window) /\ (k + i - 1 = i \/ i < k + i - 1)
      BY <2>2, <1>1, <1>4
    <3>3. window[i].at <= window[k + i - 1].at
      BY <3>1, <3>2, <1>1 DEF Dated
    <3>4. window[i].at \in Nat /\ window[k + i - 1].at \in Nat
      BY <3>1, <3>2, <1>1
    <3>5. now - window[k + i - 1].at <= Window
      <4>1. \A t, d, p, q \in Int : t - p <= d /\ p <= q => t - q <= d
        OBVIOUS
      <4> DEFINE p == window[i].at
                 q == window[k + i - 1].at
      <4>2. now \in Int /\ Window \in Int /\ p \in Int /\ q \in Int
        BY <1>1, <3>4
      <4>3. now - p <= Window /\ p <= q
        BY <3>1, <3>3
      <4> HIDE DEF p, q
      <4>4. now - q <= Window
        BY <4>1, <4>2, <4>3
      <4> QED
        BY <4>4 DEF q
    <3> QED
      BY <2>2, <3>5, <1>3
  <2> QED
    BY <2>1, <2>2, <1>5
<1> QED
  BY <1>2, <1>7, <1>8, <1>9 DEF v, Dated

LEMMA WindowStart == Init => WindowInv
<1> SUFFICES ASSUME Init PROVE WindowInv
  OBVIOUS
<1>1. window = <<>> /\ Len(window) = 0 /\ results = <<>> /\ Len(results) = 0
  BY DEF Init
<1>2. [i \in 1..0 |-> 1] \in Within(window, results)
  BY <1>1 DEF Within
<1>3. Dated(window)
  BY <1>1 DEF Dated
<1> QED
  BY <1>2, <1>3 DEF WindowInv

(* What folding does to the window: nothing, the reset that a good probe   *)
(* makes, or the pruning and the entry of a counted result.                *)
LEMMA FoldWindow ==
  ASSUME NEW success \in BOOLEAN, NEW counts \in BOOLEAN, Fold(success, counts)
  PROVE  \/ window' = window
         \/ window' = <<>>
         \/ \E i \in 1..(Len(window) + 1) :
              /\ FirstKept(i)
              /\ window' = Append(SubSeq(window, i, Len(window)), [at |-> now, failed |-> ~success])
<1>1. CASE mode = "HALF_OPEN" /\ FoldProbe(success)
  BY <1>1 DEF FoldProbe
<1>2. CASE mode = "CLOSED" /\ counts /\ FoldResult(success)
  BY <1>2 DEF FoldResult
<1> QED
  BY <1>1, <1>2 DEF Fold

LEMMA EmptyWindow ==
  ASSUME NEW r \in Seq(Result)
  PROVE  Within(<<>>, r) # {} /\ Dated(<<>>)
<1>1. [i \in 1..0 |-> 1] \in Within(<<>>, r)
  BY DEF Within
<1>2. Dated(<<>>)
  BY DEF Dated
<1> QED
  BY <1>1, <1>2

LEMMA WindowStep == IInv /\ WindowInv /\ [Next]_vars => WindowInv'
<1> SUFFICES ASSUME IInv, WindowInv, [Next]_vars PROVE WindowInv'
  OBVIOUS
<1>1. CASE UNCHANGED <<window, results>> /\ now' \in Nat /\ now <= now'
  <2>1. Len(window) \in Nat /\ now \in Nat /\ \A i \in 1..Len(window) : window[i].at \in Nat
    <3>1. window \in Seq(Result) /\ now \in Nat
      BY BreakerAssumption DEF IInv, TypeOK, BreakerAssumption
    <3> QED
      BY <3>1, EntriesTyped
  <2>2. \A i \in 1..Len(window') : window'[i].at <= now'
    BY <1>1, <2>1 DEF WindowInv, Dated
  <2>3. \A i, j \in 1..Len(window') : i < j => window'[i].at <= window'[j].at
    BY <1>1 DEF WindowInv, Dated
  <2>4. Within(window', results') # {}
    BY <1>1 DEF WindowInv
  <2> QED
    BY <2>2, <2>3, <2>4 DEF WindowInv, Dated
<1>2. ASSUME NEW c \in Caller, NEW success \in BOOLEAN, Record(c, success) PROVE WindowInv'
  <2> DEFINE x == [at |-> now, failed |-> ~success]
  <2>1. x \in Result /\ x.at = now
    BY BreakerAssumption DEF IInv, TypeOK, Result, BreakerAssumption
  <2>2. results' = Append(results, x) /\ now' = now
    BY <1>2 DEF Record
  <2>3. window \in Seq(Result) /\ results \in Seq(Result) /\ Append(results, x) \in Seq(Result)
    BY <2>1 DEF IInv, TypeOK
  <2>4. Within(window', results') # {} /\ Dated(window')
    <3>1. /\ (c \in Checker \/ ~success) \in BOOLEAN
          /\ Fold(success, c \in Checker \/ ~success)
      BY <1>2 DEF Record
    <3>2. CASE window' = window
      <4>1. Within(window, Append(results, x)) # {}
        BY <2>1, <2>3, WithinMore DEF WindowInv
      <4> QED
        BY <3>2, <4>1, <2>2 DEF WindowInv
    <3>3. CASE window' = <<>>
      BY <3>3, <2>2, <2>3, EmptyWindow
    <3>4. ASSUME NEW i \in 1..(Len(window) + 1), FirstKept(i),
                 window' = Append(SubSeq(window, i, Len(window)), x)
          PROVE  Within(window', results') # {} /\ Dated(window')
      <4>1. Within(window', results') # {}
        <5> HIDE DEF x
        <5> QED
          BY <3>4, <2>1, <2>2, <2>3, WithinCounted DEF WindowInv
      <4>2. Dated(window')
        <5> HIDE DEF x
        <5> QED
          BY <3>4, <2>1, CountedIsRecent DEF WindowInv, IInv
      <4> QED
        BY <4>1, <4>2
    <3> QED
      BY <3>1, <3>2, <3>3, <3>4, FoldWindow
  <2> QED
    BY <2>2, <2>4 DEF WindowInv, Dated
<1>3. now \in Nat
  BY BreakerAssumption DEF IInv, TypeOK, BreakerAssumption
<1>4. CASE Tick
  BY <1>1, <1>3, <1>4 DEF Tick
<1>5. CASE Peek
  BY <1>1, <1>3, <1>5 DEF Peek
<1>6. ASSUME NEW c \in Caller, Allow(c) \/ Abandon(c) PROVE WindowInv'
  BY <1>1, <1>3, <1>6 DEF Allow, Abandon
<1>7. CASE UNCHANGED vars
  BY <1>1, <1>3, <1>7 DEF vars
<1> QED
  BY <1>2, <1>4, <1>5, <1>6, <1>7 DEF Next

(* An opening of a closed breaker counts results that VK has given.        *)
LEMMA CountsStand ==
  ASSUME NEW w \in Seq(Result), NEW r \in Seq(Result), now \in Nat, Within(w, r) # {},
         \A k \in 1..Len(w) : now - w[k].at <= Window
  PROVE  /\ Cardinality(Lately(r)) \in Nat /\ Len(w) <= Cardinality(Lately(r))
         /\ Failures(w) \in Nat
         /\ Cardinality({i \in Lately(r) : r[i].failed}) \in Nat
         /\ Failures(w) <= Cardinality({i \in Lately(r) : r[i].failed})
<1> DEFINE F == {k \in 1..Len(w) : w[k].failed}
           G == {i \in Lately(r) : r[i].failed}
<1>1. PICK f \in Within(w, r) : TRUE
  OBVIOUS
<1>2. f \in [1..Len(w) -> 1..Len(r)] /\ Len(w) \in Nat /\ Len(r) \in Nat /\ DOMAIN r = 1..Len(r)
  BY <1>1 DEF Within
<1>3. IsFiniteSet(1..Len(w)) /\ Cardinality(1..Len(w)) = Len(w) /\ IsFiniteSet(1..Len(r))
  <2>1. \A n \in Nat : n \in Int /\ 1 \in Int /\ (IF 1 > n THEN 0 ELSE n - 1 + 1) = n
    OBVIOUS
  <2>2. \A n \in Nat : IsFiniteSet(1..n) /\ Cardinality(1..n) = n
    <3> TAKE n \in Nat
    <3>1. IsFiniteSet(1..n) /\ Cardinality(1..n) = IF 1 > n THEN 0 ELSE n - 1 + 1
      BY <2>1, FS_Interval
    <3> QED
      BY <3>1, <2>1
  <2> QED
    BY <2>2, <1>2
<1>4. Lately(r) \in SUBSET (1..Len(r)) /\ G \in SUBSET Lately(r) /\ F \in SUBSET (1..Len(w))
  BY <1>2 DEF Lately
<1>5. IsFiniteSet(Lately(r)) /\ IsFiniteSet(F)
  BY <1>3, <1>4, FS_Subset
<1>6. IsFiniteSet(G)
  BY <1>4, <1>5, FS_Subset
<1>7. \A k \in 1..Len(w) : f[k] \in Lately(r) /\ (w[k].failed => f[k] \in G)
  BY <1>1, <1>2 DEF Within, Lately
<1>8. f \in Injection(1..Len(w), Lately(r))
  <2>1. f \in [1..Len(w) -> Lately(r)]
    BY <1>2, <1>7
  <2> QED
    BY <2>1, <1>1 DEF Injection, IsInjective, Within
<1>9. Len(w) <= Cardinality(Lately(r))
  BY <1>3, <1>5, <1>8, FS_Injection
<1>10. [k \in F |-> f[k]] \in Injection(F, G)
  <2>1. [k \in F |-> f[k]] \in [F -> G]
    BY <1>7
  <2>2. \A k, l \in F : f[k] = f[l] => k = l
    BY <1>1 DEF Within
  <2> QED
    BY <2>1, <2>2 DEF Injection, IsInjective
<1>11. Cardinality(F) <= Cardinality(G)
  BY <1>6, <1>10, FS_Injection
<1>12. Cardinality(F) \in Nat /\ Cardinality(G) \in Nat /\ Cardinality(Lately(r)) \in Nat
  BY <1>5, <1>6, FS_CardinalityType
<1> QED
  BY <1>9, <1>11, <1>12 DEF Failures

LEMMA RatioOfMore ==
  ASSUME NEW f \in Nat, NEW g \in Nat, NEW n \in Nat, NEW m \in Nat, NEW d \in Nat, NEW q \in Nat,
         f <= g, m <= n, f * d >= q * n
  PROVE  g * d >= q * m
<1>1. g * d >= f * d
  <2>1. PICK e \in Nat : g = f + e
    <3>1. g - f \in Nat /\ g = f + (g - f)
      OBVIOUS
    <3> QED
      BY <3>1
  <2>2. g * d = f * d + e * d /\ e * d \in Nat /\ f * d \in Nat
    BY <2>1
  <2> QED
    BY <2>2
<1>2. q * n >= q * m
  <2>1. PICK e \in Nat : n = m + e
    <3>1. n - m \in Nat /\ n = m + (n - m)
      OBVIOUS
    <3> QED
      BY <3>1
  <2>2. q * n = q * m + q * e /\ q * e \in Nat /\ q * m \in Nat
    BY <2>1
  <2> QED
    BY <2>2
<1>3. g * d \in Nat /\ f * d \in Nat /\ q * n \in Nat /\ q * m \in Nat
  OBVIOUS
<1> QED
  BY <1>1, <1>2, <1>3

(* A closed breaker opens on results that VK has really given within the   *)
(* window: at least MinAttempts of them, and enough of those failures.     *)
THEOREM OpeningIsEarned == Spec => FailuresStandBehindOpening
<1> DEFINE Step == mode = "CLOSED" /\ mode' = "OPEN" =>
                     /\ Cardinality(Lately(results')) >= MinAttempts
                     /\ Cardinality({i \in Lately(results') : results'[i].failed}) * Den >= Num * MinAttempts
<1>1. IInv /\ WindowInv /\ [Next]_vars => [Step]_vars
  <2> SUFFICES ASSUME IInv, WindowInv, Next, mode = "CLOSED", mode' = "OPEN"
               PROVE  /\ Cardinality(Lately(results')) >= MinAttempts
                      /\ Cardinality({i \in Lately(results') : results'[i].failed}) * Den >= Num * MinAttempts
    BY DEF vars
  <2>1. PICK c \in Caller, success \in BOOLEAN : Record(c, success)
    <3>1. ~Tick /\ ~Peek /\ \A c \in Caller : ~Allow(c) /\ ~Abandon(c)
      BY DEF Tick, Peek, Allow, Abandon, Look, State, Expired
    <3>2. TRUE \in BOOLEAN /\ FALSE \in BOOLEAN
      OBVIOUS
    <3> QED
      BY <3>1, <3>2 DEF Next
  <2> DEFINE x == [at |-> now, failed |-> ~success]
  <2>2. FoldResult(success)
    BY <2>1 DEF Record, Fold, FoldProbe
  <2>3. PICK i \in 1..(Len(window) + 1) :
          /\ FirstKept(i)
          /\ window' = Append(SubSeq(window, i, Len(window)), x)
          /\ Trips(window')
    BY <2>2 DEF FoldResult
  <2>4. x \in Result /\ x.at = now /\ now \in Nat
    BY BreakerAssumption DEF IInv, TypeOK, Result, BreakerAssumption
  <2>5. results' = Append(results, x) /\ now' = now
    BY <2>1 DEF Record
  <2> HIDE DEF x
  <2>6. window' \in Seq(Result) /\ \A k \in 1..Len(window') : now - window'[k].at <= Window
    BY <2>3, <2>4, CountedIsRecent DEF IInv, WindowInv
  <2>7. results' \in Seq(Result) /\ Within(window', results') # {}
    BY <2>3, <2>4, <2>5, WithinCounted DEF IInv, TypeOK, WindowInv
  <2>8. /\ Cardinality(Lately(results')) \in Nat /\ Len(window') <= Cardinality(Lately(results'))
        /\ Failures(window') \in Nat
        /\ Cardinality({k \in Lately(results') : results'[k].failed}) \in Nat
        /\ Failures(window') <= Cardinality({k \in Lately(results') : results'[k].failed})
    BY <2>4, <2>6, <2>7, CountsStand
  <2>9. Len(window') \in Nat /\ MinAttempts \in Nat /\ Num \in Nat /\ Den \in Nat
    BY <2>6, BreakerAssumption DEF BreakerAssumption
  <2>10. Len(window') >= MinAttempts /\ Failures(window') * Den >= Num * Len(window')
    BY <2>3 DEF Trips
  <2>11. Cardinality({k \in Lately(results') : results'[k].failed}) * Den >= Num * MinAttempts
    BY <2>8, <2>9, <2>10, RatioOfMore
  <2>12. Cardinality(Lately(results')) >= MinAttempts
    BY <2>8, <2>9, <2>10
  <2> QED
    BY <2>11, <2>12
<1>2. Spec => []WindowInv
  BY WindowStart, WindowStep, Invariance, PTL DEF Spec
<1>3. FailuresStandBehindOpening <=> [][Step]_vars
  BY DEF FailuresStandBehindOpening
<1> HIDE DEF Step
<1> QED
  BY <1>1, <1>2, <1>3, Invariance, PTL DEF Spec
=============================================================================
