------------------------------- MODULE Outbox -------------------------------
(***************************************************************************)
(* The notification queue of the bot (module 02_bot): bot_outbox rows, the *)
(* sender's claim - lease - send - write cycle, cancel_pending, the consent*)
(* signals, the janitor and the shutdown, against a VK that may lose,      *)
(* delay or refuse a message and drops a repeated random_id.               *)
(*                                                                         *)
(* A step is one transaction of the database or one event of the VK wire.  *)
(* A row stands for one event (player, type, event_key): the unique key    *)
(* makes a second enqueue of a stored event a no-op.  A group's random_id  *)
(* lives and dies with its group_id, so one Gid stands for both.           *)
(***************************************************************************)
EXTENDS Integers, FiniteSets, FiniteSetsExt

CONSTANTS
  Row,          \* outbox rows; among equally old ones the lesser id is first
  Player,
  Owner,        \* [Row -> Player]
  Kind,         \* [Row -> Kinds]
  Ttl,          \* [Row -> Nat]: ttl_minutes of the row's type
  Worker,       \* processes running a BotRuntime
  Gid,          \* group_id and random_id values; bound on those in use
  Token,        \* lease_token values; bound on those in use
  None,         \* SQL NULL
  Lease,        \* sender.lease_seconds
  Backoff,      \* the retry delay
  MaxAttempts,  \* sender.max_attempts
  ClaimSize,    \* sender.claim_batch_size
  Cap,          \* limits.daily_cap_normal
  CapWindow,    \* the 24 hours of the cap
  PurgeAfter,   \* sender.purge_after_days
  EnqueueUntil, \* bound: no event is raised after this instant
  MaxTime,      \* bound: the last instant
  MaxFaults,    \* bound: failed sends
  MaxSkips,     \* bound: sends skipped for a pause or an open breaker
  MaxCrashes,   \* bound: crashes and shutdowns
  MaxSignals,   \* bound: consent changes, lost nations, cancellations, resets
  MaxTroubles   \* bound: all of the last four together

(* REPLY: an answer of the dialog.  CRITICAL: priority critical.  SINGLE   *)
(* and MERGED: normal notifications of a type with merge = never or always.*)
Kinds == {"REPLY", "CRITICAL", "SINGLE", "MERGED"}

ASSUME OutboxAssumption ==
  /\ Row \subseteq Nat /\ IsFiniteSet(Row)
  /\ Owner \in [Row -> Player] /\ Kind \in [Row -> Kinds] /\ Ttl \in [Row -> Nat]
  /\ None \notin Gid \cup Token /\ IsFiniteSet(Gid) /\ IsFiniteSet(Token)
  /\ {Lease, Backoff, MaxAttempts, ClaimSize, Cap} \subseteq Nat \ {0}
  /\ {CapWindow, PurgeAfter, EnqueueUntil, MaxTime,
      MaxFaults, MaxSkips, MaxCrashes, MaxSignals, MaxTroubles} \subseteq Nat
  /\ \A r \in Row : 2 * Ttl[r] <= PurgeAfter

VARIABLES
  now,       \* wall clock
  row,       \* bot_outbox
  consent,   \* bot_consents.state
  nation,    \* players that rule a nation
  up,        \* processes alive
  halted,    \* SenderState.halted_auth, per process
  task,      \* groups a process has claimed and not finished with
  wire,      \* requests on their way to VK
  accepted,  \* messages VK has put into a chat, by random_id
  copies,    \* how often each row's text has reached the chat
  budget     \* what is left of the bounds

queueVars  == <<row, consent, nation>>
senderVars == <<up, halted, task>>
vkVars     == <<wire, accepted, copies>>
vars == <<now, queueVars, senderVars, vkVars, budget>>

Terminal == {"SENT", "EXPIRED", "DROPPED", "FAILED"}
Statuses == {"absent", "PENDING", "LEASED", "deleted"} \cup Terminal
RowType  == [status : Statuses, attempts : Nat, created : Nat, next : Nat,
             expires : Nat, until : Nat, token : Token \cup {None},
             group : Gid \cup {None}, sentAt : Nat,
             error : BOOLEAN]   \* last_error_code is set
Group    == [gid : Gid, token : Token, rows : SUBSET Row]
TaskType == [group : Group, stage : {"queued", "checked", "sending"}, at : Nat]
Bounds   == {"faults", "skips", "crashes", "signals", "troubles"}

TypeOK ==
  /\ now \in 0..MaxTime
  /\ row \in [Row -> RowType]
  /\ consent \in [Player -> {"UNKNOWN", "ALLOWED", "DENIED"}]
  /\ nation \subseteq Player
  /\ up \in [Worker -> BOOLEAN]
  /\ halted \in [Worker -> BOOLEAN]
  /\ task \in [Worker -> SUBSET TaskType]
  /\ wire \subseteq Group
  /\ accepted \subseteq [gid : Gid, rows : SUBSET Row]
  /\ copies \in [Row -> Nat]
  /\ budget \in [Bounds -> Nat]

NoRow == [status |-> "absent", attempts |-> 0, created |-> 0, next |-> 0,
          expires |-> 0, until |-> 0, token |-> None, group |-> None, sentAt |-> 0,
          error |-> FALSE]

Init ==
  /\ now = 0
  /\ row = [r \in Row |-> NoRow]
  /\ consent \in [Player -> {"UNKNOWN", "ALLOWED"}]
  /\ nation = Player
  /\ up = [w \in Worker |-> TRUE]
  /\ halted = [w \in Worker |-> FALSE]
  /\ task = [w \in Worker |-> {}]
  /\ wire = {}
  /\ accepted = {}
  /\ copies = [r \in Row |-> 0]
  /\ budget = [b \in Bounds |-> IF b = "faults" THEN MaxFaults
                               ELSE IF b = "skips" THEN MaxSkips
                               ELSE IF b = "crashes" THEN MaxCrashes
                               ELSE IF b = "signals" THEN MaxSignals ELSE MaxTroubles]

Spend(f) ==
  /\ budget[f] > 0 /\ budget["troubles"] > 0
  /\ budget' = [b \in Bounds |-> IF b \in {f, "troubles"} THEN budget[b] - 1 ELSE budget[b]]

-----------------------------------------------------------------------------
(* Variants of operators below with a mistake in them: each one is what    *)
(* some property of this module is there to exclude.                       *)

(* The row write does not look at the lease token.                         *)
HeldByGroup(g) == {r \in Row : row[r].group = g.gid}

(* A lease never runs out.                                                 *)
LeaseKept(x) == x.status = "LEASED" /\ x.until < 0

(* Neither the consent nor the nation is looked at.                        *)
AlwaysWelcome(r) == TRUE

-----------------------------------------------------------------------------
(* Rows.                                                                   *)

Notification(r) == Kind[r] # "REPLY"
Capped(r)       == Kind[r] \in {"SINGLE", "MERGED"}
LeaseLost(x)    == x.status = "LEASED" /\ x.until <= now
Unsent(x)       == x.status = "PENDING" \/ LeaseLost(x)
Welcome(r)      == ~Notification(r) \/ (consent[Owner[r]] = "ALLOWED" /\ Owner[r] \in nation)

(* The lease fields of a settled row are never read again; its group_id is.*)
Settle(x, s) == [x EXCEPT !.status = s, !.until = 0, !.token = None]
Unleased(x)  == [x EXCEPT !.status = "PENDING", !.until = 0, !.token = None]
Dissolved(x) == [Unleased(x) EXCEPT !.group = None]
Refused(x)      == [Unleased(x) EXCEPT !.error = TRUE]
Retried(x, at) == [Refused(x) EXCEPT !.next = at + Backoff]

(* An UPDATE: the rows of X get the value F gives them.                    *)
Rewrite(X, F(_)) == row' = [r \in Row |-> IF r \in X THEN F(row[r]) ELSE row[r]]

(* The rows still held by the lease of group g.                            *)
Held(g) == {r \in Row : /\ row[r].status = "LEASED"
                        /\ row[r].token = g.token /\ row[r].group = g.gid}

Older(t, r, s) == \/ t[r].created < t[s].created
                  \/ t[r].created = t[s].created /\ r < s
Oldest(t, R)   == CHOOSE r \in R : \A s \in R \ {r} : Older(t, r, s)

-----------------------------------------------------------------------------
(* Fresh uuids and random ids: a distinct one for each group of rows, none *)
(* of them in anybody's hands.                                             *)
GidsInUse == {row[r].group : r \in Row} \cup {g.gid : g \in wire}
               \cup UNION {{k.group.gid : k \in task[w]} : w \in Worker}
TokensInUse == {row[r].token : r \in Row} \cup {g.token : g \in wire}
                 \cup UNION {{k.group.token : k \in task[w]} : w \in Worker}
Enough(S, ids) == Cardinality(S) <= Cardinality(ids)
Assign(S, ids) == CHOOSE f \in [S -> ids] : \A a, b \in S : f[a] = f[b] => a = b

(* Variants of the claim, as above: a lease token per group instead of per *)
(* lease; a group that lost a row rejoins with the rows that are left; the *)
(* cap does not count what was sent; the token is left out of the lease;   *)
(* every retry is composed anew.                                           *)
TokensOfGroup(S) ==
  LET old(m) == row[CHOOSE r \in m : TRUE].token
  IN [m \in S |-> IF old(m) # None THEN old(m) ELSE Assign(S, Token \ TokensInUse)[m]]
KeptPartly(t, R) ==
  {{r \in R : t[r].group = g} : g \in {t[r].group : r \in R} \ {None}}
FreeSlotsUncounted(t, p) == Cap
TokensLeftOut(S)  == [m \in S |-> None]
KeptNever(t, R)   == {}

NewTokens(S) == Assign(S, Token \ TokensInUse)

-----------------------------------------------------------------------------
(* The claim, as functions of the table it has made of bot_outbox so far.  *)

(* Steps 1 and 2: expired rows, then pending rows with no attempts left.   *)
Swept ==
  LET expired(x)   == IF Unsent(x) /\ x.expires <= now THEN Settle(x, "EXPIRED") ELSE x
      exhausted(x) == IF x.status = "PENDING" /\ x.attempts >= MaxAttempts
                      THEN Settle(x, "FAILED") ELSE x
  IN [r \in Row |-> exhausted(expired(row[r]))]

Ready(x) == Unsent(x) /\ x.next <= now /\ x.expires > now

ReadyOf(t, p) == {r \in Row : Owner[r] = p /\ Ready(t[r])}

(* Step 4: players with a critical row or a reply first, then the oldest.  *)
Sooner(t, p, q) ==
  LET urgent(x) == \E r \in ReadyOf(t, x) : Kind[r] \in {"REPLY", "CRITICAL"}
      oldest(x) == t[Oldest(t, ReadyOf(t, x))].created
  IN \/ urgent(p) /\ ~urgent(q)
     \/ (urgent(p) <=> urgent(q)) /\ oldest(p) < oldest(q)

Chosen(t) ==
  LET waiting == {p \in Player : ReadyOf(t, p) # {}}
  IN {C \in SUBSET waiting :
        /\ Cardinality(C) = Min({ClaimSize, Cardinality(waiting)})
        /\ \A p \in C, q \in waiting \ C : ~Sooner(t, q, p)}

(* Step 7: a group rejoins only when every row of it is ready.             *)
Kept(t, R) ==
  {G \in {{r \in Row : t[r].group = g} : g \in {t[r].group : r \in R} \ {None}} :
     G \subseteq R}

(* _sent_history: messages that took a slot of the cap.                    *)
FreeSlots(t, p) ==
  LET counted == {r \in Row : /\ Owner[r] = p /\ Capped(r)
                              /\ t[r].status = "SENT" /\ t[r].sentAt + CapWindow > now}
      used    == Cardinality({t[r].group : r \in counted})
  IN IF used < Cap THEN Cap - used ELSE 0

(* compose: critical rows and replies alone, merge = always in one message,*)
(* and what does not fit under the cap collapsed into the last free slot.  *)
Compose(t, R, free) ==
  LET merged  == {r \in R : Kind[r] = "MERGED"}
      head    == {{r} : r \in {s \in R : ~Capped(s)}}
      capped  == {{r} : r \in {s \in R : Kind[s] = "SINGLE"}}
                   \cup (IF merged = {} THEN {} ELSE {merged})
      before(m) == {n \in capped : Older(t, Oldest(t, n), Oldest(t, m))}
      asTheyAre == {m \in capped : Cardinality(before(m)) < free - 1}
  IN head \cup (IF Cardinality(capped) <= free THEN capped
                ELSE IF free = 0 THEN {}
                ELSE asTheyAre \cup {UNION (capped \ asTheyAre)})

-----------------------------------------------------------------------------
(* Producers, players and administrators.                                  *)

(* BotService.enqueue and enqueue_reply: a stored event is a DUPLICATE.    *)
Enqueue(r) ==
  /\ now <= EnqueueUntil /\ row[r].status = "absent" /\ Welcome(r)
  /\ row' = [row EXCEPT ![r] = [NoRow EXCEPT !.status = "PENDING", !.created = now,
                                             !.next = now, !.expires = now + Ttl[r]]]
  /\ UNCHANGED <<now, consent, nation, senderVars, vkVars, budget>>

(* BotService.cancel_pending: a row under a live lease is left alone.      *)
Cancel(r) ==
  /\ Notification(r) /\ Unsent(row[r]) /\ Spend("signals")
  /\ row' = [row EXCEPT ![r] = Settle(@, "DROPPED")]
  /\ UNCHANGED <<now, consent, nation, senderVars, vkVars>>

(* apply_consent_signal: ALLOWED revives nothing, DENIED drops what waits. *)
Allow(p) ==
  /\ consent[p] # "ALLOWED" /\ Spend("signals")
  /\ consent' = [consent EXCEPT ![p] = "ALLOWED"]
  /\ UNCHANGED <<now, row, nation, senderVars, vkVars>>

AfterDenial(p, t) ==
  [r \in Row |-> IF Owner[r] = p /\ Notification(r) /\ t[r].status = "PENDING"
                 THEN Settle(t[r], "DROPPED") ELSE t[r]]

Deny(p) ==
  /\ consent[p] # "DENIED" /\ Spend("signals")
  /\ consent' = [consent EXCEPT ![p] = "DENIED"]
  /\ row' = AfterDenial(p, row)
  /\ UNCHANGED <<now, nation, senderVars, vkVars>>

LoseNation(p) ==
  /\ p \in nation /\ Spend("signals")
  /\ nation' = nation \ {p}
  /\ UNCHANGED <<now, row, consent, senderVars, vkVars>>

(* The world reset of 02_bot deletes the queue; no event of the old world  *)
(* is raised again.                                                        *)
Reset ==
  /\ \E r \in Row : row[r].status \notin {"absent", "deleted"}
  /\ Spend("signals")
  /\ row' = [r \in Row |-> [NoRow EXCEPT !.status = "deleted"]]
  /\ UNCHANGED <<now, consent, nation, senderVars, vkVars>>

-----------------------------------------------------------------------------
(* The sender of one process.                                              *)

(* claim_batch, once the groups of the pass before have all returned.      *)
Claim(w) ==
  /\ up[w] /\ task[w] = {}
  /\ \E C \in Chosen(Swept) :
       LET locked  == UNION {ReadyOf(Swept, p) : p \in C}
           live    == {r \in locked : Welcome(r)}
           kept    == Kept(Swept, live)
           loose   == live \ UNION kept
           looseOf(p) == {r \in loose : Owner[r] = p}
           fresh   == UNION {Compose(Swept, looseOf(p), FreeSlots(Swept, p)) : p \in C}
           leased  == kept \cup fresh
           gids    == Gid \ GidsInUse
           newGid  == Assign(fresh, gids)
           newTok  == NewTokens(leased)
           gid(m)  == IF m \in fresh THEN newGid[m]
                      ELSE Swept[CHOOSE r \in m : TRUE].group
       IN /\ Enough(fresh, gids) /\ Enough(leased, Token \ TokensInUse)
          /\ row' = [r \in Row |->
               IF r \in locked \ live THEN Settle(Swept[r], "DROPPED")
               ELSE IF r \in UNION leased
                 THEN LET m == CHOOSE m \in leased : r \in m
                      IN [Swept[r] EXCEPT !.status = "LEASED", !.attempts = @ + 1,
                            !.until = now + Lease, !.token = newTok[m], !.group = gid(m)]
               ELSE IF r \in loose THEN Dissolved(Swept[r])
               ELSE Swept[r]]
          /\ task' = [task EXCEPT ![w] =
               {[group |-> [gid |-> gid(m), token |-> newTok[m], rows |-> m],
                 stage |-> "queued", at |-> 0] : m \in leased}]
          /\ accepted' = {a \in accepted : \A m \in fresh : newGid[m] # a.gid}
  /\ UNCHANGED <<now, consent, nation, up, halted, wire, copies, budget>>

(* process_group returns early: the sender is halted, or paused after a    *)
(* rate limit, or the breaker does not allow a send.  The rows stay LEASED.*)
Skip(w, k) ==
  /\ k \in task[w] /\ k.stage = "queued"
  /\ (halted[w] /\ UNCHANGED budget) \/ (~halted[w] /\ Spend("skips"))
  /\ task' = [task EXCEPT ![w] = @ \ {k}]
  /\ UNCHANGED <<now, queueVars, up, halted, vkVars>>

(* _recheck_rows: the lease may be lost by now, or a row expired; then the *)
(* others go back for a new composition.                                   *)
Recheck(w, k) ==
  /\ k \in task[w] /\ k.stage = "queued" /\ ~halted[w]
  /\ LET held    == Held(k.group)
         expired == {r \in held : row[r].expires <= now}
     IN \/ /\ held # {} /\ expired = {}
           /\ task' = [task EXCEPT ![w] = (@ \ {k}) \cup
                         {[k EXCEPT !.stage = "checked", !.at = now]}]
           /\ UNCHANGED row
        \/ /\ held = {} \/ expired # {}
           /\ task' = [task EXCEPT ![w] = @ \ {k}]
           /\ row' = [r \in Row |-> IF r \in expired THEN Settle(row[r], "EXPIRED")
                                    ELSE IF r \in held THEN Dissolved(row[r])
                                    ELSE row[r]]
  /\ UNCHANGED <<now, consent, nation, up, halted, vkVars, budget>>

(* The request leaves; _render has read only.                              *)
Send(w, k) ==
  /\ k \in task[w] /\ k.stage = "checked"
  /\ task' = [task EXCEPT ![w] = (@ \ {k}) \cup {[k EXCEPT !.stage = "sending"]}]
  /\ wire' = wire \cup {k.group}
  /\ UNCHANGED <<now, queueVars, up, halted, accepted, copies, budget>>

(* One write transaction, for the rows still under the group's lease.      *)
Write(k, F(_)) == Rewrite(Held(k.group), F)

Done(w, k) == task' = [task EXCEPT ![w] = @ \ {k}]

(* VK answered with a message id.                                          *)
RecordSent(w, k) ==
  /\ k \in task[w] /\ k.stage = "sending" /\ k.group \notin wire
  /\ \E a \in accepted : a.gid = k.group.gid
  /\ LET sent(x) == [Settle(x, "SENT") EXCEPT !.sentAt = k.at, !.error = FALSE] IN Write(k, sent)
  /\ Done(w, k)
  /\ UNCHANGED <<now, consent, nation, up, halted, vkVars, budget>>

(* A timeout, a 5xx or a retryable code: whether VK accepted is unknown.   *)
RecordRetry(w, k) ==
  /\ k \in task[w] /\ k.stage = "sending" /\ Spend("faults")
  /\ LET retried(x) == Retried(x, k.at) IN Write(k, retried)
  /\ Done(w, k)
  /\ UNCHANGED <<now, consent, nation, up, halted, vkVars>>

(* VK refused because the player has closed the chat: the rows and all his *)
(* pending notifications go, unless the lease was lost.                    *)
RecordConsentLost(w, k) ==
  /\ k \in task[w] /\ k.stage = "sending" /\ k.group \in wire /\ Spend("faults")
  /\ wire' = wire \ {k.group}
  /\ \/ /\ Held(k.group) = {} /\ UNCHANGED <<row, consent>>
     \/ /\ Held(k.group) # {}
        /\ LET p == Owner[CHOOSE r \in k.group.rows : TRUE]
               dropped == [r \in Row |-> IF r \in Held(k.group)
                                         THEN Settle(row[r], "DROPPED") ELSE row[r]]
           IN /\ row' = AfterDenial(p, dropped)
              /\ consent' = [consent EXCEPT ![p] = "DENIED"]
  /\ Done(w, k)
  /\ UNCHANGED <<now, nation, up, halted, accepted, copies>>

(* VK refused the access key: no retry delay, and no more sends until the  *)
(* process is restarted.                                                   *)
RecordAuth(w, k) ==
  /\ k \in task[w] /\ k.stage = "sending" /\ k.group \in wire /\ Spend("faults")
  /\ wire' = wire \ {k.group}
  /\ halted' = [halted EXCEPT ![w] = TRUE]
  /\ Write(k, Refused)
  /\ Done(w, k)
  /\ UNCHANGED <<now, consent, nation, up, accepted, copies>>

(* A message VK refuses for good, or one that cannot be rendered.          *)
RecordBad(w, k) ==
  /\ k \in task[w] /\ Spend("faults")
  /\ k.stage = "checked" \/ (k.stage = "sending" /\ k.group \in wire)
  /\ wire' = wire \ {k.group}
  /\ LET dropped(x) == Settle(x, "DROPPED") IN Write(k, dropped)
  /\ Done(w, k)
  /\ UNCHANGED <<now, consent, nation, up, halted, accepted, copies>>

-----------------------------------------------------------------------------
(* VK: a random_id it knows adds nothing to the chat.                      *)

VkAccept(g) ==
  /\ g \in wire
  /\ wire' = wire \ {g}
  /\ IF \E a \in accepted : a.gid = g.gid
     THEN UNCHANGED <<accepted, copies>>
     ELSE /\ accepted' = accepted \cup {[gid |-> g.gid, rows |-> g.rows]}
          /\ copies' = [r \in Row |-> IF r \in g.rows THEN copies[r] + 1 ELSE copies[r]]
  /\ UNCHANGED <<now, queueVars, senderVars, budget>>

(* A request whose sender has given up on it may also never arrive.        *)
VkLose(g) ==
  /\ g \in wire /\ \A w \in Worker : \A k \in task[w] : k.group # g
  /\ wire' = wire \ {g}
  /\ UNCHANGED <<now, queueVars, senderVars, accepted, copies, budget>>

-----------------------------------------------------------------------------
(* The life of a process.                                                  *)

Crash(w) ==
  /\ up[w] /\ Spend("crashes")
  /\ up' = [up EXCEPT ![w] = FALSE]
  /\ halted' = [halted EXCEPT ![w] = FALSE]
  /\ task' = [task EXCEPT ![w] = {}]
  /\ UNCHANGED <<now, queueVars, vkVars>>

(* BotRuntime.stop: the tasks are cancelled, every LEASED row is returned. *)
Stop(w) ==
  /\ up[w] /\ Spend("crashes")
  /\ up' = [up EXCEPT ![w] = FALSE]
  /\ halted' = [halted EXCEPT ![w] = FALSE]
  /\ task' = [task EXCEPT ![w] = {}]
  /\ Rewrite({r \in Row : row[r].status = "LEASED"}, Unleased)
  /\ UNCHANGED <<now, consent, nation, vkVars>>

Start(w) ==
  /\ ~up[w]
  /\ up' = [up EXCEPT ![w] = TRUE]
  /\ UNCHANGED <<now, queueVars, halted, task, vkVars, budget>>

(* janitor_step: old terminal rows go, lost leases are returned.           *)
Janitor(w) ==
  /\ up[w]
  /\ row' = [r \in Row |->
       IF row[r].status \in Terminal /\ row[r].created + PurgeAfter <= now
         THEN [NoRow EXCEPT !.status = "deleted"]
       ELSE IF LeaseLost(row[r]) THEN Unleased(row[r])
       ELSE row[r]]
  /\ UNCHANGED <<now, consent, nation, senderVars, vkVars, budget>>

Tick ==
  /\ now < MaxTime
  /\ now' = now + 1
  /\ UNCHANGED <<queueVars, senderVars, vkVars, budget>>

-----------------------------------------------------------------------------
Process(w) ==
  \/ Claim(w) \/ Start(w) \/ Janitor(w)
  \/ \E k \in task[w] :
       \/ Skip(w, k) \/ Recheck(w, k) \/ Send(w, k)
       \/ RecordSent(w, k) \/ RecordRetry(w, k) \/ RecordConsentLost(w, k)
       \/ RecordAuth(w, k) \/ RecordBad(w, k)

Next ==
  \/ Tick \/ Reset
  \/ \E r \in Row : Enqueue(r) \/ Cancel(r)
  \/ \E p \in Player : Allow(p) \/ Deny(p) \/ LoseNation(p)
  \/ \E w \in Worker : Process(w) \/ Crash(w) \/ Stop(w)
  \/ \E g \in wire : VkAccept(g) \/ VkLose(g)

Spec == Init /\ [][Next]_vars

(* What asyncio and the supervision loop of the runtime keep doing; the    *)
(* janitor is not needed, a request is accepted only if VK wants to.       *)
Progress(w) ==
  WF_vars(\/ Claim(w) \/ Start(w)
          \/ \E k \in task[w] : Skip(w, k) \/ Recheck(w, k) \/ Send(w, k) \/ RecordSent(w, k))

FairSpec == Spec /\ WF_vars(Tick) /\ WF_vars(\E g \in wire : VkAccept(g))
                 /\ \A w \in Worker : Progress(w)

-----------------------------------------------------------------------------
(* Safety.                                                                 *)

(* A lease has one holder: the rows that carry a lease token are the rows  *)
(* of the one group that carries it, so no two senders write one row.      *)
LeaseHasOneHolder ==
  /\ \A v, w \in Worker : \A j \in task[v], k \in task[w] :
       j.group.token = k.group.token => v = w /\ j = k
  /\ \A w \in Worker : \A k \in task[w] : Held(k.group) \subseteq k.group.rows

(* INV-B6: a random_id is never used again for another set of rows, by any *)
(* process, crash or retry: VK would swallow the second message.           *)
OneContentPerRandomId ==
  LET out == {[gid |-> g.gid, rows |-> g.rows] : g \in wire} \cup accepted
  IN \A a, b \in out : a.gid = b.gid => a.rows = b.rows

(* No event is carried by two messages of the chat.                        *)
DeliveredOnce == \A r \in Row : copies[r] <= 1

(* An event that is never put into one message with another one - critical *)
(* events, replies, and whoever is the only one of a player that counts    *)
(* toward the cap - is delivered once, whatever is lost, retried, crashes  *)
(* or is stopped.                                                          *)
Alone(r)  == \A s \in Row \ {r} : Owner[s] = Owner[r] => ~(Capped(r) /\ Capped(s))
AloneOnce == \A r \in Row : Alone(r) => copies[r] <= 1

(* What a reader of the queue sees is a Mailbox: one message per event,    *)
(* settled once, SENT only if delivered, nothing resurrected.              *)
Fate(x) == IF x.status \in {"PENDING", "LEASED"} THEN "QUEUED" ELSE x.status

Box == INSTANCE Mailbox WITH
         Event   <- Row,
         fate    <- [r \in Row |-> Fate(row[r])],
         reached <- {r \in Row : copies[r] > 0}

IsMailbox == Box!Spec

(* INV-B3: once consent is gone, a notification goes out at most on a      *)
(* lease taken before: a waiting one is never leased again.                *)
DeniedIsNeverLeased ==
  [][\A r \in Row : Notification(r) /\ consent[Owner[r]] # "ALLOWED"
                    /\ row'[r].status = "LEASED"
       => row[r].status = "LEASED" /\ row'[r].token = row[r].token]_vars

(* INV-B4: the messages in a player's chat that count toward the cap never *)
(* exceed it (all of them fall within one window of 24 hours here).        *)
CapRespected ==
  \A p \in Player :
    Cardinality({a \in accepted : \E r \in a.rows : Owner[r] = p /\ Capped(r)}) <= Cap

(* A step of a calm day: nothing fails or is skipped, no process dies or   *)
(* is stopped, the world is not reset, and no lease has run out.           *)
Calm ==
  /\ \A b \in {"faults", "skips", "crashes"} : budget'[b] = budget[b]
  /\ ~Reset /\ \A r \in Row : ~LeaseLost(row[r])

-----------------------------------------------------------------------------
(* Liveness.                                                               *)

(* No row is stranded: whatever crashes and whoever held the lease, a      *)
(* queued event is settled in the end.                                     *)
EverySettled ==
  \A r \in Row : (row[r].status \in {"PENDING", "LEASED"})
                   ~> (row[r].status \in Terminal \cup {"deleted"})

-----------------------------------------------------------------------------
(* Statements of the docs that the code does not keep.                     *)

(* 02_bot.md: attempts "grows when a row is claimed (bounds the crash      *)
(* loop)", and a row with max_attempts is FAILED.                          *)
AttemptsBounded == \A r \in Row : row[r].attempts <= MaxAttempts

(* 02_bot.md: while the breaker is open "the rows wait, their time to live *)
(* goes on": a row is not given up before a single request was made.       *)
FailedWasTried ==
  \A r \in Row : row[r].status = "FAILED" => row[r].error
=============================================================================
