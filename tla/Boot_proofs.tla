----------------------------- MODULE Boot_proofs -------------------------------
(***************************************************************************)
(* No task of the backend runs before the whole of its configuration is    *)
(* checked; the start registers every reset hook once, in order, however   *)
(* often it is repeated; and the bot runs just when its flag says so.  For *)
(* every content of the files, every set of notification types and table   *)
(* sources of the modules, and every environment.                          *)
(***************************************************************************)
EXTENDS Boot, TLAPS

FromScheduler == {"scheduler", "runtime", "profiles", "workers", "serving"}
FromOrders    == FromScheduler \cup {"orders"}
FromRegistry  == FromOrders \cup {"registry"}
FromBot       == FromRegistry \cup {"bot"}
FromExtend    == FromBot \cup {"extend"}
FromRecover   == FromExtend \cup {"recover", "core", "map"}

C0 == <<"00_core">>
C1 == <<"00_core", "01_map">>
C2 == <<"00_core", "01_map", "02_bot">>
C3 == <<"00_core", "01_map", "02_bot", "04_orders">>

(* What each step may rely on: those before it have left their part, in    *)
(* this start or in an earlier one of the process.                         *)
Checked ==
  /\ at \in {"guard", "down"} => "core" \in held
  /\ at \in FromRecover => "core" \in held /\ CoreAccepted(yaml.core) /\ GuardPasses /\ env.codecs
  /\ at \in FromExtend => MapAccepted(yaml.map) /\ "map" \in held /\ "map" \in gates
  /\ at \in FromBot => OrderTypes \subseteq types
  /\ at \in FromRegistry =>
       /\ BotAccepted(yaml.bot) /\ TypesFit(types) /\ Builtin \subseteq types
       /\ "bot" \in held /\ "bot" \in gates
  /\ at \in FromOrders => RegistryAccepted(yaml.registry) /\ SourcesFit(sources) /\ "registry" \in held
  /\ at \in FromScheduler => OrdersAccepted(yaml.orders) /\ "orders" \in held

(* The hooks of a first start so far, or all of them in a later one.       *)
Hooks ==
  /\ at \in {"import", "guard", "recover", "core"} => resets \in {<<>>, C3}
  /\ at = "map" => resets \in {C0, C3}
  /\ at \in {"extend", "bot"} => resets \in {C1, C3}
  /\ at \in {"registry", "orders"} => resets \in {C2, C3}
  /\ at \in FromScheduler \cup {"down"} => resets = C3
  /\ at = "dead" => resets = <<>>

Working ==
  /\ tasks # {} => at \in FromScheduler
  /\ running <=> "bot" \in tasks
  /\ at = "scheduler" => tasks = {}
  /\ at = "runtime" => ~running
  /\ at \in {"profiles", "workers", "serving"} => (running <=> env.bot_enabled /\ env.bot_complete)

Known ==
  /\ at \in Steps \cup {"serving", "down", "dead"} /\ running \in BOOLEAN
  /\ held \subseteq Files /\ gates \subseteq {"map", "bot"}
  /\ types \subseteq Builtin \cup OrderTypes

BootInv == Known /\ Checked /\ Hooks /\ Working

-----------------------------------------------------------------------------
LEMMA InvAtFirst == Init => BootInv
BY DEF Init, NothingYet, BootInv, Known, Checked, Hooks, Working, Steps, FromScheduler,
       FromOrders, FromRegistry, FromBot, FromExtend, FromRecover

(* Every step takes place among the known ones.                            *)
LEMMA NextKeepsKnown == BootInv /\ [Next]_vars => Known'
<1> SUFFICES ASSUME BootInv, [Next]_vars  PROVE Known'
  OBVIOUS
<1> USE DEF BootInv, Known, Steps, Step
<1>1. CASE Import
  BY <1>1 DEF Import, Files
<1>2. CASE Guard
  BY <1>2 DEF Guard
<1>3. CASE Recover
  BY <1>3 DEF Recover
<1>4. CASE RegisterCore
  BY <1>4 DEF RegisterCore
<1>5. CASE StartMap
  BY <1>5 DEF StartMap, Files
<1>6. CASE RegisterOrders
  BY <1>6 DEF RegisterOrders
<1>7. CASE StartBot
  BY <1>7 DEF StartBot, Files
<1>8. CASE StartRegistry
  BY <1>8 DEF StartRegistry, Files
<1>9. CASE StartOrders
  BY <1>9 DEF StartOrders, Files
<1>10. CASE StartScheduler
  BY <1>10 DEF StartScheduler
<1>11. CASE StartRuntime
  BY <1>11 DEF StartRuntime
<1>12. CASE StartProfiles
  BY <1>12 DEF StartProfiles
<1>13. CASE StartWorkers
  BY <1>13 DEF StartWorkers
<1>14. CASE Die
  BY <1>14 DEF Die
<1>15. CASE Stop
  BY <1>15 DEF Stop
<1>16. CASE Again
  BY <1>16 DEF Again
<1>17. CASE UNCHANGED vars
  BY <1>17 DEF vars
<1> QED
  BY <1>1, <1>2, <1>3, <1>4, <1>5, <1>6, <1>7, <1>8, <1>9, <1>10, <1>11, <1>12, <1>13,
     <1>14, <1>15, <1>16, <1>17 DEF Next

(* Each step leaves what the next ones rely on, and takes nothing back.    *)
LEMMA NextKeepsChecked == BootInv /\ [Next]_vars => Checked'
<1> SUFFICES ASSUME BootInv, [Next]_vars  PROVE Checked'
  OBVIOUS
<1> USE DEF BootInv, Checked, Step, yaml, env, FromScheduler, FromOrders, FromRegistry,
            FromBot, FromExtend, FromRecover
<1>1. CASE Import
  BY <1>1 DEF Import
<1>2. CASE Guard
  BY <1>2 DEF Guard, GuardPasses
<1>3. CASE Recover
  BY <1>3 DEF Recover, GuardPasses
<1>4. CASE RegisterCore
  BY <1>4 DEF RegisterCore, GuardPasses
<1>5. CASE StartMap
  BY <1>5 DEF StartMap, GuardPasses
<1>6. CASE RegisterOrders
  BY <1>6 DEF RegisterOrders, GuardPasses
<1>7. CASE StartBot
  <2>1. TypesFit(types)'
    BY <1>7 DEF StartBot, TypesFit
  <2> QED
    BY <1>7, <2>1 DEF StartBot, GuardPasses, TypesFit
<1>8. CASE StartRegistry
  BY <1>8 DEF StartRegistry, GuardPasses, TypesFit, SourcesFit
<1>9. CASE StartOrders
  BY <1>9 DEF StartOrders, GuardPasses, TypesFit, SourcesFit
<1>10. CASE StartScheduler
  BY <1>10 DEF StartScheduler, GuardPasses, TypesFit, SourcesFit
<1>11. CASE StartRuntime
  BY <1>11 DEF StartRuntime, GuardPasses, TypesFit, SourcesFit
<1>12. CASE StartProfiles
  BY <1>12 DEF StartProfiles, GuardPasses, TypesFit, SourcesFit
<1>13. CASE StartWorkers
  BY <1>13 DEF StartWorkers, GuardPasses, TypesFit, SourcesFit
<1>14. CASE Die
  BY <1>14 DEF Die
<1>15. CASE Stop
  BY <1>15 DEF Stop
<1>16. CASE Again
  BY <1>16 DEF Again
<1>17. CASE UNCHANGED vars
  BY <1>17 DEF vars, GuardPasses, TypesFit, SourcesFit
<1> QED
  BY <1>1, <1>2, <1>3, <1>4, <1>5, <1>6, <1>7, <1>8, <1>9, <1>10, <1>11, <1>12, <1>13,
     <1>14, <1>15, <1>16, <1>17 DEF Next

(* A short sequence with one more at its end.                              *)
LEMMA AppendToOne ==
  ASSUME NEW a, NEW b
  PROVE  Append(<<a>>, b) = <<a, b>>
<1> DEFINE s == Append(<<a>>, b)
<1>1. <<a>> \in Seq({a, b}) /\ Len(<<a>>) = 1 /\ <<a, b>> \in Seq({a, b})
  OBVIOUS
<1>2. s \in Seq({a, b}) /\ Len(s) = 2 /\ s[1] = a /\ s[2] = b
  BY <1>1
<1> HIDE DEF s
<1>4. s = <<a, b>>
  BY <1>1, <1>2
<1> QED
  BY <1>4 DEF s

LEMMA AppendToTwo ==
  ASSUME NEW a, NEW b, NEW c
  PROVE  Append(<<a, b>>, c) = <<a, b, c>>
<1> DEFINE s == Append(<<a, b>>, c)
<1> DEFINE S == {a, b, c}
<1>1. <<a, b>> \in Seq(S) /\ Len(<<a, b>>) = 2
  OBVIOUS
<1>3. <<a, b, c>> \in Seq(S)
  OBVIOUS
<1>2. s \in Seq(S) /\ Len(s) = 3 /\ s[1] = a /\ s[2] = b /\ s[3] = c
  BY <1>1
<1> HIDE DEF s
<1>4. s = <<a, b, c>>
  BY <1>3, <1>2
<1> QED
  BY <1>4 DEF s

LEMMA AppendToThree ==
  ASSUME NEW a, NEW b, NEW c, NEW d
  PROVE  Append(<<a, b, c>>, d) = <<a, b, c, d>>
<1> DEFINE s == Append(<<a, b, c>>, d)
<1> DEFINE S == {a, b, c, d}
<1>1. <<a, b, c>> \in Seq(S) /\ Len(<<a, b, c>>) = 3
  OBVIOUS
<1>3. <<a, b, c, d>> \in Seq(S)
  OBVIOUS
<1>2. s \in Seq(S) /\ Len(s) = 4 /\ s[1] = a /\ s[2] = b /\ s[3] = c /\ s[4] = d
  BY <1>1
<1> HIDE DEF s
<1>4. s = <<a, b, c, d>>
  BY <1>3, <1>2
<1> QED
  BY <1>4 DEF s

(* A hook registered before is not registered again, a new one goes to the *)
(* end.                                                                    *)
LEMMA HooksGrow ==
  /\ Range(<<>>) = {} /\ Range(C0) = {"00_core"} /\ Range(C1) = {"00_core", "01_map"}
  /\ Range(C2) = {"00_core", "01_map", "02_bot"} /\ Range(C3) = Modules
  /\ Append(<<>>, "00_core") = C0 /\ Append(C0, "01_map") = C1
  /\ Append(C1, "02_bot") = C2 /\ Append(C2, "04_orders") = C3
<1>1. Range(<<>>) = {}
  BY DEF Range
<1>2. Range(C0) = {"00_core"}
  BY DEF Range, C0
<1>3. Range(C1) = {"00_core", "01_map"}
  <2>1. DOMAIN C1 = {1, 2} /\ C1[1] = "00_core" /\ C1[2] = "01_map"
    BY DEF C1
  <2> QED
    BY <2>1 DEF Range
<1>4. Range(C2) = {"00_core", "01_map", "02_bot"}
  <2>1. DOMAIN C2 = {1, 2, 3} /\ C2[1] = "00_core" /\ C2[2] = "01_map" /\ C2[3] = "02_bot"
    BY DEF C2
  <2> QED
    BY <2>1 DEF Range
<1>5. Range(C3) = Modules
  <2>1. /\ DOMAIN C3 = {1, 2, 3, 4} /\ C3[1] = "00_core" /\ C3[2] = "01_map"
        /\ C3[3] = "02_bot" /\ C3[4] = "04_orders"
    BY DEF C3
  <2> QED
    BY <2>1 DEF Range, Modules
<1>6. Append(<<>>, "00_core") = C0
  BY DEF C0
<1>7. Append(C0, "01_map") = C1
  BY AppendToOne DEF C0, C1
<1>8. Append(C1, "02_bot") = C2
  BY AppendToTwo DEF C1, C2
<1>9. Append(C2, "04_orders") = C3
  BY AppendToThree DEF C2, C3
<1> QED
  BY <1>1, <1>2, <1>3, <1>4, <1>5, <1>6, <1>7, <1>8, <1>9

LEMMA NextKeepsHooks == BootInv /\ [Next]_vars => Hooks'
<1> SUFFICES ASSUME BootInv, [Next]_vars  PROVE Hooks'
  OBVIOUS
<1>0. Hooks
  BY DEF BootInv
<1> USE DEF Hooks, Step, FromScheduler
<1>1. CASE Import
  BY <1>0, <1>1 DEF Import
<1>2. CASE Guard
  BY <1>0, <1>2 DEF Guard
<1>3. CASE Recover
  BY <1>0, <1>3 DEF Recover
<1>4. CASE RegisterCore
  BY <1>0, <1>4, HooksGrow DEF RegisterCore, Registers, Registered, Modules
<1>5. CASE StartMap
  BY <1>0, <1>5, HooksGrow DEF StartMap, Registers, Registered, Modules
<1>6. CASE RegisterOrders
  BY <1>0, <1>6 DEF RegisterOrders
<1>7. CASE StartBot
  BY <1>0, <1>7, HooksGrow DEF StartBot, Registers, Registered, Modules
<1>8. CASE StartRegistry
  BY <1>0, <1>8 DEF StartRegistry
<1>9. CASE StartOrders
  BY <1>0, <1>9, HooksGrow DEF StartOrders, Registers, Registered, Modules
<1>10. CASE StartScheduler
  BY <1>0, <1>10 DEF StartScheduler
<1>11. CASE StartRuntime
  BY <1>0, <1>11 DEF StartRuntime
<1>12. CASE StartProfiles
  BY <1>0, <1>12 DEF StartProfiles
<1>13. CASE StartWorkers
  BY <1>0, <1>13 DEF StartWorkers
<1>14. CASE Die
  BY <1>0, <1>14 DEF Die
<1>15. CASE Stop
  BY <1>0, <1>15 DEF Stop
<1>16. CASE Again
  BY <1>0, <1>16 DEF Again
<1>17. CASE UNCHANGED vars
  BY <1>0, <1>17 DEF vars
<1> QED
  BY <1>1, <1>2, <1>3, <1>4, <1>5, <1>6, <1>7, <1>8, <1>9, <1>10, <1>11, <1>12, <1>13,
     <1>14, <1>15, <1>16, <1>17 DEF Next

LEMMA NextKeepsWorking == BootInv /\ [Next]_vars => Working'
<1> SUFFICES ASSUME BootInv, [Next]_vars  PROVE Working'
  OBVIOUS
<1>0. Working /\ running \in BOOLEAN
  BY DEF BootInv, Known
<1> USE DEF Working, Step, FromScheduler, env
<1>1. CASE Import \/ Guard \/ Recover
  BY <1>0, <1>1 DEF Import, Guard, Recover
<1>2. CASE RegisterCore \/ StartMap \/ RegisterOrders
  BY <1>0, <1>2 DEF RegisterCore, StartMap, RegisterOrders
<1>3. CASE StartBot \/ StartRegistry \/ StartOrders
  BY <1>0, <1>3 DEF StartBot, StartRegistry, StartOrders
<1>4. CASE StartScheduler
  <2>1. tasks = {} /\ ~running
    BY <1>0, <1>4 DEF StartScheduler
  <2>2. tasks' = {"scheduler"} /\ running' = running /\ at' = "runtime"
    BY <2>1, <1>4 DEF StartScheduler
  <2> QED
    BY <2>1, <2>2
<1>5. CASE StartRuntime
  BY <1>0, <1>5 DEF StartRuntime, BotMode
<1>6. CASE StartProfiles
  BY <1>0, <1>6 DEF StartProfiles
<1>7. CASE StartWorkers
  BY <1>0, <1>7 DEF StartWorkers
<1>8. CASE Die
  BY <1>0, <1>8 DEF Die
<1>9. CASE Stop
  BY <1>0, <1>9 DEF Stop
<1>10. CASE Again
  BY <1>0, <1>10 DEF Again
<1>11. CASE UNCHANGED vars
  BY <1>0, <1>11 DEF vars
<1> QED
  BY <1>1, <1>2, <1>3, <1>4, <1>5, <1>6, <1>7, <1>8, <1>9, <1>10, <1>11 DEF Next

-----------------------------------------------------------------------------
LEMMA InvHolds == Spec => []BootInv
<1>1. Init => BootInv
  BY InvAtFirst
<1>2. BootInv /\ [Next]_vars => BootInv'
  BY NextKeepsKnown, NextKeepsChecked, NextKeepsHooks, NextKeepsWorking DEF BootInv
<1> QED
  BY <1>1, <1>2, PTL DEF Spec

(* No task runs before every file, registry and environment is checked     *)
(* (main.py, lifespan), whatever the files say.                            *)
THEOREM NothingRuns == Spec => []NothingRunsUnchecked
<1>1. BootInv => NothingRunsUnchecked
  <2> SUFFICES ASSUME BootInv, tasks # {}  PROVE NothingRunsUnchecked
    BY DEF NothingRunsUnchecked
  <2>1. at \in FromScheduler
    BY DEF BootInv, Working
  <2>2. /\ at \in FromOrders /\ at \in FromRegistry /\ at \in FromBot /\ at \in FromExtend
        /\ at \in FromRecover
    BY <2>1 DEF FromOrders, FromRegistry, FromBot, FromExtend, FromRecover
  <2>3. held = Files /\ gates = {"map", "bot"} /\ types = Builtin \cup OrderTypes
    BY <2>1, <2>2 DEF BootInv, Known, Checked, Files
  <2> QED
    BY <2>1, <2>2, <2>3 DEF BootInv, Checked, NothingRunsUnchecked
<1> QED
  BY <1>1, InvHolds, PTL

(* However often the process starts the application, a reset of the world  *)
(* finds each hook once, in the order of the start.                        *)
THEOREM ResetsUndo == Spec => []ResetsUndoTheBoot
<1>1. BootInv => ResetsUndoTheBoot
  BY DEF BootInv, Working, Hooks, C3, ResetsUndoTheBoot
<1> QED
  BY <1>1, InvHolds, PTL

(* The bot runs when the environment lets it, and only with its flag up,   *)
(* in every start of the process.                                          *)
THEOREM BotRuns == Spec => []BotRunsWhenReady
<1>1. BootInv => BotRunsWhenReady
  BY DEF BootInv, Working, BotRunsWhenReady
<1> QED
  BY <1>1, InvHolds, PTL

(* The two rules once more, over the numbers themselves.                   *)
Hours       == 1..720
Percents    == 10..95
Intervals   == 10..3600
Due(h)      == h * 3600
Warned(h, p) == (Due(h) * p) \div 100
Timely(h, p, r) == 2 * r <= Due(h) - Warned(h, p)

Batches   == 1..50
Lanes     == 1..10
Timeouts  == 2..60
Leases    == 30..900
Covers(l, b, n, t) == l > ((b + n - 1) \div n) * t

LEMMA TimelyMeansBefore ==
  \A h \in Hours, p \in Percents, r \in Intervals : Timely(h, p, r) => Warned(h, p) < Due(h)
<1> SUFFICES ASSUME NEW h \in Hours, NEW p \in Percents, NEW r \in Intervals, Timely(h, p, r)
             PROVE  Warned(h, p) < Due(h)
  OBVIOUS
<1>1. Due(h) \in Int
  BY DEF Hours, Due
<1>2. Due(h) * p \in Int
  BY <1>1 DEF Percents
<1>3. Warned(h, p) \in Int
  BY <1>2 DEF Warned
<1>4. r \in Int /\ r > 0
  BY DEF Intervals
<1>5. \A d, w \in Int : 2 * r <= d - w => w < d
  BY <1>4
<1> QED
  BY <1>1, <1>3, <1>5 DEF Timely

(* A batch is at least one round of requests.                              *)
LEMMA CoversMeansLonger ==
  \A l \in Leases, b \in Batches, n \in Lanes, t \in Timeouts : Covers(l, b, n, t) => t < l
<1> SUFFICES ASSUME NEW l \in Leases, NEW b \in Batches, NEW n \in Lanes, NEW t \in Timeouts,
                    Covers(l, b, n, t)
             PROVE  t < l
  OBVIOUS
<1>1. /\ (b + n - 1) \div n >= 1 /\ (b + n - 1) \div n \in Int
  BY DEF Batches, Lanes
<1>2. \A k \in Int : k >= 1 => k * t >= t
  BY DEF Timeouts
<1> QED
  BY <1>1, <1>2 DEF Covers, Timeouts, Leases

(* Two passes of the worker fit between the reminder and the deadline.     *)
LEMMA JudgeIsRemindedInTime ==
  ASSUME NEW c, OrdersAccepted(c)
  PROVE  ReminderSeconds(c.judge) < DeadlineSeconds(c.judge)
<1> DEFINE h == c.judge.verdict_deadline_hours
           p == c.judge.reminder_percent
           r == c.distribution.retry_interval_seconds
<1>1. JudgeAccepted(c.judge) /\ DistributionAccepted(c.distribution) /\ ReminderIsTimely(c)
  BY DEF OrdersAccepted
<1>2. h \in Hours /\ p \in Percents
  BY <1>1 DEF JudgeAccepted, Hours, Percents
<1>3. r \in Intervals
  BY <1>1 DEF DistributionAccepted, Intervals
<1>4. DeadlineSeconds(c.judge) = Due(h)
  BY DEF DeadlineSeconds, Due
<1>5. ReminderSeconds(c.judge) = Warned(h, p)
  BY <1>4 DEF ReminderSeconds, Warned
<1>6. Timely(h, p, r)
  BY <1>1, <1>4, <1>5 DEF ReminderIsTimely, Timely
<1> QED
  BY <1>2, <1>3, <1>4, <1>5, <1>6, TimelyMeansBefore

LEMMA LeaseOutlastsARequest ==
  ASSUME NEW c, BotAccepted(c)
  PROVE  c.vk.http_timeout_seconds < c.sender.lease_seconds
<1> DEFINE b == c.sender.claim_batch_size
           n == c.sender.concurrency
           t == c.vk.http_timeout_seconds
           l == c.sender.lease_seconds
<1>1. SenderAccepted(c.sender) /\ VkAccepted(c.vk) /\ LeaseCoversBatch(c)
  BY DEF BotAccepted
<1>2. b \in Batches /\ n \in Lanes /\ l \in Leases /\ t \in Timeouts
  BY <1>1 DEF SenderAccepted, VkAccepted, Batches, Lanes, Leases, Timeouts
<1>3. Covers(l, b, n, t)
  BY <1>1 DEF Covers, LeaseCoversBatch, Rounds
<1> QED
  BY <1>2, <1>3, CoversMeansLonger

(* What the schemas accept is what the models of the workers assume of     *)
(* their settings.                                                         *)
THEOREM RunsAsTheyAssume == Spec => []RunsAsAssumed
<1>1. NothingRunsUnchecked => RunsAsAssumed
  <2> SUFFICES ASSUME NothingRunsUnchecked, tasks # {}  PROVE RunsAsAssumed
    BY DEF RunsAsAssumed
  <2>1. /\ OrdersAccepted(yaml.orders) /\ BotAccepted(yaml.bot) /\ CoreAccepted(yaml.core)
    BY DEF NothingRunsUnchecked
  <2>2. ReminderSeconds(yaml.orders.judge) < DeadlineSeconds(yaml.orders.judge)
    BY <2>1, JudgeIsRemindedInTime
  <2>3. yaml.bot.vk.http_timeout_seconds < yaml.bot.sender.lease_seconds
    BY <2>1, LeaseOutlastsARequest
  <2>4. WarningEndsInTime(yaml.bot) /\ \A k \in DOMAIN yaml.bot.types : TypeAccepted(yaml.bot.types[k])
    BY <2>1 DEF BotAccepted
  <2>5. NationAccepted(yaml.core.nation)
    BY <2>1 DEF CoreAccepted
  <2>6. GroupsFit(yaml.core.nation)
    BY <2>5 DEF NationAccepted
  <2>7. \A k \in DOMAIN yaml.bot.types : HoldEndsInTime(yaml.bot.types[k])
    BY <2>4 DEF TypeAccepted
  <2> QED
    BY <2>2, <2>3, <2>4, <2>6, <2>7 DEF RunsAsAssumed
<1> QED
  BY <1>1, NothingRuns, PTL
=============================================================================
