--------------------------------- MODULE Boot ----------------------------------
(***************************************************************************)
(* The start of the backend (main.py): the five YAML files are read and    *)
(* checked one after another, the modules register what they add to each   *)
(* other's registries, and the background tasks are started, each step     *)
(* once those before it have succeeded.  A step that fails ends the        *)
(* process; an ordinary stop leaves the registries of the process as they  *)
(* are, and the application may be started in the process again.           *)
(***************************************************************************)
EXTENDS Settings

CONSTANTS
  Deployments,  \* [yaml, env] that an image may be started with
  OrderTypes,   \* notification types of 04_orders
  Provides,     \* source of a registry table -> the values it gives
  OrderSources  \* those that 04_orders adds

VARIABLES
  image,    \* the files and the environment of this process
  at,       \* the step of the start that is next
  held,     \* files whose contents a module holds
  types,    \* registered notification types
  sources,  \* registered sources of tables
  gates,    \* owners of checks and listeners at the nations of 00_core
  resets,   \* the reset hooks of the panel, in the order of their registration
  tasks,    \* background tasks that run
  running   \* the flag that the bot's mode reads

vars == <<image, at, held, types, sources, gates, resets, tasks, running>>

yaml == image.yaml
env  == image.env

Steps == {"import", "guard", "recover", "core", "map", "extend", "bot", "registry",
          "orders", "scheduler", "runtime", "profiles", "workers"}
Modules == {"00_core", "01_map", "02_bot", "04_orders"}   \* with a reset hook
Tasks == {"scheduler", "bot", "profiles", "workers"}
Files == {"core", "map", "bot", "registry", "orders"}
Own   == {"players", "nations"}     \* sources of 03_registry itself

-----------------------------------------------------------------------------
(* Every placeholder of a registered type is promised by its owner.        *)
TypesFit(known) ==
  \A k \in known :
    /\ k \in DOMAIN yaml.bot.types
    /\ LET t == yaml.bot.types[k] IN
       /\ Range(t.text.names) \subseteq Variables[k]
       /\ \A m \in t.batch_text \cup t.line_text : Range(m.names) \subseteq Merged(k)

(* A table shows what a registered source gives.                           *)
SourcesFit(known) ==
  \A i \in DOMAIN yaml.registry.tables :
    LET t == yaml.registry.tables[i] IN
    /\ t.source \in known
    /\ \A j \in DOMAIN t.columns : t.columns[j].source \in Provides[t.source]

(* A strict environment has no secret of a development machine.            *)
GuardPasses == env.strict => env.problems = {}

(* The bot is off, lacks a variable, or is ready; one that runs is not     *)
(* started again.                                                          *)
BotMode ==
  IF ~env.bot_enabled THEN "off"
  ELSE IF ~env.bot_complete THEN "misconfigured"
  ELSE IF running THEN "running" ELSE "ready"

Registered(slug) == slug \in Range(resets)
Registers(slug)  == resets' = IF Registered(slug) THEN resets ELSE Append(resets, slug)

Step(from, to) == at = from /\ at' = to

-----------------------------------------------------------------------------
NothingYet ==
  /\ held = {} /\ types = {} /\ sources = {} /\ gates = {} /\ resets = <<>>
  /\ tasks = {} /\ running = FALSE

Init == image \in Deployments /\ at = "import" /\ NothingYet

(* The schemas of 00_core read its file when they are imported.            *)
Import ==
  /\ Step("import", "guard") /\ CoreAccepted(yaml.core) /\ held' = held \cup {"core"}
  /\ UNCHANGED <<image, types, sources, gates, resets, tasks, running>>

(* The environment, the file once more, the codecs of pictures.            *)
Guard ==
  /\ Step("guard", "recover") /\ GuardPasses /\ CoreAccepted(yaml.core) /\ env.codecs
  /\ UNCHANGED <<image, held, types, sources, gates, resets, tasks, running>>

Recover ==
  /\ Step("recover", "core")
  /\ UNCHANGED <<image, held, types, sources, gates, resets, tasks, running>>

RegisterCore ==
  /\ Step("core", "map") /\ Registers("00_core")
  /\ UNCHANGED <<image, held, types, sources, gates, tasks, running>>

(* The map claims its hooks once the provinces are the map's.              *)
StartMap ==
  /\ Step("map", "extend") /\ MapAccepted(yaml.map) /\ env.map_matches
  /\ held' = held \cup {"map"} /\ gates' = gates \cup {"map"} /\ Registers("01_map")
  /\ UNCHANGED <<image, types, sources, tasks, running>>

RegisterOrders ==
  /\ Step("extend", "bot")
  /\ types' = types \cup OrderTypes /\ sources' = sources \cup OrderSources
  /\ UNCHANGED <<image, held, gates, resets, tasks, running>>

StartBot ==
  /\ Step("bot", "registry") /\ BotAccepted(yaml.bot)
  /\ types' = types \cup Builtin /\ TypesFit(types')
  /\ held' = held \cup {"bot"} /\ gates' = gates \cup {"bot"} /\ Registers("02_bot")
  /\ UNCHANGED <<image, sources, tasks, running>>

StartRegistry ==
  /\ Step("registry", "orders") /\ RegistryAccepted(yaml.registry)
  /\ sources' = sources \cup Own /\ SourcesFit(sources')
  /\ held' = held \cup {"registry"}
  /\ UNCHANGED <<image, types, gates, resets, tasks, running>>

StartOrders ==
  /\ Step("orders", "scheduler") /\ OrdersAccepted(yaml.orders)
  /\ held' = held \cup {"orders"} /\ Registers("04_orders")
  /\ UNCHANGED <<image, types, sources, gates, tasks, running>>

StartScheduler ==
  /\ Step("scheduler", "runtime") /\ tasks' = tasks \cup {"scheduler"}
  /\ UNCHANGED <<image, held, types, sources, gates, resets, running>>

StartRuntime ==
  /\ Step("runtime", "profiles")
  /\ \/ BotMode = "ready" /\ tasks' = tasks \cup {"bot"} /\ running' = TRUE
     \/ BotMode # "ready" /\ UNCHANGED <<tasks, running>>
  /\ UNCHANGED <<image, held, types, sources, gates, resets>>

StartProfiles ==
  /\ Step("profiles", "workers")
  /\ tasks' = IF yaml.registry.profiles.enabled /\ env.token THEN tasks \cup {"profiles"} ELSE tasks
  /\ UNCHANGED <<image, held, types, sources, gates, resets, running>>

(* The workers of the orders and of the applications.                      *)
StartWorkers ==
  /\ Step("workers", "serving") /\ tasks' = tasks \cup {"workers"}
  /\ UNCHANGED <<image, held, types, sources, gates, resets, running>>

(* The step at hand fails: its check does, or the database.  What it has   *)
(* registered before dies with the process.                                *)
CheckFails ==
  \/ at \in {"import", "guard"} /\ ~CoreAccepted(yaml.core)
  \/ at = "guard" /\ (~GuardPasses \/ ~env.codecs)
  \/ at \in {"recover", "map"}
  \/ at = "bot" /\ ~(BotAccepted(yaml.bot) /\ TypesFit(types \cup Builtin))
  \/ at = "registry" /\ ~(RegistryAccepted(yaml.registry) /\ SourcesFit(sources \cup Own))
  \/ at = "orders" /\ ~OrdersAccepted(yaml.orders)

Die ==
  /\ CheckFails /\ at' = "dead"
  /\ held' = {} /\ types' = {} /\ sources' = {} /\ gates' = {} /\ resets' = <<>>
  /\ tasks' = {} /\ running' = FALSE /\ UNCHANGED image

Stop ==
  /\ Step("serving", "down") /\ tasks' = {} /\ running' = FALSE
  /\ UNCHANGED <<image, held, types, sources, gates, resets>>

Again ==
  /\ Step("down", "guard")
  /\ UNCHANGED <<image, held, types, sources, gates, resets, tasks, running>>

Next ==
  \/ Import \/ Guard \/ Recover \/ RegisterCore \/ StartMap \/ RegisterOrders \/ StartBot
  \/ StartRegistry \/ StartOrders \/ StartScheduler \/ StartRuntime \/ StartProfiles
  \/ StartWorkers \/ Die \/ Stop \/ Again

Spec == Init /\ [][Next]_vars

-----------------------------------------------------------------------------
TypeOK ==
  /\ image \in Deployments /\ at \in Steps \cup {"serving", "down", "dead"}
  /\ held \subseteq Files /\ types \subseteq Builtin \cup OrderTypes
  /\ sources \subseteq Own \cup OrderSources /\ gates \subseteq {"map", "bot"}
  /\ resets \in Seq(Modules) /\ tasks \subseteq Tasks /\ running \in BOOLEAN

(* No task runs before the whole of the configuration is checked: the      *)
(* files each by itself, the notifications of every module against their   *)
(* templates, the tables against their sources, the environment against    *)
(* the guard (main.py registers 04_orders before the bot and the registry  *)
(* validate).                                                              *)
NothingRunsUnchecked ==
  tasks # {} =>
    /\ held = Files /\ gates = {"map", "bot"} /\ GuardPasses /\ env.codecs
    /\ CoreAccepted(yaml.core) /\ MapAccepted(yaml.map) /\ BotAccepted(yaml.bot)
    /\ RegistryAccepted(yaml.registry) /\ OrdersAccepted(yaml.orders)
    /\ types = Builtin \cup OrderTypes /\ TypesFit(types) /\ SourcesFit(sources)

(* The reset of the world runs the hooks backwards (admin/router.py:1693): *)
(* however often the process has started the application, each is there    *)
(* once, a module's after those of the modules it refers to.               *)
ResetsUndoTheBoot == tasks # {} => resets = <<"00_core", "01_map", "02_bot", "04_orders">>

(* The bot's flag and its tasks agree, and a bot that could run does once  *)
(* the server serves, the second time in the process as well (settings.py: *)
(* 113, runtime.stop).                                                     *)
BotRunsWhenReady ==
  /\ running <=> "bot" \in tasks
  /\ at = "serving" => (running <=> env.bot_enabled /\ env.bot_complete)

(* What the schemas' rules amount to together, and the models of the       *)
(* workers assume: a judge is reminded before the verdict is due, a lease  *)
(* outlasts a request, a notification its hold, a warning of the tick is   *)
(* gone with the tick.                                                     *)
RunsAsAssumed ==
  tasks # {} =>
    /\ ReminderSeconds(yaml.orders.judge) < DeadlineSeconds(yaml.orders.judge)
    /\ yaml.bot.vk.http_timeout_seconds < yaml.bot.sender.lease_seconds
    /\ WarningEndsInTime(yaml.bot) /\ GroupsFit(yaml.core.nation)
    /\ \A k \in DOMAIN yaml.bot.types : HoldEndsInTime(yaml.bot.types[k])
=============================================================================
