------------------------------- MODULE Samples ---------------------------------
(***************************************************************************)
(* Files for the instances of Boot: the shipped values of configs/ as far  *)
(* as Settings looks at them (of the notification types six, of the        *)
(* palettes, hosts and tables a few), and the shipped files with one value *)
(* changed: to one on the edge of a rule, and to one beyond it.            *)
(***************************************************************************)
EXTENDS Integers, Sequences, TLC

SampleVariables ==
  [TICK_DIGEST |-> {"turn", "game_date", "nation_name", "province_count", "next_tick_time"},
   DIPLOMATIC_DISPATCH |-> {"from_nation"},
   DIRECTIVE_STATUS |-> {"directive_title", "status_text"},
   DEADLINE_WARNING |-> {"hours_left"},
   ORDER_JUDGE_ASSIGNED |-> {"order_number", "nation_name", "order_link"},
   ORDER_JUDGE_REMINDER |-> {"order_number", "hours_left", "order_link"}]
SampleBuiltin == {"TICK_DIGEST", "DIPLOMATIC_DISPATCH", "DIRECTIVE_STATUS", "DEADLINE_WARNING"}
SampleOrders  == DOMAIN SampleVariables \ SampleBuiltin
SampleAnswers == [start_guest |-> {}, start_member |-> {"nation_name"}]
SampleSources ==
  [players |-> {"number", "player", "joined", "level", "judge_rating", "nation"},
   nations |-> {"number", "nation", "formed", "provinces"},
   orders |-> {"number", "nation", "title", "submitted", "distributed", "verdict"}]

(* Colours stand on a line of hundredths.                                  *)
SampleDistance(a, b) == IF a < b THEN b - a ELSE a - b

CoreFile ==
  [tick |-> [tick_time_valid |-> TRUE, tick_timezone_known |-> TRUE, tick_interval_hours |-> 24,
     retry_delay_seconds |-> 60, heartbeat_interval_seconds |-> 30, health_max_heartbeat_age_seconds |-> 180],
   auth |-> [vk_ts_freshness_window_minutes |-> 30, jwt_ttl_minutes |-> 60],
   admin_panel |-> [link_ttl_seconds |-> 60, session_ttl_minutes |-> 60, max_pending_links_per_player |-> 3,
     audit_log_max_rows |-> 5000],
   nation |-> [least |-> [name |-> 2, short |-> 2, leader |-> 2, title |-> 2, capital |-> 2],
     most |-> [name |-> 60, short |-> 20, leader |-> 60, title |-> 60, capital |-> 40, motto |-> 50,
               description |-> 150, bio |-> 500, url |-> 200],
     min_provinces_per_nation |-> 5, max_provinces_per_nation |-> 5,
     history_url_allowed_hosts |-> <<"vk.com", "vk.ru", "telegra.ph">>],
   color |-> [min_distance_nations |-> 8, min_distance_reserved |-> 8, reserved |-> <<90>>, palette |-> <<10, 20>>],
   images |-> [flag |-> [width |-> 600, height |-> 400, thumb_width |-> 96, thumb_height |-> 64],
     portrait |-> [width |-> 600, height |-> 800, thumb_width |-> 120, thumb_height |-> 160],
     webp_quality |-> 85, max_upload_bytes |-> 5242880, max_pixels |-> 25000000, max_side |-> 8000],
   applications |-> [review_hours |-> 24, comment_max_length |-> 300, worker_interval_seconds |-> 60],
   calendar |-> [months_per_turn |-> 1, month_names |-> [i \in 1..12 |-> i], epoch_start_day |-> 1]]

MapFile ==
  [colors |-> [neutral_province |-> 55, sea |-> 12, outside |-> 16],
   selection |-> [pulse_min_opacity |-> 10, pulse_max_opacity |-> 32],
   labels |-> [land_min_px |-> 9, land_max_px |-> 15, sea_min_px |-> 10, sea_max_px |-> 19],
   states |-> [min_px |-> 10, max_px |-> 72],
   limits |-> [max_nodes |-> 3000, max_edges_per_node |-> 60]]

Text(plain, names) == [size |-> plain + 12 * Len(names), clean |-> TRUE, names |-> names, plain |-> plain]
Notice(critical, cap, ttl, hold, merge, max, text, batch, line) ==
  [critical |-> critical, counts_toward_cap |-> cap, ttl_minutes |-> ttl, hold_seconds |-> hold, merge |-> merge,
   max_per_window |-> max, window_minutes |-> 60, text |-> text, batch_text |-> batch, line_text |-> line]
BotFile ==
  [vk |-> [http_timeout_seconds |-> 10],
   sender |-> [poll_interval_seconds |-> 5, claim_batch_size |-> 20, concurrency |-> 5, lease_seconds |-> 120,
     max_requests_per_second |-> 15, max_attempts |-> 6, backoff_base_seconds |-> 10,
     backoff_cap_seconds |-> 900, backoff_jitter |-> 20, purge_after_days |-> 14],
   breaker |-> [window_seconds |-> 300, min_attempts |-> 10, failure_ratio |-> 50, open_seconds |-> 120],
   limits |-> [daily_cap_normal |-> 8, bundle_max_lines |-> 8, variable_max_length |-> 100, message_max_chars |-> 3000],
   consent |-> [recheck_after_seconds |-> 3600, refresh_min_interval_seconds |-> 5,
     reconcile_sweep_interval_seconds |-> 900, reconcile_batch_size |-> 50],
   deadline |-> [offset_minutes |-> 180],
   client |-> [chat |-> [https |-> TRUE, host |-> "vk.com"], consent_poll_interval_seconds |-> 3,
     consent_poll_timeout_seconds |-> 90],
   dialog |-> [plate_cooldown_minutes |-> 10, reply_ttl_minutes |-> 10,
     texts |-> [start_guest |-> Text(110, <<>>), start_member |-> Text(70, <<"nation_name">>)],
     help |-> [allowed_hosts |-> <<"vk.com", "vk.ru">>, links |-> {[https |-> TRUE, host |-> "vk.ru"]}]],
   types |->
    [TICK_DIGEST |-> Notice(FALSE, TRUE, 360, 0, "never", 0,
       Text(100, <<"turn", "game_date", "nation_name", "province_count", "next_tick_time">>), {}, {Text(14, <<"turn">>)}),
     DIPLOMATIC_DISPATCH |-> Notice(FALSE, TRUE, 2880, 0, "over_cap", 3, Text(70, <<"from_nation">>),
       {Text(50, <<"count">>)}, {Text(8, <<"count">>)}),
     DIRECTIVE_STATUS |-> Notice(FALSE, TRUE, 2880, 120, "always", 0, Text(16, <<"directive_title", "status_text">>),
       {Text(60, <<"count">>)}, {Text(18, <<"count">>)}),
     DEADLINE_WARNING |-> Notice(FALSE, TRUE, 180, 0, "never", 0, Text(70, <<"hours_left">>), {}, {Text(32, <<"hours_left">>)}),
     ORDER_JUDGE_ASSIGNED |-> Notice(FALSE, FALSE, 4320, 0, "never", 0,
       Text(130, <<"order_number", "nation_name", "order_link">>), {}, {}),
     ORDER_JUDGE_REMINDER |-> Notice(FALSE, FALSE, 720, 0, "never", 0,
       Text(70, <<"order_number", "hours_left", "order_link">>), {}, {})]]

Column(id, type, width, filters, searchable) ==
  [id |-> id, type |-> type, source |-> id, width_px |-> width, filters |-> filters, filter_label |-> FALSE,
   sortable |-> TRUE, searchable |-> searchable, scale |-> IF type = "gauge" THEN <<-100, 100>> ELSE <<>>]
Table(id, columns) == [id |-> id, source |-> id, default_sort |-> "number", columns |-> columns]
Numbered == Column("number", "index", 48, <<>>, FALSE)
RegistryFile ==
  [layout |-> [table_max_width_px |-> 870], limits |-> [max_rows_per_table |-> 2000],
   profiles |-> [enabled |-> TRUE, ttl_hours |-> 24, wake_interval_minutes |-> 30, batch_size |-> 100,
     batch_pause_seconds |-> 1, http_timeout_seconds |-> 10, failure_retry_minutes |-> 15],
   tables |-> <<
     Table("players", <<Numbered, Column("player", "person", 190, <<"text">>, TRUE),
       Column("joined", "date", 136, <<"date_range">>, FALSE), Column("level", "integer", 92, <<"number_range">>, FALSE),
       Column("judge_rating", "gauge", 112, <<"number_range">>, FALSE),
       Column("nation", "nation", 292, <<"select_or_contains", "presence">>, TRUE)>>),
     Table("nations", <<Numbered, Column("nation", "nation", 494, <<"select_or_contains">>, TRUE)>>),
     Table("orders", <<Numbered, Column("submitted", "datetime", 136, <<"date_range">>, FALSE)>>)>>]

OrdersFile ==
  [judge |-> [max_pending_verdicts |-> 5, verdict_deadline_hours |-> 72, reminder_percent |-> 75],
   refusal |-> [penalty |-> 2, penalty_late |-> 3, late_window_hours |-> 24],
   author |-> [max_unresolved_orders |-> 5], distribution |-> [retry_interval_seconds |-> 60, batch_size |-> 50],
   limits |-> [title_min_length |-> 3, title_max_length |-> 100, summary_min_length |-> 10,
     summary_max_length |-> 500, url_max_length |-> 200]]

Shipped == [core |-> CoreFile, map |-> MapFile, bot |-> BotFile, registry |-> RegistryFile, orders |-> OrdersFile]

-----------------------------------------------------------------------------
(* One key changed: the last value a rule lets pass, the first it refuses. *)
CoreEdges ==
  {[Shipped EXCEPT !.core.tick.health_max_heartbeat_age_seconds = n] : n \in {90, 91}}
  \cup {[Shipped EXCEPT !.core.nation.most.short = n] : n \in {60, 61}}
  \cup {[Shipped EXCEPT !.core.nation.min_provinces_per_nation = n] : n \in {0, 6}}
  \cup {[Shipped EXCEPT !.core.nation.history_url_allowed_hosts[3] = "vk.ru"]}
  \cup {[Shipped EXCEPT !.core.color.palette = <<10, n>>] : n \in {17, 18, 83}}
  \cup {[Shipped EXCEPT !.core.images.flag.thumb_height = n] : n \in {60}}
  \cup {[Shipped EXCEPT !.core.images.max_side = n] : n \in {4999, 5000}}
  \cup {[Shipped EXCEPT !.core.calendar.epoch_start_day = 2]}

MapEdges ==
  {[Shipped EXCEPT !.map.colors.outside = 12], [Shipped EXCEPT !.map.selection.pulse_min_opacity = 33],
   [Shipped EXCEPT !.map.labels.land_min_px = 14, !.map.labels.land_max_px = 13],
   [Shipped EXCEPT !.map.states.max_px = 20], [Shipped EXCEPT !.map.limits.max_nodes = 99]}

BotEdges ==
  {[Shipped EXCEPT !.bot.sender.lease_seconds = n] : n \in {40, 41}}
  \cup {[Shipped EXCEPT !.bot.sender.concurrency = n] : n \in {1, 2}}
  \cup {[Shipped EXCEPT !.bot.deadline.offset_minutes = 179]}
  \cup {[Shipped EXCEPT !.bot.limits.bundle_max_lines = n] : n \in {20}}
  \cup {[Shipped EXCEPT !.bot.limits.message_max_chars = n] : n \in {1087, 1088}}
  \cup {[Shipped EXCEPT !.bot.types.DIRECTIVE_STATUS.hold_seconds = n, !.bot.types.DIRECTIVE_STATUS.ttl_minutes = 2]
        : n \in {119, 120}}
  \cup {[Shipped EXCEPT !.bot.types.DIPLOMATIC_DISPATCH.max_per_window = 1]}
  \cup {[Shipped EXCEPT !.bot.types.TICK_DIGEST.critical = TRUE]}
  \cup {[Shipped EXCEPT !.bot.types.TICK_DIGEST.line_text = {}]}
  \cup {[Shipped EXCEPT !.bot.types.ORDER_JUDGE_REMINDER.text.names = <<"order_number", n>>]
        : n \in {"order_link", "nation_name"}}
  \cup {[Shipped EXCEPT !.bot.types = [k \in DOMAIN @ \ {gone} |-> @[k]]]
        : gone \in {"TICK_DIGEST", "ORDER_JUDGE_REMINDER"}}
  \cup {[Shipped EXCEPT !.bot.dialog.texts.start_guest.names = <<"nation_name">>]}
  \cup {[Shipped EXCEPT !.bot.dialog.help.allowed_hosts = <<"vk.ru">>]}

RegistryEdges ==
  {[Shipped EXCEPT !.registry.layout.table_max_width_px = n] : n \in {869, 870}}
  \cup {[Shipped EXCEPT !.registry.profiles.ttl_hours = 1, !.registry.profiles.wake_interval_minutes = n] : n \in {60, 61}}
  \cup {[Shipped EXCEPT !.registry.tables[3].columns[2].source = "rating"]}
  \cup {[Shipped EXCEPT !.registry.tables[2].source = n] : n \in {"players", "treaties"}}
  \cup {[Shipped EXCEPT !.registry.tables[1].columns[5].scale = <<100, 100>>]}
  \cup {[Shipped EXCEPT !.registry.tables[1].columns[6].filters = <<"text", "select_or_contains">>]}
  \cup {[Shipped EXCEPT !.registry.tables[3].columns[1].sortable = FALSE]}
  \cup {[Shipped EXCEPT !.registry.profiles.enabled = FALSE]}

OrdersEdges ==
  {[Shipped EXCEPT !.orders.judge.verdict_deadline_hours = 24, !.orders.judge.reminder_percent = 95,
                   !.orders.distribution.retry_interval_seconds = n] : n \in {2160, 2161}}
  \cup {[Shipped EXCEPT !.orders.refusal.late_window_hours = n] : n \in {72, 73}}
  \cup {[Shipped EXCEPT !.orders.refusal.penalty = n] : n \in {3, 4}}

Edges == CoreEdges \cup MapEdges \cup BotEdges \cup RegistryEdges \cup OrdersEdges

(* The production environment with a bot that may run; and any other.      *)
Production == [strict |-> TRUE, problems |-> {}, codecs |-> TRUE, map_matches |-> TRUE,
               bot_enabled |-> TRUE, bot_complete |-> TRUE, token |-> TRUE]
Environments ==
  [strict : BOOLEAN, problems : {{}, {"JWT_SECRET_KEY"}}, codecs : BOOLEAN, map_matches : BOOLEAN,
   bot_enabled : BOOLEAN, bot_complete : BOOLEAN, token : BOOLEAN]

SampleDeployments ==
  [yaml : Edges, env : {Production}] \cup [yaml : {Shipped}, env : Environments]
=============================================================================
