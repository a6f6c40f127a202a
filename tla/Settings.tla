------------------------------ MODULE Settings -------------------------------
(***************************************************************************)
(* What the five YAML files of configs/ may say: the rules their schemas   *)
(* check when the backend starts.  A file is a record of its sections, a   *)
(* section one of its keys; a fraction is in hundredths, a colour, a host  *)
(* and a name are values, an optional template is a set of at most one.    *)
(* How the client draws the map is left out but for the rules that tie two *)
(* keys together.                                                          *)
(***************************************************************************)
EXTENDS Integers, Sequences, FiniteSets, Functions, FiniteSetsExt

CONSTANTS
  Distance(_, _),  \* of two colours in OKLab, in hundredths
  Variables,       \* what the owner of a notification type promises to fill in
  Builtin,         \* types of the bot itself
  Answers          \* variables of the bot's answers in the dialog

(* In a list that allows no repetition.                                    *)
Unlike(list) == IsInjective(list)

-----------------------------------------------------------------------------
(* 00_core.yaml                                                            *)

TickAccepted(s) ==
  /\ s.tick_time_valid /\ s.tick_timezone_known
  /\ s.tick_interval_hours \in 1..168
  /\ s.retry_delay_seconds \in 1..3600
  /\ s.heartbeat_interval_seconds \in 1..300
  /\ s.health_max_heartbeat_age_seconds \in 60..3600

AuthAccepted(s) ==
  s.vk_ts_freshness_window_minutes \in 1..120 /\ s.jwt_ttl_minutes \in 5..1440

PanelAccepted(s) ==
  /\ s.link_ttl_seconds \in 10..300 /\ s.session_ttl_minutes \in 5..240
  /\ s.max_pending_links_per_player \in 1..10
  /\ s.audit_log_max_rows \in 500..1000000

(* The longest a field of a nation may be, the columns of the base.        *)
Longest == [name |-> 100, short |-> 100, leader |-> 100, title |-> 100, capital |-> 100,
            motto |-> 100, description |-> 200, bio |-> 2000, url |-> 2000]

GroupsFit(s) == s.min_provinces_per_nation <= s.max_provinces_per_nation

NationAccepted(s) ==
  /\ \A f \in DOMAIN s.least : s.least[f] \in 1..10 /\ s.least[f] <= s.most[f]
  /\ \A f \in DOMAIN Longest : s.most[f] \in (IF f = "url" THEN 30 ELSE 1)..Longest[f]
  /\ s.most.short <= s.most.name
  /\ s.min_provinces_per_nation \in 0..10 /\ s.max_provinces_per_nation \in 1..200
  /\ GroupsFit(s)
  /\ Len(s.history_url_allowed_hosts) \in 1..10 /\ Unlike(s.history_url_allowed_hosts)

ColorAccepted(s) ==
  /\ s.min_distance_nations \in 2..50 /\ s.min_distance_reserved \in 2..50
  /\ Len(s.reserved) \in 1..20 /\ Len(s.palette) \in 1..60 /\ Unlike(s.palette)
  /\ \A i, j \in DOMAIN s.palette :
       i < j => Distance(s.palette[i], s.palette[j]) >= s.min_distance_nations
  /\ \A i \in DOMAIN s.palette, r \in Range(s.reserved) :
       Distance(s.palette[i], r) >= s.min_distance_reserved

(* A picture and its miniature, the same proportion.                       *)
FormatAccepted(f) ==
  /\ f.width \in 60..2000 /\ f.height \in 60..2000
  /\ f.thumb_width \in 16..400 /\ f.thumb_height \in 16..400
  /\ f.width * f.thumb_height = f.height * f.thumb_width
  /\ f.thumb_width <= f.width /\ f.thumb_height <= f.height

ImagesAccepted(s) ==
  /\ FormatAccepted(s.flag) /\ s.flag.width > s.flag.height
  /\ FormatAccepted(s.portrait) /\ s.portrait.height > s.portrait.width
  /\ s.webp_quality \in 50..100 /\ s.max_upload_bytes \in 100000..20000000
  /\ s.max_pixels \in 1000000..100000000 /\ s.max_side \in 1000..20000
  /\ s.max_pixels <= s.max_side * s.max_side

ReviewAccepted(s) ==
  /\ s.review_hours \in 1..168 /\ s.comment_max_length \in 10..1000
  /\ s.worker_interval_seconds \in 10..600

CalendarAccepted(s) ==
  /\ s.months_per_turn \in 1..12 /\ Len(s.month_names) = 12 /\ Unlike(s.month_names)
  /\ s.epoch_start_day = 1

CoreAccepted(c) ==
  /\ TickAccepted(c.tick) /\ AuthAccepted(c.auth) /\ PanelAccepted(c.admin_panel)
  /\ NationAccepted(c.nation) /\ ColorAccepted(c.color) /\ ImagesAccepted(c.images)
  /\ ReviewAccepted(c.applications) /\ CalendarAccepted(c.calendar)
  /\ c.tick.health_max_heartbeat_age_seconds >
       c.tick.retry_delay_seconds + c.tick.heartbeat_interval_seconds

-----------------------------------------------------------------------------
(* 01_map.yaml                                                             *)

MapColorsAccepted(s) == Unlike(<<s.neutral_province, s.sea, s.outside>>)

SelectionAccepted(s) ==
  /\ s.pulse_min_opacity \in 0..100 /\ s.pulse_max_opacity \in 0..100
  /\ s.pulse_min_opacity <= s.pulse_max_opacity

LabelsAccepted(s) ==
  /\ s.land_min_px \in 6..14 /\ s.land_max_px \in 9..30 /\ s.land_min_px <= s.land_max_px
  /\ s.sea_min_px \in 6..14 /\ s.sea_max_px \in 9..30 /\ s.sea_min_px <= s.sea_max_px

StatesAccepted(s) == s.min_px \in 6..30 /\ s.max_px \in 20..200 /\ s.min_px <= s.max_px

MapAccepted(c) ==
  /\ MapColorsAccepted(c.colors) /\ SelectionAccepted(c.selection)
  /\ LabelsAccepted(c.labels) /\ StatesAccepted(c.states)
  /\ c.limits.max_nodes \in 100..20000 /\ c.limits.max_edges_per_node \in 4..100

-----------------------------------------------------------------------------
(* 02_bot.yaml                                                             *)

(* A template is known, has no stray braces, and fits into a message with  *)
(* every variable at its longest.                                          *)
TemplateAccepted(t, allowed, limits) ==
  /\ t.size <= 1000 /\ t.clean
  /\ Range(t.names) \subseteq allowed
  /\ t.plain + Len(t.names) * limits.variable_max_length <= limits.message_max_chars

VkAccepted(s) == s.http_timeout_seconds \in 2..60

SenderAccepted(s) ==
  /\ s.poll_interval_seconds \in 1..30 /\ s.claim_batch_size \in 1..50
  /\ s.concurrency \in 1..10 /\ s.lease_seconds \in 30..900
  /\ s.max_requests_per_second \in 1..20 /\ s.max_attempts \in 1..20
  /\ s.backoff_base_seconds \in 1..600 /\ s.backoff_cap_seconds \in 1..3600
  /\ s.backoff_base_seconds <= s.backoff_cap_seconds
  /\ s.backoff_jitter \in 0..100 /\ s.purge_after_days \in 1..90

BreakerAccepted(s) ==
  /\ s.window_seconds \in 30..3600 /\ s.min_attempts \in 3..100
  /\ s.failure_ratio \in 1..100 /\ s.open_seconds \in 10..3600

LimitsAccepted(s) ==
  /\ s.daily_cap_normal \in 1..100 /\ s.bundle_max_lines \in 2..20
  /\ s.variable_max_length \in 20..500 /\ s.message_max_chars \in 200..9000

ConsentAccepted(s) ==
  /\ s.recheck_after_seconds \in 60..86400 /\ s.refresh_min_interval_seconds \in 1..60
  /\ s.reconcile_sweep_interval_seconds \in 60..86400 /\ s.reconcile_batch_size \in 1..100

HoldEndsInTime(t) == t.hold_seconds < t.ttl_minutes * 60

TypeInRange(t) ==
  /\ t.ttl_minutes \in 1..10080 /\ t.hold_seconds \in 0..3600
  /\ t.max_per_window \in 0..100 /\ t.window_minutes \in 1..10080

TypeAccepted(t) ==
  /\ TypeInRange(t)
  /\ t.merge # "never" => t.batch_text # {}
  /\ t.merge = "over_cap" => t.max_per_window >= 2
  /\ t.counts_toward_cap => t.line_text # {}
  /\ t.critical => ~t.counts_toward_cap /\ t.merge = "never" /\ t.hold_seconds = 0
  /\ HoldEndsInTime(t)

(* The links of the help buttons: none, or to one of the known hosts.      *)
HelpAccepted(s) ==
  /\ Len(s.allowed_hosts) \in 1..10 /\ Unlike(s.allowed_hosts)
  /\ \A l \in s.links : l.https /\ l.host \in Range(s.allowed_hosts)

ClientAccepted(s) ==
  /\ s.consent_poll_interval_seconds \in 2..30 /\ s.consent_poll_timeout_seconds \in 10..600
  /\ s.consent_poll_timeout_seconds > s.consent_poll_interval_seconds

DialogAccepted(s) ==
  /\ s.plate_cooldown_minutes \in 1..1440 /\ s.reply_ttl_minutes \in 1..60
  /\ HelpAccepted(s.help)

(* How often one of the lanes of a batch asks VK at the most.              *)
Rounds(s) == (s.claim_batch_size + s.concurrency - 1) \div s.concurrency

(* A line of a bundle with every variable at its longest.                  *)
LineLength(t, limits) == t.plain + Len(t.names) * limits.variable_max_length

Merged(k) == Variables[k] \cup {"count"}

LeaseCoversBatch(c) == c.sender.lease_seconds > Rounds(c.sender) * c.vk.http_timeout_seconds

(* The warning is gone with the tick it warns of.                          *)
WarningEndsInTime(c) == c.types["DEADLINE_WARNING"].ttl_minutes <= c.deadline.offset_minutes

BotAccepted(c) ==
  /\ VkAccepted(c.vk)
  /\ SenderAccepted(c.sender) /\ BreakerAccepted(c.breaker) /\ LimitsAccepted(c.limits)
  /\ ConsentAccepted(c.consent) /\ c.deadline.offset_minutes \in 15..720
  /\ ClientAccepted(c.client) /\ DialogAccepted(c.dialog)
  /\ Builtin \subseteq DOMAIN c.types
  /\ \A k \in DOMAIN c.types : TypeAccepted(c.types[k])
  /\ LeaseCoversBatch(c) /\ WarningEndsInTime(c)
  /\ c.client.chat.https /\ c.client.chat.host \in Range(c.dialog.help.allowed_hosts)
  /\ \A k \in Builtin :
       /\ TemplateAccepted(c.types[k].text, Variables[k], c.limits)
       /\ \A t \in c.types[k].batch_text \cup c.types[k].line_text :
            TemplateAccepted(t, Merged(k), c.limits)
  /\ \A a \in DOMAIN Answers : TemplateAccepted(c.dialog.texts[a], Answers[a], c.limits)
  /\ \A k \in DOMAIN c.types : \A t \in c.types[k].line_text :
       (LineLength(t, c.limits) + 4) * c.limits.bundle_max_lines <= c.limits.message_max_chars

-----------------------------------------------------------------------------
(* 03_registry.yaml                                                        *)

ProfilesAccepted(s) ==
  /\ s.ttl_hours \in 1..720 /\ s.batch_size \in 1..1000
  /\ s.batch_pause_seconds \in 0..60 /\ s.http_timeout_seconds \in 1..60
  /\ s.wake_interval_minutes \in 1..1440 /\ s.failure_retry_minutes \in 1..1440
  /\ s.wake_interval_minutes <= s.ttl_hours * 60
  /\ s.failure_retry_minutes <= s.ttl_hours * 60

(* Filters, search and order that a type of column has a meaning for.      *)
Filters ==
  [index |-> {"number_range"}, integer |-> {"number_range"}, gauge |-> {"number_range"},
   text |-> {"text"}, action_text |-> {"text"}, person |-> {"text"}, flag |-> {},
   date |-> {"number_range", "date_range"}, datetime |-> {"date_range", "presence"},
   nation |-> {"text", "presence", "select_or_contains"}]

ColumnAccepted(c) ==
  /\ c.width_px \in 40..600
  /\ Len(c.filters) <= 4 /\ Unlike(c.filters) /\ Range(c.filters) \subseteq Filters[c.type]
  /\ ~ {"select_or_contains", "text"} \subseteq Range(c.filters)
  /\ c.filter_label => {"number_range", "date_range"} \cap Range(c.filters) # {}
  /\ c.searchable => c.type \in {"text", "person", "nation", "action_text"}
  /\ c.sortable => c.type # "flag"
  /\ IF c.type = "gauge" THEN Len(c.scale) = 2 /\ c.scale[1] < c.scale[2] ELSE c.scale = <<>>

TableAccepted(t) ==
  /\ Len(t.columns) \in 1..20
  /\ \A i \in DOMAIN t.columns : ColumnAccepted(t.columns[i])
  /\ Unlike([i \in DOMAIN t.columns |-> t.columns[i].id])
  /\ \E i \in DOMAIN t.columns : t.columns[i].id = t.default_sort /\ t.columns[i].sortable

Width(t) == MapThenSumSet(LAMBDA i : t.columns[i].width_px, DOMAIN t.columns)

RegistryAccepted(c) ==
  /\ c.layout.table_max_width_px \in 400..910 /\ c.limits.max_rows_per_table \in 50..10000
  /\ ProfilesAccepted(c.profiles)
  /\ Len(c.tables) \in 1..12 /\ Unlike([i \in DOMAIN c.tables |-> c.tables[i].id])
  /\ \A i \in DOMAIN c.tables :
       TableAccepted(c.tables[i]) /\ Width(c.tables[i]) <= c.layout.table_max_width_px

-----------------------------------------------------------------------------
(* 04_orders.yaml                                                          *)

DeadlineSeconds(s) == s.verdict_deadline_hours * 3600
ReminderSeconds(s) == (DeadlineSeconds(s) * s.reminder_percent) \div 100

JudgeAccepted(s) ==
  /\ s.max_pending_verdicts \in 1..50 /\ s.verdict_deadline_hours \in 1..720
  /\ s.reminder_percent \in 10..95

RefusalAccepted(s) ==
  /\ s.penalty \in 1..50 /\ s.penalty_late \in 1..50 /\ s.late_window_hours \in Nat \ {0}
  /\ s.penalty_late >= s.penalty

TextsAccepted(s) ==
  /\ s.title_min_length \in 1..20 /\ s.title_max_length \in 1..200
  /\ s.summary_min_length \in 1..100 /\ s.summary_max_length \in 1..2000
  /\ s.title_min_length <= s.title_max_length /\ s.summary_min_length <= s.summary_max_length
  /\ s.url_max_length \in 30..2000

DistributionAccepted(s) == s.retry_interval_seconds \in 10..3600 /\ s.batch_size \in 1..500

(* Two passes of the worker fit between the reminder and the deadline.     *)
ReminderIsTimely(c) ==
  2 * c.distribution.retry_interval_seconds <= DeadlineSeconds(c.judge) - ReminderSeconds(c.judge)

OrdersAccepted(c) ==
  /\ JudgeAccepted(c.judge) /\ RefusalAccepted(c.refusal) /\ TextsAccepted(c.limits)
  /\ DistributionAccepted(c.distribution) /\ c.author.max_unresolved_orders \in 1..50
  /\ ReminderIsTimely(c) /\ c.refusal.late_window_hours <= c.judge.verdict_deadline_hours
=============================================================================
