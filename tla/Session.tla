------------------------------- MODULE Session -------------------------------
(***************************************************************************)
(* The days of the system: systemd starts init at 08:00, the engines when  *)
(* init has ended, and stops them at 15:45 (scripts/systemd); init runs    *)
(* its twelve steps (engines/init); the scheduler fires its jobs           *)
(* (engines/scheduler); background drains the closed-position reports into *)
(* Postgres, consumes the scheduler's events and polls the broker's kill   *)
(* switch (engines/background); the operator's commands arrive through the *)
(* API gateway, which is always up (engines/api_gateway/rest); order_exec  *)
(* enters through its gate and leaves reports behind.                      *)
(*                                                                         *)
(* flush_runtime_namespaces deletes auto_continue, skip_today,             *)
(* force_paper_today and mode before steps 5 and 10 read them, and nothing *)
(* writes them meanwhile: step 5 always passes and step 10 always sets     *)
(* mode_today to paper.  Neither has a step here.                          *)
(***************************************************************************)
EXTENDS StrikeBasket, Sequences

CONSTANTS
  Index,         \* K.INDEXES
  Triggers,      \* the jobs between 08:00 and 15:45, in the order of their times
  Spots,         \* the index prices the broker can report
  Listing,       \* the lists of contracts it can report
  MaxPending,    \* LTRIM keeps this many reports
  Batch,         \* XREADGROUP count
  MaxDay, MaxReports,   \* no bound is larger than these
  Bounds         \* the bounds explored: days, reports, operator commands,
                 \* faults and outages of Postgres; which reports do not
                 \* pass validation and which ones Postgres always refuses

Kinds == {"pre_open_snapshot", "market_open", "entry_freeze", "eod_squareoff",
          "market_close", "daily_reset", "instrument_refresh", "nightly_maintenance"}

ASSUME SessionAssumption ==
  /\ Triggers \in Seq(Kinds) /\ MaxPending \in Nat \ {0} /\ Batch \in Nat \ {0}
  /\ MaxDay \in Nat \ {0} /\ MaxReports \in Nat
  /\ \A contracts \in Listing : \A c \in contracts : c.expiry \in Nat
  /\ Bounds \subseteq [days : 1..MaxDay, reports : 0..MaxReports, cmds : Nat,
                       faults : Nat, outages : Nat,
                       malformed : SUBSET (1..MaxReports), refused : SUBSET (1..MaxReports)]

Task == {"consumer", "poller"}    \* tasks of background that an exception ends
Reasons == {"none", "init_failed", "awaiting_credentials", "auth_invalid", "holiday",
            "non_standard_session", "no_indexes_enabled", "basket_build_failed",
            "market_closed", "manual_kill"}
Off == [ready |-> FALSE, active |-> FALSE, reason |-> "none"]

VARIABLES
  bound,
  day, clock,    \* the day, and how many triggers of it have passed
  ipc,           \* where init is
  todo,          \* step 11: indexes still to build
  verdict,       \* what today's init decided: a reason, "ok" or "pending"
  stack,         \* the engines are up
  flag,          \* system:flags: ready, trading_active, trading_disabled_reason
  enabled,       \* the indexes' enabled flags
  built,         \* option chain and basket per index
  desired,       \* market_data:subscriptions:desired
  master,        \* the day market_data:instruments:master was loaded, 0 if empty
  row, creds,    \* credentials: "none", "bad" or "ok" in Postgres; in Redis or not
  token,         \* user:auth:access_token: "none", "old" or "valid"
  engaged, ks,   \* the broker's kill switch; its cached snapshot
  events, grp,   \* the scheduler's stream; last entry delivered to the group, -1
  bg, tasks,     \* background is up; its tasks that are alive
  batch,         \* events the consumer has read and not handled
  pgUp,          \* Postgres answers
  made, pos,     \* order_exec: reports written; its position
  pending, hand, rows,   \* reports in Redis, in the drainer's hand, in Postgres
  closed,        \* orders:positions:closed_today, each with the day it was closed
  used           \* commands, faults and outages so far

initVars == <<ipc, todo, verdict>>
flags == <<flag, enabled>>
books == <<built, desired, master>>
auth == <<row, creds, token>>
kill == <<engaged, ks>>
bus == <<events, grp>>
back == <<bg, tasks, batch, hand>>
trades == <<made, pos, pending, rows, closed>>
time == <<bound, day, clock>>
vars == <<time, initVars, stack, flags, books, auth, kill, bus, back, pgUp, trades, used>>

Init ==
  /\ bound \in Bounds /\ day = 1 /\ clock = 0
  /\ ipc = "off" /\ todo = {} /\ verdict = "pending" /\ stack = FALSE
  /\ flag = Off /\ enabled = [i \in Index |-> FALSE]
  /\ built = [i \in Index |-> NotBuilt] /\ desired = {} /\ master = 0
  /\ row \in {"none", "bad", "ok"} /\ creds = FALSE /\ token = "none"
  /\ engaged = FALSE /\ ks = "none"
  /\ events = <<>> /\ grp = -1
  /\ bg = FALSE /\ tasks = {} /\ batch = <<>> /\ hand = 0
  /\ pgUp = TRUE
  /\ made = 0 /\ pos = "none" /\ pending = <<>> /\ rows = <<>> /\ closed = {}
  /\ used = [cmds |-> 0, faults |-> 0, outages |-> 0]

Spend(what) == used[what] < bound[what] /\ used' = [used EXCEPT ![what] = @ + 1]
Disabled(reason) == [flag EXCEPT !.active = FALSE, !.reason = reason]
-----------------------------------------------------------------------------
(* Init.                                                                   *)

Goto(from, to) == ipc = from /\ ipc' = to

\* _set_disabled and ready: the day is skipped, the exit code is 0.
Skip(reason) ==
  /\ ipc' = "done" /\ verdict' = reason /\ todo' = {}
  /\ flag' = [Disabled(reason) EXCEPT !.ready = TRUE]

\* _set_init_failed, exit code 1.
InitFailed ==
  /\ ipc' = "failed" /\ verdict' = "init_failed" /\ todo' = {}
  /\ flag' = Disabled("init_failed")

\* pcr-start.timer, or the boot of the machine.
TimerStart ==
  /\ ~stack /\ Goto("off", "connect") /\ clock < Len(Triggers) /\ verdict' = "pending"
  /\ UNCHANGED <<time, todo, stack, flags, books, auth, kill, bus, back, pgUp, trades, used>>

\* Steps 1 and 2.
Connect ==
  /\ ipc = "connect"
  /\ IF pgUp THEN ipc' = "flush" /\ UNCHANGED <<todo, verdict, flag>> ELSE InitFailed
  /\ UNCHANGED <<time, stack, enabled, books, auth, kill, bus, back, pgUp, trades, used>>

\* The slip: only the keys of the template are reset, nothing is deleted.
FlushNothing ==
  /\ Goto("flush", "template")
  /\ UNCHANGED <<time, todo, verdict, stack, flags, books, auth, kill, bus, back, pgUp,
                 trades, used>>

\* Step 3, first half: every key under system:, market_data:, strategy: and
\* orders: goes, streams and the pending reports too; user: stays.
flush_runtime_namespaces ==
  /\ Goto("flush", "template")
  /\ flag' = Off /\ enabled' = [i \in Index |-> FALSE]
  /\ built' = [i \in Index |-> NotBuilt] /\ desired' = {} /\ master' = 0
  /\ events' = <<>> /\ grp' = -1 /\ pending' = <<>> /\ closed' = {}
  /\ UNCHANGED <<time, todo, verdict, stack, auth, kill, back, pgUp, made, pos, rows, used>>

\* Step 3, second half.
apply_template ==
  /\ Goto("template", "hydrate")
  /\ flag' = Off /\ enabled' = [i \in Index |-> TRUE]
  /\ UNCHANGED <<time, todo, verdict, stack, books, auth, kill, bus, back, pgUp, trades, used>>

\* A blob encrypted under the key of this machine can be read back; any other is
\* "bad" and raises.
encrypt_json == "ok"
decrypt_json(blob) == blob = "ok"

\* A row that can be decrypted is mirrored; the copy of one that cannot stays.
hydrate_credentials == creds' = (creds \/ decrypt_json(row))

\* Step 4.
hydrate_all ==
  /\ ipc = "hydrate"
  /\ IF pgUp
       THEN /\ hydrate_credentials
            /\ ipc' = IF decrypt_json(row) THEN "auth" ELSE "no_creds"
            /\ UNCHANGED <<todo, verdict, flag>>
       ELSE InitFailed /\ UNCHANGED creds
  /\ UNCHANGED <<time, stack, enabled, books, row, token, kill, bus, back, pgUp, trades, used>>

\* What the broker says of the cached token; a network error is a refusal.
is_token_valid_remote == IF token = "valid" THEN BOOLEAN ELSE {FALSE}

\* What three attempts to log in with a browser capture, and what it buys.
fetch_auth_code == {"code", "nothing"}
exchange_code_for_token(code) == IF code = "code" THEN {"token", "nothing"} ELSE {"nothing"}
refresh_via_playwright == UNION {exchange_code_for_token(c) : c \in fetch_auth_code}

\* Reuse the cached token or log in; if both fail the operator is asked to
\* approve a token (upstox_webhook) and the answer is "invalid".
ensure_valid_token(answer) ==
  IF ~creds THEN answer = "missing" /\ token' = token
  ELSE \/ TRUE \in is_token_valid_remote /\ answer = "valid" /\ token' = token
       \/ /\ FALSE \in is_token_valid_remote
          /\ \E got \in refresh_via_playwright :
               IF got = "token" THEN answer = "valid" /\ token' = "valid"
                                ELSE answer = "invalid" /\ token' = token

\* Step 6.
Auth ==
  /\ \/ ipc = "no_creds" /\ Skip("awaiting_credentials") /\ token' = token
     \/ /\ ipc = "auth"
        /\ \E answer \in {"valid", "invalid", "missing"} :
             /\ ensure_valid_token(answer)
             /\ IF answer = "valid" THEN ipc' = "holiday" /\ UNCHANGED <<todo, verdict, flag>>
                ELSE Skip(IF answer = "missing" THEN "awaiting_credentials" ELSE "auth_invalid")
  /\ UNCHANGED <<time, stack, enabled, books, row, creds, kill, bus, back, pgUp, trades, used>>

\* What the calendar mirrored by step 4 says of the day, and what the broker
\* answers about it: no entry, NSE open, NSE closed or not named.
hydrate_market_calendar == {"trading", "holiday", "not_covered"}
get_holidays == {"failed", "no_entry", "open", "closed", "not_named"}

is_holiday_for(entry) == entry \in {"closed", "not_named"}
is_trading_day_today_via_broker(answer) == answer # "failed" /\ ~is_holiday_for(answer)
is_trading_day_today(cal, answer) ==
  cal = "trading" \/ (cal = "not_covered" /\ is_trading_day_today_via_broker(answer))

\* Step 7.
HolidayGate ==
  /\ ipc = "holiday"
  /\ \E cal \in hydrate_market_calendar, answer \in get_holidays :
       IF is_trading_day_today(cal, answer)
         THEN ipc' = "timings" /\ UNCHANGED <<todo, verdict, flag>>
         ELSE Skip("holiday")
  /\ UNCHANGED <<time, stack, enabled, books, auth, kill, bus, back, pgUp, trades, used>>

get_market_timings == {"failed", "usual_hours", "other_hours", "not_named"}
is_standard_session(timings) == timings = "usual_hours"

\* Step 8: a failed probe counts as a standard session.
SessionGate ==
  /\ ipc = "timings"
  /\ \E timings \in get_market_timings :
       IF timings = "failed" \/ is_standard_session(timings)
         THEN ipc' = "instruments" /\ UNCHANGED <<todo, verdict, flag>>
         ELSE Skip("non_standard_session")
  /\ UNCHANGED <<time, stack, enabled, books, auth, kill, bus, back, pgUp, trades, used>>

\* The master list is wiped and rewritten in batches; a failed download leaves
\* it, a failure while it is written leaves part of it (nothing, here).
download_master_contract == BOOLEAN
load_master_instruments ==
  \E downloaded \in download_master_contract :
    IF downloaded THEN master' \in {0, day} ELSE master' = master

\* Step 9, best effort, and the list of step 11.
Instruments ==
  /\ ipc = "instruments" /\ load_master_instruments
  /\ LET on == {i \in Index : enabled[i]}
     IN IF on = {} THEN Skip("no_indexes_enabled")
        ELSE ipc' = "basket" /\ todo' = on /\ UNCHANGED <<verdict, flag>>
  /\ UNCHANGED <<time, stack, enabled, built, desired, auth, kill, bus, back, pgUp, trades, used>>

\* What the broker reports: a price of zero is no price; a failed call ends like
\* an empty list.
get_ltp == {NoSpot} \cup {p \in Spots : p > 0}
get_option_contracts == {{}} \cup Listing

\* Step 11 for one index: one that cannot be built, or whose builder raises (no
\* configuration), is disabled.  The index's name stands for its spot token.
BuildIndex ==
  /\ ipc = "basket"
  /\ \E i \in todo :
       /\ todo' = todo \ {i}
       /\ \E spot \in get_ltp, contracts \in get_option_contracts :
            LET b == build_for_index(spot, contracts, day)
            IN /\ built' = [built EXCEPT ![i] = b]
               /\ desired' = desired \cup (IF b = NotBuilt THEN {} ELSE b.chain \cup {i})
               /\ enabled' = [enabled EXCEPT ![i] = IF b = NotBuilt THEN FALSE ELSE @]
  /\ UNCHANGED <<time, ipc, verdict, stack, flag, master, auth, kill, bus, back, pgUp, trades, used>>

\* Step 12, or no index could be built.
Finish ==
  /\ ipc = "basket" /\ todo = {}
  /\ IF \A i \in Index : built[i] = NotBuilt THEN Skip("basket_build_failed")
     ELSE /\ ipc' = "done" /\ verdict' = "ok" /\ todo' = todo
          /\ flag' = [ready |-> TRUE, active |-> TRUE, reason |-> "none"]
  /\ UNCHANGED <<time, stack, enabled, books, auth, kill, bus, back, pgUp, trades, used>>

\* A Redis command of a step raises.  Steps 3 and 4 record it if they can; an
\* exception of another step ends init with code 1 and no flag.
InitRaises ==
  /\ ipc \notin {"off", "done", "failed"} /\ Spend("faults")
  /\ \/ ipc \in {"connect", "flush", "template", "hydrate"} /\ InitFailed
     \/ ipc' = "failed" /\ verdict' = "init_failed" /\ todo' = {} /\ flag' = flag
  /\ UNCHANGED <<time, stack, enabled, books, auth, kill, bus, back, pgUp, trades>>

InitStep ==
  \/ TimerStart \/ Connect \/ flush_runtime_namespaces \/ apply_template \/ hydrate_all
  \/ Auth \/ HolidayGate \/ SessionGate \/ Instruments \/ BuildIndex \/ Finish
-----------------------------------------------------------------------------
(* systemd.                                                                *)

\* pcr-stack.target requires pcr-init.service, but the engines it wants are
\* only ordered After= it: their start jobs wait for init to end, well or not.
StackUp ==
  /\ ipc \in {"done", "failed"} /\ ~stack /\ clock < Len(Triggers) /\ stack' = TRUE
  /\ UNCHANGED <<time, initVars, flags, books, auth, kill, bus, back, pgUp, trades, used>>

\* Everything in the engines' memory is gone, the report in hand too: shutdown
\* cancels the drainer wherever it waits.
EnginesDown ==
  /\ bg' = FALSE /\ tasks' = {} /\ batch' = <<>> /\ hand' = 0 /\ pos' = "none"

\* pcr-stop.timer at 15:45 and the night: the broker's token expires at 03:30.
StopAndNight ==
  /\ clock = Len(Triggers) /\ day < bound.days
  /\ day' = day + 1 /\ clock' = 0
  /\ stack' = FALSE /\ ipc' = "off" /\ todo' = {} /\ verdict' = "pending" /\ EnginesDown
  /\ token' = IF token = "valid" THEN "old" ELSE token
  /\ UNCHANGED <<bound, flags, books, row, creds, kill, bus, pgUp, made, pending, rows, closed, used>>

\* The machine reboots: init runs again, at whatever time it is.
Reboot ==
  /\ ipc # "off" /\ Spend("faults")
  /\ stack' = FALSE /\ ipc' = "off" /\ todo' = {} /\ verdict' = "pending" /\ EnginesDown
  /\ UNCHANGED <<time, flags, books, auth, kill, bus, pgUp, made, pending, rows, closed>>

PgDown ==
  /\ pgUp /\ Spend("outages") /\ pgUp' = FALSE
  /\ UNCHANGED <<time, initVars, stack, flags, books, auth, kill, bus, back, trades>>

PgBack ==
  /\ ~pgUp /\ pgUp' = TRUE
  /\ UNCHANGED <<time, initVars, stack, flags, books, auth, kill, bus, back, trades, used>>
-----------------------------------------------------------------------------
(* The scheduler.                                                          *)

\* The flags a job writes; pre_open_snapshot, entry_freeze and eod_squareoff
\* write flags that nobody reads.
JobFlags(kind) ==
  CASE kind = "market_open"  -> [flag EXCEPT !.active = TRUE, !.reason = "none"]
    [] kind = "market_close" -> Disabled("market_closed")
    [] OTHER -> flag

Job(kind) ==
  /\ flag' = JobFlags(kind)
  /\ events' = Append(events, [kind |-> kind, day |-> day])

\* The time of the next trigger comes; without a scheduler it is missed.
Trigger ==
  /\ clock < Len(Triggers) /\ clock' = clock + 1
  /\ IF stack THEN Job(Triggers[clock']) ELSE UNCHANGED <<flag, events>>
  /\ UNCHANGED <<bound, day, initVars, stack, enabled, books, auth, kill, grp, back, pgUp, trades, used>>

\* The scheduler is restarting, a SET raises, or _publish fails: the job is
\* logged as failed and not tried again.
TriggerFails ==
  /\ stack /\ clock < Len(Triggers) /\ clock' = clock + 1 /\ Spend("faults")
  /\ flag' \in {flag, JobFlags(Triggers[clock'])}
  /\ UNCHANGED <<bound, day, initVars, stack, enabled, books, auth, kill, bus, back, pgUp, trades>>
-----------------------------------------------------------------------------
(* Background.                                                             *)

\* The group is created at the end of the stream unless it exists.
ensure_scheduler_group == grp' = IF grp = -1 THEN Len(events) ELSE grp

\* _amain: without Postgres it exits with 1 and systemd starts it again.
BgStart ==
  /\ stack /\ ~bg /\ pgUp /\ bg' = TRUE /\ tasks' = Task /\ ensure_scheduler_group
  /\ UNCHANGED <<time, initVars, stack, flags, books, auth, kill, events, batch, hand, pgUp, trades, used>>

BgKilled ==
  /\ bg /\ Spend("faults")
  /\ bg' = FALSE /\ tasks' = {} /\ batch' = <<>> /\ hand' = 0
  /\ UNCHANGED <<time, initVars, stack, flags, books, auth, kill, bus, pgUp, trades>>

\* An exception outside a task's try (XACK, the poller's GET) ends the task;
\* _amain waits for the shutdown event only and does not notice.
TaskDies ==
  /\ bg /\ Spend("faults") /\ \E t \in tasks : tasks' = tasks \ {t}
  /\ batch' = IF "consumer" \in tasks' THEN batch ELSE <<>>
  /\ UNCHANGED <<time, initVars, stack, flags, books, auth, kill, bus, bg, hand, pgUp, trades>>

\* drain_loop: BLPOP.
Pop ==
  /\ bg /\ hand = 0 /\ pending # <<>>
  /\ hand' = Head(pending) /\ pending' = Tail(pending)
  /\ UNCHANGED <<time, initVars, stack, flags, books, auth, kill, bus, bg, tasks, batch, pgUp,
                 made, pos, rows, closed, used>>

\* INSERT: the table has no key that would refuse a second copy.
persist_report == rows' = Append(rows, hand)

Insert ==
  /\ hand # 0 /\ pgUp /\ hand \notin bound.malformed \cup bound.refused
  /\ persist_report /\ hand' = 0
  /\ UNCHANGED <<time, initVars, stack, flags, books, auth, kill, bus, bg, tasks, batch, pgUp,
                 made, pos, pending, closed, used>>

\* A report that does not pass validation is dropped.
DropMalformed ==
  /\ hand # 0 /\ hand \in bound.malformed /\ hand' = 0
  /\ UNCHANGED <<time, initVars, stack, flags, books, auth, kill, bus, bg, tasks, batch, pgUp,
                 trades, used>>

InsertRaises == hand # 0 /\ hand \notin bound.malformed /\ (~pgUp \/ hand \in bound.refused)

\* The slip: the report goes to the tail of the list.
RequeueLast ==
  /\ InsertRaises /\ pending' = Append(pending, hand) /\ hand' = 0
  /\ UNCHANGED <<time, initVars, stack, flags, books, auth, kill, bus, bg, tasks, batch, pgUp,
                 made, pos, rows, closed, used>>

\* The slip: a failed report is dropped as a malformed one is.
RequeueNever ==
  /\ InsertRaises /\ pending' = pending /\ hand' = 0
  /\ UNCHANGED <<time, initVars, stack, flags, books, auth, kill, bus, bg, tasks, batch, pgUp,
                 made, pos, rows, closed, used>>

\* INSERT fails, now or (a refused report) every time: back to the head of the
\* list.
Requeue ==
  /\ InsertRaises /\ pending' = <<hand>> \o pending /\ hand' = 0
  /\ UNCHANGED <<time, initVars, stack, flags, books, auth, kill, bus, bg, tasks, batch, pgUp,
                 made, pos, rows, closed, used>>

\* LPUSH fails as well (the report is gone), or the connection breaks after
\* Postgres has committed (the report will be inserted twice).
DrainFails ==
  /\ hand # 0 /\ hand \notin bound.malformed /\ Spend("faults") /\ hand' = 0
  /\ \/ UNCHANGED <<pending, rows>>
     \/ /\ pgUp /\ hand \notin bound.refused
        /\ persist_report /\ pending' = <<hand>> \o pending
  /\ UNCHANGED <<time, initVars, stack, flags, books, auth, kill, bus, bg, tasks, batch, pgUp,
                 made, pos, closed>>

\* _scheduler_consumer: up to Batch new events are delivered at once.
ReadEvents ==
  /\ "consumer" \in tasks /\ batch = <<>> /\ grp < Len(events)
  /\ grp' = IF grp + Batch < Len(events) THEN grp + Batch ELSE Len(events)
  /\ batch' = SubSeq(events, grp + 1, grp')
  /\ UNCHANGED <<time, initVars, stack, flags, books, auth, kill, events, bg, tasks, hand, pgUp,
                 trades, used>>

on_daily_reset == closed' = {}

\* One event is handled and acknowledged.
HandleEvent ==
  /\ batch # <<>> /\ batch' = Tail(batch)
  /\ IF Head(batch).kind = "daily_reset" THEN on_daily_reset ELSE closed' = closed
  /\ IF Head(batch).kind = "instrument_refresh" THEN load_master_instruments
                                                ELSE master' = master
  /\ UNCHANGED <<time, initVars, stack, flags, built, desired, auth, kill, bus, bg, tasks, hand,
                 pgUp, made, pos, pending, rows, used>>

\* The handler raises; the event is acknowledged all the same.
HandlerRaises ==
  /\ batch # <<>> /\ batch' = Tail(batch) /\ Spend("faults")
  /\ UNCHANGED <<time, initVars, stack, flags, books, auth, kill, bus, bg, tasks, hand, pgUp, trades>>

\* The list of segments, as the broker reports it.
get_kill_switch_status == IF engaged THEN "engaged" ELSE "clear"

\* The slip: a snapshot that is there is not fetched again.
PollOnce ==
  /\ "poller" \in tasks /\ token = "valid" /\ ks = "none" /\ ks' = get_kill_switch_status
  /\ UNCHANGED <<time, initVars, stack, flags, books, auth, engaged, bus, back, pgUp, trades, used>>

\* poll_loop, one round with the broker's answer; a failed call leaves the
\* cache as it is.
Poll ==
  /\ "poller" \in tasks /\ token = "valid" /\ ks' = get_kill_switch_status
  /\ UNCHANGED <<time, initVars, stack, flags, books, auth, engaged, bus, back, pgUp, trades, used>>
-----------------------------------------------------------------------------
(* The operator, through the API gateway, and the broker.                  *)

\* halt_index, resume_index.
SetIndex ==
  /\ Spend("cmds") /\ \E i \in Index : enabled' = [enabled EXCEPT ![i] = ~@]
  /\ UNCHANGED <<time, initVars, stack, flag, books, auth, kill, bus, back, pgUp, trades>>

global_kill ==
  /\ Spend("cmds") /\ flag' = Disabled("manual_kill")
  /\ UNCHANGED <<time, initVars, stack, enabled, books, auth, kill, bus, back, pgUp, trades>>

global_resume ==
  /\ Spend("cmds") /\ flag' = [flag EXCEPT !.active = TRUE, !.reason = "none"]
  /\ UNCHANGED <<time, initVars, stack, enabled, books, auth, kill, bus, back, pgUp, trades>>

\* Stored, probed with a token that may be no longer good, and mirrored
\* together with what the probe says.
set_upstox_credentials ==
  /\ Spend("cmds") /\ pgUp /\ row' = encrypt_json /\ creds' = TRUE
  /\ \/ flag' = [flag EXCEPT !.active = TRUE, !.reason = "none"]
     \/ flag' = Disabled("auth_invalid")
  /\ UNCHANGED <<time, initVars, stack, enabled, books, token, kill, bus, back, pgUp, trades>>

delete_upstox_credentials ==
  /\ Spend("cmds") /\ pgUp /\ row' = "none" /\ creds' = FALSE /\ token' = "none"
  /\ flag' = Disabled("awaiting_credentials")
  /\ UNCHANGED <<time, initVars, stack, enabled, books, kill, bus, back, pgUp, trades>>

\* The operator has approved a token in the broker's app and the broker
\* delivers it; no flag changes.
upstox_webhook ==
  /\ Spend("cmds") /\ creds /\ pgUp /\ row' = encrypt_json /\ token' = "valid"
  /\ UNCHANGED <<time, initVars, stack, flags, books, creds, kill, bus, back, pgUp, trades>>

\* The one-off script of state/credentials_store.py: the row first, then its
\* mirror, unless Redis fails in between; no flag changes.
write_credentials == row' = encrypt_json
sync_to_redis == creds' = TRUE
persist_credentials == write_credentials /\ (sync_to_redis \/ creds' = creds)
bootstrap_from_file ==
  /\ Spend("cmds") /\ pgUp /\ persist_credentials
  /\ UNCHANGED <<time, initVars, stack, flags, books, token, kill, bus, back, pgUp, trades>>

set_kill_switch == engaged' \in BOOLEAN

\* The switch is set through the API, which caches the answer as an object, not
\* as the list that the gate and the poller know.
set_capital_kill_switch ==
  /\ Spend("cmds") /\ token = "valid" /\ set_kill_switch /\ ks' = "object"
  /\ UNCHANGED <<time, initVars, stack, flags, books, auth, bus, back, pgUp, trades>>

\* An empty cache is filled in the same way.
capital_kill_switch ==
  /\ Spend("cmds") /\ token = "valid" /\ ks = "none" /\ ks' = "object"
  /\ UNCHANGED <<time, initVars, stack, flags, books, auth, engaged, bus, back, pgUp, trades>>

\* The switch is set in the broker's own app.
BrokerSwitch ==
  /\ Spend("cmds") /\ engaged' = ~engaged
  /\ UNCHANGED <<time, initVars, stack, flags, books, auth, ks, bus, back, pgUp, trades>>

command_instrument_refresh ==
  /\ Spend("cmds") /\ load_master_instruments
  /\ UNCHANGED <<time, initVars, stack, flags, built, desired, auth, kill, bus, back, pgUp, trades>>
-----------------------------------------------------------------------------
(* order_exec (OrderExec has its steps).                                   *)

kill_switch_engaged == ks = "engaged"

Enter ==
  /\ stack /\ pos = "none" /\ made < bound.reports
  /\ flag.active /\ ~kill_switch_engaged /\ pos' = "open"
  /\ UNCHANGED <<time, initVars, stack, flags, books, auth, kill, bus, back, pgUp,
                 made, pending, rows, closed, used>>

\* The slip: LTRIM is forgotten.
BufferUntrimmed ==
  /\ pos = "open" /\ pos' = "reported" /\ made' = made + 1
  /\ pending' = Append(pending, made')
  /\ UNCHANGED <<time, initVars, stack, flags, books, auth, kill, bus, back, pgUp, rows, closed, used>>

\* The position is sold: its report is pushed and the list trimmed.
buffer_report ==
  /\ pos = "open" /\ pos' = "reported" /\ made' = made + 1
  /\ LET all == Append(pending, made')
     IN pending' = IF Len(all) > MaxPending THEN SubSeq(all, Len(all) - MaxPending + 1, Len(all))
                                            ELSE all
  /\ UNCHANGED <<time, initVars, stack, flags, books, auth, kill, bus, back, pgUp, rows, closed, used>>

\* RPUSH or LTRIM raises, which order_exec swallows: there is no report, or the
\* list is not trimmed.
BufferFails ==
  /\ pos = "open" /\ pos' = "reported" /\ made' = made + 1 /\ Spend("faults")
  /\ pending' \in {pending, Append(pending, made')}
  /\ UNCHANGED <<time, initVars, stack, flags, books, auth, kill, bus, back, pgUp, rows, closed>>

\* cleanup: closed_today.
CloseDone ==
  /\ pos = "reported" /\ pos' = "none" /\ closed' = closed \cup {<<made, day>>}
  /\ UNCHANGED <<time, initVars, stack, flags, books, auth, kill, bus, back, pgUp,
                 made, pending, rows, used>>
-----------------------------------------------------------------------------
Systemd == StackUp \/ StopAndNight \/ Reboot \/ PgDown \/ PgBack
Drainer == Pop \/ Insert \/ DropMalformed \/ Requeue
Consumer == ReadEvents \/ HandleEvent
Background == BgStart \/ BgKilled \/ TaskDies \/ Drainer \/ DrainFails \/ Consumer
                \/ HandlerRaises \/ Poll
Operator ==
  \/ SetIndex \/ global_kill \/ global_resume \/ set_upstox_credentials
  \/ delete_upstox_credentials \/ upstox_webhook \/ bootstrap_from_file
  \/ set_capital_kill_switch \/ capital_kill_switch \/ BrokerSwitch \/ command_instrument_refresh
Executor == Enter \/ buffer_report \/ BufferFails \/ CloseDone

Next ==
  \/ InitStep \/ InitRaises \/ Systemd \/ Trigger \/ TriggerFails
  \/ Background \/ Operator \/ Executor

\* Background's loops run; an outage of Postgres is transient.
Fairness ==
  WF_vars(BgStart) /\ WF_vars(Drainer) /\ WF_vars(Consumer) /\ WF_vars(Poll) /\ WF_vars(PgBack)

Spec == Init /\ [][Next]_vars /\ Fairness
-----------------------------------------------------------------------------
(* Properties.                                                             *)

\* Types, and the bound of the pending list: a report put back may exceed the
\* limit by one, and each LTRIM that failed by one more.
TypeOK ==
  /\ bound \in Bounds /\ day \in 1..MaxDay /\ clock \in 0..Len(Triggers)
  /\ ipc \in {"off", "connect", "flush", "template", "hydrate", "no_creds", "auth", "holiday",
              "timings", "instruments", "basket", "done", "failed"}
  /\ todo \subseteq Index /\ verdict \in Reasons \cup {"ok", "pending"}
  /\ stack \in BOOLEAN /\ enabled \in [Index -> BOOLEAN] /\ master \in 0..MaxDay
  /\ flag \in [ready : BOOLEAN, active : BOOLEAN, reason : Reasons]
  /\ row \in {"none", "bad", "ok"} /\ creds \in BOOLEAN /\ token \in {"none", "old", "valid"}
  /\ engaged \in BOOLEAN /\ ks \in {"none", "clear", "engaged", "object"}
  /\ events \in Seq([kind : Kinds, day : 1..MaxDay]) /\ batch \in Seq([kind : Kinds, day : 1..MaxDay])
  /\ grp \in -1..Len(events) /\ bg \in BOOLEAN /\ tasks \subseteq Task /\ pgUp \in BOOLEAN
  /\ made \in 0..MaxReports /\ pos \in {"none", "open", "reported"} /\ hand \in 0..made
  /\ pending \in Seq(1..made) /\ rows \in Seq(1..made) /\ Len(pending) <= MaxPending + 1 + used.faults
  /\ used \in [cmds : Nat, faults : Nat, outages : Nat]
  /\ closed \subseteq (1..MaxReports) \X (1..MaxDay)

\* Nothing of an earlier day survives today's init: closed_today has today's
\* positions only, background will not be handed an event of yesterday (a
\* daily_reset would empty closed_today in mid-session), and what is traded is
\* listed, subscribed and has not expired.
Templated == ipc \notin {"off", "connect", "flush", "failed"}
FreshDay ==
  Templated =>
    /\ \A c \in closed : c[2] = day
    /\ \A i \in 1..Len(events) : events[i].day = day
    /\ \A i \in 1..Len(batch) : batch[i].day = day
    /\ \A i \in Index : /\ built[i].basket \subseteq desired
                        /\ built[i] # NotBuilt => built[i].expiry >= day

\* Reports reach Postgres in the order in which they were buffered, however
\* often one is put back, inserted twice, refused, dropped, trimmed or lost.
Line == rows \o (IF hand = 0 THEN <<>> ELSE <<hand>>) \o pending
ReportsInOrder == \A i, j \in 1..Len(Line) : i < j => Line[i] <= Line[j]

\* Outages of Postgres lose no report: one that is buffered while background
\* runs is in the table in the end, unless it is malformed, a fault or the end
\* of the day intervenes, MaxPending later reports push it out, or a report that
\* Postgres refuses, itself or one before it, holds up the line for ever.
Buffered(r) == hand = r \/ \E i \in 1..Len(pending) : pending[i] = r
Inserted(r) == \E i \in 1..Len(rows) : rows[i] = r
HeldUp(r) == \E q \in bound.refused \ bound.malformed : q <= r /\ Buffered(q)
ReportsDelivered ==
  \A r \in 1..MaxReports :
    (bg /\ Buffered(r))
      ~> \/ Inserted(r) \/ r \in bound.malformed \/ HeldUp(r)
         \/ ~stack \/ used.faults > 0 \/ made >= r + MaxPending

\* A kill switch that is engaged at the broker blocks entries in the end, while
\* the poller lives and has a token: whatever the API has cached meanwhile.
KillSwitchSeen ==
  LET watched == engaged /\ "poller" \in tasks /\ token = "valid"
  IN watched ~> (kill_switch_engaged \/ ~watched)

\* A day that init has disabled stays disabled unless the operator acts: "Init
\* must have run successfully for this to take" (scheduler/jobs.py market_open).
InitVerdictStands ==
  verdict \notin {"ok", "pending"} /\ used.cmds = 0 => ~flag.active
=============================================================================
