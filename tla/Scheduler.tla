------------------------------ MODULE Scheduler ------------------------------
(***************************************************************************)
(* The polling loop of app/scheduler.py against the database it shares     *)
(* with the request handlers of app/routers.                               *)
(*                                                                         *)
(* run_forever starts tick() in a worker thread once per poll interval.    *)
(* A tick opens one session: it reads the Settings row, selects the due    *)
(* schedules, and for each of them either posts to every target device or  *)
(* writes a "skipped" execution, then computes the next occurrence.  All   *)
(* its writes stay in the session until ONE commit at the end, while the   *)
(* posts take effect at once and cannot be taken back.  Between any two    *)
(* database reads or posts of a tick, a request handler may commit.        *)
(*                                                                         *)
(* A request handler is one transaction and one action here, except        *)
(* run-now, which posts to devices for seconds between its read and its    *)
(* commit and is therefore a second thread, as fine grained as the tick.   *)
(*                                                                         *)
(* The unit of time is one poll interval.                                  *)
(***************************************************************************)
EXTENDS Integers, Sequences, FiniteSets

CONSTANTS
    Schedules,          \* schedule ids, each used for at most one row (uuid4)
    Devices,            \* device ids
    Triggers,           \* trigger settings: type, time or offset, days, dates
    SunTriggers,        \* those with trigger_type sunrise or sunset
    Zones,              \* timezone strings a client may store
    UnknownZones,       \* those ZoneInfo() does not know
    NextRunTimes,       \* what the search answers, by trigger, zone and moment
    ShownTwice,         \* instants of an hour that some clock shows again later
    InitialSettings,    \* the Settings row when the backend starts
    InitialSchedules,   \* rows that exist then, [id -> [trigger, devices, enabled]]
    STALE_MULTIPLIER,   \* scheduler._STALE_MULTIPLIER
    NULL,
    MaxTime,            \* bound: the clock stops here
    MaxTickSpan,        \* bound: poll intervals that can pass during one tick
    MaxLog,             \* bound: executions of one schedule, see TickStart
    MaxEdits,           \* bound: requests that change something
    MaxFaults           \* bound: crashes, and exceptions that escape a tick

Zone == Zones \cup {NULL}
Time == 0..MaxTime
OptionalTime == Nat \cup {NULL}

SettingsRow ==
    [located : BOOLEAN, timezone : Zone, catch_up_missed : BOOLEAN]

Row ==
    [trigger : Triggers, devices : SUBSET Devices, enabled : BOOLEAN,
     next_run_at : OptionalTime, last_run_at : OptionalTime]

\* "none": the device was not a target of this execution.
Results == [Devices -> {"none", "success", "failed", "skipped"}]
NoResults == [d \in Devices |-> "none"]

\* occurrence and stuck are auxiliary: the next_run_at the tick worked from,
\* and whether _advance gave up on finding the one after it.
Execution ==
    [kind : {"fired", "skipped", "manual"}, results : Results,
     occurrence : OptionalTime, stuck : BOOLEAN]

\* What the session of a tick holds for a schedule it has handled.
StagedWrite ==
    [execution : Execution, next_run_at : OptionalTime, last_run_at : OptionalTime]

ASSUME NullAssumption == NULL \notin Nat /\ NULL \notin Zones
ASSUME IdAssumption == NULL \notin Schedules
ASSUME ConfigAssumption ==
    /\ Triggers # {} /\ SunTriggers \subseteq Triggers
    /\ UnknownZones \subseteq Zones
    /\ STALE_MULTIPLIER \in Nat
    /\ MaxTime \in Nat /\ MaxTickSpan \in Nat /\ MaxLog \in Nat
    /\ MaxEdits \in Nat /\ MaxFaults \in Nat
    /\ InitialSettings \in SettingsRow
    /\ \E ids \in SUBSET Schedules :
          InitialSchedules \in
              [ids -> [trigger : Triggers, devices : SUBSET Devices, enabled : BOOLEAN]]
\* The first part of NextRun!NextIsFirstAhead, which NextRunProofs proves of the
\* search: its answer is later than the moment asked about, except that while a
\* clock shows an hour for the second time it may lie in the first.
ASSUME NextRunAssumption ==
    /\ NextRunTimes \in [Triggers -> [Zone -> [Time -> OptionalTime]]]
    /\ ShownTwice \subseteq Nat
    /\ \A trigger \in Triggers, zone \in Zone, t \in Time :
          LET answer == NextRunTimes[trigger][zone][t]
          IN  answer = NULL \/ answer > t \/ answer \in ShownTwice

----------------------------------------------------------------------------
VARIABLES
    now,            \* utcnow()
    up,             \* the backend process is running
    polled,         \* the loop has run in this unit of time
    settings,       \* committed Settings row
    devices,        \* committed devices
    live,           \* committed schedules
    retired,        \* ids of deleted schedules
    rows,           \* committed columns of the live schedules
    executions,     \* committed schedule_executions, per schedule in order
    tickPc, tickNow, tickSettings, due, loaded, current, pending, results,
    handled, staged, \* locals and session of the running tick
    manualPc, manualSchedule, manualPending, manualResults, \* of run_now
    edits, faults,  \* how much of the bounds is used
    delivered,      \* auxiliary: commands devices acted on, per occurrence
    lost            \* auxiliary: ticks whose session never committed

clockVars == <<now, up, polled>>
dbVars == <<settings, devices, live, retired, rows, executions>>
loopVars == <<tickNow, tickSettings, due, loaded, handled, staged>>
fireVars == <<current, pending, results>>
tickVars == <<tickPc, loopVars, fireVars>>
manualVars == <<manualPc, manualSchedule, manualPending, manualResults>>
boundVars == <<edits, faults>>
auxVars == <<delivered, lost>>
vars == <<clockVars, dbVars, tickVars, manualVars, boundVars, auxVars>>

----------------------------------------------------------------------------
(***************************************************************************)
(* compute_next_run_at, up to what the loop can tell apart: the answer of  *)
(* the search, which NextRun models, or one of two exceptions.  Local      *)
(* times are compared by wall clock (scheduling.py:125), so the answer is  *)
(* not always after t, see NextRunAssumption.                              *)
(***************************************************************************)
LocationNotConfigured(trigger, config) ==
    trigger \in SunTriggers /\ (~config.located \/ config.timezone = NULL)

ZoneInfoNotFound(trigger, config) ==
    ~LocationNotConfigured(trigger, config) /\ config.timezone \in UnknownZones

Computes(trigger, config) ==
    ~LocationNotConfigured(trigger, config) /\ ~ZoneInfoNotFound(trigger, config)

\* Mutant: asked about a moment ago, so that an occurrence at t itself counts.
compute_not_strictly_after(trigger, config, t) ==
    NextRunTimes[trigger][config.timezone][IF t = 0 THEN 0 ELSE t - 1]

compute_next_run_at(trigger, config, t) == NextRunTimes[trigger][config.timezone][t]

----------------------------------------------------------------------------
(* Values of rows and locals that are not in use.                          *)
BlankRow ==
    [trigger |-> CHOOSE t \in Triggers : TRUE, devices |-> {}, enabled |-> FALSE,
     next_run_at |-> NULL, last_run_at |-> NULL]
BlankExecution ==
    [kind |-> "skipped", results |-> NoResults, occurrence |-> NULL, stuck |-> FALSE]
BlankWrite ==
    [execution |-> BlankExecution, next_run_at |-> NULL, last_run_at |-> NULL]

\* A row as create_schedule builds it: next_run_at from the trigger.
NewRow(trigger, targets, enabled) ==
    [trigger |-> trigger, devices |-> targets, enabled |-> enabled,
     next_run_at |-> compute_next_run_at(trigger, settings, now),
     last_run_at |-> NULL]

Init ==
    /\ now = 0 /\ up = TRUE /\ polled = FALSE
    /\ settings = InitialSettings
    /\ devices = Devices
    /\ live = DOMAIN InitialSchedules
    /\ retired = {}
    /\ rows = [s \in Schedules |->
                 IF s \in DOMAIN InitialSchedules
                 THEN NewRow(InitialSchedules[s].trigger, InitialSchedules[s].devices,
                             InitialSchedules[s].enabled)
                 ELSE BlankRow]
    /\ executions = [s \in Schedules |-> << >>]
    /\ tickPc = "idle" /\ tickNow = 0 /\ tickSettings = InitialSettings
    /\ due = {} /\ loaded = [s \in Schedules |-> BlankRow]
    /\ current = NULL /\ pending = {} /\ results = NoResults
    /\ handled = {} /\ staged = [s \in Schedules |-> BlankWrite]
    /\ manualPc = "idle" /\ manualSchedule = NULL
    /\ manualPending = {} /\ manualResults = NoResults
    /\ edits = 0 /\ faults = 0
    /\ delivered = [x \in Schedules \X Devices \X Time |-> 0] /\ lost = 0

----------------------------------------------------------------------------
(***************************************************************************)
(* A post to one device (wled_client.post_state): the device may act on    *)
(* the command and answer, act on it while the answer is lost, or never    *)
(* get it.  Only WledClientError is caught, so the last two are "failed".  *)
(* A body that is not JSON is a fourth outcome, see TickGarbled.            *)
(***************************************************************************)
Outcomes == {"answered", "lost_reply", "unreachable"}
Acted(outcome) == outcome # "unreachable"

\* Mutant: the raw outcome instead of an ExecutionStatus.
RawStatus(outcome) == outcome

Status(outcome) == IF outcome = "answered" THEN "success" ELSE "failed"

AnySuccess(res) == \E d \in Devices : res[d] = "success"

\* Mutant: every attempt counts as a run.
LastRunAlways(res) == now

\* last_run_at as _fire and run_now set it; NULL: not set.
LastRun(res) == IF AnySuccess(res) THEN now ELSE NULL

\* schedule.devices is loaded when it is first touched, not with the row.
LinkedDevices(s) == IF s \in live THEN rows[s].devices ELSE {}

----------------------------------------------------------------------------
(* The tick                                                                *)

ResetTick ==
    /\ tickPc' = "idle" /\ tickNow' = 0 /\ tickSettings' = InitialSettings
    /\ due' = {} /\ loaded' = [s \in Schedules |-> BlankRow]
    /\ current' = NULL /\ pending' = {} /\ results' = NoResults
    /\ handled' = {} /\ staged' = [s \in Schedules |-> BlankWrite]

\* now = utcnow(), then the Settings row.  The last unit of time stands for
\* all later ones: there the loop runs again and again, until a log is full.
TickStart ==
    /\ up /\ tickPc = "idle"
    /\ ~polled \/ (now = MaxTime /\ \A s \in Schedules : Len(executions[s]) < MaxLog)
    /\ polled' = TRUE
    /\ tickPc' = "selecting"
    /\ tickNow' = now
    /\ tickSettings' = settings
    /\ UNCHANGED <<now, up, dbVars, due, loaded, fireVars, handled, staged,
                   manualVars, boundVars, auxVars>>

\* Mutant: fires one poll interval early.
IsDueSoon(s) ==
    /\ s \in live /\ rows[s].enabled
    /\ rows[s].next_run_at # NULL /\ rows[s].next_run_at <= tickNow + 1

\* Mutant: only what is due right now, nothing that was missed.
IsDueNow(s) ==
    /\ s \in live /\ rows[s].enabled
    /\ rows[s].next_run_at # NULL /\ rows[s].next_run_at = tickNow

IsDue(s) ==
    /\ s \in live /\ rows[s].enabled
    /\ rows[s].next_run_at # NULL /\ rows[s].next_run_at <= tickNow

TickSelect ==
    /\ tickPc = "selecting"
    /\ due' = {s \in Schedules : IsDue(s)}
    /\ loaded' = [s \in Schedules |-> IF IsDue(s) THEN rows[s] ELSE BlankRow]
    /\ tickPc' = "looping"
    /\ UNCHANGED <<clockVars, dbVars, tickNow, tickSettings, fireVars, handled,
                   staged, manualVars, boundVars, auxVars>>

\* order_by(next_run_at); the order of equals is the database's choice.
IsNext(s) ==
    s \in due /\ \A t \in due : loaded[s].next_run_at <= loaded[t].next_run_at

_is_stale(s) == tickNow - loaded[s].next_run_at > STALE_MULTIPLIER

\* Mutant: the catch-up setting read the wrong way round.
SkipsInverted(s) == _is_stale(s) /\ tickSettings.catch_up_missed

Skips(s) == _is_stale(s) /\ ~tickSettings.catch_up_missed

\* db.add(ScheduleExecution) and _advance: into the session, not the database.
Stage(s, kind, res, lastRun) ==
    LET trigger == loaded[s].trigger
        stuck == LocationNotConfigured(trigger, tickSettings)
    IN  /\ ~ZoneInfoNotFound(trigger, tickSettings)
        /\ staged' = [staged EXCEPT ![s] =
              [execution |-> [kind |-> kind, results |-> res, stuck |-> stuck,
                              occurrence |-> loaded[s].next_run_at],
               next_run_at |-> IF stuck THEN loaded[s].next_run_at
                               ELSE compute_next_run_at(trigger, tickSettings, tickNow),
               last_run_at |-> lastRun]]
        /\ handled' = handled \cup {s}
        /\ due' = due \ {s}

TickSkip(s) ==
    /\ tickPc = "looping" /\ IsNext(s) /\ Skips(s)
    /\ Stage(s, "skipped",
             [d \in Devices |-> IF d \in LinkedDevices(s) THEN "skipped" ELSE "none"],
             NULL)
    /\ UNCHANGED <<clockVars, dbVars, tickPc, tickNow, tickSettings, loaded,
                   fireVars, manualVars, boundVars, auxVars>>

\* The head of _fire: the devices of the schedule.
TickFire(s) ==
    /\ tickPc = "looping" /\ IsNext(s) /\ ~Skips(s)
    /\ tickPc' = "firing"
    /\ current' = s
    /\ pending' = LinkedDevices(s)
    /\ results' = NoResults
    /\ UNCHANGED <<clockVars, dbVars, loopVars, manualVars, boundVars, auxVars>>

TickPost(d, outcome) ==
    /\ tickPc = "firing" /\ d \in pending
    /\ pending' = pending \ {d}
    /\ results' = [results EXCEPT ![d] = Status(outcome)]
    /\ delivered' = IF Acted(outcome)
                    THEN [delivered EXCEPT
                             ![<<current, d, loaded[current].next_run_at>>] = @ + 1]
                    ELSE delivered
    /\ UNCHANGED <<clockVars, dbVars, tickPc, loopVars, current, manualVars,
                   boundVars, lost>>

\* The tail of _fire, and _advance.
TickFired ==
    /\ tickPc = "firing" /\ pending = {}
    /\ Stage(current, "fired", results, LastRun(results))
    /\ tickPc' = "looping"
    /\ current' = NULL /\ results' = NoResults
    /\ UNCHANGED <<clockVars, dbVars, tickNow, tickSettings, loaded, pending,
                   manualVars, boundVars, auxVars>>

\* db.commit(): every staged row, or none if one of them has been deleted
\* (foreign key of the new execution, row count of the UPDATE).  Columns the
\* session did not change are not written.
\* Mutant: a skipped schedule is not advanced.
WrittenUnlessSkipped(s) ==
    [rows[s] EXCEPT
        !.next_run_at = IF staged[s].execution.kind = "skipped" THEN @
                        ELSE staged[s].next_run_at,
        !.last_run_at = IF staged[s].last_run_at = NULL THEN @ ELSE staged[s].last_run_at]

Written(s) ==
    [rows[s] EXCEPT
        !.next_run_at = IF staged[s].execution.stuck THEN @ ELSE staged[s].next_run_at,
        !.last_run_at = IF staged[s].last_run_at = NULL THEN @ ELSE staged[s].last_run_at]

\* Mutant: an execution that reached no device is not logged.
LoggedIfReached(s) ==
    IF s \in handled /\ AnySuccess(staged[s].execution.results)
    THEN Append(executions[s], staged[s].execution)
    ELSE executions[s]

Logged(s) ==
    IF s \in handled THEN Append(executions[s], staged[s].execution)
    ELSE executions[s]

TickCommit ==
    /\ tickPc = "looping" /\ due = {}
    /\ handled \subseteq live
    /\ rows' = [s \in Schedules |-> IF s \in handled THEN Written(s) ELSE rows[s]]
    /\ executions' = [s \in Schedules |-> Logged(s)]
    /\ ResetTick
    /\ UNCHANGED <<clockVars, settings, devices, live, retired, manualVars,
                   boundVars, auxVars>>

\* Mutant: what was computed before the failure is kept, the log is not.
TickKeepsAdvance ==
    /\ tickPc = "looping" /\ due = {}
    /\ ~(handled \subseteq live)
    /\ rows' = [s \in Schedules |-> IF s \in handled \cap live THEN Written(s) ELSE rows[s]]
    /\ lost' = lost + 1
    /\ ResetTick
    /\ UNCHANGED <<clockVars, settings, devices, live, retired, executions,
                   manualVars, boundVars, delivered>>

TickCommitFails ==
    /\ tickPc = "looping" /\ due = {}
    /\ ~(handled \subseteq live)
    /\ lost' = lost + 1
    /\ ResetTick
    /\ UNCHANGED <<clockVars, dbVars, manualVars, boundVars, delivered>>

\* An exception other than WledClientError and LocationNotConfigured ends the
\* tick; run_forever logs it and the session is gone.  It is the JSONDecodeError
\* of a device that acted on the command but answered something else, ...
TickGarbled(d) ==
    /\ tickPc = "firing" /\ d \in pending
    /\ faults < MaxFaults /\ faults' = faults + 1
    /\ delivered' = [delivered EXCEPT ![<<current, d, loaded[current].next_run_at>>] = @ + 1]
    /\ lost' = lost + 1
    /\ ResetTick
    /\ UNCHANGED <<clockVars, dbVars, manualVars, edits>>

\* ... or the ZoneInfoNotFoundError of _advance.
TickZoneUnknown(s) ==
    /\ \/ tickPc = "looping" /\ IsNext(s) /\ Skips(s)
       \/ tickPc = "firing" /\ pending = {} /\ s = current
    /\ ZoneInfoNotFound(loaded[s].trigger, tickSettings)
    /\ faults < MaxFaults /\ faults' = faults + 1
    /\ lost' = lost + 1
    /\ ResetTick
    /\ UNCHANGED <<clockVars, dbVars, manualVars, edits, delivered>>

----------------------------------------------------------------------------
(* Request handlers, one committed transaction each.  A request that is    *)
(* refused (404, 409, 422, 500) changes nothing and is no step.            *)

Edit == up /\ edits < MaxEdits /\ edits' = edits + 1

create_schedule(s, trigger, targets, enabled) ==
    /\ Edit
    /\ s \notin live \cup retired
    /\ targets # {} /\ targets \subseteq devices
    /\ Computes(trigger, settings)
    /\ live' = live \cup {s}
    /\ rows' = [rows EXCEPT ![s] = NewRow(trigger, targets, enabled)]
    /\ UNCHANGED <<clockVars, settings, devices, retired, executions, tickVars,
                   manualVars, faults, auxVars>>

\* fields: which of the body's fields are set.  The merged row is validated as
\* a whole, so one that is left without devices is refused; next_run_at
\* is recomputed only if a trigger field is present.
update_schedule(s, fields, trigger, targets, enabled) ==
    LET old == rows[s]
        new == [old EXCEPT
                  !.trigger = IF "trigger" \in fields THEN trigger ELSE @,
                  !.devices = IF "device_ids" \in fields THEN targets ELSE @,
                  !.enabled = IF "enabled" \in fields THEN enabled ELSE @]
    IN  /\ Edit
        /\ s \in live
        /\ new.devices # {} /\ new.devices \subseteq devices
        /\ "trigger" \in fields => Computes(trigger, settings)
        /\ rows' = [rows EXCEPT ![s] =
              IF "trigger" \in fields
              THEN [new EXCEPT !.next_run_at = compute_next_run_at(trigger, settings, now)]
              ELSE new]
        /\ UNCHANGED <<clockVars, settings, devices, live, retired, executions,
                       tickVars, manualVars, faults, auxVars>>

\* Executions go with the schedule (ON DELETE CASCADE).
delete_schedule(s) ==
    /\ Edit
    /\ s \in live
    /\ live' = live \ {s}
    /\ retired' = retired \cup {s}
    /\ rows' = [rows EXCEPT ![s] = BlankRow]
    /\ executions' = [executions EXCEPT ![s] = << >>]
    /\ UNCHANGED <<clockVars, settings, devices, tickVars, manualVars, faults, auxVars>>

\* Links go with the device (ON DELETE CASCADE); schedules stay.
delete_device(d) ==
    /\ Edit
    /\ d \in devices
    /\ devices' = devices \ {d}
    /\ rows' = [s \in Schedules |-> [rows[s] EXCEPT !.devices = @ \ {d}]]
    /\ UNCHANGED <<clockVars, settings, live, retired, executions, tickVars,
                   manualVars, faults, auxVars>>

\* Only a change that un-configures latitude or longitude is guarded.
update_settings(new) ==
    /\ Edit
    /\ settings.located /\ ~new.located => \A s \in live : rows[s].trigger \notin SunTriggers
    /\ settings' = new
    /\ UNCHANGED <<clockVars, devices, live, retired, rows, executions, tickVars,
                   manualVars, faults, auxVars>>

(* run_now: any live schedule, enabled or not.                             *)

ResetManual ==
    /\ manualPc' = "idle" /\ manualSchedule' = NULL
    /\ manualPending' = {} /\ manualResults' = NoResults

ManualStart(s) ==
    /\ Edit
    /\ manualPc = "idle" /\ s \in live
    /\ manualPc' = "posting"
    /\ manualSchedule' = s
    /\ manualPending' = rows[s].devices
    /\ UNCHANGED <<clockVars, dbVars, tickVars, manualResults, faults, auxVars>>

ManualPost(d, outcome) ==
    /\ manualPc = "posting" /\ d \in manualPending
    /\ manualPending' = manualPending \ {d}
    /\ manualResults' = [manualResults EXCEPT ![d] = Status(outcome)]
    /\ UNCHANGED <<clockVars, dbVars, tickVars, manualPc, manualSchedule, boundVars, auxVars>>

ManualCommit ==
    /\ manualPc = "posting" /\ manualPending = {}
    /\ IF manualSchedule \in live
       THEN /\ executions' = [executions EXCEPT ![manualSchedule] =
                  Append(@, [kind |-> "manual", results |-> manualResults,
                             occurrence |-> NULL, stuck |-> FALSE])]
            /\ rows' = [rows EXCEPT ![manualSchedule].last_run_at =
                  IF LastRun(manualResults) = NULL THEN @ ELSE LastRun(manualResults)]
       ELSE UNCHANGED <<executions, rows>>
    /\ ResetManual
    /\ UNCHANGED <<clockVars, settings, devices, live, retired, tickVars, boundVars, auxVars>>

\* A non-JSON body: the request fails with 500, nothing is logged.
ManualGarbled(d) ==
    /\ manualPc = "posting" /\ d \in manualPending
    /\ faults < MaxFaults /\ faults' = faults + 1
    /\ ResetManual
    /\ UNCHANGED <<clockVars, dbVars, tickVars, edits, auxVars>>

----------------------------------------------------------------------------
(* The process and the clock                                               *)

\* Power cut, kill, or an update: sessions and threads are gone.
Crash ==
    /\ up /\ faults < MaxFaults /\ faults' = faults + 1
    /\ up' = FALSE /\ polled' = FALSE
    /\ lost' = IF tickPc = "idle" THEN lost ELSE lost + 1
    /\ ResetTick /\ ResetManual
    /\ UNCHANGED <<now, dbVars, edits, delivered>>

Restart ==
    /\ ~up /\ up' = TRUE
    /\ UNCHANGED <<now, polled, dbVars, tickVars, manualVars, boundVars, auxVars>>

\* A running loop is never asleep for more than one poll interval, and one
\* tick lasts at most MaxTickSpan of them.
Tock ==
    /\ now < MaxTime
    /\ up => IF tickPc = "idle" THEN polled ELSE now - tickNow < MaxTickSpan
    /\ now' = now + 1
    /\ polled' = (tickPc # "idle")
    /\ UNCHANGED <<up, dbVars, tickVars, manualVars, boundVars, auxVars>>

----------------------------------------------------------------------------
Tick ==
    \/ TickStart \/ TickSelect \/ TickFired \/ TickCommit \/ TickCommitFails
    \/ \E s \in Schedules : TickSkip(s) \/ TickFire(s) \/ TickZoneUnknown(s)
    \/ \E d \in Devices : TickGarbled(d) \/ \E o \in Outcomes : TickPost(d, o)

RunNow ==
    \/ ManualCommit
    \/ \E s \in Schedules : ManualStart(s)
    \/ \E d \in Devices : ManualGarbled(d) \/ \E o \in Outcomes : ManualPost(d, o)

Request ==
    \/ \E s \in Schedules, trigger \in Triggers, enabled \in BOOLEAN :
          \E targets \in SUBSET Devices :
             \/ create_schedule(s, trigger, targets, enabled)
             \/ \E fields \in SUBSET {"trigger", "device_ids", "enabled"} :
                   update_schedule(s, fields, trigger, targets, enabled)
    \/ \E s \in Schedules : delete_schedule(s)
    \/ \E d \in Devices : delete_device(d)
    \/ \E new \in SettingsRow : update_settings(new)

Next == Tick \/ RunNow \/ Request \/ Crash \/ Restart \/ Tock

Spec == Init /\ [][Next]_vars

\* The loop's thread keeps running, systemd or Docker restarts the process,
\* and time passes.  Nothing is assumed of clients or of faults.
Fairness == WF_vars(Tick) /\ WF_vars(Restart) /\ WF_vars(Tock)

FairSpec == Spec /\ Fairness

----------------------------------------------------------------------------
(* Properties                                                              *)

ClockType == now \in Time /\ up \in BOOLEAN /\ polled \in BOOLEAN

DbType ==
    /\ settings \in SettingsRow
    /\ devices \subseteq Devices
    /\ live \subseteq Schedules /\ retired \subseteq Schedules
    /\ live \cap retired = {}
    /\ rows \in [Schedules -> Row]
    /\ executions \in [Schedules -> Seq(Execution)]

LoopType ==
    /\ tickPc \in {"idle", "selecting", "looping", "firing"}
    /\ tickNow \in Time /\ tickSettings \in SettingsRow
    /\ due \subseteq Schedules /\ loaded \in [Schedules -> Row]
    /\ \A s \in due : loaded[s].next_run_at \in Time
    /\ handled \subseteq Schedules /\ staged \in [Schedules -> StagedWrite]

FireType ==
    /\ current \in Schedules \cup {NULL}
    /\ tickPc = "firing" => current \in due
    /\ pending \subseteq Devices /\ results \in Results

ManualType ==
    /\ manualPc \in {"idle", "posting"}
    /\ manualSchedule \in Schedules \cup {NULL}
    /\ manualPc = "posting" => manualSchedule \in Schedules
    /\ manualPending \subseteq Devices /\ manualResults \in Results

CountType ==
    /\ edits \in 0..MaxEdits /\ faults \in 0..MaxFaults
    /\ delivered \in [Schedules \X Devices \X Time -> Nat]
    /\ lost \in Nat

TypeOK ==
    ClockType /\ DbType /\ LoopType /\ FireType /\ ManualType /\ CountType

\* The log of a schedule holds one occurrence twice for two reasons only, not
\* after a crash, a rolled-back tick, an edit during the tick or a change of time
\* zone.  Either the tick could not advance past it because the location is
\* missing (the LocationNotConfigured branch of _advance), or it belongs to an
\* hour the clock shows again, when the search may answer with it once more.
SettledOnce ==
    \A s \in Schedules : \A i, j \in DOMAIN executions[s] :
        /\ i < j
        /\ executions[s][i].occurrence # NULL
        /\ executions[s][i].occurrence = executions[s][j].occurrence
        => executions[s][i].stuck \/ executions[s][i].occurrence \in ShownTwice

\* next_run_at is past everything that has been settled, whoever wrote it last:
\* the tick from an old snapshot, or a PATCH that recomputed it.  Only to an
\* hour that is shown twice does it ever go back.
NextRunAhead ==
    \A s \in Schedules : \A i \in DOMAIN executions[s] :
        LET e == executions[s][i] IN
        (e.occurrence # NULL /\ ~e.stuck) =>
            \/ rows[s].next_run_at = NULL
            \/ rows[s].next_run_at > e.occurrence
            \/ rows[s].next_run_at \in ShownTwice

LogCount(s, o) == Cardinality({i \in DOMAIN executions[s] :
                                 executions[s][i].occurrence = o})

\* The running tick has posted occurrence o of s to d, or may have.
InFlight(s, d, o) ==
    /\ loaded[s].next_run_at = o
    /\ s \in handled \/ (current = s /\ d \notin pending)

\* A device acts at most once on each occurrence that is logged, plus once for
\* the running tick and once for every tick that never committed: a command is
\* repeated only because a session was lost, never by two ticks that both
\* commit or by a request in between.
DeliveriesAccountedFor ==
    \A s \in live, d \in Devices, o \in Time :
        delivered[<<s, d, o>>]
            <= LogCount(s, o) + lost + IF InFlight(s, d, o) THEN 1 ELSE 0

\* last_run_at, written by the tick and by run-now from sessions that overlap,
\* is set exactly when the log has an execution that reached some device.
LastRunMatchesLog ==
    \A s \in live :
        (rows[s].last_run_at # NULL) <=>
            \E i \in DOMAIN executions[s] : AnySuccess(executions[s][i].results)

\* With catch_up_missed off, no device acts on a command of the loop later than
\* the stale threshold plus the time a tick itself may take.
LateOnlyWithCatchUp ==
    [][\A x \in Schedules \X Devices \X Time :
          (delivered'[x] # delivered[x] /\ now - x[3] > STALE_MULTIPLIER + MaxTickSpan)
             => tickSettings.catch_up_missed]_vars

\* next_run_at leaves a due occurrence only when a client edits the schedule or
\* together with a log entry; a tick that rolls back or crashes moves nothing.
MovesWithLog ==
    [][\A s \in live \cap live' :
          rows'[s].next_run_at # rows[s].next_run_at
             => edits' = edits + 1 \/ Len(executions'[s]) = Len(executions[s]) + 1]_vars

\* The settings of the moment let the loop compute this schedule's next run.
Blocked(s) ==
    \/ LocationNotConfigured(rows[s].trigger, settings)
    \/ \E t \in live : ZoneInfoNotFound(rows[t].trigger, settings)

Overdue(s) == s \in live /\ rows[s].enabled /\ rows[s].next_run_at \in 0..now

\* Every overdue schedule is eventually brought past the present, whatever
\* crashes, device failures and rolled-back ticks there are, unless it is
\* disabled or deleted, or Settings keep the loop from computing.
OverdueIsSettled ==
    \A s \in Schedules : Overdue(s) ~> (~Overdue(s) \/ Blocked(s))

----------------------------------------------------------------------------
(* Refinement                                                              *)

\* The occurrences of s that the log has and next_run_at has moved past.
Settled(s) ==
    {executions[s][i].occurrence :
        i \in {j \in DOMAIN executions[s] :
                 executions[s][j].occurrence # NULL /\ ~executions[s][j].stuck}}

Promise == INSTANCE Occurrences WITH
    next <- [s \in Schedules |-> rows[s].next_run_at],
    settled <- [s \in Schedules |-> Settled(s)]

\* The committed rows and log, whatever sessions overlap, roll back or crash,
\* behave as Occurrences says: settled in order, at most once and never early,
\* but for the occurrences of an hour that is shown twice.
KeepsPromise == Promise!Spec
=============================================================================
