# WLED Scheduler: formal model

TLA+ modules, TLC configurations and TLAPS proofs for WLED Scheduler, the
self-hosted service that turns WLED lights on and off on a schedule. Paths such
as `app/scheduler.py:171` are relative to the repository.

1. [The system](#1-the-system): components, state, interactions, what is hard
2. [Modules and plan](#2-modules-and-plan)
3. [Scheduler](#3-scheduler-the-polling-loop-and-the-requests-beside-it)
4. [NextRun](#4-nextrun-the-search-for-the-next-occurrence)
5. [MdnsMonitor](#5-mdnsmonitor-who-is-online)
6. [The pages](#6-the-pages): the schedule form, the list, gestures, settings and updates, devices
7. [Runs](#7-runs-bounds-and-results)
8. [Proofs](#8-proofs)
9. [Findings, and what is not modelled](#9-findings-and-what-is-not-modelled)

## 1. The system

One Python process (FastAPI and uvicorn, SQLite through SQLAlchemy) serves a
web UI and a JSON API, and runs two background tasks. Threads share the database
and one dictionary; there is no lock above SQLite's own, except one per device
host in the WLED client.

| component | state it keeps | operations | interacts with |
|---|---|---|---|
| Scheduler loop, `app/scheduler.py` | the session of the running tick | `run_forever`, `tick`, `_fire`, `_skip`, `_advance` | reads settings and schedules, posts to devices, writes executions and `next_run_at`, all in a worker thread |
| Schedule requests, `app/routers/schedules.py` | schedules, links to devices with presets | create, update, delete, run now, list | recompute `next_run_at`; run now posts to devices and writes an execution |
| Next occurrence, `app/scheduling.py`, `app/sun.py` | none | `compute_next_run_at` | called by the loop and by the requests |
| Settings, `app/routers/settings.py` | one row: latitude, longitude, timezone, `catch_up_missed` | get, update | read by every computation of an occurrence |
| Devices, `app/routers/devices.py` | devices | create, update, refresh, restart, delete, scan, presets, apply | WLED client, mDNS state, cascades to links |
| mDNS monitor, `app/mdns.py` | `_state`: online flag and miss counter per device, in memory | sweep, resolve, goodbye, scan | updates devices; reads zeroconf's cache |
| WLED client, `app/wled_client.py` | a lock per host | get info, presets, post state, restart | the lights, over HTTP |
| Actions, `app/routers/actions.py` | actions (state or preset) | create, update, delete | resolved against presets when a schedule is saved |
| History, `app/routers/history.py` | none (reads executions) | paginated list | |
| Updater, `app/routers/update.py`, `pi/*.sh`, `scripts/backup_db.py` | flag file, backups, the installed tree | request, apply, migrate, restore | replaces the process and the database schema |
| Schedule form, `app/static/js/schedule_form.js` | the controls, preset requests that are out | load, edit, save (two calls), delete, run now | schedules, actions, presets of devices |
| Schedule list, `schedules.js`, `longpress-delete.js`, `pull-to-refresh.js` | switches, delete mode, dialog, snapshot of what was deleted | toggle, long press, delete, undo, reload | PATCH, DELETE, POST of schedules |
| Settings page, `settings.js` | each field with its last saved value, the update check | save a field, use my location, apply an update | settings, the updater |
| Device pages, `device_detail.js`, `devices.js`, icon picker | the device as last read, edits, the add form | rename, choose an icon, restart, delete, scan, add | devices |
| Icons, `scripts/generate-icons.js`, `icons.js`, `lucide_icons.json` | two generated tables | generate, draw | read by pages and by templates, at different times |

**How they interact.** `run_forever` (`scheduler.py:174-184`) starts `tick` in a
thread, waits for it, sleeps one poll interval (30 s) and repeats; an exception
is logged and the loop goes on. Sessions are created with `autoflush=False`, so a
tick holds no write lock while it posts, each of its SELECTs sees the latest
commit of anybody else, and all it writes reaches the database in the one commit
at its end. Request handlers run in FastAPI's thread pool, each with a session
of its own, and can commit between any two steps of a tick.

**What is hard about it.** Commands to lights take effect at once while their
log is written later, in one transaction for the whole tick; rows are read,
then used seconds later; any step may be the last one before a crash; a device
may act on a command whose answer is lost; occurrences are computed in local
wall-clock time, which is not monotone; settings may change between any two
computations. `PROJECT.json` lists each such place under "hazards", at its line,
with the properties that cover it.

**What makes each component correct.**

- *Scheduler loop*: every occurrence is settled (fired or skipped, and logged) at
  most once, in order, not early and not forever late; a device is commanded
  once per occurrence unless a session was lost; the log, `next_run_at` and
  `last_run_at` agree whichever session wrote last.
- *Schedule requests*: after any sequence of them, a row is one the validators
  would accept and its `next_run_at` is an occurrence of its trigger; a refused
  request changes nothing; presets cover the linked devices.
- *Next occurrence*: the result is the first date the schedule asks for that is
  strictly ahead (the repeated hour is an exception, section 9), and there is none
  only if there is none.
- *Devices and mDNS*: a light that is gone ends up offline, one that is there
  ends up online, and the stored address follows the light.
- *WLED client*: one call per host at a time.
- *Updater*: an update either completes or leaves a working installation, a
  requested update is not lost, and backups are kept as many as promised.
- *Schedule form*: what is shown belongs to what is ticked, what is stored is
  what was shown, and a form that can be saved lets itself be saved.
- *Schedule list*: a switch shows what is stored after whatever was refused or failed;
  undo restores once, and what was deleted.
- *Settings and device pages*: a field shows what is stored once nothing is under
  way, after any refusal or failure without effect. Where an answer is lost after
  the request took effect, the pages do not hold to this (section 9).

## 2. Modules and plan

| module | what it is |
|---|---|
| `Scheduler` | the polling loop, run now, the other requests, crash and restart, over one database |
| `Occurrences` | the abstract specification: what `Scheduler` promises about occurrences |
| `SchedulerProofs` | every safety property of `Scheduler`, and that it implements `Occurrences` |
| `NextRun` | the search for the next occurrence, on a calendar with clock changes |
| `NextRunProofs` | what the search answers, and that a loop on time loses nothing |
| `MdnsMonitor` | the mDNS monitor's threads and the device requests, over `_state` and the devices table |
| `MdnsProofs` | its types, and `VerdictIsFresh` |
| `ScheduleForm` | the page that creates or edits a schedule, handler by handler, with the requests it makes |
| `ScheduleFormProofs` | the five properties of the form |
| `FormFields` | the values of that page: conversions there and back, and what the server accepts |
| `FormFieldsProofs` | what the conversions lose, and all four properties of the values |
| `SchedulesPage` | the list of schedules: switches, refreshes, delete and Undo, beside another client |
| `Gestures` | fingers on that list: long press and pull-to-refresh |
| `SchedulesPageProofs` | both modules of the list: the switches and Undo, and the gestures |
| `Updater` | the update of an install on a Pi: flag file, script, service |
| `SettingsPage` | the settings page; EXTENDS `Updater`, whose service answers its requests |
| `UpdaterProofs` | both modules: updates are not forgotten and leave code and database of one version, fields show what is stored |
| `Icons` | the icon generator and the two tables it writes |
| `DevicePages` | the device page and the form that adds a device; EXTENDS `Icons` |
| `DevicePagesProofs` | the device page, its icon, and the addresses of new devices |
| `Display` | pure functions of the pages, each against a reference definition |
| `MCScheduler`, `MCNextRun`, `MCMdnsMonitor`, `MCScheduleForm`, `MCFormFields`, `MCSchedulesPage`, `MCScheduleList`, `MCSettingsPage`, `MCDevicePages` | constants for the instances TLC checks; `MCScheduleList` has `SchedulesPage` and `Gestures` together |

Modules that are proved about use no RECURSIVE operator; their parameters are
CONSTANTS with named assumptions, one action stands for one operation or for one
step between which others can run, and invariants are conjunctions of named
parts.

What the plan has left, most important first:

1. Abstract specifications of the pages and of the update, and proofs that they are
   implemented.
2. Two requests that overlap: two PATCHes of one schedule, and the settings guard
   against a schedule being created.
3. The lock per host of the WLED client, composed with a tick and a request.
4. The backup before a migration, its retention, and `restore.sh`.

## 3. Scheduler: the polling loop and the requests beside it

The unit of time is one poll interval.

| in the module | in the code |
|---|---|
| `settings`, `devices`, `live`, `rows`, `executions` | committed rows of the tables; `executions[s]` in the order of commits |
| `retired` | ids of deleted schedules (ids are UUIDs and not reused) |
| `tickNow`, `tickSettings`, `due`, `loaded` | locals of `tick`: `now`, the Settings row, the schedules still to handle, their rows as the session loaded them |
| `current`, `pending`, `results` | locals of `_fire` |
| `handled`, `staged` | what the session of the tick holds: executions added, `next_run_at` and `last_run_at` assigned |
| `manual*` | locals of `run_now` |
| `delivered`, `lost` | auxiliary: commands devices acted on per occurrence, ticks that never committed |
| `edits`, `faults` | how much of the bounds `MaxEdits`, `MaxFaults` is used |

| action | code |
|---|---|
| `TickStart`, `TickSelect` | `utcnow()` and the Settings row; the SELECT of due schedules (`scheduler.py:145-162`) |
| `TickSkip` | stale and not catching up: `_skip`, then `_advance` |
| `TickFire`, `TickPost`, `TickFired` | `_fire`: the devices, one post each, the execution; then `_advance` |
| `TickCommit`, `TickCommitFails` | `db.commit()`; it fails as a whole when a handled schedule was deleted meanwhile |
| `TickGarbled`, `TickZoneUnknown` | exceptions that escape: `JSONDecodeError` of a device, `ZoneInfoNotFoundError` |
| `create_schedule`, `update_schedule`, `delete_schedule`, `delete_device`, `update_settings` | the handlers, one transaction each |
| `ManualStart`, `ManualPost`, `ManualCommit`, `ManualGarbled` | `run_now`, step by step |
| `Crash`, `Restart` | power cut or kill; systemd `Restart=on-failure`, Docker `unless-stopped` |
| `Tock` | time passes |

A post has three outcomes: answered, acted on with the answer lost, never
received. The last two are the same to the code ("failed").

`compute_next_run_at` is a table here, the constant `NextRunTimes`: an answer for
each trigger, zone and moment, or none; its two exceptions are
`LocationNotConfigured` and `ZoneInfoNotFound`. All that is assumed of the table
(`NextRunAssumption`) is what `NextRunProofs` proves of the search: an answer is after
the moment, or it lies in an hour that the clock shows twice (`ShownTwice`). The
second half is needed: in the second pass of such an hour the code answers with an
instant of the first pass, which is not after now, and perhaps the one just settled
(section 4). In the instance of TLC the clock of the zone `back` is set back.

`Occurrences` is the promise: each schedule has one next occurrence or none; an
occurrence is settled no earlier than its time, in increasing order and so at
most once, and settling moves `next` past it; a client may move `next` anywhere
into the future, or drop the schedule. An hour that is shown twice is excepted: `next`
may go back to it, and its occurrences may be settled again. `Scheduler` implements it with `next` as
the committed `next_run_at` and `settled` as the set of logged occurrences, those
that a tick could not advance past for lack of a location or timezone left out.

Two things the code's comments say of the loop do not hold in the model, and no
property asks for them: the branch of `_advance` for a missing location is reached, as
the timezone may be cleared (`stuck`), and a tick overwrites the `next_run_at` that a
PATCH of the trigger has just computed (section 9).

**Fairness** (liveness only): weak fairness of the tick's steps (the loop's thread
keeps running, each post has a timeout, and `run_forever` catches every
exception), of the restart (systemd or Docker restarts the process) and of the
clock. Nothing is assumed of clients, of faults or of how a post ends; crashes
and escaping exceptions are bounded by `MaxFaults`.

**Assumptions of the model.** The clock never goes backward. A tick lasts at most
`MaxTickSpan` poll intervals. A handler other than `run_now` is one atomic step:
it reads, computes and commits in milliseconds, and what matters to the loop is
the order of its commit.

## 4. NextRun: the search for the next occurrence

An instant counts units since the epoch; a wall-clock time counts the same units
since a local midnight. `Wall` is `astimezone(tz)`, `InstantOf` is
`astimezone(UTC)` with `fold=0`, which is what `combine` and `+` produce. Python
compares two datetimes with the same `tzinfo` by their wall-clock times, so
`Hit` compares `Candidate` with `Wall(now)`; `SearchStart` and `SearchEnd` are the
bounds of the loop over dates. A behaviour stores a schedule at some instant
(`Init`: create, or an update of a trigger field) and lets the loop settle it
again and again, on time or late (`Settle`).

The reference definition does not search: `Wanted` is the set of all dates the
schedule asks for, an annual window being the places of the year walked through
from its first to its last. The properties compare the two. What the search is
allowed not to see is spelled out in `OutOfSight`: an occurrence whose offset
moved it past midnight, once it is past midnight; a time inside the hour that is
skipped in spring, while the clock already shows a later one; a date past the
annual lookahead. `OnTimeLosesNothing` shows that a loop that is on time never
meets the first two.

`compute_next_run_at` promises an answer strictly after `now_utc`. `NextIsFirstAhead`
shows that there is one exception: if now is in the second pass of a repeated hour, the
answer may be in the first. `StrictlyAfterNow` is the promise as it is written; the run
`nextrun_repeated` finds it broken. A loop that is on time does not meet this, as it
settles the first pass during the first pass; a tick that comes late, the first
tick after an outage and a PATCH of the trigger do.

## 5. MdnsMonitor: who is online

| in the module | in the code |
|---|---|
| `address`, `powered` | the lights: where DHCP put them, whether they run |
| `cache` | the lights whose A record zeroconf holds, unexpired |
| `devices`, `retired`, `rows` | the devices table: ids, ids of deleted rows, `host` and `mdns_name` |
| `online`, `misses` | `_state`; an id without an entry reads as offline with no miss |
| `sweep*` | locals of `sweep_tick`; `sweepLive` is what `is_hostname_live` returned |
| `resolved` | browser tasks that have an answer, or wait for one |
| `apply*` | locals of `_apply_resolved_service`; `applyRow` is the row as the session holds it |
| `goodbyes` | threads started by `_GoodbyeListener` |
| `refreshing` | a refresh request whose device has answered |
| `signed` | auxiliary: devices marked online since the sweep began |

| action | code |
|---|---|
| `SweepStart`, `SweepCheck`, `SweepUpdate`, `SweepEnd` | `sweep_tick`: the query, then per device the lookup in the cache and the update of `_state`, then the commit |
| `ApplySelect`, `ApplyMark`, `ApplyCommit` | `_apply_resolved_service`: match, `mark_online`, commit |
| `ApplyGoodbye` | `_apply_goodbye` |
| `create_device`, `delete_device`, `RefreshAnswered`, `RefreshMark` | the requests of `app/routers/devices.py` |
| `PowerLoss`, `Goodbye`, `PowerOn`, `Answer`, `Expire`, `ResolveFails` | the lights, the network and zeroconf (external) |
| `Restart` | the process starts again with an empty `_state` and an empty cache |

*Where threads interleave.* The comment at `mdns.py:129-132` says that all
mutation happens from the event loop and the bodies do not overlap in practice.
`asyncio.to_thread` gives no such thing: a sweep, a resolved service, a goodbye
and a refresh may run in four threads. Under the GIL a thread can lose its turn
at a call, so a step of the model is what runs between two calls that matter:
the assignments of `mark_online` are one step, the lookup and the update of a
sweep are two, a match and its commit are three. The commit of an applied service
may find its row deleted, or its new address stored for another row; it then
raises in a task nobody awaits, and `_state` keeps the mark.

*Abstractions.* Services that are resolved are applied one at a time, and in any
order. `last_seen_at` and ports are left out. `addresses[0]` is there whenever an
A record is (`ip` is never None). The miss counter stops at the threshold.
`create_device` takes `mdns_name` from a scan, so it belongs to the light at that
address. A browser reports a record again only after it left the cache.

**Fairness**: the threads keep running; a running light answers the browser's
queries; the record of a silent one expires (TTL 120 s). Everything that goes
wrong (power loss, goodbyes, lost packets, resolutions that time out, restarts of
the process) and every request is free, up to `MaxEvents` of them.

What holds: a verdict of the sweep is never older than the last sign of life
(`VerdictIsFresh`), because a sign of life resets the counter and one miss is not
enough; and the flag follows the light in the end (`GoneGoesOffline`,
`PresentComesOnline`), the sweep repairing whatever a late goodbye or a late
resolved service has undone. What does not hold is in section 9.

## 6. The pages

JavaScript runs one handler at a time, up to its next `await`. In all modules of
this section a step is a handler, or the part of one between two awaits, and a
request is two steps: the server carries it out (or refuses it, or never gets
it), and the answer arrives or does not. `api()` (`api.js:8-33`) throws in the same way for a
refusal and for a lost answer, so a handler sees an error although the server may
have done its part: this is `done` and `answered` in the actions. Answers of
different requests come in any order. The user is not assumed to wait.

These modules state safety only. A user may always stop and an answer may never
come, so there is no fairness that the code would justify.

### 6.1 ScheduleForm: devices, presets, saving

| in the module | in the code |
|---|---|
| `devices`, `actions`, `schedules` | the tables, as far as the page depends on them |
| `initPc`, `fetched` | where `init()` and `loadExistingSchedule()` are, and the schedule they have read |
| `form.listed`, `.checked`, `.mode` | the checkboxes and the radios |
| `form.select`, `.rows` | the one preset dropdown, and the one per device |
| `form.alpine` | what Alpine's `x-show` was told by the events |
| `form.requests` | the bag of GETs for presets that are out, each with the element it will fill and what it is to select |
| `knownAction` | `existingActionId` |
| `saves` | submit handlers that have been started, each with its payload |
| `run` | "Run now" |

The functions of `schedule_form.js` are operators from form to form
(`PopulatePresetOptions`, `LoadPresetsPerDevice`, `UpdateActionModeVisibility`,
`UpdateSaveButtonState`, ...), and the actions compose them in the order of the code.
A row that is rendered again leaves the requests of its predecessor filling an
element that is no longer in the page (`Detached`).

| action | code |
|---|---|
| `LoadSettings`, `LoadSchedule`, `LoadDevices`, `InitThrows` | `init()` between its awaits, and its `finally` |
| `AnswerPresets` | the continuation of a preset request, late, failed, or for a device that is gone |
| `ToggleDevice`, `ChooseMode`, `PickPreset`, `PickRowPreset` | the listeners of the controls |
| `Submit`, `SaveAction`, `SaveSchedule` | the submit handler: action first, schedule second, each refused, done or done and not answered |
| `DeleteSchedule`, `Cancel` | the buttons that leave the page |
| `RunNow`, `AnswerRunNow`, `AnswerApply` | a stored schedule through the scheduler, a new one device by device |
| `RemoveDevice` | another tab deletes a device |

### 6.2 FormFields: what the controls hold

The other half of the same file: trigger, time, offset, days, dates, brightness,
colour. Here a save is one step (`Save`, or `SaveHalf` when only its first request
succeeds) and what matters is what is computed. Bitmasks, minutes and seconds,
`HexToRgb`, `RgbToHs` and `HsToRgb` are translated with their arithmetic. `settings` says
whether there is a place and a timezone: the page looks at the first only
(`schedule_form.js:188`), the server wants both (`LocationNotConfigured`). JavaScript
computes in doubles, where what is exactly a half on paper may come out a little
low, so `Rounded` gives both results of a half. Hidden controls keep their values,
and `Merged` is the PATCH of the server, which keeps whatever a payload omits: it is
what makes a leftover field dangerous (`RefusedForWhatIsShown`). A missing timezone is shown
as "Not set", with no word that it is needed; the property takes that for shown (section 9). The sliders have hue and
saturation only, so `SlidersShowColour` is about colours at full value; the page shows
any other colour with sliders that stand for a brighter one. What the sliders make of such a
colour may be three steps of a channel off (255, 1, 3 comes back as 255, 0, 0), as
degrees and per cent are coarser than bytes. The colour that is stored is the one shown, and not
what the sliders make of it: that is why nothing drifts (`ReopenedAsSaved`).

### 6.3 SchedulesPage: switches, delete, Undo

| in the module | in the code |
|---|---|
| `rows` | the switches in the page; `shown` before the answer, `busy` meanwhile |
| `toggles` | PATCHes that are out; `current` is lost when the element is replaced |
| `lists` | fragments of the list, rendered by the server and not yet in the page |
| `dialog`, `ticked`, `skip` | `ConfirmDialog` and its "don't ask again", in localStorage |
| `deletes` | delete handlers, from the question to the end of their toast, each with the snapshot for Undo |

| action | code |
|---|---|
| `Toggle`, `AnswerToggle` | `schedules.js:55-75`, and the PATCH that resolves presets again |
| `Refresh`, `Swap` | HTMX fetches the list, and puts it in |
| `Ask`, `Tick`, `Ok`, `Cancel` | the dialog |
| `Capture`, `Delete`, `TapUndo`, `Expire`, `Restore` | `_handleClick` of `<delete-list>`: snapshot, DELETE, toast, POST |
| `Leave`, `Return` | the tab bar replaces the body while handlers go on |
| `OtherToggles`, `OtherDeletes`, `RemoveDevice` | another client |

`sure` and `same` are auxiliary. `same` says that nobody else has changed the schedule since the
server gave the value that the snapshot holds. A row is `sure` when rendered, and no more
once one of three things has happened: another client changed its schedule; its switch was taken back
although the PATCH had taken effect, since the answer was lost (`schedules.js:65`);
or the list it is of was rendered before the PATCH of a toggle took effect. In the last two the
page itself leaves a switch that is wrong until the next refresh: this is what the
code does (section 9), and not what `SwitchShowsServer` is about. `attached` are the delete handlers whose row is
still the element they have: `row.remove()` takes away that element and no newer one.

### 6.4 Gestures: long press and pull-to-refresh

`<delete-list>` and pull-to-refresh listen to the same touches. `touch` holds the
fingers that are down, `timers` the 500 ms timers that are armed and `handle` the
one that `_pressTimer` names: the two differ when a second finger comes down.
Times are left out (an armed timer may fire at any moment) and positions are half
thresholds. Its definitions are called `GestureInit`, `GestureNext` and so on, since one
proof module extends it together with `SchedulesPage`. `PutDown`, `Move`, `PutUp`, `Abort` are the pointer and touch events of a
finger, `Fire` the timer, `Click` what the browser makes of a tap. The browser may take
a touch over to scroll, which sends a pointercancel, unless pull-to-refresh prevents it.

### 6.5 Updater and SettingsPage

`Updater` is the host: `flag` is `data/update.flag`, `script` the place in
`apply_update.sh`, `service` the place in `run.sh`, and three versions can differ:
`code` on the disk, `schema` of the database, `running` in memory. Its actions are the
lines of the script, `set -e` at each of them (`ScriptFails`: the pull, the install, the
migration, the removal of the flag and the restart may fail, or the script be killed
before them), the path unit that starts it again as
long as the flag is there, a crash, and a power cut between any two of them.

Two variables are auxiliary. `wanted` is the version an apply can rely on: the newest one
at the time of the click, if no script was past its pull. A click that comes later touches
a flag that will be removed, and is not counted: what it asked for may be neither fetched nor
pending (section 9), and `UpdateNotForgotten` says nothing of it. `cutOff` says that a
script ended between the removal of the flag and the restart, and nothing has restarted
the service since: the one case in which an old process stays over the new code, which
`RestIsConsistent` names.

`SettingsPage` adds the page. The two are composed by what they share: a
request has an effect only while `running` is not `Down`, and the page acts on the host
only by creating the flag (`TouchFlag`). `field[f]` is an input with its `lastSaved`
value, `saves` the calls of `saveField` that are under way; "Use my location" is three
of them in a row, of which each starts whether or not the one before failed.
`field[f].sure` is lost by a save whose answer is lost after it took effect, by two saves of
the field that overlap, by a save that crosses `init()`, and by a stored timezone that
the browser does not list: the four ways in which the page may leave a value that is not
stored (`settings.js:50-53`, section 9). `catchUp.box` is the checkbox beside Alpine's `value`: an error leaves `value`
unchanged, so Alpine does not touch the box.

### 6.6 Icons, DevicePages and Display

`Icons` has the generator's two tables. Two Lucide names may become one key, a
utility alias takes precedence over an icon of its name, and the page reads the table
with each deploy, the server at each start. `DevicePages` lets a release come between.
For an icon that is missing the two draw different things: the device page a bulb of its
own (`OwnBulb`, `device_detail.js:59`), the list the release's `lightbulb`, or nothing if the
release has none (`device_row.html:10`). `DeviceShown` says which, and the instance has releases with and
without that file.

| in the module | in the code |
|---|---|
| `page`, `loads`, `patches` | `device_detail.js`: what is shown and edited; the runs of `init()`; PATCHes under way |
| `form`, `post` | `devices.js` and the add form: address and hidden mDNS name, scan and its results; the POST |
| `release`, `loaded` | the version on the disk, and the one whose `lucide_icons.json` the process has read |

`page.sure` is auxiliary: no PATCH was sent while another one, or a GET of `init()`, was
under way, none was carried out without its answer being read, and no PATCH of the icon
failed. There are two runs of `init()`: Alpine calls a method of that name by itself, and
`device_detail.html:15` calls it again in `x-init`. Both load the device and both
listen to the picker.

`Display` has pure functions only (`relativeTime`, `signalParts`, the icons of rows,
the theme). Its properties are assumptions that TLC evaluates in the run
`device_page`: `RelativeTimeFits`, `SignalIsMonotone`, `TwinsAgree` (the template draws
what `icons.js` would) and `ThemeIsKept`.

## 7. Runs, bounds and results

| run | instance | shows |
|---|---|---|
| `scheduler_safety` | two schedules, one device, a timezone, one whose clock is set back and an unknown one, one edit of any kind, one crash or escaping exception, 4 moments; 689,048 states | `TypeOK`, `SettledOnce`, `NextRunAhead`, `DeliveriesAccountedFor`, `LastRunMatchesLog`, `LateOnlyWithCatchUp`, `MovesWithLog`, `KeepsPromise` |
| `scheduler_liveness` | the same with a third schedule that may be created, one timezone, 3 moments; 251,047 states | `OverdueIsSettled` under `Fairness` |
| `nextrun_search` | days of 8 units, weeks of 3 days, years of 5 and 6 days; no clock change, back, forward; times, offsets of up to half a day, weekday masks, date ranges, annual windows with wrap and leap day; every instant of 6 days; 31,752 states | `TypeOK`, `NextIsFirstAhead`, `AnnualNeverEnds`, `OnTimeLosesNothing` |
| `mdns_monitor` | two lights, two addresses, one row and an id to create another, three events or requests of any kind; 423,956 states | `TypeOK`, `VerdictIsFresh`, `GoneGoesOffline`, `PresentComesOnline` under `Fairness` |
| `form_page` | two devices, of which one may be deleted; presets 1 and 2, one of them missing on the second light; a new schedule or one of four stored ones; 3 clicks, of them 2 saves; 1,009,476 states | `TypeOK`, `RowsOfOwnDevice`, `SaveNotStuck`, `PreviewIsWhatSaveStores`, `StoredAsSubmitted` |
| `form_fields` | a new schedule or one of five rows, one with a colour that the sliders miss by three steps; limits and middle values of each control; a place or none, a timezone or none; 3 changes or saves; 282,766 states | `TypeOK`, `ReopenedAsSaved`, `SlidersShowColour`, `RefusedForWhatIsShown` |
| `schedule_list` | two schedules of one and two devices; two each of toggles, deletes, refreshes and acts of another client, four in all; or two fingers, three touches, three positions; 666,958 states | `TypeOK`, `SwitchShowsServer`, `NoDuplicates`, `RestoredAsDeleted`; `IndicatorGone`, `OnlyRestingPress`, `HeldReleaseIsInert` |
| `settings_page` | three versions, one fault, two acts of the user; coordinates that are refused and a timezone that the browser lacks; 2,559,312 states | `TypeOK`, `FieldShowsStored`, `UpdateNotForgotten`, `RestIsConsistent` |
| `device_page` | two lights, two addresses; releases of five files with and without `lightbulb`; three events of which two may be saves; 1,034,823 states | `TypeOK`, `DeviceShown`, `MdnsNameOfHost`; the assumptions of `Display` |
| `page_preset`, `form_prefill` | smallest instances of a finding | section 9 |
| `nextrun_repeated` | as `nextrun_search` | section 9: `StrictlyAfterNow` violated |

*Scheduler bounds.* Two schedules are needed because one commit covers all of a
tick: with one, a rollback could not hurt another. One device per schedule is
enough for the safety properties (a second only adds posts of the same kind).
Four moments allow an occurrence, a stale one, one being reached while a tick
runs and one after an outage; `STALE_MULTIPLIER = 0` makes an occurrence stale
after a single interval so that skipping happens within them. `MaxTickSpan = 1`
lets time pass during a tick. One edit and one fault can fall between any two
steps of the loop and of `run_now`; `MaxLog` only ends the loop at the last
moment, where ticks would repeat for ever. In the last unit of time the loop
keeps polling, so the bound on time does not hide retries. The clock of the zone `back` is set back
in the middle of them, so both passes of the hour are among the moments, and an edit may switch to that zone
in either; what a late tick answers there is in `MCNextRunTimes`.

*NextRun bounds.* The unit is half a clock change, so there are times inside a
repeated and a skipped hour. The lookaheads are defined as in the code from the
length of the week and of the year, and the calendar extends past the longest of
them. `MaxTime` covers the two days before and the three days after the change.

*MdnsMonitor bounds.* Three events are the shortest way to a late goodbye (shut
down, boot, one loss), to a deleted row under a running sweep, and to a row
created for a light that moves. Between events the threads run without bound.
Two addresses make every move of a light a possible collision. The threshold is
the default, 2, the smallest for which `VerdictIsFresh` holds; the proof covers
the larger ones. With the environment variable set to 1 it does not hold: a
resolved service that arrives between the lookup and the update of a sweep is
overruled by it.

*Bounds of the pages.* Only what a user or another client starts is counted;
answers, timers and the continuations of handlers are free. In `form_page`, two
devices are what the code tells apart (one dropdown or one per device), and three
clicks allow a device to be unticked and ticked again while the first answers are
on their way, or a save, a change, and a second save that overtakes the first.
Four acts in `schedule_list` allow two deletes of one row, both with their Undo, while
another client changes the schedule and the list is fetched. Three touches
are a finger, a second one, and a third after either has gone. The two halves of the list,
`SchedulesPage` and `Gestures`, share no variable, so the run lets one of them move while
the other is at its start; all four acts with all three touches would show nothing more of
either. Two acts in `settings_page` are two saves of one field that overlap, one save
after another whose answer was lost, or "Use my location" with a change during it; or a
second click on apply, for which three versions allow a newer release while
the script of the first is past its pull. One fault falls between any two steps, and
after it the script starts over from the states it can start from. In
`device_page`, three events are a result of a scan, an address typed over it and
another result, with a POST between any two; or two edits of the page under a release
that replaces an icon.

*Mutants.* Each property is broken by at least one plausible change of the code
it guards, written next to the definition it replaces and listed in
`PROJECT.json`: an occurrence not advanced when skipped, a lookahead of one
week, the first row instead of the row of the device, Undo offered after a
DELETE that failed, a hue left negative, the flag removed before the pull, and so on.

`CHECK_DEADLOCK FALSE` in the runs of `Scheduler` and `NextRun` (at the last moment of
an instance everything stops) and of the pages (a user may have used up the bound,
and a page that was left has nothing to do). The monitor never stops.

## 8. Proofs

All theorems hold for any sets of schedules, devices, triggers and zones, any
occurrence times, any presets, icons and releases, any bounds. Each is
`Spec => []Property`, or `Spec => Property` where the property is about steps.
`GestureTypeOK` is the one property here that no run checks: only the other proofs
of `Gestures` need it.

| module | theorem: property | inductive invariant |
|---|---|---|
| `SchedulerProofs` | `TypeCorrect`: `TypeOK` | itself |
| | `LogInOrder`; from it `SettledAtMostOnce`: `SettledOnce`, `NextRunStaysAhead`: `NextRunAhead` | `LogInv` |
| | `Refinement`: `KeepsPromise`, that is, `Scheduler` implements `Occurrences` | `LogInv` |
| | `OnlyCatchUpIsLate`: `LateOnlyWithCatchUp` | a tick is no older than `MaxTickSpan` and never fires what it had to skip |
| | `NothingMovesSilently`: `MovesWithLog` | the types |
| | `LastRunAgrees`: `LastRunMatchesLog` | `LastRunInv` |
| | `CommandsAreAccountedFor`: `DeliveriesAccountedFor` | `DeliverInv` |
| `NextRunProofs` | `SearchTypeCorrect`: `TypeOK`, `FirstAheadIsFound`: `NextIsFirstAhead`, `OnTimeIsEnough`: `OnTimeLosesNothing`, `AnnualGoesOn`: `AnnualNeverEnds` | `SearchInv` |
| `MdnsProofs` | `MonitorTypes`: `TypeOK`, with that no two devices have one address | itself |
| | `VerdictsAreFresh`: `VerdictIsFresh`, for every `OFFLINE_MISS_THRESHOLD` of at least 2 | `SignResets` |
| `ScheduleFormProofs` | `FormTypeCorrect`: `TypeOK`, `RowsAreOfOwnDevice`: `RowsOfOwnDevice`, `SaveIsNotStuck`: `SaveNotStuck`, `PreviewIsStored`: `PreviewIsWhatSaveStores`, `SavedAsSubmitted`: `StoredAsSubmitted` | `FormPageInv` |
| `FormFieldsProofs` | `FieldsTypes`: `TypeOK`, `RefusalIsShown`: `RefusedForWhatIsShown` | `FieldsInv` |
| | `ReopenedIsSaved`: `ReopenedAsSaved` | `FieldsInv`, `KeptInv` |
| | `SlidersFollow`: `SlidersShowColour` | `FieldsInv`, `Fits` |
| `SchedulesPageProofs` | `UndoMakesNoDuplicates`: `NoDuplicates` | `UndoInv` |
| | `PageTypeCorrect`: `TypeOK`, `SwitchesShowServer`: `SwitchShowsServer`, `UndoRestoresAsDeleted`: `RestoredAsDeleted` | `PageInv`, `FlagsInv` |
| | `GestureTypes`: `GestureTypeOK`, `IndicatorGoes`: `IndicatorGone`, `PressMustRest`: `OnlyRestingPress`, `HeldReleaseDoesNothing`: `HeldReleaseIsInert` | `IndicatorInv`, `PressInv`, `HoldInv` |
| `UpdaterProofs` | `UpdateIsNotForgotten`: `UpdateNotForgotten` | `UpdateInv` |
| | `ServiceRestsConsistent`: `RestIsConsistent` | `RestInv` |
| | `SettingsTypeCorrect`: `TypeOK`, `FieldsShowStored`: `FieldShowsStored` | `SettingsInv` |
| `DevicePagesProofs` | `PagesTypeCorrect`: `TypeOK`, `AddressesKeepTheirName`: `MdnsNameOfHost`, `DeviceIsShown`: `DeviceShown` | `DevicePagesInv` |

*Why an inductive invariant is needed.* That `next_run_at` is past everything
settled says nothing about the sessions in progress: a tick commits values it
computed from rows read earlier, while requests moved `next_run_at` in between.
`LogInv` therefore adds what a running tick knows. Whatever it selected was due,
so at most `tickNow`, and past everything the schedule's log has settled; whatever
it staged without being stuck is past `tickNow` (both but for an hour that is shown twice); and every logged occurrence is at
most `tickNow`. Requests never add a settled occurrence, so these facts survive
them, and at the commit they give the order of the new entry and the new
`next_run_at`. `LogInv` was checked with TLC on the safety instance before it was
proved.

*How the proof is laid out.* Every step other than the commit falls into one of
five shapes (`Shape`: nothing moves, time passes, run now logs, a client
reschedules, a schedule is forgotten). The log part of the invariant and the
refinement are proved per shape; the session part per action of the tick.

*Commands.* `LastRunInv` adds that a staged write sets `last_run_at` exactly when its own
log entry reached a device, and that a deleted schedule keeps neither. That no
command is unaccounted for is inductive once it is known that a tick handles a
schedule once (`due` and `handled` are disjoint) and that an id which never had a row
was never sent anything, so that a new schedule starts at zero. At the commit the
command in flight becomes an entry of the log; a crash turns it into a lost tick.

*The search.* `SearchInv` only says that the stored answer is that of the last
computation; the work is in the lemmas. The search looks at finitely many dates,
`Wanted` at all of them. Two candidates are further apart than a skipped hour
(`Separated`), so the first hit has the first instant; a candidate is at most half a day
before its date and less than two days after the date begins (`NearItsDate`), so from the day
after tomorrow on none is past (`AfterTomorrow`), and the week that is left of the
lookahead has a date of every weekday (`SameWeekday`): that is why
`_LOOKAHEAD_DAYS` is a week and one day. What an answer's instant shows
on the clock is its candidate, or the candidate moved over the skipped hour
(`WallOfInstant`); no other candidate is in between, which gives `OnTimeLosesNothing`.
For `AnnualNeverEnds`, `Walked` counts the steps from the first place of the window. A day adds
one, or two over a leap day that is not there, so a window opens within a year of any date
(`OpensWithinAYear`), and stays open for as many days as it has places other than the
leap day, at least a week (`OpenForAWeek`). Both are shown by a least counterexample.

*The form.* `RowsOfOwnDevice` is kept by every handler, but only because each row that is rendered
is asked for by a request that names the element (`FormBase`). That Save is not stuck is not
inductive: a handler may leave it disabled as long as a request is out whose answer
looks again (`Settled`). The lemmas take the functions of the page one at a time, from
form to form, and the steps compose them. `AloneInv` is about a save that no other
save has crossed: the others have failed, and the action it made is what it sent.

*The values of the form.* The lemmas on the conversions hold for every number: a percentage,
a colour and a set of days come back from what is stored as they were (`PercentKept`, `HexKept`,
`DaysKept`), the other way round not always. `KeptInv` then follows a schedule through a page that opens it: as long as the
row is what some page saved, there is one set of controls from which both the row and the action were made, and
a page that is left alone has first its schedule, then its light. For
`RefusedForWhatIsShown`, a payload names every column, so `Merged` leaves nothing over
(`NothingLeftOver`), and whenever the form is ready the labels agree with the box (`FieldsInv`).

*The sliders.* `Fits` says that the sliders stand where `RgbToHs` puts them for the colour
that is shown, or that the colour is one that `HsToRgb` makes of them: every step keeps one of the two. In the
second case two roundings differ by a step. The first is `PickedNear`: `Units` is `HsToRgb` before it rounds, and in
each of the six sextants one channel is full, one the least, and one in between
(`SextantUnits`); `HueIs` says how far hue and saturation are off in whole numbers. The bound
3 is attained. The proof needs each sextant's formula at its borders too, where the neighbours agree.

*The switches.* `SwitchInv` says what rows, lists on their way and requests owe each other: a
row or a list that is sure shows what the server has, a busy row the opposite,
and a request that is current is the only one of its row.
`RestoreInv` says that a handler that may still undo, of a schedule that is there and that nobody changed, holds
its snapshot as it is. *The settings*: `SureField` has the cases of a field between its change, the
request and the answer.

*The device page.* While no two requests cross (`page.sure`), the answers to the two runs of
`init()` agree with the database, the PATCHes that are out are copies of one, and what is
shown is stored unless one of them brings it (`ShownInv`). For the icon, the table of the
generator is a fold over the files: the last file of a key wins, unless an alias does
(`LiteralOf`, `GlyphsOfARelease`); page and server take it from the same release.
`StoreInv` has the form: its hidden name belongs to its host as long as it has one.

*The sweep.* `VerdictIsFresh` follows from `SignResets`: a device that gave a sign of
life since the sweep began, and that the sweep still has to update, has no
misses. Every step that records a sign of life resets the counter, and the only
step that raises it belongs to the sweep itself, which updates a device once.
With no misses, one more does not reach a threshold of two.

*Undo.* That no schedule is there twice is not inductive: a handler may hold a snapshot
from before its DELETE. `UndoInv` adds that a snapshot for which Undo is offered stands for a schedule
of which no copy is left, that no two offers are for the same one, and that ids are not
given twice, so that a snapshot taken of an id is still of the schedule with that id when
the DELETE is done. All steps but three (the capture, the DELETE that is answered, the
POST) are quiet: they add no schedule and put nothing more at stake (`QuietStep`).

*The gestures.* `IndicatorInv`: the indicator is shown only during a pull, and not with no finger
down. `PressInv`: as long as no second finger came, the only timer is the one `_pressTimer`
names, of a finger that rests on a row. `HoldInv`: a finger that may still click is alone,
and if it was held, `_swallowNext` is set.

*The update.* Both theorems are about the composed specification, `Spec` of
`SettingsPage`. The lemma `NextIsHostStep` reduces each of its steps to a step of the
host or a creation of the flag. `UpdateInv` then adds to `UpdateNotForgotten` where the
script is: while it is at the pull or between the pull and the removal of the flag, the flag is there, and
past the pull the code is at least the version wanted, so removing the flag loses
nothing. `RestInv` says of a quiet disk (no flag, no script) that the service, also one that is
still starting, will run the code that is there over the schema of that code, unless a
script was cut off at the restart; the flag goes one step before the restart, and a power
cut in between restarts the service as well.

*Assumptions.* They are about constants only, and TLC evaluates all of them.
`NullAssumption`, `IdAssumption`, `ConfigAssumption`, `MonitorAssumption`,
`UpdaterAssumption`, `SettingsAssumption`, `PageAssumption`, `GestureAssumption`, `FormAssumption`, `FieldsAssumption`,
`DevicePagesAssumption` and `IconsAssumption` type the constants; `NextRunAssumption` says of the table
`NextRunTimes` what section 3 does, and `FirstAheadIsFound` proves that the search is such a table.
Of the others: null is no schedule and no
time, the bounds are numbers, the first rows and lights have different addresses, the generator's
files are listed once each. `InitialAssumption` says that a stored schedule that is
edited is one that the server accepts. Of `NextRun`:

- `CalendarAssumption`: dates are numbered from 0 without a gap, each with a place in the year.
- `YearAssumption`: the day after has the next place in the year, most years skip the leap
  day, and that day is neither the first nor the last of the year.
- `InputAssumption`: schedules are valid; the clocks of a zone change once, and not within
  the first hours of the epoch.
- `SunAssumption`: the sun event of a date is on that date, by either clock.
- `ReachAssumption`: the dates that a search looks at are in the calendar.

*What the provers cannot do, and stays with TLC.* Liveness (`OverdueIsSettled`,
`GoneGoesOffline` and `PresentComesOnline`) and ENABLED. Induction with a
predicate as a parameter: that a set of numbers has a least element follows from the
library's theorem about well-founded relations, but what a recursion computes does
not, so `FormFields` writes the sum over the days out. Every invariant and action property of the
passing runs is proved. `LoadedAsStored` and `ToggleKeepsPresets` do not hold (section 9).

## 9. Findings, and what is not modelled

### Findings

| run | the code | what is said |
|---|---|---|
| `page_preset` | every PATCH resolves the presets again (`schedules.py:259`): turning a schedule off and on overwrites the preset of its only device by the one of the action, and is refused when it has several | `schedule_form.js:441-442`: "schedule_devices is the real source of truth for which preset each device gets" |
| `form_prefill` | `init()` loads the presets a second time without the saved selection (`schedule_form.js:603`): the form shows the first preset of each device, and Save stores it | `schedule_form.js:373-376`: "this pre-fills every row" |
| `nextrun_repeated` | wall clocks of one `tzinfo` are compared (`scheduling.py:125`): in the second pass of a repeated hour the answer may be in the first, up to an hour before now, and a late tick there settles it again on each poll | `scheduling.py:63-64`: "strictly after now_utc" |

Each violation run checks one property and finds it violated by the model of the
code as it is. `form_prefill` allows no click at all.

### Behaviours the models have, with no run of their own

They were met while modelling; the models show them, and the properties that are
checked are stated so that they allow for them.

*The loop and the search.*

- Clearing the timezone is not refused (`settings.py:57` guards the coordinates only): the loop
  cannot advance a sun schedule, and settles it on every poll, first by firing, then, once it is
  stale, by skipping. `scheduler.py:128-134` has: "Shouldn't happen: PATCH /api/settings blocks
  clearing location [...] something that should be unreachable". These entries are marked
  `stuck`, and `SettledOnce`, `NextRunAhead` and `KeepsPromise` leave them out.
- A PATCH of the trigger that commits while the tick posts is overwritten with an occurrence of
  the old trigger (`scheduler.py:118`): the schedule runs once more at the old time, although
  `routers/schedules.py:5-7` has `next_run_at` "recomputed on update only when a trigger-related
  field actually changed". No property forbids it: the occurrence is still a later one.
- A schedule disabled over its occurrence keeps the old `next_run_at`
  (`schedules.py:254`): enabled again, it is skipped, or fired late.
- One schedule deleted under a tick rolls back the log of every other schedule of that
  tick, whose lights have already changed (`scheduler.py:171`).
- An annual window shorter than a week with a weekday mask gets no next run at all in
  a year where it has no such day, though it has one in a later year (`scheduling.py:86`).

*Devices.*

- A light that gets an address still stored for another device is marked online, but its
  stored address stays what it was (`mdns.py:202`, unique `host`); lights that swap
  addresses stay wrong for good.
- A device without a hostname that was refreshed once is online for ever
  (`devices.py:155`).
- Each icon chosen on the device page is sent twice, once per run of `init()`; a PATCH
  of the icon that fails leaves the picker showing the icon that was not saved; of two
  PATCHes, or a PATCH and a load, the answer that comes last is shown, which may be the older;
  a PATCH whose answer is lost leaves the page as it was; the answer to a save ends an
  edit begun since. These are the cases that `page.sure` takes out of `DeviceShown`.
- A device without an icon, or whose icon the release lacks, is a bulb on its page and another
  one, or nothing, in the list (`device_detail.js:59`, `device_row.html:10`).
- The confirmation of the device page says that schedules are deleted too
  (`device_detail.js:143`); `delete_device` removes only their links.
- `form.reset()` does not reset the hidden mDNS name of the add form. It is harmless
  because typing an address clears it (`MdnsNameOfHost`).
- A server that was not restarted after a release draws icons from its old table
  while the page has the new one.

*The update.*

- An apply while the script is past the pull touches a flag that is there, and that the script
  removes (`apply_update.sh:27`): the newer version is not fetched, and is offered again at a
  later check. `routers/update.py:12-14` has: "Apply writes a flag file that the [path] unit
  detects and hands off".
- A restart that fails, or a script killed after `rm -f`, leaves the old process over new code and
  a migrated database, with no flag to try again (`apply_update.sh:27-30`), until the service
  restarts for another reason. `INSTALL_PI.md:98` has: "briefly unavailable (about a minute)
  while it updates".

*The schedule form.*

- With a place and no timezone the form offers sunrise and sunset (`schedule_form.js:188`), and the
  server refuses them (`scheduling.py:69-75`). `schedule_form.html:79` has: "Sunrise and sunset
  triggers need a location. Set one in Settings to use them."
- Editing drops what the form has no control for: `transition_ms`, effect and palette,
  the seconds of a time, brightness and colour of an "off" action. A stored brightness
  of 0 becomes 3.
- A save whose second half fails has changed the action of an existing schedule, or
  leaves an action without a schedule.
- "Run now" on an existing schedule runs what is stored, not what is shown.
- Hue and saturation are not stored: a pale colour set with the sliders keeps its bytes,
  but the sliders may stand elsewhere when the schedule is opened again, although
  `schedule_form.js:36-38` has them round-trip.
- With one dropdown, a late answer fills it with the presets of the device ticked before.

*The list and the settings.*

- The flag that swallows the click after a long press may swallow a later one,
  if the browser makes no click of the release.
- A switch may stay wrong until the list is fetched again, by the page's own doing
  (`schedules.js:61-69`): it is taken back on a lost answer although the PATCH took effect; or a
  list that was rendered before the PATCH took effect replaces its row, and the answer, a
  success, only reaches the element that is gone.
- A settings field may show a value that is not stored, until it is saved again (`settings.js:50-53`):
  it is put back on a lost answer although the PATCH took effect; two saves of it overlap, and
  the first to fail puts back a value that the other replaces; or a save crosses `init()`, which
  fills the field with what it had read. A stored timezone that the browser does not list is shown as not set.
- "Use my location" is not atomic: the longitude is saved also if the latitude was not.
- `scheduleIcon` and `historyIcon` of `icons.js` are not used any more. The comment that the
  server's version matches the second (`pages.py:80`) does not hold for "partial".

### Not modelled

- Lights that get another address between a scan and the POST that adds them: `DevicePages`
  has fixed addresses, `MdnsMonitor` has lights that move.
- Two requests that overlap in the same milliseconds, the WLED client's lock per host (a thread holds one at
  a time, and only over a request with a timeout), the
  backups of the updater and `restore.sh`: section 2.
- `mdns.scan` beyond what it returns, the list of devices, `history.py`: read only. The
  pagination of a list that grows at the front is a query without state.
- `pages.py`, `view_helpers.py`, templates and styles beyond what sections 6.3 and 6.6 name:
  presentation, without state.
- Deleting an action: no page does it, and the handler refuses it while a schedule uses it.
- Alembic migrations: generated DDL. That one runs beside the live process for the time
  until the restart is in `Updater`; what the old process does on a new schema depends on the DDL.
- Docker's entry point, the installer: I/O.
- Clocks that jump backward, disk failures, SQLite errors other than failed commits.
- The position of the sun: a table of times, one per date. That astral raises an
  error where the sun does not rise is left out.
