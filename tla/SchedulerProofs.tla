-------------------------- MODULE SchedulerProofs --------------------------
(***************************************************************************)
(* Theorems about Scheduler, for any set of schedules and devices, any     *)
(* triggers, any number of ticks, requests, crashes and failures.          *)
(***************************************************************************)
EXTENDS Scheduler, SequenceTheorems, FiniteSetTheorems, TLAPS

USE NullAssumption, ConfigAssumption

----------------------------------------------------------------------------
(* Operators                                                               *)

\* compute_next_run_at answers NULL, something later than t, or an instant of an
\* hour that is shown twice: all that everything below uses of it.
LEMMA ComputedLater ==
    ASSUME NEW trigger \in Triggers, NEW config \in SettingsRow, NEW t \in Time
    PROVE  LET o == compute_next_run_at(trigger, config, t)
           IN  o = NULL \/ (o \in Nat /\ (o > t \/ o \in ShownTwice))
<1>1. config.timezone \in Zone
  BY DEF SettingsRow
<1>2. NextRunTimes[trigger][config.timezone][t] \in OptionalTime
  BY <1>1, NextRunAssumption
<1> QED
  BY <1>1, <1>2, NextRunAssumption DEF compute_next_run_at, OptionalTime

LEMMA BlankTypes ==
    /\ NoResults \in Results
    /\ BlankRow \in Row /\ BlankRow.devices = {} /\ BlankRow.next_run_at = NULL
    /\ BlankWrite \in StagedWrite
<1>1. NoResults \in Results
  BY DEF NoResults, Results
<1>2. (CHOOSE t \in Triggers : TRUE) \in Triggers
  OBVIOUS
<1>3. BlankExecution \in Execution
  BY <1>1 DEF BlankExecution, Execution, OptionalTime
<1> QED
  BY <1>1, <1>2, <1>3 DEF BlankRow, Row, BlankWrite, StagedWrite, OptionalTime

\* The row create_schedule builds is well typed, and its next run is not past or
\* is shown twice.
LEMMA NewRowType ==
    ASSUME TypeOK, NEW trigger \in Triggers, NEW targets \in SUBSET Devices,
           NEW enabled \in BOOLEAN
    PROVE  /\ NewRow(trigger, targets, enabled) \in Row
           /\ LET o == NewRow(trigger, targets, enabled).next_run_at
              IN  o = NULL \/ (o \in Nat /\ (o > now \/ o \in ShownTwice))
<1>1. settings \in SettingsRow /\ now \in Time
  BY DEF TypeOK, ClockType, DbType, Time
<1> QED
  BY <1>1, ComputedLater DEF NewRow, Row, OptionalTime

LEMMA ResetTypes ==
    ASSUME ResetTick
    PROVE  LoopType' /\ FireType'
BY BlankTypes DEF ResetTick, LoopType, FireType, Time

----------------------------------------------------------------------------
(* Types                                                                   *)

LEMMA TypeInit == Init => TypeOK
<1> SUFFICES ASSUME Init PROVE TypeOK
  OBVIOUS
<1>1. ClockType
  <2>1. now \in Time
    BY DEF Init, Time
  <2>2. up \in BOOLEAN /\ polled \in BOOLEAN
    BY DEF Init
  <2> QED
    BY <2>1, <2>2 DEF ClockType
<1>2. PICK ids \in SUBSET Schedules :
        InitialSchedules \in
            [ids -> [trigger : Triggers, devices : SUBSET Devices, enabled : BOOLEAN]]
  OBVIOUS
<1>3. rows \in [Schedules -> Row]
  <2>1. ASSUME NEW s \in ids
        PROVE  NewRow(InitialSchedules[s].trigger, InitialSchedules[s].devices,
                      InitialSchedules[s].enabled) \in Row
    <3>1. settings \in SettingsRow /\ now \in Time
      BY DEF Init, Time
    <3> QED
      BY <1>2, <3>1, ComputedLater DEF NewRow, Row, OptionalTime
  <2> QED
    BY <1>2, <2>1, BlankTypes DEF Init
<1>4. DbType
  BY <1>2, <1>3 DEF Init, DbType
<1>5. LoopType /\ FireType
  BY BlankTypes DEF Init, LoopType, FireType, Time
<1>6. ManualType
  BY BlankTypes DEF Init, ManualType
<1>7. CountType
  BY DEF Init, CountType
<1> QED
  BY <1>1, <1>4, <1>5, <1>6, <1>7 DEF TypeOK

LEMMA Stable ==
    /\ ClockType /\ UNCHANGED clockVars => ClockType'
    /\ DbType /\ UNCHANGED dbVars => DbType'
    /\ LoopType /\ UNCHANGED <<tickPc, loopVars>> => LoopType'
    /\ FireType /\ UNCHANGED <<tickPc, due, fireVars>> => FireType'
    /\ ManualType /\ UNCHANGED manualVars => ManualType'
    /\ CountType /\ UNCHANGED <<boundVars, auxVars>> => CountType'
<1>1. ClockType /\ UNCHANGED clockVars => ClockType'
  BY Zenon DEF ClockType, clockVars
<1>2. DbType /\ UNCHANGED dbVars => DbType'
  BY DEF DbType, dbVars
<1>3. LoopType /\ UNCHANGED <<tickPc, loopVars>> => LoopType'
  BY DEF LoopType, loopVars
<1>4. FireType /\ UNCHANGED <<tickPc, due, fireVars>> => FireType'
  BY DEF FireType, fireVars
<1>5. ManualType /\ UNCHANGED manualVars => ManualType'
  BY DEF ManualType, manualVars
<1>6. CountType /\ UNCHANGED <<boundVars, auxVars>> => CountType'
  BY DEF CountType, boundVars, auxVars
<1> QED
  BY <1>1, <1>2, <1>3, <1>4, <1>5, <1>6

\* Stage keeps the session well typed, and only ever moves next_run_at ahead
\* of the tick's own now.
LEMMA StageType ==
    ASSUME TypeOK, NEW s \in due, NEW kind \in {"fired", "skipped"},
           NEW res \in Results, NEW lastRun \in OptionalTime,
           Stage(s, kind, res, lastRun), UNCHANGED <<tickNow, tickSettings, loaded>>,
           tickPc' \in {"idle", "selecting", "looping", "firing"}
    PROVE  LoopType'
<1> DEFINE stuck == LocationNotConfigured(loaded[s].trigger, tickSettings)
           next == compute_next_run_at(loaded[s].trigger, tickSettings, tickNow)
<1>1. /\ s \in Schedules /\ loaded[s].trigger \in Triggers
      /\ loaded[s].next_run_at \in OptionalTime
      /\ tickSettings \in SettingsRow /\ tickNow \in Time
  BY DEF TypeOK, LoopType, Row, Time
<1>2. stuck \in BOOLEAN
  BY DEF LocationNotConfigured
<1>3. next \in OptionalTime
  BY <1>1, ComputedLater DEF OptionalTime
<1>4. [kind |-> kind, results |-> res, stuck |-> stuck,
       occurrence |-> loaded[s].next_run_at] \in Execution
  BY <1>1, <1>2 DEF Execution
<1>5. staged' \in [Schedules -> StagedWrite]
  BY <1>1, <1>3, <1>4 DEF Stage, TypeOK, LoopType, StagedWrite
<1> QED
  BY <1>1, <1>5 DEF Stage, TypeOK, LoopType

\* A row with other next_run_at or last_run_at is a row.
LEMMA RowWith ==
    ASSUME NEW row \in Row, NEW o \in OptionalTime
    PROVE  /\ [row EXCEPT !.next_run_at = o] \in Row
           /\ [row EXCEPT !.last_run_at = o] \in Row
BY DEF Row

LEMMA WrittenType ==
    ASSUME TypeOK, NEW s \in Schedules
    PROVE  Written(s) \in Row
<1> DEFINE next == IF staged[s].execution.stuck THEN rows[s].next_run_at
                   ELSE staged[s].next_run_at
           last == IF staged[s].last_run_at = NULL THEN rows[s].last_run_at
                   ELSE staged[s].last_run_at
           moved == [rows[s] EXCEPT !.next_run_at = next]
<1>1. rows[s] \in Row /\ staged[s] \in StagedWrite
  BY DEF TypeOK, DbType, LoopType
<1>2. next \in OptionalTime /\ last \in OptionalTime
  BY <1>1 DEF Row, StagedWrite
<1>3. moved \in Row
  BY <1>1, <1>2, RowWith
<1>4. Written(s) = [moved EXCEPT !.last_run_at = last]
  BY <1>1 DEF Written, Row
<1>5. [moved EXCEPT !.last_run_at = last] \in Row
  <2> HIDE DEF moved, last
  <2> QED BY <1>2, <1>3, RowWith
<1> QED
  BY <1>4, <1>5

LEMMA AppendExecution ==
    ASSUME NEW log \in Seq(Execution), NEW e \in Execution
    PROVE  Append(log, e) \in Seq(Execution)
BY AppendProperties

----------------------------------------------------------------------------
LEMMA TypeTick == TypeOK /\ Tick => TypeOK'
<1> SUFFICES ASSUME TypeOK, Tick PROVE TypeOK'
  OBVIOUS
<1> USE DEF TypeOK
<1>1. CASE TickStart
  <2>1. ClockType'
    BY <1>1, Zenon DEF TickStart, ClockType
  <2>2. LoopType'
    BY <1>1 DEF TickStart, LoopType, ClockType, DbType
  <2>3. FireType'
    BY <1>1 DEF TickStart, FireType, fireVars
  <2> QED
    BY <1>1, <2>1, <2>2, <2>3, Stable DEF TickStart
<1>2. CASE TickSelect
  <2>1. LoopType'
    BY <1>2, BlankTypes DEF TickSelect, LoopType, DbType, IsDue, Row, OptionalTime, Time
  <2>2. FireType'
    BY <1>2 DEF TickSelect, FireType, fireVars
  <2> QED
    BY <1>2, <2>1, <2>2, Stable DEF TickSelect
<1>3. CASE TickFired
  <2>1. current \in due /\ results \in Results
    BY <1>3 DEF TickFired, FireType
  <2>2. LastRun(results) \in OptionalTime
    BY DEF LastRun, OptionalTime, ClockType, Time
  <2>3. LoopType'
    BY <1>3, <2>1, <2>2, StageType DEF TickFired
  <2>4. FireType'
    BY <1>3, BlankTypes DEF TickFired, FireType
  <2> QED
    BY <1>3, <2>3, <2>4, Stable DEF TickFired
<1>4. CASE TickCommit
  <2>1. \A s \in Schedules : Written(s) \in Row
    BY WrittenType
  <2>2. \A s \in Schedules : Logged(s) \in Seq(Execution)
    BY AppendExecution DEF Logged, DbType, LoopType, StagedWrite
  <2>3. DbType'
    BY <1>4, <2>1, <2>2 DEF TickCommit, DbType
  <2> QED
    BY <1>4, <2>3, ResetTypes, Stable DEF TickCommit
<1>5. CASE TickCommitFails
  <2>1. CountType'
    BY <1>5 DEF TickCommitFails, CountType, boundVars
  <2> QED
    BY <1>5, <2>1, ResetTypes, Stable DEF TickCommitFails
<1>6. ASSUME NEW s \in Schedules, TickSkip(s) PROVE TypeOK'
  <2>1. [d \in Devices |-> IF d \in LinkedDevices(s) THEN "skipped" ELSE "none"] \in Results
    BY DEF Results
  <2>2. NULL \in OptionalTime /\ s \in due
    BY <1>6 DEF OptionalTime, TickSkip, IsNext
  <2>3. LoopType'
    BY <1>6, <2>1, <2>2, StageType DEF TickSkip, LoopType
  <2>4. FireType'
    BY <1>6 DEF TickSkip, FireType, fireVars
  <2> QED
    BY <1>6, <2>3, <2>4, Stable DEF TickSkip
<1>7. ASSUME NEW s \in Schedules, TickFire(s) PROVE TypeOK'
  <2>1. LinkedDevices(s) \subseteq Devices
    BY DEF LinkedDevices, DbType, Row
  <2>2. FireType'
    BY <1>7, <2>1, BlankTypes DEF TickFire, FireType, IsNext, loopVars
  <2>3. LoopType'
    BY <1>7 DEF TickFire, LoopType, loopVars
  <2> QED
    BY <1>7, <2>2, <2>3, Stable DEF TickFire
<1>8. ASSUME NEW s \in Schedules, TickZoneUnknown(s) PROVE TypeOK'
  <2>1. CountType'
    BY <1>8 DEF TickZoneUnknown, CountType
  <2> QED
    BY <1>8, <2>1, ResetTypes, Stable DEF TickZoneUnknown
<1>9. ASSUME NEW d \in Devices, tickPc = "firing"
      PROVE  <<current, d, loaded[current].next_run_at>> \in Schedules \X Devices \X Time
  BY <1>9 DEF FireType, LoopType
<1>10. ASSUME NEW d \in Devices, TickGarbled(d) PROVE TypeOK'
  <2>1. CountType'
    BY <1>9, <1>10 DEF TickGarbled, CountType
  <2> QED
    BY <1>10, <2>1, ResetTypes, Stable DEF TickGarbled
<1>11. ASSUME NEW d \in Devices, NEW o \in Outcomes, TickPost(d, o) PROVE TypeOK'
  <2>1. CountType'
    BY <1>9, <1>11 DEF TickPost, CountType, boundVars
  <2>2. FireType'
    BY <1>11 DEF TickPost, FireType, Results, Status, loopVars
  <2> QED
    BY <1>11, <2>1, <2>2, Stable DEF TickPost
<1> QED
  BY <1>1, <1>2, <1>3, <1>4, <1>5, <1>6, <1>7, <1>8, <1>10, <1>11 DEF Tick

LEMMA TypeRunNow == TypeOK /\ RunNow => TypeOK'
<1> SUFFICES ASSUME TypeOK, RunNow PROVE TypeOK'
  OBVIOUS
<1> USE DEF TypeOK
<1>1. ASSUME ResetManual PROVE ManualType'
  BY <1>1, BlankTypes DEF ResetManual, ManualType
<1>2. CASE ManualCommit
  <2>1. manualSchedule \in Schedules /\ manualResults \in Results
    BY <1>2 DEF ManualCommit, ManualType
  <2>2. [kind |-> "manual", results |-> manualResults,
         occurrence |-> NULL, stuck |-> FALSE] \in Execution
    BY <2>1 DEF Execution, OptionalTime
  <2>3. LastRun(manualResults) \in OptionalTime
    BY DEF LastRun, OptionalTime, ClockType, Time
  <2>4. rows' \in [Schedules -> Row]
    <3>1. CASE manualSchedule \notin live
      BY <1>2, <3>1 DEF ManualCommit, DbType
    <3>2. CASE manualSchedule \in live
      <4> DEFINE m == manualSchedule
                 last == IF LastRun(manualResults) = NULL THEN rows[m].last_run_at
                         ELSE LastRun(manualResults)
      <4>1. rows[m] \in Row /\ last \in OptionalTime
        BY <2>1, <2>3 DEF DbType, Row
      <4>2. [rows[m] EXCEPT !.last_run_at = last] \in Row
        BY <4>1, RowWith
      <4>3. rows' = [rows EXCEPT ![m] = [rows[m] EXCEPT !.last_run_at = last]]
        BY <1>2, <2>1, <3>2 DEF ManualCommit, DbType
      <4> QED
        BY <2>1, <4>2, <4>3 DEF DbType
    <3> QED
      BY <3>1, <3>2
  <2>5. executions' \in [Schedules -> Seq(Execution)]
    <3>1. executions[manualSchedule] \in Seq(Execution)
      BY <2>1 DEF DbType
    <3>2. Append(executions[manualSchedule],
                 [kind |-> "manual", results |-> manualResults,
                  occurrence |-> NULL, stuck |-> FALSE]) \in Seq(Execution)
      BY <2>2, <3>1, AppendExecution
    <3> QED
      BY <1>2, <2>1, <3>2 DEF ManualCommit, DbType
  <2>6. DbType'
    BY <1>2, <2>4, <2>5 DEF ManualCommit, DbType
  <2>7. ResetManual
    BY <1>2 DEF ManualCommit
  <2> QED
    BY <1>1, <1>2, <2>6, <2>7, Stable DEF ManualCommit, tickVars, loopVars
<1>3. ASSUME NEW s \in Schedules, ManualStart(s) PROVE TypeOK'
  <2>1. ManualType'
    BY <1>3 DEF ManualStart, ManualType, DbType, Row
  <2>2. CountType'
    BY <1>3 DEF ManualStart, Edit, CountType, auxVars
  <2> QED
    BY <1>3, <2>1, <2>2, Stable DEF ManualStart, tickVars, loopVars
<1>4. ASSUME NEW d \in Devices, ManualGarbled(d) PROVE TypeOK'
  <2>1. CountType'
    BY <1>4 DEF ManualGarbled, CountType, auxVars
  <2>2. ResetManual
    BY <1>4 DEF ManualGarbled
  <2> QED
    BY <1>1, <1>4, <2>1, <2>2, Stable DEF ManualGarbled, tickVars, loopVars
<1>5. ASSUME NEW d \in Devices, NEW o \in Outcomes, ManualPost(d, o) PROVE TypeOK'
  <2>1. ManualType'
    BY <1>5 DEF ManualPost, ManualType, Results, Status
  <2> QED
    BY <1>5, <2>1, Stable DEF ManualPost, tickVars, loopVars
<1> QED
  BY <1>2, <1>3, <1>4, <1>5 DEF RunNow

LEMMA TypeRequest == TypeOK /\ Request => TypeOK'
<1> SUFFICES ASSUME TypeOK, Request PROVE TypeOK'
  OBVIOUS
<1> USE DEF TypeOK
<1>1. ASSUME Edit, UNCHANGED <<faults, auxVars>> PROVE CountType'
  BY <1>1 DEF Edit, CountType, auxVars
<1>2. ASSUME NEW s \in Schedules, NEW trigger \in Triggers, NEW enabled \in BOOLEAN,
             NEW targets \in SUBSET Devices,
             create_schedule(s, trigger, targets, enabled)
      PROVE  TypeOK'
  <2>1. DbType'
    BY <1>2, NewRowType DEF create_schedule, DbType
  <2> QED
    BY <1>1, <1>2, <2>1, Stable DEF create_schedule, tickVars, loopVars
<1>3. ASSUME NEW s \in Schedules, NEW trigger \in Triggers, NEW enabled \in BOOLEAN,
             NEW targets \in SUBSET Devices,
             NEW fields \in SUBSET {"trigger", "device_ids", "enabled"},
             update_schedule(s, fields, trigger, targets, enabled)
      PROVE  TypeOK'
  <2>1. rows' \in [Schedules -> Row]
    <3> DEFINE trig == IF "trigger" \in fields THEN trigger ELSE rows[s].trigger
               devs == IF "device_ids" \in fields THEN targets ELSE rows[s].devices
               enab == IF "enabled" \in fields THEN enabled ELSE rows[s].enabled
               new == [rows[s] EXCEPT !.trigger = trig, !.devices = devs,
                                      !.enabled = enab]
               next == compute_next_run_at(trigger, settings, now)
    <3>1. rows[s] \in Row
      BY DEF DbType
    <3>2. trig \in Triggers /\ devs \in SUBSET Devices
      BY <3>1 DEF Row
    <3>3. enab \in BOOLEAN
      BY <3>1 DEF Row
    <3>4. new \in Row
      <4> HIDE DEF trig, devs, enab
      <4> QED BY <3>1, <3>2, <3>3 DEF Row
    <3>5. settings \in SettingsRow /\ now \in Time
      BY DEF ClockType, DbType, Time
    <3>6. next \in OptionalTime
      BY <3>5, ComputedLater DEF OptionalTime
    <3>7. [new EXCEPT !.next_run_at = next] \in Row
      <4> HIDE DEF new, next
      <4> QED BY <3>4, <3>6, RowWith
    <3>8. rows' = [rows EXCEPT ![s] = IF "trigger" \in fields
                                      THEN [new EXCEPT !.next_run_at = next] ELSE new]
      BY <1>3, <3>1 DEF update_schedule, Row
    <3> HIDE DEF new, next
    <3> QED
      BY <3>4, <3>7, <3>8 DEF DbType
  <2>2. DbType'
    BY <1>3, <2>1 DEF update_schedule, DbType
  <2>3. Edit /\ UNCHANGED <<faults, auxVars>>
    BY <1>3 DEF update_schedule
  <2> QED
    BY <1>1, <1>3, <2>2, <2>3, Stable DEF update_schedule, tickVars, loopVars
<1>4. ASSUME NEW s \in Schedules, delete_schedule(s) PROVE TypeOK'
  <2>1. DbType'
    BY <1>4, BlankTypes DEF delete_schedule, DbType
  <2> QED
    BY <1>1, <1>4, <2>1, Stable DEF delete_schedule, tickVars, loopVars
<1>5. ASSUME NEW d \in Devices, delete_device(d) PROVE TypeOK'
  <2>1. \A s \in Schedules : [rows[s] EXCEPT !.devices = @ \ {d}] \in Row
    BY DEF DbType, Row
  <2>2. DbType'
    BY <1>5, <2>1 DEF delete_device, DbType
  <2> QED
    BY <1>1, <1>5, <2>2, Stable DEF delete_device, tickVars, loopVars
<1>6. ASSUME NEW new \in SettingsRow, update_settings(new) PROVE TypeOK'
  <2>1. DbType'
    BY <1>6 DEF update_settings, DbType
  <2> QED
    BY <1>1, <1>6, <2>1, Stable DEF update_settings, tickVars, loopVars
<1> QED
  BY <1>2, <1>3, <1>4, <1>5, <1>6 DEF Request

LEMMA TypeProcess == TypeOK /\ (Crash \/ Restart \/ Tock) => TypeOK'
<1> SUFFICES ASSUME TypeOK, Crash \/ Restart \/ Tock PROVE TypeOK'
  OBVIOUS
<1> USE DEF TypeOK
<1>1. CASE Crash
  <2>1. ClockType'
    BY <1>1, Zenon DEF Crash, ClockType
  <2>2. CountType'
    BY <1>1 DEF Crash, CountType
  <2>3. ManualType'
    BY <1>1, BlankTypes DEF Crash, ResetManual, ManualType
  <2> QED
    BY <1>1, <2>1, <2>2, <2>3, ResetTypes, Stable DEF Crash
<1>2. CASE Restart
  <2>1. ClockType'
    BY <1>2, Zenon DEF Restart, ClockType
  <2> QED
    BY <1>2, <2>1, Stable DEF Restart, tickVars, loopVars
<1>3. CASE Tock
  <2>1. now' \in Time
    BY <1>3 DEF Tock, ClockType, Time
  <2>2. up' \in BOOLEAN /\ polled' \in BOOLEAN
    BY <1>3, Zenon DEF Tock, ClockType
  <2>3. ClockType'
    BY <2>1, <2>2 DEF ClockType
  <2> QED
    BY <1>3, <2>3, Stable DEF Tock, tickVars, loopVars
<1> QED
  BY <1>1, <1>2, <1>3

LEMMA TypeStep == TypeOK /\ [Next]_vars => TypeOK'
<1> SUFFICES ASSUME TypeOK, [Next]_vars PROVE TypeOK'
  OBVIOUS
<1>1. CASE UNCHANGED vars
  BY <1>1, Stable DEF vars, tickVars, loopVars, TypeOK
<1> QED
  BY <1>1, TypeTick, TypeRunNow, TypeRequest, TypeProcess DEF Next

\* Every variable keeps its type: in particular a session never stages anything
\* for a schedule that is not due, no id is both live and deleted, and the
\* counters that bound the model are never exceeded.
THEOREM TypeCorrect == Spec => []TypeOK
BY TypeInit, TypeStep, PTL DEF Spec

----------------------------------------------------------------------------
(* Late commands                                                           *)

\* A tick runs only while the process does, is not older than it may get, and
\* fires only what it did not have to skip.
InTime ==
    /\ tickPc # "idle" => up /\ now - tickNow \in 0..MaxTickSpan
    /\ tickPc = "firing" => ~Skips(current)

LEMMA InTimeInit == Init => InTime
BY DEF Init, InTime

\* Steps that leave the tick and the clock alone.
LEMMA InTimeKept == InTime /\ UNCHANGED <<up, now, tickVars>> => InTime'
BY DEF InTime, tickVars, loopVars, fireVars, Skips, _is_stale

LEMMA InTimeTick == TypeOK /\ InTime /\ Tick => InTime'
<1> SUFFICES ASSUME TypeOK, InTime, Tick PROVE InTime'
  OBVIOUS
<1>0. now \in Nat /\ tickNow \in Nat
  BY DEF TypeOK, ClockType, LoopType, Time
<1>1. CASE TickStart
  <2>1. up' /\ tickNow' = now' /\ tickPc' = "selecting" /\ now' = now
    BY <1>1 DEF TickStart, InTime
  <2> QED
    BY <1>0, <2>1 DEF InTime
<1>2. ASSUME tickPc # "idle", tickPc' = "looping", UNCHANGED <<clockVars, tickNow>>
      PROVE  InTime'
  BY <1>2 DEF InTime, clockVars
<1>3. CASE TickSelect \/ TickFired \/ \E s \in Schedules : TickSkip(s)
  BY <1>2, <1>3 DEF TickSelect, TickFired, TickSkip
<1>4. ASSUME NEW s \in Schedules, TickFire(s) PROVE InTime'
  <2>1. tickPc = "looping" /\ ~Skips(s) /\ current' = s /\ UNCHANGED <<clockVars, loopVars>>
    BY <1>4 DEF TickFire
  <2>2. ~Skips(current)'
    BY <2>1 DEF Skips, _is_stale, loopVars
  <2> QED
    BY <2>1, <2>2 DEF InTime, clockVars, loopVars
<1>5. ASSUME NEW d \in Devices, NEW o \in Outcomes, TickPost(d, o) PROVE InTime'
  BY <1>5 DEF TickPost, InTime, Skips, _is_stale, clockVars, loopVars
<1>6. CASE ResetTick
  BY <1>6 DEF ResetTick, InTime
<1> QED
  BY <1>1, <1>3, <1>4, <1>5, <1>6
     DEF Tick, TickCommit, TickCommitFails, TickZoneUnknown, TickGarbled

LEMMA InTimeStep == TypeOK /\ InTime /\ [Next]_vars => InTime'
<1> SUFFICES ASSUME TypeOK, InTime, [Next]_vars PROVE InTime'
  OBVIOUS
<1>0. now \in Nat /\ tickNow \in Nat
  BY DEF TypeOK, ClockType, LoopType, Time
<1>1. CASE Crash
  BY <1>1 DEF Crash, ResetTick, InTime
<1>2. CASE Restart
  BY <1>2 DEF Restart, InTime, tickVars
<1>3. CASE Tock
  <2>1. tickPc # "idle" => up /\ now - tickNow < MaxTickSpan
    BY <1>3 DEF Tock, InTime
  <2>2. now' = now + 1 /\ up' = up /\ UNCHANGED tickVars
    BY <1>3 DEF Tock
  <2>3. UNCHANGED <<tickPc, tickNow>> /\ Skips(current)' = Skips(current)
    BY <2>2 DEF tickVars, loopVars, fireVars, Skips, _is_stale
  <2> QED
    BY <1>0, <2>1, <2>2, <2>3 DEF InTime
<1>4. CASE UNCHANGED vars
  BY <1>4, InTimeKept DEF vars, clockVars
<1>5. CASE RunNow
  BY <1>5, InTimeKept DEF RunNow, ManualStart, ManualPost, ManualGarbled, ManualCommit, clockVars
<1>6. CASE Request
  <2>1. ASSUME NEW s, NEW trigger, NEW targets, NEW enabled,
               create_schedule(s, trigger, targets, enabled)
        PROVE  UNCHANGED <<clockVars, tickVars>>
    BY <2>1 DEF create_schedule
  <2>2. ASSUME NEW s, NEW fields, NEW trigger, NEW targets, NEW enabled,
               update_schedule(s, fields, trigger, targets, enabled)
        PROVE  UNCHANGED <<clockVars, tickVars>>
    BY <2>2 DEF update_schedule
  <2>3. ASSUME NEW x, delete_schedule(x) \/ delete_device(x) \/ update_settings(x)
        PROVE  UNCHANGED <<clockVars, tickVars>>
    BY <2>3 DEF delete_schedule, delete_device, update_settings
  <2>4. UNCHANGED <<clockVars, tickVars>>
    BY <1>6, <2>1, <2>2, <2>3, Zenon DEF Request
  <2> QED
    BY <2>4, InTimeKept DEF clockVars
<1> QED
  BY <1>1, <1>2, <1>3, <1>4, <1>5, <1>6, InTimeTick DEF Next

\* Only the running tick posts, and what it posts belongs to the occurrence it
\* selected.
LEMMA DeliveredByTick ==
    ASSUME TypeOK, [Next]_vars, NEW x \in Schedules \X Devices \X Time,
           delivered'[x] # delivered[x]
    PROVE  tickPc = "firing" /\ x[3] = loaded[current].next_run_at
<1>1. delivered' # delivered
  OBVIOUS
<1>2. \E d \in Devices : TickGarbled(d) \/ \E o \in Outcomes : TickPost(d, o)
  <2>1. RunNow \/ Crash \/ Restart \/ Tock \/ UNCHANGED vars => delivered' = delivered
    BY DEF RunNow, ManualStart, ManualPost, ManualGarbled, ManualCommit, Crash, Restart,
           Tock, vars, auxVars
  <2>2. Request => delivered' = delivered
    <3>1. ASSUME NEW s, NEW trigger, NEW targets, NEW enabled,
                 create_schedule(s, trigger, targets, enabled)
          PROVE  delivered' = delivered
      BY <3>1 DEF create_schedule, auxVars
    <3>2. ASSUME NEW s, NEW fields, NEW trigger, NEW targets, NEW enabled,
                 update_schedule(s, fields, trigger, targets, enabled)
          PROVE  delivered' = delivered
      BY <3>2 DEF update_schedule, auxVars
    <3>3. ASSUME NEW y, delete_schedule(y) \/ delete_device(y) \/ update_settings(y)
          PROVE  delivered' = delivered
      BY <3>3 DEF delete_schedule, delete_device, update_settings, auxVars
    <3> QED
      BY <3>1, <3>2, <3>3, Zenon DEF Request
  <2>3. TickStart \/ TickSelect \/ TickFired \/ TickCommit \/ TickCommitFails
           => delivered' = delivered
    BY DEF TickStart, TickSelect, TickFired, TickCommit, TickCommitFails, auxVars
  <2>4. ASSUME NEW s \in Schedules, TickSkip(s) \/ TickFire(s) \/ TickZoneUnknown(s)
        PROVE  delivered' = delivered
    BY <2>4 DEF TickSkip, TickFire, TickZoneUnknown, auxVars
  <2> QED
    BY <1>1, <2>1, <2>2, <2>3, <2>4 DEF Next, Tick
<1>3. PICK d \in Devices : TickGarbled(d) \/ \E o \in Outcomes : TickPost(d, o)
  BY <1>2
<1> DEFINE y == <<current, d, loaded[current].next_run_at>>
<1>4. tickPc = "firing" /\ \/ delivered' = delivered
                           \/ delivered' = [delivered EXCEPT ![y] = @ + 1]
  BY <1>3 DEF TickGarbled, TickPost
<1>5. x = y
  <2> HIDE DEF y
  <2> QED
    BY <1>1, <1>4 DEF TypeOK, CountType
<1> QED
  BY <1>4, <1>5

\* With catch_up_missed off, the loop commands no device later than the stale
\* threshold plus the length of a tick, however long the backend was down.
THEOREM OnlyCatchUpIsLate == Spec => LateOnlyWithCatchUp
<1>1. ASSUME TypeOK, InTime, [Next]_vars, NEW x \in Schedules \X Devices \X Time,
             delivered'[x] # delivered[x], now - x[3] > STALE_MULTIPLIER + MaxTickSpan
      PROVE  tickSettings.catch_up_missed
  <2>1. tickPc = "firing" /\ x[3] = loaded[current].next_run_at
    BY <1>1, DeliveredByTick
  <2>2. ~Skips(current) /\ now - tickNow <= MaxTickSpan
    BY <1>1, <2>1 DEF InTime
  <2>3. now \in Nat /\ tickNow \in Nat /\ x[3] \in Nat
    BY <1>1 DEF TypeOK, ClockType, LoopType, Time
  <2>4. tickNow - x[3] > STALE_MULTIPLIER
    BY <1>1, <2>2, <2>3
  <2> QED
    BY <2>1, <2>2, <2>4 DEF Skips, _is_stale
<1>2. TypeOK /\ InTime /\ [Next]_vars =>
        [\A x \in Schedules \X Devices \X Time :
            (delivered'[x] # delivered[x] /\ now - x[3] > STALE_MULTIPLIER + MaxTickSpan)
                => tickSettings.catch_up_missed]_vars
  BY <1>1
<1>3. Spec => [](TypeOK /\ InTime)
  BY TypeInit, TypeStep, InTimeInit, InTimeStep, PTL DEF Spec
<1> QED
  BY <1>2, <1>3, PTL DEF Spec, LateOnlyWithCatchUp

----------------------------------------------------------------------------
(* next_run_at and the log                                                 *)

\* What one step may do to next_run_at of one schedule.
Accounted(s) ==
    \/ rows'[s].next_run_at = rows[s].next_run_at
    \/ edits' = edits + 1
    \/ Len(executions'[s]) = Len(executions[s]) + 1

LEMMA AccountedStep ==
    ASSUME TypeOK, [Next]_vars, NEW s \in Schedules
    PROVE  Accounted(s)
<1>0. /\ rows \in [Schedules -> Row] /\ executions \in [Schedules -> Seq(Execution)]
      /\ staged \in [Schedules -> StagedWrite]
  BY DEF TypeOK, DbType, LoopType
<1>1. CASE UNCHANGED rows
  BY <1>1 DEF Accounted
<1>2. CASE edits' = edits + 1
  BY <1>2 DEF Accounted
<1>3. CASE TickCommit
  <2>1. CASE s \in handled
    <3>1. executions'[s] = Append(executions[s], staged[s].execution)
      BY <1>3, <2>1 DEF TickCommit, Logged
    <3>2. executions[s] \in Seq(Execution) /\ staged[s].execution \in Execution
      BY <1>0 DEF StagedWrite
    <3> QED
      BY <3>1, <3>2, AppendProperties DEF Accounted
  <2>2. CASE s \notin handled
    BY <1>3, <2>2 DEF TickCommit, Accounted
  <2> QED
    BY <2>1, <2>2
<1>4. CASE ManualCommit
  <2>1. CASE manualSchedule \in live
    <3> DEFINE last == IF LastRun(manualResults) = NULL THEN rows[manualSchedule].last_run_at
                       ELSE LastRun(manualResults)
    <3>1. manualSchedule \in Schedules
      BY <1>4 DEF ManualCommit, TypeOK, ManualType
    <3>2. rows' = [rows EXCEPT ![manualSchedule] =
                      [rows[manualSchedule] EXCEPT !.last_run_at = last]]
      BY <1>0, <1>4, <2>1, <3>1 DEF ManualCommit
    <3> HIDE DEF last
    <3>3. rows[s] \in Row /\ rows[manualSchedule] \in Row
      BY <1>0, <3>1
    <3> QED
      BY <1>0, <3>1, <3>2, <3>3 DEF Accounted, Row
  <2>2. CASE manualSchedule \notin live
    BY <1>1, <1>4, <2>2 DEF ManualCommit
  <2> QED
    BY <2>1, <2>2
<1>5. Tick /\ ~TickCommit => UNCHANGED rows
  BY DEF Tick, TickStart, TickSelect, TickFired, TickCommitFails, TickSkip, TickFire,
         TickZoneUnknown, TickGarbled, TickPost, dbVars
<1>6. (RunNow /\ ~ManualCommit) \/ Crash \/ Restart \/ Tock \/ UNCHANGED vars => UNCHANGED rows
  BY DEF RunNow, ManualStart, ManualPost, ManualGarbled, Crash, Restart, Tock, vars, dbVars
<1>7. Request => edits' = edits + 1
  <2>1. ASSUME NEW t, NEW trigger, NEW targets, NEW enabled,
               create_schedule(t, trigger, targets, enabled)
        PROVE  edits' = edits + 1
    BY <2>1 DEF create_schedule, Edit
  <2>2. ASSUME NEW t, NEW fields, NEW trigger, NEW targets, NEW enabled,
               update_schedule(t, fields, trigger, targets, enabled)
        PROVE  edits' = edits + 1
    BY <2>2 DEF update_schedule, Edit
  <2>3. ASSUME NEW y, delete_schedule(y) \/ delete_device(y) \/ update_settings(y)
        PROVE  edits' = edits + 1
    BY <2>3 DEF delete_schedule, delete_device, update_settings, Edit
  <2> QED
    BY <2>1, <2>2, <2>3, Zenon DEF Request
<1> QED
  BY <1>1, <1>2, <1>3, <1>4, <1>5, <1>6, <1>7 DEF Next

\* next_run_at never leaves an occurrence without a trace: a client asked for
\* it, or the same commit adds an entry to the log.
THEOREM NothingMovesSilently == Spec => MovesWithLog
<1>1. ASSUME TypeOK, [Next]_vars, NEW s \in live \cap live',
             rows'[s].next_run_at # rows[s].next_run_at
      PROVE  edits' = edits + 1 \/ Len(executions'[s]) = Len(executions[s]) + 1
  <2>1. s \in Schedules
    BY <1>1 DEF TypeOK, DbType
  <2> QED
    BY <1>1, <2>1, AccountedStep DEF Accounted
<1>2. TypeOK /\ [Next]_vars =>
        [\A s \in live \cap live' :
            rows'[s].next_run_at # rows[s].next_run_at
                => edits' = edits + 1 \/ Len(executions'[s]) = Len(executions[s]) + 1]_vars
  BY <1>1
<1> QED
  BY <1>2, TypeCorrect, PTL DEF Spec, MovesWithLog

----------------------------------------------------------------------------
(* last_run_at and the log                                                 *)

Reached(s) == \E i \in DOMAIN executions[s] : AnySuccess(executions[s][i].results)

\* The tick and run-now write last_run_at and the log from sessions of their
\* own, so each must carry both, and a deleted schedule keeps neither.
LastRunInv ==
    /\ \A s \in Schedules : (rows[s].last_run_at # NULL) <=> Reached(s)
    /\ \A s \in Schedules \ live : rows[s].last_run_at = NULL
    /\ \A s \in handled :
          (staged[s].last_run_at # NULL) <=> AnySuccess(staged[s].execution.results)

LEMMA LastRunInit == Init => LastRunInv
BY DEF Init, LastRunInv, Reached, NewRow, BlankRow

LEMMA AppendReached ==
    ASSUME NEW log \in Seq(Execution), NEW e \in Execution
    PROVE  (\E i \in DOMAIN Append(log, e) : AnySuccess(Append(log, e)[i].results))
              <=> (\E i \in DOMAIN log : AnySuccess(log[i].results)) \/ AnySuccess(e.results)
<1>1. /\ DOMAIN log = 1..Len(log) /\ DOMAIN Append(log, e) = 1..(Len(log) + 1)
      /\ Len(log) \in Nat
      /\ \A i \in 1..Len(log) : Append(log, e)[i] = log[i]
      /\ Append(log, e)[Len(log) + 1] = e
  BY AppendProperties, LenProperties
<1>2. \A i \in 1..(Len(log) + 1) : i \in 1..Len(log) \/ i = Len(log) + 1
  BY <1>1
<1>3. Len(log) + 1 \in 1..(Len(log) + 1) /\ 1..Len(log) \subseteq 1..(Len(log) + 1)
  BY <1>1
<1> HIDE DEF AnySuccess
<1> QED
  BY <1>1, <1>2, <1>3, Zenon

\* The same, of the log of one schedule across a step.
LEMMA AppendedReached ==
    ASSUME NEW s, NEW e \in Execution,
           executions[s] \in Seq(Execution), executions'[s] = Append(executions[s], e)
    PROVE  Reached(s)' <=> Reached(s) \/ AnySuccess(e.results)
<1>1. (\E i \in DOMAIN Append(executions[s], e) :
            AnySuccess(Append(executions[s], e)[i].results))
         <=> (\E i \in DOMAIN executions[s] : AnySuccess(executions[s][i].results))
             \/ AnySuccess(e.results)
  BY AppendReached
<1>2. Reached(s)' <=> \E i \in DOMAIN Append(executions[s], e) :
                         AnySuccess(Append(executions[s], e)[i].results)
  BY Zenon DEF Reached, AnySuccess
<1> QED
  BY <1>1, <1>2 DEF Reached

LEMMA LastRunValue ==
    ASSUME TypeOK, NEW res
    PROVE  (LastRun(res) # NULL) <=> AnySuccess(res)
BY DEF LastRun, TypeOK, ClockType, Time

\* Steps that change neither rows, logs nor what is staged.
LEMMA LastRunKept ==
    LastRunInv /\ UNCHANGED <<live, rows, executions>> /\ (UNCHANGED <<handled, staged>> \/ handled' = {})
        => LastRunInv'
BY DEF LastRunInv, Reached, AnySuccess

LEMMA LastRunStage ==
    ASSUME TypeOK, LastRunInv, NEW s \in Schedules, NEW kind, NEW res, NEW lastRun,
           Stage(s, kind, res, lastRun), (lastRun # NULL) <=> AnySuccess(res),
           UNCHANGED dbVars
    PROVE  LastRunInv'
<1>1. /\ handled' = handled \cup {s} /\ handled \subseteq Schedules
      /\ staged'[s].last_run_at = lastRun /\ staged'[s].execution.results = res
      /\ \A t \in handled \ {s} : staged'[t] = staged[t]
  BY DEF Stage, TypeOK, LoopType
<1>2. UNCHANGED <<live, rows, executions>>
  BY DEF dbVars
<1>3. \A t \in handled' : (staged'[t].last_run_at # NULL) <=> AnySuccess(staged'[t].execution.results)
  BY <1>1 DEF LastRunInv
<1> QED
  BY <1>2, <1>3 DEF LastRunInv, Reached, AnySuccess

LEMMA LastRunCommit == TypeOK /\ LastRunInv /\ TickCommit => LastRunInv'
<1> SUFFICES ASSUME TypeOK, LastRunInv, TickCommit PROVE LastRunInv'
  OBVIOUS
<1>0. /\ rows \in [Schedules -> Row] /\ executions \in [Schedules -> Seq(Execution)]
      /\ staged \in [Schedules -> StagedWrite]
      /\ handled \subseteq live /\ live' = live /\ handled' = {}
  BY DEF TypeOK, DbType, LoopType, TickCommit, ResetTick
<1>1. ASSUME NEW s \in handled, s \in Schedules
      PROVE  (rows'[s].last_run_at # NULL) <=> Reached(s)'
  <2>1. executions'[s] = Append(executions[s], staged[s].execution)
    BY <1>1 DEF TickCommit, Logged
  <2>2. rows'[s].last_run_at = IF staged[s].last_run_at = NULL THEN rows[s].last_run_at
                               ELSE staged[s].last_run_at
    BY <1>0, <1>1 DEF TickCommit, Written, Row
  <2>3. executions[s] \in Seq(Execution) /\ staged[s].execution \in Execution
    BY <1>0, <1>1 DEF StagedWrite
  <2>4. Reached(s)' <=> Reached(s) \/ AnySuccess(staged[s].execution.results)
    BY <2>1, <2>3, AppendedReached
  <2> QED
    BY <1>1, <2>2, <2>4 DEF LastRunInv
<1>2. ASSUME NEW s \in Schedules \ handled PROVE rows'[s] = rows[s] /\ executions'[s] = executions[s]
  BY <1>2 DEF TickCommit, Logged
<1>3. \A s \in Schedules \ handled : (rows'[s].last_run_at # NULL) <=> Reached(s)'
  BY <1>2 DEF LastRunInv, Reached, AnySuccess
<1>4. \A s \in Schedules : (rows'[s].last_run_at # NULL) <=> Reached(s)'
  BY <1>1, <1>3
<1>5. \A s \in Schedules \ live' : rows'[s].last_run_at = NULL
  BY <1>0, <1>2 DEF LastRunInv
<1> QED
  BY <1>0, <1>4, <1>5 DEF LastRunInv

LEMMA LastRunManual == TypeOK /\ LastRunInv /\ ManualCommit => LastRunInv'
<1> SUFFICES ASSUME TypeOK, LastRunInv, ManualCommit PROVE LastRunInv'
  OBVIOUS
<1>0. rows \in [Schedules -> Row] /\ executions \in [Schedules -> Seq(Execution)]
  BY DEF TypeOK, DbType
<1>u. UNCHANGED <<live, handled, staged>>
  BY DEF ManualCommit, tickVars, loopVars
<1>1. CASE manualSchedule \notin live
  BY <1>1, <1>u, LastRunKept DEF ManualCommit
<1>2. CASE manualSchedule \in live
  <2>0. PICK m : m = manualSchedule
    OBVIOUS
  <2> DEFINE e == [kind |-> "manual", results |-> manualResults,
                   occurrence |-> NULL, stuck |-> FALSE]
             last == IF LastRun(manualResults) = NULL THEN rows[m].last_run_at
                     ELSE LastRun(manualResults)
  <2>1. m \in Schedules /\ e \in Execution /\ e.results = manualResults
    BY <2>0 DEF ManualCommit, TypeOK, ManualType, Execution, OptionalTime
  <2>2. /\ executions' = [executions EXCEPT ![m] = Append(@, e)]
        /\ rows' = [rows EXCEPT ![m] = [rows[m] EXCEPT !.last_run_at = last]]
    BY <1>0, <1>2, <2>0, <2>1 DEF ManualCommit
  <2>3. rows'[m].last_run_at = last
    BY <1>0, <2>1, <2>2 DEF Row
  <2> HIDE DEF e
  <2>4. executions'[m] = Append(executions[m], e) /\ executions[m] \in Seq(Execution)
    BY <1>0, <2>1, <2>2
  <2>5. Reached(m)' <=> Reached(m) \/ AnySuccess(manualResults)
    BY <2>1, <2>4, AppendedReached
  <2>6. (rows'[m].last_run_at # NULL) <=> Reached(m)'
    BY <2>1, <2>3, <2>5, LastRunValue DEF LastRunInv
  <2>7. \A s \in Schedules \ {m} : rows'[s] = rows[s] /\ executions'[s] = executions[s]
    BY <1>0, <2>2
  <2>8. \A s \in Schedules \ {m} : (rows'[s].last_run_at # NULL) <=> Reached(s)'
    BY <2>7 DEF LastRunInv, Reached, AnySuccess
  <2>9. \A s \in Schedules \ live' : rows'[s].last_run_at = NULL
    BY <1>2, <1>u, <2>0, <2>7 DEF LastRunInv
  <2>10. \A s \in handled' :
           (staged'[s].last_run_at # NULL) <=> AnySuccess(staged'[s].execution.results)
    BY <1>u DEF LastRunInv, AnySuccess
  <2> QED
    BY <2>6, <2>8, <2>9, <2>10 DEF LastRunInv
<1> QED
  BY <1>1, <1>2

LEMMA LastRunRequest == TypeOK /\ LastRunInv /\ Request => LastRunInv'
<1> SUFFICES ASSUME TypeOK, LastRunInv, Request PROVE LastRunInv'
  OBVIOUS
<1>0. rows \in [Schedules -> Row] /\ executions \in [Schedules -> Seq(Execution)]
      /\ live \subseteq Schedules
  BY DEF TypeOK, DbType
\* Rows keep last_run_at, or lose it together with the log.
<1>1. ASSUME UNCHANGED <<handled, staged>>,
             \A s \in Schedules :
                \/ rows'[s].last_run_at = rows[s].last_run_at /\ executions'[s] = executions[s]
                \/ rows'[s].last_run_at = NULL /\ executions'[s] = << >>,
             \A s \in Schedules \ live' : s \notin live \/ rows'[s].last_run_at = NULL
      PROVE  LastRunInv'
  <2>1. \A s \in Schedules : (rows'[s].last_run_at # NULL) <=> Reached(s)'
    BY <1>1 DEF LastRunInv, Reached, AnySuccess
  <2>2. \A s \in Schedules \ live' : rows'[s].last_run_at = NULL
    BY <1>1 DEF LastRunInv
  <2> QED
    BY <1>1, <2>1, <2>2 DEF LastRunInv, AnySuccess
<1>2. ASSUME NEW s \in Schedules, NEW trigger \in Triggers, NEW enabled \in BOOLEAN,
             NEW targets \in SUBSET Devices,
             create_schedule(s, trigger, targets, enabled)
      PROVE  LastRunInv'
  <2>1. /\ s \notin live /\ live' = live \cup {s} /\ executions' = executions
        /\ rows' = [rows EXCEPT ![s] = NewRow(trigger, targets, enabled)]
        /\ UNCHANGED <<handled, staged>>
    BY <1>2 DEF create_schedule, tickVars, loopVars
  <2>2. rows[s].last_run_at = NULL /\ rows'[s].last_run_at = NULL
    BY <1>0, <2>1 DEF LastRunInv, NewRow
  <2> QED
    BY <1>0, <1>1, <2>1, <2>2
<1>3. ASSUME NEW s \in Schedules, NEW trigger \in Triggers, NEW enabled \in BOOLEAN,
             NEW targets \in SUBSET Devices,
             NEW fields \in SUBSET {"trigger", "device_ids", "enabled"},
             update_schedule(s, fields, trigger, targets, enabled)
      PROVE  LastRunInv'
  <2>1. /\ live' = live /\ executions' = executions /\ UNCHANGED <<handled, staged>>
        /\ \A t \in Schedules \ {s} : rows'[t] = rows[t]
    BY <1>0, <1>3 DEF update_schedule, tickVars, loopVars
  <2>2. rows'[s].last_run_at = rows[s].last_run_at
    <3>1. rows[s] \in Row
      BY <1>0
    <3>2. CASE "trigger" \in fields
      BY <1>0, <1>3, <3>1, <3>2 DEF update_schedule, Row
    <3>3. CASE "trigger" \notin fields
      BY <1>0, <1>3, <3>1, <3>3 DEF update_schedule, Row
    <3> QED
      BY <3>2, <3>3
  <2> QED
    BY <1>1, <2>1, <2>2
<1>4. ASSUME NEW s \in Schedules, delete_schedule(s) PROVE LastRunInv'
  <2>1. /\ live' = live \ {s} /\ UNCHANGED <<handled, staged>>
        /\ rows' = [rows EXCEPT ![s] = BlankRow]
        /\ executions' = [executions EXCEPT ![s] = << >>]
    BY <1>4 DEF delete_schedule, tickVars, loopVars
  <2>2. BlankRow.last_run_at = NULL
    BY DEF BlankRow
  <2> QED
    BY <1>0, <1>1, <2>1, <2>2
<1>5. ASSUME NEW d \in Devices, delete_device(d) PROVE LastRunInv'
  <2>1. /\ live' = live /\ executions' = executions /\ UNCHANGED <<handled, staged>>
        /\ \A s \in Schedules : rows'[s].last_run_at = rows[s].last_run_at
    BY <1>0, <1>5 DEF delete_device, tickVars, loopVars, Row
  <2> QED
    BY <1>1, <2>1
<1>6. ASSUME NEW new \in SettingsRow, update_settings(new) PROVE LastRunInv'
  BY <1>6, LastRunKept DEF update_settings, tickVars, loopVars
<1> QED
  BY <1>2, <1>3, <1>4, <1>5, <1>6 DEF Request

LEMMA LastRunStep == TypeOK /\ LastRunInv /\ [Next]_vars => LastRunInv'
<1> SUFFICES ASSUME TypeOK, LastRunInv, [Next]_vars PROVE LastRunInv'
  OBVIOUS
<1>1. CASE TickFired
  <2>1. current \in Schedules /\ Stage(current, "fired", results, LastRun(results)) /\ UNCHANGED dbVars
    BY <1>1 DEF TickFired, TypeOK, FireType, LoopType
  <2> QED
    BY <2>1, LastRunValue, LastRunStage
<1>2. ASSUME NEW s \in Schedules, TickSkip(s) PROVE LastRunInv'
  <2> DEFINE res == [d \in Devices |-> IF d \in LinkedDevices(s) THEN "skipped" ELSE "none"]
  <2>1. ~AnySuccess(res)
    BY DEF AnySuccess
  <2>2. Stage(s, "skipped", res, NULL) /\ UNCHANGED dbVars
    BY <1>2 DEF TickSkip
  <2> HIDE DEF res
  <2> QED
    BY <2>1, <2>2, LastRunStage
<1>3. ASSUME UNCHANGED <<dbVars, handled, staged>> PROVE LastRunInv'
  BY <1>3, LastRunKept DEF dbVars
<1>4. ASSUME UNCHANGED dbVars, ResetTick PROVE LastRunInv'
  BY <1>4, LastRunKept DEF dbVars, ResetTick
<1>5. CASE Tick /\ ~TickCommit
  BY <1>1, <1>2, <1>3, <1>4, <1>5
     DEF Tick, TickStart, TickSelect, TickFire, TickPost, TickCommitFails,
         TickZoneUnknown, TickGarbled, loopVars
<1>6. CASE RunNow /\ ~ManualCommit
  BY <1>3, <1>6 DEF RunNow, ManualStart, ManualPost, ManualGarbled, tickVars, loopVars
<1>7. CASE Crash \/ Restart \/ Tock \/ UNCHANGED vars
  BY <1>3, <1>4, <1>7 DEF Crash, Restart, Tock, vars, tickVars, loopVars
<1> QED
  BY <1>5, <1>6, <1>7, LastRunCommit, LastRunManual, LastRunRequest DEF Next

\* last_run_at is set exactly when the history of the schedule has an execution
\* that reached a device, though the tick and run-now write both from sessions
\* that overlap, and any of them may be rolled back.
THEOREM LastRunAgrees == Spec => []LastRunMatchesLog
<1>1. Init => TypeOK /\ LastRunInv
  BY TypeInit, LastRunInit
<1>2. TypeOK /\ LastRunInv /\ [Next]_vars => (TypeOK /\ LastRunInv)'
  BY TypeStep, LastRunStep
<1>3. TypeOK /\ LastRunInv => LastRunMatchesLog
  BY DEF LastRunInv, LastRunMatchesLog, Reached, TypeOK, DbType
<1> QED
  BY <1>1, <1>2, <1>3, PTL DEF Spec

----------------------------------------------------------------------------
(***************************************************************************)
(* The log of every schedule is in order: SettledOnce, NextRunAhead, the   *)
(* refinement of Occurrences and DeliveriesAccountedFor.                   *)
(*                                                                         *)
(* NextRunAhead alone is not inductive.  A tick commits what it computed   *)
(* from rows it read earlier, so LogInv also says what a running tick      *)
(* knows: whatever was selected is past everything the log has settled,    *)
(* and whatever is staged is past the tick's own now, or else belongs to   *)
(* an hour that is shown twice.  Nothing a request handler commits in      *)
(* between can invalidate that.                                            *)
(***************************************************************************)


Advanced(e) == e.occurrence # NULL /\ ~e.stuck

LoggedUpTo(t) ==
    \A s \in Schedules : \A i \in DOMAIN executions[s] :
        executions[s][i].occurrence # NULL => executions[s][i].occurrence <= t

SelectedAhead ==
    \A s \in due \cup handled :
        /\ loaded[s].next_run_at \in 0..tickNow
        /\ \A i \in DOMAIN executions[s] :
              Advanced(executions[s][i]) =>
                 \/ executions[s][i].occurrence < loaded[s].next_run_at
                 \/ loaded[s].next_run_at \in ShownTwice

StagedAhead ==
    \A s \in handled :
        /\ staged[s].execution.occurrence = loaded[s].next_run_at
        /\ ~staged[s].execution.stuck =>
              \/ staged[s].next_run_at = NULL
              \/ staged[s].next_run_at > tickNow
              \/ staged[s].next_run_at \in ShownTwice

LogOrdered == NextRunAhead /\ SettledOnce /\ LoggedUpTo(now)

SessionAhead ==
    /\ tickPc # "idle" => tickNow <= now /\ LoggedUpTo(tickNow)
    /\ tickPc \in {"idle", "selecting"} => due = {} /\ handled = {}
    /\ SelectedAhead /\ StagedAhead

LogInv == LogOrdered /\ SessionAhead

----------------------------------------------------------------------------
LEMMA EntryType ==
    ASSUME TypeOK, NEW s \in Schedules, NEW i \in DOMAIN executions[s]
    PROVE  /\ executions[s][i] \in Execution
           /\ executions[s][i].occurrence \in OptionalTime
<1>1. executions[s] \in Seq(Execution)
  BY DEF TypeOK, DbType
<1>2. executions[s][i] \in Execution
  BY <1>1, ElementOfSeq, LenProperties
<1> QED
  BY <1>2 DEF Execution

\* The entries of a log after one is appended.
LEMMA AppendEntries ==
    ASSUME NEW log \in Seq(Execution), NEW e \in Execution,
           NEW i \in DOMAIN Append(log, e)
    PROVE  \/ i \in DOMAIN log /\ Append(log, e)[i] = log[i]
           \/ i = Len(log) + 1 /\ Append(log, e)[i] = e
BY AppendProperties

LEMMA LogInit == Init => LogInv
<1> SUFFICES ASSUME Init PROVE LogInv
  OBVIOUS
<1>1. \A s \in Schedules : DOMAIN executions[s] = {}
  BY DEF Init
<1>2. due = {} /\ handled = {} /\ tickPc = "idle"
  BY DEF Init
<1>3. LogOrdered
  BY <1>1 DEF LogOrdered, NextRunAhead, SettledOnce, LoggedUpTo
<1>4. SessionAhead
  BY <1>2 DEF SessionAhead, SelectedAhead, StagedAhead
<1> QED
  BY <1>3, <1>4 DEF LogInv

\* A step is quiet for the log if it adds no occurrence to it, and moves
\* next_run_at, if at all, into the future.
QuietStep ==
    /\ now' \in {now, now + 1}
    /\ \A s \in Schedules : \A i \in DOMAIN executions'[s] :
          \/ executions'[s][i].occurrence = NULL
          \/ i \in DOMAIN executions[s] /\ executions'[s][i] = executions[s][i]
    /\ \A s \in Schedules :
          \/ rows'[s].next_run_at = rows[s].next_run_at
          \/ Promise!After(rows'[s].next_run_at, now)

LEMMA QuietLog ==
    ASSUME TypeOK, LogInv, QuietStep
    PROVE  LogOrdered'
<1>1. now \in Nat
  BY DEF TypeOK, ClockType, Time
<1>2. ASSUME NEW s \in Schedules, NEW i \in DOMAIN executions'[s],
             executions'[s][i].occurrence # NULL
      PROVE  /\ i \in DOMAIN executions[s] /\ executions'[s][i] = executions[s][i]
             /\ executions[s][i].occurrence \in Nat
             /\ executions[s][i].occurrence <= now
  BY <1>2, EntryType DEF QuietStep, LogInv, LogOrdered, LoggedUpTo, OptionalTime
<1>3. NextRunAhead'
  BY <1>1, <1>2 DEF QuietStep, Promise!After, LogInv, LogOrdered, NextRunAhead
<1>4. SettledOnce'
  BY <1>2 DEF LogInv, LogOrdered, SettledOnce
<1>5. LoggedUpTo(now)'
  BY <1>1, <1>2 DEF QuietStep, LoggedUpTo
<1> QED
  BY <1>3, <1>4, <1>5 DEF LogOrdered

LEMMA QuietSession ==
    ASSUME TypeOK, LogInv, QuietStep, UNCHANGED loopVars,
           tickPc' = tickPc \/ (tickPc = "looping" /\ tickPc' = "firing")
    PROVE  SessionAhead'
<1>1. now \in Nat /\ tickNow \in Nat
  BY DEF TypeOK, ClockType, LoopType, Time
<1>2. UNCHANGED <<tickNow, due, loaded, handled, staged>>
  BY DEF loopVars
<1>3. ASSUME NEW t \in Nat, LoggedUpTo(t) PROVE LoggedUpTo(t)'
  BY <1>3 DEF QuietStep, LoggedUpTo
<1>4. SelectedAhead'
  <2>1. ASSUME NEW s \in due \cup handled, NEW i \in DOMAIN executions'[s],
               Advanced(executions'[s][i])
        PROVE  \/ executions'[s][i].occurrence < loaded[s].next_run_at
               \/ loaded[s].next_run_at \in ShownTwice
    <3>1. s \in Schedules
      BY DEF TypeOK, LoopType
    <3>2. i \in DOMAIN executions[s] /\ executions'[s][i] = executions[s][i]
      BY <2>1, <3>1 DEF QuietStep, Advanced
    <3> QED
      BY <2>1, <3>2 DEF LogInv, SessionAhead, SelectedAhead
  <2> QED
    BY <1>2, <2>1 DEF LogInv, SessionAhead, SelectedAhead, Advanced
<1>5. StagedAhead'
  BY <1>2 DEF LogInv, SessionAhead, StagedAhead
<1> QED
  BY <1>1, <1>2, <1>3, <1>4, <1>5 DEF LogInv, SessionAhead, QuietStep, LoggedUpTo

LEMMA ResetSession ==
    ASSUME ResetTick
    PROVE  SessionAhead'
BY DEF ResetTick, SessionAhead, SelectedAhead, StagedAhead

----------------------------------------------------------------------------
(* What the steps other than a commit of the tick do to the log and to     *)
(* next_run_at: nothing, or one of these.                                  *)

NextKept(S) == \A s \in S : rows'[s].next_run_at = rows[s].next_run_at

Idles == UNCHANGED <<now, executions>> /\ NextKept(Schedules)

Elapses == now' = now + 1 /\ UNCHANGED executions /\ NextKept(Schedules)

Reschedules ==
    /\ UNCHANGED <<now, executions>>
    /\ \E s \in Schedules :
          Promise!After(rows'[s].next_run_at, now) /\ NextKept(Schedules \ {s})

Forgets ==
    /\ now' = now
    /\ \E s \in Schedules :
          /\ rows'[s].next_run_at = NULL
          /\ executions' = [executions EXCEPT ![s] = << >>]
          /\ NextKept(Schedules \ {s})

LogsRunNow ==
    /\ now' = now /\ NextKept(Schedules)
    /\ \E s \in Schedules, e \in Execution :
          /\ e.occurrence = NULL
          /\ executions' = [executions EXCEPT ![s] = Append(@, e)]

Shape == Idles \/ Elapses \/ Reschedules \/ Forgets \/ LogsRunNow

LEMMA KeptIdles == UNCHANGED <<now, executions, rows>> => Idles
BY DEF Idles, NextKept

LEMMA ShapeTick == Tick => TickCommit \/ Idles
<1> SUFFICES ASSUME Tick, ~TickCommit PROVE UNCHANGED <<now, executions, rows>>
  BY KeptIdles
<1> QED
  BY DEF Tick, TickStart, TickSelect, TickFired, TickCommitFails, TickSkip, TickFire,
         TickZoneUnknown, TickGarbled, TickPost, clockVars, dbVars

LEMMA ShapeProcess == Crash \/ Restart \/ Tock => Idles \/ Elapses
<1>1. Crash \/ Restart => UNCHANGED <<now, executions, rows>>
  BY DEF Crash, Restart, dbVars
<1>2. Tock => Elapses
  BY DEF Tock, Elapses, NextKept, dbVars
<1> QED
  BY <1>1, <1>2, KeptIdles

LEMMA ShapeRunNow == TypeOK /\ RunNow => Idles \/ LogsRunNow
<1> SUFFICES ASSUME TypeOK, RunNow PROVE Idles \/ LogsRunNow
  OBVIOUS
<1>1. CASE ManualCommit /\ manualSchedule \notin live
  BY <1>1, KeptIdles DEF ManualCommit, clockVars
<1>2. CASE ManualCommit /\ manualSchedule \in live
  <2> DEFINE e == [kind |-> "manual", results |-> manualResults,
                   occurrence |-> NULL, stuck |-> FALSE]
  <2>1. manualSchedule \in Schedules /\ e \in Execution
    BY <1>2 DEF ManualCommit, TypeOK, ManualType, Execution, OptionalTime
  <2>2. e.occurrence = NULL
    OBVIOUS
  <2>3. now' = now /\ executions' = [executions EXCEPT ![manualSchedule] = Append(@, e)]
    BY <1>2 DEF ManualCommit, clockVars
  <2>4. NextKept(Schedules)
    <3> DEFINE last == IF LastRun(manualResults) = NULL THEN rows[manualSchedule].last_run_at
                       ELSE LastRun(manualResults)
    <3>1. \A s \in Schedules : rows[s] \in Row /\ rows \in [Schedules -> Row]
      BY DEF TypeOK, DbType
    <3>2. rows' = [rows EXCEPT ![manualSchedule] =
                      [rows[manualSchedule] EXCEPT !.last_run_at = last]]
      BY <1>2, <2>1, <3>1 DEF ManualCommit
    <3> HIDE DEF last
    <3> QED
      BY <2>1, <3>1, <3>2 DEF NextKept, Row
  <2> HIDE DEF e
  <2> QED
    BY <2>1, <2>2, <2>3, <2>4 DEF LogsRunNow
<1>3. ASSUME ~ManualCommit PROVE UNCHANGED <<now, executions, rows>>
  BY <1>3 DEF RunNow, ManualStart, ManualGarbled, ManualPost, clockVars, dbVars
<1> QED
  BY <1>1, <1>2, <1>3, KeptIdles

LEMMA ShapeRequest == TypeOK /\ Request => Idles \/ Reschedules \/ Forgets
<1> SUFFICES ASSUME TypeOK, Request PROVE Idles \/ Reschedules \/ Forgets
  OBVIOUS
<1>1. /\ rows \in [Schedules -> Row] /\ executions \in [Schedules -> Seq(Execution)]
      /\ settings \in SettingsRow /\ now \in Time
  BY DEF TypeOK, DbType, ClockType, Time
<1>2. ASSUME NEW s \in Schedules, NEW trigger \in Triggers, NEW enabled \in BOOLEAN,
             NEW targets \in SUBSET Devices,
             create_schedule(s, trigger, targets, enabled)
      PROVE  Reschedules
  <2>1. Promise!After(rows'[s].next_run_at, now)
    BY <1>1, <1>2, NewRowType DEF create_schedule, Promise!After
  <2> QED
    BY <1>1, <1>2, <2>1 DEF create_schedule, Reschedules, NextKept, clockVars
<1>3. ASSUME NEW s \in Schedules, NEW trigger \in Triggers, NEW enabled \in BOOLEAN,
             NEW targets \in SUBSET Devices,
             NEW fields \in SUBSET {"trigger", "device_ids", "enabled"},
             update_schedule(s, fields, trigger, targets, enabled)
      PROVE  Idles \/ Reschedules
  <2>1. UNCHANGED <<now, executions>> /\ NextKept(Schedules \ {s})
    BY <1>1, <1>3 DEF update_schedule, NextKept, clockVars
  <2>2. rows[s] \in Row
    BY <1>1
  <2>3. CASE "trigger" \in fields
    <3> DEFINE o == compute_next_run_at(trigger, settings, now)
    <3>1. Promise!After(o, now)
      BY <1>1, ComputedLater DEF Promise!After
    <3>2. rows'[s].next_run_at = o
      BY <1>1, <1>3, <2>2, <2>3 DEF update_schedule, Row
    <3> QED
      BY <2>1, <3>1, <3>2 DEF Reschedules
  <2>4. CASE "trigger" \notin fields
    <3>1. rows'[s].next_run_at = rows[s].next_run_at
      BY <1>1, <1>3, <2>2, <2>4 DEF update_schedule, Row
    <3> QED
      BY <2>1, <3>1 DEF Idles, NextKept
  <2> QED
    BY <2>3, <2>4
<1>4. ASSUME NEW s \in Schedules, delete_schedule(s) PROVE Forgets
  BY <1>1, <1>4, BlankTypes DEF delete_schedule, Forgets, NextKept, clockVars
<1>5. ASSUME NEW d \in Devices, delete_device(d) PROVE Idles
  BY <1>1, <1>5 DEF delete_device, Idles, NextKept, Row, clockVars
<1>6. ASSUME NEW new \in SettingsRow, update_settings(new) PROVE Idles
  BY <1>6, KeptIdles DEF update_settings, clockVars
<1> QED
  BY <1>2, <1>3, <1>4, <1>5, <1>6 DEF Request

LEMMA ShapeNext == TypeOK /\ [Next]_vars => TickCommit \/ Shape
<1>1. UNCHANGED vars => Idles
  BY KeptIdles DEF vars, clockVars, dbVars
<1> QED
  BY <1>1, ShapeTick, ShapeRunNow, ShapeRequest, ShapeProcess DEF Next, Shape

LEMMA ShapeQuiet ==
    ASSUME TypeOK, Shape
    PROVE  QuietStep
<1>1. executions \in [Schedules -> Seq(Execution)]
  BY DEF TypeOK, DbType
<1>2. CASE Idles
  BY <1>2 DEF Idles, NextKept, QuietStep
<1>3. CASE Elapses
  BY <1>3 DEF Elapses, NextKept, QuietStep
<1>4. CASE Reschedules
  BY <1>4 DEF Reschedules, NextKept, QuietStep
<1>5. CASE Forgets
  BY <1>1, <1>5 DEF Forgets, NextKept, QuietStep, Promise!After
<1>6. CASE LogsRunNow
  <2>1. PICK s \in Schedules, e \in Execution :
          /\ e.occurrence = NULL
          /\ executions' = [executions EXCEPT ![s] = Append(@, e)]
    BY <1>6 DEF LogsRunNow
  <2>2. ASSUME NEW i \in DOMAIN executions'[s]
        PROVE  \/ executions'[s][i].occurrence = NULL
               \/ i \in DOMAIN executions[s] /\ executions'[s][i] = executions[s][i]
    <3>1. executions[s] \in Seq(Execution) /\ executions'[s] = Append(executions[s], e)
      BY <1>1, <2>1
    <3> QED
      BY <2>1, <3>1, AppendEntries
  <2>3. \A t \in Schedules \ {s} : executions'[t] = executions[t]
    BY <1>1, <2>1
  <2> QED
    BY <1>6, <2>2, <2>3 DEF LogsRunNow, NextKept, QuietStep
<1> QED
  BY <1>2, <1>3, <1>4, <1>5, <1>6 DEF Shape

----------------------------------------------------------------------------
\* Selecting: NextRunAhead is what makes the snapshot ahead of the log.
LEMMA LogSelect == TypeOK /\ LogInv /\ TickSelect => LogInv'
<1> SUFFICES ASSUME TypeOK, LogInv, TickSelect PROVE LogInv'
  OBVIOUS
<1> USE DEF TypeOK, LogInv
<1>1. QuietStep
  BY DEF TickSelect, QuietStep, clockVars, dbVars
<1>2. handled = {} /\ handled' = {} /\ tickNow' = tickNow /\ now' = now
  BY DEF TickSelect, SessionAhead, clockVars
<1>3. ASSUME NEW s \in due'
      PROVE  /\ s \in Schedules /\ loaded'[s] = rows[s]
             /\ rows[s].next_run_at \in 0..tickNow
  BY <1>3 DEF TickSelect, IsDue, DbType, Row, OptionalTime, LoopType, Time
<1>4. SelectedAhead'
  <2> SUFFICES ASSUME NEW s \in due', NEW i \in DOMAIN executions[s], Advanced(executions[s][i])
               PROVE  \/ executions[s][i].occurrence < rows[s].next_run_at
                      \/ rows[s].next_run_at \in ShownTwice
    BY <1>2, <1>3 DEF SelectedAhead, TickSelect, dbVars, Advanced
  <2>1. tickNow \in Nat
    BY DEF LoopType, Time
  <2>2. s \in Schedules /\ rows[s].next_run_at \in Nat
    BY <1>3, <2>1
  <2> QED
    BY <2>2 DEF LogOrdered, NextRunAhead, Advanced
<1>5. StagedAhead'
  BY <1>2 DEF StagedAhead
<1>6. tickNow <= now /\ LoggedUpTo(tickNow)'
  BY DEF TickSelect, SessionAhead, LoggedUpTo, dbVars
<1>7. SessionAhead'
  BY <1>2, <1>4, <1>5, <1>6 DEF SessionAhead, TickSelect, LoggedUpTo
<1> QED
  BY <1>1, <1>7, QuietLog

\* Staging: what is staged is past the tick's now or shown twice, because that
\* is what the search answers.
LEMMA LogStage ==
    ASSUME TypeOK, LogInv, tickPc \in {"looping", "firing"}, NEW s \in due,
           NEW kind \in {"fired", "skipped"}, NEW res, NEW lastRun,
           Stage(s, kind, res, lastRun),
           UNCHANGED <<clockVars, dbVars, tickNow, tickSettings, loaded>>,
           tickPc' = "looping"
    PROVE  LogInv'
<1> USE DEF TypeOK, LogInv
<1> DEFINE next == compute_next_run_at(loaded[s].trigger, tickSettings, tickNow)
<1>1. QuietStep
  BY DEF QuietStep, clockVars, dbVars
<1>2. UNCHANGED <<now, executions>>
  BY DEF clockVars, dbVars
<1>3. next = NULL \/ (next \in Nat /\ (next > tickNow \/ next \in ShownTwice))
  BY ComputedLater DEF LoopType, Row, Time
<1>4. due' \cup handled' = due \cup handled /\ handled' = handled \cup {s}
  BY DEF Stage
<1>5. SelectedAhead'
  BY <1>2, <1>4 DEF SessionAhead, SelectedAhead, Advanced
<1>6. \A t \in handled \ {s} : staged'[t] = staged[t]
  BY DEF Stage, LoopType
<1>7. /\ staged'[s].execution.occurrence = loaded[s].next_run_at
      /\ ~staged'[s].execution.stuck => staged'[s].next_run_at = next
  BY DEF Stage, LoopType
<1>8. StagedAhead'
  <2> HIDE DEF next
  <2> QED BY <1>3, <1>4, <1>6, <1>7 DEF SessionAhead, StagedAhead
<1>9. tickNow <= now /\ LoggedUpTo(tickNow)'
  BY <1>2 DEF SessionAhead, LoggedUpTo
<1>10. SessionAhead'
  BY <1>2, <1>5, <1>8, <1>9 DEF SessionAhead, LoggedUpTo
<1> QED
  BY <1>1, <1>10, QuietLog

\* Committing: an entry that is added is later than every entry it could
\* repeat, and next_run_at is moved past all of them.
LEMMA LogCommit == TypeOK /\ LogInv /\ TickCommit => LogInv'
<1> SUFFICES ASSUME TypeOK, LogInv, TickCommit PROVE LogInv'
  OBVIOUS
<1>1. now' = now /\ tickPc = "looping" /\ ResetTick
  BY DEF TickCommit, clockVars
<1>2. /\ now \in Nat /\ tickNow \in Nat /\ tickNow <= now
      /\ LoggedUpTo(tickNow)
  BY <1>1 DEF TypeOK, ClockType, LoopType, Time, LogInv, SessionAhead
<1>3. ASSUME NEW s \in Schedules
      PROVE  /\ executions[s] \in Seq(Execution)
             /\ staged[s] \in StagedWrite /\ staged[s].execution \in Execution
             /\ staged[s].next_run_at \in OptionalTime
             /\ rows[s].next_run_at \in OptionalTime
  BY DEF TypeOK, DbType, LoopType, StagedWrite, Row
<1>4. ASSUME NEW s \in Schedules \ handled
      PROVE  executions'[s] = executions[s] /\ rows'[s] = rows[s]
  BY DEF TickCommit, Logged
<1>5. ASSUME NEW s \in handled
      PROVE  /\ s \in Schedules
             /\ executions'[s] = Append(executions[s], staged[s].execution)
             /\ rows'[s].next_run_at =
                   IF staged[s].execution.stuck THEN rows[s].next_run_at
                   ELSE staged[s].next_run_at
             /\ staged[s].execution.occurrence \in 0..tickNow
             /\ \A i \in DOMAIN executions[s] :
                   Advanced(executions[s][i]) =>
                      \/ executions[s][i].occurrence < staged[s].execution.occurrence
                      \/ staged[s].execution.occurrence \in ShownTwice
             /\ ~staged[s].execution.stuck =>
                   \/ staged[s].next_run_at = NULL
                   \/ staged[s].next_run_at > tickNow
                   \/ staged[s].next_run_at \in ShownTwice
  <2>1. s \in Schedules
    BY DEF TypeOK, LoopType
  <2>2. rows[s] \in Row
    BY <2>1 DEF TypeOK, DbType
  <2>3. rows'[s] = Written(s) /\ executions'[s] = Append(executions[s], staged[s].execution)
    BY <2>1 DEF TickCommit, Logged
  <2>4. Written(s).next_run_at = IF staged[s].execution.stuck THEN rows[s].next_run_at
                                 ELSE staged[s].next_run_at
    BY <2>2 DEF Written, Row
  <2> QED
    BY <2>1, <2>3, <2>4 DEF LogInv, SessionAhead, SelectedAhead, StagedAhead
<1>6. ASSUME NEW s \in handled, NEW i \in DOMAIN executions'[s]
      PROVE  \/ i \in DOMAIN executions[s] /\ executions'[s][i] = executions[s][i]
             \/ i = Len(executions[s]) + 1 /\ executions'[s][i] = staged[s].execution
  <2>1. /\ executions[s] \in Seq(Execution) /\ staged[s].execution \in Execution
        /\ i \in DOMAIN Append(executions[s], staged[s].execution)
    BY <1>3, <1>5
  <2>2. \/ /\ i \in DOMAIN executions[s]
           /\ Append(executions[s], staged[s].execution)[i] = executions[s][i]
        \/ /\ i = Len(executions[s]) + 1
           /\ Append(executions[s], staged[s].execution)[i] = staged[s].execution
    BY <2>1, AppendEntries
  <2> QED
    BY <1>5, <2>2
<1>7. NextRunAhead'
  <2> SUFFICES ASSUME NEW s \in Schedules, NEW i \in DOMAIN executions'[s],
                      Advanced(executions'[s][i])
               PROVE  \/ rows'[s].next_run_at = NULL
                      \/ rows'[s].next_run_at > executions'[s][i].occurrence
                      \/ rows'[s].next_run_at \in ShownTwice
    BY DEF NextRunAhead, Advanced
  <2>1. CASE s \notin handled
    BY <1>4, <2>1 DEF LogInv, LogOrdered, NextRunAhead, Advanced
  <2>2. CASE s \in handled /\ staged[s].execution.stuck
    <3>1. i \in DOMAIN executions[s] /\ executions'[s][i] = executions[s][i]
      BY <1>6, <2>2 DEF Advanced
    <3> QED
      BY <1>5, <2>2, <3>1 DEF LogInv, LogOrdered, NextRunAhead, Advanced
  <2>3. CASE s \in handled /\ ~staged[s].execution.stuck
    <3>1. \/ rows'[s].next_run_at = NULL
          \/ rows'[s].next_run_at > tickNow
          \/ rows'[s].next_run_at \in ShownTwice
      BY <1>5, <2>3
    <3>2. executions'[s][i].occurrence <= tickNow
      BY <1>2, <1>5, <1>6, <2>3 DEF LoggedUpTo, Advanced
    <3>3. executions'[s][i].occurrence \in Nat
      <4>1. CASE executions'[s][i] = staged[s].execution
        BY <1>2, <1>5, <2>3, <4>1
      <4>2. CASE i \in DOMAIN executions[s] /\ executions'[s][i] = executions[s][i]
        BY <4>2, EntryType DEF OptionalTime, Advanced
      <4> QED
        BY <1>6, <2>3, <4>1, <4>2
    <3>4. rows'[s].next_run_at \in OptionalTime
      BY <1>3, <1>5, <2>3
    <3> QED
      BY <1>2, <3>1, <3>2, <3>3, <3>4 DEF OptionalTime
  <2> QED
    BY <2>1, <2>2, <2>3
<1>8. SettledOnce'
  <2> SUFFICES ASSUME NEW s \in Schedules,
                      NEW i \in DOMAIN executions'[s], NEW j \in DOMAIN executions'[s],
                      i < j, executions'[s][i].occurrence # NULL,
                      executions'[s][i].occurrence = executions'[s][j].occurrence
               PROVE  executions'[s][i].stuck \/ executions'[s][i].occurrence \in ShownTwice
    BY DEF SettledOnce
  <2>1. CASE s \notin handled
    BY <1>4, <2>1 DEF LogInv, LogOrdered, SettledOnce
  <2>2. CASE s \in handled
    <3>1. DOMAIN executions[s] = 1..Len(executions[s]) /\ Len(executions[s]) \in Nat
      BY <1>3, <1>5, <2>2, LenProperties
    <3>2. i \in DOMAIN executions[s] /\ executions'[s][i] = executions[s][i]
      <4>1. DOMAIN executions'[s] = 1..(Len(executions[s]) + 1)
        BY <1>3, <1>5, <2>2, AppendProperties, LenProperties
      <4> QED
        BY <1>6, <2>2, <3>1, <4>1
    <3>3. CASE j \in DOMAIN executions[s] /\ executions'[s][j] = executions[s][j]
      BY <3>2, <3>3 DEF LogInv, LogOrdered, SettledOnce
    <3>4. CASE executions'[s][j] = staged[s].execution
      <4>1. executions[s][i].occurrence = staged[s].execution.occurrence
        BY <3>2, <3>4
      <4>2. staged[s].execution.occurrence \in Nat
        BY <1>2, <1>5, <2>2
      <4>3. ~Advanced(executions[s][i]) \/ staged[s].execution.occurrence \in ShownTwice
        BY <1>5, <2>2, <3>2, <4>1, <4>2
      <4> QED
        BY <3>2, <4>1, <4>3 DEF Advanced
    <3> QED
      BY <1>6, <2>2, <3>3, <3>4
  <2> QED
    BY <2>1, <2>2
<1>9. LoggedUpTo(now)'
  <2> SUFFICES ASSUME NEW s \in Schedules, NEW i \in DOMAIN executions'[s],
                      executions'[s][i].occurrence # NULL
               PROVE  executions'[s][i].occurrence <= now
    BY <1>1 DEF LoggedUpTo
  <2>1. CASE s \notin handled
    BY <1>4, <2>1 DEF LogInv, LogOrdered, LoggedUpTo
  <2>2. CASE s \in handled
    BY <1>2, <1>5, <1>6, <2>2 DEF LogInv, LogOrdered, LoggedUpTo
  <2> QED
    BY <2>1, <2>2
<1> QED
  BY <1>1, <1>7, <1>8, <1>9, ResetSession DEF LogInv, LogOrdered

----------------------------------------------------------------------------
LEMMA SessionTick == TypeOK /\ LogInv /\ Tick /\ ~TickCommit => SessionAhead'
<1> SUFFICES ASSUME TypeOK, LogInv, Tick, ~TickCommit PROVE SessionAhead'
  OBVIOUS
<1>1. QuietStep
  BY ShapeTick, ShapeQuiet DEF Shape
<1>2. CASE TickStart
  <2>1. due' = {} /\ handled' = {} /\ tickNow' = now /\ now' = now /\ tickPc' = "selecting"
    BY <1>2 DEF TickStart, LogInv, SessionAhead
  <2>2. LoggedUpTo(now)'
    BY <1>1, QuietLog DEF LogOrdered
  <2>3. now \in Nat
    BY DEF TypeOK, ClockType, Time
  <2> QED
    BY <2>1, <2>2, <2>3 DEF SessionAhead, SelectedAhead, StagedAhead, LoggedUpTo
<1>3. CASE TickSelect
  BY <1>3, LogSelect DEF LogInv
<1>4. CASE TickFired
  <2>1. /\ tickPc = "firing" /\ tickPc' = "looping" /\ current \in due
        /\ Stage(current, "fired", results, LastRun(results))
        /\ UNCHANGED <<clockVars, dbVars, tickNow, tickSettings, loaded>>
    BY <1>4 DEF TickFired, TypeOK, FireType
  <2> QED
    BY <2>1, LogStage DEF LogInv
<1>5. ASSUME NEW s \in Schedules, TickSkip(s) PROVE SessionAhead'
  <2> DEFINE res == [d \in Devices |-> IF d \in LinkedDevices(s) THEN "skipped" ELSE "none"]
  <2>1. /\ tickPc = "looping" /\ tickPc' = "looping" /\ s \in due
        /\ Stage(s, "skipped", res, NULL)
        /\ UNCHANGED <<clockVars, dbVars, tickNow, tickSettings, loaded>>
    BY <1>5 DEF TickSkip, IsNext
  <2> HIDE DEF res
  <2> QED
    BY <2>1, LogStage DEF LogInv
<1>6. ASSUME NEW s \in Schedules, TickFire(s) PROVE SessionAhead'
  BY <1>1, <1>6, QuietSession DEF TickFire
<1>7. ASSUME NEW d \in Devices, NEW o \in Outcomes, TickPost(d, o) PROVE SessionAhead'
  BY <1>1, <1>7, QuietSession DEF TickPost
<1>8. CASE ResetTick
  BY <1>8, ResetSession
<1> QED
  BY <1>2, <1>3, <1>4, <1>5, <1>6, <1>7, <1>8
     DEF Tick, TickCommitFails, TickZoneUnknown, TickGarbled

LEMMA SessionOthers ==
    ASSUME TypeOK, LogInv, RunNow \/ Request \/ Crash \/ Restart \/ Tock \/ UNCHANGED vars
    PROVE  SessionAhead'
<1>1. QuietStep
  BY ShapeRunNow, ShapeRequest, ShapeProcess, ShapeQuiet, KeptIdles
     DEF Shape, vars, clockVars, dbVars
<1>2. CASE Crash
  BY <1>2, ResetSession DEF Crash
<1>3. CASE UNCHANGED tickVars
  BY <1>1, <1>3, QuietSession DEF tickVars
<1>4. RunNow => UNCHANGED tickVars
  BY DEF RunNow, ManualStart, ManualPost, ManualGarbled, ManualCommit
<1>5. Request => UNCHANGED tickVars
  <2>1. ASSUME NEW s, NEW trigger, NEW targets, NEW enabled,
               create_schedule(s, trigger, targets, enabled)
        PROVE  UNCHANGED tickVars
    BY <2>1 DEF create_schedule
  <2>2. ASSUME NEW s, NEW fields, NEW trigger, NEW targets, NEW enabled,
               update_schedule(s, fields, trigger, targets, enabled)
        PROVE  UNCHANGED tickVars
    BY <2>2 DEF update_schedule
  <2>3. ASSUME NEW x, delete_schedule(x) \/ delete_device(x) \/ update_settings(x)
        PROVE  UNCHANGED tickVars
    BY <2>3 DEF delete_schedule, delete_device, update_settings
  <2> QED
    BY <2>1, <2>2, <2>3, Zenon DEF Request
<1>6. Restart \/ Tock \/ UNCHANGED vars => UNCHANGED tickVars
  BY DEF Restart, Tock, vars
<1> QED
  BY <1>2, <1>3, <1>4, <1>5, <1>6

LEMMA LogStep == TypeOK /\ LogInv /\ [Next]_vars => LogInv'
<1> SUFFICES ASSUME TypeOK, LogInv, [Next]_vars PROVE LogInv'
  OBVIOUS
<1>1. CASE TickCommit
  BY <1>1, LogCommit
<1>2. CASE ~TickCommit
  <2>1. LogOrdered'
    BY <1>2, ShapeNext, ShapeQuiet, QuietLog
  <2>2. SessionAhead'
    BY <1>2, SessionTick, SessionOthers DEF Next
  <2> QED
    BY <2>1, <2>2 DEF LogInv
<1> QED
  BY <1>1, <1>2

\* The log of a schedule is in order at every moment, and a running tick only
\* works on occurrences that are past it or shown twice.
THEOREM LogInOrder == Spec => []LogInv
<1>1. Init => TypeOK /\ LogInv
  BY TypeInit, LogInit
<1>2. TypeOK /\ LogInv /\ [Next]_vars => (TypeOK /\ LogInv)'
  BY TypeStep, LogStep
<1> QED
  BY <1>1, <1>2, PTL DEF Spec

\* No occurrence is logged twice, whatever crashes, rollbacks, edits and
\* run-nows come in between, except one that the tick could not advance past for
\* want of a location, and those of an hour that the clock shows twice.
THEOREM SettledAtMostOnce == Spec => []SettledOnce
<1>1. LogInv => SettledOnce
  BY DEF LogInv, LogOrdered
<1> QED
  BY <1>1, LogInOrder, PTL

\* next_run_at is past every settled occurrence, though ticks write it from
\* rows and settings they read before other transactions changed them; it goes
\* back only to an hour that the clock shows twice.
THEOREM NextRunStaysAhead == Spec => []NextRunAhead
<1>1. LogInv => NextRunAhead
  BY DEF LogInv, LogOrdered
<1> QED
  BY <1>1, LogInOrder, PTL

----------------------------------------------------------------------------
(* Scheduler implements Occurrences: every step of the detailed module     *)
(* maps to a step of the abstract one, or to none.                         *)

next == [s \in Schedules |-> rows[s].next_run_at]
settled == [s \in Schedules |-> Settled(s)]

LEMMA SettledKept ==
    ASSUME NEW s \in Schedules, executions'[s] = executions[s]
    PROVE  Settled(s)' = Settled(s)
BY DEF Settled

\* Appending an entry that settles nothing leaves the settled set alone.
LEMMA SettledQuiet ==
    ASSUME TypeOK, NEW s \in Schedules, NEW e \in Execution,
           e.occurrence = NULL \/ e.stuck,
           executions'[s] = Append(executions[s], e)
    PROVE  Settled(s)' = Settled(s)
<1>1. executions[s] \in Seq(Execution)
  BY DEF TypeOK, DbType
<1>2. /\ Len(executions[s]) \in Nat
      /\ DOMAIN executions[s] = 1..Len(executions[s])
      /\ DOMAIN executions'[s] = 1..(Len(executions[s]) + 1)
      /\ \A i \in DOMAIN executions[s] : executions'[s][i] = executions[s][i]
      /\ executions'[s][Len(executions[s]) + 1] = e
  BY <1>1, AppendProperties, LenProperties
<1>3. {j \in DOMAIN executions'[s] : Advanced(executions'[s][j])}
        = {j \in DOMAIN executions[s] : Advanced(executions[s][j])}
  BY <1>2 DEF Advanced
<1> QED
  BY <1>2, <1>3 DEF Settled, Advanced

\* Appending one that was advanced past adds its occurrence.
LEMMA SettledGrows ==
    ASSUME TypeOK, NEW s \in Schedules, NEW e \in Execution, Advanced(e),
           executions'[s] = Append(executions[s], e)
    PROVE  Settled(s)' = Settled(s) \cup {e.occurrence}
<1>1. executions[s] \in Seq(Execution)
  BY DEF TypeOK, DbType
<1>2. /\ Len(executions[s]) \in Nat
      /\ DOMAIN executions[s] = 1..Len(executions[s])
      /\ DOMAIN executions'[s] = 1..(Len(executions[s]) + 1)
      /\ \A i \in DOMAIN executions[s] : executions'[s][i] = executions[s][i]
      /\ executions'[s][Len(executions[s]) + 1] = e
  BY <1>1, AppendProperties, LenProperties
<1>3. {j \in DOMAIN executions'[s] : Advanced(executions'[s][j])}
        = {j \in DOMAIN executions[s] : Advanced(executions[s][j])}
            \cup {Len(executions[s]) + 1}
  BY <1>2 DEF Advanced
<1> QED
  BY <1>2, <1>3 DEF Settled, Advanced

----------------------------------------------------------------------------
LEMMA PromiseInit == Init => Promise!Init
<1> SUFFICES ASSUME Init PROVE Promise!Init
  OBVIOUS
<1>1. settings \in SettingsRow /\ now = 0 /\ now \in Time
  BY DEF Init, Time
<1>2. PICK ids \in SUBSET Schedules :
        InitialSchedules \in
            [ids -> [trigger : Triggers, devices : SUBSET Devices, enabled : BOOLEAN]]
  OBVIOUS
<1>3. ASSUME NEW s \in Schedules PROVE Promise!After(next[s], now)
  <2>1. CASE s \in ids
    BY <1>1, <1>2, <2>1, ComputedLater DEF Init, next, NewRow, Promise!After
  <2>2. CASE s \notin ids
    BY <1>2, <2>2, BlankTypes DEF Init, next, Promise!After
  <2> QED
    BY <2>1, <2>2
<1>4. \A s \in Schedules : Settled(s) = {}
  BY DEF Init, Settled
<1> QED
  BY <1>1, <1>3, <1>4 DEF Promise!Init, next

\* A commit of the tick settles the occurrences it had selected.
LEMMA PromiseCommit == TypeOK /\ LogInv /\ TickCommit => Promise!Settle
<1> SUFFICES ASSUME TypeOK, LogInv, TickCommit PROVE Promise!Settle
  OBVIOUS
<1>1. now' = now
  BY DEF TickCommit, clockVars
<1>2. ASSUME NEW s \in Schedules, s \notin handled
      PROVE  Settled(s)' = Settled(s) /\ rows'[s].next_run_at = rows[s].next_run_at
  BY <1>2, SettledKept DEF TickCommit, Logged
<1>3. ASSUME NEW s \in handled
      PROVE  \/ Settled(s)' = Settled(s) /\ rows'[s].next_run_at = rows[s].next_run_at
             \/ \E o \in Settled(s)' :
                   /\ o \in 0..now
                   /\ (\A p \in Settled(s) : p < o) \/ o \in ShownTwice
                   /\ Settled(s)' = Settled(s) \cup {o}
                   /\ Promise!After(rows'[s].next_run_at, o)
  <2> DEFINE e == staged[s].execution
  <2>1. /\ s \in Schedules /\ rows[s] \in Row /\ e \in Execution
        /\ staged[s].next_run_at \in OptionalTime
    BY DEF TypeOK, DbType, LoopType, StagedWrite
  <2>2. /\ executions'[s] = Append(executions[s], e)
        /\ rows'[s] = Written(s)
    BY <2>1 DEF TickCommit, Logged
  <2>3. rows'[s].next_run_at = IF e.stuck THEN rows[s].next_run_at ELSE staged[s].next_run_at
    BY <2>1, <2>2 DEF Written, Row
  <2>4. CASE e.stuck
    <3>1. Settled(s)' = Settled(s)
      BY <2>1, <2>2, <2>4, SettledQuiet
    <3> QED
      BY <2>3, <2>4, <3>1
  <2>5. CASE ~e.stuck
    <3>1. /\ tickNow \in Nat /\ now \in Nat /\ tickNow <= now
          /\ e.occurrence = loaded[s].next_run_at /\ e.occurrence \in 0..tickNow
          /\ \/ staged[s].next_run_at = NULL
             \/ staged[s].next_run_at > tickNow
             \/ staged[s].next_run_at \in ShownTwice
      BY <2>5 DEF TickCommit, LogInv, SessionAhead, SelectedAhead, StagedAhead,
                  TypeOK, ClockType, LoopType, Time
    <3>2. Settled(s)' = Settled(s) \cup {e.occurrence}
      <4>1. Advanced(e)
        BY <2>5, <3>1 DEF Advanced
      <4> QED
        BY <2>1, <2>2, <4>1, SettledGrows
    <3>3. (\A p \in Settled(s) : p < e.occurrence) \/ e.occurrence \in ShownTwice
      BY <3>1 DEF LogInv, SessionAhead, SelectedAhead, Settled, Advanced
    <3>4. Promise!After(rows'[s].next_run_at, e.occurrence)
      BY <2>1, <2>3, <2>5, <3>1 DEF Promise!After, OptionalTime
    <3> QED
      BY <3>1, <3>2, <3>3, <3>4
  <2> QED
    BY <2>4, <2>5
<1> QED
  BY <1>1, <1>2, <1>3 DEF Promise!Settle

LEMMA PromiseShape == TypeOK /\ Shape => [Promise!Next]_(Promise!vars)
<1> SUFFICES ASSUME TypeOK, Shape PROVE [Promise!Next]_(Promise!vars)
  OBVIOUS
<1>1. executions \in [Schedules -> Seq(Execution)]
  BY DEF TypeOK, DbType
<1>2. ASSUME UNCHANGED executions PROVE \A s \in Schedules : Settled(s)' = Settled(s)
  BY <1>2, SettledKept
<1>3. CASE Idles
  BY <1>2, <1>3 DEF Idles, NextKept, Promise!vars
<1>4. CASE Elapses
  BY <1>2, <1>4 DEF Elapses, NextKept, Promise!Next, Promise!Elapse
<1>5. CASE Reschedules
  BY <1>2, <1>5 DEF Reschedules, NextKept, Promise!Next, Promise!Reschedule
<1>6. CASE Forgets
  <2>1. PICK s \in Schedules :
          /\ rows'[s].next_run_at = NULL
          /\ executions' = [executions EXCEPT ![s] = << >>]
          /\ NextKept(Schedules \ {s})
    BY <1>6 DEF Forgets
  <2>2. Settled(s)' = {}
    BY <1>1, <2>1 DEF Settled
  <2>3. \A t \in Schedules \ {s} : Settled(t)' = Settled(t)
    BY <1>1, <2>1, SettledKept
  <2>4. settled' = [settled EXCEPT ![s] = {}]
    BY <2>2, <2>3 DEF settled
  <2>5. Promise!Forget
    BY <1>6, <2>1, <2>4 DEF Forgets, NextKept, Promise!Forget, settled
  <2> QED
    BY <2>5 DEF Promise!Next
<1>7. CASE LogsRunNow
  <2>1. PICK s \in Schedules, e \in Execution :
          /\ e.occurrence = NULL
          /\ executions' = [executions EXCEPT ![s] = Append(@, e)]
    BY <1>7 DEF LogsRunNow
  <2>2. Settled(s)' = Settled(s)
    BY <1>1, <2>1, SettledQuiet
  <2>3. \A t \in Schedules \ {s} : Settled(t)' = Settled(t)
    BY <1>1, <2>1, SettledKept
  <2> QED
    BY <1>7, <2>2, <2>3 DEF LogsRunNow, NextKept, Promise!vars
<1> QED
  BY <1>3, <1>4, <1>5, <1>6, <1>7 DEF Shape

\* The scheduler keeps its promise: occurrences are settled in increasing order,
\* at most once and never early, and clients only ever move the next one into
\* the future, but for the hour the clock shows twice, for any interleaving of
\* the tick with requests and crashes.
THEOREM Refinement == Spec => KeepsPromise
<1>1. Init => Promise!Init
  BY PromiseInit
<1>2. TypeOK /\ LogInv /\ [Next]_vars => [Promise!Next]_(Promise!vars)
  BY ShapeNext, PromiseShape, PromiseCommit DEF Promise!Next
<1> QED
  BY <1>1, <1>2, TypeCorrect, LogInOrder, PTL DEF Spec, KeepsPromise, Promise!Spec

----------------------------------------------------------------------------
(* Every command a device acted on is accounted for.                       *)

\* What is selected is not handled yet, nothing is fired outside a fire, a
\* tick only works on rows that exist or did, and no command was ever sent for
\* an id that has had no row.
SessionApart ==
    /\ due \cap handled = {}
    /\ current # NULL => tickPc = "firing"
    /\ due \cup handled \subseteq live \cup retired
    /\ \A s \in Schedules \ (live \cup retired), d \in Devices, o \in Time :
          delivered[<<s, d, o>>] = 0

DeliverInv == SessionApart /\ DeliveriesAccountedFor

Repeats(log, o) == {i \in DOMAIN log : log[i].occurrence = o}

\* How often an occurrence is in a log, before and after an entry is appended.
LEMMA CountAppend ==
    ASSUME NEW log \in Seq(Execution), NEW o, NEW e \in Execution
    PROVE  Cardinality(Repeats(Append(log, e), o)) =
              IF e.occurrence = o THEN Cardinality(Repeats(log, o)) + 1
              ELSE Cardinality(Repeats(log, o))
<1>1. DOMAIN log = 1..Len(log) /\ Len(log) \in Nat
  BY LenProperties
<1>2. IsFiniteSet(Repeats(log, o)) /\ Len(log) + 1 \notin Repeats(log, o)
  <2>1. IsFiniteSet(1..Len(log)) /\ Len(log) + 1 \notin 1..Len(log)
    BY <1>1, FS_Interval
  <2>2. Repeats(log, o) \subseteq 1..Len(log)
    BY <1>1 DEF Repeats
  <2> QED
    BY <2>1, <2>2, FS_Subset
<1>3. /\ DOMAIN Append(log, e) = 1..(Len(log) + 1)
      /\ \A i \in 1..Len(log) : Append(log, e)[i] = log[i]
      /\ Append(log, e)[Len(log) + 1] = e
  BY <1>1, AppendProperties, LenProperties
<1>4. CASE e.occurrence = o
  <2>1. \A i \in 1..Len(log) :
           i \in Repeats(Append(log, e), o) <=> i \in Repeats(log, o)
    BY <1>1, <1>3 DEF Repeats
  <2>2. Len(log) + 1 \in Repeats(Append(log, e), o)
    BY <1>1, <1>3, <1>4 DEF Repeats
  <2>3. /\ Repeats(Append(log, e), o) \subseteq 1..(Len(log) + 1)
        /\ Repeats(log, o) \subseteq 1..Len(log)
    BY <1>1, <1>3 DEF Repeats
  <2>4. Repeats(Append(log, e), o) = Repeats(log, o) \cup {Len(log) + 1}
    BY <1>1, <2>1, <2>2, <2>3
  <2>5. Cardinality(Repeats(log, o) \cup {Len(log) + 1}) = Cardinality(Repeats(log, o)) + 1
    <3> HIDE DEF Repeats
    <3> QED
      BY <1>2, FS_AddElement, Zenon
  <2> QED
    BY <1>4, <2>4, <2>5, Zenon
<1>5. CASE e.occurrence # o
  <2>1. Repeats(Append(log, e), o) = Repeats(log, o)
    BY <1>1, <1>3, <1>5 DEF Repeats
  <2> QED
    BY <1>5, <2>1
<1> QED
  BY <1>4, <1>5

LEMMA RepeatsCounted ==
    ASSUME NEW log \in Seq(Execution), NEW o
    PROVE  Cardinality(Repeats(log, o)) \in Nat
<1>1. DOMAIN log = 1..Len(log) /\ Len(log) \in Nat
  BY LenProperties
<1>2. IsFiniteSet(1..Len(log)) /\ Repeats(log, o) \subseteq 1..Len(log)
  BY <1>1, FS_Interval DEF Repeats
<1> QED
  BY <1>2, FS_Subset, FS_CardinalityType

LEMMA LogCountType ==
    ASSUME TypeOK, NEW s \in Schedules, NEW o
    PROVE  LogCount(s, o) \in Nat
<1>1. executions[s] \in Seq(Execution)
  BY DEF TypeOK, DbType
<1> QED
  BY <1>1, RepeatsCounted DEF LogCount, Repeats

LEMMA LogCountAppend ==
    ASSUME TypeOK, NEW s \in Schedules, NEW o, NEW e \in Execution,
           executions'[s] = Append(executions[s], e)
    PROVE  LogCount(s, o)' = IF e.occurrence = o THEN LogCount(s, o) + 1
                             ELSE LogCount(s, o)
<1>1. executions[s] \in Seq(Execution)
  BY DEF TypeOK, DbType
<1>2. LogCount(s, o) = Cardinality(Repeats(executions[s], o))
  BY DEF LogCount, Repeats
<1>3. LogCount(s, o)' = Cardinality(Repeats(Append(executions[s], e), o))
  BY DEF LogCount, Repeats
<1> QED
  BY <1>1, <1>2, <1>3, CountAppend

\* Steps on which no device acts: the books stay balanced if the log of no row
\* shrinks and what was in flight still is, unless a session is counted as lost.
LEMMA QuietDelivery ==
    ASSUME TypeOK, TypeOK', DeliverInv, delivered' = delivered,
           lost' = lost \/ lost' = lost + 1,
           live' \cap retired = {},
           \A s \in live \cap live' : \A o \in Time : LogCount(s, o)' >= LogCount(s, o),
           \A s \in live, d \in Devices, o \in Time :
              InFlight(s, d, o) => InFlight(s, d, o)' \/ lost' = lost + 1
    PROVE  DeliveriesAccountedFor'
<1>1. SUFFICES ASSUME NEW s \in live', NEW d \in Devices, NEW o \in Time
      PROVE  delivered[<<s, d, o>>]
               <= LogCount(s, o)' + lost' + IF InFlight(s, d, o)' THEN 1 ELSE 0
  BY Zenon DEF DeliveriesAccountedFor
<1>2. lost \in Nat /\ lost' \in Nat /\ s \in Schedules
  BY DEF TypeOK, DbType, CountType
<1>3. LogCount(s, o)' \in Nat
  <2>1. executions'[s] \in Seq(Execution)
    BY <1>2 DEF TypeOK, DbType
  <2> QED
    BY <2>1, RepeatsCounted DEF LogCount, Repeats
<1>4. CASE s \in live
  <2>1. LogCount(s, o) \in Nat /\ delivered[<<s, d, o>>] \in Nat
    BY <1>2, LogCountType DEF TypeOK, CountType
  <2>2. delivered[<<s, d, o>>] <= LogCount(s, o) + lost + IF InFlight(s, d, o) THEN 1 ELSE 0
    BY <1>4 DEF DeliverInv, DeliveriesAccountedFor
  <2>3. LogCount(s, o)' >= LogCount(s, o)
    BY <1>1, <1>4
  <2> QED
    BY <1>2, <1>3, <1>4, <2>1, <2>2, <2>3
<1>5. CASE s \notin live
  <2>1. delivered[<<s, d, o>>] = 0
    BY <1>1, <1>2, <1>5 DEF DeliverInv, SessionApart
  <2> QED
    BY <1>2, <1>3, <2>1
<1> QED
  BY <1>4, <1>5

----------------------------------------------------------------------------
LEMMA DeliverInit == Init => DeliverInv
<1> SUFFICES ASSUME Init PROVE DeliverInv
  OBVIOUS
<1>1. TypeOK
  BY TypeInit
<1>2. \A s \in Schedules, d \in Devices, o \in Time : delivered[<<s, d, o>>] = 0
  BY DEF Init
<1>3. SessionApart
  BY <1>2 DEF Init, SessionApart
<1>4. DeliveriesAccountedFor
  <2> SUFFICES ASSUME NEW s \in live, NEW d \in Devices, NEW o \in Time
               PROVE  delivered[<<s, d, o>>]
                        <= LogCount(s, o) + lost + IF InFlight(s, d, o) THEN 1 ELSE 0
    BY Zenon DEF DeliveriesAccountedFor
  <2>1. s \in Schedules
    BY <1>1 DEF TypeOK, DbType
  <2>2. LogCount(s, o) \in Nat /\ lost \in Nat /\ delivered[<<s, d, o>>] = 0
    BY <1>1, <1>2, <2>1, LogCountType DEF TypeOK, CountType
  <2> QED
    BY <2>2
<1> QED
  BY <1>3, <1>4 DEF DeliverInv

\* Steps of anything but the tick: the session is untouched.
LEMMA DeliverOthers ==
    ASSUME TypeOK, TypeOK', DeliverInv,
           UNCHANGED <<tickVars, delivered, lost>>,
           retired \subseteq retired', live \subseteq live' \cup retired',
           \A s \in live \cap live' : \A o \in Time : LogCount(s, o)' >= LogCount(s, o)
    PROVE  DeliverInv'
<1>1. SessionApart'
  BY DEF DeliverInv, SessionApart, tickVars, loopVars, fireVars
<1>2. \A s \in live, d \in Devices, o \in Time : InFlight(s, d, o)' = InFlight(s, d, o)
  BY DEF InFlight, tickVars, loopVars, fireVars
<1>3. live' \cap retired = {}
  BY DEF TypeOK, DbType
<1>4. DeliveriesAccountedFor'
  BY <1>2, <1>3, QuietDelivery
<1> QED
  BY <1>1, <1>4 DEF DeliverInv

LEMMA LogCountKept ==
    ASSUME TypeOK, NEW s \in Schedules, executions'[s] = executions[s]
    PROVE  \A o : LogCount(s, o)' >= LogCount(s, o)
<1> SUFFICES ASSUME NEW o PROVE LogCount(s, o)' >= LogCount(s, o)
  OBVIOUS
<1>1. LogCount(s, o)' = LogCount(s, o)
  BY DEF LogCount
<1>2. LogCount(s, o) \in Nat
  BY LogCountType
<1> QED
  BY <1>1, <1>2

LEMMA DeliverRunNow == TypeOK /\ TypeOK' /\ DeliverInv /\ RunNow => DeliverInv'
<1> SUFFICES ASSUME TypeOK, TypeOK', DeliverInv, RunNow PROVE DeliverInv'
  OBVIOUS
<1>1. UNCHANGED <<tickVars, delivered, lost, live, retired>>
  BY DEF RunNow, ManualStart, ManualPost, ManualGarbled, ManualCommit, dbVars, auxVars
<1>2. ASSUME NEW s \in Schedules, NEW o \in Time PROVE LogCount(s, o)' >= LogCount(s, o)
  <2>1. CASE Idles
    BY <2>1, LogCountKept DEF Idles
  <2>2. CASE LogsRunNow
    <3>1. PICK t \in Schedules, e \in Execution :
            executions' = [executions EXCEPT ![t] = Append(@, e)]
      BY <2>2 DEF LogsRunNow
    <3>2. executions \in [Schedules -> Seq(Execution)]
      BY DEF TypeOK, DbType
    <3>3. CASE s # t
      BY <3>1, <3>2, <3>3, LogCountKept
    <3>4. CASE s = t
      <4>1. LogCount(s, o)' \in {LogCount(s, o), LogCount(s, o) + 1}
        BY <3>1, <3>2, <3>4, LogCountAppend
      <4> QED
        BY <4>1, LogCountType
    <3> QED
      BY <3>3, <3>4
  <2> QED
    BY <2>1, <2>2, ShapeRunNow
<1>3. live \subseteq Schedules
  BY DEF TypeOK, DbType
<1> QED
  BY <1>1, <1>2, <1>3, DeliverOthers

LEMMA DeliverRequest == TypeOK /\ TypeOK' /\ DeliverInv /\ Request => DeliverInv'
<1> SUFFICES ASSUME TypeOK, TypeOK', DeliverInv, Request PROVE DeliverInv'
  OBVIOUS
<1>1. /\ UNCHANGED <<tickVars, delivered, lost>>
      /\ retired \subseteq retired' /\ live \subseteq live' \cup retired'
      /\ \A s \in live \cap live' : executions'[s] = executions[s]
  <2>1. ASSUME NEW s, NEW trigger, NEW targets, NEW enabled,
               create_schedule(s, trigger, targets, enabled)
        PROVE  <1>1!:
    BY <2>1 DEF create_schedule, auxVars
  <2>2. ASSUME NEW s, NEW fields, NEW trigger, NEW targets, NEW enabled,
               update_schedule(s, fields, trigger, targets, enabled)
        PROVE  <1>1!:
    BY <2>2 DEF update_schedule, auxVars
  <2>3. ASSUME NEW s \in Schedules, delete_schedule(s) PROVE <1>1!:
    BY <2>3 DEF delete_schedule, auxVars, TypeOK, DbType
  <2>4. ASSUME NEW x, delete_device(x) \/ update_settings(x) PROVE <1>1!:
    BY <2>4 DEF delete_device, update_settings, auxVars
  <2> QED
    BY <2>1, <2>2, <2>3, <2>4, Zenon DEF Request
<1>2. live \subseteq Schedules
  BY DEF TypeOK, DbType
<1> QED
  BY <1>1, <1>2, LogCountKept, DeliverOthers

----------------------------------------------------------------------------
\* The device acts: one more delivery of an occurrence that was not in flight.
LEMMA DeliverPost ==
    ASSUME TypeOK, DeliverInv, NEW d \in Devices, NEW outcome \in Outcomes,
           TickPost(d, outcome)
    PROVE  DeliverInv'
<1> DEFINE at == loaded[current].next_run_at
<1>1. /\ tickPc = "firing" /\ current \in due /\ current \in Schedules /\ current # NULL
      /\ current \notin handled /\ d \in pending /\ at \in Time
  BY IdAssumption DEF TickPost, TypeOK, FireType, LoopType, DeliverInv, SessionApart
<1>2. /\ UNCHANGED <<live, retired, executions, lost, due, handled, loaded, current, tickPc>>
      /\ pending' = pending \ {d}
      /\ \/ delivered' = delivered
         \/ delivered' = [delivered EXCEPT ![<<current, d, at>>] = @ + 1]
  BY DEF TickPost, dbVars, loopVars
<1>3. delivered \in [Schedules \X Devices \X Time -> Nat] /\ lost \in Nat
  BY DEF TypeOK, CountType
<1>4. SessionApart'
  <2> SUFFICES ASSUME NEW s \in Schedules, s \notin live \cup retired,
                      NEW e \in Devices, NEW o \in Time
               PROVE  delivered'[<<s, e, o>>] = 0
    BY <1>1, <1>2 DEF DeliverInv, SessionApart
  <2>1. s # current
    BY <1>1 DEF DeliverInv, SessionApart
  <2>2. <<s, e, o>> # <<current, d, at>>
    BY <2>1
  <2>3. delivered[<<s, e, o>>] = 0
    BY DEF DeliverInv, SessionApart
  <2> HIDE DEF at
  <2> QED
    BY <1>1, <1>2, <1>3, <2>2, <2>3
<1>5. DeliveriesAccountedFor'
  <2> SUFFICES ASSUME NEW s \in live, NEW e \in Devices, NEW o \in Time
               PROVE  delivered'[<<s, e, o>>]
                        <= LogCount(s, o) + lost + IF InFlight(s, e, o)' THEN 1 ELSE 0
    <3>1. \A s, o : LogCount(s, o)' = LogCount(s, o)
      BY <1>2 DEF LogCount
    <3> QED
      BY <1>2, <3>1 DEF DeliveriesAccountedFor
  <2>1. s \in Schedules /\ LogCount(s, o) \in Nat
    BY LogCountType DEF TypeOK, DbType
  <2>2. delivered[<<s, e, o>>] <= LogCount(s, o) + lost + IF InFlight(s, e, o) THEN 1 ELSE 0
    BY DEF DeliverInv, DeliveriesAccountedFor
  <2>3. <<s, e, o>> \in Schedules \X Devices \X Time /\ delivered[<<s, e, o>>] \in Nat
    BY <1>3, <2>1
  <2>4. InFlight(s, e, o) => InFlight(s, e, o)'
    BY <1>2 DEF InFlight
  <2>5. CASE s = current /\ e = d /\ o = at
    <3>1. ~InFlight(s, e, o) /\ InFlight(s, e, o)'
      BY <1>1, <1>2, <2>5 DEF InFlight
    <3>2. delivered'[<<s, e, o>>] <= delivered[<<s, e, o>>] + 1
      <4> HIDE DEF at
      <4> QED BY <1>2, <1>3, <2>3, <2>5
    <3>3. delivered'[<<s, e, o>>] \in Nat
      <4> HIDE DEF at
      <4> QED BY <1>2, <1>3, <2>3, <2>5
    <3> QED
      BY <1>3, <2>1, <2>2, <2>3, <3>1, <3>2, <3>3
  <2>6. CASE ~(s = current /\ e = d /\ o = at)
    <3>1. delivered'[<<s, e, o>>] = delivered[<<s, e, o>>]
      <4>1. <<s, e, o>> # <<current, d, at>>
        BY <2>6
      <4> HIDE DEF at
      <4> QED BY <1>2, <1>3, <2>3, <4>1
    <3> QED
      BY <1>3, <2>1, <2>2, <2>3, <2>4, <3>1
  <2> QED
    BY <2>5, <2>6
<1> QED
  BY <1>4, <1>5 DEF DeliverInv

\* The session is lost: it counts for everything it had in flight, and for the
\* device that acted on a command and answered with something else than JSON.
LEMMA DeliverLost ==
    ASSUME TypeOK, TypeOK', DeliverInv, ResetTick, UNCHANGED <<dbVars, delivered>>,
           lost' = lost + 1
    PROVE  DeliverInv'
<1>1. UNCHANGED <<live, retired, executions>> /\ live \subseteq Schedules
  BY DEF dbVars, TypeOK, DbType
<1>2. SessionApart'
  BY <1>1 DEF ResetTick, DeliverInv, SessionApart
<1>3. live' \cap retired = {}
  BY <1>1 DEF TypeOK, DbType
<1>4. DeliveriesAccountedFor'
  BY <1>1, <1>3, LogCountKept, QuietDelivery
<1> QED
  BY <1>2, <1>4 DEF DeliverInv

LEMMA DeliverGarbled ==
    ASSUME TypeOK, DeliverInv, NEW d \in Devices, TickGarbled(d)
    PROVE  DeliverInv'
<1> DEFINE at == loaded[current].next_run_at
<1>1. /\ tickPc = "firing" /\ current \in due /\ current \in Schedules
      /\ current \notin handled /\ d \in pending /\ at \in Time
  BY DEF TickGarbled, TypeOK, FireType, LoopType, DeliverInv, SessionApart
<1>2. /\ UNCHANGED <<live, retired, executions>> /\ lost' = lost + 1 /\ ResetTick
      /\ delivered' = [delivered EXCEPT ![<<current, d, at>>] = @ + 1]
  BY DEF TickGarbled, dbVars
<1>3. delivered \in [Schedules \X Devices \X Time -> Nat] /\ lost \in Nat
  BY DEF TypeOK, CountType
<1>4. SessionApart'
  <2> SUFFICES ASSUME NEW s \in Schedules, s \notin live \cup retired,
                      NEW e \in Devices, NEW o \in Time
               PROVE  delivered'[<<s, e, o>>] = 0
    BY <1>1, <1>2 DEF ResetTick, DeliverInv, SessionApart
  <2>1. s # current
    BY <1>1 DEF DeliverInv, SessionApart
  <2>2. <<s, e, o>> # <<current, d, at>>
    BY <2>1
  <2>3. delivered[<<s, e, o>>] = 0
    BY DEF DeliverInv, SessionApart
  <2> HIDE DEF at
  <2> QED
    BY <1>1, <1>2, <1>3, <2>2, <2>3
<1>5. DeliveriesAccountedFor'
  <2> SUFFICES ASSUME NEW s \in live, NEW e \in Devices, NEW o \in Time
               PROVE  delivered'[<<s, e, o>>]
                        <= LogCount(s, o) + (lost + 1) + IF InFlight(s, e, o)' THEN 1 ELSE 0
    <3>1. \A s, o : LogCount(s, o)' = LogCount(s, o)
      BY <1>2 DEF LogCount
    <3> QED
      BY <1>2, <3>1 DEF DeliveriesAccountedFor
  <2>1. s \in Schedules /\ LogCount(s, o) \in Nat
    BY LogCountType DEF TypeOK, DbType
  <2>2. delivered[<<s, e, o>>] <= LogCount(s, o) + lost + IF InFlight(s, e, o) THEN 1 ELSE 0
    BY DEF DeliverInv, DeliveriesAccountedFor
  <2>3. <<s, e, o>> \in Schedules \X Devices \X Time /\ delivered[<<s, e, o>>] \in Nat
    BY <1>3, <2>1
  <2>4. CASE s = current /\ e = d /\ o = at
    <3>1. ~InFlight(s, e, o)
      BY <1>1, <2>4 DEF InFlight
    <3>2. delivered'[<<s, e, o>>] = delivered[<<s, e, o>>] + 1
      <4> HIDE DEF at
      <4> QED BY <1>2, <1>3, <2>3, <2>4
    <3> QED
      BY <1>3, <2>1, <2>2, <2>3, <3>1, <3>2
  <2>5. CASE ~(s = current /\ e = d /\ o = at)
    <3>1. delivered'[<<s, e, o>>] = delivered[<<s, e, o>>]
      <4>1. <<s, e, o>> # <<current, d, at>>
        BY <2>5
      <4> HIDE DEF at
      <4> QED BY <1>2, <1>3, <2>3, <4>1
    <3> QED
      BY <1>3, <2>1, <2>2, <2>3, <3>1
  <2> QED
    BY <2>4, <2>5
<1> QED
  BY <1>4, <1>5 DEF DeliverInv

\* Steps of the tick that post nothing and commit nothing.
LEMMA DeliverSession ==
    ASSUME TypeOK, TypeOK', DeliverInv,
           UNCHANGED <<live, retired, executions, delivered, lost>>,
           due' \cap handled' = {}, current' # NULL => tickPc' = "firing",
           due' \cup handled' \subseteq live \cup retired,
           \A s \in live, d \in Devices, o \in Time :
              InFlight(s, d, o) => InFlight(s, d, o)'
    PROVE  DeliverInv'
<1>1. SessionApart'
  BY DEF DeliverInv, SessionApart
<1>2. live \subseteq Schedules /\ live' \cap retired = {}
  BY DEF TypeOK, DbType
<1>3. DeliveriesAccountedFor'
  BY <1>2, LogCountKept, QuietDelivery
<1> QED
  BY <1>1, <1>3 DEF DeliverInv

\* Committing: what was in flight is now in the log.
LEMMA DeliverCommit ==
    ASSUME TypeOK, TypeOK', LogInv, DeliverInv, TickCommit
    PROVE  DeliverInv'
<1>1. /\ UNCHANGED <<live, retired, delivered, lost>> /\ ResetTick /\ handled \subseteq live
      /\ tickPc = "looping"
  BY DEF TickCommit, auxVars
<1>2. current = NULL /\ live \subseteq Schedules
  BY <1>1 DEF DeliverInv, SessionApart, TypeOK, DbType
<1>3. SessionApart'
  BY <1>1 DEF ResetTick, DeliverInv, SessionApart
<1>4. DeliveriesAccountedFor'
  <2> SUFFICES ASSUME NEW s \in live, NEW d \in Devices, NEW o \in Time
               PROVE  delivered[<<s, d, o>>]
                        <= LogCount(s, o)' + lost + IF InFlight(s, d, o)' THEN 1 ELSE 0
    BY <1>1 DEF DeliveriesAccountedFor
  <2>1. /\ s \in Schedules /\ LogCount(s, o) \in Nat /\ lost \in Nat
        /\ delivered[<<s, d, o>>] \in Nat
    BY <1>2, LogCountType DEF TypeOK, CountType
  <2>2. delivered[<<s, d, o>>] <= LogCount(s, o) + lost + IF InFlight(s, d, o) THEN 1 ELSE 0
    BY DEF DeliverInv, DeliveriesAccountedFor
  <2>3. CASE s \notin handled
    <3>1. ~InFlight(s, d, o)
      BY <1>2, <2>1, <2>3, IdAssumption DEF InFlight
    <3>2. LogCount(s, o)' = LogCount(s, o)
      BY <2>1, <2>3 DEF TickCommit, Logged, LogCount
    <3> QED
      BY <2>1, <2>2, <3>1, <3>2
  <2>4. CASE s \in handled
    <3>1. /\ executions'[s] = Append(executions[s], staged[s].execution)
          /\ staged[s].execution \in Execution
      BY <2>1, <2>4 DEF TickCommit, Logged, TypeOK, LoopType, StagedWrite
    <3>2. staged[s].execution.occurrence = loaded[s].next_run_at
      BY <2>4 DEF LogInv, SessionAhead, StagedAhead
    <3>3. LogCount(s, o)' = IF loaded[s].next_run_at = o THEN LogCount(s, o) + 1
                            ELSE LogCount(s, o)
      BY <2>1, <3>1, <3>2, LogCountAppend
    <3>4. CASE loaded[s].next_run_at = o
      BY <2>1, <2>2, <3>3, <3>4
    <3>5. CASE loaded[s].next_run_at # o
      BY <2>1, <2>2, <3>3, <3>5 DEF InFlight
    <3> QED
      BY <3>4, <3>5
  <2> QED
    BY <2>3, <2>4
<1> QED
  BY <1>3, <1>4 DEF DeliverInv

LEMMA DeliverTick == TypeOK /\ TypeOK' /\ LogInv /\ DeliverInv /\ Tick => DeliverInv'
<1> SUFFICES ASSUME TypeOK, TypeOK', LogInv, DeliverInv, Tick PROVE DeliverInv'
  OBVIOUS
<1>0. /\ due \cap handled = {} /\ due \cup handled \subseteq live \cup retired
      /\ current # NULL => tickPc = "firing"
  BY DEF DeliverInv, SessionApart
<1>1. CASE TickStart
  <2>1. UNCHANGED <<live, retired, executions, delivered, lost, due, handled, loaded,
                    current, pending>>
    BY <1>1 DEF TickStart, dbVars, auxVars, fireVars
  <2>2. \A s, d, o : InFlight(s, d, o)' = InFlight(s, d, o)
    BY <2>1 DEF InFlight
  <2>3. current = NULL
    BY <1>0, <1>1 DEF TickStart
  <2> QED
    BY <1>0, <2>1, <2>2, <2>3, DeliverSession
<1>2. CASE TickSelect
  <2>1. /\ UNCHANGED <<live, retired, executions, delivered, lost, handled, current>>
        /\ due' \subseteq live
    BY <1>2 DEF TickSelect, IsDue, dbVars, auxVars, fireVars
  <2>2. handled = {} /\ current = NULL
    BY <1>0, <1>2 DEF TickSelect, LogInv, SessionAhead
  <2>3. \A s \in live : \A d, o : ~InFlight(s, d, o)
    BY <2>2, IdAssumption DEF InFlight, TypeOK, DbType
  <2> QED
    BY <1>0, <2>1, <2>2, <2>3, DeliverSession
<1>3. CASE TickFired
  <2>1. /\ UNCHANGED <<live, retired, executions, delivered, lost, loaded>>
        /\ handled' = handled \cup {current} /\ due' = due \ {current} /\ current \in due
        /\ current' = NULL
    BY <1>3 DEF TickFired, Stage, dbVars, auxVars, TypeOK, FireType
  <2>2. \A s, d, o : InFlight(s, d, o) => InFlight(s, d, o)'
    BY <2>1 DEF InFlight
  <2> QED
    BY <1>0, <2>1, <2>2, DeliverSession
<1>4. CASE TickCommit
  BY <1>4, DeliverCommit
<1>5. CASE TickCommitFails
  BY <1>5, DeliverLost DEF TickCommitFails
<1>6. ASSUME NEW s \in Schedules, TickSkip(s) PROVE DeliverInv'
  <2>1. /\ UNCHANGED <<live, retired, executions, delivered, lost, loaded, current, pending>>
        /\ handled' = handled \cup {s} /\ due' = due \ {s} /\ s \in due
        /\ current = NULL
    BY <1>0, <1>6 DEF TickSkip, IsNext, Stage, dbVars, auxVars, fireVars
  <2>2. \A t, d, o : InFlight(t, d, o) => InFlight(t, d, o)'
    BY <2>1 DEF InFlight
  <2> QED
    BY <1>0, <2>1, <2>2, DeliverSession
<1>7. ASSUME NEW s \in Schedules, TickFire(s) PROVE DeliverInv'
  <2>1. /\ UNCHANGED <<live, retired, executions, delivered, lost, loaded, due, handled>>
        /\ current = NULL /\ tickPc' = "firing"
    BY <1>0, <1>7 DEF TickFire, dbVars, auxVars, loopVars
  <2>2. \A t \in live : \A d, o : InFlight(t, d, o) => InFlight(t, d, o)'
    BY <2>1, IdAssumption DEF InFlight, TypeOK, DbType
  <2> QED
    BY <1>0, <2>1, <2>2, DeliverSession
<1>8. ASSUME NEW s \in Schedules, TickZoneUnknown(s) PROVE DeliverInv'
  BY <1>8, DeliverLost DEF TickZoneUnknown
<1> QED
  BY <1>1, <1>2, <1>3, <1>4, <1>5, <1>6, <1>7, <1>8, DeliverPost, DeliverGarbled DEF Tick

LEMMA DeliverProcess ==
    ASSUME TypeOK, TypeOK', LogInv, DeliverInv, Crash \/ Restart \/ Tock \/ UNCHANGED vars
    PROVE  DeliverInv'
<1>0. live \subseteq Schedules
  BY DEF TypeOK, DbType
<1>1. CASE Crash /\ tickPc = "idle"
  <2>1. /\ UNCHANGED <<live, retired, executions, delivered, lost>> /\ ResetTick
        /\ handled = {} /\ current = NULL
    BY <1>1 DEF Crash, dbVars, LogInv, SessionAhead, DeliverInv, SessionApart
  <2>2. \A s \in live : \A d, o : ~InFlight(s, d, o)
    BY <1>0, <2>1, IdAssumption DEF InFlight
  <2> QED
    BY <2>1, <2>2, DeliverSession DEF ResetTick
<1>2. CASE Crash /\ tickPc # "idle"
  BY <1>2, DeliverLost DEF Crash
<1>3. CASE Restart \/ Tock \/ UNCHANGED vars
  <2>1. UNCHANGED <<tickVars, delivered, lost, live, retired, executions>>
    BY <1>3 DEF Restart, Tock, vars, dbVars, auxVars
  <2> QED
    BY <1>0, <2>1, LogCountKept, DeliverOthers
<1> QED
  BY <1>1, <1>2, <1>3

\* Commands are accounted for: a device acts on an occurrence once for every
\* log entry, once for the running tick and once for every session that was
\* lost, and no interleaving of the tick with requests adds to that.
THEOREM CommandsAreAccountedFor == Spec => []DeliveriesAccountedFor
<1>1. Init => DeliverInv
  BY DeliverInit
<1>2. TypeOK /\ TypeOK' /\ LogInv /\ DeliverInv /\ [Next]_vars => DeliverInv'
  BY DeliverTick, DeliverRunNow, DeliverRequest, DeliverProcess DEF Next
<1>3. DeliverInv => DeliveriesAccountedFor
  BY DEF DeliverInv
<1> QED
  BY <1>1, <1>2, <1>3, TypeCorrect, LogInOrder, PTL DEF Spec

=============================================================================
