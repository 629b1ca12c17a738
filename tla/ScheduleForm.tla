---------------------------- MODULE ScheduleForm ----------------------------
(***************************************************************************)
(* The page that creates or edits a schedule (static/js/schedule_form.js,  *)
(* templates/schedule_form.html) with the requests it makes of             *)
(* routers/schedules.py, routers/actions.py and routers/devices.py.        *)
(*                                                                         *)
(* JavaScript runs one handler at a time, up to its next await: a step     *)
(* here is a handler, or the part of one between two awaits.  Answers come *)
(* back in any order.  form is what the page shows; the operators on it    *)
(* are the functions of schedule_form.js, and the handlers compose them as *)
(* the code does.                                                          *)
(***************************************************************************)
EXTENDS Integers, FiniteSets, Sequences, Bags

CONSTANTS
    NDevices,    \* devices at the start, numbered as the page lists them
    PresetsOf,   \* [Devices -> preset ids saved on that light]
    Presets,     \* preset ids, on the lights or stored in the database
    Initial,     \* schedules an instance edits, among StoredOnes
    Removable,   \* devices another tab may delete
    MaxSaves,    \* bound: times Save is clicked
    MaxClicks    \* bound: times Save or "Run now" is clicked or a control changed

Devices == 1..NDevices

ASSUME FormAssumption ==
    /\ NDevices \in Nat \ {0} /\ MaxClicks \in Nat /\ MaxSaves \in Nat
    /\ Presets \subseteq Nat \ {0}
    /\ PresetsOf \in [Devices -> SUBSET Presets] /\ Removable \subseteq Devices

\* JSON null: what NaN becomes in a request, and a link without a preset.
Null == -1
State == -2   \* what a light is sent instead of a preset
Ids == 1..(MaxSaves + 1)
None == 0

VARIABLES
    devices,     \* server: devices that exist
    actions,     \* server: [id -> [type, ps]]
    schedules,   \* server: [id -> [action, links : [devices -> preset or Null]]]
    editing,     \* SCHEDULE_ID is set: the page edits schedule 1
    open,        \* the page is still there
    initPc,      \* where init() is
    fetched,     \* schedule read by loadExistingSchedule: its action and presets
    knownAction, \* existingActionId
    form,        \* the controls, and the preset requests that are out
    saves,       \* the submit handlers started, each with what it sends
    run,         \* "Run now": [busy, out, ok, of, report]
    clicks       \* how much of its bound is used

serverVars == <<devices, actions, schedules>>
loadVars == <<initPc, fetched, knownAction>>
vars == <<serverVars, editing, open, loadVars, form, saves, run, clicks>>

First(S) == CHOOSE d \in S : \A e \in S : d <= e
IsMultiDevice(S) == Cardinality(S) > 1

-----------------------------------------------------------------------------
(* A preset <select>: the text of its option, the device whose presets it  *)
(* lists, the preset chosen.  "unset" is a list none of whose options has  *)
(* the value it was given.                                                 *)
Select(text, list, value, disabled) ==
    [text |-> text, list |-> list, value |-> value, disabled |-> disabled]
Blank(disabled) == Select("empty", None, None, disabled)
Loading(disabled) == Select("loading", None, None, disabled)
Failed == Select("error", None, None, TRUE)

\* Number(select.value): an option without value has its text, which is no
\* number; "" is 0.
NumberOf(select) ==
    CASE select.text = "filled" -> select.value
      [] select.text \in {"loading", "error"} -> Null
      [] OTHER -> 0

PopulatePresetOptions(d, preselected) ==
    LET presets == PresetsOf[d] IN
    IF presets = {} THEN Select("none", d, None, TRUE)
    ELSE IF preselected = Null THEN Select("filled", d, First(presets), FALSE)
    ELSE IF preselected \in presets THEN Select("filled", d, preselected, FALSE)
    ELSE Select("unset", d, None, FALSE)

\* getDevicePresetsMap: a row whose select has the value "" has no entry.
GetDevicePresetsMap(f) ==
    [d \in {r \in DOMAIN f.rows : f.rows[r].text \notin {"none", "unset"}} |->
        NumberOf(f.rows[d])]

SaveDisabled(f) ==
    \/ f.checked = {}
    \/ /\ f.mode = "preset"
       /\ IF IsMultiDevice(f.checked) THEN ~ f.checked \subseteq DOMAIN GetDevicePresetsMap(f)
          ELSE f.select.disabled

UpdateSaveButtonState(f) == [f EXCEPT !.saveDisabled = SaveDisabled(f)]

\* The events by which Alpine's x-show learns what to show.
SyncDeviceCount(f) == [f EXCEPT !.alpine.count = Cardinality(f.checked)]
SetRadio(f, mode) == [f EXCEPT !.mode = mode, !.alpine.mode = mode]

LoadPresetsForSelectedDevice(f, preselected, by) ==
    IF f.checked = {} THEN UpdateSaveButtonState([f EXCEPT !.select = Blank(TRUE)])
    ELSE [f EXCEPT !.select = Loading(FALSE),
                   !.requests = @ (+) SetToBag({[for |-> "select", device |-> First(f.checked),
                                                 preselected |-> preselected, by |-> by]})]

\* Rendering the rows again detaches the selects that older requests fill.
Detached(requests) ==
    BagOfAll(LAMBDA r : IF r.for # "row" THEN r
                        ELSE [r EXCEPT !.for = "detached", !.device = None,
                                       !.preselected = Null],
             requests)

LoadPresetsPerDevice(f, preselected, by) ==
    IF f.checked = {} THEN UpdateSaveButtonState([f EXCEPT !.rows = <<>>])
    ELSE [f EXCEPT !.rows = [d \in f.checked |-> Loading(TRUE)],
                   !.requests = Detached(@) (+)
                       SetToBag({[for |-> "row", device |-> d, by |-> by,
                                  preselected |-> preselected[d]] : d \in f.checked})]

\* Both loads without a selection.
LoadPresets(f, by) ==
    IF IsMultiDevice(f.checked)
    THEN LoadPresetsPerDevice(f, [d \in f.checked |-> Null], by)
    ELSE LoadPresetsForSelectedDevice(f, Null, by)

\* Mutant: the Save button is not looked at again in the custom mode.
VisibilityOnly(f, by) ==
    IF f.mode = "preset" THEN LoadPresets(f, by) ELSE f

UpdateActionModeVisibility(f, by) ==
    IF f.mode = "preset" THEN LoadPresets(f, by) ELSE UpdateSaveButtonState(f)

\* The list is rendered; a saved device that is gone has no checkbox.
RenderDevices(f, selected) ==
    UpdateSaveButtonState(SyncDeviceCount(
        [f EXCEPT !.listed = devices, !.checked = selected \cap devices,
                  !.select = IF devices = {} THEN Blank(TRUE)
                             ELSE [@ EXCEPT !.disabled = FALSE]]))

-----------------------------------------------------------------------------
(* init() *)

InitForm == [listed |-> {}, checked |-> {}, mode |-> "state", select |-> Blank(FALSE), rows |-> <<>>,
             saveDisabled |-> TRUE, alpine |-> [mode |-> "state", count |-> 0],
             requests |-> EmptyBag]
NotRun == [busy |-> FALSE, out |-> <<>>, ok |-> 0, of |-> 0, report |-> "none"]

\* The schedules that may be stored: with a preset per device, or with none
\* from before there were any; the action carries the first device's.
StoredOnes ==
    {[type |-> "state", ps |-> Null, links |-> [d \in S |-> Null]] : S \in SUBSET Devices \ {{}}}
    \cup
    {s \in UNION {[type : {"preset"}, ps : Presets, links : [S -> Presets \cup {Null}]] :
                     S \in SUBSET Devices \ {{}}} :
        \/ \A d \in DOMAIN s.links : s.links[d] = Null
        \/ s.links[First(DOMAIN s.links)] = s.ps /\ \A d \in DOMAIN s.links : s.links[d] # Null}

ASSUME InitialAssumption == Initial \subseteq StoredOnes

NoSchedule == [action |-> None, type |-> "state", ps |-> Null, links |-> <<>>]

Init ==
    /\ devices = Devices
    /\ editing \in BOOLEAN
    /\ IF editing
       THEN \E s \in Initial :
               /\ actions = [id \in {1} |-> [type |-> s.type, ps |-> s.ps]]
               /\ schedules = [id \in {1} |-> [action |-> 1, links |-> s.links]]
       ELSE actions = <<>> /\ schedules = <<>>
    /\ open = TRUE /\ initPc = "settings"
    /\ fetched = NoSchedule
    /\ knownAction = None
    /\ form = InitForm /\ saves = <<>> /\ run = NotRun /\ clicks = 0

Effective(link, ps) == IF link # Null THEN link ELSE ps

\* Any await of init() may throw; its finally still runs.
InitThrows ==
    /\ open /\ initPc \in {"settings", "schedule", "devices"}
    /\ initPc' = "failed"
    /\ form' = UpdateSaveButtonState(form)
    /\ UNCHANGED <<serverVars, editing, open, fetched, knownAction, saves, run, clicks>>

LoadSettings ==
    /\ open /\ initPc = "settings"
    /\ initPc' = IF editing THEN "schedule" ELSE "devices"
    /\ UNCHANGED <<serverVars, editing, open, fetched, knownAction, form, saves, run, clicks>>

\* GET /api/schedules/{id}, with the effective preset of each device.
LoadSchedule ==
    /\ open /\ initPc = "schedule" /\ 1 \in DOMAIN schedules
    /\ LET schedule == schedules[1]
           action == actions[schedule.action] IN
       fetched' = [action |-> schedule.action, type |-> action.type, ps |-> action.ps,
                   links |-> [d \in DOMAIN schedule.links |->
                                 Effective(schedule.links[d], action.ps)]]
    /\ initPc' = "devices"
    /\ UNCHANGED <<serverVars, editing, open, knownAction, form, saves, run, clicks>>

\* The end of init(), after everything it awaits.
FinishInit(f) == UpdateSaveButtonState(UpdateActionModeVisibility(f, "event"))

Awaits(f) == \E r \in DOMAIN f.requests : r.by = "init"

\* The preset the single dropdown is to show; the first device's, or the action's.
SavedSingle ==
    IF fetched.links = <<>> \/ fetched.links[First(DOMAIN fetched.links)] = Null
    THEN fetched.ps ELSE fetched.links[First(DOMAIN fetched.links)]

\* After loadDevices: the action mode, whose change event loads the presets a
\* first time, then the presets with the saved selection.
FillAction(f) ==
    LET rendered == RenderDevices(f, DOMAIN fetched.links)
        moded == UpdateActionModeVisibility(SetRadio(rendered, fetched.type), "event")
        saved == [d \in Devices |->
                     IF d \in DOMAIN fetched.links THEN fetched.links[d] ELSE Null]
    IN IF fetched.type = "state" THEN moded
       ELSE IF Cardinality(DOMAIN fetched.links) > 1
            THEN LoadPresetsPerDevice(moded, saved, "init")
            ELSE LoadPresetsForSelectedDevice(moded, SavedSingle, "init")

ExistingActionId == fetched.action

LoadDevices ==
    /\ open /\ initPc = "devices"
    /\ LET f == IF editing THEN FillAction(form) ELSE RenderDevices(form, {}) IN
       /\ initPc' = IF Awaits(f) THEN "presets" ELSE "done"
       /\ form' = IF Awaits(f) THEN f ELSE FinishInit(f)
       /\ knownAction' = ExistingActionId
    /\ fetched' = NoSchedule
    /\ UNCHANGED <<serverVars, editing, open, saves, run, clicks>>

\* The answers to the awaited preset requests are all in.
ResumeInit(f) ==
    IF initPc = "presets" /\ ~ Awaits(f)
    THEN initPc' = "done" /\ form' = FinishInit(f)
    ELSE UNCHANGED initPc /\ form' = f

\* Mutant: the first row of the container, not the one of the device.
FirstRow(d) == First(DOMAIN form.rows)

RowOf(d) == d

\* GET /api/devices/{id}/presets asks the light.
AnswerPresets(r, ok) ==
    /\ open /\ r \in DOMAIN form.requests
    /\ ok /\ r.for # "detached" => r.device \in devices
    /\ LET options == IF ok THEN PopulatePresetOptions(r.device, r.preselected) ELSE Failed
           left == [form EXCEPT !.requests = @ (-) SetToBag({r})] IN
       ResumeInit(UpdateSaveButtonState(
           CASE r.for = "select" -> [left EXCEPT !.select = options]
             [] r.for = "row" -> [left EXCEPT !.rows[RowOf(r.device)] = options]
             [] OTHER -> left))
    /\ UNCHANGED <<serverVars, editing, open, fetched, knownAction, saves, run, clicks>>

-----------------------------------------------------------------------------
(* The user *)

Edit(f) ==
    /\ open /\ clicks < MaxClicks
    /\ form' = f /\ clicks' = clicks + 1
    /\ UNCHANGED <<serverVars, editing, open, loadVars, saves, run>>

\* A checkbox of #device-toggles.
ToggleDevice(d) ==
    /\ d \in form.listed
    /\ LET f == UpdateSaveButtonState(SyncDeviceCount([form EXCEPT !.checked =
                    IF d \in @ THEN @ \ {d} ELSE @ \cup {d}])) IN
       Edit(IF f.mode = "preset" THEN LoadPresets(f, "event") ELSE f)

ChooseMode(mode) ==
    /\ mode # form.mode
    /\ Edit(UpdateActionModeVisibility(SetRadio(form, mode), "event"))

PickPreset(p) ==
    /\ form.alpine.mode = "preset" /\ form.alpine.count <= 1
    /\ form.select.text \in {"filled", "unset"} /\ p \in PresetsOf[form.select.list]
    /\ p # form.select.value
    /\ Edit([form EXCEPT !.select.value = p, !.select.text = "filled"])

PickRowPreset(d, p) ==
    /\ form.alpine.mode = "preset" /\ form.alpine.count > 1
    /\ d \in DOMAIN form.rows /\ form.rows[d].text \in {"filled", "unset"}
    /\ p \in PresetsOf[d] /\ p # form.rows[d].value
    /\ Edit(UpdateSaveButtonState([form EXCEPT !.rows[d].value = p, !.rows[d].text = "filled"]))

-----------------------------------------------------------------------------
(* The submit handler: two requests, one after the other *)

Payload(f) ==
    LET multi == f.mode = "preset" /\ IsMultiDevice(f.checked)
        map == GetDevicePresetsMap(f)
    IN [type |-> f.mode, ids |-> f.checked,
        presets |-> IF multi THEN map ELSE <<>>,
        ps |-> CASE f.mode = "state" -> Null
                 [] multi -> IF First(f.checked) \in DOMAIN map
                             THEN map[First(f.checked)] ELSE Null
                 [] OTHER -> NumberOf(f.select)]
Ended(pc) == [pc |-> pc, sends |-> Payload(InitForm), action |-> None, alone |-> FALSE]

Submit ==
    /\ open /\ ~ form.saveDisabled
    /\ Len(saves) < MaxSaves /\ clicks < MaxClicks /\ clicks' = clicks + 1
    /\ saves' = Append(saves, [pc |-> "action", sends |-> Payload(form), action |-> knownAction,
                             alone |-> \A j \in DOMAIN saves : saves[j].pc = "failed"])
    /\ form' = [form EXCEPT !.saveDisabled = TRUE]
    /\ UNCHANGED <<serverVars, editing, open, loadVars, run>>

\* alone is auxiliary: no other save is under way at the click.

\* location.href = "/schedules": nothing of the page is left.
Leave == /\ open' = FALSE /\ form' = InitForm /\ run' = NotRun
         /\ initPc' = "gone" /\ fetched' = NoSchedule /\ knownAction' = None

\* The catch block: Save is enabled again, whatever the form looks like now.
SaveFails(k) ==
    /\ saves' = [saves EXCEPT ![k] = Ended("failed")]
    /\ form' = IF open THEN [form EXCEPT !.saveDisabled = FALSE] ELSE form
    /\ UNCHANGED <<open, loadVars, run>>

\* PresetPayload and the payload check of ActionCreate, ActionUpdate.
ActionValid(p) == p.type = "preset" => p.ps # Null

ActionId(k) == IF editing THEN saves[k].action ELSE Cardinality(DOMAIN actions) + 1

\* A request may fail without effect, and its answer may be lost: the page
\* sees an error in both cases.  One that has left sees nothing at all.
SaveAction(k, done, answered) ==
    /\ saves[k].pc = "action"
    /\ done => ActionValid(saves[k].sends)
    /\ answered => done /\ open
    /\ LET p == saves[k].sends
           id == ActionId(k) IN
       /\ actions' = IF ~ done THEN actions
                     ELSE [a \in DOMAIN actions \cup {id} |->
                              IF a = id THEN [type |-> p.type, ps |-> p.ps] ELSE actions[a]]
       /\ IF answered
          THEN /\ saves' = [saves EXCEPT ![k].pc = "schedule", ![k].action = id]
               /\ UNCHANGED <<open, loadVars, form, run>>
          ELSE SaveFails(k)
    /\ UNCHANGED <<devices, schedules, editing, clicks>>

\* ScheduleBase, _get_devices_or_404 and the 422 of _resolve_device_presets.
ScheduleValid(p, action) ==
    /\ p.ids # {} /\ p.ids \subseteq devices
    /\ \A d \in DOMAIN p.presets : d \in p.ids /\ p.presets[d] # Null
    /\ action.type = "preset" /\ IsMultiDevice(p.ids) => p.ids \subseteq DOMAIN p.presets

\* Mutant: every device gets the action's own preset.
SharedPreset(p, action) == [d \in p.ids |-> action.ps]

ResolveDevicePresets(p, action) ==
    [d \in p.ids |-> IF action.type = "state" THEN Null
                     ELSE IF d \in DOMAIN p.presets THEN p.presets[d] ELSE action.ps]

SaveSchedule(k, done, answered) ==
    /\ saves[k].pc = "schedule"
    /\ done => /\ ScheduleValid(saves[k].sends, actions[saves[k].action])
               /\ editing => 1 \in DOMAIN schedules
    /\ answered => done /\ open
    /\ LET p == saves[k].sends
           a == saves[k].action
           id == IF editing THEN 1 ELSE Cardinality(DOMAIN schedules) + 1 IN
       schedules' = IF ~ done THEN schedules
                    ELSE [s \in DOMAIN schedules \cup {id} |->
                             IF s = id THEN [action |-> a,
                                             links |-> ResolveDevicePresets(p, actions[a])]
                             ELSE schedules[s]]
    /\ IF answered
       THEN Leave /\ saves' = [saves EXCEPT ![k] = Ended("saved")]
       ELSE SaveFails(k)
    /\ UNCHANGED <<devices, actions, editing, clicks>>

-----------------------------------------------------------------------------
(* The other buttons, and another tab *)

\* The Delete button, after confirm(); the action stays.
DeleteSchedule(answered) ==
    /\ open /\ editing /\ 1 \in DOMAIN schedules
    /\ schedules' = <<>>
    /\ IF answered THEN Leave ELSE UNCHANGED <<open, loadVars, form, run>>
    /\ UNCHANGED <<devices, actions, editing, saves, clicks>>

Cancel ==
    /\ open /\ Leave
    /\ UNCHANGED <<serverVars, editing, saves, clicks>>

\* Mutant: no cascade.
LinksKept(links, d) == links

LinksWithout(links, d) == [e \in DOMAIN links \ {d} |-> links[e]]

\* DELETE /api/devices/{id} takes the device's links with it.
RemoveDevice(d) ==
    /\ d \in devices
    /\ devices' = devices \ {d}
    /\ schedules' = [s \in DOMAIN schedules |->
          [schedules[s] EXCEPT !.links = LinksWithout(@, d)]]
    /\ UNCHANGED <<actions, editing, open, loadVars, form, saves, run, clicks>>

-----------------------------------------------------------------------------
(* "Run now": an existing schedule as it is stored, a new one as it is shown *)

\* Mutant: the representative preset for every device.
PreviewShared(f) ==
    LET ps == Payload(f).ps IN
    IF f.mode = "state" THEN [d \in f.checked |-> State]
    ELSE IF ps < 1 THEN <<>> ELSE [d \in f.checked |-> ps]

\* What a new schedule's devices are sent: nothing, if the form lacks a device or
\* a preset.
Preview(f) ==
    LET map == GetDevicePresetsMap(f) IN
    CASE f.mode = "state" -> [d \in f.checked |-> State]
      [] f.mode = "preset" /\ IsMultiDevice(f.checked) ->
            IF f.checked \subseteq DOMAIN map THEN [d \in f.checked |-> map[d]] ELSE <<>>
      [] OTHER -> IF NumberOf(f.select) < 1 THEN <<>>
                  ELSE [d \in f.checked |-> NumberOf(f.select)]

ReportRunResult(ok, of) ==
    CASE of = 0 -> "no devices"
      [] of > 0 /\ ok = of -> "success"
      [] of > 0 /\ ok = 0 -> "failed"
      [] OTHER -> "partly"

Reported(report) == [NotRun EXCEPT !.report = report]

RunNow ==
    /\ open /\ ~ run.busy
    /\ clicks < MaxClicks /\ clicks' = clicks + 1
    /\ LET sends == Preview(form) IN
       run' = IF editing THEN [NotRun EXCEPT !.busy = TRUE]
              ELSE IF sends = <<>> THEN Reported("select first")
              ELSE [NotRun EXCEPT !.busy = TRUE, !.out = sends, !.of = Cardinality(DOMAIN sends)]
    /\ UNCHANGED <<serverVars, editing, open, loadVars, form, saves>>

\* The scheduler's run of the stored schedule, any of whose lights may not
\* answer; or an error.
AnswerRunNow ==
    /\ run.busy /\ run.out = <<>>
    /\ run' \in {Reported("error")} \cup
          IF 1 \notin DOMAIN schedules THEN {}
          ELSE LET of == Cardinality(DOMAIN schedules[1].links) IN
               {Reported(ReportRunResult(ok, of)) : ok \in 0..of}
    /\ UNCHANGED <<serverVars, editing, open, loadVars, form, saves, clicks>>

\* POST /api/devices/{id}/apply; the report waits for the last answer.
AnswerApply(d, ok) ==
    /\ d \in DOMAIN run.out
    /\ ok => d \in devices
    /\ LET left == LinksWithout(run.out, d)
           good == run.ok + IF ok THEN 1 ELSE 0 IN
       run' = IF left = <<>> THEN Reported(ReportRunResult(good, run.of))
              ELSE [run EXCEPT !.out = left, !.ok = good]
    /\ UNCHANGED <<serverVars, editing, open, loadVars, form, saves, clicks>>

-----------------------------------------------------------------------------
Loads ==
    \/ LoadSettings \/ LoadSchedule \/ LoadDevices \/ InitThrows
    \/ \E r \in DOMAIN form.requests, ok \in BOOLEAN : AnswerPresets(r, ok)

Answers(k) ==
    \E done, answered \in BOOLEAN :
        SaveAction(k, done, answered) \/ SaveSchedule(k, done, answered)

User ==
    \/ \E d \in Devices : ToggleDevice(d)
    \/ \E mode \in {"state", "preset"} : ChooseMode(mode)
    \/ \E p \in Presets : PickPreset(p)
    \/ \E d \in Devices, p \in Presets : PickRowPreset(d, p)
    \/ Submit \/ Cancel \/ RunNow
    \/ \E answered \in BOOLEAN : DeleteSchedule(answered)

Next ==
    \/ Loads \/ User
    \/ \E k \in DOMAIN saves : Answers(k)
    \/ AnswerRunNow
    \/ \E d \in Devices, ok \in BOOLEAN : AnswerApply(d, ok)
    \/ \E d \in Removable : RemoveDevice(d)

Spec == Init /\ [][Next]_vars

-----------------------------------------------------------------------------
(* Properties *)

SelectType == [text : {"empty", "loading", "none", "error", "filled", "unset"},
               list : Devices \cup {None}, value : Presets \cup {None}, disabled : BOOLEAN]
RequestType == [for : {"select", "row", "detached"}, device : Devices \cup {None},
                preselected : Presets \cup {Null}, by : {"init", "event"}]

TypeOK ==
    /\ devices \subseteq Devices
    /\ DOMAIN actions \subseteq Ids /\ DOMAIN schedules \subseteq Ids
    /\ \A a \in DOMAIN actions : actions[a] \in
          [type : {"state", "preset"}, ps : Presets \cup {Null, 0}]
    /\ \A s \in DOMAIN schedules :
          /\ schedules[s].action \in DOMAIN actions
          /\ DOMAIN schedules[s].links \subseteq devices
          /\ \A d \in DOMAIN schedules[s].links : schedules[s].links[d] \in Presets \cup {Null, 0}
    /\ initPc \in {"settings", "schedule", "devices", "presets", "done", "failed", "gone"}
    /\ knownAction \in Ids \cup {None}
    /\ form.checked \subseteq form.listed /\ form.listed \subseteq Devices
    /\ form.select \in SelectType /\ DOMAIN form.rows \subseteq Devices
    /\ \A d \in DOMAIN form.rows : form.rows[d] \in SelectType
    /\ DOMAIN form.requests \subseteq RequestType
    /\ \A k \in DOMAIN saves : saves[k].pc \in {"action", "schedule", "saved", "failed"}
    /\ run.ok \in 0..run.of
    /\ run.out # <<>> => run.busy
    /\ DOMAIN run.out \subseteq Devices /\ Cardinality(DOMAIN run.out) <= run.of

\* However late the answers come and however often the rows are rendered again,
\* a row offers presets of its own device; and what is read is what is shown: the
\* rows are those of the devices ticked, and the control Alpine shows is the one
\* that submit and "Run now" read.
RowsOfOwnDevice ==
    /\ \A d \in DOMAIN form.rows :
          form.rows[d].text = "filled"
          => form.rows[d].list = d /\ form.rows[d].value \in PresetsOf[d]
    /\ form.alpine = [mode |-> form.mode, count |-> Cardinality(form.checked)]
    /\ open /\ form.mode = "preset" /\ IsMultiDevice(form.checked) =>
          DOMAIN form.rows = form.checked

\* Once nothing is under way, Save is not left disabled for a form that could
\* be saved: the flag is written by eight handlers and depends on four controls.
SaveNotStuck ==
    /\ open /\ initPc \in {"done", "failed"} /\ form.requests = EmptyBag
    /\ \A k \in DOMAIN saves : saves[k].pc = "failed"
    => (form.saveDisabled => SaveDisabled(form))

\* A save that is not overtaken by a second one leaves in the database, for
\* every device, the preset the form showed at the click.
StoredAsSubmitted ==
    [][\A k \in DOMAIN saves :
          /\ saves[k].pc = "schedule" /\ saves'[k].pc = "saved"
          /\ saves[k].alone /\ k = Len(saves)
          /\ saves[k].sends.type = "preset"
          => LET p == saves[k].sends IN
             \E s \in DOMAIN schedules' :
                /\ DOMAIN schedules'[s].links = p.ids
                /\ \A d \in p.ids :
                      Effective(schedules'[s].links[d], actions'[schedules'[s].action].ps)
                          = IF IsMultiDevice(p.ids) THEN p.presets[d] ELSE p.ps]_vars

\* What "Run now" tries out on a new schedule is what Save would store for it:
\* the two handlers read the controls separately.
PreviewIsWhatSaveStores ==
    form.mode = "preset" /\ Preview(form) # <<>> =>
        /\ DOMAIN Preview(form) = Payload(form).ids
        /\ Preview(form) = ResolveDevicePresets(Payload(form),
                               [type |-> "preset", ps |-> Payload(form).ps])

\* An existing schedule that has loaded is shown with the presets it has
\* (schedule_form.js:373-376).  For a page on which nothing is edited.
LoadedAsStored ==
    /\ open /\ editing /\ initPc = "done" /\ form.requests = EmptyBag
    /\ form.mode = "preset"
    => LET action == actions[schedules[1].action] IN
       \A d \in form.checked :
          LET preset == Effective(schedules[1].links[d], action.ps)
              select == IF IsMultiDevice(form.checked) THEN form.rows[d] ELSE form.select IN
          select.text = "filled" /\ preset \in PresetsOf[d] => select.value = preset
=============================================================================
