--------------------------- MODULE SchedulesPage ---------------------------
(***************************************************************************)
(* The list of schedules: the switch of a row (static/js/schedules.js),    *)
(* deleting a row with its dialog and Undo (static/js/longpress-delete.js, *)
(* static/js/api.js), and what routers/schedules.py and routers/devices.py *)
(* do for them.  The press that leads to the delete button is the module   *)
(* Gestures.                                                               *)
(*                                                                         *)
(* A step is a handler up to its next await.  A request may fail without   *)
(* effect, and its answer may be lost after the effect: the page sees an   *)
(* error in both cases.                                                    *)
(***************************************************************************)
EXTENDS Integers, FiniteSets, Sequences, Functions

CONSTANTS
    Devices,
    Presets,
    NSchedules,  \* schedules at the start, numbered
    ActionOf,    \* [Originals -> the action, [type, ps]]
    LinksOf,     \* [Originals -> [some devices -> preset or Null]]
    Limit        \* bounds: [toggles, deletes, lists, others, all]

Originals == 1..NSchedules

Null == -1
None == 0

ASSUME PageAssumption ==
    /\ NSchedules \in Nat
    /\ Presets \subseteq Nat
    /\ ActionOf \in [Originals -> [type : {"state", "preset"}, ps : Presets \cup {Null}]]
    /\ \A o \in Originals : LinksOf[o] \in UNION {[S -> Presets \cup {Null}] : S \in SUBSET Devices}
    /\ Limit \in [{"toggles", "deletes", "lists", "others", "all"} -> Nat]

VARIABLES
    devices,    \* server: devices that exist
    schedules,  \* server: [id -> [of : Originals, enabled, links]]
    here,       \* the page is shown
    rows,       \* [id -> [shown, busy, sure]]: the switches of the list
    toggles,    \* PATCH requests of switches that are out
    lists,      \* list fragments rendered and not yet in the page
    dialog,     \* delete the confirm dialog is about, or None
    ticked,     \* its "don't ask again" box
    skip,       \* localStorage: do not ask
    deletes,    \* the delete handlers started
    attached,   \* those whose row, captured at the click, is still in the page
    used        \* how much of Limit is used

server == <<devices, schedules>>
dialogVars == <<dialog, ticked, skip>>
pageVars == <<here, rows, toggles, lists, attached>>
vars == <<server, pageVars, dialogVars, deletes, used>>

(* sure and same are auxiliary.  same: nobody has changed the schedule since *)
(* the snapshot.  sure, of a row: since it was rendered, or its own PATCH    *)
(* last succeeded, no other change of the schedule took effect: none of      *)
(* another client, none of a row that it replaced, and none of its own of    *)
(* which the answer was lost.                                                *)

Within(what) ==
    /\ used[what] < Limit[what] /\ used.all < Limit.all
    /\ used' = [used EXCEPT ![what] = @ + 1, !.all = @ + 1]

-----------------------------------------------------------------------------
(* routers/schedules.py *)

Action(id) == ActionOf[schedules[id].of]

\* What a device is sent: its link, else the action's preset.
Effective(id) ==
    [d \in DOMAIN schedules[id].links |->
        IF Action(id).type = "state" THEN Null
        ELSE IF schedules[id].links[d] # Null THEN schedules[id].links[d] ELSE Action(id).ps]

\* The 422 of _resolve_device_presets, and what it stores otherwise.
PresetsMissing(action, ids, given) ==
    action.type = "preset" /\ Cardinality(ids) > 1 /\ ~ ids \subseteq DOMAIN given

ResolveDevicePresets(action, ids, given) ==
    [d \in ids |-> IF action.type = "state" THEN Null
                   ELSE IF d \in DOMAIN given THEN given[d] ELSE action.ps]

\* PATCH with nothing but enabled: merged, validated, and resolved again.
UpdateAccepted(id) ==
    /\ id \in DOMAIN schedules
    /\ DOMAIN schedules[id].links # {}
    /\ ~ PresetsMissing(Action(id), DOMAIN schedules[id].links, <<>>)

UpdateSchedule(id, enabled) ==
    [schedules EXCEPT ![id].enabled = enabled,
                      ![id].links = ResolveDevicePresets(Action(id), DOMAIN @, <<>>)]

\* Another writer's change: what the page knows of the schedule is old.
Unsure(id, table) == [r \in DOMAIN table |-> [table[r] EXCEPT !.sure = @ /\ r # id]]

ForgetCaptures(id) ==
    [k \in DOMAIN deletes |->
        [deletes[k] EXCEPT !.same = @ /\ ~ (deletes[k].id = id /\ deletes[k].pc = "delete")]]

\* api() returns when the server has done it and its answer comes; it throws for
\* a refusal, and for an answer that is lost, whatever the server has done.
Outcome(done, answered) == answered => done

-----------------------------------------------------------------------------
(* The switch of a row *)

Toggle(id) ==
    /\ here /\ dialog = None
    /\ id \in DOMAIN rows /\ ~ rows[id].busy
    /\ Within("toggles")
    /\ rows' = [rows EXCEPT ![id].shown = ~ @, ![id].busy = TRUE]
    /\ toggles' = toggles \cup
          {[n |-> used'.toggles, id |-> id, enabled |-> ~ rows[id].shown, current |-> TRUE]}
    /\ UNCHANGED <<server, here, lists, attached, dialogVars, deletes>>

\* Mutant: the catch block forgets to take the switch back.
NotTakenBack(row, t, ok, done) ==
    [shown |-> row.shown, busy |-> FALSE, sure |-> ok \/ (row.sure /\ ~ done)]

\* The answer reaches the row: taken back unless it is a success.
Settle(row, t, ok, done) ==
    [shown |-> IF ok THEN row.shown ELSE ~ t.enabled, busy |-> FALSE,
     sure |-> ok \/ (row.sure /\ ~ done)]

AnswerToggle(t, done, answered) ==
    /\ done => UpdateAccepted(t.id)
    /\ Outcome(done, answered)
    /\ toggles' = toggles \ {t}
    /\ schedules' = IF done THEN UpdateSchedule(t.id, t.enabled) ELSE schedules
    /\ LET known == IF done THEN Unsure(t.id, rows) ELSE rows IN
       rows' = IF t.current THEN [rows EXCEPT ![t.id] = Settle(@, t, answered, done)] ELSE known
    /\ lists' = IF done THEN [k \in DOMAIN lists |-> Unsure(t.id, lists[k])] ELSE lists
    /\ deletes' = IF done THEN ForgetCaptures(t.id) ELSE deletes
    /\ UNCHANGED <<devices, here, attached, dialogVars, used>>

\* Mutant: an answer looks its row up again.
StillCurrent(ids) == toggles

\* The elements that requests out refer to are no longer in the page.
Replaced(ids) == {[t EXCEPT !.current = @ /\ t.id \notin ids] : t \in toggles}

-----------------------------------------------------------------------------
(* The list: rendered by the server, in the page when the answer arrives *)

Rendered ==
    [id \in DOMAIN schedules |-> [shown |-> schedules[id].enabled, busy |-> FALSE, sure |-> TRUE]]

Refresh ==
    /\ here /\ Within("lists")
    /\ lists' = Append(lists, Rendered)
    /\ UNCHANGED <<server, here, rows, toggles, attached, dialogVars, deletes>>

Swap(k) ==
    /\ here /\ k \in DOMAIN lists
    /\ rows' = lists[k]
    /\ lists' = SubSeq(lists, 1, k - 1) \o SubSeq(lists, k + 1, Len(lists))
    /\ toggles' = Replaced(DOMAIN rows) /\ attached' = {}
    /\ UNCHANGED <<server, here, dialogVars, deletes, used>>

-----------------------------------------------------------------------------
(* ConfirmDialog *)

Open(k) == dialog' = k /\ ticked' = FALSE

Close == dialog' = None /\ UNCHANGED ticked

NoSnapshot == [of |-> None, presets |-> <<>>, enabled |-> FALSE]
Snapshot(id) == [of |-> schedules[id].of, presets |-> Effective(id),
                 enabled |-> schedules[id].enabled]

Handler(id) == [id |-> id, pc |-> "asking", same |-> TRUE,
                snapshot |-> NoSnapshot, was |-> NoSnapshot]
Ended == [Handler(None) EXCEPT !.pc = "ended"]
GoesOn(k, pc) == deletes' = [deletes EXCEPT ![k].pc = pc]
Ends(k) == deletes' = [deletes EXCEPT ![k] = Ended]

\* The delete button of a row, in delete mode.
Ask(id) ==
    /\ here /\ dialog = None /\ id \in DOMAIN rows
    /\ Within("deletes")
    /\ LET k == Len(deletes) + 1 IN
       /\ attached' = attached \cup {k}
       /\ IF skip THEN /\ deletes' = Append(deletes, [Handler(id) EXCEPT !.pc = "capture"])
                       /\ UNCHANGED <<dialog, ticked>>
          ELSE deletes' = Append(deletes, Handler(id)) /\ Open(k)
    /\ UNCHANGED <<server, here, rows, toggles, lists, skip>>

Tick ==
    /\ dialog # None
    /\ ticked' = ~ ticked
    /\ UNCHANGED <<server, pageVars, dialog, skip, deletes, used>>

Ok ==
    /\ dialog # None
    /\ skip' = (skip \/ ticked)
    /\ Close
    /\ deletes' = [deletes EXCEPT ![dialog].pc = "capture"]
    /\ UNCHANGED <<server, pageVars, used>>

\* Cancel, or a click on the backdrop.
Cancel ==
    /\ dialog # None
    /\ Close /\ Ends(dialog)
    /\ UNCHANGED <<server, pageVars, skip, used>>

-----------------------------------------------------------------------------
(* _handleClick after the dialog: captureForUndo, deleteItem, Undo *)

\* GET /api/schedules/{id}; without an answer there will be no Undo.
Capture(k, ok) ==
    /\ deletes[k].pc = "capture"
    /\ LET id == deletes[k].id IN
       /\ ok => id \in DOMAIN schedules
       /\ deletes' = [deletes EXCEPT ![k].pc = "delete", ![k].same = TRUE,
                                   ![k].snapshot = IF ok THEN Snapshot(id) ELSE NoSnapshot]
    /\ UNCHANGED <<server, pageVars, dialogVars, used>>

\* Mutant: offered whatever became of the request.
UndoWhenever(k, ok) == deletes[k].snapshot # NoSnapshot

UndoOffered(k, ok) == ok /\ deletes[k].snapshot # NoSnapshot

\* deleteItem, and row.remove() of the element the handler holds: when a list
\* has replaced it, the row of the deleted schedule stays in the page.
Delete(k, done, answered) ==
    /\ deletes[k].pc = "delete"
    /\ LET id == deletes[k].id IN
       /\ done => id \in DOMAIN schedules
       /\ Outcome(done, answered)
       /\ schedules' = IF done THEN Restrict(schedules, DOMAIN schedules \ {id}) ELSE schedules
       /\ IF answered /\ k \in attached
          THEN rows' = Restrict(rows, DOMAIN rows \ {id}) /\ toggles' = Replaced({id})
          ELSE UNCHANGED <<rows, toggles>>
       /\ IF UndoOffered(k, answered)
          THEN deletes' = [deletes EXCEPT ![k].pc = "offered",
                                      ![k].was = IF done THEN Snapshot(id) ELSE NoSnapshot]
          ELSE Ends(k)
    /\ UNCHANGED <<devices, here, lists, attached, dialogVars, used>>

\* The toast goes before its action runs.
ToastGoes(k) == GoesOn(k, "restoring")

TapUndo(k) ==
    /\ deletes[k].pc = "offered" /\ dialog = None
    /\ ToastGoes(k)
    /\ UNCHANGED <<server, pageVars, dialogVars, used>>

Expire(k) ==
    /\ deletes[k].pc = "offered"
    /\ Ends(k)
    /\ UNCHANGED <<server, pageVars, dialogVars, used>>

\* Mutant: the presets of the devices are not sent.
WithoutPresets(snapshot) == <<>>

\* restoreSchedule: the presets that are not null.
DevicePresets(snapshot) ==
    Restrict(snapshot.presets, {d \in DOMAIN snapshot.presets : snapshot.presets[d] # Null})

\* create_schedule: every device has to exist still.
CreateAccepted(snapshot) ==
    /\ DOMAIN snapshot.presets # {} /\ DOMAIN snapshot.presets \subseteq devices
    /\ ~ PresetsMissing(ActionOf[snapshot.of], DOMAIN snapshot.presets, DevicePresets(snapshot))

NewId(k) == NSchedules + k

\* After a success the list is fetched again.
Restore(k, done, answered) ==
    /\ deletes[k].pc = "restoring"
    /\ LET snapshot == deletes[k].snapshot IN
       /\ done => CreateAccepted(snapshot)
       /\ Outcome(done, answered)
       /\ schedules' = IF ~ done THEN schedules
             ELSE [id \in DOMAIN schedules \cup {NewId(k)} |->
                      IF id # NewId(k) THEN schedules[id]
                      ELSE [of |-> snapshot.of, enabled |-> snapshot.enabled,
                            links |-> ResolveDevicePresets(ActionOf[snapshot.of],
                                          DOMAIN snapshot.presets, DevicePresets(snapshot))]]
    /\ lists' = IF answered /\ here THEN Append(lists, Rendered') ELSE lists
    /\ Ends(k)
    /\ UNCHANGED <<devices, here, rows, toggles, attached, dialogVars, used>>

-----------------------------------------------------------------------------
(* Another page of the application, by the tab bar: the body is replaced,   *)
(* the handlers go on.                                                      *)

Disconnected(delete) == IF delete.pc \in {"asking", "offered"} THEN Ended ELSE delete

Leave ==
    /\ here /\ here' = FALSE /\ Within("lists")
    /\ rows' = <<>> /\ lists' = <<>> /\ attached' = {}
    /\ toggles' = Replaced(DOMAIN rows)
    /\ deletes' = [k \in DOMAIN deletes |-> Disconnected(deletes[k])]
    /\ Close
    /\ UNCHANGED <<server, skip>>

Return ==
    /\ ~ here /\ here' = TRUE
    /\ rows' = Rendered
    /\ deletes' = [k \in DOMAIN deletes |->
          IF deletes[k].pc = "offered" THEN Ended ELSE deletes[k]]
    /\ UNCHANGED <<server, toggles, lists, attached, dialogVars, used>>

-----------------------------------------------------------------------------
(* Another tab *)

OtherWrites(id, changed) ==
    /\ Within("others")
    /\ schedules' = changed
    /\ rows' = Unsure(id, rows)
    /\ lists' = [k \in DOMAIN lists |-> Unsure(id, lists[k])]
    /\ deletes' = ForgetCaptures(id)
    /\ UNCHANGED <<here, toggles, attached, dialogVars>>

OtherToggles(id) ==
    /\ UpdateAccepted(id)
    /\ OtherWrites(id, UpdateSchedule(id, ~ schedules[id].enabled))
    /\ UNCHANGED devices

OtherDeletes(id) ==
    /\ id \in DOMAIN schedules
    /\ OtherWrites(id, Restrict(schedules, DOMAIN schedules \ {id}))
    /\ UNCHANGED devices

\* DELETE /api/devices/{id} takes the links with it.
RemoveDevice(d) ==
    /\ d \in devices /\ devices' = devices \ {d}
    /\ Within("others")
    /\ schedules' = [id \in DOMAIN schedules |->
          [schedules[id] EXCEPT !.links = Restrict(@, DOMAIN @ \ {d})]]
    /\ deletes' = [k \in DOMAIN deletes |->
          [deletes[k] EXCEPT !.same = @ /\ deletes[k].pc # "delete"]]
    /\ UNCHANGED <<pageVars, dialogVars>>

-----------------------------------------------------------------------------
Init ==
    /\ devices = Devices
    /\ schedules = [o \in Originals |-> [of |-> o, enabled |-> TRUE, links |-> LinksOf[o]]]
    /\ here = TRUE /\ rows = Rendered
    /\ toggles = {} /\ lists = <<>> /\ deletes = <<>> /\ attached = {}
    /\ dialog = None /\ ticked = FALSE
    /\ skip = FALSE
    /\ used = [what \in DOMAIN Limit |-> 0]

Handles(k) ==
    \/ \E ok \in BOOLEAN : Capture(k, ok)
    \/ \E done, answered \in BOOLEAN : Delete(k, done, answered) \/ Restore(k, done, answered)
    \/ TapUndo(k) \/ Expire(k)

Next ==
    \/ \E id \in DOMAIN rows : Toggle(id) \/ Ask(id)
    \/ \E t \in toggles, done, answered \in BOOLEAN : AnswerToggle(t, done, answered)
    \/ Refresh \/ \E k \in DOMAIN lists : Swap(k)
    \/ Tick \/ Ok \/ Cancel
    \/ \E k \in DOMAIN deletes : Handles(k)
    \/ Leave \/ Return
    \/ \E id \in DOMAIN schedules : OtherToggles(id) \/ OtherDeletes(id)
    \/ \E d \in Devices : RemoveDevice(d)

Spec == Init /\ [][Next]_vars

-----------------------------------------------------------------------------
(* Properties *)

LinkTables == UNION {[S -> Presets \cup {Null}] : S \in SUBSET devices}

TypeOK ==
    /\ devices \subseteq Devices
    /\ \A id \in DOMAIN schedules :
          schedules[id] \in [of : Originals, enabled : BOOLEAN, links : LinkTables]
    /\ \A id \in DOMAIN rows : rows[id] \in [shown : BOOLEAN, busy : BOOLEAN, sure : BOOLEAN]
    /\ \A t \in toggles : t.current => t.id \in DOMAIN rows /\ rows[t.id].busy
    /\ attached \subseteq DOMAIN deletes
    /\ dialog \in 0..Len(deletes) /\ ticked \in BOOLEAN /\ skip \in BOOLEAN
    /\ \A k \in DOMAIN deletes :
          deletes[k].pc \in {"asking", "capture", "delete", "offered", "restoring", "ended"}

\* A switch that is at rest shows what the server has: a toggle that is refused,
\* or fails without effect, is taken back on its own row and on no other, also when
\* a refresh or a delete has replaced the row.  Three switches may be wrong until
\* they are rendered or toggled with success again: one whose schedule another
\* client changed; one taken back although its PATCH took effect, because the
\* answer was lost (schedules.js:65); and one of a list that was rendered before the
\* PATCH of a toggle took effect and replaced its row, which had the new state.
SwitchShowsServer ==
    \A id \in DOMAIN rows \cap DOMAIN schedules :
        rows[id].sure /\ ~ rows[id].busy => rows[id].shown = schedules[id].enabled

\* A schedule is never there twice: Undo makes a copy only of one that is gone,
\* and only once, also when deletes of the same row overlap or answers are lost.
NoDuplicates ==
    \A i, j \in DOMAIN schedules : schedules[i].of = schedules[j].of => i = j

\* What Undo brings back fires the same presets, if no device was deleted and
\* nobody changed the schedule between the capture and the delete.
RestoredAsDeleted ==
    [][\A k \in DOMAIN deletes :
          /\ deletes[k].pc = "restoring" /\ deletes[k].same
          /\ NewId(k) \in DOMAIN schedules' \ DOMAIN schedules
          => Snapshot(NewId(k))' = deletes[k].was]_vars

\* Turning a schedule on or off leaves the preset of each device as it is
\* (schedule_form.js:441-442).
ToggleKeepsPresets ==
    [][\A id \in DOMAIN schedules \cap DOMAIN schedules' :
          schedules'[id].enabled # schedules[id].enabled => Effective(id)' = Effective(id)]_vars
=============================================================================
