------------------------- MODULE ScheduleFormProofs -------------------------
(***************************************************************************)
(* Proofs about the page that creates or edits a schedule (ScheduleForm):  *)
(* for any devices, presets, stored schedules and number of clicks.  First *)
(* what the functions of schedule_form.js do to a form, then what the      *)
(* handlers that are composed of them do to the page and the server.       *)
(***************************************************************************)
EXTENDS ScheduleForm, FiniteSetTheorems, SequenceTheorems, TLAPS

-----------------------------------------------------------------------------
(* The form *)

\* The eight controls, each of its type, and Alpine told of the mode and the count.
IsForm(f) ==
    f = [listed |-> f.listed, checked |-> f.checked, mode |-> f.mode, select |-> f.select,
         rows |-> f.rows, saveDisabled |-> f.saveDisabled, alpine |-> f.alpine,
         requests |-> f.requests]

FormTypes(f) ==
    /\ IsForm(f)
    /\ f.checked \subseteq f.listed /\ f.listed \subseteq Devices
    /\ f.mode \in {"state", "preset"} /\ f.saveDisabled \in BOOLEAN
    /\ f.select \in SelectType
    /\ DOMAIN f.rows \subseteq Devices /\ f.rows \in [DOMAIN f.rows -> SelectType]
    /\ f.alpine = [mode |-> f.mode, count |-> Cardinality(f.checked)]
    /\ DOMAIN f.requests \subseteq RequestType
    /\ \A r \in DOMAIN f.requests : r.for # "detached" => r.device \in Devices

\* What the select of the row of device d may be.
RowOfDevice(d, select) ==
    /\ select.text \in {"filled", "unset"} => select.list = d
    /\ select.text = "filled" => select.value \in PresetsOf[d]

FormBase(f) == FormTypes(f) /\ \A d \in DOMAIN f.rows : RowOfDevice(d, f.rows[d])

\* There is a row for every device ticked whenever the rows are what is read.
RowsCover(f) ==
    f.mode = "preset" /\ IsMultiDevice(f.checked) => DOMAIN f.rows = f.checked

\* Save is not disabled for a form that could be saved, unless requests are out:
\* their answers look at it again.
Settled(f) == DOMAIN f.requests = {} => (f.saveDisabled => SaveDisabled(f))

\* What holds after a look at it.
Looked(f) == Settled(f) /\ (f.checked = {} => f.saveDisabled)

FormInv(f) == FormBase(f) /\ RowsCover(f)

SameControls(f, g) == g.listed = f.listed /\ g.checked = f.checked /\ g.mode = f.mode

-----------------------------------------------------------------------------
(* The page and the server *)

LinkValues == Presets \cup {Null}
Payloads == [type : {"state", "preset"}, ids : SUBSET Devices,
             presets : UNION {[S -> LinkValues \cup {0}] : S \in SUBSET Devices},
             ps : LinkValues \cup {0}]
SaveType == [pc : {"action", "schedule", "saved", "failed"}, sends : Payloads,
             action : Nat, alone : BOOLEAN]
ActionType == [type : {"state", "preset"}, ps : LinkValues \cup {0}]
RunType == [busy : BOOLEAN, out : UNION {[S -> LinkValues \cup {0, State}] : S \in SUBSET Devices},
            ok : Nat, of : Nat,
            report : {"none", "select first", "error", "no devices", "success", "failed", "partly"}]
ScheduleType == [action : Nat, links : UNION {[S -> LinkValues \cup {0}] : S \in SUBSET Devices}]
FetchedType == [action : {None, 1}, type : {"state", "preset"}, ps : LinkValues,
                links : UNION {[S -> LinkValues] : S \in SUBSET Devices}]

Before == {"settings", "schedule", "devices", "failed"}

\* init(): before the devices are there nothing can be saved; after that the page
\* knows the action of the schedule it edits.
LoadInv ==
    /\ initPc \in Before \cup {"presets", "done", "gone"} /\ editing \in BOOLEAN
    /\ open = (initPc # "gone")
    /\ fetched \in FetchedType
    /\ initPc \in Before => form.listed = {} /\ form.saveDisabled /\ saves = <<>>
    /\ ~ editing => fetched = NoSchedule /\ knownAction = None /\ initPc # "schedule"
    /\ editing /\ initPc = "devices" => fetched.action = 1
    /\ editing /\ initPc \in {"presets", "done"} => knownAction = 1
    /\ knownAction \in {None, 1}

FormsInv ==
    /\ FormInv(form)
    /\ open /\ (\A k \in DOMAIN saves : saves[k].pc = "failed") => Settled(form)

\* Saves whose first, and whose second, request is behind them.
Created == {k \in DOMAIN saves : saves[k].pc # "action"}
Ended2 == {k \in DOMAIN saves : saves[k].pc \in {"saved", "failed"}}

SavesInv ==
    /\ saves \in Seq(SaveType) /\ Len(saves) <= MaxSaves
    /\ \A k \in DOMAIN saves :
          /\ saves[k].pc = "schedule" => saves[k].action \in DOMAIN actions
          /\ editing /\ saves[k].pc = "action" => saves[k].action = 1
          /\ saves[k].sends.type = "preset" /\ ~ IsMultiDevice(saves[k].sends.ids)
             => DOMAIN saves[k].sends.presets = {}

ServerInv ==
    /\ devices \subseteq Devices
    /\ actions \in [DOMAIN actions -> ActionType]
    /\ schedules \in [DOMAIN schedules -> ScheduleType]
    /\ \A s \in DOMAIN schedules :
          schedules[s].action \in DOMAIN actions /\ DOMAIN schedules[s].links \subseteq devices
    /\ editing => DOMAIN actions = {1} /\ DOMAIN schedules \subseteq {1}
    /\ ~ editing =>
          /\ \E n \in 0..MaxSaves : DOMAIN actions = 1..n /\ n <= Cardinality(Created)
          /\ \E n \in 0..MaxSaves : DOMAIN schedules = 1..n /\ n <= Cardinality(Ended2)
    \* What init() reads, as long as nothing was saved.
    /\ saves = <<>> =>
          /\ \A a \in DOMAIN actions : actions[a].ps \in LinkValues
          /\ \A s \in DOMAIN schedules :
                \A d \in DOMAIN schedules[s].links : schedules[s].links[d] \in LinkValues

RunInv ==
    /\ run \in RunType
    /\ run.ok + Cardinality(DOMAIN run.out) <= run.of
    /\ run.out # <<>> => run.busy

\* A save that nobody has crossed has the action that it stored.
AloneInv ==
    \A k \in DOMAIN saves : saves[k].alone /\ k = Len(saves) =>
        /\ \A j \in DOMAIN saves : j # k => saves[j].pc = "failed"
        /\ saves[k].pc = "schedule" =>
              actions[saves[k].action] = [type |-> saves[k].sends.type, ps |-> saves[k].sends.ps]

FormPageInv == LoadInv /\ FormsInv /\ SavesInv /\ ServerInv /\ RunInv /\ AloneInv

-----------------------------------------------------------------------------
(* Numbers, sets and bags *)

LEMMA LeastOf == \A S \in SUBSET Nat : S # {} => \E m \in S : \A k \in S : m <= k
<1>. SUFFICES ASSUME NEW S \in SUBSET Nat, S # {} PROVE \E m \in S : \A k \in S : m <= k
    OBVIOUS
<1>. DEFINE R == OpToRel(<, Nat)
<1>1. IsWellFoundedOn(R, Nat)
    BY NatLessThanWellFounded
<1>2. \A a, b \in Nat : <<a, b>> \in R <=> a < b
    BY DEF OpToRel
<1>. HIDE DEF R
<1>3. \E m \in S : \A k \in S : ~ (<<k, m>> \in R)
    BY <1>1, WFMin
<1>4. PICK m \in S : \A k \in S : ~ (<<k, m>> \in R)
    BY <1>3
<1>5. \A k \in S : ~ (k < m)
    BY <1>2, <1>4
<1>. QED BY <1>5

LEMMA FirstOf == \A S \in SUBSET Nat : S # {} => First(S) \in S
BY LeastOf DEF First

LEMMA FormConstants ==
    /\ NDevices \in Nat \ {0} /\ MaxClicks \in Nat /\ MaxSaves \in Nat
    /\ Presets \subseteq Nat \ {0} /\ Removable \subseteq Devices
    /\ PresetsOf \in [Devices -> SUBSET Presets] /\ Devices \subseteq Nat \ {0}
BY FormAssumption DEF Devices

LEMMA FirstDevice == \A S \in SUBSET Devices : S # {} => First(S) \in S /\ First(S) \in Devices
<1>1. SUBSET Devices \subseteq SUBSET Nat
    BY FormConstants
<1>. QED BY <1>1, FirstOf

LEMMA RemovedDomain ==
    ASSUME NEW B, NEW S PROVE DOMAIN (B (-) SetToBag(S)) \subseteq DOMAIN B
BY DEF (-), SetToBag

LEMMA JoinedDomain ==
    ASSUME NEW B, NEW S PROVE DOMAIN (B (+) SetToBag(S)) = DOMAIN B \cup S
BY DEF (+), SetToBag

LEMMA EmptyBagDomain == DOMAIN EmptyBag = {}
BY DEF EmptyBag, SetToBag

LEMMA EmptyFunction ==
    ASSUME NEW h, h = [x \in DOMAIN h |-> h[x]], DOMAIN h = {} PROVE h = <<>>
OBVIOUS

\* A request whose row is gone fills nothing of the page.
DetachedRequest(r) ==
    IF r.for # "row" THEN r ELSE [r EXCEPT !.for = "detached", !.device = None, !.preselected = Null]

LEMMA DetachedDomain ==
    ASSUME NEW B PROVE DOMAIN Detached(B) = {DetachedRequest(r) : r \in DOMAIN B}
BY DEF Detached, BagOfAll, BagToSet, DetachedRequest

LEMMA DetachedTypes ==
    ASSUME NEW B, DOMAIN B \subseteq RequestType,
           \A r \in DOMAIN B : r.for # "detached" => r.device \in Devices
    PROVE  /\ DOMAIN Detached(B) \subseteq RequestType
           /\ \A r \in DOMAIN Detached(B) : r.for # "detached" => r.device \in Devices
<1>1. ASSUME NEW r \in DOMAIN B
      PROVE  /\ DetachedRequest(r) \in RequestType
             /\ DetachedRequest(r).for # "detached" => DetachedRequest(r).device \in Devices
    <2>1. r \in RequestType /\ (r.for # "detached" => r.device \in Devices)
        OBVIOUS
    <2>2. CASE r.for # "row"
        BY <2>1, <2>2 DEF DetachedRequest
    <2>3. CASE r.for = "row"
        BY <2>1, <2>3 DEF DetachedRequest, RequestType
    <2>. QED BY <2>2, <2>3
<1>2. ASSUME NEW q \in DOMAIN Detached(B)
      PROVE  q \in RequestType /\ (q.for # "detached" => q.device \in Devices)
    <2>1. PICK r \in DOMAIN B : q = DetachedRequest(r)
        BY DetachedDomain
    <2>. QED BY <1>1, <2>1
<1>. QED BY <1>2

-----------------------------------------------------------------------------
(* A form with some of its controls changed *)

LEMMA WithSaveDisabled ==
    ASSUME NEW f, IsForm(f), NEW x,
           NEW g, g = [f EXCEPT !.saveDisabled = x]
    PROVE  /\ IsForm(g) /\ g.listed = f.listed /\ g.checked = f.checked /\ g.mode = f.mode
           /\ g.select = f.select
           /\ g.rows = f.rows /\ g.saveDisabled = x /\ g.alpine = f.alpine
           /\ g.requests = f.requests
BY DEF IsForm

LEMMA WithSelect ==
    ASSUME NEW f, IsForm(f), NEW x,
           NEW g, g = [f EXCEPT !.select = x]
    PROVE  /\ IsForm(g) /\ g.listed = f.listed /\ g.checked = f.checked /\ g.mode = f.mode
           /\ g.select = x
           /\ g.rows = f.rows /\ g.saveDisabled = f.saveDisabled /\ g.alpine = f.alpine
           /\ g.requests = f.requests
BY DEF IsForm

LEMMA WithRows ==
    ASSUME NEW f, IsForm(f), NEW x,
           NEW g, g = [f EXCEPT !.rows = x]
    PROVE  /\ IsForm(g) /\ g.listed = f.listed /\ g.checked = f.checked /\ g.mode = f.mode
           /\ g.select = f.select
           /\ g.rows = x /\ g.saveDisabled = f.saveDisabled /\ g.alpine = f.alpine
           /\ g.requests = f.requests
BY DEF IsForm

LEMMA WithChecked ==
    ASSUME NEW f, IsForm(f), NEW x,
           NEW g, g = [f EXCEPT !.checked = x]
    PROVE  /\ IsForm(g) /\ g.listed = f.listed /\ g.checked = x /\ g.mode = f.mode
           /\ g.select = f.select
           /\ g.rows = f.rows /\ g.saveDisabled = f.saveDisabled /\ g.alpine = f.alpine
           /\ g.requests = f.requests
BY DEF IsForm

LEMMA WithRequests ==
    ASSUME NEW f, IsForm(f), NEW x,
           NEW g, g = [f EXCEPT !.requests = x]
    PROVE  /\ IsForm(g) /\ g.listed = f.listed /\ g.checked = f.checked /\ g.mode = f.mode
           /\ g.select = f.select
           /\ g.rows = f.rows /\ g.saveDisabled = f.saveDisabled /\ g.alpine = f.alpine
           /\ g.requests = x
BY DEF IsForm

-----------------------------------------------------------------------------
(* What the functions of schedule_form.js do to a form *)

LEMMA SelectTypes ==
    /\ \A disabled \in BOOLEAN :
          /\ Blank(disabled) \in SelectType /\ Loading(disabled) \in SelectType
          /\ Blank(disabled).text = "empty" /\ Loading(disabled).text = "loading"
    /\ Failed \in SelectType /\ Failed.text = "error"
BY DEF Blank, Loading, Failed, Select, SelectType

LEMMA PopulatedSelect ==
    ASSUME NEW d \in Devices, NEW preselected \in LinkValues
    PROVE  /\ PopulatePresetOptions(d, preselected) \in SelectType
           /\ RowOfDevice(d, PopulatePresetOptions(d, preselected))
<1>1. PresetsOf[d] \subseteq Presets /\ PresetsOf[d] \in SUBSET Nat
    BY FormConstants
<1>2. PresetsOf[d] # {} => First(PresetsOf[d]) \in PresetsOf[d]
    BY <1>1, FirstOf
<1>. QED BY <1>1, <1>2 DEF PopulatePresetOptions, Select, SelectType, RowOfDevice, LinkValues

LEMMA SaveDisabledBoolean == ASSUME NEW f, FormTypes(f) PROVE SaveDisabled(f) \in BOOLEAN
BY DEF FormTypes, SelectType, SaveDisabled

\* SaveDisabled reads four controls.
LEMMA SaveDisabledReads ==
    ASSUME NEW f, NEW g, g.checked = f.checked, g.mode = f.mode, g.select = f.select, g.rows = f.rows
    PROVE  SaveDisabled(g) = SaveDisabled(f)
BY DEF SaveDisabled, GetDevicePresetsMap

LEMMA UpdateSaveButton ==
    ASSUME NEW f, FormTypes(f), NEW g, g = UpdateSaveButtonState(f)
    PROVE  /\ FormTypes(g) /\ SameControls(f, g) /\ g.rows = f.rows /\ g.requests = f.requests
           /\ g.select = f.select /\ g.alpine = f.alpine /\ g.saveDisabled = SaveDisabled(g)
           /\ FormBase(f) => FormBase(g)
           /\ RowsCover(f) => RowsCover(g)
           /\ Looked(g)
<1>1. SaveDisabled(f) \in BOOLEAN
    BY SaveDisabledBoolean
<1>2. /\ IsForm(g) /\ g.listed = f.listed /\ g.checked = f.checked /\ g.mode = f.mode
      /\ g.select = f.select
      /\ g.rows = f.rows /\ g.saveDisabled = SaveDisabled(f) /\ g.alpine = f.alpine
      /\ g.requests = f.requests
    <2>1. g = [f EXCEPT !.saveDisabled = SaveDisabled(f)] /\ IsForm(f)
        BY DEF UpdateSaveButtonState, FormTypes
    <2>. QED BY <2>1, WithSaveDisabled
<1>3. SaveDisabled(g) = SaveDisabled(f)
    BY <1>2, SaveDisabledReads
<1>4. FormTypes(g)
    BY <1>1, <1>2 DEF FormTypes
<1>5. f.checked = {} => SaveDisabled(f)
    BY DEF SaveDisabled
<1>. QED BY <1>2, <1>3, <1>4, <1>5 DEF FormBase, RowsCover, SameControls, Settled, Looked

LEMMA LoadForSelected ==
    ASSUME NEW f, FormBase(f), NEW preselected \in LinkValues, NEW by \in {"init", "event"},
           NEW g, g = LoadPresetsForSelectedDevice(f, preselected, by)
    PROVE  /\ FormBase(g) /\ SameControls(f, g) /\ g.rows = f.rows
           /\ Looked(g) /\ (RowsCover(f) => RowsCover(g))
<1>1. IsForm(f) /\ FormTypes(f)
    BY DEF FormBase, FormTypes
<1>2. CASE f.checked = {}
    <2>. DEFINE h == [f EXCEPT !.select = Blank(TRUE)]
    <2>1. g = UpdateSaveButtonState(h)
        BY <1>2 DEF LoadPresetsForSelectedDevice
    <2>2. /\ IsForm(h) /\ h.listed = f.listed /\ h.checked = f.checked /\ h.mode = f.mode
          /\ h.select = Blank(TRUE)
          /\ h.rows = f.rows /\ h.saveDisabled = f.saveDisabled /\ h.alpine = f.alpine
          /\ h.requests = f.requests
        BY <1>1, WithSelect
    <2>. HIDE DEF h
    <2>3. FormTypes(h)
        BY <1>1, <2>2, SelectTypes DEF FormTypes
    <2>4. FormBase(h) /\ SameControls(f, h) /\ h.rows = f.rows /\ (RowsCover(f) => RowsCover(h))
        BY <2>2, <2>3 DEF FormBase, SameControls, RowsCover
    <2>. QED BY <2>1, <2>3, <2>4, UpdateSaveButton DEF SameControls
<1>3. CASE f.checked # {}
    <2>. DEFINE r == [for |-> "select", device |-> First(f.checked),
                      preselected |-> preselected, by |-> by]
                requests == f.requests (+) SetToBag({r})
    <2>1. First(f.checked) \in Devices
        BY <1>3, FirstDevice DEF FormBase, FormTypes
    <2>2. r \in RequestType /\ r.device \in Devices
        BY <2>1 DEF RequestType, LinkValues
    <2>3. g = [f EXCEPT !.select = Loading(FALSE), !.requests = requests]
        BY <1>3 DEF LoadPresetsForSelectedDevice
    <2>. HIDE DEF r
    <2>4. DOMAIN requests = DOMAIN f.requests \cup {r}
        BY JoinedDomain
    <2>. HIDE DEF requests
    <2>5. /\ IsForm(g) /\ g.listed = f.listed /\ g.checked = f.checked /\ g.mode = f.mode
          /\ g.select = Loading(FALSE)
          /\ g.rows = f.rows /\ g.saveDisabled = f.saveDisabled /\ g.alpine = f.alpine
          /\ g.requests = requests
        BY <1>1, <2>3 DEF IsForm
    <2>6. DOMAIN g.requests = DOMAIN f.requests \cup {r}
        BY <2>5, <2>4
    <2>7. FormTypes(g)
        BY <1>1, <2>2, <2>5, <2>6, SelectTypes DEF FormTypes
    <2>8. Looked(g)
        BY <1>3, <2>5, <2>6 DEF Looked, Settled
    <2>. QED BY <2>5, <2>7, <2>8 DEF FormBase, SameControls, RowsCover
<1>. QED BY <1>2, <1>3

LEMMA LoadPerDevice ==
    ASSUME NEW f, FormBase(f), NEW preselected, \A d \in f.checked : preselected[d] \in LinkValues,
           NEW by \in {"init", "event"}, NEW g, g = LoadPresetsPerDevice(f, preselected, by)
    PROVE  /\ FormBase(g) /\ SameControls(f, g) /\ DOMAIN g.rows = g.checked
           /\ Looked(g) /\ RowsCover(g)
<1>1. IsForm(f) /\ FormTypes(f)
    BY DEF FormBase, FormTypes
<1>2. CASE f.checked = {}
    <2>. DEFINE h == [f EXCEPT !.rows = <<>>]
    <2>1. g = UpdateSaveButtonState(h)
        BY <1>2 DEF LoadPresetsPerDevice
    <2>2. /\ IsForm(h) /\ h.listed = f.listed /\ h.checked = f.checked /\ h.mode = f.mode
          /\ h.select = f.select
          /\ h.rows = <<>> /\ h.saveDisabled = f.saveDisabled /\ h.alpine = f.alpine
          /\ h.requests = f.requests
        BY <1>1, WithRows
    <2>. HIDE DEF h
    <2>3. DOMAIN h.rows = {} /\ h.rows \in [DOMAIN h.rows -> SelectType]
        BY <2>2
    <2>4. FormTypes(h)
        BY <1>1, <2>2, <2>3 DEF FormTypes
    <2>5. FormBase(h) /\ SameControls(f, h) /\ DOMAIN h.rows = h.checked /\ RowsCover(h)
        BY <1>2, <2>2, <2>3, <2>4 DEF FormBase, SameControls, RowsCover
    <2>. QED BY <2>1, <2>4, <2>5, UpdateSaveButton DEF SameControls
<1>3. CASE f.checked # {}
    <2>. DEFINE R == {[for |-> "row", device |-> d, by |-> by,
                       preselected |-> preselected[d]] : d \in f.checked}
                rows == [d \in f.checked |-> Loading(TRUE)]
                requests == Detached(f.requests) (+) SetToBag(R)
    <2>1. \A r \in R : r \in RequestType /\ r.device \in Devices
        BY DEF FormBase, FormTypes, RequestType, LinkValues
    <2>2. R # {}
        BY <1>3
    <2>3. g = [f EXCEPT !.rows = rows, !.requests = requests]
        BY <1>3 DEF LoadPresetsPerDevice
    <2>4. /\ DOMAIN rows = f.checked /\ rows \in [DOMAIN rows -> SelectType]
          /\ \A d \in DOMAIN rows : RowOfDevice(d, rows[d])
        BY SelectTypes DEF RowOfDevice
    <2>. HIDE DEF R, rows
    <2>5. DOMAIN requests = DOMAIN Detached(f.requests) \cup R
        BY JoinedDomain
    <2>. HIDE DEF requests
    <2>6. /\ IsForm(g) /\ g.listed = f.listed /\ g.checked = f.checked /\ g.mode = f.mode
          /\ g.select = f.select
          /\ g.rows = rows /\ g.saveDisabled = f.saveDisabled /\ g.alpine = f.alpine
          /\ g.requests = requests
        BY <1>1, <2>3 DEF IsForm
    <2>7. DOMAIN g.requests = DOMAIN Detached(f.requests) \cup R
        BY <2>6, <2>5
    <2>8. /\ DOMAIN g.requests \subseteq RequestType
          /\ \A q \in DOMAIN g.requests : q.for # "detached" => q.device \in Devices
        BY <1>1, <2>1, <2>7, DetachedTypes DEF FormTypes
    <2>9. FormTypes(g)
        BY <1>1, <2>4, <2>6, <2>8 DEF FormTypes
    <2>10. Looked(g)
        BY <1>3, <2>2, <2>6, <2>7 DEF Looked, Settled
    <2>. QED BY <2>4, <2>6, <2>9, <2>10 DEF FormBase, SameControls, RowsCover
<1>. QED BY <1>2, <1>3

LEMMA LoadBoth ==
    ASSUME NEW f, FormBase(f), NEW by \in {"init", "event"}, NEW g, g = LoadPresets(f, by)
    PROVE  FormInv(g) /\ SameControls(f, g) /\ Looked(g)
<1>1. CASE IsMultiDevice(f.checked)
    <2>. DEFINE preselected == [d \in f.checked |-> Null]
    <2>1. g = LoadPresetsPerDevice(f, preselected, by)
        BY <1>1 DEF LoadPresets
    <2>2. \A d \in f.checked : preselected[d] \in LinkValues
        BY DEF LinkValues
    <2>. HIDE DEF preselected
    <2>. QED BY <2>1, <2>2, LoadPerDevice DEF FormInv
<1>2. CASE ~ IsMultiDevice(f.checked)
    <2>1. g = LoadPresetsForSelectedDevice(f, Null, by) /\ Null \in LinkValues
        BY <1>2 DEF LoadPresets, LinkValues
    <2>2. FormBase(g) /\ SameControls(f, g) /\ Looked(g)
        BY <2>1, LoadForSelected
    <2>. QED BY <1>2, <2>2 DEF FormInv, RowsCover, SameControls
<1>. QED BY <1>1, <1>2

LEMMA UpdateMode ==
    ASSUME NEW f, FormBase(f), NEW by \in {"init", "event"},
           NEW g, g = UpdateActionModeVisibility(f, by)
    PROVE  FormInv(g) /\ SameControls(f, g) /\ Looked(g)
<1>1. CASE f.mode = "preset"
    BY <1>1, LoadBoth DEF UpdateActionModeVisibility
<1>2. CASE f.mode # "preset"
    <2>1. g = UpdateSaveButtonState(f) /\ FormTypes(f)
        BY <1>2 DEF UpdateActionModeVisibility, FormBase
    <2>2. FormBase(g) /\ SameControls(f, g) /\ Looked(g)
        BY <2>1, UpdateSaveButton
    <2>. QED BY <1>2, <2>2 DEF FormInv, RowsCover, SameControls
<1>. QED BY <1>1, <1>2

LEMMA FinishedInit ==
    ASSUME NEW f, FormBase(f), NEW g, g = FinishInit(f)
    PROVE  FormInv(g) /\ SameControls(f, g) /\ Looked(g)
<1>. DEFINE h == UpdateActionModeVisibility(f, "event")
<1>1. FormInv(h) /\ SameControls(f, h)
    BY UpdateMode
<1>2. g = UpdateSaveButtonState(h)
    BY DEF FinishInit
<1>. HIDE DEF h
<1>. QED BY <1>1, <1>2, UpdateSaveButton DEF FormInv, FormBase, SameControls

\* The checkboxes, and the controls that follow them.
LEMMA Recounted ==
    ASSUME NEW f, FormBase(f), NEW h, IsForm(h), h.mode = f.mode, h.rows = f.rows,
           h.saveDisabled = f.saveDisabled, h.alpine = f.alpine, h.requests = f.requests,
           h.checked \subseteq h.listed, h.listed \subseteq Devices, h.select \in SelectType,
           NEW g, g = UpdateSaveButtonState(SyncDeviceCount(h))
    PROVE  FormBase(g) /\ SameControls(h, g) /\ Looked(g)
<1>. DEFINE i == SyncDeviceCount(h)
<1>1. i = [h EXCEPT !.alpine = [h.alpine EXCEPT !.count = Cardinality(h.checked)]]
    BY DEF SyncDeviceCount, IsForm
<1>2. [h.alpine EXCEPT !.count = Cardinality(h.checked)]
      = [mode |-> h.mode, count |-> Cardinality(h.checked)]
    BY DEF FormBase, FormTypes
<1>3. i = [h EXCEPT !.alpine = [mode |-> h.mode, count |-> Cardinality(h.checked)]]
    BY <1>1, <1>2
<1>. HIDE DEF i
<1>4. /\ IsForm(i) /\ i.listed = h.listed /\ i.checked = h.checked /\ i.mode = h.mode
      /\ i.select = h.select /\ i.rows = h.rows /\ i.saveDisabled = h.saveDisabled
      /\ i.alpine = [mode |-> h.mode, count |-> Cardinality(h.checked)]
      /\ i.requests = h.requests
    BY <1>3 DEF IsForm
<1>5. FormTypes(i) /\ FormBase(i) /\ SameControls(h, i)
    BY <1>4 DEF FormTypes, FormBase, SameControls
<1>. QED BY <1>5, UpdateSaveButton DEF SameControls, i

LEMMA Rendered ==
    ASSUME NEW f, FormBase(f), devices \subseteq Devices, NEW selected,
           NEW g, g = RenderDevices(f, selected)
    PROVE  /\ FormBase(g) /\ Looked(g)
           /\ g.listed = devices /\ g.checked = selected \cap devices /\ g.mode = f.mode
<1>. DEFINE select == IF devices = {} THEN Blank(TRUE) ELSE [f.select EXCEPT !.disabled = FALSE]
            checked == selected \cap devices
            h1 == [f EXCEPT !.listed = devices]
            h2 == [h1 EXCEPT !.checked = checked]
            h == [h2 EXCEPT !.select = select]
<1>1. select \in SelectType /\ IsForm(f)
    BY SelectTypes DEF FormBase, FormTypes, SelectType
<1>2. g = UpdateSaveButtonState(SyncDeviceCount(h))
    BY Zenon DEF RenderDevices
<1>3. checked \subseteq devices
    OBVIOUS
<1>. HIDE DEF select, checked
<1>4. /\ IsForm(h1) /\ h1.listed = devices /\ h1.checked = f.checked /\ h1.mode = f.mode
      /\ h1.select = f.select /\ h1.rows = f.rows /\ h1.saveDisabled = f.saveDisabled
      /\ h1.alpine = f.alpine /\ h1.requests = f.requests
    BY <1>1 DEF IsForm
<1>. HIDE DEF h1
<1>5. /\ IsForm(h2) /\ h2.listed = devices /\ h2.checked = checked /\ h2.mode = f.mode
      /\ h2.select = f.select /\ h2.rows = f.rows /\ h2.saveDisabled = f.saveDisabled
      /\ h2.alpine = f.alpine /\ h2.requests = f.requests
    BY <1>4, WithChecked
<1>. HIDE DEF h2
<1>6. /\ IsForm(h) /\ h.listed = devices /\ h.checked = checked /\ h.mode = f.mode
      /\ h.select = select /\ h.rows = f.rows /\ h.saveDisabled = f.saveDisabled
      /\ h.alpine = f.alpine /\ h.requests = f.requests
    BY <1>5, WithSelect
<1>. HIDE DEF h
<1>7. FormBase(g) /\ SameControls(h, g) /\ Looked(g)
    BY <1>1, <1>2, <1>3, <1>6, Recounted
<1>. QED BY <1>6, <1>7 DEF SameControls, checked

LEMMA RadioSet ==
    ASSUME NEW f, FormBase(f), NEW mode \in {"state", "preset"}, NEW g, g = SetRadio(f, mode)
    PROVE  FormBase(g) /\ g.listed = f.listed /\ g.checked = f.checked /\ g.mode = mode
<1>1. IsForm(f) /\ f.alpine = [mode |-> f.mode, count |-> Cardinality(f.checked)]
    BY DEF FormBase, FormTypes
<1>2. g = [f EXCEPT !.mode = mode, !.alpine = [f.alpine EXCEPT !.mode = mode]]
    BY <1>1 DEF SetRadio, IsForm
<1>3. [f.alpine EXCEPT !.mode = mode] = [mode |-> mode, count |-> Cardinality(f.checked)]
    BY <1>1
<1>4. /\ IsForm(g) /\ g.listed = f.listed /\ g.checked = f.checked /\ g.mode = mode
      /\ g.select = f.select /\ g.rows = f.rows /\ g.saveDisabled = f.saveDisabled
      /\ g.alpine = [mode |-> mode, count |-> Cardinality(f.checked)] /\ g.requests = f.requests
    BY <1>1, <1>2, <1>3 DEF IsForm
<1>. QED BY <1>4 DEF FormTypes, FormBase

\* What init() reads of the schedule it edits.
LEMMA Prefilled ==
    ASSUME NEW f, FormBase(f), devices \subseteq Devices, fetched \in FetchedType,
           NEW g, g = FillAction(f)
    PROVE  FormInv(g) /\ Looked(g) /\ g.listed = devices
<1>. DEFINE rendered == RenderDevices(f, DOMAIN fetched.links)
            radio == SetRadio(rendered, fetched.type)
            moded == UpdateActionModeVisibility(radio, "event")
            saved == [d \in Devices |-> IF d \in DOMAIN fetched.links THEN fetched.links[d] ELSE Null]
<1>1. g = IF fetched.type = "state" THEN moded
          ELSE IF Cardinality(DOMAIN fetched.links) > 1 THEN LoadPresetsPerDevice(moded, saved, "init")
          ELSE LoadPresetsForSelectedDevice(moded, SavedSingle, "init")
    BY Zenon DEF FillAction
<1>2. /\ fetched.type \in {"state", "preset"} /\ fetched.ps \in LinkValues
      /\ DOMAIN fetched.links \subseteq Devices
      /\ \A d \in DOMAIN fetched.links : fetched.links[d] \in LinkValues
    BY DEF FetchedType
<1>3. FormBase(rendered) /\ rendered.listed = devices
    BY Rendered
<1>. HIDE DEF rendered
<1>4. FormBase(radio) /\ radio.listed = devices
    BY <1>2, <1>3, RadioSet
<1>. HIDE DEF radio
<1>5. FormInv(moded) /\ moded.listed = devices /\ Looked(moded)
    BY <1>4, UpdateMode DEF SameControls
<1>6. moded.checked \subseteq Devices
    BY <1>5 DEF FormInv, FormBase, FormTypes
<1>. HIDE DEF moded
<1>7. \A d \in moded.checked : saved[d] \in LinkValues
    BY <1>2, <1>6 DEF LinkValues
<1>8. SavedSingle \in LinkValues
    <2>1. CASE fetched.links = <<>> \/ fetched.links[First(DOMAIN fetched.links)] = Null
        BY <1>2, <2>1 DEF SavedSingle
    <2>2. CASE ~ (fetched.links = <<>> \/ fetched.links[First(DOMAIN fetched.links)] = Null)
        <3>1. DOMAIN fetched.links # {}
            <4>1. fetched.links = [d \in DOMAIN fetched.links |-> fetched.links[d]]
                BY DEF FetchedType
            <4>. QED BY <2>2, <4>1, EmptyFunction
        <3>2. First(DOMAIN fetched.links) \in DOMAIN fetched.links
            BY <1>2, <3>1, FirstDevice
        <3>. QED BY <1>2, <2>2, <3>2 DEF SavedSingle
    <2>. QED BY <2>1, <2>2
<1>. HIDE DEF saved
<1>9. CASE fetched.type = "state"
    BY <1>1, <1>5, <1>9
<1>10. CASE fetched.type # "state" /\ Cardinality(DOMAIN fetched.links) > 1
    <2>1. g = LoadPresetsPerDevice(moded, saved, "init")
        BY <1>1, <1>10
    <2>. QED BY <1>5, <1>7, <2>1, LoadPerDevice DEF FormInv, SameControls
<1>11. CASE fetched.type # "state" /\ ~ (Cardinality(DOMAIN fetched.links) > 1)
    <2>1. g = LoadPresetsForSelectedDevice(moded, SavedSingle, "init")
        BY <1>1, <1>11
    <2>. QED BY <1>5, <1>8, <2>1, LoadForSelected DEF FormInv, SameControls
<1>. QED BY <1>9, <1>10, <1>11

LEMMA InitForms ==
    FormInv(InitForm) /\ Looked(InitForm) /\ InitForm.listed = {} /\ InitForm.saveDisabled
<1>. DEFINE f == InitForm
<1>1. /\ IsForm(f) /\ f.listed = {} /\ f.checked = {} /\ f.mode = "state"
      /\ f.select = Blank(FALSE)
      /\ f.rows = <<>> /\ f.saveDisabled = TRUE /\ f.alpine = [mode |-> "state", count |-> 0]
      /\ f.requests = EmptyBag
    BY DEF InitForm, IsForm
<1>. HIDE DEF f
<1>2. Cardinality({}) = 0 /\ DOMAIN f.rows = {} /\ f.rows \in [DOMAIN f.rows -> SelectType]
      /\ DOMAIN f.requests = {}
    BY <1>1, FS_EmptySet, EmptyBagDomain
<1>3. FormTypes(f)
    BY <1>1, <1>2, SelectTypes DEF FormTypes
<1>4. SaveDisabled(f)
    BY <1>1 DEF SaveDisabled
<1>5. FormInv(f) /\ Looked(f)
    BY <1>1, <1>2, <1>3, <1>4 DEF FormInv, FormBase, RowsCover, Settled, Looked
<1>. QED BY <1>1, <1>5 DEF f

\* NumberOf of a select, and what it makes of a request.
LEMMA NumberType == ASSUME NEW s \in SelectType PROVE NumberOf(s) \in LinkValues \cup {0}
BY DEF SelectType, NumberOf, LinkValues, None

LEMMA MapTypes ==
    ASSUME NEW f, FormTypes(f)
    PROVE  /\ DOMAIN GetDevicePresetsMap(f) \subseteq Devices
           /\ GetDevicePresetsMap(f) \in [DOMAIN GetDevicePresetsMap(f) -> LinkValues \cup {0}]
BY NumberType DEF FormTypes, GetDevicePresetsMap

LEMMA PayloadTypes ==
    ASSUME NEW f, FormTypes(f), NEW p, p = Payload(f)
    PROVE  /\ p \in Payloads
           /\ p.type = "preset" /\ ~ IsMultiDevice(p.ids) => DOMAIN p.presets = {}
<1>. DEFINE multi == f.mode = "preset" /\ IsMultiDevice(f.checked)
            map == GetDevicePresetsMap(f)
            ps == CASE f.mode = "state" -> Null
                    [] multi -> IF First(f.checked) \in DOMAIN map THEN map[First(f.checked)] ELSE Null
                    [] OTHER -> NumberOf(f.select)
            presets == IF multi THEN map ELSE <<>>
<1>1. p = [type |-> f.mode, ids |-> f.checked, presets |-> presets, ps |-> ps]
    BY DEF Payload
<1>2. DOMAIN map \subseteq Devices /\ map \in [DOMAIN map -> LinkValues \cup {0}]
    BY MapTypes
<1>. HIDE DEF map
<1>3. presets \in UNION {[S -> LinkValues \cup {0}] : S \in SUBSET Devices}
    <2>1. CASE multi
        BY <1>2, <2>1
    <2>2. CASE ~ multi
        <3>1. presets = <<>> /\ presets \in [{} -> LinkValues \cup {0}]
            BY <2>2
        <3>. QED BY <3>1
    <2>. QED BY <2>1, <2>2
<1>4. ps \in LinkValues \cup {0}
    <2>1. NumberOf(f.select) \in LinkValues \cup {0}
        BY NumberType DEF FormTypes
    <2>. QED BY <1>2, <2>1 DEF LinkValues, FormTypes
<1>5. ~ multi => DOMAIN presets = {}
    OBVIOUS
<1>. HIDE DEF ps, presets
<1>6. /\ p.type = f.mode /\ p.ids = f.checked /\ p.presets = presets /\ p.ps = ps
      /\ p = [type |-> p.type, ids |-> p.ids, presets |-> p.presets, ps |-> p.ps]
    BY <1>1
<1>7. f.mode \in {"state", "preset"} /\ f.checked \subseteq Devices
    BY DEF FormTypes
<1>8. p \in Payloads
    BY <1>3, <1>4, <1>6, <1>7 DEF Payloads
<1>. QED BY <1>5, <1>6, <1>8

\* "Run now" and Save read the same controls.
LEMMA PreviewStores ==
    ASSUME NEW f, f.mode = "preset", Preview(f) # <<>>
    PROVE  /\ DOMAIN Preview(f) = Payload(f).ids
           /\ Preview(f) = ResolveDevicePresets(Payload(f), [type |-> "preset", ps |-> Payload(f).ps])
<1>. DEFINE p == Payload(f)
<1>1. CASE IsMultiDevice(f.checked)
    <2>1. /\ p.ids = f.checked /\ p.presets = GetDevicePresetsMap(f)
          /\ Preview(f) = [d \in f.checked |-> GetDevicePresetsMap(f)[d]]
          /\ f.checked \subseteq DOMAIN GetDevicePresetsMap(f)
        BY <1>1 DEF Payload, Preview
    <2>. HIDE DEF p
    <2>. QED BY <2>1 DEF ResolveDevicePresets, p
<1>2. CASE ~ IsMultiDevice(f.checked)
    <2>1. /\ p.ids = f.checked /\ p.presets = <<>> /\ p.ps = NumberOf(f.select)
          /\ Preview(f) = [d \in f.checked |-> NumberOf(f.select)]
        BY <1>2 DEF Payload, Preview
    <2>. HIDE DEF p
    <2>. QED BY <2>1 DEF ResolveDevicePresets, p
<1>. QED BY <1>1, <1>2

-----------------------------------------------------------------------------
(* The handlers: those that change no more than the form, and init() *)

LEMMA ServerStays ==
    UNCHANGED <<serverVars, editing, saves>> /\ SavesInv /\ ServerInv /\ AloneInv
    => SavesInv' /\ ServerInv' /\ AloneInv'
<1>. SUFFICES ASSUME UNCHANGED <<serverVars, editing, saves>>, SavesInv, ServerInv, AloneInv
              PROVE  SavesInv' /\ ServerInv' /\ AloneInv'
    OBVIOUS
<1>1. /\ devices' = devices /\ actions' = actions /\ schedules' = schedules
      /\ editing' = editing /\ saves' = saves
    BY DEF serverVars
<1>2. Created' = Created /\ Ended2' = Ended2
    BY <1>1 DEF Created, Ended2
<1>3. SavesInv'
    BY <1>1 DEF SavesInv
<1>4. ServerInv'
    BY <1>1, <1>2 DEF ServerInv
<1>5. AloneInv'
    BY <1>1 DEF AloneInv
<1>. QED BY <1>3, <1>4, <1>5

LEMMA RunStays == UNCHANGED run /\ RunInv => RunInv'
BY DEF RunInv

LEMMA RestStays ==
    ASSUME LoadInv, FormsInv, SavesInv, ServerInv, AloneInv,
           UNCHANGED <<serverVars, editing, saves>>, UNCHANGED <<open, loadVars, form>>
    PROVE  LoadInv' /\ FormsInv' /\ SavesInv' /\ ServerInv' /\ AloneInv'
<1>1. /\ editing' = editing /\ open' = open /\ initPc' = initPc /\ fetched' = fetched
      /\ knownAction' = knownAction /\ saves' = saves /\ form' = form
    BY DEF loadVars
<1>2. LoadInv'
    BY <1>1 DEF LoadInv
<1>3. FormsInv'
    BY <1>1 DEF FormsInv
<1>. QED BY <1>2, <1>3, ServerStays

LEMMA FormStep ==
    ASSUME LoadInv, FormsInv, UNCHANGED <<editing, open, loadVars, saves>>,
           FormInv(form'), form'.listed = form.listed,
           Settled(form) => Settled(form'), initPc \in Before => form'.saveDisabled
    PROVE  LoadInv' /\ FormsInv'
<1>1. /\ editing' = editing /\ open' = open /\ initPc' = initPc /\ fetched' = fetched
      /\ knownAction' = knownAction /\ saves' = saves
    BY DEF loadVars
<1>2. LoadInv'
    BY <1>1 DEF LoadInv
<1>3. FormsInv'
    BY <1>1 DEF FormsInv
<1>. QED BY <1>2, <1>3

LEMMA LookedStep ==
    ASSUME LoadInv, FormsInv, UNCHANGED <<editing, open, loadVars, saves>>,
           FormInv(form'), form'.listed = form.listed, Looked(form')
    PROVE  LoadInv' /\ FormsInv'
<1>1. initPc \in Before => form'.checked = {}
    BY DEF LoadInv, FormInv, FormBase, FormTypes
<1>. QED BY <1>1, FormStep DEF Looked

LEMMA ToggleDeviceStep ==
    ASSUME LoadInv, FormsInv, NEW d \in Devices, ToggleDevice(d)
    PROVE  LoadInv' /\ FormsInv'
<1>. DEFINE checked == IF d \in form.checked THEN form.checked \ {d} ELSE form.checked \cup {d}
            h == [form EXCEPT !.checked = checked]
            f == UpdateSaveButtonState(SyncDeviceCount(h))
            g == IF f.mode = "preset" THEN LoadPresets(f, "event") ELSE f
<1>1. d \in form.listed /\ form' = g /\ UNCHANGED <<editing, open, loadVars, saves>>
    BY Zenon DEF ToggleDevice, Edit
<1>2. FormBase(form) /\ FormTypes(form) /\ IsForm(form)
    BY DEF FormsInv, FormInv, FormBase, FormTypes
<1>3. checked \subseteq form.listed
    BY <1>1, <1>2 DEF FormTypes
<1>. HIDE DEF checked
<1>4. /\ IsForm(h) /\ h.listed = form.listed /\ h.checked = checked /\ h.mode = form.mode
      /\ h.select = form.select /\ h.rows = form.rows /\ h.saveDisabled = form.saveDisabled
      /\ h.alpine = form.alpine /\ h.requests = form.requests
    BY <1>2, WithChecked
<1>. HIDE DEF h
<1>5. FormBase(f) /\ SameControls(h, f) /\ Looked(f)
    BY <1>2, <1>3, <1>4, Recounted DEF FormTypes
<1>. HIDE DEF f
<1>6. FormInv(g) /\ Looked(g) /\ g.listed = form.listed
    <2>1. CASE f.mode = "preset"
        BY <1>4, <1>5, <2>1, LoadBoth DEF SameControls
    <2>2. CASE f.mode # "preset"
        BY <1>4, <1>5, <2>2 DEF FormInv, RowsCover, SameControls
    <2>. QED BY <2>1, <2>2
<1>. HIDE DEF g
<1>. QED BY <1>1, <1>6, LookedStep

LEMMA ChooseModeStep ==
    ASSUME LoadInv, FormsInv, NEW mode \in {"state", "preset"}, ChooseMode(mode)
    PROVE  LoadInv' /\ FormsInv'
<1>. DEFINE f == SetRadio(form, mode)
<1>1. form' = UpdateActionModeVisibility(f, "event") /\ UNCHANGED <<editing, open, loadVars, saves>>
    BY DEF ChooseMode, Edit
<1>2. FormBase(f) /\ f.listed = form.listed
    BY RadioSet DEF FormsInv, FormInv
<1>. HIDE DEF f
<1>3. FormInv(form') /\ Looked(form') /\ form'.listed = form.listed
    BY <1>1, <1>2, UpdateMode DEF SameControls
<1>. QED BY <1>1, <1>3, LookedStep

LEMMA PickPresetStep ==
    ASSUME LoadInv, FormsInv, NEW p \in Presets, PickPreset(p)
    PROVE  LoadInv' /\ FormsInv'
<1>. DEFINE select == [form.select EXCEPT !.value = p, !.text = "filled"]
<1>1. UNCHANGED <<editing, open, loadVars, saves>>
    BY DEF PickPreset, Edit
<1>2. FormBase(form) /\ FormTypes(form) /\ IsForm(form) /\ form.select \in SelectType
    BY DEF FormsInv, FormInv, FormBase, FormTypes
<1>3. form' = [form EXCEPT !.select = select]
    BY <1>2 DEF PickPreset, Edit, IsForm
<1>4. select \in SelectType /\ select.disabled = form.select.disabled
    BY <1>2 DEF SelectType
<1>. HIDE DEF select
<1>5. /\ IsForm(form') /\ form'.listed = form.listed /\ form'.checked = form.checked
      /\ form'.mode = form.mode /\ form'.select = select /\ form'.rows = form.rows
      /\ form'.saveDisabled = form.saveDisabled /\ form'.alpine = form.alpine
      /\ form'.requests = form.requests
    BY <1>2, <1>3, WithSelect
<1>6. FormTypes(form')
    BY <1>2, <1>4, <1>5 DEF FormTypes
<1>7. FormInv(form')
    BY <1>2, <1>5, <1>6 DEF FormsInv, FormInv, FormBase, RowsCover
<1>8. SaveDisabled(form') = SaveDisabled(form)
    BY <1>4, <1>5 DEF SaveDisabled, GetDevicePresetsMap
<1>. QED BY <1>1, <1>5, <1>7, <1>8, FormStep DEF LoadInv, Settled

LEMMA PickRowPresetStep ==
    ASSUME LoadInv, FormsInv, NEW d \in Devices, NEW p \in Presets, PickRowPreset(d, p)
    PROVE  LoadInv' /\ FormsInv'
<1>. DEFINE row == [form.rows[d] EXCEPT !.value = p, !.text = "filled"]
            rows == [form.rows EXCEPT ![d] = row]
            f == [form EXCEPT !.rows = rows]
<1>1. /\ UNCHANGED <<editing, open, loadVars, saves>>
      /\ d \in DOMAIN form.rows /\ form.rows[d].text \in {"filled", "unset"}
      /\ p \in PresetsOf[d]
    BY DEF PickRowPreset, Edit
<1>2. FormBase(form) /\ FormTypes(form) /\ IsForm(form) /\ form.rows[d] \in SelectType
    BY <1>1 DEF FormsInv, FormInv, FormBase, FormTypes
<1>3. form' = UpdateSaveButtonState(f)
    BY <1>1, <1>2 DEF PickRowPreset, Edit, IsForm
<1>4. row \in SelectType /\ RowOfDevice(d, row)
    <2>1. form.rows[d].list = d
        BY <1>1, <1>2 DEF FormBase, RowOfDevice
    <2>2. row.list = d /\ row.value = p /\ row \in SelectType
        BY <1>2, <2>1 DEF SelectType
    <2>. QED BY <1>1, <2>2 DEF RowOfDevice
<1>. HIDE DEF row
<1>5. /\ DOMAIN rows = DOMAIN form.rows /\ rows \in [DOMAIN rows -> SelectType]
      /\ \A e \in DOMAIN rows : RowOfDevice(e, rows[e])
    BY <1>1, <1>2, <1>4 DEF FormBase, FormTypes
<1>. HIDE DEF rows
<1>6. /\ IsForm(f) /\ f.listed = form.listed /\ f.checked = form.checked /\ f.mode = form.mode
      /\ f.select = form.select /\ f.rows = rows /\ f.saveDisabled = form.saveDisabled
      /\ f.alpine = form.alpine /\ f.requests = form.requests
    BY <1>2, WithRows
<1>. HIDE DEF f
<1>7. FormTypes(f)
    BY <1>2, <1>5, <1>6 DEF FormTypes
<1>8. FormBase(f) /\ RowsCover(f)
    BY <1>5, <1>6, <1>7 DEF FormsInv, FormInv, FormBase, RowsCover
<1>9. FormInv(form') /\ Looked(form') /\ form'.listed = form.listed
    BY <1>3, <1>6, <1>7, <1>8, UpdateSaveButton DEF FormInv, SameControls
<1>. QED BY <1>1, <1>9, LookedStep

LEMMA InitThrowsStep == LoadInv /\ FormsInv /\ InitThrows => LoadInv' /\ FormsInv'
<1>. SUFFICES ASSUME LoadInv, FormsInv, InitThrows PROVE LoadInv' /\ FormsInv'
    OBVIOUS
<1>1. /\ initPc \in Before /\ initPc' = "failed" /\ form' = UpdateSaveButtonState(form)
      /\ editing' = editing /\ open' = open /\ fetched' = fetched /\ knownAction' = knownAction
      /\ saves' = saves
    BY DEF InitThrows, Before
<1>2. FormInv(form') /\ Looked(form') /\ form'.listed = form.listed /\ form'.checked = form.checked
    BY <1>1, UpdateSaveButton DEF FormsInv, FormInv, FormBase, SameControls
<1>3. form.checked = {}
    BY <1>1 DEF LoadInv, FormsInv, FormInv, FormBase, FormTypes
<1>4. LoadInv'
    BY <1>1, <1>2, <1>3 DEF LoadInv, Looked, Before
<1>5. FormsInv'
    BY <1>1, <1>2 DEF FormsInv, Looked
<1>. QED BY <1>4, <1>5

LEMMA LoadSettingsStep == LoadInv /\ FormsInv /\ LoadSettings => LoadInv' /\ FormsInv'
<1>. SUFFICES ASSUME LoadInv, FormsInv, LoadSettings PROVE LoadInv' /\ FormsInv'
    OBVIOUS
<1>1. /\ initPc = "settings" /\ initPc' = (IF editing THEN "schedule" ELSE "devices") /\ form' = form
      /\ editing' = editing /\ open' = open /\ fetched' = fetched /\ knownAction' = knownAction
      /\ saves' = saves
    BY DEF LoadSettings
<1>2. LoadInv'
    BY <1>1 DEF LoadInv, Before
<1>3. FormsInv'
    BY <1>1 DEF FormsInv
<1>. QED BY <1>2, <1>3

LEMMA LoadScheduleStep ==
    LoadInv /\ FormsInv /\ ServerInv /\ LoadSchedule => LoadInv' /\ FormsInv'
<1>. SUFFICES ASSUME LoadInv, FormsInv, ServerInv, LoadSchedule PROVE LoadInv' /\ FormsInv'
    OBVIOUS
<1>. DEFINE schedule == schedules[1]
            action == actions[schedule.action]
            links == [d \in DOMAIN schedule.links |-> Effective(schedule.links[d], action.ps)]
<1>1. /\ initPc = "schedule" /\ 1 \in DOMAIN schedules /\ initPc' = "devices" /\ form' = form
      /\ fetched' = [action |-> schedule.action, type |-> action.type, ps |-> action.ps, links |-> links]
      /\ editing' = editing /\ open' = open /\ knownAction' = knownAction /\ saves' = saves
    BY DEF LoadSchedule
<1>2. editing /\ saves = <<>>
    BY <1>1 DEF LoadInv, Before
<1>3. schedule.action = 1 /\ action \in ActionType /\ action.ps \in LinkValues
    BY <1>1, <1>2 DEF ServerInv
<1>4. /\ DOMAIN schedule.links \subseteq Devices
      /\ \A d \in DOMAIN schedule.links : schedule.links[d] \in LinkValues
    BY <1>1, <1>2 DEF ServerInv
<1>. HIDE DEF schedule, action
<1>5. links \in UNION {[S -> LinkValues] : S \in SUBSET Devices}
    <2>1. links \in [DOMAIN schedule.links -> LinkValues]
        BY <1>3, <1>4 DEF Effective
    <2>. HIDE DEF links
    <2>. QED BY <1>4, <2>1
<1>. HIDE DEF links
<1>6. fetched' \in FetchedType /\ fetched'.action = 1
    BY <1>1, <1>3, <1>5 DEF FetchedType, ActionType
<1>7. LoadInv'
    BY <1>1, <1>2, <1>6 DEF LoadInv, Before
<1>8. FormsInv'
    BY <1>1 DEF FormsInv
<1>. QED BY <1>7, <1>8

LEMMA NoScheduleType == NoSchedule \in FetchedType
<1>1. <<>> \in [{} -> LinkValues]
    OBVIOUS
<1>2. <<>> \in UNION {[S -> LinkValues] : S \in SUBSET Devices}
    BY <1>1
<1>. QED BY <1>2 DEF NoSchedule, FetchedType, LinkValues, None

LEMMA LoadDevicesStep ==
    LoadInv /\ FormsInv /\ ServerInv /\ LoadDevices => LoadInv' /\ FormsInv'
<1>. SUFFICES ASSUME LoadInv, FormsInv, ServerInv, LoadDevices PROVE LoadInv' /\ FormsInv'
    OBVIOUS
<1>. DEFINE f == IF editing THEN FillAction(form) ELSE RenderDevices(form, {})
<1>1. /\ open /\ initPc = "devices" /\ initPc' = (IF Awaits(f) THEN "presets" ELSE "done")
      /\ form' = (IF Awaits(f) THEN f ELSE FinishInit(f))
      /\ knownAction' = fetched.action /\ fetched' = NoSchedule
      /\ editing' = editing /\ open' = open /\ saves' = saves
    BY DEF LoadDevices, ExistingActionId
<1>2. FormBase(form) /\ devices \subseteq Devices /\ fetched \in FetchedType /\ editing \in BOOLEAN
    BY DEF FormsInv, FormInv, ServerInv, LoadInv
<1>3. FormInv(f) /\ Looked(f)
    <2>1. CASE editing
        <3>1. f = FillAction(form)
            BY <2>1
        <3>. HIDE DEF f
        <3>. QED BY <1>2, <3>1, Prefilled
    <2>2. CASE ~ editing
        <3>1. f = RenderDevices(form, {})
            BY <2>2
        <3>. HIDE DEF f
        <3>2. FormBase(f) /\ Looked(f) /\ f.checked = {}
            BY <1>2, <3>1, Rendered
        <3>. QED BY <3>2, FS_EmptySet DEF FormInv, RowsCover, IsMultiDevice
    <2>. QED BY <1>2, <2>1, <2>2
<1>. HIDE DEF f
<1>4. FormInv(form') /\ Looked(form')
    BY <1>1, <1>3, FinishedInit DEF FormInv
<1>5. NoSchedule \in FetchedType
    BY NoScheduleType
<1>6. fetched.action \in {None, 1} /\ (~ editing => fetched.action = None) /\ (editing => fetched.action = 1)
    BY <1>1 DEF LoadInv, FetchedType, NoSchedule, None
<1>7. LoadInv'
    BY <1>1, <1>2, <1>5, <1>6 DEF LoadInv, Before
<1>8. FormsInv'
    BY <1>4 DEF FormsInv, Looked
<1>. QED BY <1>7, <1>8

\* The element that a preset request fills, wherever it is by then.
WithAnswer(f, r, options) ==
    LET left == [f EXCEPT !.requests = @ (-) SetToBag({r})] IN
    UpdateSaveButtonState(
        CASE r.for = "select" -> [left EXCEPT !.select = options]
          [] r.for = "row" -> [left EXCEPT !.rows[RowOf(r.device)] = options]
          [] OTHER -> left)

LEMMA Answered ==
    ASSUME NEW f, FormInv(f), NEW r \in DOMAIN f.requests, NEW options \in SelectType,
           r.for = "row" => RowOfDevice(r.device, options),
           NEW g, g = WithAnswer(f, r, options)
    PROVE  FormInv(g) /\ Looked(g) /\ g.listed = f.listed
<1>. DEFINE left == [f EXCEPT !.requests = @ (-) SetToBag({r})]
            requests == f.requests (-) SetToBag({r})
            rows == [f.rows EXCEPT ![r.device] = options]
            h == CASE r.for = "select" -> [left EXCEPT !.select = options]
                   [] r.for = "row" -> [left EXCEPT !.rows[RowOf(r.device)] = options]
                   [] OTHER -> left
<1>1. FormBase(f) /\ FormTypes(f) /\ IsForm(f) /\ RowsCover(f)
    BY DEF FormInv, FormBase, FormTypes
<1>2. g = UpdateSaveButtonState(h)
    BY DEF WithAnswer
<1>3. left = [f EXCEPT !.requests = requests]
    OBVIOUS
<1>4. DOMAIN requests \subseteq DOMAIN f.requests
    BY RemovedDomain
<1>. HIDE DEF requests, left
<1>5. /\ IsForm(left) /\ left.listed = f.listed /\ left.checked = f.checked
      /\ left.mode = f.mode
      /\ left.select = f.select /\ left.rows = f.rows /\ left.saveDisabled = f.saveDisabled
      /\ left.alpine = f.alpine /\ left.requests = requests
    BY <1>1, <1>3 DEF IsForm
<1>6. FormTypes(left) /\ FormBase(left) /\ RowsCover(left)
    BY <1>1, <1>4, <1>5 DEF FormTypes, FormBase, RowsCover
<1>7. FormTypes(h) /\ FormBase(h) /\ RowsCover(h) /\ h.listed = f.listed
    <2>1. CASE r.for = "select"
        <3>1. h = [left EXCEPT !.select = options]
            BY <2>1
        <3>. HIDE DEF h
        <3>2. /\ IsForm(h) /\ h.listed = left.listed /\ h.checked = left.checked
              /\ h.mode = left.mode /\ h.select = options /\ h.rows = left.rows
              /\ h.saveDisabled = left.saveDisabled /\ h.alpine = left.alpine
              /\ h.requests = left.requests
            BY <1>5, <3>1 DEF IsForm
        <3>3. FormTypes(h)
            BY <1>6, <3>2 DEF FormTypes
        <3>. QED BY <1>5, <1>6, <3>2, <3>3 DEF FormBase, RowsCover
    <2>2. CASE r.for = "row"
        <3>1. h = [left EXCEPT !.rows = rows]
            BY <1>5, <2>2 DEF RowOf, IsForm
        <3>2. /\ DOMAIN rows = DOMAIN f.rows /\ rows \in [DOMAIN rows -> SelectType]
              /\ \A d \in DOMAIN rows : RowOfDevice(d, rows[d])
            BY <1>1, <2>2 DEF FormBase, FormTypes
        <3>. HIDE DEF h, rows
        <3>3. /\ IsForm(h) /\ h.listed = left.listed /\ h.checked = left.checked
              /\ h.mode = left.mode /\ h.select = left.select /\ h.rows = rows
              /\ h.saveDisabled = left.saveDisabled /\ h.alpine = left.alpine
              /\ h.requests = left.requests
            BY <1>5, <3>1 DEF IsForm
        <3>4. FormTypes(h)
            BY <1>5, <1>6, <3>2, <3>3 DEF FormTypes
        <3>. QED BY <1>5, <1>6, <3>2, <3>3, <3>4 DEF FormBase, RowsCover
    <2>3. CASE r.for \notin {"select", "row"}
        <3>1. h = left
            BY <2>3
        <3>. QED BY <1>5, <1>6, <3>1
    <2>. QED BY <2>1, <2>2, <2>3
<1>. HIDE DEF h
<1>. QED BY <1>7, <1>2, UpdateSaveButton DEF FormInv, SameControls

LEMMA AnswerPresetsStep ==
    ASSUME LoadInv, FormsInv, ServerInv, NEW r \in DOMAIN form.requests, NEW ok \in BOOLEAN,
           AnswerPresets(r, ok)
    PROVE  LoadInv' /\ FormsInv'
<1>. DEFINE options == IF ok THEN PopulatePresetOptions(r.device, r.preselected) ELSE Failed
            f == WithAnswer(form, r, options)
<1>1. /\ open /\ (ok /\ r.for # "detached" => r.device \in devices) /\ ResumeInit(f)
      /\ editing' = editing /\ open' = open /\ fetched' = fetched /\ knownAction' = knownAction
      /\ saves' = saves
    BY Zenon DEF AnswerPresets, WithAnswer
<1>2. FormInv(form) /\ r \in RequestType /\ (r.for # "detached" => r.device \in Devices)
    BY DEF FormsInv, FormInv, FormBase, FormTypes
<1>3. r.preselected \in LinkValues /\ r.for \in {"select", "row", "detached"}
    BY <1>2 DEF RequestType, LinkValues
<1>4. FormInv(f) /\ Looked(f) /\ f.listed = form.listed
    <2>1. CASE r.for # "detached"
        <3>1. options \in SelectType /\ RowOfDevice(r.device, options)
            BY <1>1, <1>2, <1>3, <2>1, PopulatedSelect, SelectTypes DEF RowOfDevice
        <3>. HIDE DEF options
        <3>. QED BY <1>2, <3>1, Answered
    \* Nothing that was detached is filled.
    <2>2. CASE r.for = "detached"
        <3>1. f = WithAnswer(form, r, Failed) /\ Failed \in SelectType
            BY <2>2, SelectTypes DEF WithAnswer
        <3>. HIDE DEF f
        <3>. QED BY <1>2, <2>2, <3>1, Answered
    <2>. QED BY <2>1, <2>2
<1>. HIDE DEF f
<1>5. CASE initPc = "presets" /\ ~ Awaits(f)
    <2>1. initPc' = "done" /\ form' = FinishInit(f)
        BY <1>1, <1>5 DEF ResumeInit
    <2>2. FormInv(form') /\ Looked(form')
        BY <1>4, <2>1, FinishedInit DEF FormInv
    <2>3. LoadInv'
        BY <1>1, <1>5, <2>1 DEF LoadInv, Before
    <2>4. FormsInv'
        BY <2>2 DEF FormsInv, Looked
    <2>. QED BY <2>3, <2>4
<1>6. CASE ~ (initPc = "presets" /\ ~ Awaits(f))
    <2>1. initPc' = initPc /\ form' = f
        BY <1>1, <1>6 DEF ResumeInit
    <2>. QED BY <1>1, <1>4, <2>1, LookedStep DEF loadVars
<1>. QED BY <1>5, <1>6

-----------------------------------------------------------------------------
(* The handlers that save *)

LEMMA SubmitStep ==
    ASSUME FormPageInv, Submit
    PROVE  LoadInv' /\ FormsInv' /\ SavesInv' /\ AloneInv'
<1>. DEFINE new == [pc |-> "action", sends |-> Payload(form), action |-> knownAction,
                    alone |-> \A j \in DOMAIN saves : saves[j].pc = "failed"]
<1>1. /\ open /\ ~ form.saveDisabled /\ Len(saves) < MaxSaves /\ saves' = Append(saves, new)
      /\ form' = [form EXCEPT !.saveDisabled = TRUE]
      /\ editing' = editing /\ open' = open /\ initPc' = initPc /\ fetched' = fetched
      /\ knownAction' = knownAction /\ actions' = actions
    BY DEF Submit, loadVars, serverVars
<1>2. LoadInv /\ FormsInv /\ SavesInv /\ AloneInv /\ saves \in Seq(SaveType) /\ MaxSaves \in Nat
    BY FormConstants DEF FormPageInv, SavesInv
<1>3. FormBase(form) /\ FormTypes(form) /\ IsForm(form) /\ RowsCover(form)
    BY <1>2 DEF FormsInv, FormInv, FormBase, FormTypes
<1>4. initPc \notin Before /\ knownAction \in {None, 1} /\ (editing => knownAction = 1)
    BY <1>1, <1>2 DEF LoadInv
<1>5. /\ new \in SaveType /\ new.pc = "action" /\ new.action = knownAction
      /\ new.alone = (\A j \in DOMAIN saves : saves[j].pc = "failed")
      /\ new.sends.type = "preset" /\ ~ IsMultiDevice(new.sends.ids) => DOMAIN new.sends.presets = {}
    <2>1. /\ Payload(form) \in Payloads
          /\ Payload(form).type = "preset" /\ ~ IsMultiDevice(Payload(form).ids)
             => DOMAIN Payload(form).presets = {}
        BY <1>3, PayloadTypes
    <2>. QED BY <1>4, <2>1 DEF SaveType, None
<1>. HIDE DEF new
<1>6. /\ saves' \in Seq(SaveType) /\ Len(saves') = Len(saves) + 1
      /\ saves'[Len(saves) + 1] = new
      /\ \A k \in DOMAIN saves : k \in DOMAIN saves' /\ saves'[k] = saves[k] /\ k <= Len(saves)
      /\ \A k \in DOMAIN saves' : k \in DOMAIN saves \/ k = Len(saves) + 1
      /\ Len(saves) \in Nat
    BY <1>1, <1>2, <1>5
<1>7. /\ IsForm(form') /\ form'.listed = form.listed /\ form'.checked = form.checked
      /\ form'.mode = form.mode /\ form'.select = form.select /\ form'.rows = form.rows
      /\ form'.saveDisabled = TRUE /\ form'.alpine = form.alpine
      /\ form'.requests = form.requests
    BY <1>1, <1>3 DEF IsForm
<1>8. LoadInv'
    BY <1>1, <1>2, <1>4 DEF LoadInv
<1>9. FormsInv'
    <2>1. FormTypes(form')
        BY <1>3, <1>7 DEF FormTypes
    <2>2. FormInv(form')
        BY <1>3, <1>7, <2>1 DEF FormInv, FormBase, RowsCover
    <2>3. Len(saves) + 1 \in DOMAIN saves' /\ saves'[Len(saves) + 1].pc # "failed"
        BY <1>5, <1>6
    <2>. QED BY <2>2, <2>3 DEF FormsInv
<1>10. SavesInv'
    <2>1. Len(saves') <= MaxSaves
        BY <1>1, <1>2, <1>6
    <2>. QED BY <1>1, <1>2, <1>4, <1>5, <1>6, <2>1 DEF SavesInv
<1>11. AloneInv'
    <2>. SUFFICES ASSUME NEW k \in DOMAIN saves', saves'[k].alone, k = Len(saves')
                  PROVE  /\ \A j \in DOMAIN saves' : j # k => saves'[j].pc = "failed"
                         /\ saves'[k].pc # "schedule"
        BY DEF AloneInv
    <2>. QED BY <1>5, <1>6
<1>. QED BY <1>8, <1>9, <1>10, <1>11

LEMMA SavesDomain ==
    ASSUME SavesInv
    PROVE  /\ DOMAIN saves = 1..Len(saves) /\ Len(saves) \in Nat
           /\ IsFiniteSet(DOMAIN saves) /\ Cardinality(DOMAIN saves) = Len(saves)
           /\ \A k \in DOMAIN saves : saves[k] \in SaveType
<1>1. saves \in Seq(SaveType) /\ DOMAIN saves = 1..Len(saves) /\ Len(saves) \in Nat
    BY LenProperties DEF SavesInv
<1>2. IsFiniteSet(DOMAIN saves) /\ Cardinality(DOMAIN saves) = Len(saves)
    BY <1>1, FS_Interval
<1>. QED BY <1>1, <1>2

\* What one of the saves moving on does to the others: nothing.
LEMMA SaveMoves ==
    ASSUME SavesInv, NEW k \in DOMAIN saves, NEW s \in SaveType,
           saves' = [saves EXCEPT ![k] = s]
    PROVE  /\ saves' \in Seq(SaveType) /\ Len(saves') = Len(saves) /\ saves' # <<>>
           /\ saves # <<>>
           /\ DOMAIN saves' = DOMAIN saves /\ saves'[k] = s
           /\ \A j \in DOMAIN saves : j # k => saves'[j] = saves[j]
<1>1. saves \in Seq(SaveType) /\ DOMAIN saves = 1..Len(saves) /\ Len(saves) \in Nat
    BY LenProperties DEF SavesInv
<1>2. k \in 1..Len(saves)
    BY <1>1
<1>3. saves' \in Seq(SaveType) /\ Len(saves') = Len(saves)
    BY <1>1, <1>2, ExceptSeq
<1>4. DOMAIN saves' = DOMAIN saves /\ saves'[k] = s /\ \A j \in DOMAIN saves : j # k => saves'[j] = saves[j]
    BY <1>1
<1>5. DOMAIN saves # {} /\ DOMAIN saves' # {}
    BY <1>4
<1>6. DOMAIN <<>> = {}
    OBVIOUS
<1>. QED BY <1>3, <1>4, <1>5, <1>6

\* The requests that are behind the saves are as many as the saves allow.
LEMMA Counts ==
    ASSUME SavesInv
    PROVE  /\ IsFiniteSet(Created) /\ Cardinality(Created) \in 0..MaxSaves
           /\ IsFiniteSet(Ended2) /\ Cardinality(Ended2) \in 0..MaxSaves
<1>1. Len(saves) <= MaxSaves /\ MaxSaves \in Nat
    BY FormConstants DEF SavesInv
<1>2. Len(saves) \in Nat /\ IsFiniteSet(DOMAIN saves) /\ Cardinality(DOMAIN saves) = Len(saves)
    BY SavesDomain
<1>3. /\ IsFiniteSet(Created) /\ Cardinality(Created) <= Len(saves)
      /\ IsFiniteSet(Ended2) /\ Cardinality(Ended2) <= Len(saves)
    BY <1>2, FS_Subset DEF Created, Ended2
<1>4. Cardinality(Created) \in Nat /\ Cardinality(Ended2) \in Nat
    BY <1>3, FS_CardinalityType
<1>. QED BY <1>1, <1>2, <1>3, <1>4

LEMMA SaveCounted ==
    ASSUME SavesInv, SavesInv', NEW k \in DOMAIN saves, DOMAIN saves' = DOMAIN saves,
           \A j \in DOMAIN saves : j # k => saves'[j] = saves[j],
           saves[k].pc \in {"action", "schedule"}, saves'[k].pc # "action",
           saves[k].pc = "schedule" => saves'[k].pc \in {"saved", "failed"}
    PROVE  /\ Cardinality(Created') =
                 (IF saves[k].pc = "action" THEN Cardinality(Created) + 1 ELSE Cardinality(Created))
           /\ Cardinality(Ended2') =
                 (IF saves'[k].pc = "schedule" THEN Cardinality(Ended2) ELSE Cardinality(Ended2) + 1)
           /\ Cardinality(Created') \in 0..MaxSaves /\ Cardinality(Ended2') \in 0..MaxSaves
<1>1. saves'[k].pc \in {"schedule", "saved", "failed"}
    <2>1. DOMAIN saves' = 1..Len(saves') /\ saves' \in Seq(SaveType)
        BY LenProperties DEF SavesInv
    <2>2. saves'[k] \in SaveType
        BY <2>1
    <2>. QED BY <2>2 DEF SaveType
<1>2. Created' = Created \cup {k} /\ (k \in Created <=> saves[k].pc # "action")
    BY <1>1 DEF Created
<1>3. /\ k \notin Ended2
      /\ Ended2' = (IF saves'[k].pc = "schedule" THEN Ended2 ELSE Ended2 \cup {k})
    BY <1>1 DEF Ended2
<1>4. IsFiniteSet(Created) /\ IsFiniteSet(Ended2)
    BY Counts
<1>5. Cardinality(Created \cup {k}) =
          (IF k \in Created THEN Cardinality(Created) ELSE Cardinality(Created) + 1)
    BY <1>4, FS_AddElement
<1>6. Cardinality(Ended2 \cup {k}) = Cardinality(Ended2) + 1
    BY <1>3, <1>4, FS_AddElement
<1>7. Cardinality(Created') \in 0..MaxSaves /\ Cardinality(Ended2') \in 0..MaxSaves
    <2>1. (SavesInv => Cardinality(Created) \in 0..MaxSaves /\ Cardinality(Ended2) \in 0..MaxSaves)'
        BY Counts, PTL
    <2>. QED BY <2>1
<1>. QED BY <1>1, <1>2, <1>3, <1>5, <1>6, <1>7

LEMMA EndedSave ==
    ASSUME NEW pc \in {"saved", "failed"}
    PROVE  /\ Ended(pc) \in SaveType /\ Ended(pc).pc = pc /\ ~ Ended(pc).alone
           /\ Ended(pc).sends.type # "preset"
<1>1. FormTypes(InitForm)
    BY InitForms DEF FormInv, FormBase
<1>2. Payload(InitForm) \in Payloads
    BY <1>1, PayloadTypes
<1>3. Payload(InitForm).type = "state"
    BY DEF Payload, InitForm
<1>. QED BY <1>2, <1>3 DEF Ended, SaveType, None

LEMMA LeaveStep ==
    ASSUME LoadInv, Leave, UNCHANGED editing
    PROVE  LoadInv' /\ FormsInv' /\ RunInv'
<1>1. /\ open' = FALSE /\ form' = InitForm /\ run' = NotRun /\ initPc' = "gone"
      /\ fetched' = NoSchedule /\ knownAction' = None /\ editing' = editing
    BY DEF Leave
<1>2. NoSchedule \in FetchedType
    BY NoScheduleType
<1>3. LoadInv'
    BY <1>1, <1>2 DEF LoadInv, Before, None
<1>4. FormsInv'
    BY <1>1, InitForms DEF FormsInv
<1>5. RunInv'
    <2>1. <<>> \in [{} -> LinkValues \cup {0, State}] /\ DOMAIN <<>> = {}
        OBVIOUS
    <2>2. <<>> \in UNION {[S -> LinkValues \cup {0, State}] : S \in SUBSET Devices}
        BY <2>1
    <2>3. NotRun \in RunType /\ NotRun.out = <<>> /\ NotRun.ok = 0 /\ NotRun.of = 0
        BY <2>2 DEF NotRun, RunType
    <2>4. Cardinality(DOMAIN <<>>) = 0
        BY <2>1, FS_EmptySet
    <2>. QED BY <1>1, <2>3, <2>4 DEF RunInv
<1>. QED BY <1>3, <1>4, <1>5

LEMMA SaveFailsStep ==
    ASSUME LoadInv, FormsInv, RunInv, saves # <<>>, saves' # <<>>, NEW k, SaveFails(k), UNCHANGED editing
    PROVE  LoadInv' /\ FormsInv' /\ RunInv'
<1>1. /\ form' = (IF open THEN [form EXCEPT !.saveDisabled = FALSE] ELSE form)
      /\ open' = open /\ initPc' = initPc /\ fetched' = fetched /\ knownAction' = knownAction
      /\ run' = run /\ editing' = editing
    BY DEF SaveFails, loadVars
<1>2. FormBase(form) /\ FormTypes(form) /\ IsForm(form) /\ RowsCover(form)
    BY DEF FormsInv, FormInv, FormBase, FormTypes
<1>3. CASE open
    <2>1. form' = [form EXCEPT !.saveDisabled = FALSE]
        BY <1>1, <1>3
    <2>2. /\ IsForm(form') /\ form'.listed = form.listed /\ form'.checked = form.checked
          /\ form'.mode = form.mode /\ form'.select = form.select /\ form'.rows = form.rows
          /\ form'.saveDisabled = FALSE /\ form'.alpine = form.alpine
          /\ form'.requests = form.requests
        BY <1>2, <2>1 DEF IsForm
    <2>3. FormTypes(form')
        BY <1>2, <2>2 DEF FormTypes
    <2>4. FormInv(form') /\ Settled(form')
        BY <1>2, <2>2, <2>3 DEF FormInv, FormBase, RowsCover, Settled
    <2>5. initPc \notin Before
        BY DEF LoadInv
    <2>6. LoadInv'
        BY <1>1, <2>5 DEF LoadInv
    <2>. QED BY <1>1, <2>4, <2>6 DEF FormsInv, RunInv
<1>4. CASE ~ open
    <2>1. form' = form /\ initPc \notin Before
        BY <1>1, <1>4 DEF LoadInv
    <2>2. LoadInv'
        BY <1>1, <2>1 DEF LoadInv
    <2>. QED BY <1>1, <1>4, <2>1, <2>2 DEF FormsInv, RunInv
<1>. QED BY <1>3, <1>4

\* The server's side of a save's first request.
LEMMA StoredAction ==
    ASSUME SavesInv, ServerInv, editing \in BOOLEAN, NEW k \in DOMAIN saves,
           NEW done \in BOOLEAN, NEW answered \in BOOLEAN, SaveAction(k, done, answered)
    PROVE  /\ actions' \in [DOMAIN actions' -> ActionType]
           /\ DOMAIN actions \subseteq DOMAIN actions'
           /\ editing => ActionId(k) = 1 /\ DOMAIN actions' = {1}
           /\ ~ editing => \E n \in 0..MaxSaves :
                 DOMAIN actions' = 1..n /\ n <= Cardinality(Created) + 1
           /\ done => /\ ActionId(k) \in DOMAIN actions' /\ ActionId(k) \in Nat
                      /\ actions'[ActionId(k)] = [type |-> saves[k].sends.type, ps |-> saves[k].sends.ps]
<1>. DEFINE p == saves[k].sends
            id == ActionId(k)
            stored == [type |-> p.type, ps |-> p.ps]
<1>1. /\ saves[k].pc = "action"
      /\ actions' = (IF ~ done THEN actions
                     ELSE [a \in DOMAIN actions \cup {id} |-> IF a = id THEN stored ELSE actions[a]])
    BY DEF SaveAction
<1>2. saves[k] \in SaveType /\ stored \in ActionType
    <2>1. saves[k] \in SaveType
        BY SavesDomain
    <2>. QED BY <2>1 DEF SaveType, Payloads, ActionType
<1>3. /\ editing => id = 1
      /\ ~ editing => \E n \in 0..MaxSaves :
            DOMAIN actions = 1..n /\ n <= Cardinality(Created) /\ id = n + 1
    <2>1. CASE editing
        BY <1>1, <2>1 DEF SavesInv, ActionId
    <2>2. CASE ~ editing
        <3>1. PICK n \in 0..MaxSaves : DOMAIN actions = 1..n /\ n <= Cardinality(Created)
            BY <2>2 DEF ServerInv
        <3>2. n \in Nat /\ Cardinality(1..n) = n
            BY <3>1, FormConstants, FS_Interval
        <3>. QED BY <2>2, <3>1, <3>2 DEF ActionId
    <2>. QED BY <2>1, <2>2
<1>4. Cardinality(Created) + 1 \in 0..MaxSaves
    <2>1. Len(saves) \in Nat /\ Len(saves) <= MaxSaves
        BY SavesDomain DEF SavesInv
    <2>2. Created \subseteq DOMAIN saves \ {k}
        BY <1>1 DEF Created
    <2>3. IsFiniteSet(DOMAIN saves) /\ Cardinality(DOMAIN saves) = Len(saves)
        BY SavesDomain
    <2>4. IsFiniteSet(DOMAIN saves \ {k}) /\ Cardinality(DOMAIN saves \ {k}) = Len(saves) - 1
        BY <2>3, FS_RemoveElement
    <2>5. Cardinality(Created) <= Len(saves) - 1
        BY <2>2, <2>3, <2>4, FS_Subset
    <2>6. Cardinality(Created) \in Nat /\ MaxSaves \in Nat
        BY Counts, FormConstants
    <2>. QED BY <2>1, <2>5, <2>6
<1>. HIDE DEF id, stored
<1>5. CASE ~ done
    <2>1. actions' = actions
        BY <1>1, <1>5
    <2>. QED BY <1>3, <1>4, <1>5, <2>1, Counts DEF ServerInv, id
<1>6. CASE done
    <2>1. /\ actions' = [a \in DOMAIN actions \cup {id} |-> IF a = id THEN stored ELSE actions[a]]
          /\ DOMAIN actions' = DOMAIN actions \cup {id}
        BY <1>1, <1>6
    <2>2. actions' \in [DOMAIN actions' -> ActionType] /\ actions'[id] = stored
        BY <1>2, <2>1 DEF ServerInv
    <2>3. editing => DOMAIN actions' = {1} /\ id = 1
        BY <1>3, <2>1 DEF ServerInv
    <2>4. ~ editing => \E n \in 0..MaxSaves :
              DOMAIN actions' = 1..n /\ n <= Cardinality(Created) + 1
        <3>. SUFFICES ASSUME ~ editing
                      PROVE  \E n \in 0..MaxSaves : DOMAIN actions' = 1..n /\ n <= Cardinality(Created) + 1
            OBVIOUS
        <3>1. PICK n \in 0..MaxSaves : DOMAIN actions = 1..n /\ n <= Cardinality(Created) /\ id = n + 1
            BY <1>3
        <3>2. n + 1 \in 0..MaxSaves /\ n + 1 <= Cardinality(Created) + 1
            BY <1>4, <3>1, Counts, FormConstants
        <3>3. DOMAIN actions' = 1..(n + 1)
            BY <2>1, <3>1
        <3>. QED BY <3>2, <3>3
    <2>5. id \in Nat
        BY <1>3, FormConstants
    <2>. QED BY <2>1, <2>2, <2>3, <2>4, <2>5 DEF id, stored
<1>. QED BY <1>5, <1>6

LEMMA SaveActionStep ==
    ASSUME FormPageInv, NEW k \in DOMAIN saves, NEW done \in BOOLEAN, NEW answered \in BOOLEAN,
           SaveAction(k, done, answered)
    PROVE  FormPageInv'
<1>. DEFINE id == ActionId(k)
            s == IF answered THEN [saves[k] EXCEPT !.pc = "schedule", !.action = id] ELSE Ended("failed")
<1>1. /\ LoadInv /\ FormsInv /\ SavesInv /\ ServerInv /\ RunInv /\ AloneInv
      /\ saves \in Seq(SaveType) /\ editing \in BOOLEAN
    BY DEF FormPageInv, SavesInv, LoadInv
<1>2. /\ saves[k].pc = "action" /\ (answered => done)
      /\ answered => UNCHANGED <<open, loadVars, form, run>>
      /\ ~ answered => SaveFails(k)
      /\ devices' = devices /\ schedules' = schedules /\ editing' = editing
    BY DEF SaveAction
<1>3. saves[k] \in SaveType
    BY <1>1, SavesDomain
<1>4. saves' = [saves EXCEPT ![k] = s]
    <2>1. CASE answered
        <3>1. saves' = [saves EXCEPT ![k].pc = "schedule", ![k].action = id]
            BY <2>1 DEF SaveAction
        <3>. QED BY <1>3, <2>1, <3>1 DEF SaveType
    <2>2. CASE ~ answered
        BY <1>2, <2>2 DEF SaveFails
    <2>. QED BY <2>1, <2>2
<1>5. /\ actions' \in [DOMAIN actions' -> ActionType]
      /\ DOMAIN actions \subseteq DOMAIN actions'
      /\ editing => id = 1 /\ DOMAIN actions' = {1}
      /\ ~ editing => \E n \in 0..MaxSaves :
            DOMAIN actions' = 1..n /\ n <= Cardinality(Created) + 1
      /\ done => /\ id \in DOMAIN actions' /\ id \in Nat
                 /\ actions'[id] = [type |-> saves[k].sends.type, ps |-> saves[k].sends.ps]
    BY <1>1, StoredAction
<1>. HIDE DEF id
<1>6. /\ s \in SaveType /\ s.pc \in {"schedule", "failed"}
      /\ s.pc = "schedule" => s.action \in DOMAIN actions' /\ s.sends = saves[k].sends
                              /\ s.alone = saves[k].alone /\ s.action = id /\ done
      /\ s.pc = "failed" => ~ s.alone /\ s.sends.type # "preset"
      /\ answered => s.pc # "failed"
    <2>1. CASE answered
        BY <1>2, <1>3, <1>5, <2>1 DEF SaveType
    <2>2. CASE ~ answered
        <3>1. s = Ended("failed")
            BY <2>2
        <3>. HIDE DEF s
        <3>. QED BY <2>2, <3>1, EndedSave
    <2>. QED BY <2>1, <2>2
<1>. HIDE DEF s
<1>7. /\ saves' \in Seq(SaveType) /\ Len(saves') = Len(saves) /\ saves' # <<>> /\ saves # <<>>
      /\ DOMAIN saves' = DOMAIN saves /\ saves'[k] = s
      /\ \A j \in DOMAIN saves : j # k => saves'[j] = saves[j]
    BY <1>1, <1>4, <1>6, SaveMoves
<1>8. SavesInv'
    BY <1>1, <1>2, <1>5, <1>6, <1>7 DEF SavesInv
<1>9. /\ Cardinality(Created') = Cardinality(Created) + 1
      /\ Cardinality(Created') \in 0..MaxSaves
      /\ Cardinality(Ended2') >= Cardinality(Ended2)
      /\ Cardinality(Ended2') \in Nat /\ Cardinality(Ended2) \in Nat
    <2>1. Cardinality(Ended2) \in Nat
        BY <1>1, Counts, FormConstants
    <2>. QED BY <1>1, <1>2, <1>6, <1>7, <1>8, <2>1, SaveCounted
<1>10. ServerInv'
    <2>1. ~ editing => \E n \in 0..MaxSaves : DOMAIN actions' = 1..n /\ n <= Cardinality(Created')
        BY <1>5, <1>9
    <2>2. ~ editing => \E n \in 0..MaxSaves : DOMAIN schedules' = 1..n /\ n <= Cardinality(Ended2')
        BY <1>1, <1>2, <1>9, FormConstants DEF ServerInv
    <2>. QED BY <1>1, <1>2, <1>5, <1>7, <2>1, <2>2 DEF ServerInv
<1>11. AloneInv'
    <2>. SUFFICES ASSUME NEW l \in DOMAIN saves', saves'[l].alone, l = Len(saves')
                  PROVE  /\ \A j \in DOMAIN saves' : j # l => saves'[j].pc = "failed"
                         /\ saves'[l].pc = "schedule" =>
                               actions'[saves'[l].action] =
                                   [type |-> saves'[l].sends.type, ps |-> saves'[l].sends.ps]
        BY DEF AloneInv
    <2>1. CASE l = k
        <3>1. s.pc = "schedule" /\ saves[k].alone
            BY <1>6, <1>7, <2>1
        <3>2. \A j \in DOMAIN saves : j # k => saves[j].pc = "failed"
            BY <1>1, <1>7, <2>1, <3>1 DEF AloneInv
        <3>. QED BY <1>5, <1>6, <1>7, <2>1, <3>1, <3>2
    \* A save that has nobody beside it is not crossed by this one.
    <2>2. CASE l # k
        BY <1>1, <1>2, <1>7, <2>2 DEF AloneInv
    <2>. QED BY <2>1, <2>2
<1>12. LoadInv' /\ FormsInv' /\ RunInv'
    <2>1. CASE answered
        <3>1. /\ open' = open /\ initPc' = initPc /\ fetched' = fetched
              /\ knownAction' = knownAction
              /\ form' = form /\ run' = run /\ saves'[k].pc # "failed"
            BY <1>2, <1>6, <1>7, <2>1 DEF loadVars
        <3>2. LoadInv'
            BY <1>1, <1>2, <1>7, <3>1 DEF LoadInv
        <3>3. FormsInv'
            BY <1>1, <1>7, <3>1 DEF FormsInv
        <3>. QED BY <1>1, <3>1, <3>2, <3>3 DEF RunInv
    <2>2. CASE ~ answered
        BY <1>1, <1>2, <1>7, <2>2, SaveFailsStep
    <2>. QED BY <2>1, <2>2
<1>. QED BY <1>8, <1>10, <1>11, <1>12 DEF FormPageInv

LEMMA ResolvedTypes ==
    ASSUME NEW p \in Payloads, NEW action \in ActionType
    PROVE  /\ DOMAIN ResolveDevicePresets(p, action) = p.ids
           /\ ResolveDevicePresets(p, action)
                 \in UNION {[S -> LinkValues \cup {0}] : S \in SUBSET Devices}
<1>. DEFINE links == ResolveDevicePresets(p, action)
<1>1. p.ids \in SUBSET Devices /\ \A d \in DOMAIN p.presets : p.presets[d] \in LinkValues \cup {0}
    BY DEF Payloads
<1>2. \A d \in p.ids :
         (IF action.type = "state" THEN Null
          ELSE IF d \in DOMAIN p.presets THEN p.presets[d] ELSE action.ps) \in LinkValues \cup {0}
    BY <1>1 DEF ActionType, LinkValues
<1>3. links \in [p.ids -> LinkValues \cup {0}]
    BY <1>2 DEF ResolveDevicePresets
<1>. HIDE DEF links
<1>. QED BY <1>1, <1>3 DEF links

\* The server's side of a save's second request.
LEMMA StoredSchedule ==
    ASSUME SavesInv, ServerInv, editing \in BOOLEAN, NEW k \in DOMAIN saves,
           NEW done \in BOOLEAN, NEW answered \in BOOLEAN, SaveSchedule(k, done, answered)
    PROVE  /\ schedules' \in [DOMAIN schedules' -> ScheduleType]
           /\ \A s \in DOMAIN schedules' :
                 /\ schedules'[s].action \in DOMAIN actions
                 /\ DOMAIN schedules'[s].links \subseteq devices
           /\ editing => DOMAIN schedules' \subseteq {1}
           /\ ~ editing => \E n \in 0..MaxSaves :
                 DOMAIN schedules' = 1..n /\ n <= Cardinality(Ended2) + 1
<1>. DEFINE p == saves[k].sends
            a == saves[k].action
            id == IF editing THEN 1 ELSE Cardinality(DOMAIN schedules) + 1
            stored == [action |-> a, links |-> ResolveDevicePresets(p, actions[a])]
<1>1. /\ saves[k].pc = "schedule"
      /\ done => ScheduleValid(p, actions[a])
      /\ schedules' = (IF ~ done THEN schedules
                       ELSE [s \in DOMAIN schedules \cup {id} |-> IF s = id THEN stored ELSE schedules[s]])
    BY DEF SaveSchedule
<1>2. a \in DOMAIN actions /\ a \in Nat /\ p \in Payloads /\ actions[a] \in ActionType
    <2>1. saves[k] \in SaveType
        BY SavesDomain
    <2>2. a \in DOMAIN actions
        BY <1>1 DEF SavesInv
    <2>. QED BY <2>1, <2>2 DEF SaveType, ServerInv
<1>3. /\ stored \in ScheduleType /\ stored.action \in DOMAIN actions
      /\ done => DOMAIN stored.links \subseteq devices
    BY <1>1, <1>2, ResolvedTypes DEF ScheduleType, ScheduleValid
<1>4. Cardinality(Ended2) \in Nat /\ Cardinality(Ended2) + 1 \in 0..MaxSaves
    <2>1. Len(saves) \in Nat /\ Len(saves) <= MaxSaves
        BY SavesDomain DEF SavesInv
    <2>2. Ended2 \subseteq DOMAIN saves \ {k}
        BY <1>1 DEF Ended2
    <2>3. IsFiniteSet(DOMAIN saves) /\ Cardinality(DOMAIN saves) = Len(saves)
        BY SavesDomain
    <2>4. IsFiniteSet(DOMAIN saves \ {k}) /\ Cardinality(DOMAIN saves \ {k}) = Len(saves) - 1
        BY <2>3, FS_RemoveElement
    <2>5. Cardinality(Ended2) <= Len(saves) - 1
        BY <2>2, <2>3, <2>4, FS_Subset
    <2>6. Cardinality(Ended2) \in Nat /\ MaxSaves \in Nat
        BY Counts, FormConstants
    <2>. QED BY <2>1, <2>5, <2>6
<1>. HIDE DEF id, stored
<1>5. CASE ~ done
    <2>1. schedules' = schedules
        BY <1>1, <1>5
    <2>2. ~ editing => \E n \in 0..MaxSaves : DOMAIN schedules' = 1..n /\ n <= Cardinality(Ended2) + 1
        BY <1>4, <2>1, FormConstants DEF ServerInv
    <2>. QED BY <2>1, <2>2 DEF ServerInv
<1>6. CASE done
    <2>1. /\ schedules' = [s \in DOMAIN schedules \cup {id} |-> IF s = id THEN stored ELSE schedules[s]]
          /\ DOMAIN schedules' = DOMAIN schedules \cup {id}
        BY <1>1, <1>6
    <2>2. \A s \in DOMAIN schedules' :
              schedules'[s] = stored \/ (s \in DOMAIN schedules /\ schedules'[s] = schedules[s])
        BY <2>1
    <2>3. schedules' \in [DOMAIN schedules' -> ScheduleType]
        BY <1>3, <2>1 DEF ServerInv
    <2>4. \A s \in DOMAIN schedules' :
              /\ schedules'[s].action \in DOMAIN actions
              /\ DOMAIN schedules'[s].links \subseteq devices
        BY <1>3, <1>6, <2>2 DEF ServerInv
    <2>5. editing => DOMAIN schedules' \subseteq {1}
        BY <2>1 DEF ServerInv, id
    <2>6. ~ editing => \E n \in 0..MaxSaves :
              DOMAIN schedules' = 1..n /\ n <= Cardinality(Ended2) + 1
        <3>. SUFFICES ASSUME ~ editing
                      PROVE  \E n \in 0..MaxSaves : DOMAIN schedules' = 1..n /\ n <= Cardinality(Ended2) + 1
            OBVIOUS
        <3>1. PICK n \in 0..MaxSaves : DOMAIN schedules = 1..n /\ n <= Cardinality(Ended2)
            BY DEF ServerInv
        <3>2. n \in Nat /\ Cardinality(1..n) = n
            BY <3>1, FormConstants, FS_Interval
        <3>3. id = n + 1
            BY <3>1, <3>2 DEF id
        <3>4. n + 1 \in 0..MaxSaves /\ n + 1 <= Cardinality(Ended2) + 1
            BY <1>4, <3>1, FormConstants
        <3>5. DOMAIN schedules' = 1..(n + 1)
            BY <2>1, <3>1, <3>2, <3>3
        <3>. QED BY <3>4, <3>5
    <2>. QED BY <2>3, <2>4, <2>5, <2>6
<1>. QED BY <1>5, <1>6

LEMMA SaveScheduleStep ==
    ASSUME FormPageInv, NEW k \in DOMAIN saves, NEW done \in BOOLEAN, NEW answered \in BOOLEAN,
           SaveSchedule(k, done, answered)
    PROVE  FormPageInv'
<1>. DEFINE s == IF answered THEN Ended("saved") ELSE Ended("failed")
<1>1. /\ LoadInv /\ FormsInv /\ SavesInv /\ ServerInv /\ RunInv /\ AloneInv
      /\ editing \in BOOLEAN
    BY DEF FormPageInv, LoadInv
<1>2. /\ saves[k].pc = "schedule" /\ (answered => Leave) /\ (~ answered => SaveFails(k))
      /\ saves' = [saves EXCEPT ![k] = s]
      /\ devices' = devices /\ actions' = actions /\ editing' = editing
    BY DEF SaveSchedule, SaveFails
<1>3. /\ schedules' \in [DOMAIN schedules' -> ScheduleType]
      /\ \A i \in DOMAIN schedules' :
            /\ schedules'[i].action \in DOMAIN actions
            /\ DOMAIN schedules'[i].links \subseteq devices
      /\ editing => DOMAIN schedules' \subseteq {1}
      /\ ~ editing => \E n \in 0..MaxSaves :
            DOMAIN schedules' = 1..n /\ n <= Cardinality(Ended2) + 1
    BY <1>1, StoredSchedule
<1>4. s \in SaveType /\ s.pc \in {"saved", "failed"} /\ ~ s.alone /\ s.sends.type # "preset"
    BY EndedSave
<1>. HIDE DEF s
<1>5. /\ saves' \in Seq(SaveType) /\ Len(saves') = Len(saves) /\ saves' # <<>> /\ saves # <<>>
      /\ DOMAIN saves' = DOMAIN saves /\ saves'[k] = s
      /\ \A j \in DOMAIN saves : j # k => saves'[j] = saves[j]
    BY <1>1, <1>2, <1>4, SaveMoves
<1>6. SavesInv'
    BY <1>1, <1>2, <1>4, <1>5 DEF SavesInv
<1>7. /\ Cardinality(Created') = Cardinality(Created)
      /\ Cardinality(Ended2') = Cardinality(Ended2) + 1
    BY <1>1, <1>2, <1>4, <1>5, <1>6, SaveCounted
<1>8. ServerInv'
    BY <1>1, <1>2, <1>3, <1>5, <1>7 DEF ServerInv
<1>9. AloneInv'
    <2>. SUFFICES ASSUME NEW l \in DOMAIN saves', saves'[l].alone, l = Len(saves')
                  PROVE  FALSE
        BY DEF AloneInv
    <2>1. l # k
        BY <1>4, <1>5
    <2>. QED BY <1>1, <1>2, <1>5, <2>1 DEF AloneInv
<1>10. LoadInv' /\ FormsInv' /\ RunInv'
    <2>1. CASE answered
        BY <1>1, <1>2, <2>1, LeaveStep
    <2>2. CASE ~ answered
        BY <1>1, <1>2, <1>5, <2>2, SaveFailsStep
    <2>. QED BY <2>1, <2>2
<1>. QED BY <1>6, <1>8, <1>9, <1>10 DEF FormPageInv

LEMMA SubmitsStep == FormPageInv /\ Submit => FormPageInv'
<1>. SUFFICES ASSUME FormPageInv, Submit PROVE FormPageInv'
    OBVIOUS
<1>. DEFINE new == [pc |-> "action", sends |-> Payload(form), action |-> knownAction,
                    alone |-> \A j \in DOMAIN saves : saves[j].pc = "failed"]
<1>1. LoadInv' /\ FormsInv' /\ SavesInv' /\ AloneInv'
    BY SubmitStep
<1>2. /\ saves' = Append(saves, new) /\ run' = run /\ editing' = editing
      /\ devices' = devices /\ actions' = actions /\ schedules' = schedules
    BY DEF Submit, serverVars
<1>3. /\ saves \in Seq(SaveType) /\ DOMAIN saves = 1..Len(saves) /\ Len(saves) \in Nat
      /\ ServerInv /\ RunInv
    BY SavesDomain DEF FormPageInv, SavesInv
<1>4. new.pc = "action"
    OBVIOUS
<1>. HIDE DEF new
<1>5. /\ DOMAIN saves' = DOMAIN saves \cup {Len(saves) + 1} /\ saves'[Len(saves) + 1] = new
      /\ \A k \in DOMAIN saves : saves'[k] = saves[k]
    <2>1. DOMAIN saves' = 1..(Len(saves) + 1) /\ saves'[Len(saves) + 1] = new
        BY <1>2, <1>3
    <2>2. \A k \in DOMAIN saves : saves'[k] = saves[k]
        BY <1>2, <1>3
    <2>. QED BY <1>3, <2>1, <2>2
<1>6. Created' = Created /\ Ended2' = Ended2
    BY <1>4, <1>5 DEF Created, Ended2
<1>7. saves' # <<>>
    <2>1. DOMAIN saves' # {} /\ DOMAIN <<>> = {}
        BY <1>5
    <2>. QED BY <2>1
<1>8. ServerInv'
    BY <1>2, <1>3, <1>6, <1>7 DEF ServerInv
<1>. QED BY <1>1, <1>2, <1>3, <1>8 DEF FormPageInv, RunInv

-----------------------------------------------------------------------------
(* The other buttons, and another tab *)

\* The handlers that write neither an action nor a save.
LEMMA SavesStay ==
    UNCHANGED <<actions, editing, saves>> /\ SavesInv /\ AloneInv
    => SavesInv' /\ AloneInv' /\ Created' = Created /\ Ended2' = Ended2
<1>. SUFFICES ASSUME UNCHANGED <<actions, editing, saves>>, SavesInv, AloneInv
              PROVE  SavesInv' /\ AloneInv' /\ Created' = Created /\ Ended2' = Ended2
    OBVIOUS
<1>1. SavesInv'
    BY DEF SavesInv
<1>2. AloneInv'
    BY DEF AloneInv
<1>3. Created' = Created /\ Ended2' = Ended2
    BY DEF Created, Ended2
<1>. QED BY <1>1, <1>2, <1>3

LEMMA DeleteScheduleStep ==
    ASSUME FormPageInv, NEW answered \in BOOLEAN, DeleteSchedule(answered)
    PROVE  FormPageInv'
<1>1. /\ editing /\ schedules' = <<>> /\ devices' = devices /\ actions' = actions
      /\ editing' = editing /\ saves' = saves
      /\ answered => Leave
      /\ ~ answered => open' = open /\ initPc' = initPc /\ fetched' = fetched
                       /\ knownAction' = knownAction /\ form' = form /\ run' = run
    BY DEF DeleteSchedule, loadVars
<1>2. LoadInv /\ FormsInv /\ SavesInv /\ ServerInv /\ RunInv /\ AloneInv
    BY DEF FormPageInv
<1>3. SavesInv' /\ AloneInv' /\ Created' = Created /\ Ended2' = Ended2
    BY <1>1, <1>2, SavesStay
<1>4. ServerInv'
    <2>1. DOMAIN <<>> = {} /\ <<>> \in [{} -> ScheduleType]
        OBVIOUS
    <2>. QED BY <1>1, <1>2, <2>1 DEF ServerInv
<1>5. LoadInv' /\ FormsInv' /\ RunInv'
    <2>1. CASE answered
        BY <1>1, <1>2, <2>1, LeaveStep
    <2>2. CASE ~ answered
        <3>1. LoadInv'
            BY <1>1, <1>2, <2>2 DEF LoadInv
        <3>2. FormsInv'
            BY <1>1, <1>2, <2>2 DEF FormsInv
        <3>. QED BY <1>1, <1>2, <2>2, <3>1, <3>2 DEF RunInv
    <2>. QED BY <2>1, <2>2
<1>. QED BY <1>3, <1>4, <1>5 DEF FormPageInv

LEMMA CancelStep == FormPageInv /\ Cancel => FormPageInv'
<1>. SUFFICES ASSUME FormPageInv, Cancel PROVE FormPageInv'
    OBVIOUS
<1>1. Leave /\ UNCHANGED <<serverVars, editing, saves>>
    BY DEF Cancel
<1>2. SavesInv' /\ ServerInv' /\ AloneInv'
    BY <1>1, ServerStays DEF FormPageInv
<1>3. LoadInv' /\ FormsInv' /\ RunInv'
    BY <1>1, LeaveStep DEF FormPageInv
<1>. QED BY <1>2, <1>3 DEF FormPageInv

LEMMA RemoveDeviceStep ==
    ASSUME FormPageInv, NEW d \in Removable, RemoveDevice(d)
    PROVE  FormPageInv'
<1>1. /\ devices' = devices \ {d} /\ actions' = actions /\ editing' = editing /\ open' = open
      /\ schedules' = [s \in DOMAIN schedules |->
                          [schedules[s] EXCEPT !.links = LinksWithout(@, d)]]
      /\ initPc' = initPc /\ fetched' = fetched /\ knownAction' = knownAction
      /\ form' = form /\ saves' = saves /\ run' = run
    BY DEF RemoveDevice, loadVars
<1>2. LoadInv /\ FormsInv /\ SavesInv /\ ServerInv /\ RunInv /\ AloneInv
    BY DEF FormPageInv
<1>3. SavesInv' /\ AloneInv' /\ Created' = Created /\ Ended2' = Ended2
    BY <1>1, <1>2, SavesStay
<1>4. /\ DOMAIN schedules' = DOMAIN schedules
      /\ \A s \in DOMAIN schedules :
            /\ schedules'[s] \in ScheduleType /\ schedules'[s].action = schedules[s].action
            /\ DOMAIN schedules'[s].links = DOMAIN schedules[s].links \ {d}
            /\ \A e \in DOMAIN schedules'[s].links :
                  schedules'[s].links[e] = schedules[s].links[e]
    <2>1. DOMAIN schedules' = DOMAIN schedules
        BY <1>1
    <2>2. ASSUME NEW s \in DOMAIN schedules
          PROVE  /\ schedules'[s] \in ScheduleType /\ schedules'[s].action = schedules[s].action
                 /\ DOMAIN schedules'[s].links = DOMAIN schedules[s].links \ {d}
                 /\ \A e \in DOMAIN schedules'[s].links :
                       schedules'[s].links[e] = schedules[s].links[e]
        <3>. DEFINE left == LinksWithout(schedules[s].links, d)
        <3>1. schedules[s] \in ScheduleType
            BY <1>2 DEF ServerInv
        <3>2. schedules'[s] = [schedules[s] EXCEPT !.links = left]
            BY <1>1
        <3>3. PICK S \in SUBSET Devices : schedules[s].links \in [S -> LinkValues \cup {0}]
            BY <3>1 DEF ScheduleType
        <3>4. /\ left \in [S \ {d} -> LinkValues \cup {0}]
              /\ DOMAIN left = DOMAIN schedules[s].links \ {d}
              /\ \A e \in DOMAIN left : left[e] = schedules[s].links[e]
            BY <3>3 DEF LinksWithout
        <3>5. S \ {d} \in SUBSET Devices
            OBVIOUS
        <3>. HIDE DEF left
        <3>6. left \in UNION {[T -> LinkValues \cup {0}] : T \in SUBSET Devices}
            BY <3>4, <3>5
        <3>7. /\ schedules'[s] = [action |-> schedules[s].action, links |-> left]
              /\ schedules[s].action \in Nat
            BY <3>1, <3>2 DEF ScheduleType
        <3>. QED BY <3>4, <3>6, <3>7 DEF ScheduleType
    <2>. QED BY <2>1, <2>2
<1>5. schedules' \in [DOMAIN schedules' -> ScheduleType]
    BY <1>1, <1>4
<1>6. ServerInv'
    <2>1. /\ devices \subseteq Devices
          /\ \A s \in DOMAIN schedules :
                schedules[s].action \in DOMAIN actions /\ DOMAIN schedules[s].links \subseteq devices
          /\ saves = <<>> =>
                /\ \A a \in DOMAIN actions : actions[a].ps \in LinkValues
                /\ \A s \in DOMAIN schedules :
                      \A e \in DOMAIN schedules[s].links : schedules[s].links[e] \in LinkValues
        BY <1>2 DEF ServerInv
    <2>2. devices' = devices \ {d} /\ actions' = actions /\ saves' = saves
        BY <1>1
    <2>3. ASSUME NEW s \in DOMAIN schedules'
          PROVE  schedules'[s].action \in DOMAIN actions' /\ DOMAIN schedules'[s].links \subseteq devices'
        <3>1. s \in DOMAIN schedules /\ DOMAIN schedules[s].links \subseteq devices
            BY <1>4, <2>1
        <3>2. DOMAIN schedules'[s].links = DOMAIN schedules[s].links \ {d}
            BY <1>4, <3>1
        <3>3. schedules'[s].action = schedules[s].action /\ schedules[s].action \in DOMAIN actions
            BY <1>4, <2>1, <3>1
        <3>. QED BY <2>2, <3>1, <3>2, <3>3
    <2>4. ASSUME saves' = <<>>, NEW s \in DOMAIN schedules', NEW e \in DOMAIN schedules'[s].links
          PROVE  schedules'[s].links[e] \in LinkValues
        <3>1. s \in DOMAIN schedules
            BY <1>4
        <3>2. e \in DOMAIN schedules[s].links /\ schedules'[s].links[e] = schedules[s].links[e]
            BY <1>4, <2>4, <3>1
        <3>. QED BY <2>1, <2>2, <2>4, <3>1, <3>2
    <2>5. devices' \subseteq Devices /\ actions' \in [DOMAIN actions' -> ActionType]
        BY <1>2, <2>1, <2>2 DEF ServerInv
    <2>6. /\ editing' => DOMAIN actions' = {1} /\ DOMAIN schedules' \subseteq {1}
          /\ ~ editing' =>
                /\ \E n \in 0..MaxSaves : DOMAIN actions' = 1..n /\ n <= Cardinality(Created')
                /\ \E n \in 0..MaxSaves : DOMAIN schedules' = 1..n /\ n <= Cardinality(Ended2')
        BY <1>1, <1>2, <1>3, <1>4 DEF ServerInv
    <2>7. saves' = <<>> => \A a \in DOMAIN actions' : actions'[a].ps \in LinkValues
        BY <2>1, <2>2
    <2>. QED BY <1>5, <2>3, <2>4, <2>5, <2>6, <2>7 DEF ServerInv
<1>7. LoadInv'
    BY <1>1, <1>2 DEF LoadInv
<1>8. FormsInv'
    BY <1>1, <1>2 DEF FormsInv
<1>. QED BY <1>1, <1>2, <1>3, <1>6, <1>7, <1>8 DEF FormPageInv, RunInv

-----------------------------------------------------------------------------
(* "Run now" *)

Outs == UNION {[S -> LinkValues \cup {0, State}] : S \in SUBSET Devices}

LEMMA PreviewType == ASSUME NEW f, FormTypes(f) PROVE Preview(f) \in Outs
<1>. DEFINE map == GetDevicePresetsMap(f)
            V == LinkValues \cup {0, State}
<1>1. f.checked \in SUBSET Devices /\ NumberOf(f.select) \in LinkValues \cup {0}
    BY NumberType DEF FormTypes
<1>2. map \in [DOMAIN map -> LinkValues \cup {0}]
    BY MapTypes
<1>. HIDE DEF map
<1>3. /\ [d \in f.checked |-> State] \in [f.checked -> V]
      /\ f.checked \subseteq DOMAIN map => [d \in f.checked |-> map[d]] \in [f.checked -> V]
      /\ [d \in f.checked |-> NumberOf(f.select)] \in [f.checked -> V]
      /\ <<>> \in [{} -> V]
    BY <1>1, <1>2
<1>4. Preview(f) \in [f.checked -> V] \cup [{} -> V]
    BY <1>3 DEF Preview, map
<1>. HIDE DEF V
<1>. QED BY <1>1, <1>4 DEF Outs, V

LEMMA OutsFinite ==
    ASSUME NEW out \in Outs
    PROVE  IsFiniteSet(DOMAIN out) /\ Cardinality(DOMAIN out) \in Nat
<1>1. DOMAIN out \subseteq 1..NDevices
    BY DEF Outs, Devices
<1>2. IsFiniteSet(1..NDevices)
    BY FormConstants, FS_Interval
<1>. QED BY <1>1, <1>2, FS_Subset, FS_CardinalityType

LEMMA EmptyOut == <<>> \in Outs /\ DOMAIN <<>> = {} /\ Cardinality(DOMAIN <<>>) = 0
<1>1. <<>> \in [{} -> LinkValues \cup {0, State}] /\ DOMAIN <<>> = {}
    OBVIOUS
<1>. QED BY <1>1, FS_EmptySet DEF Outs

Reports == {"select first", "error", "no devices", "success", "failed", "partly"}

LEMMA ReportedType ==
    ASSUME NEW how \in Reports
    PROVE  /\ Reported(how) \in RunType /\ Reported(how).out = <<>>
           /\ Reported(how).ok = 0 /\ Reported(how).of = 0
<1>1. NotRun = [busy |-> FALSE, out |-> <<>>, ok |-> 0, of |-> 0, report |-> "none"]
    BY DEF NotRun
<1>2. Reported(how) = [NotRun EXCEPT !.report = how]
    BY DEF Reported
<1>3. Reported(how) = [busy |-> FALSE, out |-> <<>>, ok |-> 0, of |-> 0, report |-> how]
    BY <1>1, <1>2
<1>4. how \in {"none"} \cup Reports
    OBVIOUS
<1>5. RunType = [busy : BOOLEAN, out : Outs, ok : Nat, of : Nat, report : {"none"} \cup Reports]
    BY DEF RunType, Outs, Reports
<1>. QED BY <1>3, <1>4, <1>5, EmptyOut

LEMMA ReportedInv ==
    ASSUME NEW how \in Reports, run' = Reported(how) PROVE RunInv'
<1>1. run' \in RunType /\ run'.out = <<>> /\ run'.ok = 0 /\ run'.of = 0
    BY ReportedType
<1>. QED BY <1>1, EmptyOut DEF RunInv

LEMMA ResultType ==
    \A ok, of : ReportRunResult(ok, of) \in {"no devices", "success", "failed", "partly"}
BY DEF ReportRunResult

LEMMA RunNowStep == RunInv /\ FormsInv /\ RunNow => RunInv'
<1>. SUFFICES ASSUME RunInv, FormsInv, RunNow PROVE RunInv'
    OBVIOUS
<1>. DEFINE sends == Preview(form)
<1>1. run' = (IF editing THEN [NotRun EXCEPT !.busy = TRUE]
              ELSE IF sends = <<>> THEN Reported("select first")
              ELSE [NotRun EXCEPT !.busy = TRUE, !.out = sends, !.of = Cardinality(DOMAIN sends)])
    BY DEF RunNow
<1>2. sends \in Outs /\ Cardinality(DOMAIN sends) \in Nat
    BY PreviewType, OutsFinite DEF FormsInv, FormInv, FormBase
<1>. HIDE DEF sends
<1>3. CASE editing
    <2>1. run' = [busy |-> TRUE, out |-> <<>>, ok |-> 0, of |-> 0, report |-> "none"]
        BY <1>1, <1>3 DEF NotRun
    <2>2. run' \in RunType /\ run'.out = <<>> /\ run'.ok = 0 /\ run'.of = 0 /\ run'.busy = TRUE
        BY <2>1, EmptyOut DEF RunType, Outs
    <2>. QED BY <2>2, EmptyOut DEF RunInv
<1>4. CASE ~ editing /\ sends = <<>>
    BY <1>1, <1>4, ReportedInv DEF Reports
<1>5. CASE ~ editing /\ sends # <<>>
    <2>1. run' = [busy |-> TRUE, out |-> sends, ok |-> 0, of |-> Cardinality(DOMAIN sends),
                  report |-> "none"]
        BY <1>1, <1>5 DEF NotRun
    <2>2. /\ run' \in RunType /\ run'.out = sends /\ run'.ok = 0
          /\ run'.of = Cardinality(DOMAIN sends) /\ run'.busy = TRUE
        BY <1>2, <2>1 DEF RunType, Outs
    <2>. QED BY <1>2, <2>2 DEF RunInv
<1>. QED BY <1>3, <1>4, <1>5

LEMMA AnswerRunNowStep == RunInv /\ AnswerRunNow => RunInv'
<1>. SUFFICES ASSUME RunInv, AnswerRunNow PROVE RunInv'
    OBVIOUS
<1>1. run' = Reported("error") \/ \E ok, of : run' = Reported(ReportRunResult(ok, of))
    BY Zenon DEF AnswerRunNow
<1>2. \A ok, of : ReportRunResult(ok, of) \in Reports
    BY ResultType DEF Reports
<1>. QED BY <1>1, <1>2, ReportedInv DEF Reports

LEMMA AnswerApplyStep ==
    ASSUME RunInv, NEW d \in Devices, NEW ok \in BOOLEAN, AnswerApply(d, ok)
    PROVE  RunInv'
<1>. DEFINE left == LinksWithout(run.out, d)
            good == run.ok + IF ok THEN 1 ELSE 0
<1>1. /\ d \in DOMAIN run.out
      /\ run' = (IF left = <<>> THEN Reported(ReportRunResult(good, run.of))
                 ELSE [run EXCEPT !.out = left, !.ok = good])
    BY DEF AnswerApply
<1>2. run \in RunType /\ run.out \in Outs /\ run.of \in Nat /\ run.ok \in Nat
    BY DEF RunInv, RunType, Outs
<1>3. good \in Nat /\ good <= run.ok + 1
    BY <1>2
<1>4. left \in Outs /\ DOMAIN left = DOMAIN run.out \ {d}
    <2>1. PICK S \in SUBSET Devices : run.out \in [S -> LinkValues \cup {0, State}]
        BY <1>2 DEF Outs
    <2>2. left \in [S \ {d} -> LinkValues \cup {0, State}] /\ S \ {d} \in SUBSET Devices
        BY <2>1 DEF LinksWithout
    <2>3. DOMAIN left = DOMAIN run.out \ {d}
        BY DEF LinksWithout
    <2>. HIDE DEF left
    <2>. QED BY <2>2, <2>3 DEF Outs
<1>5. Cardinality(DOMAIN left) = Cardinality(DOMAIN run.out) - 1 /\ Cardinality(DOMAIN run.out) \in Nat
    BY <1>1, <1>2, <1>4, OutsFinite, FS_RemoveElement
<1>. HIDE DEF left, good
<1>6. CASE left = <<>>
    BY <1>1, <1>6, ResultType, ReportedInv DEF Reports
<1>7. CASE left # <<>>
    <2>1. /\ run' = [run EXCEPT !.out = left, !.ok = good]
          /\ run.out # <<>>
        <3>1. DOMAIN <<>> = {}
            OBVIOUS
        <3>. QED BY <1>1, <1>7, <3>1
    <2>2. /\ run' \in RunType /\ run'.out = left /\ run'.ok = good /\ run'.of = run.of
          /\ run'.busy = run.busy
        BY <1>2, <1>3, <1>4, <2>1 DEF RunType, Outs
    <2>. QED BY <1>2, <1>3, <1>5, <2>1, <2>2 DEF RunInv
<1>. QED BY <1>6, <1>7

-----------------------------------------------------------------------------
(* The invariant *)

LEMMA StoredTypes ==
    ASSUME NEW s \in Initial
    PROVE  /\ s.type \in {"state", "preset"} /\ s.ps \in LinkValues
           /\ \E S \in SUBSET Devices : s.links \in [S -> LinkValues]
<1>1. s \in StoredOnes
    BY InitialAssumption
<1>2. CASE s \in {[type |-> "state", ps |-> Null, links |-> [d \in S |-> Null]] :
                     S \in SUBSET Devices \ {{}}}
    <2>1. PICK S \in SUBSET Devices \ {{}} :
              s = [type |-> "state", ps |-> Null, links |-> [d \in S |-> Null]]
        BY <1>2
    <2>2. Null \in LinkValues
        BY DEF LinkValues
    <2>3. s.type = "state" /\ s.ps = Null /\ s.links = [d \in S |-> Null]
        BY <2>1
    <2>4. s.links \in [S -> LinkValues] /\ S \in SUBSET Devices
        BY <2>2, <2>3
    <2>. QED BY <2>2, <2>3, <2>4
<1>3. CASE s \in UNION {[type : {"preset"}, ps : Presets, links : [S -> Presets \cup {Null}]] :
                           S \in SUBSET Devices \ {{}}}
    <2>1. PICK S \in SUBSET Devices \ {{}} :
              s \in [type : {"preset"}, ps : Presets, links : [S -> Presets \cup {Null}]]
        BY <1>3
    <2>. QED BY <2>1 DEF LinkValues
<1>. QED BY <1>1, <1>2, <1>3 DEF StoredOnes

LEMMA FormPageInit == Init => FormPageInv
<1>. SUFFICES ASSUME Init PROVE FormPageInv
    OBVIOUS
<1>1. /\ devices = Devices /\ editing \in BOOLEAN /\ open = TRUE /\ initPc = "settings"
      /\ fetched = NoSchedule /\ knownAction = None /\ form = InitForm /\ saves = <<>>
      /\ run = NotRun
    BY DEF Init
<1>2. DOMAIN saves = {} /\ saves \in Seq(SaveType) /\ Len(saves) = 0
    BY <1>1
<1>3. LoadInv
    BY <1>1, InitForms, NoScheduleType DEF LoadInv, Before, None
<1>4. FormsInv
    BY <1>1, InitForms DEF FormsInv, Looked
<1>5. SavesInv /\ AloneInv
    BY <1>2, FormConstants DEF SavesInv, AloneInv
<1>6. Created = {} /\ Ended2 = {} /\ Cardinality({}) = 0
    BY <1>2, FS_EmptySet DEF Created, Ended2
<1>7. ServerInv
    <2>1. CASE editing
        <3>1. PICK s \in Initial :
                  /\ actions = [id \in {1} |-> [type |-> s.type, ps |-> s.ps]]
                  /\ schedules = [id \in {1} |-> [action |-> 1, links |-> s.links]]
            BY <2>1 DEF Init
        <3>2. /\ s.type \in {"state", "preset"} /\ s.ps \in LinkValues
              /\ \E S \in SUBSET Devices : s.links \in [S -> LinkValues]
            BY StoredTypes
        <3>3. PICK S \in SUBSET Devices : s.links \in [S -> LinkValues]
            BY <3>2
        <3>4. s.links \in UNION {[T -> LinkValues \cup {0}] : T \in SUBSET Devices}
            <4>1. s.links \in [S -> LinkValues \cup {0}]
                BY <3>3
            <4>. QED BY <4>1
        <3>5. /\ DOMAIN actions = {1} /\ DOMAIN schedules = {1}
              /\ actions[1] = [type |-> s.type, ps |-> s.ps]
              /\ schedules[1] = [action |-> 1, links |-> s.links]
            BY <3>1
        <3>6. actions[1] \in ActionType /\ schedules[1] \in ScheduleType
            BY <3>2, <3>4, <3>5 DEF ActionType, ScheduleType
        <3>7. /\ actions \in [DOMAIN actions -> ActionType]
              /\ schedules \in [DOMAIN schedules -> ScheduleType]
            BY <3>1, <3>5, <3>6
        <3>. QED BY <1>1, <2>1, <3>2, <3>3, <3>5, <3>7 DEF ServerInv
    <2>2. CASE ~ editing
        <3>1. actions = <<>> /\ schedules = <<>>
            BY <2>2 DEF Init
        <3>2. DOMAIN <<>> = {} /\ <<>> \in [{} -> ActionType] /\ <<>> \in [{} -> ScheduleType]
            OBVIOUS
        <3>3. 0 \in 0..MaxSaves /\ 1..0 = {}
            BY FormConstants
        <3>. QED BY <1>1, <1>6, <2>2, <3>1, <3>2, <3>3 DEF ServerInv
    <2>. QED BY <1>1, <2>1, <2>2
<1>8. RunInv
    <2>1. NotRun = [busy |-> FALSE, out |-> <<>>, ok |-> 0, of |-> 0, report |-> "none"]
        BY DEF NotRun
    <2>2. NotRun \in RunType
        BY <2>1, EmptyOut DEF RunType, Outs
    <2>. QED BY <1>1, <2>1, <2>2, EmptyOut DEF RunInv
<1>. QED BY <1>3, <1>4, <1>5, <1>7, <1>8 DEF FormPageInv

LEMMA LoadsKeep == FormPageInv /\ Loads => FormPageInv'
<1>. SUFFICES ASSUME FormPageInv, Loads PROVE FormPageInv'
    OBVIOUS
<1>1. LoadInv' /\ FormsInv'
    <2>1. CASE LoadSettings
        BY <2>1, LoadSettingsStep DEF FormPageInv
    <2>2. CASE LoadSchedule
        BY <2>2, LoadScheduleStep DEF FormPageInv
    <2>3. CASE LoadDevices
        BY <2>3, LoadDevicesStep DEF FormPageInv
    <2>4. CASE InitThrows
        BY <2>4, InitThrowsStep DEF FormPageInv
    <2>5. ASSUME NEW r \in DOMAIN form.requests, NEW ok \in BOOLEAN, AnswerPresets(r, ok)
          PROVE  LoadInv' /\ FormsInv'
        BY <2>5, AnswerPresetsStep DEF FormPageInv
    <2>. QED BY ONLY Loads, <2>1, <2>2, <2>3, <2>4, <2>5, Zenon DEF Loads
<1>2. UNCHANGED <<serverVars, editing, saves>> /\ UNCHANGED run
    BY ONLY Loads, Zenon DEF Loads, LoadSettings, LoadSchedule, LoadDevices, InitThrows, AnswerPresets
<1>. QED BY <1>1, <1>2, ServerStays, RunStays DEF FormPageInv

LEMMA UserKeeps == FormPageInv /\ User => FormPageInv'
<1>. SUFFICES ASSUME FormPageInv, User PROVE FormPageInv'
    OBVIOUS
<1>1. ASSUME UNCHANGED <<serverVars, editing, saves>>, UNCHANGED run, LoadInv', FormsInv'
      PROVE  FormPageInv'
    BY <1>1, ServerStays, RunStays DEF FormPageInv
<1>2. ASSUME NEW d \in Devices, ToggleDevice(d) PROVE FormPageInv'
    <2>1. UNCHANGED <<serverVars, editing, saves>> /\ UNCHANGED run
        BY <1>2, Zenon DEF ToggleDevice, Edit
    <2>. QED BY <1>1, <1>2, <2>1, ToggleDeviceStep DEF FormPageInv
<1>3. ASSUME NEW mode \in {"state", "preset"}, ChooseMode(mode) PROVE FormPageInv'
    <2>1. UNCHANGED <<serverVars, editing, saves>> /\ UNCHANGED run
        BY <1>3, Zenon DEF ChooseMode, Edit
    <2>. QED BY <1>1, <1>3, <2>1, ChooseModeStep DEF FormPageInv
<1>4. ASSUME NEW p \in Presets, PickPreset(p) PROVE FormPageInv'
    <2>1. UNCHANGED <<serverVars, editing, saves>> /\ UNCHANGED run
        BY <1>4, Zenon DEF PickPreset, Edit
    <2>. QED BY <1>1, <1>4, <2>1, PickPresetStep DEF FormPageInv
<1>5. ASSUME NEW d \in Devices, NEW p \in Presets, PickRowPreset(d, p) PROVE FormPageInv'
    <2>1. UNCHANGED <<serverVars, editing, saves>> /\ UNCHANGED run
        BY <1>5, Zenon DEF PickRowPreset, Edit
    <2>. QED BY <1>1, <1>5, <2>1, PickRowPresetStep DEF FormPageInv
<1>6. CASE Submit
    BY <1>6, SubmitsStep
<1>7. CASE Cancel
    BY <1>7, CancelStep
<1>8. CASE RunNow
    <2>1. RunInv'
        BY <1>8, RunNowStep DEF FormPageInv
    <2>2. UNCHANGED <<serverVars, editing, saves>> /\ UNCHANGED <<open, loadVars, form>>
        BY <1>8 DEF RunNow
    <2>. QED BY <2>1, <2>2, RestStays DEF FormPageInv
<1>9. ASSUME NEW answered \in BOOLEAN, DeleteSchedule(answered) PROVE FormPageInv'
    BY <1>9, DeleteScheduleStep
<1>. QED BY ONLY User, <1>2, <1>3, <1>4, <1>5, <1>6, <1>7, <1>8, <1>9, Zenon DEF User

\* TypeOK, and what makes it and the properties inductive.
LEMMA FormPageNext == FormPageInv /\ [Next]_vars => FormPageInv'
<1>. SUFFICES ASSUME FormPageInv, [Next]_vars PROVE FormPageInv'
    OBVIOUS
<1>1. CASE Loads
    BY <1>1, LoadsKeep
<1>2. CASE User
    BY <1>2, UserKeeps
<1>3. ASSUME NEW k \in DOMAIN saves, Answers(k) PROVE FormPageInv'
    <2>1. PICK done \in BOOLEAN, answered \in BOOLEAN :
              SaveAction(k, done, answered) \/ SaveSchedule(k, done, answered)
        BY <1>3, Zenon DEF Answers
    <2>. QED BY <2>1, SaveActionStep, SaveScheduleStep
<1>4. CASE AnswerRunNow
    <2>1. RunInv'
        BY <1>4, AnswerRunNowStep DEF FormPageInv
    <2>2. UNCHANGED <<serverVars, editing, saves>> /\ UNCHANGED <<open, loadVars, form>>
        BY <1>4, Zenon DEF AnswerRunNow
    <2>. QED BY <2>1, <2>2, RestStays DEF FormPageInv
<1>5. ASSUME NEW d \in Devices, NEW ok \in BOOLEAN, AnswerApply(d, ok) PROVE FormPageInv'
    <2>1. RunInv'
        BY <1>5, AnswerApplyStep DEF FormPageInv
    <2>2. UNCHANGED <<serverVars, editing, saves>> /\ UNCHANGED <<open, loadVars, form>>
        BY <1>5, Zenon DEF AnswerApply
    <2>. QED BY <2>1, <2>2, RestStays DEF FormPageInv
<1>6. ASSUME NEW d \in Removable, RemoveDevice(d) PROVE FormPageInv'
    BY <1>6, RemoveDeviceStep
<1>7. CASE UNCHANGED vars
    <2>1. /\ UNCHANGED <<serverVars, editing, saves>> /\ UNCHANGED <<open, loadVars, form>>
          /\ UNCHANGED run
        BY <1>7 DEF vars
    <2>. QED BY <2>1, RestStays, RunStays DEF FormPageInv
<1>. QED BY ONLY [Next]_vars, <1>1, <1>2, <1>3, <1>4, <1>5, <1>6, <1>7, Zenon DEF Next

LEMMA FormPage == Spec => []FormPageInv
BY FormPageInit, FormPageNext, PTL DEF Spec

\* A save ends with an answer to its own second request.
LEMMA OnlySaveEnds ==
    ASSUME FormPageInv, [Next]_vars, NEW k \in DOMAIN saves,
           saves[k].pc = "schedule", saves'[k].pc = "saved"
    PROVE  \E done, answered \in BOOLEAN : SaveSchedule(k, done, answered)
<1>1. ASSUME saves' = saves PROVE FALSE
    BY <1>1
<1>2. CASE Loads
    <2>1. saves' = saves
        BY ONLY <1>2, Zenon DEF Loads, LoadSettings, LoadSchedule, LoadDevices, InitThrows, AnswerPresets
    <2>. QED BY <1>1, <2>1
<1>3. CASE User
    <2>1. CASE Submit
        <3>1. PICK new : saves' = Append(saves, new)
            BY <2>1 DEF Submit
        <3>2. saves \in Seq(SaveType) /\ DOMAIN saves = 1..Len(saves)
            BY SavesDomain DEF FormPageInv, SavesInv
        <3>3. saves'[k] = saves[k]
            BY <3>1, <3>2
        <3>. QED BY <3>3
    <2>2. CASE ~ Submit
        <3>1. saves' = saves
            BY ONLY <1>3, <2>2, Zenon DEF User, ToggleDevice, ChooseMode, PickPreset, PickRowPreset,
                   Edit, Cancel, RunNow, DeleteSchedule
        <3>. QED BY <1>1, <3>1
    <2>. QED BY <2>1, <2>2
<1>4. ASSUME NEW j \in DOMAIN saves, Answers(j)
      PROVE  \E done, answered \in BOOLEAN : SaveSchedule(k, done, answered)
    <2>1. PICK done \in BOOLEAN, answered \in BOOLEAN :
              SaveAction(j, done, answered) \/ SaveSchedule(j, done, answered)
        BY <1>4, Zenon DEF Answers
    <2>2. j = k
        <3>. SUFFICES ASSUME j # k PROVE FALSE
            OBVIOUS
        <3>1. \/ saves' = [saves EXCEPT ![j].pc = "schedule", ![j].action = ActionId(j)]
              \/ saves' = [saves EXCEPT ![j] = Ended("saved")]
              \/ saves' = [saves EXCEPT ![j] = Ended("failed")]
            BY <2>1 DEF SaveAction, SaveSchedule, SaveFails
        <3>2. saves'[k] = saves[k]
            BY <3>1
        <3>. QED BY <3>2
    <2>3. ~ SaveAction(k, done, answered)
        BY DEF SaveAction
    <2>. QED BY <2>1, <2>2, <2>3
<1>5. CASE AnswerRunNow
    BY <1>1, <1>5, Zenon DEF AnswerRunNow
<1>6. ASSUME NEW d \in Devices, NEW ok \in BOOLEAN, AnswerApply(d, ok) PROVE FALSE
    BY <1>1, <1>6, Zenon DEF AnswerApply
<1>7. ASSUME NEW d \in Removable, RemoveDevice(d) PROVE FALSE
    BY <1>1, <1>7, Zenon DEF RemoveDevice
<1>8. CASE UNCHANGED vars
    BY <1>1, <1>8 DEF vars
<1>. QED BY ONLY [Next]_vars, <1>2, <1>3, <1>4, <1>5, <1>6, <1>7, <1>8, Zenon DEF Next

-----------------------------------------------------------------------------
(* The theorems *)

\* Every variable of the page and of the server's three tables has its type,
\* whatever the order of answers and clicks; the links of a schedule name devices
\* that exist, and "Run now" never has more answers out than it counted.
THEOREM FormTypeCorrect == Spec => []TypeOK
<1>1. FormPageInv => TypeOK
    <2>. SUFFICES ASSUME FormPageInv PROVE TypeOK
        OBVIOUS
    <2>1. LoadInv /\ FormsInv /\ SavesInv /\ ServerInv /\ RunInv
        BY DEF FormPageInv
    <2>2. MaxSaves \in Nat /\ editing \in BOOLEAN
        BY <2>1, FormConstants DEF LoadInv
    <2>3. DOMAIN actions \subseteq Ids /\ DOMAIN schedules \subseteq Ids
        <3>1. CASE editing
            BY <2>1, <2>2, <3>1 DEF ServerInv, Ids
        <3>2. CASE ~ editing
            BY <2>1, <2>2, <3>2 DEF ServerInv, Ids
        <3>. QED BY <2>2, <3>1, <3>2
    <2>4. /\ devices \subseteq Devices
          /\ \A a \in DOMAIN actions : actions[a] \in
                [type : {"state", "preset"}, ps : Presets \cup {Null, 0}]
        BY <2>1 DEF ServerInv, ActionType, LinkValues
    <2>5. ASSUME NEW s \in DOMAIN schedules
          PROVE  /\ schedules[s].action \in DOMAIN actions
                 /\ DOMAIN schedules[s].links \subseteq devices
                 /\ \A d \in DOMAIN schedules[s].links :
                       schedules[s].links[d] \in Presets \cup {Null, 0}
        <3>1. schedules[s] \in ScheduleType
            BY <2>1 DEF ServerInv
        <3>2. PICK S \in SUBSET Devices : schedules[s].links \in [S -> LinkValues \cup {0}]
            BY <3>1 DEF ScheduleType
        <3>. QED BY <2>1, <3>2 DEF ServerInv, LinkValues
    <2>6. /\ initPc \in {"settings", "schedule", "devices", "presets", "done", "failed", "gone"}
          /\ knownAction \in Ids \cup {None}
        BY <2>1, <2>2 DEF LoadInv, Before, Ids
    <2>7. /\ form.checked \subseteq form.listed /\ form.listed \subseteq Devices
          /\ form.select \in SelectType /\ DOMAIN form.rows \subseteq Devices
          /\ \A d \in DOMAIN form.rows : form.rows[d] \in SelectType
          /\ DOMAIN form.requests \subseteq RequestType
        BY <2>1 DEF FormsInv, FormInv, FormBase, FormTypes
    <2>8. \A k \in DOMAIN saves : saves[k].pc \in {"action", "schedule", "saved", "failed"}
        BY <2>1, SavesDomain DEF SaveType
    <2>9. /\ run.ok \in 0..run.of /\ (run.out # <<>> => run.busy)
          /\ DOMAIN run.out \subseteq Devices /\ Cardinality(DOMAIN run.out) <= run.of
        <3>1. run.out \in Outs /\ run.ok \in Nat /\ run.of \in Nat
            BY <2>1 DEF RunInv, RunType, Outs
        <3>2. Cardinality(DOMAIN run.out) \in Nat /\ DOMAIN run.out \subseteq Devices
            BY <3>1, OutsFinite DEF Outs
        <3>. QED BY <2>1, <3>1, <3>2 DEF RunInv
    <2>. QED BY <2>3, <2>4, <2>5, <2>6, <2>7, <2>8, <2>9 DEF TypeOK
<1>. QED BY <1>1, FormPage, PTL

\* populatePresetSelect and loadPresetsPerDevice: an answer that comes late, or
\* after the rows were rendered again, never fills another device's row, and what
\* submit and "Run now" read is what Alpine shows.
THEOREM RowsAreOfOwnDevice == Spec => []RowsOfOwnDevice
<1>1. FormPageInv => RowsOfOwnDevice
    <2>. SUFFICES ASSUME FormPageInv PROVE RowsOfOwnDevice
        OBVIOUS
    <2>1. FormInv(form)
        BY DEF FormPageInv, FormsInv
    <2>. QED BY <2>1 DEF FormInv, FormBase, FormTypes, RowOfDevice, RowsCover, RowsOfOwnDevice
<1>. QED BY <1>1, FormPage, PTL

\* updateSaveButtonState: with no request and no save under way, Save is disabled
\* only for a form that lacks a device or a preset.
THEOREM SaveIsNotStuck == Spec => []SaveNotStuck
<1>1. FormPageInv => SaveNotStuck
    <2>. SUFFICES ASSUME FormPageInv, open, form.requests = EmptyBag,
                         \A k \in DOMAIN saves : saves[k].pc = "failed", form.saveDisabled
                  PROVE  SaveDisabled(form)
        BY DEF SaveNotStuck
    <2>1. Settled(form)
        BY DEF FormPageInv, FormsInv
    <2>2. DOMAIN form.requests = {}
        BY EmptyBagDomain
    <2>. QED BY <2>1, <2>2 DEF Settled
<1>. QED BY <1>1, FormPage, PTL

\* runNow and the submit handler read the controls separately; what the first
\* sends the lights is what the second has the server store.
THEOREM PreviewIsStored == Spec => []PreviewIsWhatSaveStores
<1>1. PreviewIsWhatSaveStores
    BY PreviewStores DEF PreviewIsWhatSaveStores
<1>. QED BY <1>1, PTL

\* A save that no other is beside stores, for every device, the preset that the
\* form showed when Save was clicked.
THEOREM SavedAsSubmitted == Spec => StoredAsSubmitted
<1>. DEFINE Asked(k) ==
               /\ saves[k].pc = "schedule" /\ saves'[k].pc = "saved"
               /\ saves[k].alone /\ k = Len(saves)
               /\ saves[k].sends.type = "preset"
            Stored(k) ==
               LET p == saves[k].sends IN
               \E s \in DOMAIN schedules' :
                  /\ DOMAIN schedules'[s].links = p.ids
                  /\ \A d \in p.ids :
                        Effective(schedules'[s].links[d], actions'[schedules'[s].action].ps)
                            = IF IsMultiDevice(p.ids) THEN p.presets[d] ELSE p.ps
<1>1. ASSUME FormPageInv, [Next]_vars, NEW k \in DOMAIN saves, Asked(k)
      PROVE  Stored(k)
    \* Only the answer to its second request ends a save.
    <2>1. PICK done \in BOOLEAN, answered \in BOOLEAN : SaveSchedule(k, done, answered)
        BY <1>1, OnlySaveEnds
    <2>. DEFINE p == saves[k].sends
                a == saves[k].action
                id == IF editing THEN 1 ELSE Cardinality(DOMAIN schedules) + 1
                links == ResolveDevicePresets(p, actions[a])
                stored == [action |-> a, links |-> links]
    <2>2. answered
        <3>. SUFFICES ASSUME ~ answered PROVE FALSE
            OBVIOUS
        <3>1. saves' = [saves EXCEPT ![k] = Ended("failed")]
            BY <2>1 DEF SaveSchedule, SaveFails
        <3>2. saves'[k].pc = "failed"
            BY <1>1, <3>1, EndedSave
        <3>. QED BY <1>1, <3>2
    <2>3. /\ done /\ ScheduleValid(p, actions[a]) /\ actions' = actions
          /\ schedules' = [s \in DOMAIN schedules \cup {id} |-> IF s = id THEN stored ELSE schedules[s]]
        BY <2>1, <2>2 DEF SaveSchedule
    <2>4. id \in DOMAIN schedules' /\ schedules'[id] = stored
        BY <2>3
    <2>5. actions[a] = [type |-> p.type, ps |-> p.ps] /\ p.type = "preset"
        BY <1>1 DEF FormPageInv, AloneInv
    <2>6. ~ IsMultiDevice(p.ids) => DOMAIN p.presets = {}
        BY <1>1 DEF FormPageInv, SavesInv
    <2>7. /\ DOMAIN links = p.ids
          /\ \A d \in p.ids : links[d] = IF d \in DOMAIN p.presets THEN p.presets[d] ELSE p.ps
        BY <2>5 DEF ResolveDevicePresets
    <2>8. /\ \A d \in DOMAIN p.presets : p.presets[d] # Null
          /\ IsMultiDevice(p.ids) => p.ids \subseteq DOMAIN p.presets
        BY <2>3, <2>5 DEF ScheduleValid
    <2>. HIDE DEF id, links, p, a
    <2>9. schedules'[id].action = a /\ schedules'[id].links = links /\ actions'[a].ps = p.ps
        BY <2>3, <2>4, <2>5
    <2>10. \A d \in p.ids : Effective(links[d], p.ps)
                                = IF IsMultiDevice(p.ids) THEN p.presets[d] ELSE p.ps
        BY <2>6, <2>7, <2>8 DEF Effective
    <2>11. /\ DOMAIN schedules'[id].links = p.ids
           /\ \A d \in p.ids :
                 Effective(schedules'[id].links[d], actions'[schedules'[id].action].ps)
                     = IF IsMultiDevice(p.ids) THEN p.presets[d] ELSE p.ps
        BY <2>7, <2>9, <2>10
    <2>. QED BY <2>4, <2>11 DEF p
<1>2. FormPageInv /\ [Next]_vars =>
          [\A k \in DOMAIN saves : Asked(k) => Stored(k)]_vars
    BY <1>1
<1>. QED BY <1>2, FormPage, PTL DEF Spec, StoredAsSubmitted
=============================================================================
