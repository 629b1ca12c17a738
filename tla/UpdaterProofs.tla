--------------------------- MODULE UpdaterProofs ---------------------------
(***************************************************************************)
(* Proofs about the settings page (SettingsPage) and the update it starts  *)
(* (Updater): for any values and number of releases, faults and clicks.    *)
(***************************************************************************)
EXTENDS SettingsPage, TLAPS

USE UpdaterAssumption DEF UpdaterAssumption, hostVars, Down

\* The page touches the host of the service only by the flag.
HostStep == HostNext \/ TouchFlag \/ UNCHANGED hostVars

\* The switch, the update checker and the bound on what the user does.
WidgetTypes ==
    /\ storedUp \in BOOLEAN
    /\ catchUp \in [value : BOOLEAN, box : BOOLEAN, saving : BOOLEAN, sent : BOOLEAN]
    /\ checker \in [checking : BOOLEAN, offered : 1..MaxVersion \cup {None},
                     applying : BOOLEAN, applied : BOOLEAN]
    /\ events \in 0..MaxEvents

\* Once the pull is behind it, the script has the code that was asked for before
\* it; the flag is there until its last step but one.
UpdateInv ==
    /\ HostTypeOK
    /\ wanted <= latest
    /\ UpdateNotForgotten
    /\ script = "pull" \/ Pulled => flag
    /\ Pulled => code >= wanted

\* Code and database fit from the migration to the next pull, and, after run.sh
\* has migrated, while no script is at work; the process is of that code unless
\* its restart is still to come or was cut off.
Fits == service # "migrating" => schema = code

RestInv ==
    /\ script = "pull" \/ Pulled => flag
    /\ script = "unflag" \/ ~ flag => Fits
    /\ ~ flag /\ script = "idle" /\ service = "up" => running = code \/ cutOff

-----------------------------------------------------------------------------
\* Every step of the page or of the host is one of HostStep.
LEMMA NextIsHostStep == [Next]_vars => HostStep
<1>. SUFFICES ASSUME [Next]_vars PROVE HostStep
    OBVIOUS
<1>. USE DEF HostStep
<1>1. CASE UNCHANGED vars
    BY <1>1 DEF vars
<1>2. CASE HostNext /\ UNCHANGED <<stored, storedUp, pageVars, events>>
    BY <1>2
<1>3. CASE PageNext
    <2>1. ASSUME Load \/ Loaded PROVE HostStep
        BY <2>1 DEF Load, Loaded
    <2>2. ASSUME NEW f, NEW value, Change(f, value) PROVE HostStep
        BY <2>2 DEF Change
    <2>3. ASSUME Locate \/ ToggleCatchUp \/ Check \/ Apply PROVE HostStep
        BY <2>3 DEF Locate, ToggleCatchUp, Check, Apply
    <2>4. ASSUME NEW ok, AnswerCheck(ok) PROVE HostStep
        BY <2>4 DEF AnswerCheck
    <2>5. ASSUME NEW s, NEW done, NEW answered, AnswerSave(s, done, answered) PROVE HostStep
        BY <2>5 DEF AnswerSave
    <2>6. ASSUME NEW done, NEW answered, AnswerCatchUp(done, answered) PROVE HostStep
        BY <2>6 DEF AnswerCatchUp
    <2>7. ASSUME NEW done, NEW answered, AnswerApply(done, answered) PROVE HostStep
        BY <2>7 DEF AnswerApply
    <2>. QED BY <1>3, <2>1, <2>2, <2>3, <2>4, <2>5, <2>6, <2>7 DEF PageNext
<1>. QED BY <1>1, <1>2, <1>3 DEF Next

LEMMA UpdateInit == Init => UpdateInv
<1>. SUFFICES ASSUME HostInit PROVE UpdateInv
    BY DEF Init
<1>1. MaxVersion \in Nat /\ 1 \in 1..MaxVersion /\ 1 \in 0..MaxVersion
    OBVIOUS
<1>2. /\ {latest, code, schema, wanted} \subseteq 1..MaxVersion
      /\ running \in 0..MaxVersion
    BY <1>1 DEF HostInit
<1>3. (running = Down) = (service # "up")
    BY DEF HostInit
<1>4. {flag, cutOff} \subseteq BOOLEAN
    BY DEF HostInit
<1>5. /\ script \in {"idle", "pull", "install", "migrate", "unflag", "restart"}
      /\ service \in {"migrating", "starting", "up"}
    BY DEF HostInit
<1>6. HostTypeOK
    BY <1>2, <1>3, <1>4, <1>5 DEF HostTypeOK
<1>. QED BY <1>6 DEF HostInit, UpdateInv, UpdateNotForgotten, Pulled

LEMMA UpdateStep == UpdateInv /\ HostStep => UpdateInv'
<1>. SUFFICES ASSUME UpdateInv, HostStep PROVE UpdateInv'
    OBVIOUS
<1>. USE DEF UpdateInv, HostTypeOK, UpdateNotForgotten, Pulled
<1>1. CASE UNCHANGED hostVars
    BY <1>1
<1>2. CASE TouchFlag
    BY <1>2 DEF TouchFlag
<1>3. CASE Publish
    BY <1>3 DEF Publish
<1>4. CASE StartScript
    BY <1>4 DEF StartScript, Triggered
<1>5. CASE Pull
    BY <1>5 DEF Pull
<1>6. CASE Install \/ Migrate
    BY <1>6 DEF Install, Migrate
<1>11. CASE Unflag
    <2>1. /\ script = "unflag" /\ script' = "restart" /\ flag' = FALSE
          /\ UNCHANGED <<latest, code, schema, running, service, faults, wanted, cutOff>>
        BY <1>11 DEF Unflag
    <2>2. HostTypeOK'
        <3>1. {flag', cutOff'} \subseteq BOOLEAN
            BY <2>1
        <3>. QED BY <2>1, <3>1
    <2>. QED BY <2>1, <2>2
<1>7. CASE RestartService
    <2>1. /\ script' = "idle" /\ running' = Down /\ service' = "migrating" /\ cutOff' = FALSE
          /\ UNCHANGED <<latest, code, schema, flag, faults, wanted>>
        BY <1>7 DEF RestartService, Stop
    <2>2. {flag', cutOff'} \subseteq BOOLEAN
        BY <2>1
    <2>. QED BY <2>1, <2>2
<1>8. CASE ScriptFails
    <2>1. /\ script' = "idle" /\ cutOff' = (cutOff \/ script = "restart")
          /\ UNCHANGED <<latest, code, schema, running, service, flag, wanted>>
        BY <1>8 DEF ScriptFails
    <2>2. HostTypeOK'
        <3>1. (cutOff \/ script = "restart") \in BOOLEAN
            OBVIOUS
        <3>2. cutOff' \in BOOLEAN
            BY <2>1, <3>1, Zenon
        <3>. QED BY <2>1, <3>2
    <2>. QED BY <2>1, <2>2
<1>9. CASE ServiceMigrates \/ ServiceStarts
    BY <1>9 DEF ServiceMigrates, ServiceStarts
<1>10. CASE Crash \/ PowerCut
    <2>1. /\ script' \in {script, "idle"} /\ running' = Down /\ service' = "migrating"
          /\ cutOff' = FALSE /\ UNCHANGED <<latest, code, schema, flag, wanted>>
        BY <1>10 DEF Crash, PowerCut, Stop
    <2>2. {flag', cutOff'} \subseteq BOOLEAN
        BY <2>1
    <2>. QED BY <2>1, <2>2
<1>. QED BY <1>1, <1>2, <1>3, <1>4, <1>5, <1>6, <1>7, <1>8, <1>9, <1>10, <1>11
         DEF HostStep, HostNext

-----------------------------------------------------------------------------
LEMMA RestInit == Init => RestInv
<1>1. HostInit => RestInv
    BY DEF HostInit, RestInv, Pulled, Fits
<1>. QED BY <1>1 DEF Init

\* The flag goes only in the step before the restart: without it the script is
\* idle after that restart, or cut off before it.
LEMMA RestStep == HostTypeOK /\ RestInv /\ HostStep => RestInv'
<1>. SUFFICES ASSUME HostTypeOK, RestInv, HostStep PROVE RestInv'
    OBVIOUS
<1>. USE DEF HostTypeOK, RestInv, Pulled, Fits
<1>1. CASE UNCHANGED hostVars
    BY <1>1
<1>2. CASE TouchFlag
    BY <1>2 DEF TouchFlag
<1>3. CASE Publish
    BY <1>3 DEF Publish
<1>4. CASE StartScript
    BY <1>4 DEF StartScript, Triggered
<1>5. CASE Pull
    BY <1>5 DEF Pull
<1>6. CASE Install \/ Migrate \/ Unflag
    BY <1>6 DEF Install, Migrate, Unflag
<1>7. CASE RestartService
    BY <1>7 DEF RestartService, Stop
<1>8. CASE ScriptFails
    BY <1>8 DEF ScriptFails, Fault
<1>9. CASE ServiceMigrates \/ ServiceStarts
    BY <1>9 DEF ServiceMigrates, ServiceStarts
<1>10. CASE Crash \/ PowerCut
    BY <1>10 DEF Crash, PowerCut, Fault, Stop
<1>. QED BY <1>1, <1>2, <1>3, <1>4, <1>5, <1>6, <1>7, <1>8, <1>9, <1>10 DEF HostStep, HostNext

-----------------------------------------------------------------------------
(* The fields of the settings page *)

Stored == Values \cup {Null}
EntryType == [shown : Stored, lastSaved : Stored, sure : BOOLEAN, alone : BOOLEAN]
SaveType == [field : Fields, value : Stored, by : {"change", "locate"}]
LoadingType == [pc : {"asked", "answered", "done"}, read : [Fields -> Stored], up : BOOLEAN]

\* "Use my location" has one save under way, of the field it has come to.
LocateSaves ==
    /\ locate \in Fields \cup {NoField}
    /\ locate # NoField => \E s \in saves : s.by = "locate" /\ s.field = locate
    /\ \A s \in saves : s.by = "locate" => s.field = locate
    /\ \A s, t \in saves : s.by = "locate" /\ t.by = "locate" => s = t

FieldTypes ==
    /\ stored \in [Fields -> Stored] /\ loading \in LoadingType
    /\ field \in [Fields -> EntryType] /\ saves \subseteq SaveType

\* Its place is shown, and will be saved after the latitude.
Awaits(f) == locate = "latitude" /\ f = "longitude"

\* What is known of a field that is alone: init() is through, and the one save
\* there may be sends what the field shows.
AloneField(f) ==
    /\ loading.pc = "done"
    /\ \A s, t \in saves : s.field = f /\ t.field = f => s = t
    /\ \A s \in saves : s.field = f => s.value = field[f].shown

\* What is known of a field that is sure: before init() is through, that no save
\* of it is under way and that init() has read what is stored; after that, that
\* lastSaved is what is stored, and that a save of it is alone.
SureField(f) ==
    IF loading.pc = "done"
    THEN /\ field[f].lastSaved = stored[f]
         /\ Saving(f) => field[f].alone
         /\ ~ Saving(f) => field[f].shown = field[f].lastSaved \/ Awaits(f)
    ELSE ~ Saving(f) /\ (loading.pc = "answered" => loading.read[f] = stored[f])

KnownField(f) ==
    (field[f].sure => SureField(f)) /\ (field[f].alone => AloneField(f))

FieldInv ==
    /\ FieldTypes /\ LocateSaves
    /\ \A f \in Fields : KnownField(f)

FieldVars == <<stored, loading, field, saves, locate>>

USE SettingsAssumption DEF SettingsAssumption

LEMMA FieldInit == Init => FieldInv
<1>. SUFFICES ASSUME Init PROVE FieldInv
    OBVIOUS
<1>1. /\ stored \in Start /\ saves = {} /\ locate = NoField
      /\ loading = [pc |-> "asked", read |-> [f \in Fields |-> Null], up |-> FALSE]
      /\ field = [f \in Fields |-> [shown |-> Null, lastSaved |-> Null, sure |-> TRUE,
                                  alone |-> FALSE]]
    BY DEF Init
<1>2. FieldTypes
    BY <1>1 DEF FieldTypes, Stored, EntryType, LoadingType
<1>3. LocateSaves
    BY <1>1 DEF LocateSaves
<1>4. \A f \in Fields : KnownField(f)
    BY <1>1 DEF KnownField, SureField, Saving
<1>. QED BY <1>2, <1>3, <1>4 DEF FieldInv

LEMMA FieldStays == FieldInv /\ UNCHANGED FieldVars => FieldInv'
BY DEF FieldInv, FieldVars, FieldTypes, LocateSaves, KnownField, AloneField, SureField, Saving,
       Awaits

LEMMA EnterType ==
    ASSUME NEW entry \in EntryType, NEW f \in Fields, NEW value \in Stored
    PROVE  Enter(entry, f, value) \in EntryType
BY DEF Enter, EntryType, Overlaps

LEMMA LoadField == FieldInv /\ storedUp \in BOOLEAN /\ Load => FieldInv'
<1>. SUFFICES ASSUME FieldInv, storedUp \in BOOLEAN, Load PROVE FieldInv'
    OBVIOUS
<1>1. /\ loading.pc = "asked" /\ UNCHANGED <<stored, field, saves, locate>>
      /\ loading' = [pc |-> "answered", read |-> stored, up |-> storedUp]
    BY DEF Load
<1>2. FieldTypes' /\ LocateSaves'
    BY <1>1 DEF FieldInv, FieldTypes, LocateSaves, LoadingType
<1>3. \A f \in Fields : KnownField(f)'
    BY <1>1 DEF FieldInv, KnownField, AloneField, SureField, Saving
<1>. QED BY <1>2, <1>3 DEF FieldInv

LEMMA LoadedField == FieldInv /\ Loaded => FieldInv'
<1>. SUFFICES ASSUME FieldInv, Loaded PROVE FieldInv'
    OBVIOUS
<1>1. /\ loading.pc = "answered" /\ UNCHANGED <<stored, saves, locate>>
      /\ loading' = [loading EXCEPT !.pc = "done"]
      /\ field' = [f \in Fields |-> Fill(f, loading.read[f])]
    BY DEF Loaded
<1>2. loading \in LoadingType /\ loading.read \in [Fields -> Stored]
    BY DEF FieldInv, FieldTypes, LoadingType
<1>3. ASSUME NEW f \in Fields
      PROVE  /\ field'[f] \in EntryType /\ field'[f].shown = field'[f].lastSaved
             /\ ~ field'[f].alone
             /\ field'[f].sure => /\ field'[f].shown = loading.read[f]
                                  /\ field[f].sure /\ ~ Saving(f)
    <2>1. loading.read[f] \in Stored /\ field[f].sure \in BOOLEAN
        BY <1>2 DEF FieldInv, FieldTypes, EntryType
    <2>2. PopulateTimezoneOptions(loading.read[f]) \in Stored
        BY <2>1 DEF PopulateTimezoneOptions, Stored
    <2>. QED BY <1>1, <2>1, <2>2 DEF Fill, EntryType, Saving
<1>4. FieldTypes' /\ LocateSaves'
    BY <1>1, <1>2, <1>3 DEF FieldInv, FieldTypes, LocateSaves, LoadingType
<1>5. loading'.pc = "done"
    BY <1>1, <1>2 DEF LoadingType
<1>6. ASSUME NEW f \in Fields, field'[f].sure PROVE SureField(f)'
    <2>1. /\ ~ Saving(f) /\ loading.read[f] = stored[f]
          /\ field'[f].shown = field'[f].lastSaved /\ field'[f].lastSaved = stored[f]
        BY <1>1, <1>3, <1>6 DEF FieldInv, KnownField, SureField
    <2>. QED BY <1>1, <1>5, <2>1 DEF SureField, Saving
<1>. QED BY <1>3, <1>4, <1>6 DEF FieldInv, KnownField

LEMMA ChangeField ==
    ASSUME FieldInv, NEW f \in Fields, NEW value \in Stored, Change(f, value)
    PROVE  FieldInv'
<1>. DEFINE new == Save(f, value, "change")
<1>1. /\ loading.pc = "done" /\ UNCHANGED <<stored, loading, locate>>
      /\ field' = [field EXCEPT ![f] = Enter(field[f], f, value)]
      /\ saves' = saves \cup {new}
    BY DEF Change
<1>2. field \in [Fields -> EntryType] /\ field[f] \in EntryType
    BY DEF FieldInv, FieldTypes
<1>3. /\ field'[f] = Enter(field[f], f, value)
      /\ \A g \in Fields : g # f => field'[g] = field[g]
      /\ field' \in [Fields -> EntryType]
    BY <1>1, <1>2, EnterType
<1>4. new.field = f /\ new.value = value /\ new.by = "change" /\ new \in SaveType
    BY DEF Save, SaveType
<1>. HIDE DEF new
<1>6. FieldTypes' /\ LocateSaves'
    BY <1>1, <1>3, <1>4 DEF FieldInv, FieldTypes, LocateSaves
<1>7. ASSUME NEW g \in Fields PROVE KnownField(g)'
    <2>0. KnownField(g)
        BY DEF FieldInv
    <2>1. CASE g = f
        <3>0. /\ field'[f].shown = value /\ field'[f].lastSaved = field[f].lastSaved
              /\ field'[f].sure = (field[f].sure /\ ~ Overlaps(f))
              /\ field'[f].alone = ~ Overlaps(f)
            BY <1>3 DEF Enter
        <3>1. CASE Overlaps(f)
            BY <2>1, <3>0, <3>1 DEF KnownField
        <3>2. CASE ~ Overlaps(f)
            <4>1. \A s \in saves' : s.field = f => s = new
                BY <1>1, <3>2 DEF Overlaps
            <4>2. AloneField(f)'
                BY <1>1, <1>4, <3>0, <4>1 DEF AloneField
            <4>3. Saving(f)' /\ field'[f].alone
                BY <1>1, <1>4, <3>0, <3>2 DEF Saving
            <4>4. field'[f].sure => SureField(f)'
                BY <1>1, <2>0, <2>1, <3>0, <4>3 DEF KnownField, SureField
            <4>. QED BY <2>1, <4>2, <4>4 DEF KnownField
        <3>. QED BY <3>1, <3>2
    <2>2. CASE g # f
        <3>1. field'[g] = field[g] /\ \A s \in saves' : s.field = g => s \in saves
            BY <1>1, <1>3, <1>4, <2>2
        <3>2. Saving(g)' <=> Saving(g)
            BY <1>1, <3>1 DEF Saving
        <3>. QED BY <1>1, <2>0, <3>1, <3>2 DEF KnownField, AloneField, SureField, Awaits
    <2>. QED BY <2>1, <2>2
<1>. QED BY <1>6, <1>7 DEF FieldInv

LEMMA LocateField == FieldInv /\ Locate => FieldInv'
<1>. SUFFICES ASSUME FieldInv, Locate PROVE FieldInv'
    OBVIOUS
<1>. DEFINE new == Save("latitude", Place["latitude"], "locate")
<1>1. /\ locate = NoField /\ locate' = "latitude" /\ UNCHANGED <<stored, loading>>
      /\ field' = [f \in Fields |->
            IF f = "timezone" THEN field[f] ELSE Enter(field[f], f, Place[f])]
      /\ saves' = saves \cup {new}
    BY DEF Locate
<1>2. \A f \in Fields : field[f] \in EntryType /\ Place[f] \in Stored
    BY DEF FieldInv, FieldTypes, Stored
<1>4. /\ new.field = "latitude" /\ new.value = Place["latitude"] /\ new.by = "locate"
      /\ new \in SaveType
    BY DEF Save, SaveType, Stored, Fields
<1>. HIDE DEF new
<1>5. field' \in [Fields -> EntryType]
    BY <1>1, <1>2, EnterType
<1>6. \A s \in saves : s.by # "locate"
    BY <1>1 DEF FieldInv, LocateSaves, FieldTypes, SaveType, Fields, NoField
<1>7. FieldTypes' /\ LocateSaves'
    BY <1>1, <1>4, <1>5, <1>6 DEF FieldInv, FieldTypes, LocateSaves, Fields, NoField
<1>8. ASSUME NEW f \in Fields PROVE KnownField(f)'
    <2>0. KnownField(f)
        BY DEF FieldInv
    <2>1. CASE f = "timezone"
        <3>1. field'[f] = field[f] /\ new.field # f
            BY <1>1, <1>4, <2>1
        <3>2. /\ \A s \in saves' : s.field = f => s \in saves
              /\ Saving(f)' <=> Saving(f)
            BY <1>1, <3>1 DEF Saving
        <3>. QED BY <1>1, <2>0, <2>1, <3>1, <3>2 DEF KnownField, AloneField, SureField, Awaits
    <2>2. CASE f # "timezone"
        <3>0. /\ field'[f].shown = Place[f] /\ field'[f].lastSaved = field[f].lastSaved
              /\ field'[f].sure = (field[f].sure /\ ~ Overlaps(f))
              /\ field'[f].alone = ~ Overlaps(f)
            BY <1>1, <2>2 DEF Enter
        <3>1. CASE Overlaps(f)
            BY <3>0, <3>1 DEF KnownField
        <3>2. CASE ~ Overlaps(f)
            <4>1. loading.pc = "done" /\ \A s \in saves' : s.field = f => s = new
                BY <1>1, <3>2 DEF Overlaps
            <4>2. new.field = f => new.value = Place[f]
                BY <1>4
            <4>3. AloneField(f)'
                BY <1>1, <3>0, <4>1, <4>2 DEF AloneField
            <4>4. Saving(f)' \/ Awaits(f)'
                BY <1>1, <1>4, <2>2 DEF Saving, Awaits, Fields
            <4>5. field'[f].sure => SureField(f)'
                BY <1>1, <2>0, <3>0, <3>2, <4>1, <4>4 DEF KnownField, SureField
            <4>. QED BY <4>3, <4>5 DEF KnownField
        <3>. QED BY <3>1, <3>2
    <2>. QED BY <2>1, <2>2
<1>. QED BY <1>7, <1>8 DEF FieldInv

\* The answer of a save, before saveField goes on with the next field.
LEMMA AnsweredEntry ==
    ASSUME FieldInv, NEW s \in saves, NEW done \in BOOLEAN, NEW answered \in BOOLEAN,
           answered => done,
           NEW entry, entry = Saved(field[s.field], s.value, answered, done)
    PROVE  /\ entry \in EntryType
           /\ entry.sure => /\ entry.shown = entry.lastSaved
                            /\ entry.lastSaved = IF done THEN s.value ELSE stored[s.field]
           /\ entry.sure \/ entry.alone => /\ loading.pc = "done"
                                           /\ \A t \in saves : t.field = s.field => t = s
<1>. DEFINE f == s.field
<1>1. /\ f \in Fields /\ s.value \in Stored /\ field[f] \in EntryType /\ Saving(f)
      /\ field[f].sure => SureField(f)
      /\ field[f].alone => AloneField(f)
    BY DEF FieldInv, FieldTypes, SaveType, Saving, KnownField
<1>2. entry = IF answered
              THEN [shown |-> field[f].shown, lastSaved |-> s.value,
                    sure |-> field[f].alone, alone |-> field[f].alone]
              ELSE [shown |-> field[f].lastSaved, lastSaved |-> field[f].lastSaved,
                    sure |-> field[f].sure /\ ~ done, alone |-> field[f].alone]
    BY DEF Saved
<1>3. entry \in EntryType
    <2>1. CASE answered
        BY <1>1, <1>2, <2>1 DEF EntryType
    <2>2. CASE ~ answered
        <3>1. (field[f].sure /\ ~ done) \in BOOLEAN
            OBVIOUS
        <3>. QED BY <1>1, <1>2, <2>2, <3>1 DEF EntryType
    <2>. QED BY <2>1, <2>2
<1>4. field[f].alone => /\ loading.pc = "done" /\ s.value = field[f].shown
                        /\ \A t \in saves : t.field = f => t = s
    BY <1>1 DEF AloneField
<1>5. field[f].sure => field[f].alone /\ field[f].lastSaved = stored[f]
    BY <1>1 DEF SureField
<1>. HIDE DEF f
<1>6. CASE answered
    <2>1. /\ entry.sure = field[f].alone /\ entry.alone = field[f].alone
          /\ entry.shown = field[f].shown /\ entry.lastSaved = s.value
        BY <1>2, <1>6
    <2>. QED BY <1>3, <1>4, <1>6, <2>1 DEF f
<1>7. CASE ~ answered
    <2>1. /\ entry.sure = (field[f].sure /\ ~ done) /\ entry.alone = field[f].alone
          /\ entry.shown = field[f].lastSaved /\ entry.lastSaved = field[f].lastSaved
        BY <1>2, <1>7
    <2>. QED BY <1>3, <1>4, <1>5, <2>1 DEF f
<1>. QED BY <1>6, <1>7

LEMMA AnswerSaveField ==
    ASSUME FieldInv, NEW s \in saves, NEW done \in BOOLEAN, NEW answered \in BOOLEAN,
           AnswerSave(s, done, answered)
    PROVE  FieldInv'
<1>. DEFINE g == s.field
            entry == Saved(field[g], s.value, answered, done)
            entries == [field EXCEPT ![g] = entry]
<1>1. /\ answered => done
      /\ stored' = IF done THEN [stored EXCEPT ![g] = s.value] ELSE stored
      /\ loading' = loading
      /\ Continue(s, entries)
    BY DEF AnswerSave
<1>2. /\ g \in Fields /\ s.value \in Stored /\ s.by \in {"change", "locate"}
      /\ field \in [Fields -> EntryType] /\ stored \in [Fields -> Stored]
      /\ saves \subseteq SaveType /\ loading \in LoadingType
    BY DEF FieldInv, FieldTypes, SaveType
<1>3. /\ entry \in EntryType
      /\ entry.sure => /\ entry.shown = entry.lastSaved
                       /\ entry.lastSaved = IF done THEN s.value ELSE stored[g]
      /\ entry.sure \/ entry.alone => /\ loading.pc = "done"
                                      /\ \A t \in saves : t.field = g => t = s
    BY <1>1, AnsweredEntry
<1>. HIDE DEF g, entry
<1>4. /\ entries \in [Fields -> EntryType] /\ entries[g] = entry
      /\ \A f \in Fields : f # g => entries[f] = field[f]
    BY <1>2, <1>3
<1>5. /\ stored' \in [Fields -> Stored]
      /\ stored'[g] = IF done THEN s.value ELSE stored[g]
      /\ \A f \in Fields : f # g => stored'[f] = stored[f]
    BY <1>1, <1>2
<1>6. /\ s.by = "locate" => g = locate
      /\ \A t \in saves : s.by = "locate" /\ t.by = "locate" => t = s
      /\ locate \in Fields \cup {NoField}
    BY DEF FieldInv, LocateSaves, g
<1>. HIDE DEF entries
\* The field that was saved.
<1>7. ASSUME field'[g] = entry, \A t \in saves' : t.field = g => t \in saves \ {s}
      PROVE  KnownField(g)'
    <2>1. CASE entry.sure \/ entry.alone
        <3>1. loading'.pc = "done" /\ \A t \in saves' : t.field # g
            BY <1>1, <1>3, <1>7, <2>1
        <3>. QED BY <1>3, <1>5, <1>7, <3>1 DEF KnownField, AloneField, SureField, Saving
    <2>2. CASE ~ (entry.sure \/ entry.alone)
        BY <1>7, <2>2 DEF KnownField
    <2>. QED BY <2>1, <2>2
\* A field that has nothing to do with it.
<1>8. ASSUME NEW f \in Fields, f # g, field'[f] = field[f],
             \A t \in saves \cup saves' : t.field = f => t \in saves /\ t \in saves',
             Awaits(f) => Awaits(f)'
      PROVE  KnownField(f)'
    <2>1. KnownField(f)
        BY DEF FieldInv
    <2>2. stored'[f] = stored[f]
        BY <1>5, <1>8
    <2>3. Saving(f)' <=> Saving(f)
        BY <1>8 DEF Saving
    <2>. QED BY <1>1, <1>8, <2>1, <2>2, <2>3 DEF KnownField, AloneField, SureField
\* saveField returns to the listener, or to the end of "Use my location".
<1>9. CASE s.by = "change" \/ g = "timezone"
    <2>1. /\ saves' = saves \ {s} /\ field' = entries
          /\ IF s.by = "change" THEN locate' = locate ELSE locate' = NoField
        BY <1>1, <1>9 DEF Continue, g
    <2>2. FieldTypes'
        BY <1>1, <1>2, <1>4, <1>5, <2>1 DEF FieldTypes
    <2>3. LocateSaves'
        <3>1. CASE s.by = "change"
            BY <2>1, <3>1 DEF FieldInv, LocateSaves
        <3>2. CASE s.by # "change"
            BY <1>2, <1>6, <2>1, <3>2 DEF FieldInv, LocateSaves
        <3>. QED BY <3>1, <3>2
    <2>4. ASSUME NEW f \in Fields PROVE KnownField(f)'
        <3>1. CASE f = g
            BY <1>4, <1>7, <2>1, <3>1
        <3>2. CASE f # g
            <4>1. field'[f] = field[f]
                BY <1>4, <2>1, <3>2
            <4>2. \A t \in saves \cup saves' : t.field = f => t \in saves /\ t \in saves'
                BY <2>1, <3>2 DEF g
            <4>3. Awaits(f) => Awaits(f)'
                BY <1>2, <1>6, <1>9, <2>1 DEF Awaits
            <4>. QED BY <1>8, <3>2, <4>1, <4>2, <4>3
        <3>. QED BY <3>1, <3>2
    <2>. QED BY <2>2, <2>3, <2>4 DEF FieldInv
\* "Use my location" goes on.
<1>10. CASE s.by = "locate" /\ g # "timezone"
    <2>. DEFINE n == NextField[g]
                shown == IF n = "timezone" THEN Place[n] ELSE entries[n].shown
                new == Save(n, shown, "locate")
    <2>1. /\ locate' = n /\ saves' = (saves \ {s}) \cup {new}
          /\ field' = [entries EXCEPT ![n] = Enter(entries[n], n, shown)]
        BY <1>10, <1>1, Zenon DEF Continue, g
    <2>2. /\ n \in Fields /\ n # g /\ n # NoField
          /\ locate = "latitude" => n = "longitude"
        BY <1>2, <1>6, <1>10 DEF NextField, Fields, NoField
    <2>. HIDE DEF n
    <2>3. shown \in Stored
        BY <1>4, <2>2 DEF EntryType, Stored
    <2>. HIDE DEF shown
    <2>4. new.field = n /\ new.value = shown /\ new.by = "locate" /\ new \in SaveType
        BY <2>2, <2>3 DEF Save, SaveType
    <2>. HIDE DEF new
    <2>5. entries[n] = field[n] /\ field[n] \in EntryType
        BY <1>2, <1>4, <2>2
    <2>6. /\ field'[n] = Enter(field[n], n, shown)
          /\ \A f \in Fields : f # n => field'[f] = entries[f]
          /\ field' \in [Fields -> EntryType]
        BY <1>4, <2>1, <2>2, <2>3, <2>5, EnterType
    <2>7. FieldTypes'
        BY <1>1, <1>2, <1>5, <2>1, <2>4, <2>6 DEF FieldTypes
    <2>8. LocateSaves'
        <3>1. \A t \in saves \ {s} : t.by # "locate"
            BY <1>6, <1>10
        <3>. QED BY <2>1, <2>2, <2>4, <3>1 DEF LocateSaves
    <2>9. ASSUME NEW f \in Fields PROVE KnownField(f)'
        <3>1. CASE f = g
            BY <1>4, <1>7, <2>1, <2>2, <2>4, <2>6, <3>1
        <3>2. CASE f = n
            <4>1. /\ field'[n].shown = shown /\ field'[n].lastSaved = field[n].lastSaved
                  /\ field'[n].sure = (field[n].sure /\ ~ Overlaps(n))
                  /\ field'[n].alone = ~ Overlaps(n)
                BY <2>6 DEF Enter
            <4>2. CASE Overlaps(n)
                BY <3>2, <4>1, <4>2 DEF KnownField
            <4>3. CASE ~ Overlaps(n)
                <5>1. /\ loading'.pc = "done" /\ new \in saves'
                      /\ \A t \in saves' : t.field = n => t = new
                    BY <1>1, <2>1, <4>3 DEF Overlaps
                <5>2. AloneField(n)'
                    BY <2>4, <4>1, <5>1 DEF AloneField
                <5>3. Saving(n)' /\ field'[n].alone
                    BY <2>4, <4>1, <4>3, <5>1 DEF Saving
                <5>4. field[n].sure => field[n].lastSaved = stored[n]
                    BY <1>1, <2>2, <5>1 DEF FieldInv, KnownField, SureField
                <5>5. stored'[n] = stored[n]
                    BY <1>5, <2>2
                <5>6. field'[n].sure => SureField(n)'
                    BY <4>1, <5>1, <5>3, <5>4, <5>5 DEF SureField
                <5>. QED BY <3>2, <5>2, <5>6 DEF KnownField
            <4>. QED BY <4>2, <4>3
        <3>3. CASE f # g /\ f # n
            <4>1. field'[f] = field[f]
                BY <1>4, <2>6, <3>3
            <4>2. \A t \in saves \cup saves' : t.field = f => t \in saves /\ t \in saves'
                BY <2>1, <2>4, <3>3 DEF g
            <4>3. ~ Awaits(f)
                BY <2>2, <3>3 DEF Awaits
            <4>. QED BY <1>8, <3>3, <4>1, <4>2, <4>3
        <3>. QED BY <3>1, <3>2, <3>3
    <2>. QED BY <2>7, <2>8, <2>9 DEF FieldInv
<1>. QED BY <1>2, <1>9, <1>10

LEMMA WidgetInit == Init => WidgetTypes
BY DEF Init, WidgetTypes

SettingsInv == HostTypeOK /\ FieldInv /\ WidgetTypes

LEMMA SettingsStep == SettingsInv /\ [Next]_vars => FieldInv' /\ WidgetTypes'
<1>. SUFFICES ASSUME SettingsInv, [Next]_vars PROVE FieldInv' /\ WidgetTypes'
    OBVIOUS
<1>1. HostTypeOK /\ FieldInv /\ WidgetTypes /\ storedUp \in BOOLEAN
    BY DEF SettingsInv, WidgetTypes
<1>2. UNCHANGED <<storedUp, catchUp, checker, events>> => WidgetTypes'
    BY <1>1 DEF WidgetTypes
<1>3. events \in 0..MaxEvents /\ MaxEvents \in Nat
    BY <1>1 DEF WidgetTypes
<1>4. events < MaxEvents => events + 1 \in 0..MaxEvents
    BY <1>3
<1>5. events < MaxEvents /\ events' = events + 1 /\ UNCHANGED <<storedUp, catchUp, checker>>
      => WidgetTypes'
    BY <1>1, <1>4 DEF WidgetTypes
<1>6. UNCHANGED FieldVars /\ UNCHANGED <<storedUp, catchUp, checker, events>>
      => FieldInv' /\ WidgetTypes'
    BY <1>1, <1>2, FieldStays
<1>7. CASE Load
    <2>1. UNCHANGED <<storedUp, catchUp, checker, events>>
        BY <1>7 DEF Load
    <2>. QED BY <1>1, <1>2, <1>7, <2>1, LoadField
<1>8. CASE Loaded
    <2>1. catchUp' = SetCatchUp(loading.up) /\ UNCHANGED <<storedUp, checker, events>>
        BY <1>8 DEF Loaded
    <2>2. loading.up \in BOOLEAN
        BY <1>1 DEF FieldInv, FieldTypes, LoadingType
    <2>3. WidgetTypes'
        BY <1>1, <2>1, <2>2 DEF WidgetTypes, SetCatchUp
    <2>. QED BY <1>1, <1>8, <2>3, LoadedField
<1>9. ASSUME NEW f \in Fields, NEW value \in Values \cup {Null}, Change(f, value)
      PROVE  FieldInv' /\ WidgetTypes'
    <2>1. events < MaxEvents /\ events' = events + 1 /\ UNCHANGED <<storedUp, catchUp, checker>>
        BY <1>9 DEF Change
    <2>. QED BY <1>1, <1>5, <1>9, <2>1, ChangeField DEF Stored
<1>10. CASE Locate
    <2>1. events < MaxEvents /\ events' = events + 1 /\ UNCHANGED <<storedUp, catchUp, checker>>
        BY <1>10 DEF Locate
    <2>. QED BY <1>1, <1>5, <1>10, <2>1, LocateField
<1>11. ASSUME NEW s \in saves, NEW done \in BOOLEAN, NEW answered \in BOOLEAN,
              AnswerSave(s, done, answered)
       PROVE  FieldInv' /\ WidgetTypes'
    <2>1. UNCHANGED <<storedUp, catchUp, checker, events>>
        BY <1>11 DEF AnswerSave
    <2>. QED BY <1>1, <1>2, <1>11, <2>1, AnswerSaveField
<1>12. CASE ToggleCatchUp
    <2>1. UNCHANGED FieldVars
        BY <1>12 DEF ToggleCatchUp, FieldVars
    <2>2. WidgetTypes'
        BY <1>1, <1>4, <1>12 DEF WidgetTypes, ToggleCatchUp
    <2>. QED BY <1>1, <2>1, <2>2, FieldStays
<1>13. ASSUME NEW done \in BOOLEAN, NEW answered \in BOOLEAN, AnswerCatchUp(done, answered)
       PROVE  FieldInv' /\ WidgetTypes'
    <2>1. UNCHANGED FieldVars
        BY <1>13 DEF AnswerCatchUp, FieldVars
    <2>2. WidgetTypes'
        BY <1>1, <1>13 DEF WidgetTypes, AnswerCatchUp, SetCatchUp
    <2>. QED BY <1>1, <2>1, <2>2, FieldStays
<1>14. CASE Check
    <2>1. UNCHANGED FieldVars
        BY <1>14 DEF Check, FieldVars
    <2>2. WidgetTypes'
        BY <1>1, <1>4, <1>14 DEF WidgetTypes, Check
    <2>. QED BY <1>1, <2>1, <2>2, FieldStays
<1>15. ASSUME NEW ok \in BOOLEAN, AnswerCheck(ok) PROVE FieldInv' /\ WidgetTypes'
    <2>1. UNCHANGED FieldVars
        BY <1>15 DEF AnswerCheck, FieldVars
    <2>2. latest \in 1..MaxVersion
        BY <1>1 DEF HostTypeOK
    <2>3. WidgetTypes'
        BY <1>1, <1>15, <2>2 DEF WidgetTypes, AnswerCheck
    <2>. QED BY <1>1, <2>1, <2>3, FieldStays
<1>16. CASE Apply
    <2>1. UNCHANGED FieldVars
        BY <1>16 DEF Apply, FieldVars
    <2>2. WidgetTypes'
        BY <1>1, <1>16 DEF WidgetTypes, Apply
    <2>. QED BY <1>1, <2>1, <2>2, FieldStays
<1>17. ASSUME NEW done \in BOOLEAN, NEW answered \in BOOLEAN, AnswerApply(done, answered)
       PROVE  FieldInv' /\ WidgetTypes'
    <2>1. UNCHANGED FieldVars
        BY <1>17 DEF AnswerApply, FieldVars
    <2>2. WidgetTypes'
        BY <1>1, <1>17 DEF WidgetTypes, AnswerApply, Applied
    <2>. QED BY <1>1, <2>1, <2>2, FieldStays
<1>18. PageNext => FieldInv' /\ WidgetTypes'
    BY ONLY <1>7, <1>8, <1>9, <1>10, <1>11, <1>12, <1>13, <1>14, <1>15, <1>16, <1>17, Zenon
       DEF PageNext
<1>19. CASE UNCHANGED vars
    BY <1>6, <1>19 DEF vars, pageVars, FieldVars
<1>20. CASE HostNext /\ UNCHANGED <<stored, storedUp, pageVars, events>>
    BY <1>6, <1>20 DEF pageVars, FieldVars
<1>. QED BY <1>18, <1>19, <1>20 DEF Next

LEMMA SettingsInvariant == Spec => [](UpdateInv /\ RestInv /\ SettingsInv)
<1>1. Init => UpdateInv /\ RestInv /\ SettingsInv
    BY UpdateInit, RestInit, FieldInit, WidgetInit DEF SettingsInv, UpdateInv
<1>2. UpdateInv /\ RestInv /\ SettingsInv /\ [Next]_vars
      => UpdateInv' /\ RestInv' /\ SettingsInv'
    <2>1. UpdateInv' => HostTypeOK'
        BY DEF UpdateInv
    <2>. QED BY <2>1, UpdateStep, RestStep, NextIsHostStep, SettingsStep DEF SettingsInv
<1>. QED BY <1>1, <1>2, PTL DEF Spec

\* An update that is asked for while no script is past its pull is never lost
\* (routers/update.py, pi/apply_update.sh): until its code is on the disk the flag
\* that starts the script is there, whichever step fails and wherever the power is
\* cut.
THEOREM UpdateIsNotForgotten == Spec => []UpdateNotForgotten
<1>1. UpdateInv => UpdateNotForgotten
    BY DEF UpdateInv
<1>. QED BY <1>1, SettingsInvariant, PTL

\* At rest the database is the one of the code on the disk, and the service runs
\* that code unless the script ended between the removal of the flag and the
\* restart (pi/apply_update.sh, pi/run.sh), whatever was cut off before.
THEOREM ServiceRestsConsistent == Spec => []RestIsConsistent
<1>1. UpdateInv /\ RestInv => RestIsConsistent
    BY DEF UpdateInv, HostTypeOK, RestInv, Fits, RestIsConsistent
<1>. QED BY <1>1, SettingsInvariant, PTL

\* The host, what is stored and what the page keeps are of their types; "Use my
\* location" is on exactly while one of its saves is under way, that of the field
\* it has come to (settings.js).
THEOREM SettingsTypeCorrect == Spec => []TypeOK
<1>1. SettingsInv => TypeOK
    <2>. SUFFICES ASSUME SettingsInv PROVE TypeOK
        OBVIOUS
    <2>1. HostTypeOK /\ FieldTypes /\ LocateSaves /\ WidgetTypes
        BY DEF SettingsInv, FieldInv
    <2>2. (locate # NoField) = (\E s \in saves : s.by = "locate" /\ s.field = locate)
        BY <2>1 DEF LocateSaves, FieldTypes, SaveType, Fields, NoField
    <2>. QED BY <2>1, <2>2
        DEF TypeOK, FieldTypes, LocateSaves, WidgetTypes, Stored, EntryType, SaveType, LoadingType
<1>. QED BY <1>1, SettingsInvariant, PTL

\* A field of the page with no save under way shows what the server stores
\* (settings.js, routers/settings.py), whatever was refused or failed without
\* effect.  The exceptions are those of the property, until the next save of the
\* field that is alone and succeeds: an answer lost after the effect, saves of one
\* field that overlap or meet init(), and a timezone that the list does not have.
THEOREM FieldsShowStored == Spec => []FieldShowsStored
<1>1. SettingsInv => FieldShowsStored
    BY DEF SettingsInv, FieldInv, FieldShowsStored, KnownField, SureField, Awaits, NoField
<1>. QED BY <1>1, SettingsInvariant, PTL
=============================================================================
