---------------------------- MODULE SettingsPage ----------------------------
(***************************************************************************)
(* The settings page (static/js/settings.js) with routers/settings.py, and *)
(* the update it starts (Updater): a request has an effect only while the  *)
(* service is up.  The fields are saved one by one when they change, three *)
(* in a row by "Use my location".  A step is a handler up to its next      *)
(* await; a request may fail without effect or its answer may be lost.     *)
(***************************************************************************)
EXTENDS Updater, FiniteSets

CONSTANTS
    Values,   \* what a field may hold
    Zones,    \* those that the timezone list of the browser offers
    Place,    \* [Fields -> Values]: where the browser is
    Invalid,  \* coordinates the schema refuses
    Start,    \* what may be stored at the start
    Sun,      \* there are sunrise or sunset schedules
    Pi,       \* UPDATE_MECHANISM is "systemd-flag"
    MaxEvents \* bound: what the user does, all together

Null == 0     \* an empty field, stored as null
None == -1
NoField == "none"
Fields == {"latitude", "longitude", "timezone"}

ASSUME SettingsAssumption ==
    /\ Values \subseteq Nat \ {0} /\ Zones \subseteq Values /\ Invalid \subseteq Values
    /\ Place \in [Fields -> Values] /\ Start \subseteq [Fields -> Values \cup {Null}]
    /\ Sun \in BOOLEAN /\ Pi \in BOOLEAN /\ MaxEvents \in Nat

VARIABLES
    stored,   \* server: [Fields -> value or Null]
    storedUp, \* server: catch_up_missed
    loading,  \* init(): [pc, read : what GET returned, up : catch_up_missed of it]
    field,    \* [Fields -> [shown, lastSaved, sure, alone]]
    saves,    \* saveField calls under way: [field, value, by]
    locate,   \* field "Use my location" is saving, or NoField
    catchUp,  \* [value, box, saving, sent]: the switch
    checker,  \* [checking, offered, applying, applied]
    events    \* how much of MaxEvents is used

pageVars == <<loading, field, saves, locate, catchUp, checker>>
vars == <<hostVars, stored, storedUp, pageVars, events>>

(* alone and sure are auxiliary.  alone: when the last save of the field     *)
(* started, or its value was last put in, init() was through and no other    *)
(* save of it was under way, and init() has not filled it since.  sure: the  *)
(* last save that was alone was answered with a success, or init() filled it *)
(* with what it had read, and since then every save of it was alone and none *)
(* took effect without an answer.                                            *)

Answering == running # Down

-----------------------------------------------------------------------------
(* routers/settings.py *)

Configured(s) == s["latitude"] # Null /\ s["longitude"] # Null

\* The 409 of update_settings, and the ranges of the schema.
Refused(f, value) ==
    \/ f # "timezone" /\ value \in Invalid
    \/ Sun /\ Configured(stored) /\ ~ Configured([stored EXCEPT ![f] = value])

-----------------------------------------------------------------------------
(* init() *)

\* A timezone the browser does not list leaves the select empty.
PopulateTimezoneOptions(value) == IF value \in Zones THEN value ELSE Null

Fill(f, value) ==
    LET shown == IF f = "timezone" THEN PopulateTimezoneOptions(value) ELSE value IN
    [shown |-> shown, lastSaved |-> shown, alone |-> FALSE,
     sure |-> shown = value /\ field[f].sure /\ \A s \in saves : s.field # f]

Load ==
    /\ loading.pc = "asked" /\ Answering
    /\ loading' = [pc |-> "answered", read |-> stored, up |-> storedUp]
    /\ UNCHANGED <<hostVars, stored, storedUp, field, saves, locate, catchUp, checker, events>>

SetCatchUp(value) ==
    [catchUp EXCEPT !.value = value, !.box = IF value = catchUp.value THEN @ ELSE value]

\* The fields are filled, and Alpine is told of the switch.
Loaded ==
    /\ loading.pc = "answered"
    /\ loading' = [loading EXCEPT !.pc = "done"]
    /\ field' = [f \in Fields |-> Fill(f, loading.read[f])]
    /\ catchUp' = SetCatchUp(loading.up)
    /\ UNCHANGED <<hostVars, stored, storedUp, saves, locate, checker, events>>

-----------------------------------------------------------------------------
(* saveField *)

Save(f, value, by) == [field |-> f, value |-> value, by |-> by]

\* A save of the field that starts now is not alone.
Overlaps(f) == loading.pc # "done" \/ \E s \in saves : s.field = f

\* The field shows a value that is, or will be, saved.
Enter(entry, f, value) ==
    [shown |-> value, lastSaved |-> entry.lastSaved,
     sure |-> entry.sure /\ ~ Overlaps(f), alone |-> ~ Overlaps(f)]

\* Mutant: the field keeps what was refused.
KeepRefused(entry, value, answered, done) ==
    [entry EXCEPT !.lastSaved = IF answered THEN value ELSE @,
                  !.sure = IF answered THEN entry.alone ELSE @ /\ ~ done]

\* Taken back to lastSaved unless it is a success.
Saved(entry, value, answered, done) ==
    IF answered
    THEN [shown |-> entry.shown, lastSaved |-> value, sure |-> entry.alone, alone |-> entry.alone]
    ELSE [shown |-> entry.lastSaved, lastSaved |-> entry.lastSaved,
          sure |-> entry.sure /\ ~ done, alone |-> entry.alone]

\* A field changes; the listeners are there after init().
Change(f, value) ==
    /\ loading.pc = "done" /\ value # field[f].shown
    /\ f = "timezone" => value \in Zones \cup {Null}
    /\ field' = [field EXCEPT ![f] = Enter(@, f, value)]
    /\ saves' = saves \cup {Save(f, value, "change")}
    /\ events < MaxEvents /\ events' = events + 1
    /\ UNCHANGED <<hostVars, stored, storedUp, loading, locate, catchUp, checker>>

NextField == [latitude |-> "longitude", longitude |-> "timezone"]

\* Both coordinates are shown at once, then saved one after the other.
Locate ==
    /\ locate = NoField
    /\ field' = [f \in Fields |->
          IF f = "timezone" THEN field[f]
          ELSE Enter(field[f], f, Place[f])]
    /\ saves' = saves \cup {Save("latitude", Place["latitude"], "locate")}
    /\ locate' = "latitude"
    /\ events < MaxEvents /\ events' = events + 1
    /\ UNCHANGED <<hostVars, stored, storedUp, loading, catchUp, checker>>

\* saveField returns, also after an error, and the next field is saved: what
\* it shows by then, the timezone of the browser put in first.
Continue(s, entries) ==
    IF s.by = "change" THEN saves' = saves \ {s} /\ field' = entries /\ UNCHANGED locate
    ELSE IF s.field = "timezone" THEN saves' = saves \ {s} /\ field' = entries /\ locate' = NoField
    ELSE LET f == NextField[s.field]
             shown == IF f = "timezone" THEN Place[f] ELSE entries[f].shown IN
         /\ locate' = f
         /\ saves' = (saves \ {s}) \cup {Save(f, shown, "locate")}
         /\ field' = [entries EXCEPT ![f] = Enter(@, f, shown)]

AnswerSave(s, done, answered) ==
    /\ done => Answering /\ ~ Refused(s.field, s.value)
    /\ answered => done
    /\ stored' = IF done THEN [stored EXCEPT ![s.field] = s.value] ELSE stored
    /\ Continue(s, [field EXCEPT ![s.field] = Saved(@, s.value, answered, done)])
    /\ UNCHANGED <<hostVars, storedUp, loading, catchUp, checker, events>>

-----------------------------------------------------------------------------
(* The switch of catch_up_missed: the box shows value again only when value *)
(* changes, so after an error it stays as it was clicked.                   *)

ToggleCatchUp ==
    /\ ~ catchUp.saving
    /\ catchUp' = [catchUp EXCEPT !.box = ~ @, !.sent = ~ catchUp.box, !.saving = TRUE]
    /\ events < MaxEvents /\ events' = events + 1
    /\ UNCHANGED <<hostVars, stored, storedUp, loading, field, saves, locate, checker>>

AnswerCatchUp(done, answered) ==
    /\ catchUp.saving
    /\ done => Answering
    /\ answered => done
    /\ storedUp' = IF done THEN catchUp.sent ELSE storedUp
    /\ catchUp' = [(IF answered THEN SetCatchUp(catchUp.sent) ELSE catchUp) EXCEPT !.saving = FALSE]
    /\ UNCHANGED <<hostVars, stored, loading, field, saves, locate, checker, events>>

-----------------------------------------------------------------------------
(* updateChecker *)

Check ==
    /\ ~ checker.checking
    /\ checker' = [checker EXCEPT !.checking = TRUE, !.offered = None, !.applied = FALSE]
    /\ events < MaxEvents /\ events' = events + 1
    /\ UNCHANGED <<hostVars, stored, storedUp, loading, field, saves, locate, catchUp>>

\* check_for_update, with the newest tag or without an answer of its own.
AnswerCheck(ok) ==
    /\ checker.checking
    /\ checker' = [checker EXCEPT !.checking = FALSE,
                      !.offered = IF ok /\ Answering /\ latest > running THEN latest ELSE None]
    /\ UNCHANGED <<hostVars, stored, storedUp, loading, field, saves, locate, catchUp, events>>

Apply ==
    /\ checker.offered # None /\ Pi /\ ~ checker.applied /\ ~ checker.applying
    /\ checker' = [checker EXCEPT !.applying = TRUE]
    /\ UNCHANGED <<hostVars, stored, storedUp, loading, field, saves, locate, catchUp, events>>

Applied(answered) == [checker EXCEPT !.applying = FALSE, !.applied = @ \/ answered]

AnswerApply(done, answered) ==
    /\ checker.applying
    /\ done => Answering
    /\ answered => done
    /\ checker' = Applied(answered)
    /\ IF done THEN TouchFlag ELSE UNCHANGED hostVars
    /\ UNCHANGED <<stored, storedUp, loading, field, saves, locate, catchUp, events>>

-----------------------------------------------------------------------------
Init ==
    /\ HostInit
    /\ stored \in Start /\ storedUp \in BOOLEAN
    /\ loading = [pc |-> "asked", read |-> [f \in Fields |-> Null], up |-> FALSE]
    /\ field = [f \in Fields |-> [shown |-> Null, lastSaved |-> Null, sure |-> TRUE, alone |-> FALSE]]
    /\ saves = {} /\ locate = NoField
    /\ catchUp = [value |-> FALSE, box |-> FALSE, saving |-> FALSE, sent |-> FALSE]
    /\ checker = [checking |-> FALSE, offered |-> None, applying |-> FALSE, applied |-> FALSE]
    /\ events = 0

PageNext ==
    \/ Load \/ Loaded
    \/ \E f \in Fields, value \in Values \cup {Null} : Change(f, value)
    \/ Locate \/ ToggleCatchUp \/ Check \/ Apply
    \/ \E ok \in BOOLEAN : AnswerCheck(ok)
    \/ \E done, answered \in BOOLEAN :
          \/ \E s \in saves : AnswerSave(s, done, answered)
          \/ AnswerCatchUp(done, answered) \/ AnswerApply(done, answered)

Next ==
    \/ PageNext
    \/ HostNext /\ UNCHANGED <<stored, storedUp, pageVars, events>>

Spec == Init /\ [][Next]_vars

-----------------------------------------------------------------------------
(* Properties *)

Saving(f) == \E s \in saves : s.field = f

TypeOK ==
    /\ HostTypeOK
    /\ stored \in [Fields -> Values \cup {Null}] /\ storedUp \in BOOLEAN
    /\ loading.pc \in {"asked", "answered", "done"}
    /\ \A f \in Fields : field[f] \in
          [shown : Values \cup {Null}, lastSaved : Values \cup {Null}, sure : BOOLEAN,
           alone : BOOLEAN]
    /\ saves \subseteq [field : Fields, value : Values \cup {Null}, by : {"change", "locate"}]
    /\ locate \in Fields \cup {NoField}
    /\ (locate # NoField) = (\E s \in saves : s.by = "locate" /\ s.field = locate)
    /\ catchUp \in [value : BOOLEAN, box : BOOLEAN, saving : BOOLEAN, sent : BOOLEAN]
    /\ checker \in [checking : BOOLEAN, offered : 1..MaxVersion \cup {None},
                    applying : BOOLEAN, applied : BOOLEAN]
    /\ events \in 0..MaxEvents

\* A field with no save under way shows what is stored, whatever was refused or
\* failed, in a change or in the middle of "Use my location".  Not so, until the
\* next save of it that is alone and succeeds: a field that was put back although
\* its save took effect, because the answer was lost (settings.js:51); one with
\* two saves under way at once, of which the one that ends first may put back a
\* value that the other replaces; one saved while init() reads or fills it; and a
\* timezone that the browser does not list, shown as not set.
FieldShowsStored ==
    \A f \in Fields :
        loading.pc = "done" /\ field[f].sure /\ ~ Saving(f) /\ locate = NoField
        => field[f].shown = stored[f] /\ field[f].lastSaved = stored[f]
=============================================================================
