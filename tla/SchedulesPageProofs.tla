------------------------ MODULE SchedulesPageProofs ------------------------
(***************************************************************************)
(* Proofs about SchedulesPage for any number of schedules, requests, lost  *)
(* answers and acts of other clients.  UndoInv: Undo never makes a second  *)
(* copy of a schedule.  PageInv, which extends it: the types, what the     *)
(* switches show, and that what Undo brings back is what was deleted.      *)
(***************************************************************************)
EXTENDS SchedulesPage, Gestures, SequenceTheorems, FiniteSetTheorems, TLAPS

USE PageAssumption DEF PageAssumption

\* The snapshot of a delete stands for a schedule that is gone.
Pending(h) == h.pc \in {"offered", "restoring"}

\* The DELETE is on its way, and there is a snapshot.
Holds(h) == h.pc = "delete" /\ h.snapshot # NoSnapshot

\* An id that a schedule has now, or had: ids are not given twice.
Given(id) ==
    \/ id \in Originals
    \/ \E k \in DOMAIN deletes : id = NewId(k) /\ deletes[k].pc = "ended"

RowFields == {"of", "enabled", "links"}
HandlerFields == {"id", "pc", "same", "snapshot", "was"}

Shape ==
    /\ Len(deletes) \in Nat /\ deletes = [k \in 1..Len(deletes) |-> deletes[k]]
    /\ \A k \in DOMAIN deletes : DOMAIN deletes[k] = HandlerFields
    /\ \A id \in DOMAIN schedules : DOMAIN schedules[id] = RowFields

DialogAsks == dialog = None \/ (dialog \in DOMAIN deletes /\ deletes[dialog].pc = "asking")

UndoInv ==
    /\ Shape
    /\ DialogAsks
    /\ \A id \in DOMAIN schedules : Given(id)
    /\ NoDuplicates
    /\ \A k \in DOMAIN deletes : Holds(deletes[k]) =>
          /\ Given(deletes[k].id)
          /\ deletes[k].id \in DOMAIN schedules =>
                schedules[deletes[k].id].of = deletes[k].snapshot.of
    /\ \A k \in DOMAIN deletes : Pending(deletes[k]) =>
          \A id \in DOMAIN schedules : schedules[id].of # deletes[k].snapshot.of
    /\ \A j, k \in DOMAIN deletes :
          j # k /\ Pending(deletes[j]) /\ Pending(deletes[k]) =>
              deletes[j].snapshot.of # deletes[k].snapshot.of

-----------------------------------------------------------------------------
(* Most steps add no schedule and put nothing more at stake. *)

\* What a quiet step may do of one delete.
Quietly(h, g) ==
    /\ h.pc = "ended" => g.pc = "ended"
    /\ \/ g.pc \in {"asking", "capture", "ended"}
       \/ g.pc = "delete" /\ g.snapshot = NoSnapshot
       \/ g.id = h.id /\ g.snapshot = h.snapshot /\ (g.pc = h.pc \/ (Pending(h) /\ Pending(g)))

FewerSchedules ==
    /\ DOMAIN schedules' \subseteq DOMAIN schedules
    /\ \A id \in DOMAIN schedules' :
          schedules'[id].of = schedules[id].of /\ DOMAIN schedules'[id] = RowFields

QuietDeletes ==
    /\ Len(deletes') \in Nat /\ deletes' = [k \in 1..Len(deletes') |-> deletes'[k]]
    /\ DOMAIN deletes \subseteq DOMAIN deletes'
    /\ \A k \in DOMAIN deletes' : DOMAIN deletes'[k] = HandlerFields
    /\ \A k \in DOMAIN deletes' \ DOMAIN deletes : deletes'[k].pc \in {"asking", "capture"}
    /\ \A k \in DOMAIN deletes : Quietly(deletes[k], deletes'[k])

Quiet == FewerSchedules /\ QuietDeletes /\ DialogAsks'

LEMMA QuietStep == UndoInv /\ Quiet => UndoInv'
<1>. SUFFICES ASSUME UndoInv, Quiet PROVE UndoInv'
    OBVIOUS
<1>. USE DEF Quiet, FewerSchedules
<1>1. ASSUME NEW id, Given(id) PROVE Given(id)'
    BY <1>1 DEF Given, NewId, QuietDeletes, Quietly, UndoInv, Shape
<1>2. Shape' /\ DialogAsks'
    BY DEF QuietDeletes, Shape
<1>3. \A id \in DOMAIN schedules' : Given(id)'
    BY <1>1 DEF UndoInv
<1>4. NoDuplicates'
    BY DEF UndoInv, NoDuplicates
<1>5. ASSUME NEW k \in DOMAIN deletes', Holds(deletes'[k])
      PROVE  /\ k \in DOMAIN deletes /\ Holds(deletes[k])
             /\ deletes'[k].id = deletes[k].id /\ deletes'[k].snapshot = deletes[k].snapshot
    BY <1>5 DEF QuietDeletes, Quietly, Holds, Pending
<1>6. ASSUME NEW k \in DOMAIN deletes', Pending(deletes'[k])
      PROVE  /\ k \in DOMAIN deletes /\ Pending(deletes[k])
             /\ deletes'[k].snapshot = deletes[k].snapshot
    BY <1>6 DEF QuietDeletes, Quietly, Pending
<1>7. ASSUME NEW k \in DOMAIN deletes', Holds(deletes'[k])
      PROVE  /\ Given(deletes[k].id)'
             /\ deletes'[k].id \in DOMAIN schedules' =>
                   schedules'[deletes'[k].id].of = deletes'[k].snapshot.of
    <2>1. Given(deletes[k].id) /\ (deletes[k].id \in DOMAIN schedules =>
              schedules[deletes[k].id].of = deletes[k].snapshot.of)
        BY <1>5, <1>7 DEF UndoInv
    <2>2. Given(deletes[k].id)'
        BY <1>5, <1>7, <1>1, <2>1 DEF Given
    <2>. QED BY <2>1, <2>2, <1>5, <1>7
<1>8. ASSUME NEW k \in DOMAIN deletes', Pending(deletes'[k]), NEW id \in DOMAIN schedules'
      PROVE  schedules'[id].of # deletes'[k].snapshot.of
    BY <1>6, <1>8 DEF UndoInv
<1>9. ASSUME NEW j \in DOMAIN deletes', NEW k \in DOMAIN deletes', j # k,
             Pending(deletes'[j]), Pending(deletes'[k])
      PROVE  deletes'[j].snapshot.of # deletes'[k].snapshot.of
    BY <1>6, <1>9 DEF UndoInv
<1>. QED BY <1>2, <1>3, <1>4, <1>7, <1>8, <1>9 DEF UndoInv, Holds, Pending

\* A step that leaves the handlers, the schedules or the dialog alone.
LEMMA NothingDeleted == UndoInv /\ UNCHANGED deletes => QuietDeletes
BY DEF UndoInv, Shape, QuietDeletes, Quietly

LEMMA NothingWritten == UndoInv /\ UNCHANGED schedules => FewerSchedules
BY DEF UndoInv, Shape, FewerSchedules

LEMMA DialogStays == UndoInv /\ UNCHANGED <<deletes, dialog>> => DialogAsks'
BY DEF UndoInv, DialogAsks

\* A function over 1..n is a sequence of that length.
LEMMA LenOfFunction ==
    ASSUME NEW n \in Nat, NEW s, s = [k \in 1..n |-> s[k]]
    PROVE  Len(s) = n
<1>. DEFINE S == {s[k] : k \in 1..n}
<1>1. s \in Seq(S)
    <2>1. s \in [1..n -> S]
        BY Zenon
    <2>. HIDE DEF S
    <2>. QED BY <2>1, SeqDef
<1>2. DOMAIN s = 1..Len(s) /\ Len(s) \in Nat
    BY <1>1, LenProperties
<1>3. \A i \in Nat : i \in 1..n <=> i \in 1..Len(s)
    BY <1>2
<1>. QED BY <1>2, <1>3

LEMMA SequenceIsFunction ==
    ASSUME NEW S, NEW s \in Seq(S)
    PROVE  DOMAIN s = 1..Len(s) /\ s = [k \in 1..Len(s) |-> s[k]]
<1>1. PICK n \in Nat : s \in [1..n -> S]
    BY SeqDef
<1>2. s = [k \in 1..n |-> s[k]] /\ DOMAIN s = 1..n
    BY <1>1
<1>3. Len(s) = n
    BY <1>2, LenOfFunction
<1>. QED BY <1>2, <1>3

\* One handler goes on, and nothing more is at stake.
LEMMA OneDelete ==
    ASSUME UndoInv, NEW k \in DOMAIN deletes, NEW h, deletes' = [deletes EXCEPT ![k] = h],
           DOMAIN h = HandlerFields, Quietly(deletes[k], h)
    PROVE  QuietDeletes
<1>. DEFINE n == Len(deletes)
<1>1. n \in Nat /\ DOMAIN deletes = 1..n /\ deletes' = [j \in 1..n |-> deletes'[j]]
    BY DEF UndoInv, Shape
<1>2. Len(deletes') = n
    BY <1>1, LenOfFunction
<1>3. \A j \in DOMAIN deletes : Quietly(deletes[j], deletes'[j])
    BY DEF Quietly
<1>. QED BY <1>1, <1>2, <1>3 DEF UndoInv, Shape, QuietDeletes

\* Handlers change, but none that asks; the dialog stays.
LEMMA DialogElsewhere ==
    ASSUME UndoInv, dialog' = dialog, DOMAIN deletes' = DOMAIN deletes,
           \A j \in DOMAIN deletes : deletes[j].pc = "asking" => deletes'[j].pc = "asking"
    PROVE  DialogAsks'
BY DEF UndoInv, DialogAsks

LEMMA EndedShape == Ended.pc = "ended" /\ DOMAIN Ended = HandlerFields
BY DEF Ended, Handler, HandlerFields

\* A handler that ends, or goes on without the schedule being restored.
LEMMA EndsQuietly ==
    ASSUME UndoInv, NEW k \in DOMAIN deletes, Ends(k)
    PROVE  QuietDeletes
BY EndedShape, OneDelete DEF Ends, Quietly

LEMMA GoesOnQuietly ==
    ASSUME UndoInv, NEW k \in DOMAIN deletes, NEW pc, deletes' = [deletes EXCEPT ![k].pc = pc],
           \/ deletes[k].pc = "asking" /\ pc = "capture"
           \/ deletes[k].pc = "offered" /\ pc = "restoring"
    PROVE  QuietDeletes
<1>. DEFINE h == [deletes[k] EXCEPT !.pc = pc]
<1>1. DOMAIN deletes[k] = HandlerFields /\ "pc" \in HandlerFields
    BY DEF UndoInv, Shape, HandlerFields
<1>2. DOMAIN h = HandlerFields /\ h.pc = pc /\ h.id = deletes[k].id /\ h.snapshot = deletes[k].snapshot
    BY <1>1 DEF HandlerFields
<1>3. Quietly(deletes[k], h)
    BY <1>2 DEF Quietly, Pending
<1>4. deletes' = [deletes EXCEPT ![k] = h]
    OBVIOUS
<1>. HIDE DEF h
<1>. QED BY <1>2, <1>3, <1>4, OneDelete

\* What a handler knows is forgotten, in the field same.
LEMMA SameForgotten ==
    ASSUME UndoInv, NEW same,
           deletes' = [k \in DOMAIN deletes |-> [deletes[k] EXCEPT !.same = same[k]]]
    PROVE  /\ QuietDeletes /\ DOMAIN deletes' = DOMAIN deletes
           /\ \A j \in DOMAIN deletes : deletes'[j].pc = deletes[j].pc
<1>. DEFINE n == Len(deletes)
<1>1. n \in Nat /\ DOMAIN deletes = 1..n /\ deletes' = [j \in 1..n |-> deletes'[j]]
    BY DEF UndoInv, Shape
<1>2. Len(deletes') = n
    BY <1>1, LenOfFunction
<1>3. ASSUME NEW j \in DOMAIN deletes
      PROVE  /\ DOMAIN deletes'[j] = HandlerFields /\ deletes'[j].pc = deletes[j].pc
             /\ deletes'[j].id = deletes[j].id /\ deletes'[j].snapshot = deletes[j].snapshot
    <2>1. DOMAIN deletes[j] = HandlerFields
        BY DEF UndoInv, Shape
    <2>2. deletes'[j] = [deletes[j] EXCEPT !.same = same[j]]
        OBVIOUS
    <2>. QED BY <2>1, <2>2 DEF HandlerFields
<1>4. \A j \in DOMAIN deletes : Quietly(deletes[j], deletes'[j])
    BY <1>3 DEF Quietly
<1>. QED BY <1>1, <1>2, <1>3, <1>4 DEF QuietDeletes

LEMMA ForgetStep ==
    ASSUME UndoInv, NEW id, deletes' = ForgetCaptures(id)
    PROVE  /\ QuietDeletes /\ DOMAIN deletes' = DOMAIN deletes
           /\ \A j \in DOMAIN deletes : deletes'[j].pc = deletes[j].pc
<1>. DEFINE same == [k \in DOMAIN deletes |->
                        deletes[k].same /\ ~ (deletes[k].id = id /\ deletes[k].pc = "delete")]
<1>1. \A k \in DOMAIN deletes : DOMAIN deletes[k] = HandlerFields
    BY DEF UndoInv, Shape
<1>2. deletes' = [k \in DOMAIN deletes |-> [deletes[k] EXCEPT !.same = same[k]]]
    BY <1>1, Zenon DEF ForgetCaptures
<1>. HIDE DEF same
<1>. QED BY <1>2, SameForgotten

-----------------------------------------------------------------------------
(* What the requests do to the schedules *)

LEMMA UpdateKeepsOf ==
    ASSUME UndoInv, NEW id \in DOMAIN schedules, NEW enabled,
           schedules' = UpdateSchedule(id, enabled)
    PROVE  FewerSchedules
<1>1. \A s \in DOMAIN schedules : DOMAIN schedules[s] = RowFields
    BY DEF UndoInv, Shape
<1>. QED BY <1>1 DEF UpdateSchedule, FewerSchedules, RowFields

LEMMA DeleteIsFewer ==
    ASSUME UndoInv, NEW id, schedules' = Restrict(schedules, DOMAIN schedules \ {id})
    PROVE  FewerSchedules
BY DEF UndoInv, Shape, Restrict, FewerSchedules

-----------------------------------------------------------------------------
(* The quiet actions *)

LEMMA AskQuietly ==
    ASSUME UndoInv, NEW h, deletes' = Append(deletes, h), DOMAIN h = HandlerFields,
           h.pc \in {"asking", "capture"}
    PROVE  /\ QuietDeletes /\ Len(deletes) + 1 \in DOMAIN deletes'
           /\ deletes'[Len(deletes) + 1] = h
<1>. DEFINE n == Len(deletes)
            S == {deletes[k] : k \in 1..n} \cup {h}
<1>1. n \in Nat /\ deletes = [k \in 1..n |-> deletes[k]] /\ DOMAIN deletes = 1..n
    BY DEF UndoInv, Shape
<1>2. deletes \in Seq(S) /\ h \in S
    <2>1. deletes \in [1..n -> S] /\ h \in S
        BY <1>1, Zenon
    <2>. HIDE DEF S
    <2>. QED BY <1>1, <2>1, SeqDef
<1>. HIDE DEF S
<1>3. /\ deletes' \in Seq(S) /\ Len(deletes') = n + 1
      /\ \A k \in 1..n : deletes'[k] = deletes[k]
      /\ deletes'[n + 1] = h
    BY <1>2, AppendProperties
<1>4. DOMAIN deletes' = 1..(n + 1) /\ deletes' = [k \in 1..(n + 1) |-> deletes'[k]]
    BY <1>1, <1>3, SequenceIsFunction
<1>5. \A k \in DOMAIN deletes : Quietly(deletes[k], deletes'[k])
    BY <1>1, <1>3 DEF Quietly
<1>6. \A k \in DOMAIN deletes' : k \in DOMAIN deletes \/ k = n + 1
    BY <1>1, <1>4
<1>. QED BY <1>1, <1>3, <1>4, <1>5, <1>6 DEF UndoInv, Shape, QuietDeletes

\* Actions that touch neither the schedules nor the handlers.
LEMMA PageOnly ==
    ASSUME UndoInv, UNCHANGED <<schedules, deletes>>, UNCHANGED dialog \/ dialog' = None
    PROVE  Quiet
BY NothingDeleted, NothingWritten, DialogStays DEF Quiet, DialogAsks

LEMMA HandlerShape ==
    ASSUME NEW id
    PROVE  /\ Handler(id).pc = "asking" /\ DOMAIN Handler(id) = HandlerFields
           /\ [Handler(id) EXCEPT !.pc = "capture"].pc = "capture"
           /\ DOMAIN [Handler(id) EXCEPT !.pc = "capture"] = HandlerFields
BY DEF Handler, HandlerFields

LEMMA AskStep == ASSUME UndoInv, NEW id, Ask(id) PROVE Quiet
<1>1. FewerSchedules
    BY NothingWritten DEF Ask, server
<1>2. CASE skip
    <2>1. /\ deletes' = Append(deletes, [Handler(id) EXCEPT !.pc = "capture"])
          /\ dialog = None /\ dialog' = None
        BY <1>2 DEF Ask
    <2>2. QuietDeletes
        BY <2>1, AskQuietly, HandlerShape
    <2>. QED BY <1>1, <2>1, <2>2 DEF Quiet, DialogAsks
<1>3. CASE ~ skip
    <2>1. /\ deletes' = Append(deletes, Handler(id))
          /\ dialog' = Len(deletes) + 1
        BY <1>3 DEF Ask, Open
    <2>2. /\ QuietDeletes /\ Len(deletes) + 1 \in DOMAIN deletes'
          /\ deletes'[Len(deletes) + 1] = Handler(id)
        BY <2>1, AskQuietly, HandlerShape
    <2>. QED BY <1>1, <2>1, <2>2, HandlerShape DEF Quiet, DialogAsks
<1>. QED BY <1>2, <1>3

LEMMA OkStep == ASSUME UndoInv, Ok PROVE Quiet
<1>1. dialog \in DOMAIN deletes /\ deletes[dialog].pc = "asking"
    BY DEF UndoInv, DialogAsks, Ok
<1>2. QuietDeletes
    BY <1>1, GoesOnQuietly DEF Ok
<1>. QED BY <1>2, NothingWritten DEF Ok, Close, server, Quiet, DialogAsks

LEMMA CancelStep == ASSUME UndoInv, Cancel PROVE Quiet
<1>1. dialog \in DOMAIN deletes
    BY DEF UndoInv, DialogAsks, Cancel
<1>. QED BY <1>1, EndsQuietly, NothingWritten DEF Cancel, Close, server, Quiet, DialogAsks

\* A PATCH of a switch, whatever came of it.
LEMMA AnswerToggleStep ==
    ASSUME UndoInv, NEW t, NEW done \in BOOLEAN, NEW answered, AnswerToggle(t, done, answered)
    PROVE  Quiet
<1>1. CASE done
    <2>1. schedules' = UpdateSchedule(t.id, t.enabled) /\ t.id \in DOMAIN schedules
        BY <1>1 DEF AnswerToggle, UpdateAccepted
    <2>2. FewerSchedules
        BY <2>1, UpdateKeepsOf
    <2>3. deletes' = ForgetCaptures(t.id) /\ dialog' = dialog
        BY <1>1 DEF AnswerToggle, dialogVars
    <2>4. /\ QuietDeletes /\ DOMAIN deletes' = DOMAIN deletes
          /\ \A j \in DOMAIN deletes : deletes'[j].pc = deletes[j].pc
        BY <2>3, ForgetStep
    <2>. QED BY <2>2, <2>3, <2>4, DialogElsewhere DEF Quiet
<1>2. CASE ~ done
    BY <1>2, PageOnly DEF AnswerToggle, dialogVars
<1>. QED BY <1>1, <1>2

\* Leaving the page and coming back ends handlers, and with them the dialog.
LEMMA SomeEnd ==
    ASSUME UndoInv,
           DOMAIN deletes' = DOMAIN deletes, deletes' = [k \in DOMAIN deletes |-> deletes'[k]],
           \A k \in DOMAIN deletes : deletes'[k] = deletes[k] \/ deletes'[k] = Ended
    PROVE  QuietDeletes
<1>. DEFINE n == Len(deletes)
<1>1. n \in Nat /\ DOMAIN deletes = 1..n /\ deletes' = [j \in 1..n |-> deletes'[j]]
    BY DEF UndoInv, Shape
<1>2. Len(deletes') = n
    BY <1>1, LenOfFunction
<1>3. \A k \in DOMAIN deletes : Quietly(deletes[k], deletes'[k])
    BY EndedShape DEF Quietly
<1>. QED BY <1>1, <1>2, <1>3, EndedShape DEF UndoInv, Shape, QuietDeletes

LEMMA LeaveStep == ASSUME UndoInv, Leave PROVE Quiet
<1>1. /\ deletes' = [k \in DOMAIN deletes |-> Disconnected(deletes[k])]
      /\ schedules' = schedules /\ dialog' = None
    BY DEF Leave, Close, server
<1>2. \A k \in DOMAIN deletes : deletes'[k] = deletes[k] \/ deletes'[k] = Ended
    BY <1>1 DEF Disconnected
<1>. QED BY <1>1, <1>2, SomeEnd, NothingWritten DEF Quiet, DialogAsks

LEMMA ReturnStep == ASSUME UndoInv, Return PROVE Quiet
<1>1. /\ deletes' = [k \in DOMAIN deletes |->
                        IF deletes[k].pc = "offered" THEN Ended ELSE deletes[k]]
      /\ schedules' = schedules /\ dialog' = dialog
    BY DEF Return, server, dialogVars
<1>2. \A k \in DOMAIN deletes : deletes'[k] = deletes[k] \/ deletes'[k] = Ended
    BY <1>1
<1>3. \A k \in DOMAIN deletes : deletes[k].pc = "asking" => deletes'[k].pc = "asking"
    BY <1>1
<1>. QED BY <1>1, <1>2, <1>3, SomeEnd, NothingWritten, DialogElsewhere DEF Quiet

\* Another client.
LEMMA OtherTogglesStep ==
    ASSUME UndoInv, NEW id \in DOMAIN schedules, OtherToggles(id)
    PROVE  Quiet
<1>1. /\ schedules' = UpdateSchedule(id, ~ schedules[id].enabled)
      /\ deletes' = ForgetCaptures(id) /\ dialog' = dialog
    BY DEF OtherToggles, OtherWrites, dialogVars
<1>. QED BY <1>1, UpdateKeepsOf, ForgetStep, DialogElsewhere DEF Quiet

LEMMA OtherDeletesStep == ASSUME UndoInv, NEW id, OtherDeletes(id) PROVE Quiet
<1>1. /\ schedules' = Restrict(schedules, DOMAIN schedules \ {id})
      /\ deletes' = ForgetCaptures(id) /\ dialog' = dialog
    BY DEF OtherDeletes, OtherWrites, dialogVars
<1>. QED BY <1>1, DeleteIsFewer, ForgetStep, DialogElsewhere DEF Quiet

LEMMA RemoveDeviceStep == ASSUME UndoInv, NEW d, RemoveDevice(d) PROVE Quiet
<1>. DEFINE same == [k \in DOMAIN deletes |-> deletes[k].same /\ deletes[k].pc # "delete"]
<1>1. \A k \in DOMAIN deletes : DOMAIN deletes[k] = HandlerFields
    BY DEF UndoInv, Shape
<1>2. /\ deletes' = [k \in DOMAIN deletes |-> [deletes[k] EXCEPT !.same = same[k]]]
      /\ dialog' = dialog
    BY <1>1, Zenon DEF RemoveDevice, dialogVars
<1>3. FewerSchedules
    <2>1. schedules' = [id \in DOMAIN schedules |->
              [schedules[id] EXCEPT !.links = Restrict(@, DOMAIN @ \ {d})]]
        BY DEF RemoveDevice
    <2>2. \A id \in DOMAIN schedules : DOMAIN schedules[id] = RowFields
        BY DEF UndoInv, Shape
    <2>. QED BY <2>1, <2>2 DEF FewerSchedules, RowFields
<1>. HIDE DEF same
<1>. QED BY <1>2, <1>3, SameForgotten, DialogElsewhere DEF Quiet

-----------------------------------------------------------------------------
(* The handlers of deletes *)

LEMMA TapUndoStep == ASSUME UndoInv, NEW k \in DOMAIN deletes, TapUndo(k) PROVE Quiet
<1>1. /\ deletes' = [deletes EXCEPT ![k].pc = "restoring"] /\ deletes[k].pc = "offered"
      /\ schedules' = schedules /\ dialog' = dialog
    BY DEF TapUndo, ToastGoes, GoesOn, server, dialogVars
<1>2. DOMAIN deletes' = DOMAIN deletes
      /\ \A j \in DOMAIN deletes : deletes[j].pc = "asking" => deletes'[j].pc = "asking"
    BY <1>1
<1>. QED BY <1>1, <1>2, GoesOnQuietly, NothingWritten, DialogElsewhere DEF Quiet

\* A handler that has got past its question ends.
LEMMA LateEnd ==
    ASSUME UndoInv, NEW k \in DOMAIN deletes, Ends(k), deletes[k].pc # "asking",
           FewerSchedules, dialog' = dialog
    PROVE  Quiet
<1>1. DOMAIN deletes' = DOMAIN deletes
      /\ \A j \in DOMAIN deletes : deletes[j].pc = "asking" => deletes'[j].pc = "asking"
    BY DEF Ends
<1>. QED BY <1>1, EndsQuietly, DialogElsewhere DEF Quiet

LEMMA ExpireStep == ASSUME UndoInv, NEW k \in DOMAIN deletes, Expire(k) PROVE Quiet
BY LateEnd, NothingWritten DEF Expire, server, dialogVars

\* The three steps that put something at stake change one handler each.
LEMMA OneHandler ==
    ASSUME UndoInv, NEW k \in DOMAIN deletes, NEW h, deletes' = [deletes EXCEPT ![k] = h],
           DOMAIN h = HandlerFields, deletes[k].pc # "asking", dialog' = dialog,
           \A id \in DOMAIN schedules' : DOMAIN schedules'[id] = RowFields
    PROVE  /\ Shape' /\ DialogAsks'
           /\ DOMAIN deletes' = DOMAIN deletes /\ deletes'[k] = h
           /\ \A j \in DOMAIN deletes : j # k => deletes'[j] = deletes[j]
<1>. DEFINE n == Len(deletes)
<1>1. n \in Nat /\ DOMAIN deletes = 1..n /\ deletes' = [j \in 1..n |-> deletes'[j]]
    BY DEF UndoInv, Shape
<1>2. Len(deletes') = n
    BY <1>1, LenOfFunction
<1>3. Shape'
    BY <1>1, <1>2 DEF UndoInv, Shape
<1>. QED BY <1>3, DialogElsewhere

\* Capture with an answer: the snapshot is of the schedule that is there.
LEMMA CaptureStep ==
    ASSUME UndoInv, NEW k \in DOMAIN deletes, NEW ok \in BOOLEAN, Capture(k, ok)
    PROVE  UndoInv'
<1>. DEFINE id == deletes[k].id
            h == [deletes[k] EXCEPT !.pc = "delete", !.same = TRUE,
                                    !.snapshot = IF ok THEN Snapshot(id) ELSE NoSnapshot]
<1>1. /\ deletes' = [deletes EXCEPT ![k] = h] /\ deletes[k].pc = "capture"
      /\ schedules' = schedules /\ dialog' = dialog /\ (ok => id \in DOMAIN schedules)
    BY DEF Capture, server, dialogVars
<1>2. /\ DOMAIN h = HandlerFields /\ h.pc = "delete" /\ h.id = id
      /\ h.snapshot = IF ok THEN Snapshot(id) ELSE NoSnapshot
    BY DEF UndoInv, Shape, HandlerFields
<1>. HIDE DEF h
<1>3. /\ Shape' /\ DialogAsks' /\ DOMAIN deletes' = DOMAIN deletes /\ deletes'[k] = h
      /\ \A j \in DOMAIN deletes : j # k => deletes'[j] = deletes[j]
    BY <1>1, <1>2, OneHandler DEF UndoInv, Shape
<1>4. ASSUME NEW i, Given(i) PROVE Given(i)'
    BY <1>1, <1>3, <1>4 DEF Given, NewId
<1>5. (\A i \in DOMAIN schedules : Given(i))' /\ NoDuplicates'
    BY <1>1, <1>4 DEF UndoInv, NoDuplicates
<1>6. ASSUME NEW j \in DOMAIN deletes', Holds(deletes'[j])
      PROVE  /\ Given(deletes[j].id)'
             /\ deletes'[j].id \in DOMAIN schedules' =>
                   schedules'[deletes'[j].id].of = deletes'[j].snapshot.of
    <2>1. CASE j = k
        <3>1. ok /\ deletes'[j].id = id /\ deletes'[j].snapshot = Snapshot(id)
            BY <1>2, <1>3, <1>6, <2>1 DEF Holds
        <3>2. Given(id)
            BY <1>1, <3>1 DEF UndoInv
        <3>3. Given(deletes[j].id)'
            BY <1>4, <3>1, <3>2 DEF Given
        <3>. QED BY <1>1, <3>1, <3>3 DEF Snapshot
    <2>2. CASE j # k
        <3>1. j \in DOMAIN deletes /\ deletes'[j] = deletes[j] /\ Holds(deletes[j])
            BY <1>3, <1>6, <2>2
        <3>2. Given(deletes[j].id)
            BY <3>1 DEF UndoInv
        <3>3. Given(deletes[j].id)'
            BY <1>4, <3>1, <3>2 DEF Given
        <3>. QED BY <1>1, <3>1, <3>3 DEF UndoInv
    <2>. QED BY <2>1, <2>2
<1>7. \A j \in DOMAIN deletes' : Pending(deletes'[j]) =>
          j \in DOMAIN deletes /\ deletes'[j] = deletes[j]
    BY <1>2, <1>3 DEF Pending
<1>. QED BY <1>1, <1>3, <1>5, <1>6, <1>7 DEF UndoInv, Holds, Pending

\* The DELETE: with an answer and a snapshot Undo is offered, for a schedule of
\* which there was one copy, and which is gone.
LEMMA DeleteStep ==
    ASSUME UndoInv, NEW k \in DOMAIN deletes, NEW done \in BOOLEAN, NEW answered \in BOOLEAN,
           Delete(k, done, answered)
    PROVE  UndoInv'
<1>. DEFINE id == deletes[k].id
            offers == answered /\ deletes[k].snapshot # NoSnapshot
            h == [deletes[k] EXCEPT !.pc = "offered",
                                    !.was = IF done THEN Snapshot(id) ELSE NoSnapshot]
<1>1. /\ deletes[k].pc = "delete" /\ dialog' = dialog
      /\ answered => done
      /\ done => id \in DOMAIN schedules
      /\ schedules' = IF done THEN Restrict(schedules, DOMAIN schedules \ {id}) ELSE schedules
      /\ IF offers THEN deletes' = [deletes EXCEPT ![k] = h] ELSE Ends(k)
    BY DEF Delete, Outcome, UndoOffered, dialogVars
<1>2. FewerSchedules
    BY <1>1, DeleteIsFewer, NothingWritten
<1>3. CASE ~ offers
    BY <1>1, <1>2, <1>3, LateEnd, QuietStep
<1>4. CASE offers
    <2>1. /\ DOMAIN h = HandlerFields /\ h.pc = "offered" /\ h.snapshot = deletes[k].snapshot
        BY DEF UndoInv, Shape, HandlerFields
    <2>. HIDE DEF h
    <2>2. /\ Shape' /\ DialogAsks' /\ DOMAIN deletes' = DOMAIN deletes /\ deletes'[k] = h
          /\ \A j \in DOMAIN deletes : j # k => deletes'[j] = deletes[j]
        BY <1>1, <1>2, <1>4, <2>1, OneHandler DEF FewerSchedules
    <2>3. ASSUME NEW i, Given(i) PROVE Given(i)'
        BY <1>1, <2>2, <2>3 DEF Given, NewId
    <2>4. (\A i \in DOMAIN schedules : Given(i))' /\ NoDuplicates'
        BY <1>2, <2>3 DEF UndoInv, NoDuplicates, FewerSchedules
    <2>5. /\ id \in DOMAIN schedules /\ schedules[id].of = h.snapshot.of
          /\ \A i \in DOMAIN schedules' : i # id /\ i \in DOMAIN schedules
                                          /\ schedules'[i].of = schedules[i].of
        BY <1>1, <1>2, <1>4, <2>1 DEF UndoInv, Holds, FewerSchedules, Restrict
    <2>6. ASSUME NEW j \in DOMAIN deletes', Holds(deletes'[j])
          PROVE  /\ Given(deletes[j].id)'
                 /\ deletes'[j].id \in DOMAIN schedules' =>
                       schedules'[deletes'[j].id].of = deletes'[j].snapshot.of
        <3>1. j \in DOMAIN deletes /\ deletes'[j] = deletes[j] /\ Holds(deletes[j])
            BY <2>1, <2>2, <2>6 DEF Holds
        <3>2. Given(deletes[j].id)
            BY <3>1 DEF UndoInv
        <3>3. Given(deletes[j].id)'
            BY <2>3, <3>1, <3>2 DEF Given
        <3>. QED BY <2>5, <3>1, <3>3 DEF UndoInv
    <2>7. ASSUME NEW j \in DOMAIN deletes', Pending(deletes'[j]), NEW i \in DOMAIN schedules'
          PROVE  schedules'[i].of # deletes'[j].snapshot.of
        <3>1. CASE j = k
            BY <2>2, <2>5, <3>1 DEF UndoInv, NoDuplicates
        <3>2. CASE j # k
            BY <2>2, <2>5, <2>7, <3>2 DEF UndoInv
        <3>. QED BY <3>1, <3>2
    <2>8. ASSUME NEW j \in DOMAIN deletes', Pending(deletes'[j]), j # k
          PROVE  deletes'[j].snapshot.of # h.snapshot.of
        BY <2>2, <2>5, <2>8 DEF UndoInv
    <2>9. ASSUME NEW i \in DOMAIN deletes', NEW j \in DOMAIN deletes', i # j,
                 Pending(deletes'[i]), Pending(deletes'[j])
          PROVE  deletes'[i].snapshot.of # deletes'[j].snapshot.of
        <3>1. CASE i # k /\ j # k
            BY <2>2, <2>9, <3>1 DEF UndoInv
        <3>. QED BY <2>2, <2>8, <2>9, <3>1
    <2>. QED BY <2>2, <2>4, <2>6, <2>7, <2>9 DEF UndoInv, Holds, Pending
<1>. QED BY <1>3, <1>4

\* The POST of Undo: the copy gets an id never given before, and is the only one.
LEMMA RestoreStep ==
    ASSUME UndoInv, NEW k \in DOMAIN deletes, NEW done \in BOOLEAN, NEW answered \in BOOLEAN,
           Restore(k, done, answered)
    PROVE  UndoInv'
<1>. DEFINE snapshot == deletes[k].snapshot
            copy == [of |-> snapshot.of, enabled |-> snapshot.enabled,
                     links |-> ResolveDevicePresets(ActionOf[snapshot.of],
                                   DOMAIN snapshot.presets, DevicePresets(snapshot))]
<1>1. /\ deletes[k].pc = "restoring" /\ dialog' = dialog /\ Ends(k)
      /\ schedules' = IF ~ done THEN schedules
            ELSE [id \in DOMAIN schedules \cup {NewId(k)} |->
                     IF id # NewId(k) THEN schedules[id] ELSE copy]
    BY DEF Restore, dialogVars
<1>2. CASE ~ done
    BY <1>1, <1>2, LateEnd, NothingWritten, QuietStep
<1>3. CASE done
    <2>1. copy.of = snapshot.of /\ DOMAIN copy = RowFields
        BY DEF RowFields
    <2>. HIDE DEF copy
    <2>2. /\ DOMAIN schedules' = DOMAIN schedules \cup {NewId(k)}
          /\ schedules'[NewId(k)] = copy
          /\ \A id \in DOMAIN schedules : id # NewId(k) => schedules'[id] = schedules[id]
        BY <1>1, <1>3
    <2>3. /\ Shape' /\ DialogAsks' /\ DOMAIN deletes' = DOMAIN deletes /\ deletes'[k] = Ended
          /\ \A j \in DOMAIN deletes : j # k => deletes'[j] = deletes[j]
        BY <1>1, <2>1, <2>2, EndedShape, OneHandler DEF Ends, UndoInv, Shape
    <2>4. ~ Given(NewId(k))
        <3>1. k \in Nat /\ k >= 1 /\ DOMAIN deletes \subseteq Nat
            BY DEF UndoInv, Shape
        <3>. QED BY <1>1, <3>1 DEF Given, NewId, Originals
    <2>5. NewId(k) \notin DOMAIN schedules
        BY <2>4 DEF UndoInv
    <2>6. ASSUME NEW i, Given(i) PROVE Given(i)'
        BY <2>3, <2>6, EndedShape DEF Given, NewId
    <2>7. ASSUME NEW i, i = NewId(k) PROVE Given(i)'
        BY <2>3, <2>7, EndedShape DEF Given, NewId
    <2>8. (\A i \in DOMAIN schedules : Given(i))'
        BY <2>2, <2>6, <2>7 DEF UndoInv
    <2>9. \A i \in DOMAIN schedules : schedules[i].of # snapshot.of
        BY <1>1 DEF UndoInv, Pending
    <2>10. NoDuplicates'
        BY <2>1, <2>2, <2>5, <2>9 DEF UndoInv, NoDuplicates
    <2>11. ASSUME NEW j \in DOMAIN deletes', Holds(deletes'[j])
           PROVE  /\ Given(deletes[j].id)'
                  /\ deletes'[j].id \in DOMAIN schedules' =>
                        schedules'[deletes'[j].id].of = deletes'[j].snapshot.of
        <3>1. j \in DOMAIN deletes /\ deletes'[j] = deletes[j] /\ Holds(deletes[j])
            BY <2>3, <2>11, EndedShape DEF Holds
        <3>2. Given(deletes[j].id)
            BY <3>1 DEF UndoInv
        <3>3. deletes[j].id # NewId(k)
            BY <2>4, <3>2 DEF Given
        <3>4. Given(deletes[j].id)'
            BY <2>6, <3>1, <3>2 DEF Given
        <3>. QED BY <2>2, <3>1, <3>3, <3>4 DEF UndoInv
    <2>12. ASSUME NEW j \in DOMAIN deletes', Pending(deletes'[j])
           PROVE  j \in DOMAIN deletes /\ j # k /\ deletes'[j] = deletes[j]
        BY <2>3, <2>12, EndedShape DEF Pending
    <2>13. ASSUME NEW j \in DOMAIN deletes', Pending(deletes'[j]), NEW i \in DOMAIN schedules'
           PROVE  schedules'[i].of # deletes'[j].snapshot.of
        <3>1. j \in DOMAIN deletes /\ j # k /\ deletes'[j] = deletes[j] /\ Pending(deletes[j])
            BY <2>12, <2>13
        <3>2. deletes[j].snapshot.of # snapshot.of
            BY <1>1, <3>1 DEF UndoInv, Pending
        <3>. QED BY <2>1, <2>2, <3>1, <3>2 DEF UndoInv
    <2>14. ASSUME NEW i \in DOMAIN deletes', NEW j \in DOMAIN deletes', i # j,
                  Pending(deletes'[i]), Pending(deletes'[j])
           PROVE  deletes'[i].snapshot.of # deletes'[j].snapshot.of
        BY <2>12, <2>14 DEF UndoInv
    <2>. QED BY <2>3, <2>8, <2>10, <2>11, <2>13, <2>14 DEF UndoInv, Holds, Pending
<1>. QED BY <1>2, <1>3

-----------------------------------------------------------------------------
LEMMA UndoInit == Init => UndoInv
<1>. SUFFICES ASSUME Init PROVE UndoInv
    OBVIOUS
<1>1. deletes = <<>> /\ dialog = None
    BY DEF Init
<1>2. /\ Len(deletes) = 0 /\ DOMAIN deletes = {}
      /\ deletes = [k \in 1..0 |-> deletes[k]]
    BY <1>1
<1>3. /\ DOMAIN schedules = Originals
      /\ \A o \in Originals : schedules[o].of = o /\ DOMAIN schedules[o] = RowFields
    BY DEF Init, RowFields
<1>. QED BY <1>1, <1>2, <1>3 DEF UndoInv, Shape, DialogAsks, Given, NoDuplicates

LEMMA UndoNext == UndoInv /\ [Next]_vars => UndoInv'
<1>. SUFFICES ASSUME UndoInv, [Next]_vars PROVE UndoInv'
    OBVIOUS
<1>1. CASE UNCHANGED vars
    BY <1>1, PageOnly, QuietStep DEF vars, server, dialogVars
<1>2. ASSUME NEW id, Toggle(id) PROVE UndoInv'
    BY <1>2, PageOnly, QuietStep DEF Toggle, server, dialogVars
<1>3. ASSUME NEW id, Ask(id) PROVE UndoInv'
    BY <1>3, AskStep, QuietStep
<1>4. ASSUME NEW t, NEW done \in BOOLEAN, NEW answered \in BOOLEAN, AnswerToggle(t, done, answered)
      PROVE  UndoInv'
    BY <1>4, AnswerToggleStep, QuietStep
<1>5. CASE Refresh
    BY <1>5, PageOnly, QuietStep DEF Refresh, server, dialogVars
<1>6. ASSUME NEW k, Swap(k) PROVE UndoInv'
    BY <1>6, PageOnly, QuietStep DEF Swap, server, dialogVars
<1>7. CASE Tick
    BY <1>7, PageOnly, QuietStep DEF Tick, server
<1>8. CASE Ok
    BY <1>8, OkStep, QuietStep
<1>9. CASE Cancel
    BY <1>9, CancelStep, QuietStep
<1>10. ASSUME NEW k \in DOMAIN deletes, Handles(k) PROVE UndoInv'
    <2>1. ASSUME NEW ok \in BOOLEAN, Capture(k, ok) PROVE UndoInv'
        BY <2>1, CaptureStep
    <2>2. ASSUME NEW done \in BOOLEAN, NEW answered \in BOOLEAN, Delete(k, done, answered)
          PROVE  UndoInv'
        BY <2>2, DeleteStep
    <2>3. ASSUME NEW done \in BOOLEAN, NEW answered \in BOOLEAN, Restore(k, done, answered)
          PROVE  UndoInv'
        BY <2>3, RestoreStep
    <2>4. CASE TapUndo(k)
        BY <2>4, TapUndoStep, QuietStep
    <2>5. CASE Expire(k)
        BY <2>5, ExpireStep, QuietStep
    <2>. QED BY <1>10, <2>1, <2>2, <2>3, <2>4, <2>5 DEF Handles
<1>11. CASE Leave
    BY <1>11, LeaveStep, QuietStep
<1>12. CASE Return
    BY <1>12, ReturnStep, QuietStep
<1>13. ASSUME NEW id \in DOMAIN schedules, OtherToggles(id) PROVE UndoInv'
    BY <1>13, OtherTogglesStep, QuietStep
<1>14. ASSUME NEW id, OtherDeletes(id) PROVE UndoInv'
    BY <1>14, OtherDeletesStep, QuietStep
<1>15. ASSUME NEW d, RemoveDevice(d) PROVE UndoInv'
    BY <1>15, RemoveDeviceStep, QuietStep
<1>. QED BY <1>1, <1>2, <1>3, <1>4, <1>5, <1>6, <1>7, <1>8, <1>9, <1>10, <1>11, <1>12, <1>13,
            <1>14, <1>15 DEF Next

\* Undo (<delete-list>, restoreSchedule) makes a copy only of a schedule that is
\* gone, and only once, however many deletes overlap, whatever answers are lost
\* and whatever other clients do.
THEOREM UndoMakesNoDuplicates == Spec => []NoDuplicates
<1>1. UndoInv => NoDuplicates
    BY DEF UndoInv
<1>. QED BY <1>1, UndoInit, UndoNext, PTL DEF Spec
-----------------------------------------------------------------------------
(* The types of what the server has *)

LinkValues == Presets \cup {Null}
TablesOver(D) == UNION {[S -> Presets \cup {Null}] : S \in SUBSET D}

ScheduleType == [of : Originals, enabled : BOOLEAN, links : LinkTables]

ServerInv ==
    /\ devices \subseteq Devices
    /\ \A id \in DOMAIN schedules : id \in Nat /\ schedules[id] \in ScheduleType

\* A table of presets is a function on some of the devices.
LEMMA TableIsFunction ==
    ASSUME NEW D, NEW x
    PROVE  x \in TablesOver(D) <=> \E S \in SUBSET D : x \in [S -> LinkValues]
BY DEF TablesOver, LinkValues

LEMMA TableValues ==
    ASSUME NEW D, NEW x \in TablesOver(D)
    PROVE  /\ DOMAIN x \subseteq D /\ \A d \in DOMAIN x : x[d] \in LinkValues
           /\ x = [d \in DOMAIN x |-> x[d]]
<1>1. PICK S \in SUBSET D : x \in [S -> LinkValues]
    BY TableIsFunction
<1>. QED BY <1>1

LEMMA TableShrinks ==
    ASSUME NEW D, NEW E, NEW x \in TablesOver(D)
    PROVE  /\ Restrict(x, DOMAIN x \cap E) \in TablesOver(D \cap E)
           /\ D \subseteq E => x \in TablesOver(E)
<1>1. PICK S \in SUBSET D : x \in [S -> LinkValues]
    BY TableIsFunction
<1>2. Restrict(x, S \cap E) \in [S \cap E -> LinkValues] /\ S \cap E \in SUBSET (D \cap E)
    BY <1>1 DEF Restrict
<1>3. Restrict(x, DOMAIN x \cap E) \in TablesOver(D \cap E)
    BY <1>1, <1>2, TableIsFunction
<1>4. D \subseteq E => x \in TablesOver(E)
    BY <1>1, TableIsFunction
<1>. QED BY <1>1, <1>3, <1>4

LEMMA LinksAreTable == LinkTables = TablesOver(devices)
BY DEF LinkTables, TablesOver

\* _resolve_device_presets gives every device of the schedule a preset or none.
LEMMA ResolvedType ==
    ASSUME NEW o \in Originals, NEW D, NEW ids \in SUBSET D, NEW given,
           \A d \in DOMAIN given : given[d] \in LinkValues
    PROVE  /\ DOMAIN ResolveDevicePresets(ActionOf[o], ids, given) = ids
           /\ ResolveDevicePresets(ActionOf[o], ids, given) \in TablesOver(D)
<1>1. ActionOf[o].ps \in LinkValues
    BY DEF LinkValues
<1>2. ResolveDevicePresets(ActionOf[o], ids, given) \in [ids -> LinkValues]
    BY <1>1 DEF ResolveDevicePresets, LinkValues
<1>. QED BY <1>2, TableIsFunction

-----------------------------------------------------------------------------
(* What a step may do to the schedules: nothing, or one of these. *)

Updates(id) ==
    /\ id \in DOMAIN schedules /\ devices' = devices
    /\ \E enabled \in BOOLEAN : schedules' = UpdateSchedule(id, enabled)

Removes(id) ==
    /\ devices' = devices
    /\ schedules' = Restrict(schedules, DOMAIN schedules \ {id})

Unlinks ==
    \E d \in devices :
        /\ devices' = devices \ {d}
        /\ schedules' = [id \in DOMAIN schedules |->
              [schedules[id] EXCEPT !.links = Restrict(@, DOMAIN @ \ {d})]]

Copy(snapshot) ==
    [of |-> snapshot.of, enabled |-> snapshot.enabled,
     links |-> ResolveDevicePresets(ActionOf[snapshot.of],
                   DOMAIN snapshot.presets, DevicePresets(snapshot))]

Adds(k) ==
    /\ deletes[k].pc = "restoring" /\ CreateAccepted(deletes[k].snapshot)
    /\ devices' = devices
    /\ schedules' = [id \in DOMAIN schedules \cup {NewId(k)} |->
          IF id # NewId(k) THEN schedules[id] ELSE Copy(deletes[k].snapshot)]

LEMMA UpdatedSchedule ==
    ASSUME ServerInv, NEW id \in DOMAIN schedules, NEW enabled \in BOOLEAN,
           schedules' = UpdateSchedule(id, enabled)
    PROVE  /\ DOMAIN schedules' = DOMAIN schedules
           /\ schedules'[id].of = schedules[id].of /\ schedules'[id].enabled = enabled
           /\ schedules'[id].links =
                 ResolveDevicePresets(Action(id), DOMAIN schedules[id].links, <<>>)
           /\ schedules'[id] = [of |-> schedules[id].of, enabled |-> enabled,
                                links |-> schedules'[id].links]
           /\ \A i \in DOMAIN schedules : i # id => schedules'[i] = schedules[i]
<1>1. schedules[id] \in ScheduleType
    BY DEF ServerInv
<1>. QED BY <1>1 DEF UpdateSchedule, ScheduleType

LEMMA ServerUpdates ==
    ASSUME ServerInv, NEW id, Updates(id)
    PROVE  ServerInv'
<1>1. PICK enabled \in BOOLEAN : schedules' = UpdateSchedule(id, enabled)
    BY DEF Updates
<1>2. id \in DOMAIN schedules /\ devices' = devices
    BY DEF Updates
<1>3. schedules[id] \in ScheduleType
    BY <1>2 DEF ServerInv
<1>4. schedules'[id].links \in TablesOver(devices)
    <2>1. schedules[id].of \in Originals /\ schedules[id].links \in TablesOver(devices)
        BY <1>3, LinksAreTable DEF ScheduleType
    <2>2. DOMAIN schedules[id].links \in SUBSET devices
        BY <2>1, TableValues
    <2>3. \A d \in DOMAIN <<>> : <<>>[d] \in LinkValues
        OBVIOUS
    <2>4. schedules'[id].links =
             ResolveDevicePresets(ActionOf[schedules[id].of], DOMAIN schedules[id].links, <<>>)
        BY <1>1, <1>2, UpdatedSchedule DEF Action
    <2>. QED BY <2>1, <2>2, <2>3, <2>4, ResolvedType
<1>5. ScheduleType' = ScheduleType
    BY <1>2 DEF ScheduleType, LinkTables
<1>6. schedules'[id] \in ScheduleType
    <2>1. schedules'[id] = [of |-> schedules[id].of, enabled |-> enabled,
                            links |-> schedules'[id].links]
        BY <1>1, <1>2, UpdatedSchedule
    <2>. QED BY <1>3, <1>4, <2>1, LinksAreTable DEF ScheduleType
<1>. QED BY <1>1, <1>2, <1>5, <1>6, UpdatedSchedule DEF ServerInv

LEMMA ServerRemoves ==
    ASSUME ServerInv, NEW id, Removes(id)
    PROVE  ServerInv'
<1>1. ScheduleType' = ScheduleType
    BY DEF Removes, ScheduleType, LinkTables
<1>. QED BY <1>1 DEF Removes, Restrict, ServerInv

LEMMA ServerUnlinks ==
    ASSUME ServerInv, Unlinks
    PROVE  ServerInv'
<1>1. PICK d \in devices :
        /\ devices' = devices \ {d}
        /\ schedules' = [id \in DOMAIN schedules |->
              [schedules[id] EXCEPT !.links = Restrict(@, DOMAIN @ \ {d})]]
    BY DEF Unlinks
<1>2. ASSUME NEW id \in DOMAIN schedules
      PROVE  schedules'[id] \in [of : Originals, enabled : BOOLEAN, links : TablesOver(devices')]
    <2>. DEFINE links == schedules[id].links
    <2>1. schedules[id] \in ScheduleType /\ links \in TablesOver(devices)
        BY LinksAreTable DEF ServerInv, ScheduleType
    <2>2. Restrict(links, DOMAIN links \cap (devices \ {d})) \in TablesOver(devices \cap (devices \ {d}))
        BY <2>1, TableShrinks
    <2>3. DOMAIN links \subseteq devices
        BY <2>1, TableValues
    <2>4. /\ DOMAIN links \cap (devices \ {d}) = DOMAIN links \ {d}
          /\ devices \cap (devices \ {d}) = devices'
        BY <1>1, <2>3
    <2>5. Restrict(links, DOMAIN links \ {d}) \in TablesOver(devices')
        BY <2>2, <2>4
    <2>6. schedules'[id] = [schedules[id] EXCEPT !.links = Restrict(links, DOMAIN links \ {d})]
        BY <1>1
    <2>. HIDE DEF links
    <2>. QED BY <2>1, <2>5, <2>6 DEF ScheduleType
<1>3. ScheduleType' = [of : Originals, enabled : BOOLEAN, links : TablesOver(devices')]
    BY DEF ScheduleType, LinkTables, TablesOver
<1>. QED BY <1>1, <1>2, <1>3 DEF ServerInv

-----------------------------------------------------------------------------
(* The types of what the delete handlers hold *)

Captures == [of : Originals, presets : TablesOver(Devices), enabled : BOOLEAN]
Pcs == {"asking", "capture", "delete", "offered", "restoring", "ended"}
HandlerType ==
    [id : Nat, pc : Pcs, same : BOOLEAN,
     snapshot : Captures \cup {NoSnapshot}, was : Captures \cup {NoSnapshot}]

\* The presets of a snapshot are effective ones: none for an action that sets a
\* state, and one wherever the action of a preset has one.
InEffect(snapshot) ==
    \A d \in DOMAIN snapshot.presets :
        IF ActionOf[snapshot.of].type = "state" THEN snapshot.presets[d] = Null
        ELSE snapshot.presets[d] = Null => ActionOf[snapshot.of].ps = Null

HandlersInv ==
    \A k \in DOMAIN deletes :
        /\ deletes[k] \in HandlerType
        /\ deletes[k].snapshot # NoSnapshot => InEffect(deletes[k].snapshot)

LEMMA SnapshotType ==
    ASSUME ServerInv, NEW id \in DOMAIN schedules
    PROVE  /\ Snapshot(id) \in Captures /\ Snapshot(id) # NoSnapshot
           /\ InEffect(Snapshot(id))
<1>. DEFINE o == schedules[id].of
            links == schedules[id].links
<1>1. /\ o \in Originals /\ links \in TablesOver(devices)
      /\ schedules[id].enabled \in BOOLEAN /\ devices \subseteq Devices
    BY LinksAreTable DEF ServerInv, ScheduleType
<1>2. DOMAIN links \in SUBSET Devices /\ \A d \in DOMAIN links : links[d] \in LinkValues
    BY <1>1, TableValues
<1>3. ActionOf[o].type \in {"state", "preset"} /\ ActionOf[o].ps \in LinkValues
    BY <1>1 DEF LinkValues
<1>4. /\ DOMAIN Effective(id) = DOMAIN links
      /\ \A d \in DOMAIN links :
            Effective(id)[d] = IF ActionOf[o].type = "state" THEN Null
                               ELSE IF links[d] # Null THEN links[d] ELSE ActionOf[o].ps
    BY DEF Effective, Action
<1>5. Effective(id) \in [DOMAIN links -> LinkValues]
    <2>1. Effective(id) = [d \in DOMAIN links |-> Effective(id)[d]]
        BY DEF Effective
    <2>2. \A d \in DOMAIN links : Effective(id)[d] \in LinkValues
        BY <1>2, <1>3, <1>4 DEF LinkValues
    <2>. QED BY <2>1, <2>2
<1>6. Effective(id) \in TablesOver(Devices)
    BY <1>2, <1>5, TableIsFunction
<1>7. Snapshot(id) = [of |-> o, presets |-> Effective(id), enabled |-> schedules[id].enabled]
    BY DEF Snapshot
<1>8. Snapshot(id).of # NoSnapshot.of
    BY <1>1, <1>7 DEF NoSnapshot, None, Originals
<1>. QED BY <1>1, <1>4, <1>6, <1>7, <1>8 DEF Captures, InEffect

\* What any step but Capture and Delete makes of a handler.
Goes(h, pc) ==
    \/ pc = h.pc
    \/ h.pc = "asking" /\ pc = "capture"
    \/ h.pc = "offered" /\ pc = "restoring"

Follows(h, g) ==
    \/ g = Ended
    \/ \E pc \in Pcs, same \in BOOLEAN :
          /\ g = [h EXCEPT !.pc = pc, !.same = same]
          /\ Goes(h, pc) /\ (same => h.same)

Asks(g) == \E id \in DOMAIN rows : g \in {Handler(id), [Handler(id) EXCEPT !.pc = "capture"]}

HandlersFollow ==
    /\ DOMAIN deletes \subseteq DOMAIN deletes'
    /\ \A k \in DOMAIN deletes : Follows(deletes[k], deletes'[k])
    /\ \A k \in DOMAIN deletes' \ DOMAIN deletes : Asks(deletes'[k])

LEMMA HandlerTyped ==
    ASSUME NEW id \in Nat
    PROVE  /\ Handler(id) \in HandlerType /\ [Handler(id) EXCEPT !.pc = "capture"] \in HandlerType
           /\ Ended \in HandlerType
           /\ Handler(id).snapshot = NoSnapshot /\ Ended.snapshot = NoSnapshot
           /\ [Handler(id) EXCEPT !.pc = "capture"].snapshot = NoSnapshot
<1>1. ASSUME NEW i \in Nat
      PROVE  Handler(i) \in HandlerType /\ Handler(i).snapshot = NoSnapshot
    BY <1>1 DEF Handler, HandlerType, Pcs
<1>2. ASSUME NEW h \in HandlerType, NEW pc \in Pcs
      PROVE  [h EXCEPT !.pc = pc] \in HandlerType /\ [h EXCEPT !.pc = pc].snapshot = h.snapshot
    BY <1>2 DEF HandlerType
<1>3. None \in Nat /\ "ended" \in Pcs /\ "capture" \in Pcs
    BY DEF None, Pcs
<1>. QED BY <1>1, <1>2, <1>3 DEF Ended

LEMMA FollowsTyped ==
    ASSUME NEW h \in HandlerType, NEW g, Follows(h, g)
    PROVE  g \in HandlerType /\ (g = Ended \/ (g.snapshot = h.snapshot /\ g.was = h.was
                                               /\ g.id = h.id /\ Goes(h, g.pc)
                                               /\ (g.same => h.same)))
<1>1. CASE g = Ended
    <2>1. None \in Nat
        BY DEF None
    <2>. QED BY <1>1, <2>1, HandlerTyped
<1>2. ASSUME NEW pc \in Pcs, NEW same \in BOOLEAN, g = [h EXCEPT !.pc = pc, !.same = same],
             Goes(h, pc), same => h.same
      PROVE  /\ g \in HandlerType /\ g.snapshot = h.snapshot /\ g.was = h.was /\ g.id = h.id
             /\ g.pc = pc /\ g.same = same
    BY <1>2 DEF HandlerType
<1>. QED BY <1>1, <1>2 DEF Follows

LEMMA HandlersKept ==
    ASSUME HandlersInv, HandlersFollow, DOMAIN rows \subseteq Nat
    PROVE  HandlersInv'
<1>. SUFFICES ASSUME NEW k \in DOMAIN deletes'
              PROVE  /\ deletes'[k] \in HandlerType
                     /\ deletes'[k].snapshot # NoSnapshot => InEffect(deletes'[k].snapshot)
    BY DEF HandlersInv, InEffect, NoSnapshot, HandlerType, Captures, TablesOver
<1>1. CASE k \in DOMAIN deletes
    <2>1. deletes[k] \in HandlerType /\ Follows(deletes[k], deletes'[k])
        BY <1>1 DEF HandlersInv, HandlersFollow
    <2>2. None \in Nat
        BY DEF None
    <2>3. Ended.snapshot = NoSnapshot
        BY <2>2, HandlerTyped
    <2>. QED BY <1>1, <2>1, <2>3, FollowsTyped DEF HandlersInv
<1>2. CASE k \notin DOMAIN deletes
    <2>1. PICK id \in DOMAIN rows :
            deletes'[k] \in {Handler(id), [Handler(id) EXCEPT !.pc = "capture"]}
        BY <1>2 DEF HandlersFollow, Asks
    <2>2. id \in Nat
        OBVIOUS
    <2>3. deletes'[k] \in HandlerType /\ deletes'[k].snapshot = NoSnapshot
        BY <2>1, <2>2, HandlerTyped
    <2>. QED BY <2>3
<1>. QED BY <1>1, <1>2

\* The schedule Undo creates has only devices that exist.
LEMMA ServerAdds ==
    ASSUME ServerInv, HandlersInv, NEW k \in DOMAIN deletes, k \in Nat, Adds(k)
    PROVE  ServerInv'
<1>. DEFINE snapshot == deletes[k].snapshot
<1>1. snapshot \in Captures \cup {NoSnapshot}
    BY DEF HandlersInv, HandlerType
<1>2. DOMAIN snapshot.presets # {} /\ DOMAIN snapshot.presets \subseteq devices
    BY DEF Adds, CreateAccepted
<1>3. snapshot \in Captures
    BY <1>1, <1>2 DEF NoSnapshot
<1>4. /\ snapshot.of \in Originals /\ snapshot.enabled \in BOOLEAN
      /\ snapshot.presets \in TablesOver(Devices)
    BY <1>3 DEF Captures
<1>5. \A d \in DOMAIN DevicePresets(snapshot) : DevicePresets(snapshot)[d] \in LinkValues
    <2>1. \A d \in DOMAIN snapshot.presets : snapshot.presets[d] \in LinkValues
        <3>. HIDE DEF snapshot
        <3>. QED BY <1>4, TableValues
    <2>. QED BY <2>1 DEF DevicePresets, Restrict
<1>6. ResolveDevicePresets(ActionOf[snapshot.of], DOMAIN snapshot.presets,
                           DevicePresets(snapshot)) \in TablesOver(devices)
    <2>. HIDE DEF snapshot
    <2>. QED BY <1>2, <1>4, <1>5, ResolvedType
<1>7. Copy(snapshot) \in ScheduleType
    <2>. HIDE DEF snapshot
    <2>. QED BY <1>4, <1>6, LinksAreTable DEF Copy, ScheduleType
<1>8. ScheduleType' = ScheduleType /\ devices' = devices
    BY DEF Adds, ScheduleType, LinkTables
<1>9. NewId(k) \in Nat
    BY DEF NewId
<1>. QED BY <1>7, <1>8, <1>9 DEF Adds, ServerInv

-----------------------------------------------------------------------------
(* The switches of a list: what they hold, and how they agree with the server *)

RowType == [shown : BOOLEAN, busy : BOOLEAN, sure : BOOLEAN]
Tables == UNION {[S -> RowType] : S \in SUBSET Nat}
ToggleShape(t) == DOMAIN t = {"n", "id", "enabled", "current"} /\ t.enabled \in BOOLEAN

\* A switch at rest shows what the server has, one with a request out the
\* opposite; sure is what makes it possible to say so.
Shows(table, server_) ==
    \A id \in DOMAIN table \cap DOMAIN server_ :
        table[id].sure => ((table[id].shown = server_[id].enabled) <=> ~ table[id].busy)

Rests(table) == \A id \in DOMAIN table : ~ table[id].busy

TogglesInv ==
    /\ \A t \in toggles : ToggleShape(t)
    /\ \A t \in toggles : t.current =>
          t.id \in DOMAIN rows /\ rows[t.id].busy /\ t.enabled = rows[t.id].shown
    /\ \A t, u \in toggles : t.current /\ u.current /\ t.id = u.id => t = u

ListsInv ==
    /\ lists \in Seq(Tables)
    /\ \A k \in DOMAIN lists : Shows(lists[k], schedules) /\ Rests(lists[k])
    /\ \A k \in DOMAIN lists : \A id \in DOMAIN lists[k] : Given(id)

RowsInv ==
    /\ rows \in Tables /\ here \in BOOLEAN
    /\ ~ here => DOMAIN rows = {}
    /\ Shows(rows, schedules)
    /\ \A id \in DOMAIN rows : Given(id)

SwitchInv == RowsInv /\ ListsInv /\ TogglesInv

LEMMA TableOfRows ==
    ASSUME NEW t
    PROVE  t \in Tables <=> \E S \in SUBSET Nat : t \in [S -> RowType]
BY DEF Tables

LEMMA TableRows ==
    ASSUME NEW t \in Tables
    PROVE  /\ DOMAIN t \subseteq Nat /\ t \in [DOMAIN t -> RowType]
           /\ \A id \in DOMAIN t : t[id] \in RowType
BY TableOfRows

\* Another writer's change makes a row unsure and changes nothing else.
LEMMA UnsureTable ==
    ASSUME NEW t \in Tables, NEW i
    PROVE  /\ Unsure(i, t) \in Tables /\ DOMAIN Unsure(i, t) = DOMAIN t
           /\ \A id \in DOMAIN t : /\ Unsure(i, t)[id].shown = t[id].shown
                                   /\ Unsure(i, t)[id].busy = t[id].busy
                                   /\ Unsure(i, t)[id].sure => t[id].sure /\ id # i
<1>1. DOMAIN t \in SUBSET Nat /\ \A id \in DOMAIN t : t[id] \in RowType
    BY TableRows
<1>2. DOMAIN Unsure(i, t) = DOMAIN t
    BY DEF Unsure
<1>3. ASSUME NEW id \in DOMAIN t
      PROVE  /\ Unsure(i, t)[id] \in RowType
             /\ Unsure(i, t)[id].shown = t[id].shown /\ Unsure(i, t)[id].busy = t[id].busy
             /\ Unsure(i, t)[id].sure => t[id].sure /\ id # i
    BY <1>1 DEF Unsure, RowType
<1>4. Unsure(i, t) \in [DOMAIN t -> RowType]
    BY <1>2, <1>3 DEF Unsure
<1>. QED BY <1>1, <1>2, <1>3, <1>4, TableOfRows

\* Where a row is still sure, the server has still what it had.
LEMMA ShowsKept ==
    ASSUME NEW t, NEW u, NEW s, NEW s2, Shows(t, s), DOMAIN u \subseteq DOMAIN t,
           \A id \in DOMAIN u \cap DOMAIN s2 : u[id].sure =>
              /\ id \in DOMAIN s /\ s2[id].enabled = s[id].enabled
              /\ t[id].sure /\ u[id].shown = t[id].shown /\ u[id].busy = t[id].busy
    PROVE  Shows(u, s2)
BY DEF Shows

RenderedOf(s) ==
    [id \in DOMAIN s |-> [shown |-> s[id].enabled, busy |-> FALSE, sure |-> TRUE]]

LEMMA RenderedTable ==
    ASSUME NEW s, DOMAIN s \subseteq Nat, \A id \in DOMAIN s : s[id].enabled \in BOOLEAN
    PROVE  /\ RenderedOf(s) \in Tables /\ DOMAIN RenderedOf(s) = DOMAIN s
           /\ Shows(RenderedOf(s), s) /\ Rests(RenderedOf(s))
<1>1. RenderedOf(s) \in [DOMAIN s -> RowType]
    BY DEF RenderedOf, RowType
<1>. QED BY <1>1, TableOfRows DEF RenderedOf, Shows, Rests

LEMMA RenderedNow ==
    ASSUME ServerInv
    PROVE  /\ Rendered \in Tables /\ DOMAIN Rendered = DOMAIN schedules
           /\ Shows(Rendered, schedules) /\ Rests(Rendered)
<1>1. /\ DOMAIN schedules \subseteq Nat
      /\ \A id \in DOMAIN schedules : schedules[id].enabled \in BOOLEAN
    BY DEF ServerInv, ScheduleType
<1>2. Rendered = RenderedOf(schedules)
    BY DEF Rendered, RenderedOf
<1>. QED BY <1>1, <1>2, RenderedTable

\* A part of a sequence, and the sequence without one of its entries.
LEMMA PartOf ==
    ASSUME NEW S, NEW s, NEW m \in Int, NEW n \in Int, \A i \in m..n : s[i] \in S
    PROVE  /\ SubSeq(s, m, n) \in Seq(S)
           /\ Len(SubSeq(s, m, n)) = IF m <= n THEN n - m + 1 ELSE 0
           /\ \A i \in 1..(n - m + 1) : SubSeq(s, m, n)[i] = s[m + i - 1]
<1>1. SubSeq(s, m, n) \in Seq(S)
    BY SubSeqProperties
<1>2. Len(SubSeq(s, m, n)) = IF m <= n THEN n - m + 1 ELSE 0
    BY SubSeqProperties
<1>3. \A i \in 1..(n - m + 1) : SubSeq(s, m, n)[i] = s[m + i - 1]
    BY SubSeqProperties
<1>. QED BY <1>1, <1>2, <1>3

EntryIn(x, s, n) == \E i \in 1..n : x = s[i]
EntryOf(x, s) == EntryIn(x, s, Len(s))
Joined(r, a, m, b, n) == \A j \in 1..(m + n) : r[j] = IF j <= m THEN a[j] ELSE b[j - m]

LEMMA OneOfTwo ==
    ASSUME NEW m \in Nat, NEW n \in Nat, NEW a, NEW b, NEW r,
           Joined(r, a, m, b, n), NEW j \in 1..(m + n)
    PROVE  EntryIn(r[j], a, m) \/ EntryIn(r[j], b, n)
<1>. USE DEF Joined, EntryIn
<1>1. CASE j <= m
    BY <1>1
<1>2. CASE j > m
    <2>1. j - m \in 1..n /\ r[j] = b[j - m]
        BY <1>2
    <2>. QED BY <2>1
<1>. QED BY <1>1, <1>2

LEMMA EntriesOfConcat ==
    ASSUME NEW S, NEW a \in Seq(S), NEW b \in Seq(S), NEW r, r = a \o b
    PROVE  r \in Seq(S) /\ \A j \in DOMAIN r : EntryOf(r[j], a) \/ EntryOf(r[j], b)
<1>. DEFINE m == Len(a)
            n == Len(b)
<1>1. r \in Seq(S) /\ Len(r) = m + n /\ Joined(r, a, m, b, n)
    BY ConcatProperties DEF Joined
<1>2. m \in Nat /\ n \in Nat
    BY LenProperties
<1>3. DOMAIN r = 1..(m + n)
    BY <1>1, LenProperties
<1>. HIDE DEF m, n
<1>4. ASSUME NEW j \in 1..(m + n)
      PROVE  EntryIn(r[j], a, m) \/ EntryIn(r[j], b, n)
    BY <1>1, <1>2, OneOfTwo, Zenon
<1>. QED BY <1>1, <1>3, <1>4 DEF m, n, EntryOf

LEMMA PartOfSeq ==
    ASSUME NEW S, NEW s \in Seq(S), NEW m \in Int, NEW n \in Int, m >= 1, n <= Len(s)
    PROVE  /\ SubSeq(s, m, n) \in Seq(S)
           /\ \A x : EntryOf(x, SubSeq(s, m, n)) => EntryOf(x, s)
<1>. DEFINE l == Len(s)
            r == SubSeq(s, m, n)
<1>1. l \in Nat /\ \A i \in 1..l : s[i] \in S
    BY LenProperties, ElementOfSeq
<1>. HIDE DEF l
<1>2. n <= l
    BY DEF l
<1>3. \A i \in m..n : i \in 1..l
    BY <1>1, <1>2
<1>4. \A i \in m..n : s[i] \in S
    BY <1>1, <1>3
<1>5. /\ r \in Seq(S) /\ Len(r) = IF m <= n THEN n - m + 1 ELSE 0
      /\ \A i \in 1..(n - m + 1) : r[i] = s[m + i - 1]
    BY <1>4, PartOf
<1>. HIDE DEF r
<1>6. ASSUME NEW i \in 1..Len(r) PROVE \E j \in 1..l : r[i] = s[j]
    <2>1. i \in 1..(n - m + 1) /\ m + i - 1 \in 1..l
        BY <1>1, <1>2, <1>5
    <2>. QED BY <1>5, <2>1
<1>. QED BY <1>5, <1>6 DEF l, r, EntryOf, EntryIn

LEMMA WithoutOne ==
    ASSUME NEW S, NEW s \in Seq(S), NEW k \in 1..Len(s), NEW r,
           r = SubSeq(s, 1, k - 1) \o SubSeq(s, k + 1, Len(s))
    PROVE  r \in Seq(S) /\ \A j \in DOMAIN r : EntryOf(r[j], s)
<1>. DEFINE n == Len(s)
            a == SubSeq(s, 1, k - 1)
            b == SubSeq(s, k + 1, n)
<1>1. n \in Nat
    BY LenProperties
<1>2. r = a \o b
    OBVIOUS
<1>. HIDE DEF n
<1>3. k - 1 \in Int /\ k + 1 \in Int /\ k - 1 <= n /\ k + 1 >= 1 /\ n <= n /\ n = Len(s)
    BY <1>1 DEF n
<1>4. a \in Seq(S) /\ \A x : EntryOf(x, a) => EntryOf(x, s)
    BY <1>1, <1>3, PartOfSeq
<1>5. b \in Seq(S) /\ \A x : EntryOf(x, b) => EntryOf(x, s)
    BY <1>1, <1>3, PartOfSeq
<1>. HIDE DEF a, b
<1>6. r \in Seq(S) /\ \A j \in DOMAIN r : EntryOf(r[j], a) \/ EntryOf(r[j], b)
    BY <1>2, <1>4, <1>5, EntriesOfConcat
<1>. QED BY <1>4, <1>5, <1>6

-----------------------------------------------------------------------------
(* The switches through a step of somebody else *)

EndedStay ==
    /\ DOMAIN deletes \subseteq DOMAIN deletes'
    /\ \A k \in DOMAIN deletes : deletes[k].pc = "ended" => deletes'[k].pc = "ended"

\* The schedules that a list can show are as enabled as before, but for those of X.
StillEnabled(X) ==
    \A id \in DOMAIN schedules' : Given(id) /\ id \notin X =>
        id \in DOMAIN schedules /\ schedules'[id].enabled = schedules[id].enabled

\* Rows that know less than before, and nothing of those of X.
Lags(X, t, u) ==
    /\ u \in Tables /\ DOMAIN u = DOMAIN t
    /\ \A id \in DOMAIN t :
          /\ u[id].shown = t[id].shown /\ u[id].busy = t[id].busy
          /\ u[id].sure => t[id].sure /\ id \notin X

LEMMA GivenKept == ASSUME EndedStay, NEW id, Given(id) PROVE Given(id)'
BY DEF EndedStay, Given, NewId

LEMMA FollowEnds == ASSUME HandlersInv, HandlersFollow PROVE EndedStay
<1>1. ASSUME NEW k \in DOMAIN deletes, deletes[k].pc = "ended" PROVE deletes'[k].pc = "ended"
    <2>1. deletes[k] \in HandlerType /\ Follows(deletes[k], deletes'[k])
        BY DEF HandlersInv, HandlersFollow
    <2>2. deletes'[k] = Ended \/ Goes(deletes[k], deletes'[k].pc)
        BY <2>1, FollowsTyped
    <2>. QED BY <1>1, <2>2, EndedShape DEF Goes
<1>. QED BY <1>1 DEF EndedStay, HandlersFollow

LEMMA LagsNot == ASSUME NEW t \in Tables PROVE Lags({}, t, t)
BY DEF Lags

LEMMA LagsOne == ASSUME NEW t \in Tables, NEW i PROVE Lags({i}, t, Unsure(i, t))
BY UnsureTable DEF Lags

LEMMA TableLags ==
    ASSUME NEW X, NEW t, NEW u, Shows(t, schedules), \A id \in DOMAIN t : Given(id),
           StillEnabled(X), Lags(X, t, u)
    PROVE  Shows(u, schedules')
BY DEF Shows, StillEnabled, Lags

LEMMA RowsLag ==
    ASSUME RowsInv, EndedStay, NEW X, StillEnabled(X), Lags(X, rows, rows'), here' = here
    PROVE  RowsInv'
<1>1. Shows(rows', schedules')
    BY TableLags DEF RowsInv
<1>2. \A id \in DOMAIN rows' : Given(id)'
    BY GivenKept DEF RowsInv, Lags
<1>. QED BY <1>1, <1>2 DEF RowsInv, Lags, Shows

LEMMA ListsLag ==
    ASSUME ListsInv, EndedStay, NEW X, StillEnabled(X),
           lists' \in Seq(Tables), DOMAIN lists' = DOMAIN lists,
           \A k \in DOMAIN lists : Lags(X, lists[k], lists'[k])
    PROVE  ListsInv'
<1>1. ASSUME NEW k \in DOMAIN lists'
      PROVE  /\ Shows(lists'[k], schedules') /\ Rests(lists'[k])
             /\ \A id \in DOMAIN lists'[k] : Given(id)'
    <2>1. /\ Shows(lists[k], schedules) /\ Rests(lists[k])
          /\ \A id \in DOMAIN lists[k] : Given(id)
          /\ Lags(X, lists[k], lists'[k])
        BY DEF ListsInv
    <2>2. Shows(lists'[k], schedules')
        BY <2>1, TableLags
    <2>3. Rests(lists'[k])
        BY <2>1 DEF Lags, Rests
    <2>4. \A id \in DOMAIN lists'[k] : Given(id)'
        BY <2>1, GivenKept DEF Lags
    <2>. QED BY <2>2, <2>3, <2>4
<1>. QED BY <1>1 DEF ListsInv, Shows, Rests

LEMMA TogglesLag ==
    ASSUME TogglesInv, toggles' \subseteq toggles, NEW X, Lags(X, rows, rows')
    PROVE  TogglesInv'
BY DEF TogglesInv, Lags

\* The lists as they were, and with a schedule that is no longer sure in them.
LEMMA ListsStay ==
    ASSUME ListsInv, EndedStay, StillEnabled({}), lists' = lists
    PROVE  ListsInv'
<1>1. \A k \in DOMAIN lists : lists[k] \in Tables
    BY LenProperties, ElementOfSeq DEF ListsInv
<1>2. \A k \in DOMAIN lists : Lags({}, lists[k], lists'[k])
    BY <1>1, LagsNot
<1>. QED BY <1>2, ListsLag DEF ListsInv

LEMMA ListsUnsure ==
    ASSUME ListsInv, EndedStay, NEW i, StillEnabled({i}),
           lists' = [k \in DOMAIN lists |-> Unsure(i, lists[k])]
    PROVE  ListsInv'
<1>. DEFINE n == Len(lists)
<1>1. /\ n \in Nat /\ DOMAIN lists = 1..n
      /\ \A k \in 1..n : lists[k] \in Tables
    BY LenProperties, ElementOfSeq DEF ListsInv
<1>. HIDE DEF n
<1>2. \A k \in 1..n : lists'[k] \in Tables
    BY <1>1, UnsureTable
<1>3. lists' = [k \in 1..n |-> lists'[k]] /\ DOMAIN lists' = 1..n
    BY <1>1
<1>4. lists' \in [1..n -> Tables]
    BY <1>2, <1>3
<1>5. lists' \in Seq(Tables)
    BY <1>1, <1>4, SeqDef
<1>6. \A k \in DOMAIN lists : Lags({i}, lists[k], lists'[k])
    BY <1>1, LagsOne
<1>. QED BY <1>1, <1>3, <1>5, <1>6, ListsLag

\* What the requests leave as it was.
LEMMA StillUnchanged == ASSUME UNCHANGED schedules PROVE StillEnabled({})
BY DEF StillEnabled

LEMMA StillUpdates == ASSUME ServerInv, NEW id, Updates(id) PROVE StillEnabled({id})
<1>1. PICK enabled \in BOOLEAN : schedules' = UpdateSchedule(id, enabled)
    BY DEF Updates
<1>2. id \in DOMAIN schedules
    BY DEF Updates
<1>. QED BY <1>1, <1>2, UpdatedSchedule DEF StillEnabled

LEMMA StillRemoves == ASSUME NEW id, Removes(id) PROVE StillEnabled({})
BY DEF Removes, Restrict, StillEnabled

LEMMA StillUnlinks == ASSUME ServerInv, Unlinks PROVE StillEnabled({})
<1>1. \A id \in DOMAIN schedules : schedules[id] \in ScheduleType
    BY DEF ServerInv
<1>2. PICK d \in devices :
        schedules' = [id \in DOMAIN schedules |->
              [schedules[id] EXCEPT !.links = Restrict(@, DOMAIN @ \ {d})]]
    BY DEF Unlinks
<1>. QED BY <1>1, <1>2 DEF StillEnabled, ScheduleType

LEMMA StillAdds ==
    ASSUME NEW k, Adds(k), ~ Given(NewId(k)) PROVE StillEnabled({})
BY DEF Adds, StillEnabled
-----------------------------------------------------------------------------
(* What the steps make of the handlers *)

\* A snapshot of which nothing has been forgotten is the schedule as it is.
SnapshotOf(row) ==
    [of |-> row.of,
     presets |-> [d \in DOMAIN row.links |->
                     IF ActionOf[row.of].type = "state" THEN Null
                     ELSE IF row.links[d] # Null THEN row.links[d] ELSE ActionOf[row.of].ps],
     enabled |-> row.enabled]

RestoreInv ==
    \A k \in DOMAIN deletes :
        /\ Holds(deletes[k]) /\ deletes[k].same /\ deletes[k].id \in DOMAIN schedules
           => SnapshotOf(schedules[deletes[k].id]) = deletes[k].snapshot
        /\ Pending(deletes[k]) => deletes[k].snapshot # NoSnapshot
        /\ Pending(deletes[k]) /\ deletes[k].same => deletes[k].was = deletes[k].snapshot

PageInv == UndoInv /\ ServerInv /\ HandlersInv /\ SwitchInv /\ RestoreInv

\* Whoever changes a schedule makes the handlers forget that they know it.
CapturesHold ==
    \A k \in DOMAIN deletes :
        /\ Holds(deletes[k]) /\ Holds(deletes'[k]) /\ deletes'[k].same
        /\ deletes[k].id \in DOMAIN schedules'
        => /\ deletes[k].id \in DOMAIN schedules
           /\ schedules'[deletes[k].id] = schedules[deletes[k].id]

LEMMA SnapshotNow == ASSUME NEW id PROVE Snapshot(id) = SnapshotOf(schedules[id])
BY DEF Snapshot, SnapshotOf, Effective, Action

LEMMA RestoreKept ==
    ASSUME HandlersInv, RestoreInv, HandlersFollow, CapturesHold
    PROVE  RestoreInv'
<1>. SUFFICES ASSUME NEW k \in DOMAIN deletes'
              PROVE  LET h == deletes'[k] IN
                     /\ Holds(h) /\ h.same /\ h.id \in DOMAIN schedules'
                        => SnapshotOf(schedules'[h.id]) = h.snapshot
                     /\ Pending(h) => h.snapshot # NoSnapshot
                     /\ Pending(h) /\ h.same => h.was = h.snapshot
    BY DEF RestoreInv, Holds, Pending, NoSnapshot, SnapshotOf
<1>1. CASE k \notin DOMAIN deletes
    <2>1. deletes'[k].pc \in {"asking", "capture"}
        <3>1. PICK id \in DOMAIN rows :
                deletes'[k] \in {Handler(id), [Handler(id) EXCEPT !.pc = "capture"]}
            BY <1>1 DEF HandlersFollow, Asks
        <3>. QED BY <3>1, HandlerShape
    <2>. QED BY <2>1 DEF Holds, Pending
<1>2. CASE k \in DOMAIN deletes
    <2>1. /\ deletes[k] \in HandlerType /\ Follows(deletes[k], deletes'[k])
        BY <1>2 DEF HandlersInv, HandlersFollow
    <2>2. CASE deletes'[k] = Ended
        BY <2>2, EndedShape DEF Holds, Pending
    <2>3. CASE deletes'[k] # Ended
        <3>1. /\ deletes'[k].snapshot = deletes[k].snapshot /\ deletes'[k].was = deletes[k].was
              /\ deletes'[k].id = deletes[k].id /\ Goes(deletes[k], deletes'[k].pc)
              /\ deletes'[k].same => deletes[k].same
            BY <2>1, <2>3, FollowsTyped
        <3>2. /\ Holds(deletes'[k]) => Holds(deletes[k])
              /\ Pending(deletes'[k]) => Pending(deletes[k])
            BY <3>1 DEF Goes, Holds, Pending
        <3>3. Holds(deletes'[k]) /\ deletes'[k].same /\ deletes'[k].id \in DOMAIN schedules'
              => SnapshotOf(schedules'[deletes'[k].id]) = deletes'[k].snapshot
            <4>. SUFFICES ASSUME Holds(deletes'[k]), deletes'[k].same,
                                 deletes'[k].id \in DOMAIN schedules'
                          PROVE  SnapshotOf(schedules'[deletes'[k].id]) = deletes'[k].snapshot
                OBVIOUS
            <4>1. /\ deletes[k].id \in DOMAIN schedules
                  /\ schedules'[deletes[k].id] = schedules[deletes[k].id]
                BY <1>2, <3>1, <3>2 DEF CapturesHold
            <4>2. SnapshotOf(schedules[deletes[k].id]) = deletes[k].snapshot
                BY <1>2, <3>1, <3>2, <4>1 DEF RestoreInv
            <4>. QED BY <3>1, <4>1, <4>2
        <3>. QED BY <1>2, <3>1, <3>2, <3>3 DEF RestoreInv
    <2>. QED BY <2>2, <2>3
<1>. QED BY <1>1, <1>2

LEMMA FollowsSelf ==
    ASSUME NEW h \in HandlerType
    PROVE  /\ Follows(h, h)
           /\ \A same \in BOOLEAN :
                 (same => h.same) => Follows(h, [h EXCEPT !.same = same])
<1>1. ASSUME NEW same \in BOOLEAN, same => h.same
      PROVE  Follows(h, [h EXCEPT !.same = same])
    <2>1. [h EXCEPT !.same = same] = [h EXCEPT !.pc = h.pc, !.same = same]
        BY DEF HandlerType
    <2>2. h.pc \in Pcs
        BY DEF HandlerType
    <2>. QED BY <1>1, <2>1, <2>2 DEF Follows, Goes
<1>2. h.same \in BOOLEAN /\ [h EXCEPT !.same = h.same] = h
    BY DEF HandlerType
<1>. QED BY <1>1, <1>2

LEMMA FollowsOn ==
    ASSUME NEW h \in HandlerType, NEW pc \in Pcs, Goes(h, pc)
    PROVE  Follows(h, [h EXCEPT !.pc = pc])
<1>1. h.same \in BOOLEAN /\ [h EXCEPT !.pc = pc] = [h EXCEPT !.pc = pc, !.same = h.same]
    BY DEF HandlerType
<1>. QED BY <1>1 DEF Follows

LEMMA FollowStay == ASSUME HandlersInv, UNCHANGED deletes PROVE HandlersFollow
BY FollowsSelf DEF HandlersInv, HandlersFollow

LEMMA FollowEnd ==
    ASSUME HandlersInv, NEW k \in DOMAIN deletes, Ends(k)
    PROVE  HandlersFollow
BY FollowsSelf DEF HandlersInv, HandlersFollow, Ends, Follows

LEMMA FollowGoes ==
    ASSUME HandlersInv, NEW k \in DOMAIN deletes, NEW pc \in Pcs, Goes(deletes[k], pc),
           deletes' = [deletes EXCEPT ![k].pc = pc]
    PROVE  HandlersFollow
<1>1. deletes' = [deletes EXCEPT ![k] = [deletes[k] EXCEPT !.pc = pc]]
    OBVIOUS
<1>2. Follows(deletes[k], [deletes[k] EXCEPT !.pc = pc])
    BY FollowsOn DEF HandlersInv
<1>. QED BY <1>1, <1>2, FollowsSelf DEF HandlersInv, HandlersFollow

LEMMA FollowSome ==
    ASSUME HandlersInv, DOMAIN deletes' = DOMAIN deletes,
           \A k \in DOMAIN deletes : deletes'[k] = deletes[k] \/ deletes'[k] = Ended
    PROVE  HandlersFollow
<1>1. ASSUME NEW k \in DOMAIN deletes PROVE Follows(deletes[k], deletes'[k])
    BY FollowsSelf DEF HandlersInv, Follows
<1>. QED BY <1>1 DEF HandlersFollow

LEMMA FollowForget ==
    ASSUME HandlersInv, NEW same \in [DOMAIN deletes -> BOOLEAN],
           deletes' = [k \in DOMAIN deletes |-> [deletes[k] EXCEPT !.same = same[k]]],
           \A k \in DOMAIN deletes : same[k] => deletes[k].same
    PROVE  HandlersFollow
<1>1. ASSUME NEW k \in DOMAIN deletes PROVE Follows(deletes[k], deletes'[k])
    <2>1. same[k] \in BOOLEAN /\ deletes'[k] = [deletes[k] EXCEPT !.same = same[k]]
        OBVIOUS
    <2>. QED BY <2>1, FollowsSelf DEF HandlersInv
<1>. QED BY <1>1 DEF HandlersFollow

LEMMA FollowForgetCaptures ==
    ASSUME HandlersInv, NEW id, deletes' = ForgetCaptures(id)
    PROVE  /\ HandlersFollow /\ DOMAIN deletes' = DOMAIN deletes
           /\ \A k \in DOMAIN deletes :
                 Holds(deletes'[k]) /\ deletes'[k].same => deletes[k].id # id
<1>. DEFINE same == [k \in DOMAIN deletes |->
                        deletes[k].same /\ ~ (deletes[k].id = id /\ deletes[k].pc = "delete")]
<1>1. \A k \in DOMAIN deletes : deletes[k] \in HandlerType
    BY DEF HandlersInv
<1>2. \A k \in DOMAIN deletes : DOMAIN deletes[k] = HandlerFields
    BY <1>1 DEF HandlerType, HandlerFields
<1>3. deletes' = [k \in DOMAIN deletes |-> [deletes[k] EXCEPT !.same = same[k]]]
    BY <1>2, Zenon DEF ForgetCaptures
<1>4. /\ same \in [DOMAIN deletes -> BOOLEAN]
      /\ \A k \in DOMAIN deletes : same[k] => deletes[k].same
                                  /\ ~ (deletes[k].id = id /\ deletes[k].pc = "delete")
    OBVIOUS
<1>. HIDE DEF same
<1>5. HandlersFollow
    BY <1>3, <1>4, FollowForget
<1>6. \A k \in DOMAIN deletes : deletes'[k].same = same[k] /\ deletes'[k].pc = deletes[k].pc
    BY <1>1, <1>3 DEF HandlerType
<1>. QED BY <1>3, <1>4, <1>5, <1>6 DEF Holds

LEMMA FollowAsk ==
    ASSUME UndoInv, HandlersInv, NEW id \in DOMAIN rows,
           NEW h \in {Handler(id), [Handler(id) EXCEPT !.pc = "capture"]},
           deletes' = Append(deletes, h), id \in Nat
    PROVE  HandlersFollow
<1>. DEFINE n == Len(deletes)
<1>1. n \in Nat /\ deletes = [k \in 1..n |-> deletes[k]] /\ DOMAIN deletes = 1..n
    BY DEF UndoInv, Shape
<1>2. deletes \in Seq(HandlerType) /\ h \in HandlerType
    <2>1. deletes \in [1..n -> HandlerType]
        BY <1>1, Zenon DEF HandlersInv
    <2>2. h \in HandlerType
        BY HandlerTyped
    <2>. QED BY <1>1, <2>1, <2>2, SeqDef
<1>3. /\ deletes' \in Seq(HandlerType) /\ Len(deletes') = n + 1
      /\ \A k \in 1..n : deletes'[k] = deletes[k]
      /\ deletes'[n + 1] = h
    BY <1>2, AppendProperties
<1>4. DOMAIN deletes' = 1..(n + 1)
    BY <1>1, <1>3, LenProperties
<1>. HIDE DEF n
<1>5. \A k \in DOMAIN deletes : Follows(deletes[k], deletes'[k])
    BY <1>1, <1>3, FollowsSelf DEF HandlersInv
<1>6. \A k \in DOMAIN deletes' : k \in DOMAIN deletes \/ k = n + 1
    BY <1>1, <1>4
<1>7. DOMAIN deletes \subseteq DOMAIN deletes'
    BY <1>1, <1>4
<1>. QED BY <1>3, <1>5, <1>6, <1>7 DEF HandlersFollow, Asks
-----------------------------------------------------------------------------
(* What a step has to do for PageInv, and the actions one by one *)

Kept == ServerInv' /\ SwitchInv' /\ HandlersFollow /\ CapturesHold

LEMMA PageKept == ASSUME PageInv, UndoInv', Kept PROVE PageInv'
<1>1. DOMAIN rows \subseteq Nat
    BY TableRows DEF PageInv, SwitchInv, RowsInv
<1>2. HandlersInv'
    BY <1>1, HandlersKept DEF PageInv, Kept
<1>3. RestoreInv'
    BY RestoreKept DEF PageInv, Kept
<1>. QED BY <1>2, <1>3 DEF PageInv, Kept

LEMMA ServerSame == ASSUME ServerInv, UNCHANGED server PROVE ServerInv'
BY DEF ServerInv, server, ScheduleType, LinkTables

LEMMA CapturesSame == ASSUME UNCHANGED schedules PROVE CapturesHold
BY DEF CapturesHold

LEMMA TogglesSame == ASSUME TogglesInv, UNCHANGED <<rows, toggles>> PROVE TogglesInv'
BY DEF TogglesInv

LEMMA SwitchSame ==
    ASSUME SwitchInv, EndedStay, StillEnabled({}), UNCHANGED <<here, rows, toggles, lists>>
    PROVE  SwitchInv'
<1>1. Lags({}, rows, rows')
    BY LagsNot DEF SwitchInv, RowsInv
<1>2. RowsInv'
    BY <1>1, RowsLag DEF SwitchInv
<1>3. ListsInv'
    BY ListsStay DEF SwitchInv
<1>. QED BY <1>2, <1>3, TogglesSame DEF SwitchInv

\* A step that only moves a handler or the dialog.
LEMMA HandlerOnly ==
    ASSUME PageInv, HandlersFollow, UNCHANGED <<server, here, rows, toggles, lists>>
    PROVE  Kept
<1>1. UNCHANGED server /\ UNCHANGED schedules /\ UNCHANGED <<here, rows, toggles, lists>>
    BY DEF server
<1>2. EndedStay /\ StillEnabled({})
    BY <1>1, FollowEnds, StillUnchanged DEF PageInv
<1>. QED BY <1>1, <1>2, ServerSame, CapturesSame, SwitchSame DEF PageInv, Kept

LEMMA ToggleKept == ASSUME PageInv, NEW id, Toggle(id) PROVE Kept
<1>1. /\ id \in DOMAIN rows /\ ~ rows[id].busy
      /\ rows' = [rows EXCEPT ![id].shown = ~ @, ![id].busy = TRUE]
      /\ toggles' = toggles \cup
            {[n |-> used'.toggles, id |-> id, enabled |-> ~ rows[id].shown, current |-> TRUE]}
      /\ UNCHANGED server /\ UNCHANGED schedules /\ UNCHANGED deletes
      /\ lists' = lists /\ here' = here
      /\ here
    BY DEF Toggle, server
<1>2. HandlersFollow /\ EndedStay /\ StillEnabled({}) /\ CapturesHold /\ ServerInv'
    BY <1>1, FollowStay, FollowEnds, StillUnchanged, CapturesSame, ServerSame DEF PageInv
<1>3. ListsInv'
    BY <1>1, <1>2, ListsStay DEF PageInv, SwitchInv
<1>4. /\ rows \in Tables /\ DOMAIN rows \subseteq Nat
      /\ \A i \in DOMAIN rows : rows[i] \in RowType
    BY TableRows DEF PageInv, SwitchInv, RowsInv
<1>5. /\ DOMAIN rows' = DOMAIN rows
      /\ \A i \in DOMAIN rows : i # id => rows'[i] = rows[i]
      /\ rows'[id] = [shown |-> ~ rows[id].shown, busy |-> TRUE, sure |-> rows[id].sure]
    BY <1>1, <1>4 DEF RowType
<1>6. rows' \in Tables
    <2>1. \A i \in DOMAIN rows : rows'[i] \in RowType
        BY <1>1, <1>4, <1>5 DEF RowType
    <2>2. rows' = [i \in DOMAIN rows |-> rows'[i]]
        BY <1>1
    <2>. QED BY <1>4, <2>1, <2>2, TableOfRows
<1>7. Shows(rows', schedules')
    <2>1. \A i \in DOMAIN schedules : schedules[i].enabled \in BOOLEAN
        BY DEF PageInv, ServerInv, ScheduleType
    <2>2. schedules' = schedules /\ Shows(rows, schedules)
        BY <1>1 DEF PageInv, SwitchInv, RowsInv
    <2>3. rows[id].shown \in BOOLEAN
        BY <1>1, <1>4 DEF RowType
    <2>. QED BY <1>1, <1>5, <2>1, <2>2, <2>3 DEF Shows
<1>8. \A i \in DOMAIN rows' : Given(i)'
    BY <1>2, <1>5, GivenKept DEF PageInv, SwitchInv, RowsInv
<1>9. RowsInv'
    BY <1>1, <1>6, <1>7, <1>8 DEF PageInv, SwitchInv, RowsInv, Shows
<1>10. TogglesInv'
    <2>. DEFINE new == [n |-> used'.toggles, id |-> id, enabled |-> ~ rows[id].shown,
                        current |-> TRUE]
    <2>1. ToggleShape(new) /\ new.id = id /\ new.enabled = rows'[id].shown /\ rows'[id].busy
        BY <1>5 DEF ToggleShape
    <2>2. toggles' = toggles \cup {new}
        BY <1>1
    <2>3. \A t \in toggles : t.current => t.id # id
        BY <1>1 DEF PageInv, SwitchInv, TogglesInv
    <2>. HIDE DEF new
    <2>. QED BY <1>1, <1>5, <2>1, <2>2, <2>3 DEF PageInv, SwitchInv, TogglesInv
<1>. QED BY <1>2, <1>3, <1>9, <1>10 DEF SwitchInv, Kept

LEMMA AskKept == ASSUME PageInv, NEW id, Ask(id) PROVE Kept
<1>1. id \in DOMAIN rows /\ UNCHANGED <<server, here, rows, toggles, lists>>
    BY DEF Ask
<1>2. id \in Nat
    BY <1>1, TableRows DEF PageInv, SwitchInv, RowsInv
<1>3. PICK h \in {Handler(id), [Handler(id) EXCEPT !.pc = "capture"]} :
        deletes' = Append(deletes, h)
    BY DEF Ask
<1>4. HandlersFollow
    BY <1>1, <1>2, <1>3, FollowAsk DEF PageInv
<1>. QED BY <1>1, <1>4, HandlerOnly

\* The answer of a request whose switch is still in the page.
LEMMA RowAnswered ==
    ASSUME SwitchInv, EndedStay, NEW t \in toggles, t.current, NEW r \in RowType, ~ r.busy,
           rows' = [rows EXCEPT ![t.id] = r], here' = here, toggles' = toggles \ {t},
           StillEnabled({t.id}),
           t.id \in DOMAIN schedules' /\ r.sure => r.shown = schedules'[t.id].enabled
    PROVE  RowsInv' /\ TogglesInv'
<1>1. /\ rows \in Tables /\ DOMAIN rows \subseteq Nat /\ t.id \in DOMAIN rows
      /\ \A i \in DOMAIN rows : rows[i] \in RowType
    BY TableRows DEF SwitchInv, RowsInv, TogglesInv
<1>2. /\ DOMAIN rows' = DOMAIN rows /\ rows'[t.id] = r
      /\ \A i \in DOMAIN rows : i # t.id => rows'[i] = rows[i]
    BY <1>1
<1>3. rows' \in Tables
    <2>1. \A i \in DOMAIN rows : rows'[i] \in RowType
        BY <1>1, <1>2
    <2>2. rows' = [i \in DOMAIN rows |-> rows'[i]]
        OBVIOUS
    <2>. QED BY <1>1, <2>1, <2>2, TableOfRows
<1>4. Shows(rows', schedules')
    BY <1>2 DEF Shows, StillEnabled, SwitchInv, RowsInv
<1>5. \A i \in DOMAIN rows' : Given(i)'
    BY <1>2, GivenKept DEF SwitchInv, RowsInv
<1>6. RowsInv'
    BY <1>2, <1>3, <1>4, <1>5 DEF SwitchInv, RowsInv, Shows
<1>7. \A u \in toggles' : u \in toggles /\ (u.current => u.id # t.id)
    BY DEF SwitchInv, TogglesInv
<1>8. TogglesInv'
    BY <1>2, <1>7 DEF SwitchInv, TogglesInv
<1>. QED BY <1>6, <1>8

LEMMA AnswerToggleKept ==
    ASSUME PageInv, NEW t \in toggles, NEW done \in BOOLEAN, NEW answered \in BOOLEAN,
           AnswerToggle(t, done, answered)
    PROVE  Kept
<1>. DEFINE r == [shown |-> IF answered THEN rows[t.id].shown ELSE ~ t.enabled, busy |-> FALSE,
                  sure |-> answered \/ (rows[t.id].sure /\ ~ done)]
<1>1. /\ answered => done
      /\ toggles' = toggles \ {t} /\ here' = here /\ devices' = devices
      /\ t.current => rows' = [rows EXCEPT ![t.id] = r]
    BY Zenon DEF AnswerToggle, Outcome, Settle
<1>2. t.enabled \in BOOLEAN /\ \A i \in DOMAIN schedules : schedules[i].enabled \in BOOLEAN
    BY DEF PageInv, SwitchInv, TogglesInv, ToggleShape, ServerInv, ScheduleType
<1>3. t.current => /\ t.id \in DOMAIN rows /\ rows[t.id].busy /\ t.enabled = rows[t.id].shown
                   /\ rows[t.id] \in RowType
    BY TableRows DEF PageInv, SwitchInv, RowsInv, TogglesInv
<1>4. rows \in Tables
    BY DEF PageInv, SwitchInv, RowsInv
<1>5. CASE done
    <2>1. /\ t.id \in DOMAIN schedules /\ schedules' = UpdateSchedule(t.id, t.enabled)
          /\ lists' = [k \in DOMAIN lists |-> Unsure(t.id, lists[k])]
          /\ deletes' = ForgetCaptures(t.id)
          /\ ~ t.current => rows' = Unsure(t.id, rows)
        BY <1>5 DEF AnswerToggle, UpdateAccepted
    <2>2. Updates(t.id)
        BY <1>1, <1>2, <2>1 DEF Updates
    <2>3. ServerInv' /\ StillEnabled({t.id})
        BY <2>2, ServerUpdates, StillUpdates DEF PageInv
    <2>4. /\ HandlersFollow
          /\ \A k \in DOMAIN deletes :
                Holds(deletes'[k]) /\ deletes'[k].same => deletes[k].id # t.id
        BY <2>1, FollowForgetCaptures DEF PageInv
    <2>5. EndedStay
        BY <2>4, FollowEnds DEF PageInv
    <2>6. /\ DOMAIN schedules' = DOMAIN schedules /\ schedules'[t.id].enabled = t.enabled
          /\ \A i \in DOMAIN schedules : i # t.id => schedules'[i] = schedules[i]
        BY <1>2, <2>1, UpdatedSchedule DEF PageInv
    <2>7. CapturesHold
        BY <2>4, <2>6 DEF CapturesHold
    <2>8. ListsInv'
        BY <2>1, <2>3, <2>5, ListsUnsure DEF PageInv, SwitchInv
    <2>9. RowsInv' /\ TogglesInv'
        <3>1. CASE t.current
            <4>1. /\ r \in RowType /\ ~ r.busy
                  /\ r.sure => r.shown = schedules'[t.id].enabled
                BY <1>2, <1>3, <1>5, <2>6, <3>1 DEF RowType
            <4>. HIDE DEF r
            <4>. QED BY <1>1, <2>3, <2>5, <3>1, <4>1, RowAnswered DEF PageInv
        <3>2. CASE ~ t.current
            <4>1. Lags({t.id}, rows, rows')
                BY <1>4, <2>1, <3>2, LagsOne
            <4>2. RowsInv'
                BY <1>1, <2>3, <2>5, <4>1, RowsLag DEF PageInv, SwitchInv
            <4>3. TogglesInv'
                BY <1>1, <4>1, TogglesLag DEF PageInv, SwitchInv
            <4>. QED BY <4>2, <4>3
        <3>. QED BY <3>1, <3>2
    <2>. QED BY <2>3, <2>4, <2>7, <2>8, <2>9 DEF SwitchInv, Kept
<1>6. CASE ~ done
    <2>1. /\ UNCHANGED schedules /\ lists' = lists /\ UNCHANGED deletes
          /\ ~ t.current => rows' = rows
        BY <1>6 DEF AnswerToggle
    <2>2. UNCHANGED server
        BY <1>1, <2>1 DEF server
    <2>3. /\ HandlersFollow /\ EndedStay /\ StillEnabled({}) /\ StillEnabled({t.id})
          /\ CapturesHold /\ ServerInv'
        BY <2>1, <2>2, FollowStay, FollowEnds, StillUnchanged, CapturesSame, ServerSame
           DEF PageInv, StillEnabled
    <2>4. ListsInv'
        BY <2>1, <2>3, ListsStay DEF PageInv, SwitchInv
    <2>5. RowsInv' /\ TogglesInv'
        <3>1. CASE t.current
            <4>1. Shows(rows, schedules)
                BY DEF PageInv, SwitchInv, RowsInv
            <4>2. /\ r \in RowType /\ ~ r.busy
                  /\ t.id \in DOMAIN schedules' /\ r.sure => r.shown = schedules'[t.id].enabled
                BY <1>1, <1>2, <1>3, <1>6, <2>1, <3>1, <4>1 DEF RowType, Shows
            <4>. HIDE DEF r
            <4>. QED BY <1>1, <2>3, <3>1, <4>2, RowAnswered DEF PageInv
        <3>2. CASE ~ t.current
            <4>1. Lags({}, rows, rows')
                BY <1>4, <2>1, <3>2, LagsNot
            <4>2. RowsInv'
                BY <1>1, <2>3, <4>1, RowsLag DEF PageInv, SwitchInv
            <4>3. TogglesInv'
                BY <1>1, <4>1, TogglesLag DEF PageInv, SwitchInv
            <4>. QED BY <4>2, <4>3
        <3>. QED BY <3>1, <3>2
    <2>. QED BY <2>3, <2>4, <2>5 DEF SwitchInv, Kept
<1>. QED BY <1>5, <1>6
\* The server renders the list once more.
LEMMA ListAppended ==
    ASSUME ListsInv, EndedStay, StillEnabled({}), NEW t \in Tables, lists' = Append(lists, t),
           Shows(t, schedules'), Rests(t), \A id \in DOMAIN t : Given(id)'
    PROVE  ListsInv'
<1>. DEFINE n == Len(lists)
<1>1. n \in Nat /\ DOMAIN lists = 1..n /\ lists \in Seq(Tables)
    BY LenProperties DEF ListsInv
<1>2. /\ lists' \in Seq(Tables) /\ Len(lists') = n + 1
      /\ \A k \in 1..n : lists'[k] = lists[k]
      /\ lists'[n + 1] = t
    BY <1>1, AppendProperties
<1>3. DOMAIN lists' = 1..(n + 1)
    BY <1>2, LenProperties
<1>. HIDE DEF n
<1>4. ASSUME NEW k \in DOMAIN lists'
      PROVE  /\ Shows(lists'[k], schedules') /\ Rests(lists'[k])
             /\ \A id \in DOMAIN lists'[k] : Given(id)'
    <2>1. k \in 1..n \/ k = n + 1
        BY <1>1, <1>3
    <2>2. CASE k \in 1..n
        <3>1. /\ Shows(lists[k], schedules) /\ Rests(lists[k]) /\ lists'[k] = lists[k]
              /\ \A id \in DOMAIN lists[k] : Given(id)
            BY <1>1, <1>2, <2>2 DEF ListsInv
        <3>2. lists[k] \in Tables
            BY <1>1, <2>2, ElementOfSeq
        <3>3. Shows(lists[k], schedules')
            BY <3>1, <3>2, LagsNot, TableLags
        <3>. QED BY <3>1, <3>3, GivenKept
    <2>3. CASE k = n + 1
        BY <1>2, <2>3
    <2>. QED BY <2>1, <2>2, <2>3
<1>. QED BY <1>2, <1>4 DEF ListsInv, Shows, Rests

LEMMA RefreshKept == ASSUME PageInv, Refresh PROVE Kept
<1>1. /\ UNCHANGED server /\ UNCHANGED schedules /\ UNCHANGED deletes
      /\ lists' = Append(lists, Rendered) /\ UNCHANGED <<here, rows, toggles>>
    BY DEF Refresh, server
<1>2. HandlersFollow /\ EndedStay /\ StillEnabled({}) /\ CapturesHold /\ ServerInv'
    BY <1>1, FollowStay, FollowEnds, StillUnchanged, CapturesSame, ServerSame DEF PageInv
<1>3. /\ Rendered \in Tables /\ DOMAIN Rendered = DOMAIN schedules
      /\ Shows(Rendered, schedules') /\ Rests(Rendered)
    BY <1>1, RenderedNow DEF PageInv
<1>4. \A id \in DOMAIN Rendered : Given(id)'
    BY <1>2, <1>3, GivenKept DEF PageInv, UndoInv
<1>5. ListsInv'
    BY <1>1, <1>2, <1>3, <1>4, ListAppended DEF PageInv, SwitchInv
<1>6. Lags({}, rows, rows')
    BY <1>1, LagsNot DEF PageInv, SwitchInv, RowsInv
<1>7. RowsInv' /\ TogglesInv'
    BY <1>1, <1>2, <1>6, RowsLag, TogglesSame DEF PageInv, SwitchInv
<1>. QED BY <1>2, <1>5, <1>7 DEF SwitchInv, Kept

\* No request refers to a row of a list that has been replaced.
LEMMA NoneCurrent ==
    ASSUME TogglesInv, toggles' = Replaced(DOMAIN rows)
    PROVE  TogglesInv'
<1>1. ASSUME NEW u \in toggles' PROVE ToggleShape(u) /\ ~ u.current
    <2>1. PICK t \in toggles : u = [t EXCEPT !.current = @ /\ t.id \notin DOMAIN rows]
        BY DEF Replaced
    <2>2. ToggleShape(t) /\ (t.current => t.id \in DOMAIN rows)
        BY DEF TogglesInv
    <2>. QED BY <2>1, <2>2 DEF ToggleShape
<1>. QED BY <1>1 DEF TogglesInv

LEMMA SwapKept == ASSUME PageInv, NEW k \in DOMAIN lists, Swap(k) PROVE Kept
<1>1. /\ UNCHANGED server /\ UNCHANGED schedules /\ UNCHANGED deletes
      /\ rows' = lists[k] /\ toggles' = Replaced(DOMAIN rows) /\ here /\ here' = here
      /\ lists' = SubSeq(lists, 1, k - 1) \o SubSeq(lists, k + 1, Len(lists))
    BY DEF Swap, server
<1>2. HandlersFollow /\ EndedStay /\ StillEnabled({}) /\ CapturesHold /\ ServerInv'
    BY <1>1, FollowStay, FollowEnds, StillUnchanged, CapturesSame, ServerSame DEF PageInv
<1>3. ListsInv
    BY DEF PageInv, SwitchInv
<1>4. DOMAIN lists = 1..Len(lists) /\ lists \in Seq(Tables)
    BY <1>3, LenProperties DEF ListsInv
<1>5. ASSUME NEW i \in DOMAIN lists
      PROVE  /\ lists[i] \in Tables /\ Shows(lists[i], schedules') /\ Rests(lists[i])
             /\ \A id \in DOMAIN lists[i] : Given(id)'
    <2>1. /\ Shows(lists[i], schedules) /\ Rests(lists[i])
          /\ \A id \in DOMAIN lists[i] : Given(id)
        BY <1>3 DEF ListsInv
    <2>2. lists[i] \in Tables
        BY <1>4, ElementOfSeq
    <2>. QED BY <1>1, <1>2, <2>1, <2>2, GivenKept
<1>6. lists' \in Seq(Tables) /\ \A j \in DOMAIN lists' : EntryOf(lists'[j], lists)
    BY <1>1, <1>4, WithoutOne
<1>7. ListsInv'
    <2>1. ASSUME NEW j \in DOMAIN lists' PROVE \E i \in DOMAIN lists : lists'[j] = lists[i]
        BY <1>4, <1>6 DEF EntryOf, EntryIn
    <2>2. ASSUME NEW j \in DOMAIN lists'
          PROVE  /\ Shows(lists'[j], schedules') /\ Rests(lists'[j])
                 /\ \A id \in DOMAIN lists'[j] : Given(id)'
        <3>1. PICK i \in DOMAIN lists : lists'[j] = lists[i]
            BY <2>1
        <3>. QED BY <1>5, <3>1
    <2>. QED BY <1>6, <2>2 DEF ListsInv, Shows, Rests
<1>8. RowsInv'
    BY <1>1, <1>5 DEF PageInv, SwitchInv, RowsInv, Shows
<1>9. TogglesInv'
    BY <1>1, NoneCurrent DEF PageInv, SwitchInv
<1>. QED BY <1>2, <1>7, <1>8, <1>9 DEF SwitchInv, Kept

LEMMA OkKept == ASSUME PageInv, Ok PROVE Kept
<1>1. dialog \in DOMAIN deletes /\ deletes[dialog].pc = "asking"
    BY DEF PageInv, UndoInv, DialogAsks, Ok
<1>2. "capture" \in Pcs /\ Goes(deletes[dialog], "capture")
    BY <1>1 DEF Pcs, Goes
<1>3. HandlersFollow
    BY <1>1, <1>2, FollowGoes DEF Ok, PageInv
<1>. QED BY <1>3, HandlerOnly DEF Ok, pageVars

LEMMA CancelKept == ASSUME PageInv, Cancel PROVE Kept
<1>1. dialog \in DOMAIN deletes
    BY DEF PageInv, UndoInv, DialogAsks, Cancel
<1>. QED BY <1>1, FollowEnd, HandlerOnly DEF Cancel, PageInv, pageVars

LEMMA TapUndoKept == ASSUME PageInv, NEW k \in DOMAIN deletes, TapUndo(k) PROVE Kept
<1>1. "restoring" \in Pcs /\ Goes(deletes[k], "restoring")
    BY DEF Pcs, Goes, TapUndo
<1>2. HandlersFollow
    BY <1>1, FollowGoes DEF TapUndo, ToastGoes, GoesOn, PageInv
<1>. QED BY <1>2, HandlerOnly DEF TapUndo, pageVars

LEMMA ExpireKept == ASSUME PageInv, NEW k \in DOMAIN deletes, Expire(k) PROVE Kept
BY FollowEnd, HandlerOnly DEF Expire, PageInv, pageVars

\* The page is left, and shown again.
LEMMA LeaveKept == ASSUME PageInv, Leave PROVE Kept
<1>1. /\ UNCHANGED server /\ UNCHANGED schedules /\ here' = FALSE
      /\ rows' = <<>> /\ lists' = <<>> /\ toggles' = Replaced(DOMAIN rows)
      /\ deletes' = [k \in DOMAIN deletes |-> Disconnected(deletes[k])]
    BY DEF Leave, server
<1>2. HandlersFollow
    <2>1. \A k \in DOMAIN deletes : deletes'[k] = deletes[k] \/ deletes'[k] = Ended
        BY <1>1 DEF Disconnected
    <2>. QED BY <1>1, <2>1, FollowSome DEF PageInv
<1>3. CapturesHold /\ ServerInv'
    BY <1>1, CapturesSame, ServerSame DEF PageInv
<1>4. rows' \in Tables /\ DOMAIN rows' = {}
    <2>1. <<>> \in [{} -> RowType]
        OBVIOUS
    <2>. QED BY <1>1, <2>1, TableOfRows
<1>5. RowsInv'
    BY <1>1, <1>4 DEF RowsInv, Shows
<1>6. lists' \in Seq(Tables) /\ DOMAIN lists' = {}
    BY <1>1
<1>7. ListsInv'
    BY <1>6 DEF ListsInv
<1>8. TogglesInv'
    BY <1>1, NoneCurrent DEF PageInv, SwitchInv
<1>. QED BY <1>2, <1>3, <1>5, <1>7, <1>8 DEF SwitchInv, Kept

LEMMA ReturnKept == ASSUME PageInv, Return PROVE Kept
<1>1. /\ UNCHANGED server /\ UNCHANGED schedules /\ ~ here /\ here' = TRUE
      /\ rows' = Rendered /\ lists' = lists /\ toggles' = toggles
      /\ deletes' = [k \in DOMAIN deletes |->
                        IF deletes[k].pc = "offered" THEN Ended ELSE deletes[k]]
    BY DEF Return, server
<1>2. HandlersFollow
    <2>1. \A k \in DOMAIN deletes : deletes'[k] = deletes[k] \/ deletes'[k] = Ended
        BY <1>1
    <2>. QED BY <1>1, <2>1, FollowSome DEF PageInv
<1>3. CapturesHold /\ ServerInv' /\ EndedStay /\ StillEnabled({})
    BY <1>1, <1>2, CapturesSame, ServerSame, FollowEnds, StillUnchanged DEF PageInv
<1>4. /\ Rendered \in Tables /\ DOMAIN Rendered = DOMAIN schedules
      /\ Shows(Rendered, schedules)
    BY RenderedNow DEF PageInv
<1>5. \A id \in DOMAIN rows' : Given(id)'
    BY <1>1, <1>3, <1>4, GivenKept DEF PageInv, UndoInv
<1>6. RowsInv'
    BY <1>1, <1>4, <1>5 DEF RowsInv, Shows
<1>7. ListsInv'
    BY <1>1, <1>3, ListsStay DEF PageInv, SwitchInv
<1>8. \A t \in toggles : ~ t.current
    BY <1>1 DEF PageInv, SwitchInv, RowsInv, TogglesInv
<1>9. TogglesInv'
    BY <1>1, <1>8 DEF PageInv, SwitchInv, TogglesInv
<1>. QED BY <1>2, <1>3, <1>6, <1>7, <1>9 DEF SwitchInv, Kept
\* Another client: whatever it writes, the rows of the schedule are unsure.
LEMMA OtherKept ==
    ASSUME PageInv, NEW id, ServerInv', StillEnabled({id}),
           rows' = Unsure(id, rows), lists' = [k \in DOMAIN lists |-> Unsure(id, lists[k])],
           deletes' = ForgetCaptures(id), UNCHANGED <<here, toggles>>,
           \A i \in DOMAIN schedules' :
              i # id => i \in DOMAIN schedules /\ schedules'[i] = schedules[i]
    PROVE  Kept
<1>1. /\ HandlersFollow
      /\ \A k \in DOMAIN deletes : Holds(deletes'[k]) /\ deletes'[k].same => deletes[k].id # id
    BY FollowForgetCaptures DEF PageInv
<1>2. EndedStay
    BY <1>1, FollowEnds DEF PageInv
<1>3. CapturesHold
    BY <1>1 DEF CapturesHold
<1>4. Lags({id}, rows, rows')
    BY LagsOne DEF PageInv, SwitchInv, RowsInv
<1>5. RowsInv'
    BY <1>2, <1>4, RowsLag DEF PageInv, SwitchInv
<1>6. TogglesInv'
    BY <1>4, TogglesLag DEF PageInv, SwitchInv
<1>7. ListsInv'
    BY <1>2, ListsUnsure DEF PageInv, SwitchInv
<1>. QED BY <1>1, <1>3, <1>5, <1>6, <1>7 DEF SwitchInv, Kept

LEMMA OtherTogglesKept == ASSUME PageInv, NEW id, OtherToggles(id) PROVE Kept
<1>1. /\ id \in DOMAIN schedules /\ devices' = devices
      /\ schedules' = UpdateSchedule(id, ~ schedules[id].enabled)
    BY DEF OtherToggles, OtherWrites, UpdateAccepted
<1>2. (~ schedules[id].enabled) \in BOOLEAN
    OBVIOUS
<1>3. Updates(id)
    BY <1>1, <1>2 DEF Updates
<1>4. ServerInv' /\ StillEnabled({id})
    BY <1>3, ServerUpdates, StillUpdates DEF PageInv
<1>5. \A i \in DOMAIN schedules' :
          i # id => i \in DOMAIN schedules /\ schedules'[i] = schedules[i]
    BY <1>1, <1>2, UpdatedSchedule DEF PageInv
<1>. QED BY <1>4, <1>5, OtherKept DEF OtherToggles, OtherWrites

LEMMA OtherDeletesKept == ASSUME PageInv, NEW id, OtherDeletes(id) PROVE Kept
<1>1. Removes(id)
    BY DEF OtherDeletes, OtherWrites, Removes
<1>2. ServerInv' /\ StillEnabled({})
    BY <1>1, ServerRemoves, StillRemoves DEF PageInv
<1>3. StillEnabled({id})
    BY <1>2 DEF StillEnabled
<1>4. \A i \in DOMAIN schedules' :
          i # id => i \in DOMAIN schedules /\ schedules'[i] = schedules[i]
    BY <1>1 DEF Removes, Restrict
<1>. QED BY <1>2, <1>3, <1>4, OtherKept DEF OtherDeletes, OtherWrites

LEMMA RemoveDeviceKept == ASSUME PageInv, NEW d, RemoveDevice(d) PROVE Kept
<1>. DEFINE same == [k \in DOMAIN deletes |-> deletes[k].same /\ deletes[k].pc # "delete"]
<1>1. Unlinks
    BY Zenon DEF RemoveDevice, Unlinks
<1>2. ServerInv' /\ StillEnabled({})
    BY <1>1, ServerUnlinks, StillUnlinks DEF PageInv
<1>3. \A k \in DOMAIN deletes : deletes[k] \in HandlerType
    BY DEF PageInv, HandlersInv
<1>4. \A k \in DOMAIN deletes : DOMAIN deletes[k] = HandlerFields
    BY <1>3 DEF HandlerType, HandlerFields
<1>5. deletes' = [k \in DOMAIN deletes |-> [deletes[k] EXCEPT !.same = same[k]]]
    BY <1>4, Zenon DEF RemoveDevice
<1>6. /\ same \in [DOMAIN deletes -> BOOLEAN]
      /\ \A k \in DOMAIN deletes : same[k] => deletes[k].same /\ deletes[k].pc # "delete"
    OBVIOUS
<1>. HIDE DEF same
<1>7. HandlersFollow
    BY <1>5, <1>6, FollowForget DEF PageInv
<1>8. \A k \in DOMAIN deletes : deletes'[k].same = same[k] /\ deletes'[k].pc = deletes[k].pc
    BY <1>3, <1>5 DEF HandlerType
<1>9. CapturesHold
    BY <1>6, <1>8 DEF CapturesHold, Holds
<1>10. SwitchInv'
    BY <1>2, <1>7, FollowEnds, SwitchSame DEF RemoveDevice, PageInv, pageVars
<1>. QED BY <1>2, <1>7, <1>9, <1>10 DEF Kept

\* The snapshot is of the schedule as it is; only its own handler holds it.
LEMMA CapturePage ==
    ASSUME PageInv, UndoInv', NEW k \in DOMAIN deletes, NEW ok \in BOOLEAN, Capture(k, ok)
    PROVE  PageInv'
<1>. DEFINE id == deletes[k].id
            new == IF ok THEN Snapshot(id) ELSE NoSnapshot
            h == [deletes[k] EXCEPT !.pc = "delete", !.same = TRUE, !.snapshot = new]
<1>1. /\ deletes' = [deletes EXCEPT ![k] = h] /\ deletes[k].pc = "capture"
      /\ UNCHANGED server /\ UNCHANGED schedules /\ UNCHANGED pageVars
      /\ ok => id \in DOMAIN schedules
    BY DEF Capture, server
<1>2. deletes[k] \in HandlerType
    BY DEF PageInv, HandlersInv
<1>3. /\ new \in Captures \cup {NoSnapshot}
      /\ new # NoSnapshot => InEffect(new) /\ ok
    BY <1>1, SnapshotType DEF PageInv
<1>4. ok => new = SnapshotOf(schedules[id])
    BY SnapshotNow
<1>. HIDE DEF new
<1>5. /\ h \in HandlerType /\ h.pc = "delete" /\ h.id = id /\ h.snapshot = new
    BY <1>2, <1>3 DEF HandlerType, Pcs
<1>. HIDE DEF h
<1>6. /\ DOMAIN deletes' = DOMAIN deletes /\ deletes'[k] = h
      /\ \A j \in DOMAIN deletes : j # k => deletes'[j] = deletes[j]
    BY <1>1
<1>7. HandlersInv'
    <2>1. \A j \in DOMAIN deletes :
             /\ deletes'[j] \in HandlerType
             /\ deletes'[j].snapshot # NoSnapshot => InEffect(deletes'[j].snapshot)
        BY <1>3, <1>5, <1>6 DEF PageInv, HandlersInv
    <2>. QED BY <1>6, <2>1
             DEF HandlersInv, InEffect, NoSnapshot, HandlerType, Captures, TablesOver
<1>8. RestoreInv'
    <2>1. ~ Pending(h) /\ (Holds(h) /\ h.id \in DOMAIN schedules
                           => SnapshotOf(schedules[h.id]) = h.snapshot)
        BY <1>3, <1>4, <1>5 DEF Pending, Holds
    <2>2. ASSUME NEW j \in DOMAIN deletes
          PROVE  LET g == deletes'[j] IN
                 /\ Holds(g) /\ g.same /\ g.id \in DOMAIN schedules'
                    => SnapshotOf(schedules'[g.id]) = g.snapshot
                 /\ Pending(g) => g.snapshot # NoSnapshot
                 /\ Pending(g) /\ g.same => g.was = g.snapshot
        <3>1. CASE j = k
            BY <1>1, <1>6, <2>1, <3>1
        <3>2. CASE j # k
            BY <1>1, <1>6, <3>2 DEF PageInv, RestoreInv
        <3>. QED BY <3>1, <3>2
    <2>. QED BY <1>6, <2>2 DEF RestoreInv, Holds, Pending, NoSnapshot, SnapshotOf
<1>9. ServerInv' /\ SwitchInv'
    <2>1. EndedStay
        BY <1>1, <1>6 DEF EndedStay
    <2>. QED BY <1>1, <2>1, ServerSame, SwitchSame, StillUnchanged DEF PageInv, pageVars
<1>. QED BY <1>7, <1>8, <1>9 DEF PageInv

\* What the DELETE does to the schedules and the page, whatever the handler does next.
LEMMA DeleteSwitch ==
    ASSUME PageInv, EndedStay, NEW k, NEW done \in BOOLEAN, NEW answered \in BOOLEAN,
           Delete(k, done, answered)
    PROVE  /\ ServerInv' /\ SwitchInv'
           /\ \A i \in DOMAIN schedules' : i \in DOMAIN schedules /\ schedules'[i] = schedules[i]
<1>. DEFINE id == deletes[k].id
<1>1. /\ devices' = devices /\ here' = here /\ lists' = lists
      /\ schedules' = IF done THEN Restrict(schedules, DOMAIN schedules \ {id}) ELSE schedules
      /\ IF answered /\ k \in attached
         THEN rows' = Restrict(rows, DOMAIN rows \ {id}) /\ toggles' = Replaced({id})
         ELSE UNCHANGED <<rows, toggles>>
    BY DEF Delete
<1>2. ServerInv' /\ StillEnabled({})
    <2>1. CASE done
        BY <1>1, <2>1, ServerRemoves, StillRemoves DEF PageInv, Removes
    <2>2. CASE ~ done
        BY <1>1, <2>2, ServerSame, StillUnchanged DEF PageInv, server
    <2>. QED BY <2>1, <2>2
<1>3. \A i \in DOMAIN schedules' : i \in DOMAIN schedules /\ schedules'[i] = schedules[i]
    BY <1>1 DEF Restrict
<1>4. ListsInv'
    BY <1>1, <1>2, ListsStay DEF PageInv, SwitchInv
<1>5. CASE ~ (answered /\ k \in attached)
    <2>1. Lags({}, rows, rows')
        BY <1>1, <1>5, LagsNot DEF PageInv, SwitchInv, RowsInv
    <2>2. RowsInv'
        BY <1>1, <1>2, <2>1, RowsLag DEF PageInv, SwitchInv
    <2>3. TogglesInv'
        BY <1>1, <1>5, TogglesSame DEF PageInv, SwitchInv
    <2>. QED BY <1>2, <1>3, <1>4, <2>2, <2>3 DEF SwitchInv
<1>6. CASE answered /\ k \in attached
    <2>1. /\ DOMAIN rows' = DOMAIN rows \ {id}
          /\ rows' = [i \in DOMAIN rows \ {id} |-> rows[i]]
        BY <1>1, <1>6 DEF Restrict
    <2>2. DOMAIN rows \subseteq Nat /\ \A i \in DOMAIN rows : rows[i] \in RowType
        BY TableRows DEF PageInv, SwitchInv, RowsInv
    <2>3. rows' \in Tables
        BY <2>1, <2>2, TableOfRows
    <2>4. Shows(rows', schedules')
        BY <1>2, <2>1 DEF PageInv, SwitchInv, RowsInv, Shows, StillEnabled
    <2>5. \A i \in DOMAIN rows' : Given(i)'
        BY <2>1, GivenKept DEF PageInv, SwitchInv, RowsInv
    <2>12. here' \in BOOLEAN /\ (~ here' => DOMAIN rows' = {})
        BY <1>1, <2>1 DEF PageInv, SwitchInv, RowsInv
    <2>6. RowsInv'
        BY <2>3, <2>4, <2>5, <2>12 DEF RowsInv
    <2>7. ASSUME NEW t \in toggles
          PROVE  LET u == [t EXCEPT !.current = @ /\ t.id \notin {id}] IN
                 /\ ToggleShape(u) /\ u.id = t.id /\ u.enabled = t.enabled
                 /\ u.current <=> t.current /\ t.id # id
        BY DEF PageInv, SwitchInv, TogglesInv, ToggleShape
    <2>8. ASSUME NEW u \in toggles'
          PROVE  \E t \in toggles : u = [t EXCEPT !.current = @ /\ t.id \notin {id}]
        BY <1>1, <1>6 DEF Replaced
    <2>9. ASSUME NEW u \in toggles'
          PROVE  /\ ToggleShape(u)
                 /\ u.current => u.id \in DOMAIN rows' /\ rows'[u.id].busy
                                 /\ u.enabled = rows'[u.id].shown
        <3>1. PICK t \in toggles : u = [t EXCEPT !.current = @ /\ t.id \notin {id}]
            BY <2>8
        <3>2. t.current => t.id \in DOMAIN rows /\ rows[t.id].busy /\ t.enabled = rows[t.id].shown
            BY DEF PageInv, SwitchInv, TogglesInv
        <3>. QED BY <2>1, <2>7, <3>1, <3>2
    <2>10. ASSUME NEW u \in toggles', NEW v \in toggles', u.current, v.current, u.id = v.id
           PROVE  u = v
        <3>1. PICK t \in toggles : u = [t EXCEPT !.current = @ /\ t.id \notin {id}]
            BY <2>8
        <3>2. PICK s \in toggles : v = [s EXCEPT !.current = @ /\ s.id \notin {id}]
            BY <2>8
        <3>3. t.current /\ s.current /\ t.id = s.id
            BY <2>7, <2>10, <3>1, <3>2
        <3>4. t = s
            BY <3>3 DEF PageInv, SwitchInv, TogglesInv
        <3>. QED BY <3>1, <3>2, <3>4
    <2>11. TogglesInv'
        BY <2>9, <2>10 DEF TogglesInv
    <2>. QED BY <1>2, <1>3, <1>4, <2>6, <2>11 DEF SwitchInv
<1>. QED BY <1>5, <1>6

\* With an answer and a snapshot Undo is offered, for what was deleted.
LEMMA DeletePage ==
    ASSUME PageInv, UndoInv', NEW k \in DOMAIN deletes,
           NEW done \in BOOLEAN, NEW answered \in BOOLEAN, Delete(k, done, answered)
    PROVE  PageInv'
<1>. DEFINE id == deletes[k].id
            was == IF done THEN Snapshot(id) ELSE NoSnapshot
            h == [deletes[k] EXCEPT !.pc = "offered", !.was = was]
            offers == answered /\ deletes[k].snapshot # NoSnapshot
<1>1. /\ deletes[k].pc = "delete" /\ (answered => done)
      /\ done => id \in DOMAIN schedules
      /\ IF offers THEN deletes' = [deletes EXCEPT ![k] = h] ELSE Ends(k)
    BY DEF Delete, Outcome, UndoOffered
<1>2. CASE ~ offers
    <2>1. HandlersFollow /\ EndedStay
        BY <1>1, <1>2, FollowEnd, FollowEnds DEF PageInv
    <2>2. Kept
        BY <2>1, DeleteSwitch DEF Kept, CapturesHold
    <2>. QED BY <2>2, PageKept
<1>3. CASE offers
    <2>1. deletes[k] \in HandlerType /\ InEffect(deletes[k].snapshot)
        BY <1>3 DEF PageInv, HandlersInv
    <2>2. was \in Captures /\ was = SnapshotOf(schedules[id]) /\ id \in DOMAIN schedules
        BY <1>1, <1>3, SnapshotType, SnapshotNow DEF PageInv
    <2>3. deletes[k].same => was = deletes[k].snapshot
        BY <1>1, <1>3, <2>2 DEF PageInv, RestoreInv, Holds
    <2>. HIDE DEF was
    <2>4. /\ h \in HandlerType /\ h.pc = "offered" /\ h.was = was
          /\ h.snapshot = deletes[k].snapshot /\ h.same = deletes[k].same
        BY <2>1, <2>2 DEF HandlerType, Pcs
    <2>. HIDE DEF h
    <2>5. /\ DOMAIN deletes' = DOMAIN deletes /\ deletes'[k] = h
          /\ \A j \in DOMAIN deletes : j # k => deletes'[j] = deletes[j]
        BY <1>1, <1>3
    <2>6. EndedStay
        BY <1>1, <2>5 DEF EndedStay
    <2>7. /\ ServerInv' /\ SwitchInv'
          /\ \A i \in DOMAIN schedules' : i \in DOMAIN schedules /\ schedules'[i] = schedules[i]
        BY <2>6, DeleteSwitch
    <2>8. HandlersInv'
        <3>1. \A j \in DOMAIN deletes :
                 /\ deletes'[j] \in HandlerType
                 /\ deletes'[j].snapshot # NoSnapshot => InEffect(deletes'[j].snapshot)
            BY <2>1, <2>4, <2>5 DEF PageInv, HandlersInv
        <3>. QED BY <2>5, <3>1
                 DEF HandlersInv, InEffect, NoSnapshot, HandlerType, Captures, TablesOver
    <2>9. ASSUME NEW j \in DOMAIN deletes
          PROVE  LET g == deletes'[j] IN
                 /\ Holds(g) /\ g.same /\ g.id \in DOMAIN schedules'
                    => SnapshotOf(schedules'[g.id]) = g.snapshot
                 /\ Pending(g) => g.snapshot # NoSnapshot
                 /\ Pending(g) /\ g.same => g.was = g.snapshot
        <3>1. CASE j = k
            BY <1>3, <2>3, <2>4, <2>5, <3>1 DEF Holds
        <3>2. CASE j # k
            BY <2>5, <2>7, <3>2 DEF PageInv, RestoreInv
        <3>. QED BY <3>1, <3>2
    <2>10. RestoreInv'
        BY <2>5, <2>9 DEF RestoreInv, Holds, Pending, NoSnapshot, SnapshotOf
    <2>. QED BY <2>7, <2>8, <2>10 DEF PageInv
<1>. QED BY <1>2, <1>3

\* An id that no schedule has had.
LEMMA NewIdIsNew ==
    ASSUME UndoInv, NEW k \in DOMAIN deletes, deletes[k].pc = "restoring"
    PROVE  ~ Given(NewId(k)) /\ k \in Nat
<1>1. k \in Nat /\ k >= 1 /\ DOMAIN deletes \subseteq Nat
    BY DEF UndoInv, Shape
<1>. QED BY <1>1 DEF Given, NewId, Originals

LEMMA RestorePageKept ==
    ASSUME PageInv, UndoInv', NEW k \in DOMAIN deletes,
           NEW done \in BOOLEAN, NEW answered \in BOOLEAN, Restore(k, done, answered)
    PROVE  Kept
<1>1. /\ deletes[k].pc = "restoring" /\ Ends(k) /\ (answered => done)
      /\ UNCHANGED <<devices, here, rows, toggles>>
      /\ lists' = IF answered /\ here THEN Append(lists, Rendered') ELSE lists
    BY DEF Restore, Outcome
<1>2. HandlersFollow /\ EndedStay
    BY <1>1, FollowEnd, FollowEnds DEF PageInv
<1>3. CASE ~ done
    <2>1. UNCHANGED <<server, pageVars>>
        BY <1>1, <1>3 DEF Restore, server, pageVars
    <2>. QED BY <1>2, <2>1, HandlerOnly DEF pageVars
<1>4. CASE done
    <2>1. Adds(k)
        BY <1>4, Zenon DEF Restore, Adds, Copy
    <2>2. ~ Given(NewId(k)) /\ k \in Nat
        BY <1>1, NewIdIsNew DEF PageInv
    <2>3. ServerInv' /\ StillEnabled({})
        BY <2>1, <2>2, ServerAdds, StillAdds DEF PageInv
    <2>4. CapturesHold
        <3>1. ASSUME NEW j \in DOMAIN deletes, Holds(deletes[j]),
                     deletes[j].id \in DOMAIN schedules'
              PROVE  /\ deletes[j].id \in DOMAIN schedules
                     /\ schedules'[deletes[j].id] = schedules[deletes[j].id]
            <4>1. deletes[j].id # NewId(k)
                BY <2>2, <3>1 DEF PageInv, UndoInv, Given
            <4>. QED BY <2>1, <3>1, <4>1 DEF Adds
        <3>. QED BY <3>1 DEF CapturesHold
    <2>5. Lags({}, rows, rows')
        BY <1>1, LagsNot DEF PageInv, SwitchInv, RowsInv
    <2>6. RowsInv' /\ TogglesInv'
        BY <1>1, <1>2, <2>3, <2>5, RowsLag, TogglesSame DEF PageInv, SwitchInv
    <2>7. ListsInv'
        <3>. DEFINE t == RenderedOf(schedules')
        <3>1. Rendered' = t
            BY DEF Rendered, RenderedOf
        <3>2. /\ DOMAIN schedules' \subseteq Nat
              /\ \A i \in DOMAIN schedules' : schedules'[i].enabled \in BOOLEAN
            BY <2>3 DEF ServerInv, ScheduleType
        <3>3. /\ t \in Tables /\ DOMAIN t = DOMAIN schedules'
              /\ Shows(t, schedules') /\ Rests(t)
            BY <3>2, RenderedTable
        <3>. HIDE DEF t
        <3>4. \A i \in DOMAIN t : Given(i)'
            BY <3>3 DEF UndoInv
        <3>5. CASE answered /\ here
            BY <1>1, <1>2, <2>3, <3>1, <3>3, <3>4, <3>5, ListAppended DEF PageInv, SwitchInv
        <3>6. CASE ~ (answered /\ here)
            BY <1>1, <1>2, <2>3, <3>6, ListsStay DEF PageInv, SwitchInv
        <3>. QED BY <3>5, <3>6
    <2>. QED BY <1>2, <2>3, <2>4, <2>6, <2>7 DEF SwitchInv, Kept
<1>. QED BY <1>3, <1>4

\* What Undo creates out of a snapshot has that snapshot.
LEMMA CopyAsCaptured ==
    ASSUME NEW s \in Captures, InEffect(s)
    PROVE  SnapshotOf(Copy(s)) = s
<1>. DEFINE a == ActionOf[s.of]
            links == ResolveDevicePresets(a, DOMAIN s.presets, DevicePresets(s))
<1>1. s = [of |-> s.of, presets |-> s.presets, enabled |-> s.enabled]
    BY DEF Captures
<1>2. s.presets = [d \in DOMAIN s.presets |-> s.presets[d]]
    <2>1. s.presets \in TablesOver(Devices)
        BY DEF Captures
    <2>. QED BY <2>1, TableValues
<1>3. Copy(s) = [of |-> s.of, enabled |-> s.enabled, links |-> links]
    BY DEF Copy
<1>4. /\ DOMAIN links = DOMAIN s.presets
      /\ \A d \in DOMAIN s.presets :
            links[d] = IF a.type = "state" THEN Null
                       ELSE IF s.presets[d] # Null THEN s.presets[d] ELSE a.ps
    BY DEF ResolveDevicePresets, DevicePresets, Restrict
<1>. HIDE DEF links
<1>5. SnapshotOf(Copy(s)).presets =
         [d \in DOMAIN s.presets |-> IF a.type = "state" THEN Null
                                     ELSE IF links[d] # Null THEN links[d] ELSE a.ps]
    BY <1>3, <1>4 DEF SnapshotOf
<1>6. \A d \in DOMAIN s.presets :
         s.presets[d] = IF a.type = "state" THEN Null
                        ELSE IF links[d] # Null THEN links[d] ELSE a.ps
    BY <1>4 DEF InEffect
<1>7. SnapshotOf(Copy(s)).presets = s.presets
    BY <1>2, <1>5, <1>6
<1>8. SnapshotOf(Copy(s)) = [of |-> s.of, presets |-> SnapshotOf(Copy(s)).presets,
                             enabled |-> s.enabled]
    BY <1>3 DEF SnapshotOf
<1>. QED BY <1>1, <1>7, <1>8
-----------------------------------------------------------------------------
LEMMA PageInit == Init => PageInv
<1>. SUFFICES ASSUME Init PROVE PageInv
    OBVIOUS
<1>1. UndoInv
    BY UndoInit
<1>2. /\ devices = Devices /\ DOMAIN schedules = Originals
      /\ \A o \in Originals : schedules[o] = [of |-> o, enabled |-> TRUE, links |-> LinksOf[o]]
      /\ here = TRUE /\ rows = Rendered /\ toggles = {} /\ lists = <<>> /\ deletes = <<>>
    BY DEF Init
<1>3. ServerInv
    <2>1. \A o \in Originals : LinksOf[o] \in TablesOver(Devices)
        BY DEF TablesOver
    <2>2. ScheduleType = [of : Originals, enabled : BOOLEAN, links : TablesOver(Devices)]
        BY <1>2, LinksAreTable DEF ScheduleType
    <2>3. Originals \subseteq Nat
        BY DEF Originals
    <2>4. ASSUME NEW o \in Originals PROVE schedules[o] \in ScheduleType
        <3>1. LinksOf[o] \in TablesOver(Devices) /\ schedules[o] = [of |-> o, enabled |-> TRUE, links |-> LinksOf[o]]
            BY <1>2, <2>1
        <3>. QED BY <2>2, <3>1
    <2>. QED BY <1>2, <2>3, <2>4 DEF ServerInv
<1>4. HandlersInv /\ RestoreInv
    BY <1>2 DEF HandlersInv, RestoreInv
<1>5. SwitchInv
    <2>1. rows \in Tables /\ Shows(rows, schedules) /\ DOMAIN rows = DOMAIN schedules
        BY <1>2, <1>3, RenderedNow
    <2>2. RowsInv
        BY <1>1, <1>2, <2>1 DEF RowsInv, UndoInv
    <2>3. lists \in Seq(Tables) /\ DOMAIN lists = {}
        BY <1>2
    <2>. QED BY <1>2, <2>2, <2>3 DEF SwitchInv, ListsInv, TogglesInv
<1>. QED BY <1>1, <1>3, <1>4, <1>5 DEF PageInv

LEMMA PageNext == PageInv /\ [Next]_vars => PageInv'
<1>. SUFFICES ASSUME PageInv, [Next]_vars PROVE PageInv'
    OBVIOUS
<1>0. UndoInv'
    BY UndoNext DEF PageInv
<1>. SUFFICES Kept \/ PageInv'
    BY <1>0, PageKept
<1>1. CASE UNCHANGED vars
    BY <1>1, FollowStay, HandlerOnly DEF vars, PageInv, pageVars
<1>2. ASSUME NEW id, Toggle(id) PROVE Kept
    BY <1>2, ToggleKept
<1>3. ASSUME NEW id, Ask(id) PROVE Kept
    BY <1>3, AskKept
<1>4. ASSUME NEW t \in toggles, NEW done \in BOOLEAN, NEW answered \in BOOLEAN,
             AnswerToggle(t, done, answered)
      PROVE  Kept
    BY <1>4, AnswerToggleKept
<1>5. CASE Refresh
    BY <1>5, RefreshKept
<1>6. ASSUME NEW k \in DOMAIN lists, Swap(k) PROVE Kept
    BY <1>6, SwapKept
<1>7. CASE Tick
    BY <1>7, FollowStay, HandlerOnly DEF Tick, PageInv, pageVars
<1>8. CASE Ok
    BY <1>8, OkKept
<1>9. CASE Cancel
    BY <1>9, CancelKept
<1>10. ASSUME NEW k \in DOMAIN deletes, Handles(k) PROVE Kept \/ PageInv'
    <2>1. ASSUME NEW ok \in BOOLEAN, Capture(k, ok) PROVE PageInv'
        BY <1>0, <2>1, CapturePage
    <2>2. ASSUME NEW done \in BOOLEAN, NEW answered \in BOOLEAN, Delete(k, done, answered)
          PROVE  PageInv'
        BY <1>0, <2>2, DeletePage
    <2>3. ASSUME NEW done \in BOOLEAN, NEW answered \in BOOLEAN, Restore(k, done, answered)
          PROVE  Kept
        BY <1>0, <2>3, RestorePageKept
    <2>4. CASE TapUndo(k)
        BY <2>4, TapUndoKept
    <2>5. CASE Expire(k)
        BY <2>5, ExpireKept
    <2>. QED BY <1>10, <2>1, <2>2, <2>3, <2>4, <2>5 DEF Handles
<1>11. CASE Leave
    BY <1>11, LeaveKept
<1>12. CASE Return
    BY <1>12, ReturnKept
<1>13. ASSUME NEW id, OtherToggles(id) PROVE Kept
    BY <1>13, OtherTogglesKept
<1>14. ASSUME NEW id, OtherDeletes(id) PROVE Kept
    BY <1>14, OtherDeletesKept
<1>15. ASSUME NEW d, RemoveDevice(d) PROVE Kept
    BY <1>15, RemoveDeviceKept
<1>. QED BY <1>1, <1>2, <1>3, <1>4, <1>5, <1>6, <1>7, <1>8, <1>9, <1>10, <1>11, <1>12, <1>13,
            <1>14, <1>15 DEF Next

FlagsInv == ticked \in BOOLEAN /\ skip \in BOOLEAN /\ attached \subseteq DOMAIN deletes

LEMMA FlagsNext == FlagsInv /\ UndoInv /\ [Next]_vars => FlagsInv'
<1>. SUFFICES ASSUME FlagsInv, UndoInv, [Next]_vars PROVE FlagsInv'
    OBVIOUS
<1>. USE DEF FlagsInv, dialogVars, pageVars
<1>1. CASE UNCHANGED vars
    BY <1>1 DEF vars
<1>2. ASSUME NEW id, Toggle(id) \/ OtherToggles(id) \/ OtherDeletes(id) PROVE FlagsInv'
    BY <1>2 DEF Toggle, OtherToggles, OtherDeletes, OtherWrites, ForgetCaptures
<1>3. ASSUME NEW id, Ask(id) PROVE FlagsInv'
    <2>1. ticked' \in BOOLEAN /\ skip' \in BOOLEAN /\ attached' = attached \cup {Len(deletes) + 1}
        BY <1>3 DEF Ask, Open
    <2>2. PICK h \in {Handler(id), [Handler(id) EXCEPT !.pc = "capture"]} :
            deletes' = Append(deletes, h)
        BY <1>3 DEF Ask
    <2>3. QuietDeletes /\ Len(deletes) + 1 \in DOMAIN deletes'
        BY <2>2, AskQuietly, HandlerShape
    <2>. QED BY <2>1, <2>3 DEF QuietDeletes
<1>4. ASSUME NEW t, NEW done, NEW answered, AnswerToggle(t, done, answered) PROVE FlagsInv'
    BY <1>4 DEF AnswerToggle, ForgetCaptures
<1>5. CASE Refresh \/ Return
    BY <1>5 DEF Refresh, Return
<1>6. ASSUME NEW k, Swap(k) PROVE FlagsInv'
    BY <1>6 DEF Swap
<1>7. CASE Tick
    BY <1>7 DEF Tick
<1>8. CASE Ok \/ Cancel \/ Leave
    BY <1>8 DEF Ok, Cancel, Leave, Close, Ends
<1>9. ASSUME NEW k, Handles(k) PROVE FlagsInv'
    <2>1. ASSUME NEW ok, Capture(k, ok) PROVE FlagsInv'
        BY <2>1 DEF Capture
    <2>2. ASSUME NEW done, NEW answered, Delete(k, done, answered) \/ Restore(k, done, answered)
          PROVE  FlagsInv'
        BY <2>2 DEF Delete, Restore, Ends
    <2>3. CASE TapUndo(k) \/ Expire(k)
        BY <2>3 DEF TapUndo, Expire, Ends, ToastGoes, GoesOn
    <2>. QED BY <1>9, <2>1, <2>2, <2>3 DEF Handles
<1>10. ASSUME NEW d, RemoveDevice(d) PROVE FlagsInv'
    BY <1>10 DEF RemoveDevice
<1>. QED BY <1>1, <1>2, <1>3, <1>4, <1>5, <1>6, <1>7, <1>8, <1>9, <1>10 DEF Next

LEMMA PageTypes == PageInv /\ FlagsInv => TypeOK
<1>. SUFFICES ASSUME PageInv, FlagsInv PROVE TypeOK
    OBVIOUS
<1>1. /\ devices \subseteq Devices
      /\ \A id \in DOMAIN schedules :
            schedules[id] \in [of : Originals, enabled : BOOLEAN, links : LinkTables]
    BY DEF PageInv, ServerInv, ScheduleType
<1>2. \A id \in DOMAIN rows : rows[id] \in [shown : BOOLEAN, busy : BOOLEAN, sure : BOOLEAN]
    BY TableRows DEF PageInv, SwitchInv, RowsInv, RowType
<1>3. \A t \in toggles : t.current => t.id \in DOMAIN rows /\ rows[t.id].busy
    BY DEF PageInv, SwitchInv, TogglesInv
<1>4. dialog \in 0..Len(deletes)
    <2>1. Len(deletes) \in Nat /\ DOMAIN deletes = 1..Len(deletes)
        BY DEF PageInv, UndoInv, Shape
    <2>. QED BY <2>1 DEF PageInv, UndoInv, DialogAsks, None
<1>5. \A k \in DOMAIN deletes :
          deletes[k].pc \in {"asking", "capture", "delete", "offered", "restoring", "ended"}
    BY DEF PageInv, HandlersInv, HandlerType, Pcs
<1>. QED BY <1>1, <1>2, <1>3, <1>4, <1>5 DEF TypeOK, FlagsInv

\* Every schedule keeps its shape, links and presets of devices that exist, and
\* every request out for a switch of the list finds its row busy.
THEOREM PageTypeCorrect == Spec => []TypeOK
<1>1. Init => FlagsInv
    BY DEF Init, FlagsInv
<1>2. PageInv => UndoInv
    BY DEF PageInv
<1>. QED BY <1>1, <1>2, PageInit, PageNext, FlagsNext, PageTypes, PTL DEF Spec

\* For any number of rows, toggles, refreshes and deletes a switch at rest shows
\* what the server has (schedules.js:54-70): a toggle that is refused or fails
\* without effect is taken back, on its own row only.  The exceptions are those of
\* the property, until the row is rendered or toggled with success again: a change
\* of another client, an answer lost after the effect, and a list rendered before
\* the PATCH of a toggle took effect and put in its row's place.
THEOREM SwitchesShowServer == Spec => []SwitchShowsServer
<1>1. PageInv => SwitchShowsServer
    BY DEF PageInv, SwitchInv, RowsInv, Shows, SwitchShowsServer
<1>. QED BY <1>1, PageInit, PageNext, PTL DEF Spec

\* Only the POST of Undo adds a schedule.
LEMMA OnlyUndoAdds ==
    ASSUME PageInv, Next,
           ~ \E k \in DOMAIN deletes, done, answered \in BOOLEAN : Restore(k, done, answered)
    PROVE  DOMAIN schedules' \subseteq DOMAIN schedules
<1>. USE DEF server, Quiet, FewerSchedules
<1>. UndoInv
    BY DEF PageInv
<1>1. ASSUME NEW id, Toggle(id) PROVE DOMAIN schedules' \subseteq DOMAIN schedules
    BY <1>1 DEF Toggle
<1>2. ASSUME NEW id, Ask(id) PROVE DOMAIN schedules' \subseteq DOMAIN schedules
    BY <1>2 DEF Ask
<1>3. ASSUME NEW t \in toggles, NEW done \in BOOLEAN, NEW answered \in BOOLEAN,
             AnswerToggle(t, done, answered)
      PROVE  DOMAIN schedules' \subseteq DOMAIN schedules
    BY <1>3, AnswerToggleStep
<1>4. CASE Refresh \/ Tick \/ Ok \/ Cancel \/ Leave \/ Return
    BY <1>4 DEF Refresh, Tick, Ok, Cancel, Leave, Return
<1>5. ASSUME NEW k, Swap(k) PROVE DOMAIN schedules' \subseteq DOMAIN schedules
    BY <1>5 DEF Swap
<1>6. ASSUME NEW k \in DOMAIN deletes, Handles(k)
      PROVE  DOMAIN schedules' \subseteq DOMAIN schedules
    <2>1. ASSUME NEW ok \in BOOLEAN, Capture(k, ok)
          PROVE  DOMAIN schedules' \subseteq DOMAIN schedules
        BY <2>1 DEF Capture
    <2>2. ASSUME NEW done \in BOOLEAN, NEW answered \in BOOLEAN, Delete(k, done, answered)
          PROVE  DOMAIN schedules' \subseteq DOMAIN schedules
        BY <2>2 DEF Delete, Restrict
    <2>3. CASE TapUndo(k) \/ Expire(k)
        BY <2>3 DEF TapUndo, Expire
    <2>. QED BY <1>6, <2>1, <2>2, <2>3 DEF Handles
<1>7. ASSUME NEW id \in DOMAIN schedules, OtherToggles(id)
      PROVE  DOMAIN schedules' \subseteq DOMAIN schedules
    BY <1>7, OtherTogglesStep
<1>8. ASSUME NEW id, OtherDeletes(id) PROVE DOMAIN schedules' \subseteq DOMAIN schedules
    BY <1>8, OtherDeletesStep
<1>9. ASSUME NEW d, RemoveDevice(d) PROVE DOMAIN schedules' \subseteq DOMAIN schedules
    BY <1>9, RemoveDeviceStep
<1>. QED BY <1>1, <1>2, <1>3, <1>4, <1>5, <1>6, <1>7, <1>8, <1>9 DEF Next

LEMMA NewIdsDiffer == ASSUME NEW j \in Nat, NEW k \in Nat, NewId(j) = NewId(k) PROVE j = k
BY DEF NewId

LEMMA RestoredStep ==
    ASSUME PageInv, [Next]_vars, NEW k \in DOMAIN deletes, deletes[k].pc = "restoring",
           deletes[k].same, NewId(k) \in DOMAIN schedules' \ DOMAIN schedules
    PROVE  Snapshot(NewId(k))' = deletes[k].was
<1>. DEFINE s == deletes[k].snapshot
<1>1. PICK j \in DOMAIN deletes, done \in BOOLEAN, answered \in BOOLEAN :
        Restore(j, done, answered)
    <2>1. Next
        BY DEF vars, server
    <2>. QED BY <2>1, OnlyUndoAdds
<1>2. /\ deletes[j].pc = "restoring"
      /\ schedules' = IF ~ done THEN schedules
            ELSE [id \in DOMAIN schedules \cup {NewId(j)} |->
                     IF id # NewId(j) THEN schedules[id] ELSE Copy(deletes[j].snapshot)]
    BY <1>1, Zenon DEF Restore, Copy
<1>3. k \in Nat /\ j \in Nat
    BY <1>2, NewIdIsNew DEF PageInv
<1>4. j = k
    <2>1. NewId(k) = NewId(j)
        BY <1>2
    <2>. QED BY <1>3, <2>1, NewIdsDiffer
<1>5. schedules'[NewId(k)] = Copy(s)
    BY <1>2, <1>4
<1>6. s # NoSnapshot /\ deletes[k].was = s
    BY DEF PageInv, RestoreInv, Pending
<1>7. s \in Captures /\ InEffect(s)
    BY <1>6 DEF PageInv, HandlersInv, HandlerType
<1>8. Snapshot(NewId(k))' = SnapshotOf(schedules'[NewId(k)])
    BY DEF Snapshot, SnapshotOf, Effective, Action, NewId
<1>. HIDE DEF s
<1>. QED BY <1>5, <1>6, <1>7, <1>8, CopyAsCaptured

\* What Undo brings back (restoreSchedule) fires the same presets as what was
\* deleted, unless a device or the schedule was changed in between.
THEOREM UndoRestoresAsDeleted == Spec => RestoredAsDeleted
<1>1. PageInv /\ [Next]_vars =>
        [\A k \in DOMAIN deletes :
            /\ deletes[k].pc = "restoring" /\ deletes[k].same
            /\ NewId(k) \in DOMAIN schedules' \ DOMAIN schedules
            => Snapshot(NewId(k))' = deletes[k].was]_vars
    BY RestoredStep
<1>. QED BY <1>1, PageInit, PageNext, PTL DEF Spec, RestoredAsDeleted

-----------------------------------------------------------------------------
(***************************************************************************)
(* The gestures on the list (Gestures): for any thresholds, positions and  *)
(* number of touches.                                                      *)
(***************************************************************************)

USE GestureAssumption DEF GestureAssumption

Pressable == {"row", "switch"}

-----------------------------------------------------------------------------
LEMMA TypeInit == GestureInit => GestureTypeOK
<1>. SUFFICES ASSUME GestureInit PROVE GestureTypeOK
    OBVIOUS
<1>1. DOMAIN touch = {}
    BY DEF GestureInit
<1>2. pull \in [startY : Positions \cup {Unset}, pulling : BOOLEAN,
                visible : BOOLEAN, loading : BOOLEAN]
    BY DEF GestureInit, AtRest
<1>3. timers \subseteq 1..count /\ count \in 0..MaxTouches
    BY DEF GestureInit
<1>. QED BY <1>1, <1>2, <1>3 DEF GestureInit, GestureTypeOK, Down

LEMMA PullTypes ==
    ASSUME GestureTypeOK, NEW y \in Positions
    PROVE  LET Pulls == [startY : Positions \cup {Unset}, pulling : BOOLEAN,
                         visible : BOOLEAN, loading : BOOLEAN]
           IN /\ \A fingers : OnTouchStart(y, fingers) \in Pulls
              /\ \A scrolled \in BOOLEAN : OnTouchMove(y, scrolled) \in Pulls
              /\ OnTouchEnd \in Pulls
<1>. USE DEF GestureTypeOK
<1>1. \A fingers : OnTouchStart(y, fingers) \in
          [startY : Positions \cup {Unset}, pulling : BOOLEAN, visible : BOOLEAN, loading : BOOLEAN]
    BY DEF OnTouchStart
<1>2. \A scrolled \in BOOLEAN : OnTouchMove(y, scrolled) \in
          [startY : Positions \cup {Unset}, pulling : BOOLEAN, visible : BOOLEAN, loading : BOOLEAN]
    <2>1. (Distance(y - pull.startY) >= Threshold) \in BOOLEAN
        OBVIOUS
    <2>. HIDE DEF Distance
    <2>. QED BY <2>1 DEF OnTouchMove, OnPull, ensureIndicator
<1>3. OnTouchEnd \in
          [startY : Positions \cup {Unset}, pulling : BOOLEAN, visible : BOOLEAN, loading : BOOLEAN]
    BY DEF OnTouchEnd, AtRest
<1>. QED BY <1>1, <1>2, <1>3

LEMMA ClickTypes ==
    ASSUME GestureTypeOK, NEW target \in InList \cup {"outside"}, Click(target)
    PROVE  /\ active' \in BOOLEAN /\ swallow' \in BOOLEAN
           /\ page' \in {"list", "asking", "edit", "reloading"}
BY DEF GestureTypeOK, Click, _onOutsideClick, mode, InList

LEMMA LiftedTypes ==
    ASSUME GestureTypeOK, NEW f, touch' = Lifted(f)
    PROVE  /\ DOMAIN touch' = Down \ {f}
           /\ \A g \in DOMAIN touch' : touch'[g] = touch[g]
           /\ DOMAIN touch' \subseteq Fingers /\ \A g \in DOMAIN touch' : touch'[g] \in TouchType
BY DEF GestureTypeOK, Lifted, Down

LEMMA CancelTypes ==
    ASSUME GestureTypeOK, CancelPress
    PROVE  timers' \subseteq 1..count /\ handle' \in timers' \cup {Unset}
BY DEF GestureTypeOK, CancelPress

LEMMA TypeNext == GestureTypeOK /\ [GestureNext]_gestureVars => GestureTypeOK'
<1>. SUFFICES ASSUME GestureTypeOK, [GestureNext]_gestureVars PROVE GestureTypeOK'
    OBVIOUS
<1>1. CASE UNCHANGED gestureVars
    BY <1>1 DEF gestureVars, press, mode, GestureTypeOK, Down
<1>2. ASSUME NEW f \in Fingers, NEW target \in InList \cup {"outside"}, NEW y \in Positions,
             PutDown(f, target, y)
      PROVE  GestureTypeOK'
    <2>1. count' = count + 1 /\ count' \in 1..MaxTouches /\ count' \in 0..MaxTouches
        BY <1>2 DEF PutDown, GestureTypeOK
    <2>2. DOMAIN touch' \subseteq Fingers /\ \A g \in DOMAIN touch' : touch'[g] \in TouchType
        <3>1. DOMAIN touch' = Down \cup {f} /\ Down \subseteq Fingers
            BY <1>2 DEF PutDown, GestureTypeOK
        <3>2. touch'[f] \in TouchType
            BY <1>2, <2>1 DEF PutDown, TouchType
        <3>3. ASSUME NEW g \in Down, g # f PROVE touch'[g] \in TouchType
            BY <1>2, <3>3 DEF PutDown, GestureTypeOK, TouchType
        <3>. QED BY <3>1, <3>2, <3>3
    <2>3. timers' \subseteq 1..count' /\ handle' \in timers' \cup {Unset}
        BY <1>2, <2>1 DEF PutDown, ArmPress, press, GestureTypeOK
    <2>4. pull' \in [startY : Positions \cup {Unset}, pulling : BOOLEAN,
                     visible : BOOLEAN, loading : BOOLEAN]
        BY <1>2, PullTypes DEF PutDown
    <2>5. together' \in BOOLEAN
        BY <1>2 DEF PutDown
    <2>. QED BY <1>2, <2>1, <2>2, <2>3, <2>4, <2>5 DEF PutDown, mode, GestureTypeOK, Down
<1>3. ASSUME NEW f \in Fingers, NEW y \in Positions, NEW takenOver \in BOOLEAN,
             Move(f, y, takenOver)
      PROVE  GestureTypeOK'
    <2>1. DOMAIN touch' \subseteq Fingers /\ \A g \in DOMAIN touch' : touch'[g] \in TouchType
        BY <1>3 DEF Move, GestureTypeOK, TouchType, Down
    <2>2. timers' \subseteq 1..count /\ handle' \in timers' \cup {Unset}
        BY <1>3, CancelTypes DEF Move, press, GestureTypeOK
    <2>3. top' \in BOOLEAN
        BY <1>3 DEF Move, GestureTypeOK
    <2>4. pull' \in [startY : Positions \cup {Unset}, pulling : BOOLEAN,
                     visible : BOOLEAN, loading : BOOLEAN]
        <3>1. pull' = OnTouchMove(y, ~ top') /\ (~ top') \in BOOLEAN
            BY <1>3 DEF Move
        <3>. QED BY <3>1, PullTypes
    <2>. QED BY <1>3, <2>1, <2>2, <2>3, <2>4 DEF Move, mode, GestureTypeOK, Down
<1>4. ASSUME NEW f \in Fingers, PutUp(f) PROVE GestureTypeOK'
    <2>1. /\ DOMAIN touch' \subseteq Fingers /\ \A g \in DOMAIN touch' : touch'[g] \in TouchType
        BY <1>4, LiftedTypes DEF PutUp
    <2>2. timers' \subseteq 1..count /\ handle' \in timers' \cup {Unset}
        BY <1>4, CancelTypes DEF PutUp, press, GestureTypeOK
    <2>3. pull' \in [startY : Positions \cup {Unset}, pulling : BOOLEAN,
                     visible : BOOLEAN, loading : BOOLEAN]
        <3>1. pull' = OnTouchEnd /\ touch[f].y \in Positions
            BY <1>4 DEF PutUp, GestureTypeOK, TouchType
        <3>. QED BY <3>1, PullTypes
    <2>4. /\ active' \in BOOLEAN /\ swallow' \in BOOLEAN
          /\ page' \in {"list", "asking", "edit", "reloading"}
        <3>1. touch[f].target \in InList \cup {"outside"}
            BY <1>4 DEF PutUp, GestureTypeOK, TouchType
        <3>. QED BY <1>4, <3>1, ClickTypes DEF PutUp, GestureTypeOK, mode
    <2>. QED BY <1>4, <2>1, <2>2, <2>3, <2>4 DEF PutUp, GestureTypeOK, Down
<1>5. ASSUME NEW f \in Fingers, Abort(f) PROVE GestureTypeOK'
    <2>1. /\ DOMAIN touch' \subseteq Fingers /\ \A g \in DOMAIN touch' : touch'[g] \in TouchType
        BY <1>5, LiftedTypes DEF Abort
    <2>2. timers' \subseteq 1..count /\ handle' \in timers' \cup {Unset}
        BY <1>5, CancelTypes DEF Abort
    <2>3. pull' \in [startY : Positions \cup {Unset}, pulling : BOOLEAN,
                     visible : BOOLEAN, loading : BOOLEAN]
        <3>1. pull' = OnTouchEnd /\ touch[f].y \in Positions
            BY <1>5 DEF Abort, GestureTypeOK, TouchType
        <3>. QED BY <3>1, PullTypes
    <2>. QED BY <1>5, <2>1, <2>2, <2>3 DEF Abort, mode, GestureTypeOK, Down
<1>6. ASSUME NEW n \in timers, Fire(n) PROVE GestureTypeOK'
    <2>1. DOMAIN touch' \subseteq Fingers /\ \A g \in DOMAIN touch' : touch'[g] \in TouchType
        <3>1. DOMAIN touch' = Down /\ Down \subseteq Fingers
            BY <1>6 DEF Fire, GestureTypeOK
        <3>2. ASSUME NEW g \in Down PROVE touch'[g] \in TouchType
            <4>. DEFINE held == touch[g].held \/ touch[g].n = n
            <4>1. touch'[g] = [touch[g] EXCEPT !.held = held]
                BY <1>6, Zenon DEF Fire
            <4>2. held \in BOOLEAN /\ touch[g] \in TouchType
                BY DEF GestureTypeOK
            <4>. HIDE DEF held
            <4>. QED BY <4>1, <4>2 DEF TouchType
        <3>. QED BY <3>1, <3>2
    <2>. QED BY <1>6, <2>1 DEF Fire, Fired, EnterDeleteMode, GestureTypeOK, Down
<1>7. CASE Answered
    BY <1>7 DEF Answered, press, mode, GestureTypeOK, Down
<1>. QED BY <1>1, <1>2, <1>3, <1>4, <1>5, <1>6, <1>7 DEF GestureNext

\* The types of the two listeners' state: among them that _pressTimer names a
\* timer that is armed, or none.
THEOREM GestureTypes == GestureSpec => []GestureTypeOK
BY TypeInit, TypeNext, PTL DEF GestureSpec

-----------------------------------------------------------------------------
(* The indicator *)

\* It is there only during a pull, and a pull needs a finger.
IndicatorInv ==
    page # "reloading" =>
        /\ pull.visible => pull.pulling
        /\ Down = {} => ~ pull.visible

LEMMA FirstFinger == ASSUME GestureTypeOK, Cardinality(Down) + 1 = 1 PROVE Down = {}
<1>1. IsFiniteSet({1}) /\ Fingers = {1} \cup {2} /\ Down \subseteq Fingers
    BY FS_Singleton DEF Fingers, GestureTypeOK
<1>2. IsFiniteSet(Down)
    BY <1>1, FS_AddElement, FS_Subset
<1>. QED BY <1>2, FS_EmptySet, FS_CardinalityType

LEMMA IndicatorNext == GestureTypeOK /\ IndicatorInv /\ [GestureNext]_gestureVars => IndicatorInv'
<1>. SUFFICES ASSUME GestureTypeOK, IndicatorInv, [GestureNext]_gestureVars PROVE IndicatorInv'
    OBVIOUS
<1>. USE DEF IndicatorInv
<1>1. CASE UNCHANGED gestureVars
    BY <1>1 DEF gestureVars, Down
<1>2. ASSUME NEW f \in Fingers, NEW target, NEW y, PutDown(f, target, y) PROVE IndicatorInv'
    <2>1. /\ page = "list" /\ DOMAIN touch' = Down \cup {f}
          /\ pull' = OnTouchStart(y, Cardinality(Down) + 1)
        BY <1>2 DEF PutDown
    <2>2. CASE ~ top \/ Cardinality(Down) + 1 # 1
        BY <2>1, <2>2 DEF OnTouchStart, GestureTypeOK, Down
    <2>3. CASE ~ (~ top \/ Cardinality(Down) + 1 # 1)
        BY <2>1, <2>3, FirstFinger DEF OnTouchStart, GestureTypeOK, Down
    <2>. QED BY <2>2, <2>3
<1>3. ASSUME NEW f \in Fingers, NEW y, NEW takenOver, Move(f, y, takenOver) PROVE IndicatorInv'
    <2>1. /\ page = "list" /\ page' = page /\ f \in DOMAIN touch' /\ f \in Down
          /\ pull' = OnTouchMove(y, ~ top')
        BY <1>3 DEF Move, Down
    <2>2. pull'.visible => pull'.pulling
        BY <2>1 DEF OnTouchMove, OnPull, ensureIndicator, GestureTypeOK
    <2>. QED BY <2>1, <2>2 DEF Down
<1>4. ASSUME NEW f \in Fingers, PutUp(f) PROVE IndicatorInv'
    <2>1. page = "list" /\ pull' = OnTouchEnd /\ (Reloads => page' = "reloading")
        BY <1>4 DEF PutUp
    <2>. QED BY <2>1 DEF OnTouchEnd, AtRest, Reloads, GestureTypeOK
<1>5. ASSUME NEW f \in Fingers, Abort(f) PROVE IndicatorInv'
    <2>1. page = "list" /\ pull' = OnTouchEnd /\ (Reloads => page' = "reloading")
        BY <1>5 DEF Abort
    <2>. QED BY <2>1 DEF OnTouchEnd, AtRest, Reloads, GestureTypeOK
<1>6. ASSUME NEW n, Fire(n) PROVE IndicatorInv'
    BY <1>6 DEF Fire, Down
<1>7. CASE Answered
    BY <1>7 DEF Answered, Down
<1>. QED BY <1>1, <1>2, <1>3, <1>4, <1>5, <1>6, <1>7 DEF GestureNext

\* The indicator of pull-to-refresh never stays behind (pull-to-refresh.js), in
\* whatever order fingers come, move, go or are taken over by the browser.
THEOREM IndicatorGoes == GestureSpec => []IndicatorGone
<1>1. GestureInit => IndicatorInv
    BY DEF GestureInit, IndicatorInv, AtRest
<1>2. GestureTypeOK /\ IndicatorInv => IndicatorGone
    BY DEF IndicatorInv, IndicatorGone
<1>. QED BY <1>1, <1>2, TypeInit, TypeNext, IndicatorNext, PTL DEF GestureSpec

-----------------------------------------------------------------------------
(* The long press *)

\* As long as no second finger has come, the one timer is the one that
\* _pressTimer names, of a finger that rests.
PressInv ==
    ~ together => \A n \in timers :
        n = handle /\ \E f \in Down : /\ Down = {f} /\ touch[f].n = n /\ ~ touch[f].moved
                                      /\ touch[f].target \in Pressable

\* A finger that has been held has armed the swallowing of its own click, and no
\* other finger can take that away while it may still click.
HoldInv ==
    \A f \in Down :
        /\ touch[f].n \in 1..count
        /\ touch[f].tap => Down = {f}
        /\ touch[f].n \in timers \/ touch[f].held => touch[f].target \in Pressable
        /\ touch[f].held /\ touch[f].tap => swallow

LEMMA PressNext == GestureTypeOK /\ PressInv /\ [GestureNext]_gestureVars => PressInv'
<1>. SUFFICES ASSUME GestureTypeOK, PressInv, [GestureNext]_gestureVars PROVE PressInv'
    OBVIOUS
<1>. USE DEF PressInv, Pressable
<1>1. CASE UNCHANGED gestureVars
    BY <1>1 DEF gestureVars, press, Down
<1>2. ASSUME NEW f \in Fingers, NEW target, NEW y, PutDown(f, target, y) PROVE PressInv'
    <2>1. CASE Down # {}
        BY <1>2, <2>1 DEF PutDown
    <2>2. CASE Down = {}
        <3>1. ASSUME ~ together' PROVE timers = {}
            BY <1>2, <2>2, <3>1 DEF PutDown
        <3>2. /\ DOMAIN touch' = {f} /\ touch'[f].n = count' /\ ~ touch'[f].moved
              /\ touch'[f].target = target
            BY <1>2, <2>2 DEF PutDown
        <3>3. CASE target \in Pressable
            BY <1>2, <3>1, <3>2, <3>3 DEF PutDown, ArmPress, Down
        <3>4. CASE target \notin Pressable
            BY <1>2, <3>1, <3>4 DEF PutDown, ArmPress, press
        <3>. QED BY <3>3, <3>4
    <2>. QED BY <2>1, <2>2
<1>3. ASSUME NEW f \in Fingers, NEW y, NEW takenOver, Move(f, y, takenOver) PROVE PressInv'
    <2>1. SUFFICES ASSUME ~ together PROVE timers' = {}
        BY <1>3 DEF Move
    <2>2. \A n \in timers : n = handle /\ touch[f].target \in Pressable
        BY <1>3, <2>1 DEF Move
    <2>3. ASSUME NEW n \in timers PROVE CancelPress
        BY <1>3, <2>2, <2>3 DEF Move, InList, GestureTypeOK, Unset
    <2>. QED BY <1>3, <2>2, <2>3 DEF Move, CancelPress, press
<1>4. ASSUME NEW f \in Fingers, PutUp(f) PROVE PressInv'
    <2>1. SUFFICES ASSUME ~ together PROVE timers' = {}
        BY <1>4 DEF PutUp
    <2>2. \A n \in timers : n = handle /\ touch[f].target \in Pressable
        BY <1>4, <2>1 DEF PutUp
    <2>. QED BY <1>4, <2>2 DEF PutUp, CancelPress, press, InList
<1>5. ASSUME NEW f \in Fingers, Abort(f) PROVE PressInv'
    BY <1>5 DEF Abort, CancelPress
<1>6. ASSUME NEW n \in timers, Fire(n) PROVE PressInv'
    <2>1. SUFFICES ASSUME ~ together PROVE timers' = {}
        BY <1>6 DEF Fire
    <2>. QED BY <1>6, <2>1 DEF Fire, Fired
<1>7. CASE Answered
    BY <1>7 DEF Answered, press, Down
<1>. QED BY <1>1, <1>2, <1>3, <1>4, <1>5, <1>6, <1>7 DEF GestureNext

LEMMA HoldNext == GestureTypeOK /\ HoldInv /\ [GestureNext]_gestureVars => HoldInv'
<1>. SUFFICES ASSUME GestureTypeOK, HoldInv, [GestureNext]_gestureVars PROVE HoldInv'
    OBVIOUS
<1>. USE DEF HoldInv, Pressable
<1>1. CASE UNCHANGED gestureVars
    BY <1>1 DEF gestureVars, press, mode, Down
<1>2. ASSUME NEW f \in Fingers, NEW target \in InList \cup {"outside"}, NEW y,
             PutDown(f, target, y)
      PROVE  HoldInv'
    <2>1. /\ DOMAIN touch' = Down \cup {f} /\ f \notin Down
          /\ touch'[f].n = count' /\ touch'[f].tap = (Down = {}) /\ ~ touch'[f].held
          /\ touch'[f].target = target
          /\ count' = count + 1 /\ count \in Nat /\ swallow' = swallow
        BY <1>2 DEF PutDown, mode, GestureTypeOK
    <2>2. /\ timers' = timers \/ (timers' = timers \cup {count'} /\ target \in Pressable)
          /\ timers \subseteq 1..count
        BY <1>2 DEF PutDown, ArmPress, press, GestureTypeOK
    <2>3. ASSUME NEW g \in Down
          PROVE  /\ touch'[g].n = touch[g].n /\ ~ touch'[g].tap
                 /\ touch'[g].held = touch[g].held /\ touch'[g].target = touch[g].target
        <3>1. touch'[g] = [touch[g] EXCEPT !.tap = FALSE] /\ touch[g] \in TouchType
            BY <1>2, <2>1 DEF PutDown, GestureTypeOK
        <3>. QED BY <3>1 DEF TouchType
    <2>4. count' \notin timers /\ count' \in 1..count'
        BY <2>1, <2>2
    <2>5. ASSUME NEW g \in DOMAIN touch', g # f
          PROVE  /\ touch'[g].n \in 1..count' /\ ~ touch'[g].tap
                 /\ touch'[g].n \in timers' \/ touch'[g].held => touch'[g].target \in Pressable
        <3>1. g \in Down /\ touch[g].n \in 1..count
            BY <2>1, <2>5
        <3>2. touch[g].n # count' /\ touch[g].n \in 1..count'
            BY <2>1, <3>1
        <3>. QED BY <2>2, <2>3, <3>1, <3>2
    <2>6. /\ touch'[f].n \in 1..count'
          /\ touch'[f].tap => DOMAIN touch' = {f}
          /\ touch'[f].n \in timers' => touch'[f].target \in Pressable
          /\ ~ touch'[f].held
        BY <2>1, <2>2, <2>4
    <2>. QED BY <2>5, <2>6 DEF Down
<1>3. ASSUME NEW f \in Fingers, NEW y, NEW takenOver, Move(f, y, takenOver) PROVE HoldInv'
    <2>1. /\ DOMAIN touch' = Down /\ f \in Down
          /\ count' = count /\ swallow' = swallow /\ timers' \subseteq timers
        BY <1>3 DEF Move, mode, CancelPress, press, Down
    <2>2. ASSUME NEW g \in Down
          PROVE  /\ touch'[g].n = touch[g].n
                 /\ touch'[g].tap => touch[g].tap
                 /\ touch'[g].held = touch[g].held /\ touch'[g].target = touch[g].target
        <3>1. touch[g] \in TouchType
            BY DEF GestureTypeOK
        <3>2. touch' = [touch EXCEPT ![f] = [touch[f] EXCEPT !.y = y, !.moved = TRUE, !.tap = FALSE]]
            BY <1>3 DEF Move
        <3>3. g = f => touch'[g] = [touch[g] EXCEPT !.y = y, !.moved = TRUE, !.tap = FALSE]
            BY <3>2 DEF Down
        <3>4. g # f => touch'[g] = touch[g]
            BY <3>2 DEF Down
        <3>. QED BY <3>1, <3>3, <3>4 DEF TouchType
    <2>. QED BY <2>1, <2>2 DEF Down
<1>4. ASSUME NEW f \in Fingers, PutUp(f) PROVE HoldInv'
    <2>1. /\ f \in Down /\ DOMAIN touch' = Down \ {f}
          /\ \A g \in DOMAIN touch' : touch'[g] = touch[g]
          /\ count' = count /\ timers' \subseteq timers
        BY <1>4, LiftedTypes DEF PutUp, CancelPress, press
    <2>2. CASE touch[f].tap
        BY <2>1, <2>2 DEF Down
    <2>3. CASE ~ touch[f].tap
        <3>1. swallow' = swallow
            BY <1>4, <2>3 DEF PutUp, mode
        <3>2. ASSUME NEW g \in DOMAIN touch' PROVE ~ touch'[g].tap
            BY <2>1, <2>3
        <3>. QED BY <2>1, <3>2 DEF Down
    <2>. QED BY <2>2, <2>3
<1>5. ASSUME NEW f \in Fingers, Abort(f) PROVE HoldInv'
    <2>1. /\ f \in Down /\ DOMAIN touch' = Down \ {f}
          /\ \A g \in DOMAIN touch' : touch'[g] = touch[g]
          /\ count' = count /\ timers' \subseteq timers
        BY <1>5, LiftedTypes DEF Abort, CancelPress
    <2>2. ASSUME NEW g \in DOMAIN touch' PROVE ~ touch'[g].tap
        BY <2>1
    <2>. QED BY <2>1, <2>2 DEF Down
<1>6. ASSUME NEW n \in timers, Fire(n) PROVE HoldInv'
    <2>1. DOMAIN touch' = Down /\ count' = count /\ swallow' = TRUE /\ timers' \subseteq timers
        BY <1>6 DEF Fire, Fired, EnterDeleteMode
    <2>2. ASSUME NEW g \in Down
          PROVE  /\ touch'[g].n = touch[g].n /\ touch'[g].tap = touch[g].tap
                 /\ touch'[g].target = touch[g].target
                 /\ touch'[g].held => touch[g].held \/ touch[g].n \in timers
        <3>. DEFINE held == touch[g].held \/ touch[g].n = n
        <3>1. touch'[g] = [touch[g] EXCEPT !.held = held]
            BY <1>6, Zenon DEF Fire
        <3>2. touch[g] \in TouchType
            BY DEF GestureTypeOK
        <3>3. held => touch[g].held \/ touch[g].n \in timers
            OBVIOUS
        <3>. HIDE DEF held
        <3>. QED BY <3>1, <3>2, <3>3 DEF TouchType
    <2>. QED BY <2>1, <2>2 DEF Down
<1>7. CASE Answered
    BY <1>7 DEF Answered, press, mode, Down
<1>. QED BY <1>1, <1>2, <1>3, <1>4, <1>5, <1>6, <1>7 DEF GestureNext

LEMMA PressHoldInit == GestureInit => PressInv /\ HoldInv
<1>1. GestureInit => timers = {} /\ DOMAIN touch = {}
    BY DEF GestureInit
<1>. QED BY <1>1 DEF PressInv, HoldInv, Down

\* One finger enters delete mode only by resting on a row (longpress-delete.js):
\* scrolling, pulling and letting go disarm the timer that was armed for it.
THEOREM PressMustRest == GestureSpec => OnlyRestingPress
<1>1. ASSUME GestureTypeOK, PressInv, [GestureNext]_gestureVars, NEW n \in timers \ timers', active', ~ active,
             ~ together
      PROVE  \E f \in Down : touch[f].n = n /\ ~ touch[f].moved
    BY <1>1 DEF PressInv
<1>2. GestureTypeOK /\ PressInv /\ [GestureNext]_gestureVars =>
          [\A n \in timers \ timers' :
              active' /\ ~ active /\ ~ together
              => \E f \in Down : touch[f].n = n /\ ~ touch[f].moved]_gestureVars
    BY <1>1
<1>. QED BY <1>2, TypeInit, PressHoldInit, TypeNext, PressNext, PTL DEF GestureSpec, OnlyRestingPress

\* What a release that follows a long press does: at most its click is swallowed.
LEMMA HeldRelease ==
    ASSUME GestureTypeOK, HoldInv, [GestureNext]_gestureVars, NEW f \in Down, f \notin DOMAIN touch',
           touch[f].held, ~ Reloads
    PROVE  active' = active /\ page' = page
<1>1. PutUp(f) \/ Abort(f)
    <2>1. ASSUME NEW g \in Fingers, NEW target, NEW y, PutDown(g, target, y) PROVE FALSE
        BY <2>1 DEF PutDown
    <2>2. ASSUME NEW g \in Fingers, NEW y, NEW takenOver, Move(g, y, takenOver) PROVE FALSE
        BY <2>2 DEF Move, Down
    <2>3. ASSUME NEW g \in Fingers, PutUp(g) \/ Abort(g) PROVE g = f
        BY <2>3, LiftedTypes DEF PutUp, Abort
    <2>4. ASSUME NEW n, Fire(n) PROVE FALSE
        BY <2>4 DEF Fire
    <2>5. ~ Answered /\ ~ UNCHANGED gestureVars
        BY DEF Answered, gestureVars, Down
    <2>. QED BY <2>1, <2>2, <2>3, <2>4, <2>5 DEF GestureNext
<1>2. CASE Abort(f)
    BY <1>2 DEF Abort, mode
<1>3. CASE PutUp(f)
    <2>1. touch[f].target \in Pressable /\ (touch[f].tap => swallow)
        BY DEF HoldInv
    <2>2. CASE touch[f].tap
        <3>1. Click(touch[f].target) /\ swallow
            BY <1>3, <2>1, <2>2 DEF PutUp
        <3>. QED BY <2>1, <3>1 DEF Click, Pressable, InList
    <2>3. CASE ~ touch[f].tap
        BY <1>3, <2>3 DEF PutUp, mode
    <2>. QED BY <2>2, <2>3
<1>. QED BY <1>1, <1>2, <1>3

\* Letting go after a long press (longpress-delete.js) opens, toggles, asks and
\* leaves nothing: the flag that swallows the click is set whenever a finger that
\* was held may still make one.
THEOREM HeldReleaseDoesNothing == GestureSpec => HeldReleaseIsInert
<1>1. GestureTypeOK /\ HoldInv /\ [GestureNext]_gestureVars =>
          [\A f \in Down \ DOMAIN touch' :
              touch[f].held /\ ~ Reloads => active' = active /\ page' = page]_gestureVars
    BY HeldRelease
<1>. QED BY <1>1, TypeInit, PressHoldInit, TypeNext, HoldNext, PTL DEF GestureSpec, HeldReleaseIsInert
=============================================================================
