------------------------- MODULE DevicePagesProofs -------------------------
(***************************************************************************)
(* Proofs about the device page and the form that adds a device            *)
(* (DevicePages), and about the icon tables they draw from (Icons): for    *)
(* any names, lights, releases of the icons and number of clicks.          *)
(***************************************************************************)
EXTENDS DevicePages, FiniteSetTheorems, SequenceTheorems, TLAPS

-----------------------------------------------------------------------------
(* Types *)

Reads == [name : Names \cup {Empty}, icon : Keys]
RunType == [pc : {"asked", "answered", "listening", "failed"}, read : Reads]
PatchType == [field : {"name", "icon"}, value : Names \cup {Empty} \cup Keys,
              pc : {"sent", "carried out"}, read : Reads]
PageType == [open : BOOLEAN, icons : DOMAIN Releases, shown : Reads, icon : Keys, editing : BOOLEAN,
             draft : Names \cup {Empty}, restarting : BOOLEAN, sure : BOOLEAN]
FormType == [host : Hosts \cup {Empty}, mdns : MdnsNames \cup {NoMdns},
             scan : {"idle", "asked", "running"}, unknown : SUBSET Lights, results : SUBSET Lights]
PostType == [host : Hosts \cup {Empty}, mdns : MdnsNames \cup {NoMdns}]

Counted(B) == B \in [DOMAIN B -> Nat \ {0}]

\* An address and a name of one light.
SameLight(host, mdns) == mdns # NoMdns => [host |-> host, mdns |-> mdns] \in Lights

-----------------------------------------------------------------------------
(* The inductive invariants *)

Unique(rows) ==
    \A d, e \in DOMAIN rows : d # e =>
        /\ rows[d].host # rows[e].host
        /\ rows[d].mdns = rows[e].mdns => rows[d].mdns = NoMdns

\* The rows, and the form that makes new ones: after a reset only the host is gone.
StoreInv ==
    /\ DOMAIN devices \subseteq Ids /\ devices \in [DOMAIN devices -> DeviceRow]
    /\ Unique(devices)
    /\ \A d \in DOMAIN devices : SameLight(devices[d].host, devices[d].mdns)
    /\ form \in FormType /\ (form.host = Empty \/ SameLight(form.host, form.mdns))
    /\ post \in PostType /\ SameLight(post.host, post.mdns)
    /\ post # Idle => post.host \in Hosts

ReleaseInv == release \in DOMAIN Releases /\ loaded \in 1..release

LoadsInv ==
    /\ Counted(loads) /\ DOMAIN loads \subseteq RunType
    /\ \A run \in DOMAIN loads :
          IF run.pc = "answered" THEN run.read.name \in Names ELSE run.read = Nothing

PatchesInv ==
    /\ Counted(patches) /\ DOMAIN patches \subseteq PatchType
    /\ \A p \in DOMAIN patches :
          /\ p.value \in (IF p.field = "name" THEN Names \cup {Empty} ELSE Keys)
          /\ p.pc = "carried out" => p.read.name \in Names

\* Nothing is shown, edited or sent before one run of init() listens.
PageInv ==
    /\ page \in PageType
    /\ page.editing => page.open /\ HasDevice
    /\ page.restarting => page.open
    /\ page.open /\ (HasDevice \/ DOMAIN patches # {}) => Ended("listening") \in DOMAIN loads

\* While no two requests cross, what a run of init() has read is what is stored;
ReadsAreStored == \A run \in DOMAIN loads : run.pc = "answered" => run.read = Seen(devices[1])

\* PATCHes are copies of one request, one copy if it is save()'s, sent when init()
\* was over;
InitOver == DOMAIN patches # {} => \A run \in DOMAIN loads : run.pc \in {"listening", "failed"}

OneRequest ==
    \A p, q \in DOMAIN patches : p.field = q.field /\ p.value = q.value /\ (p.field = "name" => p = q)

\* what is shown is stored, or a PATCH that is out brings it.
Brings(p) ==
    /\ p.pc = "carried out" => p.read = Seen(devices[1])
    /\ p.field = "icon" => page.icon = p.value
    /\ p.field = "icon" /\ p.pc = "carried out" => devices[1].icon = p.value
    /\ p.field = "name" => patches[p] = 1 /\ page.icon = devices[1].icon
    /\ p.field = "name" /\ p.pc = "sent" => page.shown = Seen(devices[1])

ShowsStored == page.shown = Seen(devices[1]) /\ page.icon = devices[1].icon

AllShown == DOMAIN patches = {} /\ Ended("listening") \in DOMAIN loads => ShowsStored

Sure == page.open /\ page.sure /\ 1 \in DOMAIN devices

ShownInv ==
    Sure => /\ ReadsAreStored /\ InitOver /\ OneRequest /\ AllShown
            /\ \A p \in DOMAIN patches : Brings(p)

RequestsInv == LoadsInv /\ PatchesInv /\ PageInv /\ ShownInv

DevicePagesInv == StoreInv /\ ReleaseInv /\ RequestsInv
-----------------------------------------------------------------------------
(* Bags *)

\* The bags of the actions, under names that the provers can match.
With(B, x) == B (+) SetToBag({x})
Less(B, x) == B (-) SetToBag({x})

LEMMA AddedTo ==
    ASSUME NEW B, Counted(B), NEW x, NEW C, C = With(B, x)
    PROVE  Counted(C) /\ DOMAIN C = DOMAIN B \cup {x}
<1>1. DOMAIN C = DOMAIN B \cup {x}
    BY DEF With, (+), SetToBag
<1>2. \A y \in DOMAIN C : C[y] = (IF y \in DOMAIN B THEN B[y] ELSE 0) + (IF y = x THEN 1 ELSE 0)
    BY DEF With, (+), SetToBag
<1>3. \A y \in DOMAIN C : C[y] \in Nat \ {0}
    BY <1>1, <1>2 DEF Counted
<1>4. C = [y \in DOMAIN C |-> C[y]]
    BY DEF With, (+), SetToBag
<1>. QED BY <1>1, <1>3, <1>4 DEF Counted

LEMMA RemovedFrom ==
    ASSUME NEW B, Counted(B), NEW x \in DOMAIN B, NEW C, C = Less(B, x)
    PROVE  /\ Counted(C) /\ DOMAIN C \subseteq DOMAIN B
           /\ \A y \in DOMAIN B : y # x => y \in DOMAIN C /\ C[y] = B[y]
           /\ B[x] = 1 => x \notin DOMAIN C
<1>. DEFINE left == [e \in DOMAIN B |-> IF e = x THEN B[e] - 1 ELSE B[e]]
<1>1. DOMAIN SetToBag({x}) = {x} /\ SetToBag({x})[x] = 1
    BY DEF SetToBag
<1>2. C = [e \in {d \in DOMAIN B : left[d] > 0} |-> left[e]]
    BY <1>1 DEF Less, (-)
<1>3. \A y \in DOMAIN B : B[y] \in Nat \ {0}
    BY DEF Counted
<1>4. \A y \in DOMAIN B : left[y] = (IF y = x THEN B[y] - 1 ELSE B[y]) /\ left[y] \in Nat
    BY <1>3
<1>. HIDE DEF left
<1>5. DOMAIN C = {d \in DOMAIN B : left[d] > 0} /\ \A y \in DOMAIN C : C[y] = left[y]
    BY <1>2
<1>6. Counted(C)
    BY <1>2, <1>4, <1>5 DEF Counted
<1>7. \A y \in DOMAIN B : y # x => y \in DOMAIN C /\ C[y] = B[y]
    <2>1. \A y \in DOMAIN B : y # x => left[y] = B[y] /\ left[y] > 0
        BY <1>3, <1>4
    <2>. QED BY <1>5, <2>1
<1>8. B[x] = 1 => x \notin DOMAIN C
    <2>1. B[x] = 1 => left[x] = 0
        BY <1>4
    <2>. QED BY <1>5, <2>1
<1>. QED BY <1>5, <1>6, <1>7, <1>8

\* One copy of x has become y.
LEMMA MovedOn ==
    ASSUME NEW B, Counted(B), NEW x \in DOMAIN B, NEW y, NEW C, C = With(Less(B, x), y)
    PROVE  /\ Counted(C) /\ y \in DOMAIN C /\ DOMAIN C \subseteq DOMAIN B \cup {y}
           /\ \A z \in DOMAIN B : z # x => z \in DOMAIN C
<1>. DEFINE D == Less(B, x)
<1>1. Counted(D) /\ DOMAIN D \subseteq DOMAIN B /\ \A z \in DOMAIN B : z # x => z \in DOMAIN D
    BY RemovedFrom
<1>2. C = With(D, y)
    OBVIOUS
<1>. HIDE DEF D
<1>3. Counted(C) /\ DOMAIN C = DOMAIN D \cup {y}
    BY <1>1, <1>2, AddedTo
<1>. QED BY <1>1, <1>3

\* It was the only copy of the only element.
LEMMA OneMovedOn ==
    ASSUME NEW B, Counted(B), NEW x \in DOMAIN B, NEW y, NEW C, C = With(Less(B, x), y),
           B[x] = 1, DOMAIN B = {x}
    PROVE  DOMAIN C = {y} /\ C[y] = 1
<1>. DEFINE D == Less(B, x)
<1>1. Counted(D) /\ DOMAIN D = {}
    BY RemovedFrom
<1>2. C = With(D, y)
    OBVIOUS
<1>. HIDE DEF D
<1>3. DOMAIN C = {y}
    BY <1>1, <1>2, AddedTo
<1>4. C[y] = (IF y \in DOMAIN D THEN D[y] ELSE 0) + 1
    BY <1>2, <1>3 DEF With, (+), SetToBag
<1>. QED BY <1>1, <1>3, <1>4

LEMMA EmptyBagHasNone == DOMAIN EmptyBag = {} /\ Counted(EmptyBag)
BY DEF EmptyBag, SetToBag, Counted

-----------------------------------------------------------------------------
(* The rows, and the form that adds one *)

LEMMA PagesConstants ==
    /\ Empty \notin Names /\ Empty \notin Hosts /\ Releases \in Seq(SUBSET FileNames)
    /\ \A l \in Lights : l = [host |-> l.host, mdns |-> l.mdns] /\ l.host \in Hosts
    /\ Start \subseteq DeviceRow /\ MaxEvents \in Nat
    /\ \A d \in Start : SameLight(d.host, d.mdns)
BY DevicePagesAssumption DEF SameLight

LEMMA StoreFrame == StoreInv /\ UNCHANGED <<devices, form, post>> => StoreInv'
BY DEF StoreInv

\* The answer to a PATCH is the row, which it only gave a name or an icon.
LEMMA PatchedRow ==
    ASSUME StoreInv, PatchesInv, NEW p \in DOMAIN patches, UpdateDevice(p)
    PROVE  /\ 1 \in DOMAIN devices /\ DOMAIN devices' = DOMAIN devices
           /\ devices' \in [DOMAIN devices' -> DeviceRow]
           /\ \A d \in DOMAIN devices : devices'[d].host = devices[d].host /\ devices'[d].mdns = devices[d].mdns
           /\ devices'[1] = [name |-> IF p.field = "name" THEN p.value ELSE devices[1].name,
                             icon |-> IF p.field = "name" THEN devices[1].icon ELSE p.value,
                             host |-> devices[1].host, mdns |-> devices[1].mdns]
<1>. DEFINE row == WithPatch(devices[1], p)
<1>1. 1 \in DOMAIN devices /\ devices' = [devices EXCEPT ![1] = row] /\ (p.field = "name" => p.value # Empty)
    BY DEF UpdateDevice
<1>2. devices[1] \in DeviceRow /\ \A d \in DOMAIN devices : devices[d] \in DeviceRow
    BY <1>1 DEF StoreInv
<1>3. p.field \in {"name", "icon"} /\ (p.field = "name" => p.value \in Names) /\ (p.field = "icon" => p.value \in Keys)
    BY <1>1 DEF PatchesInv, PatchType
<1>4. row = [name |-> IF p.field = "name" THEN p.value ELSE devices[1].name,
             icon |-> IF p.field = "name" THEN devices[1].icon ELSE p.value,
             host |-> devices[1].host, mdns |-> devices[1].mdns]
    BY <1>2 DEF WithPatch, DeviceRow
<1>5. row \in DeviceRow
    BY <1>2, <1>3, <1>4 DEF DeviceRow
<1>. HIDE DEF row
<1>6. DOMAIN devices' = DOMAIN devices /\ devices'[1] = row /\ \A d \in DOMAIN devices : d # 1 => devices'[d] = devices[d]
    BY <1>1, <1>2
<1>7. devices' \in [DOMAIN devices' -> DeviceRow]
    BY <1>1, <1>2, <1>5 DEF StoreInv
<1>8. \A d \in DOMAIN devices : devices'[d].host = devices[d].host /\ devices'[d].mdns = devices[d].mdns
    BY <1>4, <1>6
<1>. QED BY <1>1, <1>4, <1>6, <1>7, <1>8

LEMMA PatchKeepsStore ==
    ASSUME StoreInv, PatchesInv, NEW p \in DOMAIN patches, UpdateDevice(p)
    PROVE  StoreInv'
<1>1. /\ DOMAIN devices' = DOMAIN devices /\ devices' \in [DOMAIN devices' -> DeviceRow]
      /\ \A d \in DOMAIN devices : devices'[d].host = devices[d].host /\ devices'[d].mdns = devices[d].mdns
    BY PatchedRow
<1>2. form' = form /\ post' = post
    BY DEF UpdateDevice, formVars
<1>3. Unique(devices')
    BY <1>1 DEF StoreInv, Unique
<1>. QED BY <1>1, <1>2, <1>3 DEF StoreInv

LEMMA RemovalKeepsStore ==
    ASSUME StoreInv, NEW d, devices' = Without(d), UNCHANGED <<form, post>>
    PROVE  StoreInv'
<1>1. /\ DOMAIN devices' = DOMAIN devices \ {d}
      /\ \A e \in DOMAIN devices' : devices'[e] = devices[e]
      /\ devices' = [e \in DOMAIN devices \ {d} |-> devices[e]]
    BY DEF Without
<1>2. devices' \in [DOMAIN devices' -> DeviceRow]
    BY <1>1 DEF StoreInv
<1>3. Unique(devices')
    BY <1>1 DEF StoreInv, Unique
<1>. QED BY <1>1, <1>2, <1>3 DEF StoreInv

LEMMA CreationKeepsStore ==
    ASSUME StoreInv, NEW name \in Names, NEW answered \in BOOLEAN, CreateDevice(name, answered)
    PROVE  StoreInv'
<1>. DEFINE row == [name |-> name, icon |-> NoIcon, host |-> post.host, mdns |-> post.mdns]
<1>1. PICK d \in Ids \ DOMAIN devices :
          devices' = [e \in DOMAIN devices \cup {d} |-> IF e = d THEN row ELSE devices[e]]
    BY Zenon DEF CreateDevice
<1>2. /\ post # Idle /\ Free(post) /\ form' = (IF answered THEN ResetForm ELSE form) /\ post' = Idle
    BY DEF CreateDevice
<1>3. row \in DeviceRow /\ row.host = post.host /\ row.mdns = post.mdns
    BY <1>2 DEF StoreInv, PostType, DeviceRow, Keys
<1>. HIDE DEF row
<1>4. /\ DOMAIN devices' = DOMAIN devices \cup {d} /\ devices'[d] = row
      /\ \A e \in DOMAIN devices : e # d /\ devices'[e] = devices[e]
    BY <1>1
<1>5. devices' \in [DOMAIN devices' -> DeviceRow]
    BY <1>1, <1>3, <1>4 DEF StoreInv
<1>6. Unique(devices')
    <2>1. \A e \in DOMAIN devices : devices[e].host # row.host /\ (row.mdns # NoMdns => devices[e].mdns # row.mdns)
        BY <1>2, <1>3 DEF Free
    <2>. QED BY <1>4, <2>1 DEF StoreInv, Unique
<1>7. \A e \in DOMAIN devices' : SameLight(devices'[e].host, devices'[e].mdns)
    BY <1>3, <1>4 DEF StoreInv
<1>8. form' \in FormType /\ (form'.host = Empty \/ SameLight(form'.host, form'.mdns))
    <2>1. CASE answered
        <3>1. form' = [form EXCEPT !.host = Empty] /\ form \in FormType
            BY <1>2, <2>1 DEF ResetForm, StoreInv
        <3>. QED BY <3>1 DEF FormType
    <2>2. CASE ~ answered
        BY <1>2, <2>2 DEF StoreInv
    <2>. QED BY <2>1, <2>2
<1>9. post' \in PostType /\ SameLight(post'.host, post'.mdns) /\ post' = Idle
    BY <1>2 DEF Idle, PostType, SameLight
<1>. QED BY <1>4, <1>5, <1>6, <1>7, <1>8, <1>9 DEF StoreInv

\* Only a result gives the form the name of a light, with the light's address.
LEMMA FormKeepsStore ==
    ASSUME StoreInv, UNCHANGED <<devices, post>>,
           \/ Scan \/ BeginScan \/ \E found \in SUBSET Lights : AnswerScan(found)
           \/ \E l \in Lights : UseResult(l)
           \/ \E host \in Hosts \cup {Empty} : TypeHost(host)
    PROVE  StoreInv'
<1>. SUFFICES form' \in FormType /\ (form'.host = Empty \/ SameLight(form'.host, form'.mdns))
    BY DEF StoreInv
<1>1. form \in FormType /\ (form.host = Empty \/ SameLight(form.host, form.mdns))
    BY DEF StoreInv
<1>2. CASE Scan
    <2>1. form' = [form EXCEPT !.scan = "asked", !.results = {}]
        BY <1>2 DEF Scan
    <2>. QED BY <1>1, <2>1 DEF FormType
<1>3. CASE BeginScan
    <2>1. PICK unknown \in SUBSET Lights : form' = [form EXCEPT !.scan = "running", !.unknown = unknown]
        BY <1>3 DEF BeginScan
    <2>. QED BY <1>1, <2>1 DEF FormType
<1>4. ASSUME NEW found \in SUBSET Lights, AnswerScan(found)
      PROVE  form' \in FormType /\ (form'.host = Empty \/ SameLight(form'.host, form'.mdns))
    <2>1. form' = [form EXCEPT !.scan = "idle", !.unknown = {}, !.results = found \cap form.unknown]
        BY <1>4 DEF AnswerScan
    <2>. QED BY <1>1, <2>1 DEF FormType
<1>5. ASSUME NEW l \in Lights, UseResult(l)
      PROVE  form' \in FormType /\ (form'.host = Empty \/ SameLight(form'.host, form'.mdns))
    <2>1. form' = [form EXCEPT !.host = l.host, !.mdns = l.mdns]
        BY <1>5 DEF UseResult, Enter
    <2>2. l.host \in Hosts /\ l.mdns \in MdnsNames
        BY PagesConstants DEF MdnsNames
    <2>3. form' \in FormType /\ form'.host = l.host /\ form'.mdns = l.mdns
        BY <1>1, <2>1, <2>2 DEF FormType
    <2>4. SameLight(l.host, l.mdns)
        BY PagesConstants DEF SameLight
    <2>. QED BY <2>3, <2>4
<1>6. ASSUME NEW host \in Hosts \cup {Empty}, TypeHost(host)
      PROVE  form' \in FormType /\ (form'.host = Empty \/ SameLight(form'.host, form'.mdns))
    <2>1. form' = [form EXCEPT !.host = host, !.mdns = NoMdns]
        BY <1>6 DEF TypeHost, Enter, HostEdited
    <2>. QED BY <1>1, <2>1 DEF FormType, SameLight
<1>. QED BY <1>2, <1>3, <1>4, <1>5, <1>6

LEMMA StoreNext == StoreInv /\ PatchesInv /\ [Next]_vars => StoreInv'
<1>. SUFFICES ASSUME StoreInv, PatchesInv, [Next]_vars PROVE StoreInv'
    OBVIOUS
<1>1. CASE PageNext
    <2>1. ASSUME NEW p \in DOMAIN patches, UpdateDevice(p) PROVE StoreInv'
        BY <2>1, PatchKeepsStore
    <2>2. ASSUME NEW answered \in BOOLEAN, RemoveThis(answered) PROVE StoreInv'
        <3>1. devices' = Without(1) /\ form' = form /\ post' = post
            BY <2>2 DEF RemoveThis, formVars
        <3>. QED BY <3>1, RemovalKeepsStore
    <2>3. CASE \/ \E run \in DOMAIN loads : Load(run) \/ Loaded(run) \/ LoadFails(run)
               \/ \E name \in Names \cup {Empty} : Edit(name)
               \/ CancelEdit \/ Save \/ Restart \/ AnswerRestart
               \/ \E key \in Keys : SelectIcon(key)
               \/ \E p \in DOMAIN patches : AnswerPatch(p) \/ PatchFails(p)
        <3>1. UNCHANGED <<serverVars, formVars>>
            BY ONLY <2>3, Zenon DEF Load, Loaded, LoadFails, Edit, CancelEdit, Save, Restart,
                   AnswerRestart, SelectIcon, Click, AnswerPatch, PatchFails
        <3>2. UNCHANGED <<devices, form, post>>
            BY <3>1 DEF serverVars, formVars
        <3>. QED BY <3>2, StoreFrame
    <2>. QED BY ONLY <1>1, <2>1, <2>2, <2>3, Zenon DEF PageNext
<1>2. CASE ListNext
    <2>1. ASSUME NEW d \in Ids, DeleteItem(d) PROVE StoreInv'
        <3>1. devices' = Without(d) /\ form' = form /\ post' = post
            BY <2>1 DEF DeleteItem, formVars
        <3>. QED BY <3>1, RemovalKeepsStore
    <2>2. CASE \/ Scan \/ BeginScan \/ \E found \in SUBSET Lights : AnswerScan(found)
               \/ \E l \in Lights : UseResult(l)
               \/ \E host \in Hosts \cup {Empty} : TypeHost(host)
        <3>1. UNCHANGED serverVars /\ UNCHANGED post
            BY ONLY <2>2, Zenon DEF Scan, BeginScan, AnswerScan, UseResult, TypeHost, Enter
        <3>2. UNCHANGED <<devices, post>>
            BY <3>1 DEF serverVars
        <3>. QED BY <2>2, <3>2, FormKeepsStore
    <2>3. CASE SubmitAdd
        <3>1. /\ form.host # Empty /\ post' = [host |-> form.host, mdns |-> form.mdns]
              /\ devices' = devices /\ form' = form
            BY <2>3 DEF SubmitAdd, serverVars
        <3>2. post' \in PostType /\ SameLight(post'.host, post'.mdns) /\ post'.host \in Hosts
            BY <3>1 DEF StoreInv, FormType, PostType
        <3>. QED BY <3>1, <3>2 DEF StoreInv
    <2>4. CASE CreateFails
        <3>1. post' = Idle /\ devices' = devices /\ form' = form
            BY <2>4 DEF CreateFails, serverVars
        <3>2. post' \in PostType /\ SameLight(post'.host, post'.mdns)
            BY <3>1 DEF Idle, PostType, SameLight
        <3>. QED BY <3>1, <3>2 DEF StoreInv
    <2>5. ASSUME NEW name \in Names, NEW answered \in BOOLEAN, CreateDevice(name, answered) PROVE StoreInv'
        BY <2>5, CreationKeepsStore
    <2>. QED BY ONLY <1>2, <2>1, <2>2, <2>3, <2>4, <2>5, Zenon DEF ListNext
<1>3. CASE Deploy \/ RestartServer \/ UNCHANGED vars
    <2>1. UNCHANGED <<devices, form, post>>
        BY <1>3 DEF Deploy, RestartServer, vars, serverVars, formVars
    <2>. QED BY <2>1, StoreFrame
<1>. QED BY ONLY [Next]_vars, <1>1, <1>2, <1>3, Zenon DEF Next

-----------------------------------------------------------------------------
(* init() and the requests of the page *)

LEMMA ReleaseNext == ReleaseInv /\ [Next]_vars => ReleaseInv'
<1>. SUFFICES ASSUME ReleaseInv, [Next]_vars PROVE ReleaseInv'
    OBVIOUS
<1>1. release \in Nat \ {0} /\ loaded \in 1..release
    <2>1. DOMAIN Releases = 1..Len(Releases) /\ Len(Releases) \in Nat
        BY PagesConstants, LenProperties
    <2>. QED BY <2>1 DEF ReleaseInv
<1>2. CASE Deploy
    <2>1. release + 1 \in DOMAIN Releases /\ release' = release + 1 /\ loaded' = loaded
        BY <1>2 DEF Deploy
    <2>. QED BY <1>1, <2>1 DEF ReleaseInv
<1>3. CASE RestartServer
    <2>1. loaded' = release /\ release' = release
        BY <1>3 DEF RestartServer
    <2>. QED BY <1>1, <2>1 DEF ReleaseInv
<1>4. CASE PageNext
    <2>1. UNCHANGED <<release, loaded>>
        <3>1. CASE \/ \E p \in DOMAIN patches : UpdateDevice(p)
                   \/ \E answered \in BOOLEAN : RemoveThis(answered)
            BY ONLY <3>1, Zenon DEF UpdateDevice, RemoveThis
        <3>2. CASE \/ \E run \in DOMAIN loads : Load(run) \/ Loaded(run) \/ LoadFails(run)
                   \/ \E name \in Names \cup {Empty} : Edit(name)
                   \/ CancelEdit \/ Save \/ Restart \/ AnswerRestart
                   \/ \E key \in Keys : SelectIcon(key)
                   \/ \E p \in DOMAIN patches : AnswerPatch(p) \/ PatchFails(p)
            <4>1. UNCHANGED serverVars
                BY ONLY <3>2, Zenon DEF Load, Loaded, LoadFails, Edit, CancelEdit, Save, Restart,
                       AnswerRestart, SelectIcon, Click, AnswerPatch, PatchFails
            <4>. QED BY <4>1 DEF serverVars
        <3>. QED BY ONLY <1>4, <3>1, <3>2, Zenon DEF PageNext
    <2>. QED BY <2>1 DEF ReleaseInv
<1>5. CASE ListNext
    <2>1. UNCHANGED <<release, loaded>>
        <3>1. CASE \/ \E d \in Ids : DeleteItem(d)
                   \/ \E name \in Names, answered \in BOOLEAN : CreateDevice(name, answered)
            BY ONLY <3>1, Zenon DEF DeleteItem, CreateDevice
        <3>2. CASE \/ Scan \/ BeginScan \/ SubmitAdd \/ CreateFails
                   \/ \E found \in SUBSET Lights : AnswerScan(found)
                   \/ \E l \in Lights : UseResult(l)
                   \/ \E host \in Hosts \cup {Empty} : TypeHost(host)
            <4>1. UNCHANGED serverVars
                BY ONLY <3>2, Zenon DEF Scan, BeginScan, SubmitAdd, CreateFails, AnswerScan, UseResult,
                       TypeHost, Enter
            <4>. QED BY <4>1 DEF serverVars
        <3>. QED BY ONLY <1>5, <3>1, <3>2, Zenon DEF ListNext
    <2>. QED BY <2>1 DEF ReleaseInv
<1>6. CASE UNCHANGED vars
    BY <1>6 DEF vars, serverVars, ReleaseInv
<1>. QED BY ONLY [Next]_vars, <1>2, <1>3, <1>4, <1>5, <1>6, Zenon DEF Next

\* The list, and the other actions, leave the page alone.
LEMMA PageStays ==
    \/ ListNext \/ Deploy \/ RestartServer \/ UNCHANGED vars
    => UNCHANGED <<page, loads, patches>>
<1>1. ListNext => UNCHANGED pageVars
    BY ONLY Zenon DEF ListNext, DeleteItem, Scan, BeginScan, SubmitAdd, CreateFails, AnswerScan,
           UseResult, TypeHost, Enter, CreateDevice
<1>2. Deploy \/ RestartServer \/ UNCHANGED vars => UNCHANGED pageVars
    BY DEF Deploy, RestartServer, vars, pageVars
<1>. QED BY <1>1, <1>2 DEF pageVars

LEMMA NothingType == Nothing \in Reads
BY DEF Nothing, Reads, Keys

LEMMA SeenType ==
    ASSUME StoreInv, 1 \in DOMAIN devices
    PROVE  /\ Seen(devices[1]) \in Reads /\ Seen(devices[1]).name \in Names
           /\ Seen(devices[1]).name = devices[1].name /\ Seen(devices[1]).icon = devices[1].icon
BY DEF StoreInv, DeviceRow, Seen, Reads

LEMMA EndedRun ==
    ASSUME NEW pc \in {"asked", "listening", "failed"}
    PROVE  /\ Ended(pc) \in RunType /\ Ended(pc).pc = pc /\ Ended(pc).read = Nothing
           /\ Counted(Runs(pc)) /\ DOMAIN Runs(pc) = {Ended(pc)}
<1>1. Ended(pc) \in RunType /\ Ended(pc).pc = pc /\ Ended(pc).read = Nothing
    BY NothingType DEF Ended, Run, RunType
<1>2. Counted(SetToBag({Ended(pc)})) /\ DOMAIN SetToBag({Ended(pc)}) = {Ended(pc)}
    BY DEF SetToBag, Counted
<1>3. Runs(pc) = With(SetToBag({Ended(pc)}), Ended(pc))
    BY DEF Runs, With
<1>4. Counted(Runs(pc)) /\ DOMAIN Runs(pc) = {Ended(pc)}
    BY <1>2, <1>3, AddedTo
<1>. QED BY <1>1, <1>4

\* What one run of init() becomes.
LEMMA RunBecomes ==
    ASSUME LoadsInv, NEW run \in DOMAIN loads, NEW next \in RunType, Becomes(run, next),
           IF next.pc = "answered" THEN next.read.name \in Names ELSE next.read = Nothing
    PROVE  /\ LoadsInv' /\ next \in DOMAIN loads'
           /\ DOMAIN loads' \subseteq DOMAIN loads \cup {next}
           /\ \A r \in DOMAIN loads : r # run => r \in DOMAIN loads'
<1>1. loads' = With(Less(loads, run), next) /\ Counted(loads)
    BY DEF Becomes, LoadsInv, With, Less
<1>2. /\ Counted(loads') /\ next \in DOMAIN loads'
      /\ DOMAIN loads' \subseteq DOMAIN loads \cup {next}
      /\ \A r \in DOMAIN loads : r # run => r \in DOMAIN loads'
    BY <1>1, MovedOn
<1>. QED BY <1>2 DEF LoadsInv

\* The three steps of a run of init(), with what each leaves of the others.
LEMMA InitSteps ==
    ASSUME StoreInv, LoadsInv, NEW run \in DOMAIN loads, Load(run) \/ Loaded(run) \/ LoadFails(run)
    PROVE  /\ LoadsInv' /\ UNCHANGED <<patches, devices>>
           /\ Ended("listening") \in DOMAIN loads => Ended("listening") \in DOMAIN loads'
           /\ Loaded(run) =>
                 /\ run.pc = "answered" /\ run.read \in Reads
                 /\ Ended("listening") \in DOMAIN loads'
                 /\ page.open
                 /\ page' = [page EXCEPT !.shown = run.read, !.icon = run.read.icon]
                 /\ DOMAIN loads' \subseteq DOMAIN loads \cup {Ended("listening")}
           /\ ~ Loaded(run) => page' = page /\ run.pc \in {"asked", "answered"}
           /\ Load(run) =>
                 /\ 1 \in DOMAIN devices /\ run.pc = "asked"
                 /\ DOMAIN loads' \subseteq DOMAIN loads \cup {Run("answered", Seen(devices[1]))}
           /\ LoadFails(run) => DOMAIN loads' \subseteq DOMAIN loads \cup {Ended("failed")}
<1>1. run \in RunType
    BY DEF LoadsInv
<1>2. UNCHANGED <<patches, devices>>
    BY DEF Load, Loaded, LoadFails, serverVars
<1>3. ~ Loaded(run) => page' = page /\ run.pc \in {"asked", "answered"}
    BY DEF Load, LoadFails
<1>4. ASSUME Load(run)
      PROVE  /\ LoadsInv' /\ 1 \in DOMAIN devices /\ run.pc = "asked"
             /\ DOMAIN loads' \subseteq DOMAIN loads \cup {Run("answered", Seen(devices[1]))}
             /\ \A r \in DOMAIN loads : r # run => r \in DOMAIN loads'
    <2>. DEFINE next == Run("answered", Seen(devices[1]))
    <2>1. 1 \in DOMAIN devices /\ run.pc = "asked" /\ Becomes(run, next)
        BY <1>4 DEF Load
    <2>2. next \in RunType /\ next.pc = "answered" /\ next.read.name \in Names
        BY <2>1, SeenType DEF Run, RunType
    <2>. HIDE DEF next
    <2>3. /\ LoadsInv' /\ DOMAIN loads' \subseteq DOMAIN loads \cup {next}
          /\ \A r \in DOMAIN loads : r # run => r \in DOMAIN loads'
        BY <2>1, <2>2, RunBecomes
    <2>. QED BY <2>1, <2>3 DEF next
<1>5. ASSUME Loaded(run)
      PROVE  /\ LoadsInv' /\ run.pc = "answered" /\ run.read \in Reads /\ page.open
             /\ page' = [page EXCEPT !.shown = run.read, !.icon = run.read.icon]
             /\ Ended("listening") \in DOMAIN loads'
             /\ DOMAIN loads' \subseteq DOMAIN loads \cup {Ended("listening")}
    <2>1. /\ run.pc = "answered" /\ Becomes(run, Ended("listening")) /\ page.open
          /\ page' = [page EXCEPT !.shown = run.read, !.icon = run.read.icon]
        BY <1>5 DEF Loaded
    <2>2. /\ LoadsInv' /\ Ended("listening") \in DOMAIN loads'
          /\ DOMAIN loads' \subseteq DOMAIN loads \cup {Ended("listening")}
        BY <2>1, EndedRun, RunBecomes
    <2>. QED BY <1>1, <2>1, <2>2 DEF RunType
<1>6. ASSUME LoadFails(run)
      PROVE  /\ LoadsInv' /\ DOMAIN loads' \subseteq DOMAIN loads \cup {Ended("failed")}
             /\ \A r \in DOMAIN loads : r # run => r \in DOMAIN loads'
    <2>1. Becomes(run, Ended("failed"))
        BY <1>6 DEF LoadFails
    <2>. QED BY <2>1, EndedRun, RunBecomes
<1>7. ~ Loaded(run) => run # Ended("listening")
    BY <1>3, EndedRun
<1>8. Ended("listening") \in DOMAIN loads => Ended("listening") \in DOMAIN loads'
    BY ONLY Load(run) \/ Loaded(run) \/ LoadFails(run), <1>4, <1>5, <1>6, <1>7
<1>9. LoadsInv'
    BY ONLY Load(run) \/ Loaded(run) \/ LoadFails(run), <1>4, <1>5, <1>6
<1>10. Loaded(run) =>
          /\ run.pc = "answered" /\ run.read \in Reads /\ Ended("listening") \in DOMAIN loads'
          /\ page.open /\ page' = [page EXCEPT !.shown = run.read, !.icon = run.read.icon]
          /\ DOMAIN loads' \subseteq DOMAIN loads \cup {Ended("listening")}
    BY ONLY <1>5
<1>11. Load(run) =>
          /\ 1 \in DOMAIN devices /\ run.pc = "asked"
          /\ DOMAIN loads' \subseteq DOMAIN loads \cup {Run("answered", Seen(devices[1]))}
    BY ONLY <1>4
<1>12. LoadFails(run) => DOMAIN loads' \subseteq DOMAIN loads \cup {Ended("failed")}
    BY ONLY <1>6
<1>. QED BY ONLY <1>2, <1>3, <1>8, <1>9, <1>10, <1>11, <1>12, Zenon

-----------------------------------------------------------------------------
(* What the page shows: one lemma per action *)

\* Only the page's own row counts, and nobody else writes its name and icon.
LEMMA RequestsFrame ==
    ASSUME RequestsInv, UNCHANGED <<page, loads, patches>>,
           1 \in DOMAIN devices' => 1 \in DOMAIN devices /\ devices'[1] = devices[1]
    PROVE  RequestsInv'
<1>1. LoadsInv' /\ PatchesInv' /\ PageInv'
    BY DEF RequestsInv, LoadsInv, PatchesInv, PageInv, HasDevice
<1>2. ShownInv'
    BY DEF RequestsInv, ShownInv, Sure, ReadsAreStored, InitOver, OneRequest, AllShown, Brings, ShowsStored
<1>. QED BY <1>1, <1>2 DEF RequestsInv

\* Steps that show nothing new.
LEMMA PageFrame ==
    ASSUME RequestsInv, UNCHANGED <<devices, loads, patches>>, page' \in PageType,
           page'.open = page.open, page'.shown = page.shown, page'.icon = page.icon, page'.sure = page.sure,
           page'.editing => page.open /\ HasDevice, page'.restarting => page.open
    PROVE  RequestsInv'
<1>1. LoadsInv' /\ PatchesInv'
    BY DEF RequestsInv, LoadsInv, PatchesInv
<1>2. PageInv'
    BY DEF RequestsInv, PageInv, HasDevice
<1>3. ShownInv'
    BY DEF RequestsInv, ShownInv, Sure, ReadsAreStored, InitOver, OneRequest, AllShown, Brings, ShowsStored
<1>. QED BY <1>1, <1>2, <1>3 DEF RequestsInv

LEMMA QuietSteps ==
    ASSUME RequestsInv,
           (\E name \in Names \cup {Empty} : Edit(name)) \/ CancelEdit \/ Restart \/ AnswerRestart
    PROVE  RequestsInv'
<1>1. page \in PageType /\ (page.editing => page.open /\ HasDevice) /\ (page.restarting => page.open)
    BY DEF RequestsInv, PageInv
<1>2. ASSUME NEW name \in Names \cup {Empty}, Edit(name) PROVE RequestsInv'
    <2>1. /\ page.open /\ HasDevice /\ page' = [page EXCEPT !.editing = TRUE, !.draft = name]
          /\ UNCHANGED <<devices, loads, patches>>
        BY <1>2 DEF Edit, StartEdit, serverVars
    <2>2. /\ page' \in PageType /\ page'.open = page.open /\ page'.shown = page.shown
          /\ page'.icon = page.icon /\ page'.sure = page.sure
          /\ page'.restarting = page.restarting
        BY <1>1, <2>1 DEF PageType
    <2>. QED BY <1>1, <2>1, <2>2, PageFrame
<1>3. CASE CancelEdit
    <2>1. /\ page' = [page EXCEPT !.editing = FALSE, !.draft = Empty]
          /\ UNCHANGED <<devices, loads, patches>>
        BY <1>3 DEF CancelEdit, serverVars
    <2>2. /\ page' \in PageType /\ page'.open = page.open /\ page'.shown = page.shown
          /\ page'.icon = page.icon /\ page'.sure = page.sure
          /\ page'.restarting = page.restarting
          /\ ~ page'.editing
        BY <1>1, <2>1 DEF PageType
    <2>. QED BY <1>1, <2>1, <2>2, PageFrame
<1>4. CASE Restart
    <2>1. /\ page.open /\ page' = [page EXCEPT !.restarting = TRUE]
          /\ UNCHANGED <<devices, loads, patches>>
        BY <1>4 DEF Restart, Click, serverVars
    <2>2. /\ page' \in PageType /\ page'.open = page.open /\ page'.shown = page.shown
          /\ page'.icon = page.icon /\ page'.sure = page.sure /\ page'.editing = page.editing
        BY <1>1, <2>1 DEF PageType
    <2>. QED BY <1>1, <2>1, <2>2, PageFrame
<1>5. CASE AnswerRestart
    <2>1. /\ page' = [page EXCEPT !.restarting = FALSE]
          /\ UNCHANGED <<devices, loads, patches>>
        BY <1>5 DEF AnswerRestart, serverVars
    <2>2. /\ page' \in PageType /\ page'.open = page.open /\ page'.shown = page.shown
          /\ page'.icon = page.icon /\ page'.sure = page.sure /\ page'.editing = page.editing
          /\ ~ page'.restarting
        BY <1>1, <2>1 DEF PageType
    <2>. QED BY <1>1, <2>1, <2>2, PageFrame
<1>. QED BY <1>2, <1>3, <1>4, <1>5

\* init() reads what is stored: no PATCH is out before one run has ended.
LEMMA InitKeepsRequests ==
    ASSUME StoreInv, RequestsInv, NEW run \in DOMAIN loads, Load(run) \/ Loaded(run) \/ LoadFails(run)
    PROVE  RequestsInv'
<1>1. LoadsInv /\ PatchesInv /\ PageInv /\ ShownInv
    BY DEF RequestsInv
<1>2. LoadsInv' /\ UNCHANGED <<patches, devices>>
    BY <1>1, InitSteps
<1>3. PatchesInv'
    BY <1>1, <1>2 DEF PatchesInv
<1>4. Ended("listening") \in DOMAIN loads => Ended("listening") \in DOMAIN loads'
    BY <1>1, InitSteps
<1>5. run.pc \in {"asked", "answered"}
    BY <1>1, InitSteps
<1>6. Sure => DOMAIN patches = {}
    BY <1>1, <1>5 DEF ShownInv, InitOver
<1>7. CASE Loaded(run)
    <2>1. /\ run.pc = "answered" /\ run.read \in Reads /\ Ended("listening") \in DOMAIN loads'
          /\ page.open /\ page' = [page EXCEPT !.shown = run.read, !.icon = run.read.icon]
          /\ DOMAIN loads' \subseteq DOMAIN loads \cup {Ended("listening")}
        BY <1>1, <1>7, InitSteps
    <2>2. page \in PageType /\ run.read.name \in Names /\ run.read.icon \in Keys
        BY <1>1, <2>1 DEF PageInv, LoadsInv, Reads
    <2>3. /\ page' \in PageType /\ page'.shown = run.read /\ page'.icon = run.read.icon
          /\ page'.open = page.open /\ page'.sure = page.sure
        BY <2>1, <2>2 DEF PageType
    <2>4. HasDevice'
        BY <2>2, <2>3, PagesConstants DEF HasDevice, Nothing
    <2>5. PageInv'
        BY <2>1, <2>3, <2>4 DEF PageInv
    <2>6. ASSUME Sure' PROVE ReadsAreStored' /\ DOMAIN patches' = {} /\ ShowsStored'
        <3>1. Sure
            BY <1>2, <2>3, <2>6 DEF Sure
        <3>2. ReadsAreStored
            BY <1>1, <3>1 DEF ShownInv
        <3>3. run.read = Seen(devices[1])
            BY <2>1, <3>2 DEF ReadsAreStored
        <3>4. ShowsStored'
            BY <1>2, <2>3, <3>3 DEF ShowsStored, Seen
        <3>5. ReadsAreStored'
            BY <1>2, <2>1, <3>2, EndedRun DEF ReadsAreStored
        <3>. QED BY <1>2, <1>6, <3>1, <3>4, <3>5
    <2>7. ShownInv'
        BY <2>6 DEF ShownInv, InitOver, OneRequest, AllShown
    <2>. QED BY <1>2, <1>3, <2>5, <2>7 DEF RequestsInv
<1>8. CASE Load(run) \/ LoadFails(run)
    <2>1. page' = page
        BY <1>8 DEF Load, LoadFails
    <2>2. PageInv'
        BY <1>1, <1>2, <1>4, <2>1 DEF PageInv, HasDevice
    <2>3. \A r \in DOMAIN loads' : r \in DOMAIN loads \/ r = Ended("failed")
                                       \/ (1 \in DOMAIN devices /\ r = Run("answered", Seen(devices[1])))
        BY <1>1, <1>8, InitSteps
    <2>4. Ended("listening") \in DOMAIN loads' => Ended("listening") \in DOMAIN loads
        BY <2>3, EndedRun DEF Run
    <2>5. ASSUME Sure' PROVE ReadsAreStored' /\ DOMAIN patches' = {} /\ AllShown'
        <3>1. Sure
            BY <1>2, <2>1, <2>5 DEF Sure
        <3>2. ReadsAreStored /\ AllShown
            BY <1>1, <3>1 DEF ShownInv
        <3>3. ReadsAreStored'
            BY <1>2, <2>3, <3>2, EndedRun DEF ReadsAreStored, Run
        <3>4. AllShown'
            BY <1>2, <2>1, <2>4, <3>2 DEF AllShown, ShowsStored
        <3>. QED BY <1>2, <1>6, <3>1, <3>3, <3>4
    <2>6. ShownInv'
        BY <2>5 DEF ShownInv, InitOver, OneRequest
    <2>. QED BY <1>2, <1>3, <2>2, <2>6 DEF RequestsInv
<1>. QED BY <1>7, <1>8

LEMMA PatchSent ==
    ASSUME NEW field \in {"name", "icon"}, NEW value \in (IF field = "name" THEN Names \cup {Empty} ELSE Keys)
    PROVE  /\ Patch(field, value) \in PatchType /\ Patch(field, value).field = field
           /\ Patch(field, value).value = value /\ Patch(field, value).pc = "sent"
BY NothingType DEF Patch, PatchType

\* The state of ShownInv when the one request of a quiet page is sent.
LEMMA SentFromQuiet ==
    ASSUME StoreInv, RequestsInv, UNCHANGED <<devices, loads>>, Quiet, NEW q, DOMAIN patches' = {q},
           page'.open = page.open, page'.shown = page.shown, page'.sure = page.sure, q.pc = "sent",
           IF q.field = "name" THEN page'.icon = page.icon /\ patches'[q] = 1
                               ELSE q.field = "icon" /\ page'.icon = q.value,
           Ended("listening") \in DOMAIN loads
    PROVE  ShownInv'
<1>. SUFFICES ASSUME Sure'
              PROVE  ReadsAreStored' /\ InitOver' /\ OneRequest' /\ AllShown' /\ Brings(q)'
    BY DEF ShownInv
<1>1. Sure /\ DOMAIN patches = {}
    BY EmptyBagHasNone DEF Sure, Quiet
<1>2. \A run \in DOMAIN loads : run.pc \in {"listening", "failed"}
    BY DEF Quiet
<1>3. ShowsStored
    BY <1>1 DEF RequestsInv, ShownInv, AllShown
<1>4. ReadsAreStored' /\ InitOver' /\ AllShown'
    BY <1>2 DEF ReadsAreStored, InitOver, AllShown
<1>5. OneRequest'
    BY DEF OneRequest
<1>6. Brings(q)'
    BY <1>3 DEF Brings, ShowsStored
<1>. QED BY <1>4, <1>5, <1>6

LEMMA SaveKeepsRequests ==
    ASSUME StoreInv, RequestsInv, Save
    PROVE  RequestsInv'
<1>. DEFINE q == Patch("name", page.draft)
<1>1. LoadsInv /\ PatchesInv /\ PageInv /\ page \in PageType /\ page.editing
    BY DEF RequestsInv, PageInv, Save
<1>2. /\ patches' = With(patches, q) /\ UNCHANGED <<devices, loads>>
      /\ page.open /\ page' = [page EXCEPT !.sure = @ /\ Quiet]
    BY DEF Save, Click, With, serverVars
<1>3. page.draft \in Names \cup {Empty}
    BY <1>1 DEF PageType
<1>4. q \in PatchType /\ q.field = "name" /\ q.value = page.draft /\ q.pc = "sent"
    BY <1>3, PatchSent
<1>. HIDE DEF q
<1>5. Counted(patches') /\ DOMAIN patches' = DOMAIN patches \cup {q}
    BY <1>1, <1>2, AddedTo DEF PatchesInv
<1>6. PatchesInv'
    BY <1>1, <1>3, <1>4, <1>5 DEF PatchesInv
<1>7. Ended("listening") \in DOMAIN loads
    BY <1>1, <1>2 DEF PageInv
<1>8. /\ page' \in PageType /\ page'.open = page.open /\ page'.shown = page.shown
      /\ page'.icon = page.icon
      /\ page'.editing = page.editing /\ page'.restarting = page.restarting
      /\ page'.sure = (page.sure /\ Quiet)
    BY <1>1, <1>2 DEF PageType
<1>9. PageInv'
    BY <1>1, <1>2, <1>7, <1>8 DEF PageInv, HasDevice
<1>10. ShownInv'
    <2>1. CASE ~ page'.sure
        BY <2>1 DEF ShownInv, Sure
    <2>2. CASE page'.sure
        <3>1. Quiet /\ page'.sure = page.sure /\ DOMAIN patches = {}
            BY <1>8, <2>2, EmptyBagHasNone DEF Quiet
        <3>2. DOMAIN patches' = {q} /\ patches'[q] = 1
            BY <1>2, <1>5, <3>1 DEF With, (+), SetToBag
        <3>. QED BY <1>2, <1>4, <1>7, <1>8, <3>1, <3>2, SentFromQuiet
    <2>. QED BY <2>1, <2>2
<1>11. LoadsInv'
    BY <1>1, <1>2 DEF LoadsInv
<1>. QED BY <1>6, <1>9, <1>10, <1>11 DEF RequestsInv

LEMMA SelectKeepsRequests ==
    ASSUME StoreInv, RequestsInv, NEW key \in Keys, SelectIcon(key)
    PROVE  RequestsInv'
<1>. DEFINE q == Patch("icon", key)
<1>1. LoadsInv /\ PatchesInv /\ PageInv /\ page \in PageType /\ Counted(patches)
    BY DEF RequestsInv, PageInv, PatchesInv
<1>2. /\ patches' = patches (+) [p \in (IF Listening = 0 THEN {} ELSE {q}) |-> Listening]
      /\ UNCHANGED <<devices, loads>>
      /\ page.open /\ page' = [page EXCEPT !.icon = key, !.sure = @ /\ (Listening = 0 \/ Quiet)]
    BY DEF SelectIcon, Click, serverVars
<1>3. q \in PatchType /\ q.field = "icon" /\ q.value = key /\ q.pc = "sent"
    BY PatchSent
<1>. HIDE DEF q
<1>4. Listening \in Nat /\ (Listening # 0 <=> Ended("listening") \in DOMAIN loads)
    BY <1>1 DEF LoadsInv, Counted, Listening
<1>5. /\ page' \in PageType /\ page'.open = page.open /\ page'.shown = page.shown
      /\ page'.icon = key
      /\ page'.editing = page.editing /\ page'.restarting = page.restarting
      /\ page'.sure = (page.sure /\ (Listening = 0 \/ Quiet))
    BY <1>1, <1>2 DEF PageType
<1>6. LoadsInv'
    BY <1>1, <1>2 DEF LoadsInv
<1>7. CASE Listening = 0
    <2>1. DOMAIN patches = {} /\ ~ HasDevice
        BY <1>1, <1>2, <1>4, <1>7 DEF PageInv
    <2>2. DOMAIN patches' = {}
        BY <1>2, <1>7, <2>1 DEF (+)
    <2>3. Counted(patches')
        BY <1>2, <1>7, <2>1, <2>2 DEF (+), Counted
    <2>4. PatchesInv'
        BY <2>2, <2>3 DEF PatchesInv
    <2>5. PageInv'
        BY <1>1, <1>2, <1>5, <2>1, <2>2 DEF PageInv, HasDevice
    <2>6. ASSUME Sure' PROVE ReadsAreStored'
        BY <1>2, <1>5, <2>6 DEF RequestsInv, ShownInv, Sure, ReadsAreStored
    <2>7. ShownInv'
        BY <1>2, <1>4, <1>7, <2>2, <2>6 DEF ShownInv, InitOver, OneRequest, AllShown
    <2>. QED BY <1>6, <2>4, <2>5, <2>7 DEF RequestsInv
<1>8. CASE Listening # 0
    <2>1. DOMAIN patches' = DOMAIN patches \cup {q}
        BY <1>2, <1>8 DEF (+)
    <2>2. \A p \in DOMAIN patches' : patches'[p] =
              (IF p \in DOMAIN patches THEN patches[p] ELSE 0) + (IF p = q THEN Listening ELSE 0)
        BY <1>2, <1>8 DEF (+)
    <2>3. \A p \in DOMAIN patches' : patches'[p] \in Nat \ {0}
        BY <1>1, <1>4, <1>8, <2>1, <2>2 DEF Counted
    <2>4. patches' = [p \in DOMAIN patches' |-> patches'[p]]
        BY <1>2 DEF (+)
    <2>5. PatchesInv'
        BY <1>1, <1>3, <2>1, <2>3, <2>4 DEF PatchesInv, Counted
    <2>6. PageInv'
        BY <1>1, <1>2, <1>4, <1>5, <1>8 DEF PageInv, HasDevice
    <2>7. ShownInv'
        <3>1. CASE ~ page'.sure
            BY <3>1 DEF ShownInv, Sure
        <3>2. CASE page'.sure
            <4>1. Quiet /\ page'.sure = page.sure /\ DOMAIN patches = {}
                BY <1>5, <1>8, <3>2, EmptyBagHasNone DEF Quiet
            <4>2. DOMAIN patches' = {q}
                BY <2>1, <4>1
            <4>. QED BY <1>2, <1>3, <1>4, <1>5, <1>8, <4>1, <4>2, SentFromQuiet
        <3>. QED BY <3>1, <3>2
    <2>. QED BY <1>6, <2>5, <2>6, <2>7 DEF RequestsInv
<1>. QED BY <1>7, <1>8

LEMMA UpdateKeepsRequests ==
    ASSUME StoreInv, RequestsInv, NEW p \in DOMAIN patches, UpdateDevice(p)
    PROVE  RequestsInv'
<1>. DEFINE q == [p EXCEPT !.pc = "carried out", !.read = Seen(devices'[1])]
<1>1. LoadsInv /\ PatchesInv /\ PageInv /\ Counted(patches) /\ p \in PatchType
    BY DEF RequestsInv, PatchesInv
<1>2. patches' = With(Less(patches, p), q) /\ p.pc = "sent" /\ UNCHANGED <<page, loads>>
    BY DEF UpdateDevice, With, Less
<1>3. /\ 1 \in DOMAIN devices /\ DOMAIN devices' = DOMAIN devices
      /\ devices' \in [DOMAIN devices' -> DeviceRow]
      /\ devices'[1] = [name |-> IF p.field = "name" THEN p.value ELSE devices[1].name,
                        icon |-> IF p.field = "name" THEN devices[1].icon ELSE p.value,
                        host |-> devices[1].host, mdns |-> devices[1].mdns]
    BY <1>1, PatchedRow
<1>4. Seen(devices'[1]) \in Reads /\ Seen(devices'[1]).name \in Names
    BY <1>3 DEF Seen, Reads, DeviceRow
<1>5. /\ q \in PatchType /\ q.field = p.field /\ q.value = p.value /\ q.pc = "carried out"
      /\ q.read = Seen(devices'[1])
    BY <1>1, <1>4 DEF PatchType
<1>. HIDE DEF q
<1>6. /\ Counted(patches') /\ q \in DOMAIN patches'
      /\ DOMAIN patches' \subseteq DOMAIN patches \cup {q}
      /\ \A z \in DOMAIN patches : z # p => z \in DOMAIN patches'
    BY <1>1, <1>2, MovedOn
<1>7. PatchesInv'
    BY <1>1, <1>4, <1>5, <1>6 DEF PatchesInv
<1>8. LoadsInv'
    BY <1>1, <1>2 DEF LoadsInv
<1>9. PageInv'
    BY <1>1, <1>2 DEF PageInv, HasDevice
<1>10. ASSUME Sure' PROVE ReadsAreStored' /\ InitOver' /\ OneRequest' /\ AllShown' /\ \A z \in DOMAIN patches' : Brings(z)'
    <2>1. Sure
        BY <1>2, <1>3, <1>10 DEF Sure
    <2>2. InitOver /\ OneRequest /\ \A z \in DOMAIN patches : Brings(z)
        BY <2>1 DEF RequestsInv, ShownInv
    <2>3. \A run \in DOMAIN loads : run.pc \in {"listening", "failed"}
        BY <2>2 DEF InitOver
    <2>4. ReadsAreStored' /\ InitOver' /\ AllShown'
        BY <1>2, <1>6, <2>3 DEF ReadsAreStored, InitOver, AllShown
    <2>5. \A z \in DOMAIN patches : z.field = p.field /\ z.value = p.value /\ (z.field = "name" => z = p)
        BY <2>2 DEF OneRequest
    <2>6. \A z \in DOMAIN patches' : z.field = p.field /\ z.value = p.value
        BY <1>5, <1>6, <2>5
    <2>7. ASSUME p.field = "name" PROVE DOMAIN patches' = {q} /\ patches'[q] = 1
        <3>1. DOMAIN patches = {p} /\ patches[p] = 1
            BY <2>2, <2>5, <2>7 DEF Brings
        <3>. QED BY <1>1, <1>2, <3>1, OneMovedOn
    <2>8. OneRequest'
        BY <2>6, <2>7 DEF OneRequest
    <2>9. ASSUME NEW z \in DOMAIN patches' PROVE Brings(z)'
        <3>1. CASE p.field = "name"
            <4>1. z = q /\ patches'[q] = 1
                BY <2>7, <3>1
            <4>2. page.icon = devices[1].icon
                BY <2>2, <3>1 DEF Brings
            <4>3. devices'[1].icon = devices[1].icon
                BY <1>3, <3>1
            <4>. QED BY <1>2, <1>5, <3>1, <4>1, <4>2, <4>3 DEF Brings
        <3>2. CASE p.field # "name"
            <4>1. p.field = "icon"
                BY <1>1, <3>2 DEF PatchType
            <4>2. devices'[1].icon = p.value /\ devices'[1].name = devices[1].name
                BY <1>3, <3>2
            <4>3. page.icon = p.value
                BY <2>2, <4>1 DEF Brings
            <4>4. z.pc = "carried out" => z.read = Seen(devices'[1])
                <5>1. CASE z = q
                    BY <1>5, <5>1
                <5>2. ASSUME z # q, z.pc = "carried out" PROVE z.read = Seen(devices'[1])
                    <6>1. z \in DOMAIN patches /\ z.field = "icon" /\ z.value = p.value
                        BY <1>6, <2>5, <4>1, <5>2
                    <6>2. z.read = Seen(devices[1]) /\ devices[1].icon = p.value
                        BY <2>2, <5>2, <6>1 DEF Brings
                    <6>3. devices'[1].name = devices[1].name /\ devices'[1].icon = devices[1].icon
                        BY <4>2, <6>2
                    <6>. QED BY <6>2, <6>3 DEF Seen
                <5>. QED BY <5>1, <5>2
            <4>. QED BY <1>2, <2>6, <4>1, <4>2, <4>3, <4>4 DEF Brings
        <3>. QED BY <3>1, <3>2
    <2>. QED BY <2>4, <2>8, <2>9
<1>11. ShownInv'
    BY <1>10 DEF ShownInv
<1>. QED BY <1>7, <1>8, <1>9, <1>11 DEF RequestsInv

\* The answer of a PATCH, whichever it was, brings what is stored.
LEMMA AnswerKeepsRequests ==
    ASSUME StoreInv, RequestsInv, NEW p \in DOMAIN patches, AnswerPatch(p)
    PROVE  RequestsInv'
<1>1. /\ LoadsInv /\ PatchesInv /\ PageInv /\ Counted(patches) /\ p \in PatchType
      /\ page \in PageType
      /\ p.read.name \in Names
    BY DEF RequestsInv, PatchesInv, PageInv, AnswerPatch
<1>2. /\ page.open /\ p.pc = "carried out" /\ page' = Patched(page, p)
      /\ patches' = Less(patches, p)
      /\ UNCHANGED <<devices, loads>>
    BY DEF AnswerPatch, Less, serverVars
<1>3. /\ page' \in PageType /\ page'.open = page.open /\ page'.shown = p.read
      /\ page'.icon = page.icon
      /\ page'.sure = page.sure /\ page'.restarting = page.restarting
      /\ page'.editing => page.editing
    <2>1. CASE p.field = "name"
        <3>1. page' = [[page EXCEPT !.shown = p.read] EXCEPT !.editing = FALSE, !.draft = Empty]
            BY <1>2, <2>1 DEF Patched
        <3>. QED BY <1>1, <3>1 DEF PageType, PatchType
    <2>2. CASE p.field # "name"
        <3>1. page' = [page EXCEPT !.shown = p.read]
            BY <1>2, <2>2 DEF Patched
        <3>. QED BY <1>1, <3>1 DEF PageType, PatchType
    <2>. QED BY <2>1, <2>2
<1>4. /\ Counted(patches') /\ DOMAIN patches' \subseteq DOMAIN patches
      /\ patches[p] = 1 => p \notin DOMAIN patches'
    BY <1>1, <1>2, RemovedFrom
<1>5. PatchesInv'
    BY <1>1, <1>4 DEF PatchesInv
<1>6. LoadsInv'
    BY <1>1, <1>2 DEF LoadsInv
<1>7. PageInv'
    <2>1. HasDevice'
        BY <1>1, <1>3, PagesConstants DEF HasDevice, Nothing
    <2>2. Ended("listening") \in DOMAIN loads'
        BY <1>1, <1>2 DEF PageInv
    <2>. QED BY <1>1, <1>2, <1>3, <2>1, <2>2 DEF PageInv
<1>8. ASSUME Sure' PROVE ReadsAreStored' /\ InitOver' /\ OneRequest' /\ AllShown' /\ \A z \in DOMAIN patches' : Brings(z)'
    <2>1. Sure
        BY <1>2, <1>3, <1>8 DEF Sure
    <2>2. ReadsAreStored /\ InitOver /\ OneRequest /\ Brings(p) /\ \A z \in DOMAIN patches : Brings(z)
        BY <2>1 DEF RequestsInv, ShownInv
    <2>3. p.read = Seen(devices[1])
        BY <1>2, <2>2 DEF Brings
    <2>4. ReadsAreStored' /\ InitOver'
        BY <1>2, <1>4, <2>2 DEF ReadsAreStored, InitOver
    <2>5. OneRequest'
        BY <1>4, <2>2 DEF OneRequest
    <2>6. AllShown'
        <3>1. page.icon = devices[1].icon
            BY <1>1, <1>2, <2>2 DEF Brings, PatchType
        <3>. QED BY <1>2, <1>3, <2>3, <3>1 DEF AllShown, ShowsStored
    <2>7. ASSUME NEW z \in DOMAIN patches' PROVE Brings(z)'
        <3>1. z \in DOMAIN patches /\ z.field = p.field /\ (z.field = "name" => z = p /\ patches[p] = 1)
            BY <1>4, <2>2 DEF OneRequest, Brings
        <3>2. z.field = "icon"
            BY <1>1, <1>4, <3>1 DEF PatchType
        <3>. QED BY <1>2, <1>3, <2>2, <3>1, <3>2 DEF Brings
    <2>. QED BY <2>4, <2>5, <2>6, <2>7
<1>9. ShownInv'
    BY <1>8 DEF ShownInv
<1>. QED BY <1>5, <1>6, <1>7, <1>9 DEF RequestsInv

\* A rename that was refused leaves the page as it was.
LEMMA FailureKeepsRequests ==
    ASSUME StoreInv, RequestsInv, NEW p \in DOMAIN patches, PatchFails(p)
    PROVE  RequestsInv'
<1>1. LoadsInv /\ PatchesInv /\ PageInv /\ Counted(patches) /\ p \in PatchType /\ page \in PageType
    BY DEF RequestsInv, PatchesInv, PageInv
<1>2. /\ page.open /\ page' = [page EXCEPT !.sure = @ /\ p.pc = "sent" /\ p.field = "name"]
      /\ patches' = Less(patches, p) /\ UNCHANGED <<devices, loads>>
    BY DEF PatchFails, Less, serverVars
<1>3. /\ page' \in PageType /\ page'.open = page.open /\ page'.shown = page.shown
      /\ page'.icon = page.icon
      /\ page'.editing = page.editing /\ page'.restarting = page.restarting
      /\ page'.sure = (page.sure /\ p.pc = "sent" /\ p.field = "name")
    BY <1>1, <1>2 DEF PageType
<1>4. /\ Counted(patches') /\ DOMAIN patches' \subseteq DOMAIN patches
      /\ patches[p] = 1 => p \notin DOMAIN patches'
    BY <1>1, <1>2, RemovedFrom
<1>5. PatchesInv'
    BY <1>1, <1>4 DEF PatchesInv
<1>6. LoadsInv'
    BY <1>1, <1>2 DEF LoadsInv
<1>7. PageInv'
    BY <1>1, <1>2, <1>3, <1>4 DEF PageInv, HasDevice
<1>8. ASSUME Sure' PROVE ReadsAreStored' /\ DOMAIN patches' = {} /\ ShowsStored'
    <2>1. Sure /\ p.pc = "sent" /\ p.field = "name"
        BY <1>2, <1>3, <1>8 DEF Sure
    <2>2. ReadsAreStored /\ OneRequest /\ Brings(p)
        BY <2>1 DEF RequestsInv, ShownInv
    <2>3. DOMAIN patches' = {}
        BY <1>4, <2>1, <2>2 DEF OneRequest, Brings
    <2>4. ShowsStored'
        BY <1>2, <1>3, <2>1, <2>2 DEF Brings, ShowsStored
    <2>. QED BY <1>2, <2>2, <2>3, <2>4 DEF ReadsAreStored
<1>9. ShownInv'
    BY <1>8 DEF ShownInv, InitOver, OneRequest, AllShown
<1>. QED BY <1>5, <1>6, <1>7, <1>9 DEF RequestsInv

\* With the device goes everything that the page showed.
LEMMA RemoveKeepsRequests ==
    ASSUME StoreInv, RequestsInv, NEW answered \in BOOLEAN, RemoveThis(answered)
    PROVE  RequestsInv'
<1>1. LoadsInv /\ PatchesInv /\ PageInv /\ Counted(patches) /\ page \in PageType
    BY DEF RequestsInv, PatchesInv, PageInv
<1>2. 1 \notin DOMAIN devices'
    BY DEF RemoveThis, Without
<1>3. ShownInv'
    BY <1>2 DEF ShownInv, Sure
<1>4. CASE answered
    <2>1. page' = Gone /\ loads' = Runs("failed") /\ patches' = Unanswered
        BY <1>4 DEF RemoveThis
    <2>2. LoadsInv'
        BY <2>1, EndedRun DEF LoadsInv
    <2>3. Counted(patches') /\ DOMAIN patches' \subseteq DOMAIN patches
        BY <1>1, <2>1 DEF Unanswered, Counted
    <2>4. PatchesInv'
        BY <1>1, <2>3 DEF PatchesInv
    <2>5. /\ page' \in PageType /\ ~ page'.open /\ ~ page'.editing /\ ~ page'.restarting
        BY <1>1, <2>1, NothingType DEF Gone, PageType, Keys
    <2>6. PageInv'
        BY <2>5 DEF PageInv
    <2>. QED BY <1>3, <2>2, <2>4, <2>6 DEF RequestsInv
<1>5. CASE ~ answered
    <2>1. UNCHANGED <<page, loads, patches>>
        BY <1>5 DEF RemoveThis, pageVars
    <2>2. LoadsInv' /\ PatchesInv' /\ PageInv'
        BY <1>1, <2>1 DEF LoadsInv, PatchesInv, PageInv, HasDevice
    <2>. QED BY <1>3, <2>2 DEF RequestsInv
<1>. QED BY <1>4, <1>5

\* The list and the server leave the page's row alone, or delete it.
LEMMA OthersKeepRequests ==
    ASSUME StoreInv, RequestsInv, ListNext \/ Deploy \/ RestartServer \/ UNCHANGED vars
    PROVE  RequestsInv'
<1>1. UNCHANGED <<page, loads, patches>>
    BY PageStays
<1>2. 1 \in DOMAIN devices' => 1 \in DOMAIN devices /\ devices'[1] = devices[1]
    <2>1. ASSUME NEW d \in Ids, DeleteItem(d) PROVE 1 \in DOMAIN devices' => 1 \in DOMAIN devices /\ devices'[1] = devices[1]
        BY <2>1 DEF DeleteItem, Without
    <2>2. ASSUME NEW name \in Names, NEW answered \in BOOLEAN, CreateDevice(name, answered)
          PROVE  1 \in DOMAIN devices' => 1 \in DOMAIN devices /\ devices'[1] = devices[1]
        <3>. DEFINE row == [name |-> name, icon |-> NoIcon, host |-> post.host, mdns |-> post.mdns]
        <3>1. PICK d \in Ids \ DOMAIN devices :
                  d # 1 /\ devices' = [e \in DOMAIN devices \cup {d} |-> IF e = d THEN row ELSE devices[e]]
            BY <2>2, Zenon DEF CreateDevice
        <3>. HIDE DEF row
        <3>. QED BY <3>1
    <2>3. CASE \/ Scan \/ BeginScan \/ SubmitAdd \/ CreateFails
               \/ \E found \in SUBSET Lights : AnswerScan(found)
               \/ \E l \in Lights : UseResult(l)
               \/ \E host \in Hosts \cup {Empty} : TypeHost(host)
        <3>1. UNCHANGED serverVars
            BY ONLY <2>3, Zenon DEF Scan, BeginScan, SubmitAdd, CreateFails, AnswerScan, UseResult,
                   TypeHost, Enter
        <3>. QED BY <3>1 DEF serverVars
    <2>4. CASE Deploy \/ RestartServer \/ UNCHANGED vars
        BY <2>4 DEF Deploy, RestartServer, vars, serverVars
    <2>5. CASE ListNext
        BY ONLY <2>5, <2>1, <2>2, <2>3, Zenon DEF ListNext
    <2>. QED BY ONLY <2>4, <2>5, ListNext \/ Deploy \/ RestartServer \/ UNCHANGED vars
<1>. QED BY <1>1, <1>2, RequestsFrame

LEMMA RequestsNext == StoreInv /\ RequestsInv /\ [Next]_vars => RequestsInv'
<1>. SUFFICES ASSUME StoreInv, RequestsInv, [Next]_vars PROVE RequestsInv'
    OBVIOUS
<1>1. ASSUME NEW run \in DOMAIN loads, Load(run) \/ Loaded(run) \/ LoadFails(run) PROVE RequestsInv'
    BY <1>1, InitKeepsRequests
<1>2. CASE (\E name \in Names \cup {Empty} : Edit(name)) \/ CancelEdit \/ Restart \/ AnswerRestart
    BY <1>2, QuietSteps
<1>3. CASE Save
    BY <1>3, SaveKeepsRequests
<1>4. ASSUME NEW key \in Keys, SelectIcon(key) PROVE RequestsInv'
    BY <1>4, SelectKeepsRequests
<1>5. ASSUME NEW p \in DOMAIN patches, UpdateDevice(p) PROVE RequestsInv'
    BY <1>5, UpdateKeepsRequests
<1>6. ASSUME NEW p \in DOMAIN patches, AnswerPatch(p) PROVE RequestsInv'
    BY <1>6, AnswerKeepsRequests
<1>7. ASSUME NEW p \in DOMAIN patches, PatchFails(p) PROVE RequestsInv'
    BY <1>7, FailureKeepsRequests
<1>8. ASSUME NEW answered \in BOOLEAN, RemoveThis(answered) PROVE RequestsInv'
    BY <1>8, RemoveKeepsRequests
<1>9. PageNext => RequestsInv'
    BY ONLY <1>1, <1>2, <1>3, <1>4, <1>5, <1>6, <1>7, <1>8, Zenon DEF PageNext
<1>10. CASE ListNext \/ Deploy \/ RestartServer \/ UNCHANGED vars
    BY <1>10, OthersKeepRequests
<1>. QED BY ONLY [Next]_vars, <1>9, <1>10, Zenon DEF Next

LEMMA DevicePagesInit == Init => DevicePagesInv
<1>. SUFFICES ASSUME Init PROVE DevicePagesInv
    OBVIOUS
<1>1. PICK row \in Start : devices = [i \in {1} |-> row]
    BY DEF Init
<1>2. row \in DeviceRow /\ SameLight(row.host, row.mdns) /\ 1 \in Ids
    BY PagesConstants DEF Ids
<1>3. /\ DOMAIN devices \subseteq Ids /\ devices \in [DOMAIN devices -> DeviceRow]
      /\ Unique(devices)
      /\ \A d \in DOMAIN devices : SameLight(devices[d].host, devices[d].mdns)
    BY <1>1, <1>2 DEF Unique
<1>4. form \in FormType /\ form.host = Empty
    BY DEF Init, FormType
<1>5. post = Idle /\ post \in PostType /\ SameLight(post.host, post.mdns)
    BY DEF Init, Idle, PostType, SameLight
<1>6. StoreInv
    BY <1>3, <1>4, <1>5 DEF StoreInv
<1>7. ReleaseInv
    BY DEF Init, ReleaseInv
<1>8. /\ page \in PageType /\ page.shown = Nothing /\ ~ page.editing /\ ~ page.restarting
      /\ loads = Runs(IF page.open THEN "asked" ELSE "failed")
      /\ DOMAIN patches = {} /\ Counted(patches)
    BY NothingType, EmptyBagHasNone DEF Init, PageType, Keys
<1>9. LoadsInv /\ \A run \in DOMAIN loads : run.pc # "answered" /\ (run.pc = "listening" => FALSE)
    <2>1. PICK pc \in {"asked", "listening", "failed"} : pc # "listening" /\ loads = Runs(pc)
        BY <1>8
    <2>. QED BY <2>1, EndedRun DEF LoadsInv
<1>10. PatchesInv
    BY <1>8 DEF PatchesInv
<1>11. PageInv
    BY <1>8 DEF PageInv, HasDevice
<1>12. ShownInv
    BY <1>8, <1>9, EndedRun DEF ShownInv, ReadsAreStored, InitOver, OneRequest, AllShown
<1>. QED BY <1>6, <1>7, <1>9, <1>10, <1>11, <1>12 DEF DevicePagesInv, RequestsInv

LEMMA DevicePagesNext == DevicePagesInv /\ [Next]_vars => DevicePagesInv'
BY StoreNext, ReleaseNext, RequestsNext DEF DevicePagesInv, RequestsInv

LEMMA DevicePagesInvariant == Spec => []DevicePagesInv
BY DevicePagesInit, DevicePagesNext, PTL DEF Spec

-----------------------------------------------------------------------------
(* Theorems *)

LEMMA PagesTyped == DevicePagesInv => TypeOK
<1>. SUFFICES ASSUME DevicePagesInv PROVE TypeOK
    OBVIOUS
<1>1. StoreInv /\ ReleaseInv /\ PatchesInv /\ PageInv
    BY DEF DevicePagesInv, RequestsInv
<1>2. /\ DOMAIN devices \subseteq Ids
      /\ \A d \in DOMAIN devices : devices[d] \in DeviceRow
      /\ \A d, e \in DOMAIN devices : d # e =>
            /\ devices[d].host # devices[e].host
            /\ devices[d].mdns = devices[e].mdns => devices[d].mdns = NoMdns
    BY <1>1 DEF StoreInv, Unique
<1>3. release \in DOMAIN Releases /\ loaded \in 1..release
    BY <1>1 DEF ReleaseInv
<1>4. /\ page.shown \in [name : Names \cup {Empty}, icon : Keys]
      /\ page.icon \in Keys /\ page.draft \in Names \cup {Empty}
      /\ page.editing => page.open /\ HasDevice
      /\ page.restarting => page.open
    BY <1>1 DEF PageInv, PageType, Reads
<1>5. \A p \in DOMAIN patches : p.pc \in {"sent", "carried out"} /\ p.read \in [name : Names \cup {Empty}, icon : Keys]
    BY <1>1 DEF PatchesInv, PatchType, Reads
<1>6. form.unknown \cup form.results \subseteq Lights /\ post.host \in Hosts \cup {Empty}
    BY <1>1 DEF StoreInv, FormType, PostType
<1>. QED BY <1>2, <1>3, <1>4, <1>5, <1>6 DEF TypeOK

\* The rows have their types, no two have one address or one mDNS name; the page
\* is edited only while it shows the device, and restarts only while it is open
\* (models.py Device, schemas.py DeviceUpdate, static/js/device_detail.js).
THEOREM PagesTypeCorrect == Spec => []TypeOK
BY DevicePagesInvariant, PagesTyped, PTL

\* The address and the mDNS name of a device are those of one light, whatever was
\* scanned, chosen, typed and submitted in between (templates/devices.html,
\* routers/devices.py create_device).
THEOREM AddressesKeepTheirName == Spec => []MdnsNameOfHost
<1>1. DevicePagesInv => MdnsNameOfHost
    BY DEF DevicePagesInv, StoreInv, SameLight, MdnsNameOfHost
<1>. QED BY <1>1, DevicePagesInvariant, PTL

-----------------------------------------------------------------------------
(* The icon tables: the last entry of a key counts, in both files *)

\* A non-empty set of naturals has a least element.
LEMMA LeastNatural == \A S \in SUBSET Nat : S # {} => \E n \in S : \A m \in S : n <= m
<1>. SUFFICES ASSUME NEW S \in SUBSET Nat, S # {} PROVE \E n \in S : \A m \in S : n <= m
    OBVIOUS
<1>. DEFINE R == OpToRel(<, Nat)
<1>1. IsWellFoundedOn(R, Nat)
    BY NatLessThanWellFounded
<1>2. \A a, b \in Nat : <<a, b>> \in R <=> a < b
    BY DEF OpToRel
<1>. HIDE DEF R
<1>3. \E n \in S : \A m \in S : ~ (<<m, n>> \in R)
    BY <1>1, WFMin
<1>4. PICK n \in S : \A m \in S : ~ (<<m, n>> \in R)
    BY <1>3
<1>5. \A m \in S : ~ (m < n)
    BY <1>2, <1>4
<1>. QED BY <1>5

LEMMA MaxOfSome ==
    ASSUME NEW n \in Nat, NEW S \in SUBSET (1..n), S # {}
    PROVE  Max(S) \in S /\ \A i \in S : i <= Max(S)
<1>. DEFINE T == {k \in Nat : n - k \in S}
<1>1. PICK i \in S : TRUE
    OBVIOUS
<1>2. n - i \in T
    BY <1>1
<1>3. PICK k \in T : \A m \in T : k <= m
    BY <1>2, LeastNatural
<1>4. n - k \in S /\ \A j \in S : n - j \in T /\ j <= n - k
    BY <1>3
<1>5. \E x \in S : \A y \in S : x >= y
    BY <1>4
<1>. QED BY <1>5 DEF Max

LEMMA SeqOfSet ==
    ASSUME NEW S, IsFiniteSet(S)
    PROVE  /\ Cardinality(S) \in Nat /\ SetToSeq(S) \in [1..Cardinality(S) -> S]
           /\ \A x \in S : \E i \in 1..Cardinality(S) : SetToSeq(S)[i] = x
<1>. DEFINE n == Cardinality(S)
            s == SetToSeq(S)
<1>1. n \in Nat /\ ExistsBijection(1..n, S)
    BY FS_CardinalityType
<1>2. \E f \in [1..n -> S] : IsInjective(f)
    BY <1>1 DEF ExistsBijection, Bijection, Injection
<1>3. s \in [1..n -> S] /\ IsInjective(s)
    BY <1>2 DEF SetToSeq
<1>4. IsFiniteSet(1..n) /\ Cardinality(1..n) = n
    BY <1>1, FS_Interval
<1>5. s \in Injection(1..n, S)
    BY <1>3 DEF Injection
<1>. HIDE DEF s
<1>6. s \in Surjection(1..n, S)
    BY <1>4, <1>5, FS_Injection
<1>. QED BY <1>1, <1>3, <1>6 DEF Surjection, s

LEMMA EntriesOf ==
    ASSUME NEW T, IsFiniteSet(DOMAIN T)
    PROVE  LET s == Entries(T) IN
           /\ s \in Seq({<<k, T[k]>> : k \in DOMAIN T})
           /\ \A k \in DOMAIN T : \E i \in 1..Len(s) : s[i] = <<k, T[k]>>
<1>. DEFINE pairs == {<<k, T[k]>> : k \in DOMAIN T}
            f == [k \in DOMAIN T |-> <<k, T[k]>>]
<1>1. f \in Surjection(DOMAIN T, pairs)
    BY DEF Surjection
<1>2. \A k \in DOMAIN T : <<k, T[k]>> \in pairs
    OBVIOUS
<1>3. Entries(T) = SetToSeq(pairs)
    BY DEF Entries
<1>. HIDE DEF pairs, f
<1>4. IsFiniteSet(pairs)
    BY <1>1, FS_Surjection
<1>5. /\ Cardinality(pairs) \in Nat /\ SetToSeq(pairs) \in [1..Cardinality(pairs) -> pairs]
      /\ \A x \in pairs : \E i \in 1..Cardinality(pairs) : SetToSeq(pairs)[i] = x
    BY <1>4, SeqOfSet
<1>6. SetToSeq(pairs) \in Seq(pairs) /\ Len(SetToSeq(pairs)) = Cardinality(pairs)
    BY <1>5, IsASeq, LenProperties
<1>7. \A k \in DOMAIN T : \E i \in 1..Len(Entries(T)) : Entries(T)[i] = <<k, T[k]>>
    BY <1>2, <1>3, <1>5, <1>6
<1>. QED BY <1>3, <1>6, <1>7 DEF pairs

\* The body of ICONS: the object with these entries.
Literal(es) ==
    [k \in {es[i][1] : i \in DOMAIN es} |-> es[SelectLastInSeq(es, LAMBDA e : e[1] = k)][2]]

Overlaid(A, B) == [k \in DOMAIN A \cup DOMAIN B |-> IF k \in DOMAIN B THEN B[k] ELSE A[k]]

\* What an object literal of two tables holds: a key of the second goes before.
LEMMA LiteralOf ==
    ASSUME NEW A, NEW B, IsFiniteSet(DOMAIN A), IsFiniteSet(DOMAIN B),
           NEW es, es = Entries(A) \o Entries(B)
    PROVE  Literal(es) = Overlaid(A, B)
<1>. DEFINE a == Entries(A)
            b == Entries(B)
            PA == {<<k, A[k]>> : k \in DOMAIN A}
            PB == {<<k, B[k]>> : k \in DOMAIN B}
<1>1. a \in Seq(PA) /\ \A k \in DOMAIN A : \E i \in 1..Len(a) : a[i] = <<k, A[k]>>
    BY EntriesOf
<1>2. b \in Seq(PB) /\ \A k \in DOMAIN B : \E i \in 1..Len(b) : b[i] = <<k, B[k]>>
    BY EntriesOf
<1>3. /\ \A e \in PA : e[1] \in DOMAIN A /\ e[2] = A[e[1]]
      /\ \A e \in PB : e[1] \in DOMAIN B /\ e[2] = B[e[1]]
    OBVIOUS
<1>4. es = a \o b
    OBVIOUS
<1>. HIDE DEF a, b, PA, PB
<1>5. /\ Len(a) \in Nat /\ DOMAIN a = 1..Len(a) /\ \A i \in 1..Len(a) : a[i] \in PA
      /\ Len(b) \in Nat /\ DOMAIN b = 1..Len(b) /\ \A i \in 1..Len(b) : b[i] \in PB
    BY <1>1, <1>2, LenProperties, ElementOfSeq
<1>6. a \in Seq(PA \cup PB) /\ b \in Seq(PA \cup PB)
    BY <1>1, <1>2, <1>5, LenProperties, IsASeq
<1>7. /\ Len(es) = Len(a) + Len(b) /\ DOMAIN es = 1..(Len(a) + Len(b))
      /\ \A i \in 1..Len(a) : es[i] = a[i]
      /\ \A i \in 1..Len(b) : es[Len(a) + i] = b[i]
    BY <1>4, <1>5, <1>6, ConcatProperties, LenProperties
<1>8. \A i \in DOMAIN es :
          \/ i <= Len(a) /\ es[i][1] \in DOMAIN A /\ es[i][2] = A[es[i][1]]
          \/ i > Len(a) /\ es[i][1] \in DOMAIN B /\ es[i][2] = B[es[i][1]]
    <2>1. ASSUME NEW i \in 1..(Len(a) + Len(b)), i > Len(a)
          PROVE  es[i] = b[i - Len(a)] /\ i - Len(a) \in 1..Len(b)
        BY <1>5, <1>7, <2>1
    <2>. QED BY <1>3, <1>5, <1>7, <2>1
<1>9. \A k \in DOMAIN A : \E i \in DOMAIN es : es[i][1] = k
    <2>1. ASSUME NEW k \in DOMAIN A PROVE \E i \in DOMAIN es : es[i][1] = k
        <3>1. PICK i \in 1..Len(a) : a[i] = <<k, A[k]>>
            BY <1>1
        <3>2. i \in DOMAIN es /\ es[i][1] = k
            BY <1>5, <1>7, <3>1
        <3>. QED BY <3>2
    <2>. QED BY <2>1
<1>10. \A k \in DOMAIN B : \E i \in DOMAIN es : i > Len(a) /\ es[i][1] = k
    <2>1. ASSUME NEW k \in DOMAIN B PROVE \E i \in DOMAIN es : i > Len(a) /\ es[i][1] = k
        <3>1. PICK i \in 1..Len(b) : b[i] = <<k, B[k]>>
            BY <1>2
        <3>2. Len(a) + i \in DOMAIN es /\ Len(a) + i > Len(a) /\ es[Len(a) + i][1] = k
            BY <1>5, <1>7, <3>1
        <3>. QED BY <3>2
    <2>. QED BY <2>1
<1>11. {es[i][1] : i \in DOMAIN es} = DOMAIN A \cup DOMAIN B
    BY <1>8, <1>9, <1>10
<1>12. ASSUME NEW k \in DOMAIN A \cup DOMAIN B
       PROVE  es[SelectLastInSeq(es, LAMBDA e : e[1] = k)][2] = IF k \in DOMAIN B THEN B[k] ELSE A[k]
    <2>. DEFINE I == {i \in 1..Len(es) : es[i][1] = k}
                m == Max(I)
    <2>1. SelectLastInSeq(es, LAMBDA e : e[1] = k) = IF I # {} THEN m ELSE 0
        BY DEF SelectLastInSeq
    <2>2. I # {} /\ I \in SUBSET (1..Len(es)) /\ Len(es) \in Nat
        BY <1>5, <1>7, <1>9, <1>10
    <2>3. m \in I /\ \A i \in I : i <= m
        BY ONLY <2>2, MaxOfSome
    <2>. HIDE DEF m
    <2>4. m \in DOMAIN es /\ es[m][1] = k /\ \A i \in DOMAIN es : es[i][1] = k => i <= m
        BY <1>7, <2>3
    <2>. HIDE DEF I
    <2>5. ASSUME k \in DOMAIN B PROVE m > Len(a)
        <3>1. PICK i \in DOMAIN es : i > Len(a) /\ es[i][1] = k
            BY <1>10, <2>5
        <3>2. i <= m /\ i \in Nat /\ m \in Nat
            BY <1>5, <1>7, <2>4, <3>1
        <3>. QED BY <1>5, <3>1, <3>2
    <2>6. es[m][2] = IF k \in DOMAIN B THEN B[k] ELSE A[k]
        <3>1. m \in Nat /\ Len(a) \in Nat
            BY <1>5, <1>7, <2>4
        <3>. QED BY <1>8, <2>4, <2>5, <3>1
    <2>. QED BY <2>1, <2>2, <2>6
<1>. QED BY <1>11, <1>12 DEF Literal, Overlaid

LEMMA FilesAreFinite == ASSUME NEW R \in SUBSET FileNames PROVE IsFiniteSet(R)
<1>1. Len(Files) \in Nat /\ DOMAIN Files = 1..Len(Files)
    BY IconsAssumption, LenProperties
<1>2. Files \in Surjection(DOMAIN Files, FileNames)
    <2>1. Files \in [DOMAIN Files -> FileNames]
        BY <1>1, IconsAssumption, ElementOfSeq DEF FileNames
    <2>. QED BY <2>1 DEF Surjection, FileNames
<1>3. IsFiniteSet(DOMAIN Files)
    BY <1>1, FS_Interval
<1>4. IsFiniteSet(FileNames)
    BY <1>2, <1>3, FS_Surjection
<1>. QED BY <1>4, FS_Subset

LEMMA SmallSets ==
    ASSUME NEW S, IsFiniteSet(S), NEW a, NEW b, NEW c
    PROVE  IsFiniteSet(S \cup {a, b, c})
<1>1. IsFiniteSet(S \cup {a})
    BY FS_AddElement
<1>2. IsFiniteSet((S \cup {a}) \cup {b})
    BY <1>1, FS_AddElement
<1>3. IsFiniteSet(((S \cup {a}) \cup {b}) \cup {c})
    BY <1>2, FS_AddElement
<1>4. ((S \cup {a}) \cup {b}) \cup {c} = S \cup {a, b, c}
    OBVIOUS
<1>. QED BY <1>3, <1>4

LEMMA AliasesAreFinite == IsFiniteSet(DOMAIN UTILITY_ALIASES)
<1>. DEFINE A == {"moon", "sun", "sunHorizon"}
            B == A \cup {"clock", "bulb", "plus"}
            C == B \cup {"chevronRight", "calendar", "devices"}
            D == C \cup {"history", "gear", "sparkle"}
            E == D \cup {"pencil", "close", "globe"}
            F == E \cup {"bolt", "palette", "brightness"}
            G == F \cup {"pin", "chevronLeft", "wifi"}
            H == G \cup {"shieldCheck", "alertTriangle", "skipForward"}
            I == H \cup {"crosshair", "trash", "info"}
<1>1. DOMAIN UTILITY_ALIASES = I
    BY DEF UTILITY_ALIASES
<1>2. A = {} \cup {"moon", "sun", "sunHorizon"} /\ IsFiniteSet({})
    BY FS_EmptySet
<1>. HIDE DEF A
<1>3. IsFiniteSet(A)
    BY ONLY <1>2, SmallSets
<1>4. IsFiniteSet(B)
    BY ONLY <1>3, SmallSets
<1>. HIDE DEF B
<1>5. IsFiniteSet(C)
    BY ONLY <1>4, SmallSets
<1>. HIDE DEF C
<1>6. IsFiniteSet(D)
    BY ONLY <1>5, SmallSets
<1>. HIDE DEF D
<1>7. IsFiniteSet(E)
    BY ONLY <1>6, SmallSets
<1>. HIDE DEF E
<1>8. IsFiniteSet(F)
    BY ONLY <1>7, SmallSets
<1>. HIDE DEF F
<1>9. IsFiniteSet(G)
    BY ONLY <1>8, SmallSets
<1>. HIDE DEF G
<1>10. IsFiniteSet(H)
    BY ONLY <1>9, SmallSets
<1>. HIDE DEF H
<1>11. IsFiniteSet(I)
    BY ONLY <1>10, SmallSets
<1>. QED BY <1>1, <1>11

LEMMA TablesAreFinite ==
    ASSUME NEW R \in SUBSET FileNames
    PROVE  IsFiniteSet(DOMAIN LucideByCamelKey(R)) /\ IsFiniteSet(DOMAIN UtilityEntries(R))
<1>. DEFINE keys == {CamelKey[f] : f \in R}
            keyOf == [f \in R |-> CamelKey[f]]
<1>1. DOMAIN LucideByCamelKey(R) = keys /\ DOMAIN UtilityEntries(R) \subseteq DOMAIN UTILITY_ALIASES
    BY DEF LucideByCamelKey, UtilityEntries
<1>2. keyOf \in Surjection(R, keys)
    BY DEF Surjection
<1>. HIDE DEF keys, keyOf
<1>3. IsFiniteSet(keys)
    BY <1>2, FilesAreFinite, FS_Surjection
<1>4. IsFiniteSet(DOMAIN UtilityEntries(R))
    BY <1>1, AliasesAreFinite, FS_Subset
<1>. QED BY <1>1, <1>3, <1>4

\* What both files of one release have under a key, which is what GlyphOf says.
LEMMA GlyphsOfARelease ==
    ASSUME NEW v \in DOMAIN Releases, NEW key
    PROVE  /\ key \in DOMAIN ICONS(Releases[v]) <=> key \in DOMAIN PICKER_ICON_SVGS(Releases[v])
           /\ IF key \in DOMAIN ICONS(Releases[v])
              THEN /\ ICONS(Releases[v])[key] = GlyphOf(v, key)
                   /\ PICKER_ICON_SVGS(Releases[v])[key] = GlyphOf(v, key)
              ELSE GlyphOf(v, key) = NoGlyph
           /\ Has(v, key) <=> key \in DOMAIN ICONS(Releases[v])
<1>. DEFINE R == Releases[v]
            L == LucideByCamelKey(R)
            U == UtilityEntries(R)
            es == AllIconEntries(R)
<1>1. R \in SUBSET FileNames
    BY PagesConstants, LenProperties, ElementOfSeq
<1>2. GlyphOf(v, key) = IF key \in DOMAIN U THEN U[key] ELSE IF key \in DOMAIN L THEN L[key] ELSE NoGlyph
    <2>1. /\ key \in DOMAIN U <=> key \in DOMAIN UTILITY_ALIASES /\ UTILITY_ALIASES[key] \in R
          /\ key \in DOMAIN U => U[key] = UTILITY_ALIASES[key]
        BY DEF UtilityEntries
    <2>2. /\ key \in DOMAIN L <=> {f \in R : CamelKey[f] = key} # {}
          /\ key \in DOMAIN L => L[key] = LastOf({f \in R : CamelKey[f] = key})
        BY DEF LucideByCamelKey
    <2>. HIDE DEF U, L
    <2>. QED BY <2>1, <2>2 DEF GlyphOf
<1>3. Has(v, key) <=> key \in DOMAIN L \cup DOMAIN U
    BY DEF Has, UtilityEntries, LucideByCamelKey
<1>4. PICKER_ICON_SVGS(R) = [k \in DOMAIN L \cup DOMAIN U |-> IF k \in DOMAIN U THEN U[k] ELSE L[k]]
    BY DEF PICKER_ICON_SVGS, JsonPayload
<1>5. IsFiniteSet(DOMAIN L) /\ IsFiniteSet(DOMAIN U)
    BY <1>1, TablesAreFinite
<1>6. es = Entries(L) \o Entries(U)
    BY DEF AllIconEntries
<1>7. ICONS(R) = Literal(es)
    BY DEF ICONS, Literal
<1>. HIDE DEF U, L, es
<1>8. Literal(es) = Overlaid(L, U)
    BY ONLY <1>5, <1>6, LiteralOf, Zenon
<1>. QED BY <1>2, <1>3, <1>4, <1>7, <1>8 DEF Overlaid

\* The last part of DeviceShown, of a page and a list of version v.
DrawnAlike(v, shown, stored) ==
    LET glyph == GlyphOf(v, shown)
        onPage == _deviceGlyph(ICONS(Releases[v]), shown)
        inRow == RowGlyph(PICKER_ICON_SVGS(Releases[v]), stored)
    IN IF Has(v, shown) THEN onPage = glyph /\ inRow = glyph
       ELSE onPage = OwnBulb /\ inRow = GlyphOf(v, "lightbulb")

LEMMA GlyphsDrawn ==
    ASSUME NEW v \in DOMAIN Releases, NEW key
    PROVE  DrawnAlike(v, key, key)
<1>. DEFINE icons == ICONS(Releases[v])
            svgs == PICKER_ICON_SVGS(Releases[v])
<1>. HIDE DEF icons, svgs
<1>1. /\ key \in DOMAIN icons <=> key \in DOMAIN svgs
      /\ IF key \in DOMAIN icons THEN icons[key] = GlyphOf(v, key) /\ svgs[key] = GlyphOf(v, key)
                                 ELSE GlyphOf(v, key) = NoGlyph
      /\ Has(v, key) <=> key \in DOMAIN icons
    BY GlyphsOfARelease DEF icons, svgs
<1>2. LightbulbGlyph(svgs) = GlyphOf(v, "lightbulb")
    BY GlyphsOfARelease DEF icons, svgs, LightbulbGlyph
<1>3. CASE key \in DOMAIN icons
    <2>1. _deviceGlyph(icons, key) = GlyphOf(v, key) /\ RowGlyph(svgs, key) = GlyphOf(v, key)
        BY <1>1, <1>3 DEF _deviceGlyph, RowGlyph
    <2>. QED BY <1>1, <1>3, <2>1 DEF DrawnAlike, icons, svgs
<1>4. CASE key \notin DOMAIN icons
    <2>1. _deviceGlyph(icons, key) = OwnBulb /\ RowGlyph(svgs, key) = GlyphOf(v, "lightbulb")
        BY <1>1, <1>2, <1>4 DEF _deviceGlyph, RowGlyph
    <2>. QED BY <1>1, <1>4, <2>1 DEF DrawnAlike, icons, svgs
<1>. QED BY <1>3, <1>4

\* A page at rest shows the device as it is stored, and draws its icon as the list
\* does, though init() runs twice and PATCHes are answered in any order
\* (static/js/device_detail.js, scripts/generate-icons.js, pages.py).
THEOREM DeviceIsShown == Spec => []DeviceShown
<1>1. ASSUME DevicePagesInv PROVE DeviceShown
    <2>. SUFFICES ASSUME page.open, page.sure, Quiet, Listening # 0, 1 \in DOMAIN devices
                  PROVE  /\ page.shown = Seen(devices[1]) /\ page.icon = devices[1].icon
                         /\ page.icons = loaded => DrawnAlike(loaded, page.icon, devices[1].icon)
        BY DEF DeviceShown, DrawnAlike
    <2>1. ShownInv /\ ReleaseInv /\ PageInv /\ Sure
        BY <1>1 DEF DevicePagesInv, RequestsInv, Sure
    <2>2. DOMAIN patches = {} /\ Ended("listening") \in DOMAIN loads
        BY EmptyBagHasNone DEF Quiet, Listening
    <2>3. page.shown = Seen(devices[1]) /\ page.icon = devices[1].icon
        BY <2>1, <2>2 DEF ShownInv, AllShown, ShowsStored
    <2>4. page.icons \in DOMAIN Releases
        BY <2>1 DEF PageInv, PageType
    <2>. QED BY <2>3, <2>4, GlyphsDrawn
<1>. QED BY <1>1, DevicePagesInvariant, PTL
=============================================================================
