---------------------------- MODULE DevicePages ----------------------------
(***************************************************************************)
(* The page of one device (static/js/device_detail.js with the icon picker *)
(* of templates/macros/icon_picker.html) or, in the same window, the list  *)
(* with its form that adds a device (static/js/devices.js,                 *)
(* templates/devices.html), over routers/devices.py.  A step is a handler  *)
(* up to its next await; requests are carried out, and their answers come  *)
(* back, in any order, also for a page that was left.                      *)
(***************************************************************************)
EXTENDS Icons, FiniteSets, Bags

CONSTANTS
    Names,      \* names of a device the schema accepts
    Releases,   \* <<set of Lucide files, ...>>, one per version of the app
    Hosts,      \* addresses
    Lights,     \* [host, mdns]: what is in the network, scanned or not
    Start,      \* what may be stored of the page's device
    MaxSaves,   \* bound: saves on the device page
    MaxEvents   \* bound: those and the changes of the form, all together

Empty == ""        \* an empty field; a name the schema refuses
NoMdns == "none"

Keys == {CamelKey[f] : f \in FileNames} \cup {NoIcon}
MdnsNames == {l.mdns : l \in Lights}
DeviceRow == [name : Names, icon : Keys, host : Hosts, mdns : MdnsNames \cup {NoMdns}]

ASSUME DevicePagesAssumption ==
    /\ Names # {} /\ Empty \notin Names \cup Hosts
    /\ Releases \in Seq(SUBSET FileNames)
    /\ Lights \subseteq [host : Hosts, mdns : MdnsNames \ {NoMdns}]
    /\ Start \subseteq DeviceRow
    /\ \A d \in Start : d.mdns # NoMdns => [host |-> d.host, mdns |-> d.mdns] \in Lights
    /\ MaxSaves \in Nat /\ MaxEvents \in Nat

VARIABLES
    devices,   \* server: [id -> [name, icon, host, mdns]]; the page is of 1
    release,   \* version of the app on the disk
    loaded,    \* version whose lucide_icons.json the process has read
    page,      \* [open, icons, shown, icon, editing, draft, restarting, sure]
    loads,     \* bag of the two runs of init(): [pc, read]
    patches,   \* bag of the PATCHes under way: [field, value, pc, read]
    form,      \* [host, mdns, scan, unknown, results]
    post,      \* the POST under way, or Idle
    events     \* how much of MaxEvents is used

serverVars == <<devices, release, loaded>>
pageVars == <<page, loads, patches>>
formVars == <<form, post>>
vars == <<serverVars, pageVars, formVars, events>>

(* page.sure is auxiliary: since the page opened                             *)
(*   - no PATCH was sent while another, or a GET of init(), was under way:     *)
(*     answers that cross may leave an older device on the page;              *)
(*   - no answer to a PATCH that was carried out was lost; and                *)
(*   - no PATCH of the icon failed: the picker keeps showing its choice.      *)

Ids == 1..(MaxEvents + 1)
Nothing == [name |-> Empty, icon |-> NoIcon]
Idle == [host |-> Empty, mdns |-> NoMdns]

Seen(d) == [name |-> d.name, icon |-> d.icon]   \* DeviceRead, to the page

-----------------------------------------------------------------------------
(* init(): Alpine calls it by itself and x-init calls it again. *)

Run(pc, read) == [pc |-> pc, read |-> read]
Ended(pc) == Run(pc, Nothing)
Runs(pc) == SetToBag({Ended(pc)}) (+) SetToBag({Ended(pc)})

Becomes(run, next) == loads' = (loads (-) SetToBag({run})) (+) SetToBag({next})

Load(run) ==
    /\ run.pc = "asked" /\ 1 \in DOMAIN devices
    /\ Becomes(run, Run("answered", Seen(devices[1])))
    /\ UNCHANGED <<serverVars, page, patches, formVars, events>>

\* this.device and set-icon; from here this run listens to the picker.
Loaded(run) ==
    /\ page.open /\ run.pc = "answered"
    /\ Becomes(run, Ended("listening"))
    /\ page' = [page EXCEPT !.shown = run.read, !.icon = run.read.icon]
    /\ UNCHANGED <<serverVars, patches, formVars, events>>

\* init() ends here and never listens.
LoadFails(run) ==
    /\ page.open /\ run.pc \in {"asked", "answered"}
    /\ Becomes(run, Ended("failed"))
    /\ UNCHANGED <<serverVars, page, patches, formVars, events>>

HasDevice == page.shown # Nothing

\* How many runs of init() listen to the picker.
Listening ==
    IF Ended("listening") \in DOMAIN loads THEN loads[Ended("listening")] ELSE 0

-----------------------------------------------------------------------------
(* The page: edits of the name, and of the icon *)

Click(p) ==
    /\ page.open /\ events < MaxSaves
    /\ events' = events + 1 /\ page' = p
    /\ UNCHANGED <<serverVars, loads, formVars>>

\* startEdit() copies the device; then the user types.
StartEdit(name) == [page EXCEPT !.editing = TRUE, !.draft = name]

Edit(name) ==
    /\ page.open /\ HasDevice /\ ~ page.editing
    /\ page' = StartEdit(name)
    /\ UNCHANGED <<serverVars, loads, patches, formVars, events>>

CancelEdit ==
    /\ page.open /\ page.editing
    /\ page' = [page EXCEPT !.editing = FALSE, !.draft = Empty]
    /\ UNCHANGED <<serverVars, loads, patches, formVars, events>>

Patch(field, value) == [field |-> field, value |-> value, pc |-> "sent", read |-> Nothing]

Quiet == patches = EmptyBag /\ \A run \in DOMAIN loads : run.pc \in {"listening", "failed"}

Save ==
    /\ page.editing
    /\ patches' = patches (+) SetToBag({Patch("name", page.draft)})
    /\ Click([page EXCEPT !.sure = @ /\ Quiet])

\* The picker, from its button to "Select": a tile, "Default", or what was shown
\* when it opened.
Offered == PICKER_ICONS(Releases[page.icons]) \cup {NoIcon, page.icon}

\* icon-picker-confirmed: each run of init() that listens calls setIcon; before
\* that the choice is only shown, until init() shows what is stored.
SelectIcon(key) ==
    /\ key \in Offered
    /\ patches' = patches (+) [p \in (IF Listening = 0 THEN {} ELSE {Patch("icon", key)}) |-> Listening]
    /\ Click([page EXCEPT !.icon = key, !.sure = @ /\ (Listening = 0 \/ Quiet)])

\* restart(), after confirm(): the answer, or an error when the light is offline,
\* gives the button back.
Restart ==
    /\ ~ page.restarting
    /\ Click([page EXCEPT !.restarting = TRUE]) /\ UNCHANGED patches

AnswerRestart ==
    /\ page.restarting
    /\ page' = [page EXCEPT !.restarting = FALSE]
    /\ UNCHANGED <<serverVars, loads, patches, formVars, events>>

-----------------------------------------------------------------------------
(* PATCH /api/devices/{id} *)

\* Mutant: every field of the payload, given or not.
WithPatchDumped(d, p) ==
    IF p.field = "name" THEN [d EXCEPT !.name = p.value, !.icon = NoIcon]
    ELSE [d EXCEPT !.icon = p.value]

\* model_dump(exclude_unset=True)
WithPatch(d, p) ==
    IF p.field = "name" THEN [d EXCEPT !.name = p.value] ELSE [d EXCEPT !.icon = p.value]

UpdateDevice(p) ==
    /\ p.pc = "sent"
    /\ 1 \in DOMAIN devices /\ (p.field = "name" => p.value # Empty)
    /\ devices' = [devices EXCEPT ![1] = WithPatch(@, p)]
    /\ patches' = (patches (-) SetToBag({p}))
                     (+) SetToBag({[p EXCEPT !.pc = "carried out", !.read = Seen(devices'[1])]})
    /\ UNCHANGED <<release, loaded, page, loads, formVars, events>>

\* The answer is the whole device; one to save() ends the edit mode, also of an
\* edit that was begun since.
Patched(p, patch) ==
    LET shown == [p EXCEPT !.shown = patch.read] IN
    IF patch.field = "name" THEN [shown EXCEPT !.editing = FALSE, !.draft = Empty] ELSE shown

AnswerPatch(p) ==
    /\ page.open /\ p.pc = "carried out"
    /\ page' = Patched(page, p)
    /\ patches' = patches (-) SetToBag({p})
    /\ UNCHANGED <<serverVars, loads, formVars, events>>

\* A refusal, or an answer that is lost.  The picker keeps showing its choice.
PatchFails(p) ==
    /\ page.open
    /\ page' = [page EXCEPT !.sure = @ /\ p.pc = "sent" /\ p.field = "name"]
    /\ patches' = patches (-) SetToBag({p})
    /\ UNCHANGED <<serverVars, loads, formVars, events>>

-----------------------------------------------------------------------------
(* Deleting, on the page and in the list of any tab *)

Gone == [page EXCEPT !.open = FALSE, !.shown = Nothing, !.icon = NoIcon, !.editing = FALSE,
                     !.draft = Empty, !.restarting = FALSE, !.sure = FALSE]

\* What the server does after the page is left.
Unanswered == [p \in {q \in DOMAIN patches : q.pc = "sent"} |-> patches[p]]

Without(d) == [e \in DOMAIN devices \ {d} |-> devices[e]]

\* remove(): location.href = "/devices" when the answer is there.
RemoveThis(answered) ==
    /\ page.open /\ 1 \in DOMAIN devices
    /\ devices' = Without(1)
    /\ IF answered THEN page' = Gone /\ loads' = Runs("failed") /\ patches' = Unanswered
                   ELSE UNCHANGED pageVars
    /\ UNCHANGED <<release, loaded, formVars, events>>

\* delete-list of the devices page
DeleteItem(d) ==
    /\ d \in DOMAIN devices
    /\ devices' = Without(d)
    /\ UNCHANGED <<release, loaded, pageVars, formVars, events>>

-----------------------------------------------------------------------------
(* The add-device form *)

OnList == ~ page.open

Enter(f) ==
    /\ OnList
    /\ events < MaxEvents /\ events' = events + 1 /\ form' = f
    /\ UNCHANGED <<serverVars, pageVars>>

Scan ==
    /\ OnList
    /\ form.scan = "idle"
    /\ form' = [form EXCEPT !.scan = "asked", !.results = {}]
    /\ UNCHANGED <<serverVars, pageVars, post, events>>

\* scan_devices reads the list before it listens, for seconds, to the network.
BeginScan ==
    /\ form.scan = "asked"
    /\ LET known(l) == \E d \in DOMAIN devices :
                          devices[d].mdns = l.mdns \/ devices[d].host = l.host
       IN form' = [form EXCEPT !.scan = "running", !.unknown = {l \in Lights : ~ known(l)}]
    /\ UNCHANGED <<serverVars, pageVars, post, events>>

\* Any lights it meets, less those it knew; or an error.
AnswerScan(found) ==
    /\ form.scan = "running"
    /\ form' = [form EXCEPT !.scan = "idle", !.unknown = {}, !.results = found \cap form.unknown]
    /\ UNCHANGED <<serverVars, pageVars, post, events>>

UseResult(l) ==
    /\ l \in form.results
    /\ Enter([form EXCEPT !.host = l.host, !.mdns = l.mdns]) /\ UNCHANGED post

\* Mutant: no listener on the host field.
KeepsMdnsName(host) == [form EXCEPT !.host = host]

HostEdited(host) == [form EXCEPT !.host = host, !.mdns = NoMdns]

TypeHost(host) ==
    /\ host # form.host
    /\ Enter(HostEdited(host)) /\ UNCHANGED post

\* The host is required, and the button disabled during the POST.
SubmitAdd ==
    /\ OnList /\ form.host # Empty /\ post = Idle
    /\ post' = [host |-> form.host, mdns |-> form.mdns]
    /\ UNCHANGED <<serverVars, pageVars, form, events>>

\* event.target.reset() empties the host, and leaves the hidden field.
ResetForm == [form EXCEPT !.host = Empty]

\* Mutant: only the name is looked up.
FreeName(p) == \A d \in DOMAIN devices : p.mdns # NoMdns => devices[d].mdns # p.mdns

\* Both columns are unique: checked before the light is asked for its info, and
\* by the database at the commit.
Free(p) == \A d \in DOMAIN devices :
              devices[d].host # p.host /\ (p.mdns # NoMdns => devices[d].mdns # p.mdns)

CreateDevice(name, answered) ==
    /\ post # Idle /\ Free(post)
    /\ \E d \in Ids \ DOMAIN devices :
          /\ d # 1
          /\ devices' = [e \in DOMAIN devices \cup {d} |->
                IF e = d THEN [name |-> name, icon |-> NoIcon,
                               host |-> post.host, mdns |-> post.mdns]
                ELSE devices[e]]
    /\ form' = IF answered THEN ResetForm ELSE form
    /\ post' = Idle
    /\ UNCHANGED <<release, loaded, pageVars, events>>

\* 409, 422 when the light does not answer, or no answer.
CreateFails ==
    /\ post # Idle /\ post' = Idle
    /\ UNCHANGED <<serverVars, pageVars, form, events>>

-----------------------------------------------------------------------------
(* A new release brings both files of generate-icons.js, made of the Lucide *)
(* icons installed then; the process reads its own at start.                *)

Deploy ==
    /\ release + 1 \in DOMAIN Releases /\ release' = release + 1
    /\ UNCHANGED <<devices, loaded, pageVars, formVars, events>>

RestartServer ==
    /\ loaded # release /\ loaded' = release
    /\ UNCHANGED <<devices, release, pageVars, formVars, events>>

-----------------------------------------------------------------------------
Init ==
    /\ \E d \in Start : devices = [i \in {1} |-> d]
    /\ release \in DOMAIN Releases /\ loaded \in 1..release
    /\ page \in [open : BOOLEAN, icons : {release}, shown : {Nothing}, icon : {NoIcon},
                 editing : {FALSE}, draft : {Empty}, restarting : {FALSE}, sure : {TRUE}]
    /\ loads = Runs(IF page.open THEN "asked" ELSE "failed")
    /\ patches = EmptyBag /\ events = 0
    /\ form = [host |-> Empty, mdns |-> NoMdns, scan |-> "idle", unknown |-> {}, results |-> {}]
    /\ post = Idle

PageNext ==
    \/ \E run \in DOMAIN loads : Load(run) \/ Loaded(run) \/ LoadFails(run)
    \/ \E name \in Names \cup {Empty} : Edit(name)
    \/ CancelEdit \/ Save \/ Restart \/ AnswerRestart
    \/ \E key \in Keys : SelectIcon(key)
    \/ \E p \in DOMAIN patches : UpdateDevice(p) \/ AnswerPatch(p) \/ PatchFails(p)
    \/ \E answered \in BOOLEAN : RemoveThis(answered)

ListNext ==
    \/ \E d \in Ids : DeleteItem(d)
    \/ Scan \/ BeginScan \/ SubmitAdd \/ CreateFails
    \/ \E found \in SUBSET Lights : AnswerScan(found)
    \/ \E l \in Lights : UseResult(l)
    \/ \E host \in Hosts \cup {Empty} : TypeHost(host)
    \/ \E name \in Names, answered \in BOOLEAN : CreateDevice(name, answered)

Next == PageNext \/ ListNext \/ Deploy \/ RestartServer

Spec == Init /\ [][Next]_vars

-----------------------------------------------------------------------------
(* Properties *)

TypeOK ==
    /\ DOMAIN devices \subseteq Ids
    /\ \A d \in DOMAIN devices : devices[d] \in DeviceRow
    /\ \A d, e \in DOMAIN devices : d # e =>
          /\ devices[d].host # devices[e].host
          /\ devices[d].mdns = devices[e].mdns => devices[d].mdns = NoMdns
    /\ release \in DOMAIN Releases /\ loaded \in 1..release
    /\ page.shown \in [name : Names \cup {Empty}, icon : Keys]
    /\ page.icon \in Keys /\ page.draft \in Names \cup {Empty}
    /\ page.editing => page.open /\ HasDevice
    /\ page.restarting => page.open
    /\ \A p \in DOMAIN patches : p.pc \in {"sent", "carried out"} /\ p.read \in [name : Names \cup {Empty}, icon : Keys]
    /\ form.unknown \cup form.results \subseteq Lights /\ post.host \in Hosts \cup {Empty}

Has(v, key) ==
    \/ key \in DOMAIN UTILITY_ALIASES /\ UTILITY_ALIASES[key] \in Releases[v]
    \/ \E f \in Releases[v] : CamelKey[f] = key

\* The key stands for a file the release has, and the alias of a utility key goes
\* before a Lucide icon of that name.
GlyphOf(v, key) ==
    LET named == {f \in Releases[v] : CamelKey[f] = key} IN
    IF key \in DOMAIN UTILITY_ALIASES /\ UTILITY_ALIASES[key] \in Releases[v]
    THEN UTILITY_ALIASES[key]
    ELSE IF named = {} THEN NoGlyph ELSE LastOf(named)

\* When nothing is under way the page shows the device as it is stored, and an icon
\* that the release has is drawn as in the list, which the server draws from a
\* table of its own: whatever was edited and cancelled or refused, and though
\* init() runs twice.  Without an icon, or when the release no longer has it, the
\* two draw different bulbs: the page its own (device_detail.js:59), the list the
\* release's lightbulb, or nothing (device_row.html:10).
DeviceShown ==
    /\ page.open /\ page.sure /\ Quiet /\ Listening # 0 /\ 1 \in DOMAIN devices
    => /\ page.shown = Seen(devices[1]) /\ page.icon = devices[1].icon
       /\ page.icons = loaded =>
             LET glyph == GlyphOf(loaded, page.icon)
                 onPage == _deviceGlyph(ICONS(Releases[page.icons]), page.icon)
                 inRow == RowGlyph(PICKER_ICON_SVGS(Releases[loaded]), devices[1].icon)
             IN IF Has(loaded, page.icon) THEN onPage = glyph /\ inRow = glyph
                ELSE onPage = OwnBulb /\ inRow = GlyphOf(loaded, "lightbulb")

\* "so a manual change can't leave a stale mdns_name pointing at a different host"
\* (templates/devices.html): a device never has the address of one light and the
\* name of another, in whatever order results, typing and POSTs come.
MdnsNameOfHost ==
    \A d \in DOMAIN devices :
        devices[d].mdns # NoMdns =>
            [host |-> devices[d].host, mdns |-> devices[d].mdns] \in Lights
=============================================================================
