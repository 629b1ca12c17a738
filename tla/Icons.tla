------------------------------- MODULE Icons -------------------------------
(***************************************************************************)
(* The icon tables: scripts/generate-icons.js makes two files from the     *)
(* Lucide icons of a release, the ICONS and PICKER_ICONS of                *)
(* static/js/icons.js for the pages and app/lucide_icons.json for the      *)
(* templates of the server.  A glyph is the file it was drawn from.        *)
(***************************************************************************)
EXTENDS Naturals, Sequences, SequencesExt

CONSTANTS
    Files,     \* Lucide files of any release, in the order of sort()
    CamelKey   \* [files -> keys]: toCamelCase, not one to one (a-1, a1)

FileNames == {Files[i] : i \in DOMAIN Files}

ASSUME IconsAssumption ==
    /\ Files \in Seq(FileNames)
    /\ \A i, j \in DOMAIN Files : Files[i] = Files[j] => i = j
    /\ DOMAIN CamelKey = FileNames

NoIcon == "default"

\* No file: the bulb drawn in device_detail.js, and what Jinja renders of an
\* undefined value.
OwnBulb == "bulb of the page"
NoGlyph == "nothing"

-----------------------------------------------------------------------------
(* generate-icons.js: a release is the set of files that it has. *)

\* The keys the code uses, and the file of each.
UTILITY_ALIASES ==
    [moon |-> "moon", sun |-> "sun", sunHorizon |-> "sunrise", clock |-> "clock",
     bulb |-> "lightbulb", plus |-> "plus", chevronRight |-> "chevron-right",
     calendar |-> "calendar", devices |-> "monitor", history |-> "clock",
     gear |-> "settings", sparkle |-> "sparkles", pencil |-> "pencil", close |-> "x",
     globe |-> "globe", bolt |-> "zap", palette |-> "palette", brightness |-> "sun",
     pin |-> "map-pin", chevronLeft |-> "chevron-left", wifi |-> "wifi",
     shieldCheck |-> "shield-check", alertTriangle |-> "triangle-alert",
     skipForward |-> "skip-forward", crosshair |-> "crosshair", trash |-> "trash-2",
     info |-> "info"]

LastOf(S) == CHOOSE f \in S : \A g \in S :
                \A i, j \in DOMAIN Files : Files[i] = f /\ Files[j] = g => j <= i

\* Of two files with one key the later overwrites the earlier.
LucideByCamelKey(release) ==
    [k \in {CamelKey[f] : f \in release} |-> LastOf({f \in release : CamelKey[f] = k})]

\* An alias whose file is missing only gives a warning.
UtilityEntries(release) ==
    [u \in {u \in DOMAIN UTILITY_ALIASES : UTILITY_ALIASES[u] \in release} |-> UTILITY_ALIASES[u]]

Entries(table) == SetToSeq({<<k, table[k]>> : k \in DOMAIN table})

AllIconEntries(release) == Entries(LucideByCamelKey(release)) \o Entries(UtilityEntries(release))

PickerIcons(release) == DOMAIN LucideByCamelKey(release)

\* { ...lucideByCamelKey, ...utilityEntries }
JsonPayload(release) ==
    LET lucide == LucideByCamelKey(release)
        utility == UtilityEntries(release)
    IN  [k \in DOMAIN lucide \cup DOMAIN utility |->
            IF k \in DOMAIN utility THEN utility[k] ELSE lucide[k]]

-----------------------------------------------------------------------------
(* icons.js as the browser reads it, pages.py as the server does *)

\* Of two entries of an object literal with one key the last counts.
ICONS(release) ==
    LET entries == AllIconEntries(release) IN
    [k \in {entries[i][1] : i \in DOMAIN entries} |->
        entries[SelectLastInSeq(entries, LAMBDA e : e[1] = k)][2]]

PICKER_ICONS(release) == PickerIcons(release)

PICKER_ICON_SVGS(release) == JsonPayload(release)

\* The avatar of the device page, and of a row of the list.
_deviceGlyph(icons, key) == IF key \in DOMAIN icons THEN icons[key] ELSE OwnBulb

\* picker_icon_svgs['lightbulb'], which a release may not have
LightbulbGlyph(svgs) == IF "lightbulb" \in DOMAIN svgs THEN svgs["lightbulb"] ELSE NoGlyph

RowGlyph(svgs, key) == IF key \in DOMAIN svgs THEN svgs[key] ELSE LightbulbGlyph(svgs)
=============================================================================
