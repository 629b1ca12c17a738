----------------------------- MODULE FormFields -----------------------------
(***************************************************************************)
(* The rest of static/js/schedule_form.js: the trigger, the days, the      *)
(* dates and the custom light state of one schedule, from the page to the  *)
(* database and back.  ScheduleForm has the devices, the presets and the   *)
(* order of the requests; here a save is one step.                         *)
(*                                                                         *)
(* JavaScript computes in doubles, where a half (x.5) may come out a       *)
(* little low: Rounded has both results of a half.                         *)
(***************************************************************************)
EXTENDS Integers, TLC

CONSTANTS
    Stored,       \* the schedules an instance edits: [schedule, action]
    Times, Offsets, Dates, Percents, Hues, Sats, Toggled,  \* what the user may enter
    MaxClicks     \* bound: changes of a control and saves

Blank == -1000   \* an empty control; null in a request
BadTime == -1001 \* ":00", which is no time

Days == 0..6     \* Monday is 0
Triggers == {"time", "sunrise", "sunset"}

Null == Blank
Bytes == 0..255
Degrees == 0..360
PerCent == 0..100
Colours == Bytes \X Bytes \X Bytes

\* The rows ScheduleBase accepts; a time is in seconds, and Blank is a number too.
StoredRow ==
    {row \in [trigger : Triggers, time : {t \in Nat : t < 86400} \cup {Null}, offset : -720..720 \cup {Null},
              days : 0..127, start : Dates \cup {Null}, end : Dates \cup {Null},
              annual : BOOLEAN] :
        IF row.trigger = "time" THEN row.time # Null /\ row.offset = Null
        ELSE row.time = Null /\ row.offset # Null}

\* The payloads of an action of this page.
Lights == {[on |-> FALSE]} \cup [on : {TRUE}, bri : Bytes, col : Colours]

\* An input of type time, one of type number, two sliders, seven boxes.
ASSUME FieldsAssumption ==
    /\ Times \subseteq 0..1439 \cup {Blank} /\ Offsets \subseteq Int /\ Dates \subseteq Nat
    /\ Percents \subseteq 1..100 /\ Hues \subseteq Degrees /\ Sats \subseteq PerCent
    /\ Toggled \subseteq Days /\ MaxClicks \in Nat
    /\ \A s \in Stored : s.schedule \in StoredRow /\ s.action \in Lights

VARIABLES
    schedule,  \* server: the row, or Nothing
    action,    \* server: the payload of its action, or Nothing
    settings,  \* server: whether it has a place (both coordinates), and a timezone
    editing,   \* SCHEDULE_ID is set
    pc,        \* how far init() is
    fields,    \* the controls
    touched,   \* auxiliary: a control was changed since the page opened
    saved,     \* auxiliary: what the page showed when the row was last saved
    clicks     \* how much of its bound is used

vars == <<schedule, action, settings, editing, pc, fields, touched, saved, clicks>>

Nothing == [none |-> TRUE]

-----------------------------------------------------------------------------
(* Numbers and colours *)

Distance(a, b) == IF a < b THEN b - a ELSE a - b

\* The results Math.round may have for n / d.
Rounded(n, d) ==
    LET up == (2 * n + d) \div (2 * d) IN
    IF (2 * n + d) % (2 * d) = 0 THEN {up - 1, up} ELSE {up}

\* Mutant: Math.floor.
PercentBelow(bri) == {(100 * bri) \div 255}

BriToPercent(bri) == Rounded(100 * bri, 255)

PercentToBri(pct) == Rounded(255 * pct, 100)

RgbToHex(rgb) == (rgb[1] * 256 + rgb[2]) * 256 + rgb[3]

\* Mutant: slice(2, 6) for the green digits.
GreenTooLong(hex) == <<hex \div 65536, hex % 65536, hex % 256>>

HexToRgb(hex) == <<hex \div 65536, (hex \div 256) % 256, hex % 256>>

Channels == 1..3
Hexes == {hex \in Nat : hex < 16777216}
Top(rgb) == CHOOSE v \in Channels : \A w \in Channels : rgb[w] <= rgb[v]
Largest(rgb) == rgb[Top(rgb)]
Spread(rgb) == Largest(rgb) - CHOOSE v \in {rgb[w] : w \in Channels} :
                                  \A w \in Channels : v <= rgb[w]

\* c and x in units of 1/6000; the sextant says which channel has which.
HsToRgb(h, s) ==
    LET c == 60 * s
        x == s * (60 - Distance(h % 120, 60))
        sextant == h \div 60
        v == CASE sextant < 1 -> <<c, x, 0>> [] sextant = 1 -> <<x, c, 0>>
               [] sextant = 2 -> <<0, c, x>> [] sextant = 3 -> <<0, x, c>>
               [] sextant = 4 -> <<x, 0, c>> [] OTHER -> <<c, 0, x>>
        channel(i) == Rounded((v[i] + 6000 - c) * 255, 6000)
    IN channel(1) \X channel(2) \X channel(3)

\* Mutant: a negative hue is left negative.
NegativeHue(rgb) ==
    LET d == Spread(rgb)
        n == CASE Top(rgb) = 1 -> 60 * (rgb[2] - rgb[3])
               [] Top(rgb) = 2 -> 60 * (rgb[3] - rgb[1]) + 120 * d
               [] OTHER -> 60 * (rgb[1] - rgb[2]) + 240 * d
    IN IF d = 0 THEN {<<0, 0>>}
       ELSE Rounded(n, d) \X Rounded(100 * d, Largest(rgb))

RgbToHs(rgb) ==
    LET d == Spread(rgb)
        n == CASE Top(rgb) = 1 -> 60 * (rgb[2] - rgb[3])
               [] Top(rgb) = 2 -> 60 * (rgb[3] - rgb[1]) + 120 * d
               [] OTHER -> 60 * (rgb[1] - rgb[2]) + 240 * d
        turned == IF n < 0 THEN n + 360 * d ELSE n
    IN IF d = 0 THEN {<<0, 0>>}
       ELSE Rounded(turned, d) \X Rounded(100 * d, Largest(rgb))

-----------------------------------------------------------------------------
(* The controls *)

Bit == <<1, 2, 4, 8, 16, 32, 64>>

SetDayToggles(bitmask) == {d \in Days : (bitmask \div Bit[d + 1]) % 2 = 1}

GetDaysOfWeekBitmask(days) ==
    LET mask(d) == IF d \in days THEN Bit[d + 1] ELSE 0 IN
    mask(0) + mask(1) + mask(2) + mask(3) + mask(4) + mask(5) + mask(6)

Picked(f, hex) ==
    {[f EXCEPT !.hex = hex, !.hue = hs[1], !.sat = hs[2]] : hs \in RgbToHs(HexToRgb(hex))}

\* What the labels of the dates ask for.
UpdateRepeatAnnuallyVisibility(f) == [f EXCEPT !.hint = f.annual]

\* The page as the template renders it; Alpine places the sliders.
Rendered ==
    Picked([trigger |-> "time", time |-> 19 * 60, offset |-> 0, days |-> {},
            start |-> Blank, end |-> Blank, annual |-> FALSE, hint |-> FALSE,
            on |-> TRUE, percent |-> 80, hex |-> 0, hue |-> 0, sat |-> 0],
           RgbToHex(<<242, 168, 61>>))

\* PATCH /api/settings keeps the place while a schedule follows the sun; it
\* lets the timezone be cleared.
Settings == [located : BOOLEAN, zoned : BOOLEAN]

Init ==
    /\ \/ schedule = Nothing /\ action = Nothing
       \/ \E s \in Stored : schedule = s.schedule /\ action = s.action
    /\ settings \in Settings
    /\ schedule # Nothing /\ schedule.trigger # "time" => settings.located
    /\ editing = (schedule # Nothing)
    /\ pc = "opened" /\ fields \in Rendered
    /\ touched = FALSE /\ saved = Nothing /\ clicks = 0

\* loadExistingSchedule up to its await; the control of the other trigger stays.
FillSchedule(f) ==
    [f EXCEPT !.trigger = schedule.trigger,
              !.time = IF schedule.trigger = "time" THEN schedule.time \div 60 ELSE @,
              !.offset = IF schedule.trigger = "time" THEN @ ELSE schedule.offset,
              !.days = SetDayToggles(schedule.days),
              !.start = schedule.start, !.end = schedule.end, !.annual = schedule.annual]

LoadSchedule ==
    /\ pc = "opened"
    /\ fields' = IF editing THEN FillSchedule(fields)
                 ELSE [fields EXCEPT !.days = SetDayToggles(127)]
    /\ pc' = "filled"
    /\ UNCHANGED <<schedule, action, settings, editing, touched, saved, clicks>>

\* The slider has min="1".
Slider(pct) == IF pct < 1 THEN 1 ELSE pct

\* The end of loadExistingSchedule and of init; "off" has neither brightness nor colour.
FillAction(f) ==
    IF ~ action.on THEN {[f EXCEPT !.on = FALSE]}
    ELSE UNION {Picked([f EXCEPT !.on = TRUE, !.percent = Slider(pct)], RgbToHex(action.col)) :
                   pct \in BriToPercent(action.bri)}

LoadAction ==
    /\ pc = "filled"
    /\ fields' \in {UpdateRepeatAnnuallyVisibility(f) :
                      f \in IF editing THEN FillAction(fields) ELSE {fields}}
    /\ pc' = "ready"
    /\ UNCHANGED <<schedule, action, settings, editing, touched, saved, clicks>>

-----------------------------------------------------------------------------
(* The user, who does not wait for the page *)

Change(f) ==
    /\ pc # "gone" /\ clicks < MaxClicks
    /\ fields' = f /\ f # fields
    /\ touched' = TRUE /\ clicks' = clicks + 1
    /\ UNCHANGED <<schedule, action, settings, editing, pc, saved>>

\* The radios of the sun are disabled when the settings answer without a place;
\* a missing timezone only shows as "Time zone: Not set".
ChooseTrigger(t) ==
    /\ t # "time" /\ ~ settings.located => pc = "opened"
    /\ Change([fields EXCEPT !.trigger = t])

ToggleDay(d) ==
    Change([fields EXCEPT !.days = IF d \in @ THEN @ \ {d} ELSE @ \cup {d}])

\* One slider moves, and the colour follows both.
Sync(h, s) ==
    \E rgb \in HsToRgb(h, s) :
        Change([fields EXCEPT !.hue = h, !.sat = s, !.hex = RgbToHex(rgb)])

Enter ==
    \/ fields.trigger = "time" /\ \E t \in Times : Change([fields EXCEPT !.time = t])
    \/ fields.trigger # "time" /\ \E m \in Offsets : Change([fields EXCEPT !.offset = m])
    \/ \E d \in Dates \cup {Blank} :
          Change([fields EXCEPT !.start = d]) \/ Change([fields EXCEPT !.end = d])
    \/ Change(UpdateRepeatAnnuallyVisibility([fields EXCEPT !.annual = ~ @]))
    \/ Change([fields EXCEPT !.on = ~ @])
    \/ fields.on /\ \E pct \in Percents : Change([fields EXCEPT !.percent = pct])
    \/ fields.on /\ \E h \in Hues : Sync(h, fields.sat)
    \/ fields.on /\ \E s \in Sats : Sync(fields.hue, s)

-----------------------------------------------------------------------------
(* Save *)

\* Mutant: the field of the other trigger is left out.
WithoutOther(f) ==
    [days |-> GetDaysOfWeekBitmask(f.days), trigger |-> f.trigger,
     start |-> f.start, end |-> f.end, annual |-> f.annual] @@
    IF f.trigger = "time"
    THEN [time |-> IF f.time = Blank THEN BadTime ELSE 60 * f.time]
    ELSE [offset |-> f.offset]

SchedulePayload(f) ==
    [trigger |-> f.trigger,
     time |-> IF f.trigger # "time" THEN Blank
              ELSE IF f.time = Blank THEN BadTime ELSE 60 * f.time,
     offset |-> IF f.trigger = "time" THEN Blank ELSE f.offset,
     days |-> GetDaysOfWeekBitmask(f.days),
     start |-> f.start, end |-> f.end, annual |-> f.annual]

StatePayload(f) ==
    IF ~ f.on THEN {[on |-> FALSE]}
    ELSE {[on |-> TRUE, bri |-> bri, col |-> HexToRgb(f.hex)] : bri \in PercentToBri(f.percent)}

\* compute_next_run_at refuses a sun trigger without the three settings.
LocationNotConfigured(row) ==
    row.trigger # "time" /\ (~ settings.located \/ ~ settings.zoned)

\* ScheduleBase with TriggerType, and the 422 of _recompute_next_run_at, which a
\* save of this page always reaches as it always sends the trigger.
Valid(row) ==
    /\ row.time # BadTime
    /\ IF row.trigger = "time" THEN row.time # Null /\ row.offset = Null
       ELSE row.offset \in -720..720 /\ row.time = Null
    /\ ~ LocationNotConfigured(row)
    /\ IF row.annual THEN row.start # Null /\ row.end # Null
       ELSE row.start = Null \/ row.end = Null \/ row.start <= row.end

\* The schema's values for what a POST omits.
Defaults == [time |-> Null, offset |-> Null, days |-> 127,
             start |-> Null, end |-> Null, annual |-> FALSE]

\* merge_and_validate_schedule: what a PATCH omits keeps its value.
Merged(payload) ==
    LET kept == IF editing THEN schedule ELSE Defaults IN
    [k \in DOMAIN payload \cup DOMAIN kept |-> IF k \in DOMAIN payload THEN payload[k] ELSE kept[k]]

\* What is on the screen: one trigger's control, and the light if it is on.
Shown(f) ==
    [trigger |-> f.trigger, when |-> IF f.trigger = "time" THEN f.time ELSE f.offset,
     days |-> f.days, start |-> f.start, end |-> f.end, annual |-> f.annual, on |-> f.on,
     light |-> IF f.on THEN <<f.percent, f.hex>> ELSE <<>>]

Leave == pc' = "gone" /\ UNCHANGED <<fields, touched>>

\* Both requests are done; the answer to the second may be lost.
Save(answered) ==
    /\ pc = "ready" /\ clicks < MaxClicks /\ clicks' = clicks + 1
    /\ Valid(Merged(SchedulePayload(fields)))
    /\ schedule' = Merged(SchedulePayload(fields))
    /\ action' \in StatePayload(fields)
    /\ saved' = Shown(fields)
    /\ IF answered THEN Leave ELSE UNCHANGED <<pc, fields, touched>>
    /\ UNCHANGED <<settings, editing>>

\* The first request is done, the schedule's refused or lost: an existing
\* schedule has the new light already.
SaveHalf ==
    /\ pc = "ready" /\ clicks < MaxClicks /\ clicks' = clicks + 1
    /\ editing /\ action' \in StatePayload(fields)
    /\ saved' = Nothing
    /\ UNCHANGED <<schedule, settings, editing, pc, fields, touched>>

Cancel ==
    /\ pc \notin {"gone"} /\ schedule # Nothing /\ Leave
    /\ UNCHANGED <<schedule, action, settings, editing, saved, clicks>>

Open ==
    /\ pc = "gone"
    /\ editing' = TRUE /\ pc' = "opened" /\ fields' \in Rendered /\ touched' = FALSE
    /\ UNCHANGED <<schedule, action, settings, saved, clicks>>

Next ==
    \/ LoadSchedule \/ LoadAction \/ Enter
    \/ \E t \in Triggers : ChooseTrigger(t)
    \/ \E d \in Toggled : ToggleDay(d)
    \/ \E answered \in BOOLEAN : Save(answered)
    \/ SaveHalf \/ Cancel \/ Open

Spec == Init /\ [][Next]_vars

-----------------------------------------------------------------------------
(* Properties *)

Controls ==
    [trigger : Triggers, time : 0..1439 \cup {Blank}, offset : Int, days : SUBSET Days,
     start : Dates \cup {Blank}, end : Dates \cup {Blank}, annual : BOOLEAN, hint : BOOLEAN,
     on : BOOLEAN, percent : 1..100, hex : Hexes, hue : Degrees, sat : PerCent]

TypeOK ==
    /\ schedule \in StoredRow \cup {Nothing} /\ action \in Lights \cup {Nothing}
    /\ settings \in Settings /\ editing \in BOOLEAN /\ touched \in BOOLEAN
    /\ pc \in {"opened", "filled", "ready", "gone"}
    /\ fields \in Controls
    /\ clicks \in 0..MaxClicks

\* A schedule opened again shows what the page showed when it was saved,
\* whatever was on it before: the conversions there and back lose nothing, and
\* no control is left as the template or an earlier row had it.
ReopenedAsSaved ==
    pc = "ready" /\ ~ touched /\ editing /\ saved # Nothing => Shown(fields) = saved

\* The sliders stand for the colour shown, to three steps of a channel, so that
\* touching one does not jump to another colour.  For a colour at full value,
\* as the sliders have no third one.
SlidersShowColour ==
    LET rgb == HexToRgb(fields.hex) IN
    Largest(rgb) = 255 =>
        \A made \in HsToRgb(fields.hue, fields.sat), i \in Channels : Distance(made[i], rgb[i]) <= 3

\* "A trigger-type switch can never leave the API's partial-update validation
\* looking at a stale leftover field": a save is refused only for something the
\* page shows (schedule_form.js:412-416): the time or the offset, the hint that a
\* place is missing, the timezone that reads "Not set" (schedule_form.js:187-192),
\* and the dates, for a missing one only where the labels say it is required.
RefusedForWhatIsShown ==
    pc = "ready" /\ ~ Valid(Merged(SchedulePayload(fields))) =>
        LET shown == Shown(fields) IN
        \/ shown.trigger = "time" /\ shown.when = Blank
        \/ shown.trigger # "time" /\ (shown.when \notin -720..720 \/ ~ settings.located \/ ~ settings.zoned)
        \/ shown.annual /\ fields.hint /\ Blank \in {shown.start, shown.end}
        \/ ~ shown.annual /\ Blank \notin {shown.start, shown.end} /\ shown.end < shown.start
=============================================================================
