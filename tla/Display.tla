------------------------------ MODULE Display ------------------------------
(***************************************************************************)
(* What pages work out from one value, with nothing else involved: pure    *)
(* functions of static/js/, each checked here against a definition of what *)
(* it should give, over bounded inputs.  Two of them have a twin that the  *)
(* server renders with: the templates draw the lists, and icons.js keeps   *)
(* the older functions.                                                    *)
(***************************************************************************)
EXTENDS Integers, FiniteSets

\* Math.round; halves of whole numbers are exact.
Round(n, d) == (2 * n + d) \div (2 * d)
Gap(a, b) == IF a < b THEN b - a ELSE a - b

-----------------------------------------------------------------------------
(* "Last seen 5m ago" *)

Units == [s |-> 1, m |-> 60, h |-> 3600, d |-> 86400]
Ago(n, unit) == [n |-> n, unit |-> unit]

\* A clock of the browser that is behind the server's gives 0s.
relativeTime(ms) ==
    LET seconds == IF ms < 0 THEN 0 ELSE Round(ms, 1000)
        minutes == Round(seconds, 60)
        hours == Round(minutes, 60)
    IN CASE seconds < 60 -> Ago(seconds, "s")
         [] seconds >= 60 /\ minutes < 60 -> Ago(minutes, "m")
         [] minutes >= 60 /\ hours < 24 -> Ago(hours, "h")
         [] OTHER -> Ago(Round(hours, 24), "d")

\* Percent is -1 when the device has not told.
signalParts(percent) ==
    CASE percent < 0 -> "none"
      [] percent >= 80 -> "Excellent"
      [] percent \in 60..79 -> "Good"
      [] percent \in 40..59 -> "Fair"
      [] OTHER -> "Weak"

Length(ago) == ago.n * Units[ago.unit]

\* Though seconds, minutes and hours are rounded one after the other, the text
\* is never half a unit and a half of the smaller ones off, never says 60s, 60m
\* or 24h, and never gets younger.
ASSUME RelativeTimeFits ==
    \A t \in 0..200000 :
        LET ago == relativeTime(1000 * t) IN
        /\ ago.unit # "d" => ago.n < [s |-> 60, m |-> 60, h |-> 24][ago.unit]
        /\ ago.unit # "s" => ago.n > 0
        /\ Gap(Length(ago), t) <= CASE ago.unit = "s" -> 0 [] ago.unit = "m" -> 30
                                    [] ago.unit = "h" -> 1830 [] OTHER -> 43200 + 1830
        /\ t > 0 => Length(relativeTime(1000 * (t - 1))) <= Length(ago)

\* A better signal never has a worse name.
ASSUME SignalIsMonotone ==
    LET Rank == [Weak |-> 1, Fair |-> 2, Good |-> 3, Excellent |-> 4] IN
    \A p, q \in 0..100 : p <= q => Rank[signalParts(p)] <= Rank[signalParts(q)]

-----------------------------------------------------------------------------
(* The avatar of a schedule and of an entry of the history *)

Sun == "sun"
Moon == "moon"

\* Hour is -1 for a time that is not given.
scheduleIcon(trigger, hour, custom) ==
    LET at == IF hour < 0 THEN 12 ELSE hour
        tint == CASE trigger = "sunrise" -> Sun
                  [] trigger = "sunset" -> Moon
                  [] OTHER -> IF at < 5 \/ at >= 18 THEN Moon ELSE Sun
    IN [tint |-> tint, glyph |-> IF custom THEN "custom" ELSE tint]

\* templates/macros/schedule_row.html
ScheduleRowIcon(trigger, hour, custom) ==
    LET is_evening == hour \in 0..4 \cup 18..23
        use_sun_icon == trigger = "sunrise" \/ (trigger = "time" /\ ~ is_evening)
        tint == IF use_sun_icon THEN Sun ELSE Moon
    IN [tint |-> tint, glyph |-> IF custom THEN "custom" ELSE tint]

historyIcon(status) ==
    CASE status = "success" -> [glyph |-> "bulb", tint |-> Sun]
      [] status = "failed" -> [glyph |-> "alertTriangle", tint |-> "danger"]
      [] OTHER -> [glyph |-> "skipForward", tint |-> Moon]

\* _HISTORY_FALLBACK_SVG, _HISTORY_STATUS_CLASS
HistoryRowIcon ==
    [success |-> [glyph |-> "bulb", tint |-> Sun],
     failed |-> [glyph |-> "alertTriangle", tint |-> "danger"],
     skipped |-> [glyph |-> "skipForward", tint |-> Moon],
     partial |-> [glyph |-> "circle", tint |-> "warning"]]

\* The server draws what icons.js would have drawn; a partial run is the one
\* status that icons.js does not know.
ASSUME TwinsAgree ==
    /\ \A trigger \in {"time", "sunrise", "sunset"}, hour \in -1..23, custom \in BOOLEAN :
          scheduleIcon(trigger, hour, custom) = ScheduleRowIcon(trigger, hour, custom)
    /\ {status \in DOMAIN HistoryRowIcon : historyIcon(status) # HistoryRowIcon[status]} = {"partial"}

-----------------------------------------------------------------------------
(* The theme, which a browser keeps for itself *)

NoEntry == "none"

\* The head of base.html, at every load of a document.
ThemeAtLoad(stored) == IF stored = "light" THEN "light" ELSE "dark"

\* The switch as it opens, and what a click of it leaves.
themeToggleData(stored) == [dark |-> stored # "light"]

toggle(checked) ==
    [dark |-> checked, stored |-> IF checked THEN NoEntry ELSE "light",
     html |-> IF checked THEN "dark" ELSE "light"]

\* The next page looks as the switch left this one, and its switch says so: the
\* two read the entry separately, also one that something else has written.
ASSUME ThemeIsKept ==
    /\ \A checked \in BOOLEAN :
          LET after == toggle(checked) IN
          ThemeAtLoad(after.stored) = after.html /\ themeToggleData(after.stored).dark = after.dark
    /\ \A stored \in {NoEntry, "light", "dark", "other"} :
          themeToggleData(stored).dark = (ThemeAtLoad(stored) = "dark")
=============================================================================
