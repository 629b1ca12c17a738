------------------------------ MODULE MCNextRun ------------------------------
(***************************************************************************)
(* NextRun on a small calendar: days of 8 units (a clock change is 2, so   *)
(* there is a time of day inside a repeated or a skipped hour), weeks of 3 *)
(* days, years of 5, 6 and 5 days with the leap day in the second place.   *)
(***************************************************************************)
EXTENDS NextRun

MCYearDay ==
    LET year(leap) == IF leap THEN <<1, 2, 3, 4, 5, 6>> ELSE <<1, 3, 4, 5, 6>>
    IN  [d \in 0..31 |->
            LET c == d % 16 IN      \* years of 5, 6 and 5 days
            CASE c < 5  -> year(FALSE)[c + 1]
              [] c \in 5..10 -> year(TRUE)[c - 4]
              [] OTHER -> year(FALSE)[c - 10]]

\* The sun rises a little earlier every second day.
MCSunTime == [d \in 0..31 |-> 4 - (d % 2)]

\* No change; clocks go back, or forward, in the night of the third day.
MCClockChanges ==
    {[change |-> 0, before |-> 2, after |-> 2],
     [change |-> 2 * 8 + 2, before |-> 2, after |-> 0],
     [change |-> 2 * 8 + 2, before |-> 0, after |-> 2]}

Times == [sun : {FALSE}, at : {0, 2, 3, 7}]
Offsets == [sun : {TRUE}, at : {-4, -1, 0, 4}]
Days == {{0, 1, 2}, {1}, {0, 2}}

WithDates(t, days, from, to, annual) ==
    [sun |-> t.sun, at |-> t.at, days |-> days,
     start_date |-> from, end_date |-> to, repeat_annually |-> annual]

MCInputs ==
    {WithDates(t, days, r[1], r[2], FALSE) :
        t \in Times \cup Offsets, days \in Days,
        r \in {<<NULL, NULL>>, <<3, NULL>>, <<NULL, 3>>, <<2, 4>>}}
    \cup
    {WithDates(t, days, r[1], r[2], TRUE) :
        t \in Times \cup Offsets, days \in Days,
        r \in {<<2, 2>>, <<1, 3>>, <<4, 5>>, <<3, 1>>, <<6, 6>>}}
=============================================================================
