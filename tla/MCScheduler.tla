---------------------------- MODULE MCScheduler ----------------------------
(* Instances of Scheduler for TLC. *)
EXTENDS Scheduler

\* A time trigger that recurs, and a sunset trigger whose date range ends.
MCTriggers == {"daily", "sunset"}
MCSunTriggers == {"sunset"}

\* When the triggers occur: without a zone a time trigger is read as UTC, one
\* unit later.  The clock of "back" is set back at 2, from 4 to 2, so it shows
\* 0 and 1 again at 2 and 3.
MCOccurrences(trigger, zone) ==
    CASE zone = "home" -> IF trigger = "daily" THEN {1, 3, 5} ELSE {1, 2}
      [] zone = "back" -> IF trigger = "daily" THEN {1, 4} ELSE {1}
      [] zone = NULL   -> IF trigger = "daily" THEN {2, 4} ELSE {}
      [] OTHER         -> {}

MCShownTwice == {0, 1}

\* The earliest instant of the local time the clock shows at t.
MCShown(zone, t) == IF zone = "back" /\ t \in {2, 3} THEN t - 2 ELSE t

MCNextRunTimes ==
    [trigger \in MCTriggers |-> [zone \in Zones \cup {NULL} |-> [t \in 0..MaxTime |->
        LET later == {o \in MCOccurrences(trigger, zone) : o > MCShown(zone, t)}
        IN  IF later = {} THEN NULL
            ELSE CHOOSE o \in later : \A p \in later : o <= p]]]

MCSettings == [located |-> TRUE, timezone |-> "home", catch_up_missed |-> FALSE]

\* s3, where an instance has it, is an id no row has yet.
MCSchedules ==
    [s \in Schedules \ {"s3"} |->
        [trigger |-> IF s = "s1" THEN "daily" ELSE "sunset",
         devices |-> Devices, enabled |-> TRUE]]
=============================================================================
