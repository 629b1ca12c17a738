--------------------------- MODULE MCScheduleList ---------------------------
(* Instances of the list for TLC: SchedulesPage together with Gestures.     *)
EXTENDS MCSchedulesPage, Gestures

(* The two share no variable, and each property speaks of one of them: a    *)
(* behaviour of one is looked at with the other at its start.  What they    *)
(* have in common, the confirm dialog, each has on its own side (the page   *)
(* "asking" of Gestures, dialog of SchedulesPage).                          *)
ListInit == Init /\ GestureInit

Untouched == count = 0
Unused == used.all = 0

ListNext ==
    \/ Untouched /\ Next /\ UNCHANGED gestureVars
    \/ Unused /\ GestureNext /\ UNCHANGED vars

ListSpec == ListInit /\ [][ListNext]_<<vars, gestureVars>>
=============================================================================
