--------------------------- MODULE MCSettingsPage ---------------------------
(* Instances of SettingsPage for TLC. *)
EXTENDS SettingsPage

\* The browser is at 2; 3 is a timezone it does not list, or out of range.
MCPlace == [f \in Fields |-> 2]
MCStart == {[f \in Fields |-> 1], [f \in Fields |-> IF f = "timezone" THEN 3 ELSE Null]}
=============================================================================
