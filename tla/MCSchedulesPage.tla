--------------------------- MODULE MCSchedulesPage ---------------------------
(* Instances of SchedulesPage for TLC. *)
EXTENDS SchedulesPage

\* Schedule 1 is of one device with a preset of its own; schedule 2 of both.
MCActionOf == <<[type |-> "preset", ps |-> 1], [type |-> "preset", ps |-> 1]>>
MCLinksOf == <<[d \in {"d1"} |-> 2], [d \in {"d1", "d2"} |-> IF d = "d1" THEN 1 ELSE 2]>>

\* One schedule of both devices.
OneActionOf == <<[type |-> "preset", ps |-> 1]>>
OneLinksOf == <<[d \in Devices |-> IF d = "d1" THEN 1 ELSE 2]>>

MCLimit == [toggles |-> 2, deletes |-> 2, lists |-> 2, others |-> 2, all |-> 4]
=============================================================================
