--------------------------- MODULE MCScheduleForm ---------------------------
(* An instance of ScheduleForm for TLC. *)
EXTENDS ScheduleForm

\* Device 1 has two presets; device 2 has one of the same number and lacks one
\* that a schedule may still name.
MCPresetsOf == [d \in Devices |-> IF d = 1 THEN {1, 2} ELSE IF d = 2 THEN {2} ELSE {}]

\* A schedule of each kind: one device, one per device, and one from before.
MCInitial ==
    {s \in StoredOnes :
        \/ s.type = "state" /\ DOMAIN s.links = {1}
        \/ s.type = "preset" /\ s.ps = 2 /\ \A d \in DOMAIN s.links : s.links[d] = 2
                                           /\ 1 \in DOMAIN s.links
        \/ s.type = "preset" /\ s.ps = 1 /\ s.links = [d \in Devices |-> Null]}
=============================================================================
