--------------------------- MODULE MCMdnsMonitor ---------------------------
(* Instances of MdnsMonitor for TLC. *)
EXTENDS MdnsMonitor

MCInitialAddress == [l \in Lights |-> IF l = "porch" THEN "a1" ELSE "a2"]

\* One row, tracked by hostname; the id d2 is free, for one that is added.
MCTracked == [d \in {"d1"} |-> [host |-> "a1", mdns_name |-> "porch"]]
=============================================================================
