--------------------------- MODULE MCDevicePages ---------------------------
(* An instance of DevicePages for TLC. *)
EXTENDS DevicePages, Display

\* a-1 and a1 have one key; history is a utility key for clock, and an icon; the
\* second release has lost a1 and clock, and has got history and the lightbulb.
MCFiles == <<"a-1", "a1", "clock", "history", "lightbulb">>
MCCamelKey == [f \in FileNames |-> IF f = "a-1" THEN "a1" ELSE f]
MCReleases == <<{"a-1", "a1", "clock"}, {"a-1", "history", "lightbulb"}>>

MCLights == {[host |-> "h1", mdns |-> "m1"], [host |-> "h2", mdns |-> "m2"]}
\* Added from a scan, its icon chosen when there was no Lucide icon of that name.
MCStart == {[name |-> "n1", icon |-> "history", host |-> "h1", mdns |-> "m1"]}
=============================================================================
