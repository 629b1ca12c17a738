------------------------------- MODULE Updater -------------------------------
(***************************************************************************)
(* The one-click update of an install on a Pi: the flag file that          *)
(* routers/update.py writes, the script that systemd starts for it         *)
(* (pi/apply_update.sh), and the service with its own migration at start   *)
(* (pi/run.sh, pi/migrate.sh).  A version is a number, and every version   *)
(* brings a migration.                                                     *)
(***************************************************************************)
EXTENDS Integers

CONSTANTS
    MaxVersion,  \* bound: the last version that is tagged
    MaxFaults    \* bound: failing steps, crashes and power cuts

ASSUME UpdaterAssumption == MaxVersion \in Nat \ {0} /\ MaxFaults \in Nat

Down == 0

VARIABLES
    latest,   \* the newest tag of the repository
    code,     \* version in the install directory
    schema,   \* version the database is migrated to
    running,  \* version of the process that answers requests, or Down
    service,  \* where run.sh is
    flag,     \* data/update.flag exists
    script,   \* where apply_update.sh is
    faults,   \* how much of MaxFaults is used
    wanted,   \* auxiliary: the newest tag when an update was last asked for
              \* with no script past its pull
    cutOff    \* auxiliary: a script ended after the flag, without its restart

hostVars == <<latest, code, schema, running, service, flag, script, faults, wanted, cutOff>>

HostInit ==
    /\ latest = 1 /\ code = 1 /\ schema = 1 /\ running = 1 /\ service = "up"
    /\ flag = FALSE /\ script = "idle"
    /\ faults = 0 /\ wanted = 1 /\ cutOff = FALSE

Fault == faults < MaxFaults /\ faults' = faults + 1

Publish ==
    /\ latest < MaxVersion /\ latest' = latest + 1
    /\ UNCHANGED <<code, schema, running, service, flag, script, faults, wanted, cutOff>>

\* Its pull is over, and the flag will still be removed.
Pulled == script \in {"install", "migrate", "unflag"}

\* POST /api/update/apply: _FLAG_FILE.touch(), of a file that may be there.  What
\* is touched after the pull goes with the flag, and is not counted as wanted.
TouchFlag ==
    /\ flag' = TRUE
    /\ wanted' = IF Pulled THEN wanted ELSE latest
    /\ UNCHANGED <<latest, code, schema, running, service, script, faults, cutOff>>

-----------------------------------------------------------------------------
(* apply_update.sh: PathExists starts it, also again after a failure *)

\* Mutant: the flag goes before anything is done.
FlagFirst == flag /\ flag' = FALSE

Triggered == flag /\ UNCHANGED flag

StartScript ==
    /\ script = "idle" /\ Triggered
    /\ script' = "pull"
    /\ UNCHANGED <<latest, code, schema, running, service, faults, wanted, cutOff>>

Pull ==
    /\ script = "pull" /\ script' = "install"
    /\ code' = latest
    /\ UNCHANGED <<latest, schema, running, service, flag, faults, wanted, cutOff>>

Install ==
    /\ script = "install" /\ script' = "migrate"
    /\ UNCHANGED <<latest, code, schema, running, service, flag, faults, wanted, cutOff>>

Migrate ==
    /\ script = "migrate" /\ script' = "unflag"
    /\ schema' = code
    /\ UNCHANGED <<latest, code, running, service, flag, faults, wanted, cutOff>>

Unflag ==
    /\ script = "unflag" /\ script' = "restart"
    /\ flag' = FALSE
    /\ UNCHANGED <<latest, code, schema, running, service, faults, wanted, cutOff>>

\* Mutant: the service goes on as it is.
NoRestart == UNCHANGED <<running, service, cutOff>>

\* Mutant: the service is not started again.
StopOnly == running' = Down /\ cutOff' = FALSE /\ UNCHANGED service

\* The process ends, and run.sh starts over.
Stop == running' = Down /\ service' = "migrating" /\ cutOff' = FALSE

RestartService ==
    /\ script = "restart" /\ script' = "idle"
    /\ Stop
    /\ UNCHANGED <<latest, code, schema, flag, faults, wanted>>

\* set -e: the script ends with a step that fails, also the removal of the flag
\* and the restart, or before any step when it is killed.
ScriptFails ==
    /\ script # "idle" /\ Fault
    /\ script' = "idle" /\ cutOff' = (cutOff \/ script = "restart")
    /\ UNCHANGED <<latest, code, schema, running, service, flag, wanted>>

-----------------------------------------------------------------------------
(* run.sh *)

ServiceMigrates ==
    /\ service = "migrating" /\ service' = "starting"
    /\ schema' = code
    /\ UNCHANGED <<latest, code, running, flag, script, faults, wanted, cutOff>>

ServiceStarts ==
    /\ service = "starting" /\ service' = "up"
    /\ running' = code
    /\ UNCHANGED <<latest, code, schema, flag, script, faults, wanted, cutOff>>

\* Restart=on-failure
Crash ==
    /\ running # Down /\ Fault /\ Stop
    /\ UNCHANGED <<latest, code, schema, flag, script, wanted>>

\* After boot the path unit looks for the flag again.
PowerCut ==
    /\ Fault /\ Stop /\ script' = "idle"
    /\ UNCHANGED <<latest, code, schema, flag, wanted>>

HostNext ==
    \/ Publish
    \/ StartScript \/ Pull \/ Install \/ Migrate \/ Unflag \/ RestartService \/ ScriptFails
    \/ ServiceMigrates \/ ServiceStarts \/ Crash \/ PowerCut

-----------------------------------------------------------------------------
(* Properties *)

HostTypeOK ==
    /\ {latest, code, schema, wanted} \subseteq 1..MaxVersion
    /\ running \in 0..MaxVersion
    /\ {flag, cutOff} \subseteq BOOLEAN
    /\ script \in {"idle", "pull", "install", "migrate", "unflag", "restart"}
    /\ service \in {"migrating", "starting", "up"}
    /\ (running = Down) = (service # "up")

\* An update that was asked for while no script was past its pull is pending
\* until its code is there, whatever step of the script fails and wherever the
\* power is cut, the restart included: the flag goes only after the pull.
UpdateNotForgotten == flag \/ code >= wanted

\* With no update pending or under way, the database is the one of the code on
\* the disk, also after a power cut between two steps of the script; and what
\* runs is that code, except from a script that ended between the removal of the
\* flag and the restart until the service is restarted for another reason.
RestIsConsistent ==
    ~ flag /\ script = "idle" /\ running # Down
    => code = schema /\ (running = code \/ cutOff)
=============================================================================
