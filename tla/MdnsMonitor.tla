----------------------------- MODULE MdnsMonitor -----------------------------
(***************************************************************************)
(* The persistent listener of app/mdns.py and the device requests of       *)
(* app/routers/devices.py, which share the devices table and the in-memory *)
(* dictionary _state (online and consecutive_misses per device id).        *)
(*                                                                         *)
(* Three kinds of worker threads write _state without a lock: the periodic *)
(* sweep, the application of a resolved service, and that of a goodbye.    *)
(* A refresh request is a fourth.  Each works with a session of its own,   *)
(* on rows it loaded at its beginning.  A step here is what a thread does  *)
(* between two calls at which another one may run.                         *)
(*                                                                         *)
(* The lights, the network and zeroconf (its cache, and the browser that   *)
(* reports records it did not have) are the environment.                   *)
(***************************************************************************)
EXTENDS Integers, FiniteSets

CONSTANTS
    Lights,                 \* physical lights, and their Bonjour hostnames
    Addresses,              \* IP addresses the DHCP server gives out
    DeviceIds,              \* device ids, each used for at most one row (uuid4)
    InitialDevices,         \* rows at the start, [id -> [host, mdns_name]]
    InitialAddress,         \* [Lights -> Addresses], all different
    OFFLINE_MISS_THRESHOLD, \* config.MDNS_OFFLINE_MISS_THRESHOLD
    NULL,
    MaxEvents               \* bound: events of the environment and requests

Row == [host : Addresses, mdns_name : Lights \cup {NULL}]
Service == [mdns_name : Lights, ip : Addresses]

ASSUME MonitorAssumption ==
    /\ Lights # {} /\ Addresses # {} /\ NULL \notin Lights \cup DeviceIds
    /\ OFFLINE_MISS_THRESHOLD \in Nat \ {0} /\ MaxEvents \in Nat
    /\ InitialAddress \in [Lights -> Addresses]
    /\ \A l, k \in Lights : InitialAddress[l] = InitialAddress[k] => l = k
    /\ DOMAIN InitialDevices \subseteq DeviceIds
    /\ InitialDevices \in [DOMAIN InitialDevices -> Row]
    /\ \A d, e \in DOMAIN InitialDevices :
          InitialDevices[d].host = InitialDevices[e].host => d = e

VARIABLES
    address, powered,   \* the lights
    cache,              \* lights whose A record is in zeroconf's cache, unexpired
    devices, retired,   \* ids of the committed rows, and of the deleted ones
    rows,               \* their columns; a deleted row keeps the ones it had
    online, misses,     \* _state; an id that has no entry reads as offline, 0
    sweepPc, sweepLeft, sweepDevice, sweepLive, \* locals of sweep_tick
    resolved,           \* services resolved and not yet applied
    applyPc, applyService, applyDevice, applyRow, \* locals of _apply_resolved_service
    goodbyes,           \* goodbye records not yet applied
    refreshing,         \* the device a refresh has had an answer from
    events,             \* how much of the bound is used
    signed              \* auxiliary: devices with a sign of life since the sweep began

lightVars == <<address, powered, cache>>
dbVars == <<devices, retired, rows>>
stateVars == <<online, misses>>
sweepVars == <<sweepPc, sweepLeft, sweepDevice, sweepLive>>
applyVars == <<applyPc, applyService, applyDevice, applyRow>>
vars == <<lightVars, dbVars, stateVars, sweepVars, resolved, applyVars, goodbyes,
          refreshing, events, signed>>

----------------------------------------------------------------------------
NoService == [mdns_name |-> CHOOSE l \in Lights : TRUE, ip |-> CHOOSE a \in Addresses : TRUE]
NoRow == [host |-> CHOOSE a \in Addresses : TRUE, mdns_name |-> NULL]

Init ==
    /\ address = InitialAddress /\ powered = [l \in Lights |-> TRUE] /\ cache = {}
    /\ devices = DOMAIN InitialDevices /\ retired = {}
    /\ rows = [d \in DeviceIds |-> IF d \in devices THEN InitialDevices[d] ELSE NoRow]
    /\ online = [d \in DeviceIds |-> FALSE] /\ misses = [d \in DeviceIds |-> 0]
    /\ sweepPc = "idle" /\ sweepLeft = {} /\ sweepDevice = NULL /\ sweepLive = FALSE
    /\ applyPc = "idle" /\ applyService = NoService /\ applyDevice = NULL /\ applyRow = NoRow
    /\ resolved = {} /\ goodbyes = {} /\ refreshing = NULL
    /\ events = 0 /\ signed = {}

----------------------------------------------------------------------------
(* The lights and zeroconf                                                 *)

Event == events < MaxEvents /\ events' = events + 1

\* The browser has seen l at a, and a task resolves it.
Report(l, a) == resolved' = resolved \cup {[mdns_name |-> l, ip |-> a]}

\* Power loss, or a network drop: nothing is sent.
PowerLoss(l) ==
    /\ Event
    /\ powered[l]
    /\ powered' = [powered EXCEPT ![l] = FALSE]
    /\ UNCHANGED <<address, cache, dbVars, stateVars, sweepVars, resolved, applyVars,
                   goodbyes, refreshing, signed>>

\* Clean shutdown: an A record with TTL 0 leaves the cache and reaches
\* _GoodbyeListener, which starts a thread for it.
Goodbye(l) ==
    /\ Event
    /\ powered[l]
    /\ powered' = [powered EXCEPT ![l] = FALSE]
    /\ cache' = cache \ {l}
    /\ goodbyes' = goodbyes \cup {l}
    /\ UNCHANGED <<address, dbVars, stateVars, sweepVars, resolved, applyVars,
                   refreshing, signed>>

\* The light boots, with the address it had or another free one.  The browser
\* reports Added or Updated only for a record the cache does not hold.
PowerOn(l, a) ==
    /\ Event
    /\ ~powered[l]
    /\ \A k \in Lights \ {l} : powered[k] => address[k] # a
    /\ powered' = [powered EXCEPT ![l] = TRUE]
    /\ address' = [address EXCEPT ![l] = a]
    /\ cache' = cache \cup {l}
    /\ IF l \in cache /\ address[l] = a THEN UNCHANGED resolved ELSE Report(l, a)
    /\ UNCHANGED <<dbVars, stateVars, sweepVars, applyVars, goodbyes, refreshing, signed>>

\* A running light answers the browser's queries.
Answer(l) ==
    /\ powered[l] /\ l \notin cache
    /\ cache' = cache \cup {l}
    /\ Report(l, address[l])
    /\ UNCHANGED <<address, powered, dbVars, stateVars, sweepVars, applyVars, goodbyes,
                   refreshing, events, signed>>

\* The record of a silent light expires; that of a running one does if the
\* packets that would have refreshed it are lost.
Expire(l) ==
    /\ l \in cache
    /\ IF powered[l] THEN Event ELSE UNCHANGED events
    /\ cache' = cache \ {l}
    /\ UNCHANGED <<address, powered, dbVars, stateVars, sweepVars, resolved, applyVars,
                   goodbyes, refreshing, signed>>

\* AsyncServiceInfo.async_request gets no answer in time.
ResolveFails(service) ==
    /\ Event
    /\ service \in resolved
    /\ resolved' = resolved \ {service}
    /\ UNCHANGED <<lightVars, dbVars, stateVars, sweepVars, applyVars, goodbyes,
                   refreshing, signed>>

----------------------------------------------------------------------------
(* State transitions                                                       *)

\* Mutant: the miss counter is not reset.
mark_online_keeping_misses(d) ==
    /\ online' = [online EXCEPT ![d] = TRUE]
    /\ signed' = signed \cup {d}
    /\ UNCHANGED misses

mark_online(d) ==
    /\ online' = [online EXCEPT ![d] = TRUE]
    /\ misses' = [misses EXCEPT ![d] = 0]
    /\ signed' = signed \cup {d}

mark_offline_immediate(d) ==
    /\ online' = [online EXCEPT ![d] = FALSE]
    /\ misses' = [misses EXCEPT ![d] = 0]

----------------------------------------------------------------------------
(* sweep_tick                                                              *)

SweepStart ==
    /\ sweepPc = "idle"
    /\ sweepPc' = "looping"
    /\ sweepLeft' = {d \in devices : rows[d].mdns_name # NULL}
    /\ signed' = {}
    /\ UNCHANGED <<lightVars, dbVars, stateVars, sweepDevice, sweepLive, resolved,
                   applyVars, goodbyes, refreshing, events>>

\* is_hostname_live
SweepCheck(d) ==
    /\ sweepPc = "looping" /\ d \in sweepLeft
    /\ sweepPc' = "checked"
    /\ sweepLeft' = sweepLeft \ {d}
    /\ sweepDevice' = d
    /\ sweepLive' = (rows[d].mdns_name \in cache)
    /\ UNCHANGED <<lightVars, dbVars, stateVars, resolved, applyVars, goodbyes,
                   refreshing, events, signed>>

\* Mutant: = 1 instead of += 1.
MissedOnce(d) == 1

\* Counts a miss; the count stops mattering at the threshold.
Missed(d) ==
    IF misses[d] < OFFLINE_MISS_THRESHOLD THEN misses[d] + 1 ELSE misses[d]

\* Mutant: a live record only resets the counter.
SweepForgetsOnline ==
    /\ sweepPc = "checked"
    /\ sweepPc' = "looping" /\ sweepDevice' = NULL /\ sweepLive' = FALSE
    /\ misses' = [misses EXCEPT ![sweepDevice] = IF sweepLive THEN 0 ELSE Missed(sweepDevice)]
    /\ online' = [online EXCEPT ![sweepDevice] =
                    @ /\ (sweepLive \/ Missed(sweepDevice) < OFFLINE_MISS_THRESHOLD)]
    /\ UNCHANGED <<lightVars, dbVars, sweepLeft, resolved, applyVars, goodbyes,
                   refreshing, events, signed>>

SweepUpdate ==
    /\ sweepPc = "checked"
    /\ sweepPc' = "looping" /\ sweepDevice' = NULL /\ sweepLive' = FALSE
    /\ IF sweepLive
       THEN /\ misses' = [misses EXCEPT ![sweepDevice] = 0]
            /\ online' = [online EXCEPT ![sweepDevice] = TRUE]
       ELSE /\ misses' = [misses EXCEPT ![sweepDevice] = Missed(sweepDevice)]
            /\ online' = [online EXCEPT ![sweepDevice] =
                            @ /\ Missed(sweepDevice) < OFFLINE_MISS_THRESHOLD]
    /\ UNCHANGED <<lightVars, dbVars, sweepLeft, resolved, applyVars, goodbyes,
                   refreshing, events, signed>>

\* The commit writes last_seen_at only; whether it succeeds changes nothing here.
SweepEnd ==
    /\ sweepPc = "looping" /\ sweepLeft = {}
    /\ sweepPc' = "idle"
    /\ UNCHANGED <<lightVars, dbVars, stateVars, sweepLeft, sweepDevice, sweepLive,
                   resolved, applyVars, goodbyes, refreshing, events, signed>>

----------------------------------------------------------------------------
(* _apply_resolved_service                                                 *)

match_device_by_hostname(name) == {d \in devices : rows[d].mdns_name = name}
match_device_by_ip(ip) == {d \in devices : rows[d].mdns_name = NULL /\ rows[d].host = ip}

\* The device of a resolved service: by hostname, and by IP only if no row has
\* that hostname.  Hosts and hostnames are unique, so there is at most one.
Matched(service) ==
    IF match_device_by_hostname(service.mdns_name) # {}
    THEN match_device_by_hostname(service.mdns_name)
    ELSE match_device_by_ip(service.ip)

ApplySelect(service) ==
    /\ applyPc = "idle" /\ service \in resolved
    /\ resolved' = resolved \ {service}
    /\ IF Matched(service) = {} THEN UNCHANGED applyVars
       ELSE \E d \in Matched(service) :
              /\ applyPc' = "marking"
              /\ applyService' = service /\ applyDevice' = d /\ applyRow' = rows[d]
    /\ UNCHANGED <<lightVars, dbVars, stateVars, sweepVars, goodbyes, refreshing,
                   events, signed>>

\* mark_online, up to the assignments to the row, which stay in the session.
ApplyMark ==
    /\ applyPc = "marking"
    /\ mark_online(applyDevice)
    /\ applyPc' = "committing"
    /\ applyRow' = [host |-> applyService.ip, mdns_name |-> applyService.mdns_name]
    /\ UNCHANGED <<lightVars, dbVars, sweepVars, resolved, applyService, applyDevice,
                   goodbyes, refreshing, events>>

\* Mutant: the constraint on host is missing.
UniqueNames(d, row) ==
    \A e \in devices \ {d} :
        row.mdns_name = NULL \/ rows[e].mdns_name # row.mdns_name

\* UNIQUE (host), UNIQUE (mdns_name)
Unique(d, row) ==
    \A e \in devices \ {d} :
        /\ rows[e].host # row.host
        /\ row.mdns_name = NULL \/ rows[e].mdns_name # row.mdns_name

\* A commit that fails raises in a task nobody awaits: _state keeps the mark.
ApplyCommit ==
    /\ applyPc = "committing"
    /\ rows' = IF applyDevice \in devices /\ Unique(applyDevice, applyRow)
               THEN [rows EXCEPT ![applyDevice] = applyRow] ELSE rows
    /\ applyPc' = "idle" /\ applyService' = NoService
    /\ applyDevice' = NULL /\ applyRow' = NoRow
    /\ UNCHANGED <<lightVars, devices, retired, stateVars, sweepVars, resolved, goodbyes,
                   refreshing, events, signed>>

\* _apply_goodbye
ApplyGoodbye(name) ==
    /\ name \in goodbyes
    /\ goodbyes' = goodbyes \ {name}
    /\ IF match_device_by_hostname(name) = {} THEN UNCHANGED stateVars
       ELSE \E d \in match_device_by_hostname(name) : mark_offline_immediate(d)
    /\ UNCHANGED <<lightVars, dbVars, sweepVars, resolved, applyVars, refreshing,
                   events, signed>>

----------------------------------------------------------------------------
(* Requests                                                                *)

Reachable(host) == \E l \in Lights : powered[l] /\ address[l] = host

\* mdns_name comes from a scan result, or is not given.
create_device(d, host, name) ==
    /\ Event
    /\ d \notin devices \cup retired
    /\ Reachable(host)
    /\ name # NULL => address[name] = host
    /\ Unique(d, [host |-> host, mdns_name |-> name])
    /\ devices' = devices \cup {d}
    /\ rows' = [rows EXCEPT ![d] = [host |-> host, mdns_name |-> name]]
    /\ UNCHANGED <<lightVars, retired, stateVars, sweepVars, resolved, applyVars, goodbyes,
                   refreshing, signed>>

delete_device(d) ==
    /\ Event
    /\ d \in devices
    /\ devices' = devices \ {d} /\ retired' = retired \cup {d}
    /\ UNCHANGED <<lightVars, rows, stateVars, sweepVars, resolved, applyVars, goodbyes,
                   refreshing, signed>>

\* refresh_device: whatever answers at the stored host counts as the device.
RefreshAnswered(d) ==
    /\ Event
    /\ refreshing = NULL /\ d \in devices
    /\ Reachable(rows[d].host)
    /\ refreshing' = d
    /\ UNCHANGED <<lightVars, dbVars, stateVars, sweepVars, resolved, applyVars,
                   goodbyes, signed>>

RefreshMark ==
    /\ refreshing # NULL
    /\ mark_online(refreshing)
    /\ refreshing' = NULL
    /\ UNCHANGED <<lightVars, dbVars, sweepVars, resolved, applyVars, goodbyes, events>>

\* The process stops and is started again: _state, the threads and zeroconf's
\* cache are empty.
Restart ==
    /\ Event
    /\ cache' = {}
    /\ online' = [d \in DeviceIds |-> FALSE] /\ misses' = [d \in DeviceIds |-> 0]
    /\ sweepPc' = "idle" /\ sweepLeft' = {} /\ sweepDevice' = NULL /\ sweepLive' = FALSE
    /\ applyPc' = "idle" /\ applyService' = NoService /\ applyDevice' = NULL /\ applyRow' = NoRow
    /\ resolved' = {} /\ goodbyes' = {} /\ refreshing' = NULL
    /\ signed' = {}
    /\ UNCHANGED <<address, powered, dbVars>>

----------------------------------------------------------------------------
Sweep == SweepStart \/ (\E d \in DeviceIds : SweepCheck(d)) \/ SweepUpdate \/ SweepEnd

Apply ==
    \/ ApplyMark \/ ApplyCommit
    \/ \E name \in Lights, ip \in Addresses : ApplySelect([mdns_name |-> name, ip |-> ip])

Environment ==
    \/ \E l \in Lights :
          PowerLoss(l) \/ Goodbye(l) \/ Answer(l) \/ Expire(l)
          \/ \E a \in Addresses : PowerOn(l, a) \/ ResolveFails([mdns_name |-> l, ip |-> a])
    \/ Restart

Request ==
    \/ \E d \in DeviceIds :
          \/ delete_device(d) \/ RefreshAnswered(d)
          \/ \E a \in Addresses, name \in Lights \cup {NULL} : create_device(d, a, name)
    \/ RefreshMark

Next ==
    \/ Sweep \/ Apply \/ (\E name \in Lights : ApplyGoodbye(name))
    \/ Environment \/ Request

Spec == Init /\ [][Next]_vars

\* Threads run, running lights answer queries and records of silent ones
\* expire (TTL 120 s).
Fairness ==
    /\ WF_vars(Sweep) /\ WF_vars(Apply) /\ WF_vars(RefreshMark)
    /\ \A l \in Lights :
          /\ WF_vars(ApplyGoodbye(l)) /\ WF_vars(Answer(l))
          /\ WF_vars(~powered[l] /\ Expire(l))

FairSpec == Spec /\ Fairness

----------------------------------------------------------------------------
(* Properties                                                              *)

LightType ==
    /\ address \in [Lights -> Addresses] /\ powered \in [Lights -> BOOLEAN]
    /\ cache \subseteq Lights
    /\ resolved \subseteq Service /\ goodbyes \subseteq Lights
    /\ events \in 0..MaxEvents

DbType ==
    /\ devices \subseteq DeviceIds /\ retired \subseteq DeviceIds /\ devices \cap retired = {}
    /\ rows \in [DeviceIds -> Row]
    /\ \A d, e \in devices : rows[d].host = rows[e].host => d = e

StateType ==
    /\ online \in [DeviceIds -> BOOLEAN]
    /\ misses \in [DeviceIds -> 0..OFFLINE_MISS_THRESHOLD]
    /\ signed \subseteq DeviceIds

SweepType ==
    /\ sweepPc \in {"idle", "looping", "checked"} /\ sweepLeft \subseteq DeviceIds
    /\ sweepDevice \in DeviceIds \cup {NULL} /\ sweepLive \in BOOLEAN
    /\ sweepPc = "checked" <=> sweepDevice # NULL
    /\ sweepDevice \notin sweepLeft

ApplyType ==
    /\ applyPc \in {"idle", "marking", "committing"}
    /\ applyService \in Service /\ applyRow \in Row
    /\ applyDevice \in DeviceIds \cup {NULL}
    /\ applyPc = "idle" <=> applyDevice = NULL
    /\ refreshing \in DeviceIds \cup {NULL}

TypeOK == LightType /\ DbType /\ StateType /\ SweepType /\ ApplyType

\* The sweep never takes a device offline on a record it looked up before the
\* device's last sign of life: a resolved service or a refresh between the
\* lookup and the update resets the counter, and one miss is not enough.
VerdictIsFresh ==
    [][\A d \in DeviceIds :
          (SweepUpdate /\ online[d] /\ ~online'[d]) => d \notin signed]_vars

Tracks(d, l) == d \in devices /\ rows[d].mdns_name = l

\* A light that is gone for good ends up offline, however it went: late
\* answers, refreshes and goodbyes applied out of order only delay it.
GoneGoesOffline ==
    \A d \in DeviceIds, l \in Lights :
        <>[](Tracks(d, l) /\ ~powered[l]) => <>[]~online[d]

\* A light that is there for good ends up online, whatever was lost and
\* whatever goodbye of an earlier shutdown is applied late.
PresentComesOnline ==
    \A d \in DeviceIds, l \in Lights :
        <>[](Tracks(d, l) /\ powered[l]) => <>[]online[d]
=============================================================================
