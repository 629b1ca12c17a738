----------------------------- MODULE MdnsProofs -----------------------------
(***************************************************************************)
(* Types of MdnsMonitor, and the freshness of the sweep's verdicts for     *)
(* every miss threshold of at least two.                                   *)
(***************************************************************************)
EXTENDS MdnsMonitor, TLAPS

USE MonitorAssumption

LEMMA Blank == NoService \in Service /\ NoRow \in Row
BY DEF NoService, NoRow, Service, Row

LEMMA TypeInit == Init => TypeOK
<1> SUFFICES ASSUME Init PROVE TypeOK
  OBVIOUS
<1>1. LightType
  BY DEF Init, LightType, Service
<1>2. DbType
  <2>1. rows \in [DeviceIds -> Row]
    BY Blank DEF Init
  <2>2. \A d \in devices : rows[d] = InitialDevices[d]
    BY DEF Init
  <2> QED
    BY <2>1, <2>2 DEF Init, DbType
<1>3. StateType
  BY DEF Init, StateType
<1>4. SweepType /\ ApplyType
  BY Blank DEF Init, SweepType, ApplyType
<1> QED
  BY <1>1, <1>2, <1>3, <1>4 DEF TypeOK

\* Everything but the four parts of the state that threads write.
LEMMA LightStep == TypeOK /\ [Next]_vars => LightType'
<1> SUFFICES ASSUME TypeOK, [Next]_vars PROVE LightType'
  OBVIOUS
<1>0. LightType
  BY DEF TypeOK
<1> USE DEF LightType, lightVars
<1>a. ASSUME NEW l \in Lights, NEW a \in Addresses
      PROVE  [mdns_name |-> l, ip |-> a] \in Service
  BY DEF Service
<1>b. Event => events' \in 0..MaxEvents
  BY <1>0 DEF Event
<1>1. ASSUME NEW l \in Lights, PowerLoss(l) \/ Goodbye(l) \/ Answer(l) \/ Expire(l)
      PROVE  LightType'
  <2>1. CASE PowerLoss(l)
    BY <1>0, <1>b, <2>1 DEF PowerLoss
  <2>2. CASE Goodbye(l)
    BY <1>0, <1>b, <2>2 DEF Goodbye
  <2>3. CASE Answer(l)
    <3>1. [mdns_name |-> l, ip |-> address[l]] \in Service
      BY <1>0, <1>a
    <3> QED
      BY <1>0, <2>3, <3>1 DEF Answer, Report
  <2>4. CASE Expire(l)
    BY <1>0, <1>b, <2>4 DEF Expire
  <2> QED
    BY <1>1, <2>1, <2>2, <2>3, <2>4
<1>2. ASSUME NEW l \in Lights, NEW a \in Addresses,
             PowerOn(l, a) \/ ResolveFails([mdns_name |-> l, ip |-> a])
      PROVE  LightType'
  <2>1. CASE PowerOn(l, a)
    <3>1. resolved' = resolved \/ resolved' = resolved \cup {[mdns_name |-> l, ip |-> a]}
      BY <2>1 DEF PowerOn, Report
    <3>2. resolved' \subseteq Service
      BY <1>0, <1>a, <3>1
    <3> QED
      BY <1>0, <1>b, <2>1, <3>2 DEF PowerOn
  <2>2. CASE ResolveFails([mdns_name |-> l, ip |-> a])
    BY <1>0, <1>b, <2>2 DEF ResolveFails
  <2> QED
    BY <1>2, <2>1, <2>2
<1>3. CASE Restart
  BY <1>0, <1>b, <1>3 DEF Restart
<1>4. CASE Sweep
  BY <1>0, <1>4 DEF Sweep, SweepStart, SweepCheck, SweepUpdate, SweepEnd
<1>5. CASE Apply
  <2>1. UNCHANGED <<lightVars, goodbyes, events>> /\ resolved' \subseteq resolved
    BY <1>5 DEF Apply, ApplyMark, ApplyCommit, ApplySelect
  <2> QED
    BY <1>0, <2>1
<1>6. ASSUME NEW l \in Lights, ApplyGoodbye(l) PROVE LightType'
  <2>1. UNCHANGED <<lightVars, resolved, events>> /\ goodbyes' \subseteq goodbyes
    BY <1>6 DEF ApplyGoodbye
  <2> QED
    BY <1>0, <2>1
<1>7. CASE Request
  BY <1>0, <1>b, <1>7 DEF Request, RefreshMark, RefreshAnswered, delete_device, create_device
<1>8. CASE UNCHANGED vars
  BY <1>0, <1>8 DEF vars
<1> QED
  BY <1>1, <1>2, <1>3, <1>4, <1>5, <1>6, <1>7, <1>8 DEF Next, Environment

LEMMA DbStep == TypeOK /\ [Next]_vars => DbType'
<1> SUFFICES ASSUME TypeOK, [Next]_vars PROVE DbType'
  OBVIOUS
<1> USE DEF TypeOK, DbType
<1>1. CASE ApplyCommit
  <2>1. CASE applyDevice \in devices /\ Unique(applyDevice, applyRow)
    <3>1. rows' = [rows EXCEPT ![applyDevice] = applyRow] /\ devices' = devices /\ retired' = retired
      BY <1>1, <2>1 DEF ApplyCommit
    <3>2. applyRow \in Row
      BY DEF ApplyType
    <3>3. \A d, e \in devices : rows'[d].host = rows'[e].host => d = e
      BY <2>1, <3>1 DEF Unique
    <3> QED
      BY <3>1, <3>2, <3>3
  <2>2. CASE ~(applyDevice \in devices /\ Unique(applyDevice, applyRow))
    BY <1>1, <2>2 DEF ApplyCommit
  <2> QED
    BY <2>1, <2>2
<1>2. ASSUME NEW d \in DeviceIds, NEW a \in Addresses, NEW name \in Lights \cup {NULL},
             create_device(d, a, name)
      PROVE  DbType'
  <2> DEFINE row == [host |-> a, mdns_name |-> name]
  <2>1. row \in Row /\ row.host = a
    BY DEF Row
  <2>2. /\ rows' = [rows EXCEPT ![d] = row] /\ devices' = devices \cup {d}
        /\ retired' = retired /\ d \notin devices \cup retired /\ Unique(d, row)
    BY <1>2 DEF create_device
  <2> HIDE DEF row
  <2>3. \A e \in devices : e # d /\ rows'[e] = rows[e] /\ rows[e].host # row.host
    BY <2>2 DEF Unique
  <2>4. rows'[d] = row
    BY <2>2
  <2>5. \A e, f \in devices' : rows'[e].host = rows'[f].host => e = f
    BY <2>2, <2>3, <2>4
  <2> QED
    BY <2>1, <2>2, <2>5
<1>3. ASSUME NEW d \in DeviceIds, delete_device(d) \/ RefreshAnswered(d) PROVE DbType'
  BY <1>3 DEF delete_device, RefreshAnswered, dbVars
<1>4. CASE Environment
  BY <1>4 DEF Environment, PowerLoss, Goodbye, Answer, Expire, PowerOn, ResolveFails,
              Restart, dbVars
<1>5. CASE Sweep \/ RefreshMark \/ UNCHANGED vars
  BY <1>5 DEF Sweep, SweepStart, SweepCheck, SweepUpdate, SweepEnd, RefreshMark, dbVars, vars
<1>6. ASSUME NEW l \in Lights, ApplyGoodbye(l) PROVE DbType'
  BY <1>6 DEF ApplyGoodbye, dbVars
<1>7. ASSUME NEW s, ApplySelect(s) PROVE DbType'
  BY <1>7 DEF ApplySelect, dbVars
<1>8. CASE ApplyMark
  BY <1>8 DEF ApplyMark, dbVars
<1> QED
  BY <1>1, <1>2, <1>3, <1>4, <1>5, <1>6, <1>7, <1>8 DEF Next, Apply, Request

LEMMA MissedType ==
    ASSUME StateType, NEW d \in DeviceIds
    PROVE  Missed(d) \in 0..OFFLINE_MISS_THRESHOLD
BY DEF StateType, Missed

LEMMA StateStep == TypeOK /\ [Next]_vars => StateType'
<1> SUFFICES ASSUME TypeOK, [Next]_vars PROVE StateType'
  OBVIOUS
<1>0. StateType /\ SweepType /\ ApplyType /\ DbType
  BY DEF TypeOK
<1>1. ASSUME NEW d \in DeviceIds, mark_online(d) PROVE StateType'
  BY <1>0, <1>1 DEF mark_online, StateType
<1>2. ASSUME NEW d \in DeviceIds, mark_offline_immediate(d), UNCHANGED signed PROVE StateType'
  BY <1>0, <1>2 DEF mark_offline_immediate, StateType
<1>3. CASE SweepUpdate
  <2>1. sweepDevice \in DeviceIds
    BY <1>0, <1>3 DEF SweepUpdate, SweepType
  <2>2. Missed(sweepDevice) \in 0..OFFLINE_MISS_THRESHOLD
    BY <1>0, <2>1, MissedType
  <2>3. misses' \in [DeviceIds -> 0..OFFLINE_MISS_THRESHOLD]
    BY <1>0, <1>3, <2>2 DEF SweepUpdate, StateType
  <2>4. online' \in [DeviceIds -> BOOLEAN] /\ signed' = signed
    BY <1>0, <1>3, Zenon DEF SweepUpdate, StateType
  <2> QED
    BY <1>0, <2>3, <2>4 DEF StateType
<1>4. CASE ApplyMark
  BY <1>0, <1>1, <1>4 DEF ApplyMark, ApplyType
<1>5. CASE RefreshMark
  BY <1>0, <1>1, <1>5 DEF RefreshMark, ApplyType
<1>6. ASSUME NEW l \in Lights, ApplyGoodbye(l) PROVE StateType'
  <2>1. match_device_by_hostname(l) \subseteq DeviceIds
    BY <1>0 DEF match_device_by_hostname, DbType
  <2> QED
    BY <1>0, <1>2, <1>6, <2>1 DEF ApplyGoodbye, stateVars, StateType
<1>7. CASE Restart
  BY <1>0, <1>7 DEF Restart, StateType
<1>8. ASSUME UNCHANGED stateVars, signed' = signed \/ signed' = {} PROVE StateType'
  BY <1>0, <1>8 DEF stateVars, StateType
<1>9. CASE Environment /\ ~Restart
  BY <1>8, <1>9 DEF Environment, PowerLoss, Goodbye, Answer, Expire, PowerOn, ResolveFails
<1>10. CASE Sweep /\ ~SweepUpdate
  BY <1>8, <1>10 DEF Sweep, SweepStart, SweepCheck, SweepEnd
<1>11. CASE Apply /\ ~ApplyMark
  BY <1>8, <1>11 DEF Apply, ApplySelect, ApplyCommit
<1>12. CASE Request /\ ~RefreshMark
  BY <1>8, <1>12 DEF Request, delete_device, RefreshAnswered, create_device
<1>13. CASE UNCHANGED vars
  BY <1>8, <1>13 DEF vars
<1> QED
  BY <1>3, <1>4, <1>5, <1>6, <1>7, <1>9, <1>10, <1>11, <1>12, <1>13 DEF Next

LEMMA SweepStep == TypeOK /\ [Next]_vars => SweepType'
<1> SUFFICES ASSUME TypeOK, [Next]_vars PROVE SweepType'
  OBVIOUS
<1> USE DEF TypeOK, SweepType
<1>1. CASE SweepStart
  BY <1>1 DEF SweepStart, DbType
<1>2. ASSUME NEW d \in DeviceIds, SweepCheck(d) PROVE SweepType'
  BY <1>2 DEF SweepCheck
<1>3. CASE SweepUpdate \/ SweepEnd
  BY <1>3 DEF SweepUpdate, SweepEnd
<1>4. CASE Restart
  BY <1>4 DEF Restart
<1>5. ASSUME UNCHANGED sweepVars PROVE SweepType'
  BY <1>5 DEF sweepVars
<1>6. CASE Environment /\ ~Restart
  BY <1>5, <1>6 DEF Environment, PowerLoss, Goodbye, Answer, Expire, PowerOn, ResolveFails
<1>7. CASE Apply \/ Request \/ UNCHANGED vars
  BY <1>5, <1>7 DEF Apply, ApplySelect, ApplyMark, ApplyCommit, Request, RefreshMark,
                    delete_device, RefreshAnswered, create_device, vars
<1>8. ASSUME NEW l \in Lights, ApplyGoodbye(l) PROVE SweepType'
  BY <1>5, <1>8 DEF ApplyGoodbye
<1> QED
  BY <1>1, <1>2, <1>3, <1>4, <1>6, <1>7, <1>8 DEF Next, Sweep

LEMMA ApplyStep == TypeOK /\ [Next]_vars => ApplyType'
<1> SUFFICES ASSUME TypeOK, [Next]_vars PROVE ApplyType'
  OBVIOUS
<1> USE DEF TypeOK, ApplyType
<1>1. ASSUME NEW name \in Lights, NEW ip \in Addresses,
             ApplySelect([mdns_name |-> name, ip |-> ip])
      PROVE  ApplyType'
  <2> DEFINE service == [mdns_name |-> name, ip |-> ip]
  <2>1. service \in Service
    BY DEF Service
  <2>2. ApplySelect(service)
    BY <1>1
  <2> HIDE DEF service
  <2>3. Matched(service) \subseteq DeviceIds
    BY DEF Matched, match_device_by_hostname, match_device_by_ip, DbType
  <2> QED
    BY <2>1, <2>2, <2>3 DEF ApplySelect, applyVars, DbType
<1>2. CASE ApplyMark
  BY <1>2 DEF ApplyMark, Row, Service
<1>3. CASE ApplyCommit
  BY <1>3, Blank DEF ApplyCommit
<1>4. CASE Restart
  BY <1>4, Blank DEF Restart
<1>5. CASE Request
  BY <1>5 DEF Request, RefreshMark, delete_device, RefreshAnswered, create_device, applyVars
<1>6. ASSUME UNCHANGED <<applyVars, refreshing>> PROVE ApplyType'
  BY <1>6 DEF applyVars
<1>7. CASE Environment /\ ~Restart
  BY <1>6, <1>7 DEF Environment, PowerLoss, Goodbye, Answer, Expire, PowerOn, ResolveFails
<1>8. CASE Sweep \/ UNCHANGED vars
  BY <1>6, <1>8 DEF Sweep, SweepStart, SweepCheck, SweepUpdate, SweepEnd, vars
<1>9. ASSUME NEW l \in Lights, ApplyGoodbye(l) PROVE ApplyType'
  BY <1>6, <1>9 DEF ApplyGoodbye
<1> QED
  BY <1>1, <1>2, <1>3, <1>4, <1>5, <1>7, <1>8, <1>9 DEF Next, Apply

LEMMA TypeStep == TypeOK /\ [Next]_vars => TypeOK'
BY LightStep, DbStep, StateStep, SweepStep, ApplyStep DEF TypeOK

\* Every variable keeps its type, and no two devices ever have one address,
\* whichever resolved services, creations and deletions overlap.
THEOREM MonitorTypes == Spec => []TypeOK
BY TypeInit, TypeStep, PTL DEF Spec

----------------------------------------------------------------------------
(* The sweep                                                               *)

\* A device that has given a sign of life since the sweep began, and that the
\* sweep still has to update, starts from no misses.
SignResets ==
    \A d \in signed : (d \in sweepLeft \/ d = sweepDevice) => misses[d] = 0

LEMMA SignInit == Init => SignResets
BY DEF Init, SignResets

LEMMA SignStep == TypeOK /\ SignResets /\ [Next]_vars => SignResets'
<1> SUFFICES ASSUME TypeOK, SignResets, [Next]_vars PROVE SignResets'
  OBVIOUS
<1>0. StateType /\ SweepType /\ ApplyType /\ DbType
  BY DEF TypeOK
<1> USE DEF SignResets
<1>1. ASSUME NEW d \in DeviceIds, mark_online(d), UNCHANGED sweepVars PROVE SignResets'
  BY <1>0, <1>1 DEF mark_online, sweepVars, StateType
<1>2. ASSUME NEW d \in DeviceIds, mark_offline_immediate(d), UNCHANGED <<sweepVars, signed>>
      PROVE  SignResets'
  BY <1>0, <1>2 DEF mark_offline_immediate, sweepVars, StateType
<1>3. CASE SweepUpdate
  <2>1. \A d \in sweepLeft : d \in DeviceIds /\ d # sweepDevice
    BY <1>0 DEF SweepType
  <2>2. \A d \in sweepLeft : misses'[d] = misses[d]
    BY <1>0, <1>3, <2>1 DEF SweepUpdate, StateType
  <2>3. UNCHANGED <<sweepLeft, signed>> /\ sweepDevice' \notin DeviceIds
    BY <1>3 DEF SweepUpdate
  <2> QED
    BY <1>0, <2>2, <2>3 DEF StateType
<1>4. CASE SweepStart \/ Restart
  BY <1>4 DEF SweepStart, Restart
<1>5. ASSUME NEW d \in DeviceIds, SweepCheck(d) PROVE SignResets'
  BY <1>5 DEF SweepCheck, stateVars
<1>6. CASE SweepEnd
  BY <1>6 DEF SweepEnd, stateVars
<1>7. CASE ApplyMark
  BY <1>0, <1>1, <1>7 DEF ApplyMark, ApplyType
<1>8. CASE RefreshMark
  BY <1>0, <1>1, <1>8 DEF RefreshMark, ApplyType
<1>9. ASSUME UNCHANGED <<stateVars, sweepVars, signed>> PROVE SignResets'
  BY <1>9 DEF stateVars, sweepVars
<1>10. ASSUME NEW l \in Lights, ApplyGoodbye(l) PROVE SignResets'
  <2>1. match_device_by_hostname(l) \subseteq DeviceIds
    BY <1>0 DEF match_device_by_hostname, DbType
  <2> QED
    BY <1>2, <1>9, <1>10, <2>1 DEF ApplyGoodbye
<1>11. CASE Environment /\ ~Restart
  BY <1>9, <1>11 DEF Environment, PowerLoss, Goodbye, Answer, Expire, PowerOn, ResolveFails
<1>12. CASE Apply /\ ~ApplyMark
  BY <1>9, <1>12 DEF Apply, ApplySelect, ApplyCommit
<1>13. CASE Request /\ ~RefreshMark
  BY <1>9, <1>13 DEF Request, delete_device, RefreshAnswered, create_device
<1>14. CASE UNCHANGED vars
  BY <1>9, <1>14 DEF vars
<1> QED
  BY <1>3, <1>4, <1>5, <1>6, <1>7, <1>8, <1>10, <1>11, <1>12, <1>13, <1>14 DEF Next, Sweep

\* With a threshold of at least two misses, the sweep never takes a device
\* offline on a record it looked up before the device's last sign of life.
THEOREM VerdictsAreFresh ==
    ASSUME OFFLINE_MISS_THRESHOLD >= 2
    PROVE  Spec => VerdictIsFresh
<1>1. ASSUME TypeOK, SignResets, NEW d \in DeviceIds, SweepUpdate, online[d], ~online'[d]
      PROVE  d \notin signed
  <2>1. StateType /\ SweepType
    BY <1>1 DEF TypeOK
  <2>2. d = sweepDevice
    <3>1. \E b \in BOOLEAN : online' = [online EXCEPT ![sweepDevice] = b]
      <4>1. CASE sweepLive
        BY <1>1, <4>1 DEF SweepUpdate
      <4>2. CASE ~sweepLive
        BY <1>1, <2>1, <4>2, Zenon DEF SweepUpdate
      <4> QED
        BY <4>1, <4>2
    <3> QED
      BY <1>1, <2>1, <3>1, Zenon DEF StateType
  <2>3. ~sweepLive
    BY <1>1, <2>1, <2>2, Zenon DEF SweepUpdate, StateType
  <2>4. ~(Missed(d) < OFFLINE_MISS_THRESHOLD)
    BY <1>1, <2>1, <2>2, <2>3, Zenon DEF SweepUpdate, StateType
  <2>5. misses[d] # 0
    BY <2>4 DEF Missed
  <2> QED
    BY <1>1, <2>2, <2>5 DEF SignResets
<1>2. TypeOK /\ SignResets /\ [Next]_vars =>
        [\A d \in DeviceIds : (SweepUpdate /\ online[d] /\ ~online'[d]) => d \notin signed]_vars
  BY <1>1
<1>3. Spec => [](TypeOK /\ SignResets)
  BY TypeInit, TypeStep, SignInit, SignStep, PTL DEF Spec
<1> QED
  BY <1>2, <1>3, PTL DEF Spec, VerdictIsFresh
=============================================================================
