--------------------------- MODULE ServiceProofs ---------------------------
(***************************************************************************)
(* Proofs about Service, for every set of files and environments, every    *)
(* threshold of the probe and any number of faults.                        *)
(***************************************************************************)
EXTENDS Service, TLAPS

\* One action of the process or of the kubelet.
LEMMA ServiceSteps ==
    ASSUME [Next]_vars
    PROVE  \/ LoadConfig \/ Connect \/ Serve \/ SetReady \/ Stop \/ Shutdown
           \/ DieOfSignal \/ Listen \/ Crash \/ Restart \/ AskReady \/ HearReady
           \/ ProbeLive \/ Terminate \/ UNCHANGED vars
  BY DEF Next, Step

-----------------------------------------------------------------------------
\* Type correctness.

\* The process and the kubelet keep the types of their state, and no server
\* outlives its process.
THEOREM TypeCorrect == Spec => []TypeOK
<1> USE ConstantsAssumption
<1>1. Init => TypeOK
  <2>1. 0 \in 0 .. Threshold - 1 /\ 0 \in Nat
    OBVIOUS
  <2> QED
    BY <2>1 DEF Init, TypeOK
<1>2. TypeOK /\ [Next]_vars => TypeOK'
  <2> SUFFICES ASSUME TypeOK, [Next]_vars PROVE TypeOK'
    OBVIOUS
  <2>1. CASE LoadConfig
    BY <2>1 DEF LoadConfig, TypeOK, Exit, NoFault, given, kubelet, faultVars
  <2>2. CASE Connect
    BY <2>2 DEF Connect, TypeOK, Exit, Fault, NoFault, given, kubelet, faultVars
  <2>3. CASE Serve
    BY <2>3 DEF Serve, TypeOK, NoFault, given, kubelet, faultVars
  <2>4. CASE SetReady
    BY <2>4 DEF SetReady, TypeOK, NoFault, given, kubelet, faultVars
  <2>5. CASE Stop
    BY <2>5 DEF Stop, TypeOK, NoFault, given, kubelet, faultVars
  <2>6. CASE Shutdown
    BY <2>6 DEF Shutdown, TypeOK, NoFault, given, kubelet, faultVars
  <2>7. CASE DieOfSignal
    BY <2>7 DEF DieOfSignal, Exit, TypeOK, NoFault, given, kubelet, faultVars
  <2>8. CASE Listen
    BY <2>8 DEF Listen, Exit, TypeOK, Fault, NoFault, given, kubelet, faultVars
  <2>9. CASE Crash
    BY <2>9 DEF Crash, Exit, TypeOK, Fault, given, kubelet, faultVars
  <2>10. CASE Restart
    <3>1. failures' \in 0 .. Threshold - 1
      BY <2>10 DEF Restart
    <3> QED
      BY <2>10, <3>1 DEF Restart, Fresh, TypeOK, NoFault, given, faultVars
  <2>11. CASE AskReady
    BY <2>11 DEF AskReady, TypeOK, NoFault, given, process, faultVars
  <2>12. CASE HearReady
    BY <2>12 DEF HearReady, TypeOK, NoFault, given, process, faultVars
  <2>13. CASE ProbeLive
    <3>1. faults' \in Nat /\ happened' \subseteq Faults
      BY <2>13 DEF ProbeLive, TypeOK, Fault, NoFault, faultVars
    <3>2. signalled' \in BOOLEAN /\ killed' \in BOOLEAN
      BY <2>13 DEF ProbeLive, TypeOK
    <3>3. failures' \in 0 .. Threshold - 1
      <4>1. failures' = 0 \/ (failures + 1 < Threshold /\ failures' = failures + 1)
        BY <2>13 DEF ProbeLive
      <4> QED
        BY <4>1 DEF TypeOK
    <3> QED
      BY <2>13, <3>1, <3>2, <3>3 DEF ProbeLive, TypeOK, given
  <2>14. CASE Terminate
    BY <2>14 DEF Terminate, TypeOK, Fault, given, kubelet
  <2>15. CASE UNCHANGED vars
    BY <2>15 DEF TypeOK, vars, given, process, kubelet, faultVars
  <2> QED
    BY <2>1, <2>2, <2>3, <2>4, <2>5, <2>6, <2>7, <2>8, <2>9, <2>10, <2>11, <2>12,
       <2>13, <2>14, <2>15, ServiceSteps
<1> QED
  BY <1>1, <1>2, PTL DEF Spec

-----------------------------------------------------------------------------
\* The liveness probe.

\* What the probe finds at a process that is up: its configuration is that of
\* its file and environment; it was made healthy before its server began, and
\* stays so until a signal ends it; and its server is gone only if it lost its
\* port.
UpAndHealthy ==
    /\ pc \notin {"load", "down"} => config = Load(file, env)
    /\ pc \in {"setReady", "run"} => healthy
    /\ pc = "shutdown" => signalled
    /\ pc \in {"setReady", "run"} /\ server = "none" => "port_taken" \in happened

\* Every step keeps it.
LEMMA UpAndHealthyInductive ==
    ASSUME TypeOK, UpAndHealthy, [Next]_vars
    PROVE  UpAndHealthy'
<1>1. CASE LoadConfig
  BY <1>1 DEF LoadConfig, UpAndHealthy, Exit, NoFault, given, faultVars
<1>2. CASE Connect
  BY <1>2 DEF Connect, UpAndHealthy, Exit, given
<1>3. CASE Serve
  BY <1>3 DEF Serve, UpAndHealthy, given
<1>4. CASE SetReady
  BY <1>4 DEF SetReady, UpAndHealthy, given, NoFault, faultVars
<1>5. CASE Stop
  BY <1>5 DEF Stop, UpAndHealthy, given
<1>6. CASE Shutdown
  BY <1>6 DEF Shutdown, UpAndHealthy, given
<1>7. CASE DieOfSignal
  BY <1>7 DEF DieOfSignal, Exit, UpAndHealthy
<1>8. CASE Listen
  BY <1>8 DEF Listen, Exit, UpAndHealthy, Fault, NoFault, given, faultVars
<1>9. CASE Crash
  BY <1>9 DEF Crash, Exit, UpAndHealthy
<1>10. CASE Restart
  BY <1>10 DEF Restart, Fresh, UpAndHealthy
<1>11. CASE AskReady
  BY <1>11 DEF AskReady, UpAndHealthy, NoFault, given, process, faultVars
<1>12. CASE HearReady
  BY <1>12 DEF HearReady, UpAndHealthy, NoFault, given, process, faultVars
<1>13. CASE ProbeLive
  BY <1>13 DEF ProbeLive, UpAndHealthy, Fault, NoFault, given, faultVars
<1>14. CASE Terminate
  BY <1>14 DEF Terminate, UpAndHealthy, Fault, given
<1>15. CASE UNCHANGED vars
  BY <1>15 DEF UpAndHealthy, vars, given, process, faultVars
<1> QED
  BY <1>1, <1>2, <1>3, <1>4, <1>5, <1>6, <1>7, <1>8, <1>9, <1>10, <1>11, <1>12,
     <1>13, <1>14, <1>15, ServiceSteps

\* A probe that does not find a process live, and was not sent while it started,
\* could not reach it or came to a server that lost its port.
LEMMA DeadOnlyIfUnreachable ==
    ASSUME TypeOK, UpAndHealthy, pc # "down", ~signalled, ~Live, ~Starting
    PROVE  \/ "port_taken" \in happened
           \/ ~Probed
           \/ Port(main, Load(file, env)) # main.port
<1> SUFFICES ASSUME Probed, Port(main, Load(file, env)) = main.port
             PROVE  "port_taken" \in happened
  OBVIOUS
<1>1. pc \in {"setReady", "run"}
  BY DEF Starting, TypeOK, UpAndHealthy
<1>2. healthy /\ config = Load(file, env)
  BY <1>1 DEF UpAndHealthy
<1>3. server # "listening"
  BY <1>2 DEF Live, Reaches, Probed
<1>4. server = "none"
  BY <1>3 DEF Starting, TypeOK
<1> QED
  BY <1>1, <1>4 DEF UpAndHealthy

\* The kubelet restarts no healthy container over its liveness probe, whatever
\* the threshold and however the starts, ends and probes interleave.
THEOREM HealthyIsNotKilled == Spec => []KilledOnlyIfUnreachable
<1> DEFINE Lost == "slow_start" \in happened \/ "port_taken" \in happened
           Elsewhere == ~Probed \/ Port(main, Load(file, env)) # main.port
<1>1. Init => UpAndHealthy /\ KilledOnlyIfUnreachable
  BY DEF Init, UpAndHealthy, KilledOnlyIfUnreachable
<1>2. KilledOnlyIfUnreachable <=> (killed => Lost \/ Elsewhere)
  BY DEF KilledOnlyIfUnreachable
<1>3. TypeOK /\ UpAndHealthy /\ KilledOnlyIfUnreachable /\ [Next]_vars
        => UpAndHealthy' /\ KilledOnlyIfUnreachable'
  <2> SUFFICES ASSUME TypeOK, UpAndHealthy, KilledOnlyIfUnreachable, [Next]_vars
               PROVE  UpAndHealthy' /\ KilledOnlyIfUnreachable'
    OBVIOUS
  <2>1. UpAndHealthy'
    BY UpAndHealthyInductive
  <2>2. service' = service /\ file' = file /\ env' = env
    BY ServiceSteps
       DEF LoadConfig, Connect, Serve, SetReady, Stop, Shutdown, DieOfSignal, Listen,
           Crash, Restart, AskReady, HearReady, ProbeLive, Terminate, vars, given
  <2>3. happened \subseteq happened'
    BY ServiceSteps
       DEF LoadConfig, Connect, Serve, SetReady, Stop, Shutdown, DieOfSignal, Listen,
           Crash, Restart, AskReady, HearReady, ProbeLive, Terminate, vars, Fault,
           NoFault, faultVars
  <2>4. Elsewhere' = Elsewhere
    BY <2>2 DEF main, Probed, Port, Load, Overridden, WithTopics
  <2>5. Lost => Lost'
    BY <2>3
  <2>6. killed' => Lost' \/ Elsewhere'
    <3>1. CASE killed
      BY <1>2, <2>4, <2>5, <3>1
    <3>2. CASE ~killed /\ killed'
      <4>1. ProbeLive
        BY <3>2, ServiceSteps
           DEF LoadConfig, Connect, Serve, SetReady, Stop, Shutdown, DieOfSignal, Listen,
               Crash, Restart, AskReady, HearReady, Terminate, vars, kubelet
      <4>2. pc # "down" /\ ~signalled /\ ~Live
        BY <3>2, <4>1 DEF ProbeLive
      <4>3. CASE Starting
        BY <4>1, <4>3 DEF ProbeLive, Fault
      <4>4. CASE ~Starting
        BY <2>4, <2>5, <4>2, <4>4, DeadOnlyIfUnreachable
      <4> QED
        BY <4>3, <4>4
    <3> QED
      BY <3>1, <3>2
  <2> QED
    BY <2>1, <2>6 DEF KilledOnlyIfUnreachable
<1> QED
  BY <1>1, <1>3, TypeCorrect, PTL DEF Spec

-----------------------------------------------------------------------------
\* The readiness probe.

\* A service routes both probes, or not the readiness probe.
LEMMA UnprobedHasNoReadyz ==
    ASSUME service \in DOMAIN Main, ~Probed
    PROVE  "/readyz" \notin main.routes
<1>1. service \in {"fraud", "authorization", "ledger", "notification", "gateway"}
  BY DEF Main
<1>2. CASE service \in {"fraud", "authorization", "ledger"}
  BY <1>2 DEF Main, main, Probed, FraudMain, AuthorizationMain, LedgerMain, HealthRoutes
<1>3. CASE service \in {"notification", "gateway"}
  BY <1>3 DEF Main, main, NotificationMain, GatewayMain
<1> QED
  BY <1>1, <1>2, <1>3

\* A pod whose service does not route the probes is never ready, and gets no
\* traffic, whatever faults there are: why DeployedIsReady fails of the gateway
\* and of the notification service.
THEOREM UnroutedNeverReady == Spec => [](~Probed => ~endpoint)
<1> DEFINE IInv == ~Probed => ~endpoint /\ answer # "200"
<1>1. Init => IInv
  BY DEF Init
<1>2. TypeOK /\ IInv /\ [Next]_vars => IInv'
  <2> SUFFICES ASSUME TypeOK, IInv, [Next]_vars, ~Probed'
               PROVE  ~endpoint' /\ answer' # "200"
    OBVIOUS
  <2>1. service' = service
    BY ServiceSteps
       DEF LoadConfig, Connect, Serve, SetReady, Stop, Shutdown, DieOfSignal, Listen,
           Crash, Restart, AskReady, HearReady, ProbeLive, Terminate, vars, given
  <2>2. ~Probed /\ ~endpoint /\ answer # "200"
    BY <2>1 DEF main, Probed
  <2>3. ~Reaches("/readyz")
    BY <2>2, UnprobedHasNoReadyz DEF TypeOK, Reaches
  <2>4. CASE Restart
    BY <2>4 DEF Restart
  <2>5. CASE AskReady
    BY <2>2, <2>3, <2>5 DEF AskReady
  <2>6. CASE HearReady
    BY <2>2, <2>6 DEF HearReady
  <2>7. CASE UNCHANGED <<answer, endpoint>>
    BY <2>2, <2>7
  <2> QED
    BY <2>4, <2>5, <2>6, <2>7, ServiceSteps
       DEF LoadConfig, Connect, Serve, SetReady, Stop, Shutdown, DieOfSignal, Listen,
           Crash, ProbeLive, Terminate, vars, kubelet
<1>3. IInv => (~Probed => ~endpoint)
  OBVIOUS
<1> QED
  BY <1>1, <1>2, <1>3, TypeCorrect, PTL DEF Spec
=============================================================================
