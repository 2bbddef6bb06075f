--------------------------- MODULE EvictionProofs ----------------------------
(***************************************************************************)
(* What holds of any number of deployments, of any number of replicas, and *)
(* of any number of invocations of deregister that take them out again by  *)
(* name, by drain or at once, as long as nothing fails and no discovery    *)
(* has begun to scan.                                                      *)
(***************************************************************************)
EXTENDS DiscoveryProofs

\* Nothing has failed, no discovery has begun to scan, targets were named.
Quiet == Undisturbed /\ NamedOnly

(***************************************************************************)
(* The life of a container of a deployment.                                *)
(***************************************************************************)

\* p has registered its replica c.
Finished(p, c) ==
  /\ Deploying(p)
  /\ \E k \in 1..Len(cli[p].names) :
       cli[p].names[k] = c /\ (k < cli[p].at \/ (k = cli[p].at /\ At(p, "deployed")))

\* A deployment has started c, and will not start it again.
Over(c) == \E q \in Clis : Claims(q, c) \/ Left(q, c)

\* What is registered has been started.
LEMMA FinishedOver ==
  ASSUME NEW p \in Clis, NEW c, Finished(p, c)
  PROVE  Over(c)
  BY DEF Finished, Over, Claims, At, Started

\* What was started was started.
LEMMA OverStays ==
  ASSUME EdgeOK, [Next]_vars, NEW c \in Containers, Over(c)
  PROVE  Over(c)'
<1>1. PICK q \in Clis : Claims(q, c) \/ Left(q, c)
  BY DEF Over
<1>2. (Claims(q, c) \/ Left(q, c))'
  BY <1>1, ClaimsStay
<1> QED BY <1>2 DEF Over

\* What was registered was registered.
LEMMA FinishedStays ==
  ASSUME EdgeOK, [Next]_vars, NEW p \in Clis, NEW c, Finished(p, c)
  PROVE  Finished(p, c)'
<1>1. PICK k \in 1..Len(cli[p].names) :
        cli[p].names[k] = c /\ (k < cli[p].at \/ (k = cli[p].at /\ At(p, "deployed")))
  BY DEF Finished
<1>2. Deploying(p) /\ Deploying(p)' /\ cli'[p].names = cli[p].names
  BY SameDeployment DEF Finished
<1>3. CASE cli'[p] = cli[p]
  BY <1>1, <1>2, <1>3 DEF Finished, At
<1>4. CASE DeployStep(p)
  <2>1. ~At(p, "deployed")
    BY <1>4 DEF DeployStep, FindImage, LoginToRegistry, PullImage, BuildImage, CheckRunning,
         CheckExists, CheckStopped, Cleanup, FindNetwork, CreateNetwork, RunContainer, Inspect,
         WaitForReadiness, RegisterInstance, Abort, At
  <2>2. cli'[p].at = cli[p].at \/ cli'[p].at = cli[p].at + 1
    BY <1>4, WhereDeploymentsGo
  <2>3. cli[p].at \in Nat /\ k \in Nat
    BY <1>2, AtAReplica DEF EdgeOK
  <2>4. k < cli'[p].at
    BY <1>1, <2>1, <2>2, <2>3
  <2> QED BY <1>1, <1>2, <2>4 DEF Finished
<1> QED BY <1>2, <1>3, <1>4, DeploymentsRest

\* A deployment that is under way is at a replica that nobody has registered.
LEMMA FinishedApart ==
  ASSUME NamesApart, EdgeOK, NEW p \in Clis, Deploying(p), ~At(p, "deployed"),
         NEW q \in Clis, Finished(q, Instance(p))
  PROVE  FALSE
<1>1. Deploying(q) /\ \E k \in 1..Len(cli[q].names) : cli[q].names[k] = Instance(p)
  BY DEF Finished
<1>2. p = q
  BY <1>1, TheReplica, OneClaims
<1>3. PICK k \in 1..Len(cli[p].names) : cli[p].names[k] = Instance(p) /\ k < cli[p].at
  BY <1>2 DEF Finished
<1>4. k = cli[p].at
  BY <1>3, AtAReplica DEF EdgeOK, Instance
<1>5. cli[p].at \in Nat
  BY AtAReplica DEF EdgeOK
<1> QED BY <1>3, <1>4, <1>5

\* What a deployment has started nobody starts again.
LEMMA StartedOnce ==
  ASSUME NamesApart, EdgeOK, NEW c \in Containers, Over(c), NEW q \in Clis, Starts(q, c)
  PROVE  FALSE
<1>1. DeployStep(q) /\ At(q, "run") /\ c = Instance(q)
  BY DEF Starts, DeployStep, RunContainer
<1>2. Deploying(q)
  BY <1>1, WhereDeploymentsGo
<1>3. PICK p \in Clis : Claims(p, c) \/ Left(p, c)
  BY DEF Over
<1>4. Deploying(p) /\ \E k \in 1..Len(cli[p].names) : cli[p].names[k] = c
  BY <1>3, TheReplica DEF Claims, Left
<1>5. p = q
  BY <1>1, <1>2, <1>4, TheReplica, OneClaims
<1>6. ~Left(p, c)
  BY <1>1, <1>5 DEF Left, At
<1>7. PICK k \in 1..Len(cli[p].names) : cli[p].names[k] = Instance(p) /\ k < cli[p].at
  BY <1>1, <1>3, <1>5, <1>6 DEF Claims, At, Started
<1>8. k = cli[p].at /\ cli[p].at \in Nat
  BY <1>4, <1>7, AtAReplica DEF EdgeOK, Instance
<1> QED BY <1>7, <1>8

(***************************************************************************)
(* What the list says is up, as long as nothing has failed.                *)
(***************************************************************************)

\* i is at a container that a deployment has registered.
Up(i) == \E c \in Containers :
           ListensAt(c, i.ip, i.port) /\ \E q \in Clis : Finished(q, c)

\* The address that a deregistration has is still the one of the container it
\* named, or that container does not run and nobody starts it again; while it
\* is waited for it was registered, and before it is stopped it has left the
\* list.
Aimed(p) ==
  LET c == cli[p].name
  IN /\ cli[p].pc \in {"evict", "wait", "find", "stop"} =>
          /\ c \in Containers
          /\ IF ContainerIsRunning(c) THEN cli[p].ip = box[c].ip ELSE Over(c)
     /\ (cli[p].pc \in {"wait", "find", "stop"} /\ ContainerIsRunning(c)) =>
          \E q \in Clis : Finished(q, c)
     /\ (At(p, "wait") /\ ContainerIsRunning(c)) => cli[p].job.port \in {None, ListensOn[c]}
     /\ (cli[p].pc \in {"find", "stop"} /\ ContainerIsRunning(c)) =>
          \A i \in pool : i.ip # box[c].ip

\* A deployment runs what it is about to register.
HasStarted(p) ==
  cli[p].pc \in {"inspect", "probe", "register"} => ContainerIsRunning(Instance(p))

OneEach == \A i, j \in pool : i.ip = j.ip /\ i.port = j.port => i = j

Settled ==
  Quiet =>
    /\ server = "serving" /\ OneEach
    /\ \A i \in pool : Up(i)
    /\ \A p \in Clis : Aimed(p) /\ HasStarted(p)

\* What is known before a step.
Calm == EdgeOK /\ OwnAddresses /\ AllCareful /\ AllTried /\ Settled

\* What is quiet was quiet.
LEMMA StillQuiet ==
  ASSUME EdgeOK, [Next]_vars, Quiet'
  PROVE  /\ Quiet /\ faults = 0 /\ faults' = 0
         /\ outages = 0 /\ outages' = 0 /\ ~Fault
<1>1. Undisturbed /\ faults = 0 /\ faults' = 0 /\ outages = 0 /\ outages' = 0 /\ ~Fault
  BY CountsGrow DEF Quiet, Undisturbed, Fault
<1>2. ASSUME NEW p \in Clis, CliStep(p), cli[p].pc \in ScanPcs PROVE cli'[p].pc \in ScanPcs
  <2>0. cli[p] \in CliState(Jobs) /\ cli \in [Clis -> CliState(Jobs)]
    BY DEF EdgeOK, Invocations
  <2>1. ASSUME NEW s, Goto(p, s) PROVE cli'[p].pc = s
    BY <2>0, <2>1 DEF Goto, CliState
  <2>2. ~DeployNext(p)
    BY <1>2 DEF DeployNext, StartDeploy, FindImage, LoginToRegistry, PullImage, BuildImage,
         CheckRunning, CheckExists, CheckStopped, Cleanup, FindNetwork, CreateNetwork,
         RunContainer, Inspect, WaitForReadiness, RegisterInstance, Abort, At, ScanPcs
  <2>3. ~DeregisterNext(p) /\ ~ListNext(p) /\ ~StartDiscover(p)
    BY <1>2 DEF DeregisterNext, StartDeregister, ResolveTarget, EvictTarget,
         WaitForBackendDrain, FindTarget, StopTarget, ListNext, StartDiscover, At, ScanPcs
  <2>4. CASE ListRunningContainers(p)
    <3> DEFINE found == {c \in Containers \ Platform : ContainerIsRunning(c)}
    <3>1. cli' = [cli EXCEPT ![p].pc = "scan", ![p].todo = found]
      BY <1>1, <2>4 DEF ListRunningContainers
    <3> HIDE DEF found
    <3> QED BY <2>0, <3>1 DEF CliState, ScanPcs
  <2>5. CASE InspectApp(p) \/ ProbeHealthEndpoint(p)
    <3>1. cli'[p].pc \in ScanPcs \cup {"failed", "listed"}
      BY <2>5, ScanPlaces DEF DiscoverNext, EdgeOK
    <3>2. cli'[p].pc # "failed" /\ cli'[p].pc # "listed"
      <4>1. CASE InspectApp(p)
        <5>1. PICK c \in cli[p].todo :
                \/ cli' = [cli EXCEPT ![p].pc = "probe_app", ![p].name = c, ![p].ip = box[c].ip,
                                      ![p].at = 1, ![p].todo = @ \ {c}]
                \/ cli' = [cli EXCEPT ![p].todo = @ \ {c}]
          BY <4>1 DEF InspectApp
        <5>2. cli'[p].pc \in {"probe_app", cli[p].pc}
          BY <2>0, <5>1 DEF CliState
        <5> QED BY <1>2, <5>2 DEF ScanPcs
      <4>2. CASE ProbeHealthEndpoint(p)
        <5>1. CASE cli' = [cli EXCEPT ![p].at = @ + 1]
          BY <1>2, <2>0, <5>1 DEF CliState, ScanPcs
        <5>2. CASE Goto(p, "register_app") \/ Goto(p, "scan")
          BY <2>1, <5>2
        <5> QED BY <4>2, <5>1, <5>2 DEF ProbeHealthEndpoint
      <4> QED BY <2>5, <4>1, <4>2
    <3> QED BY <3>1, <3>2
  <2>6. CASE RegisterApp(p) \/ FinishDiscover(p)
    BY <2>1, <2>6 DEF RegisterApp, FinishDiscover, ScanPcs
  <2> QED BY <1>2, <2>2, <2>3, <2>4, <2>5, <2>6 DEF CliStep, DiscoverNext
<1>3. ASSUME NEW p \in Clis, cli[p].pc # "start"
      PROVE  cli'[p].pc # "start" /\ cli'[p].job = cli[p].job
  <2>1. ASSUME CliStep(p) PROVE cli'[p].pc # "start" /\ cli'[p].job = cli[p].job
    <3>1. cli'[p].pc \in DeployPcs \cup EvictPcs \cup ScanPcs \cup {"failed", "listed"}
      BY <2>1, DeployPlaces, EvictPlaces, ScanPlaces DEF CliStep, EdgeOK
    <3> QED BY <1>3, <2>1, <3>1, SinceStays DEF At, DeployPcs, EvictPcs, ScanPcs
  <2> QED BY <1>3, <2>1, WhoMoves
<1>4. NamedOnly
  <2> SUFFICES ASSUME NEW p \in Clis, cli[p].pc # "start"
               PROVE  /\ cli[p].pc \notin ScanPcs
                      /\ cli[p].job \in Evictions[p] => cli[p].job.ip = None
    BY DEF NamedOnly, ScanPcs
  <2>1. /\ cli'[p].pc \notin ScanPcs
        /\ cli'[p].job \in Evictions[p] => cli'[p].job.ip = None
    BY <1>3 DEF Quiet, NamedOnly, ScanPcs
  <2> QED BY <1>2, <1>3, <2>1, WhoMoves
<1> QED BY <1>1, <1>4 DEF Quiet

\* A discovery only fails.
LEMMA NoScans ==
  ASSUME EdgeOK, Quiet, Quiet', NEW p \in Clis, DiscoverNext(p)
  PROVE  cli'[p].pc = "failed" /\ UNCHANGED docker /\ UNCHANGED <<pool, used>>
<1>0. cli[p] \in CliState(Jobs) /\ cli \in [Clis -> CliState(Jobs)]
  BY DEF EdgeOK, Invocations
<1>1. StartDiscover(p)
  <2>1. cli[p].pc \notin ScanPcs
    BY DEF Quiet, NamedOnly, ScanPcs
  <2> QED BY <2>1 DEF DiscoverNext, ListRunningContainers, InspectApp, ProbeHealthEndpoint,
              RegisterApp, FinishDiscover, At, ScanPcs
<1>2. ~(cli' = [cli EXCEPT ![p] = Scanning])
  <2>1. cli'[p].pc # "ps"
    BY DEF Quiet, NamedOnly
  <2> QED BY <1>0, <2>1 DEF Scanning, NewCli
<1>3. Goto(p, "failed")
  BY <1>1, <1>2 DEF StartDiscover
<1>4. cli'[p].pc = "failed"
  BY <1>0, <1>3 DEF Goto, CliState
<1> QED BY <1>1, <1>4 DEF StartDiscover, CheckApiServerHealth, ApiOnly

\* A running container is stopped by the deployment that gives it up, or by a
\* deregistration that has it for its target.
LEMMA WhoStops ==
  ASSUME Calm, [Next]_vars, Quiet',
         NEW c \in Containers, ContainerIsRunning(c), box'[c] # box[c]
  PROVE  \E q \in Clis : \/ Abort(q) /\ DeployStep(q) /\ c = Instance(q)
                         \/ StopTarget(q) /\ c = cli[q].name
<1>0. EdgeOK
  BY DEF Calm
<1>1. ~UNCHANGED box /\ faults = 0 /\ outages' = 0
  BY <1>0, StillQuiet
<1>2. ~DieStep
  BY <1>0, <1>1, CountsGrow DEF DieStep, Outage
<1>3. PICK q \in Clis : CliStep(q)
  BY <1>1, <1>2 DEF Next, vars, docker, ServerStep, PurgeStep, WatchStep, HandleEvent
<1>4. CASE DeployNext(q)
  <2>1. RunContainer(q) \/ Cleanup(q) \/ Abort(q)
    BY <1>1, <1>4
       DEF DeployNext, StartDeploy, FindImage, LoginToRegistry, PullImage, BuildImage,
           CheckRunning, CheckExists, CheckStopped, FindNetwork, CreateNetwork, Inspect,
           WaitForReadiness, RegisterInstance, ApiOnly, AskOnly, docker, Fails, SetImage,
           NetworkCreate
  <2>2. DeployStep(q)
    BY <2>1 DEF DeployStep
  <2>3. Instance(q) \in Containers
    BY <1>0, <2>2, TheReplica, WhereDeploymentsGo
  <2>4. CASE RunContainer(q)
    BY <1>0, <1>1, <2>3, <2>4, RunsOne
       DEF StartNew, ContainerExists, ContainerIsRunning, EdgeOK, DockerTypeOK
  <2>5. CASE Cleanup(q) \/ Abort(q)
    <3>1. c = Instance(q)
      BY <1>0, <2>3, <2>5, StopsOne DEF Cleanup, Abort, EdgeOK, DockerTypeOK
    <3>2. ~Cleanup(q)
      BY <1>1, <3>1 DEF Cleanup, Calm, AllCareful, Careful
    <3> QED BY <2>2, <2>5, <3>1, <3>2
  <2> QED BY <2>1, <2>4, <2>5
<1>5. CASE DeregisterNext(q)
  <2>1. StopTarget(q)
    BY <1>1, <1>5
       DEF DeregisterNext, StartDeregister, ResolveTarget, EvictTarget, WaitForBackendDrain,
           FindTarget, ApiOnly, AskOnly, docker
  <2>2. cli[q].name \in Containers
    BY <1>0, <2>1 DEF StopTarget, At, EdgeOK, Invocations, CommandOK
  <2>3. c = cli[q].name
    BY <1>0, <2>1, <2>2, StopsOne DEF StopTarget, EdgeOK, DockerTypeOK
  <2> QED BY <2>1, <2>3
<1>6. CASE ListNext(q)
  BY <1>1, <1>6 DEF ListNext, ApiOnly, docker
<1>7. CASE DiscoverNext(q)
  BY <1>0, <1>1, <1>7, StillQuiet, NoScans DEF docker
<1> QED BY <1>3, <1>4, <1>5, <1>6, <1>7 DEF CliStep

\* What is registered and listed stays.
LEMMA ListedRuns ==
  ASSUME NamesApart, Calm, [Next]_vars, Quiet',
         NEW c \in Containers, ContainerIsRunning(c), NEW q \in Clis, Finished(q, c),
         NEW i \in pool, i.ip = box[c].ip
  PROVE  box'[c] = box[c]
<1> SUFFICES ASSUME box'[c] # box[c] PROVE FALSE
  OBVIOUS
<1>1. EdgeOK /\ Quiet
  BY StillQuiet DEF Calm
<1>2. PICK r \in Clis : \/ Abort(r) /\ DeployStep(r) /\ c = Instance(r)
                        \/ StopTarget(r) /\ c = cli[r].name
  BY WhoStops
<1>3. CASE Abort(r) /\ DeployStep(r) /\ c = Instance(r)
  <2>1. Deploying(r) /\ ~At(r, "deployed") /\ Finished(q, Instance(r))
    BY <1>1, <1>3, WhereDeploymentsGo DEF Abort, At
  <2> QED BY <1>1, <2>1, FinishedApart
<1>4. CASE StopTarget(r) /\ c = cli[r].name
  BY <1>1, <1>4 DEF StopTarget, Calm, Settled, Aimed, At
<1> QED BY <1>2, <1>3, <1>4

\* So does what is about to be registered.
LEMMA StartedRuns ==
  ASSUME NamesApart, Calm, [Next]_vars, Quiet',
         NEW p \in Clis, cli[p].pc \in {"inspect", "probe", "register"}, ContainerIsRunning(Instance(p))
  PROVE  box'[Instance(p)] = box[Instance(p)]
<1> SUFFICES ASSUME box'[Instance(p)] # box[Instance(p)] PROVE FALSE
  OBVIOUS
<1>1. EdgeOK /\ Quiet
  BY StillQuiet DEF Calm
<1>2. Deploying(p) /\ Instance(p) \in Containers /\ ~At(p, "deployed")
  BY <1>1, AtTheReplica DEF DeployPcs, At
<1>3. PICK r \in Clis : \/ Abort(r) /\ DeployStep(r) /\ Instance(p) = Instance(r)
                        \/ StopTarget(r) /\ Instance(p) = cli[r].name
  BY <1>2, WhoStops
<1>4. CASE Abort(r) /\ DeployStep(r) /\ Instance(p) = Instance(r)
  <2>1. Deploying(r)
    BY <1>1, <1>4, WhereDeploymentsGo
  <2>2. p = r
    BY <1>1, <1>2, <1>4, <2>1, TheReplica, OneClaims
  <2> QED BY <1>4, <2>2 DEF Abort, At
<1>5. CASE StopTarget(r) /\ Instance(p) = cli[r].name
  <2>1. PICK q \in Clis : Finished(q, Instance(p))
    BY <1>1, <1>5 DEF StopTarget, Calm, Settled, Aimed, At
  <2> QED BY <1>1, <1>2, <2>1, FinishedApart
<1> QED BY <1>3, <1>4, <1>5

\* An upstream that stays in the list stays up.
LEMMA UpStays ==
  ASSUME NamesApart, Calm, [Next]_vars, Quiet',
         NEW i \in pool, NEW j, j.ip = i.ip, j.port = i.port
  PROVE  Up(j)'
<1>1. EdgeOK /\ Quiet
  BY StillQuiet DEF Calm
<1>2. PICK c \in Containers : ListensAt(c, i.ip, i.port) /\ \E q \in Clis : Finished(q, c)
  BY <1>1 DEF Calm, Settled, Up
<1>3. PICK q \in Clis : Finished(q, c)
  BY <1>2
<1>4. ContainerIsRunning(c) /\ box[c].ip = i.ip
  BY <1>2, UpstreamsAssumption DEF ListensAt, Calm, OwnAddresses
<1>5. box'[c] = box[c]
  BY <1>3, <1>4, ListedRuns
<1>6. Finished(q, c)'
  BY <1>1, <1>3, FinishedStays
<1>7. ListensAt(c, j.ip, j.port)'
  BY <1>2, <1>5 DEF ListensAt
<1> QED BY <1>6, <1>7 DEF Up

(***************************************************************************)
(* How the list changes.                                                   *)
(***************************************************************************)

\* x registers its replica.
Registers(x) ==
  /\ RegisterInstance(x)
  /\ ValidRegistration(cli[x].ip, cli[x].job.port, TargetName(Instance(x), cli[x].job),
                       TargetEndpoint(cli[x].job))
  /\ Add(NextId, cli[x].ip, cli[x].job.port, TargetName(Instance(x), cli[x].job))

\* No upstream comes up, and none moves.
Shrinks ==
  /\ \A i \in pool' : \E j \in pool : i.ip = j.ip /\ i.port = j.port
  /\ OneEach => OneEach'

\* But for registrations, the list shrinks.
LEMMA OthersShrink ==
  ASSUME EdgeOK, [Next]_vars, Quiet', \A x \in Clis : ~RegisterInstance(x)
  PROVE  Shrinks
<1>1. ASSUME pool' \subseteq pool PROVE Shrinks
  BY <1>1 DEF Shrinks, OneEach
<1>2. ASSUME NEW ip, NEW port, NEW ok \in BOOLEAN, DrainUpstream(ip, port, ok)
      PROVE  Shrinks
  <2>1. CASE UNCHANGED <<pool, used>>
    BY <1>1, <2>1
  <2>2. CASE \E i \in FirstMatch(pool, ip, port, None), until \in Deadlines :
               BeginDrain(i, until)
    <3>1. PICK i \in pool, until \in Nat : BeginDrain(i, until)
      BY <2>2, RegistryAssumption DEF FirstMatch
    <3>2. i \in Item
      BY DEF EdgeOK, ClientOK
    <3>3. MarkedDraining(i, until).ip = i.ip /\ MarkedDraining(i, until).port = i.port
      BY <3>2 DEF MarkedDraining, Item
    <3> QED BY <3>1, <3>3 DEF BeginDrain, Shrinks, OneEach
  <2> QED BY <1>2, <2>1, <2>2 DEF DrainUpstream, Refused
<1>3. ASSUME NEW ip, NEW port, NEW ok \in BOOLEAN, DeregisterUpstream(ip, port, ok)
      PROVE  Shrinks
  BY <1>1, <1>3 DEF DeregisterUpstream, Refused, Remove, Retained
<1>4. ASSUME NEW p \in Clis, DeployNext(p) PROVE Shrinks
  BY <1>1, <1>4
     DEF DeployNext, StartDeploy, FindImage, LoginToRegistry, PullImage, BuildImage,
         CheckRunning, CheckExists, CheckStopped, Cleanup, FindNetwork, CreateNetwork,
         RunContainer, Inspect, WaitForReadiness, Abort, CheckApiServerHealth, DockerOnly,
         AskOnly, client
<1>5. ASSUME NEW p \in Clis, DeregisterNext(p) PROVE Shrinks
  <2>1. CASE EvictTarget(p)
    BY <1>2, <1>3, <2>1 DEF EvictTarget
  <2>2. CASE UNCHANGED <<pool, used>>
    BY <1>1, <2>2
  <2> QED BY <1>5, <2>1, <2>2
          DEF DeregisterNext, StartDeregister, ResolveTarget, WaitForBackendDrain, FindTarget,
              StopTarget, GetUpstreamStatus, Refused, DockerOnly, AskOnly, client
<1>6. ASSUME NEW p \in Clis, ListNext(p) PROVE Shrinks
  BY <1>1, <1>6 DEF ListNext, ListUpstreams
<1>7. ASSUME NEW p \in Clis, DiscoverNext(p) PROVE Shrinks
  BY <1>1, <1>7, StillQuiet, NoScans
<1>8. CASE \E p \in Clis : CliStep(p)
  BY <1>4, <1>5, <1>6, <1>7, <1>8 DEF CliStep
<1>9. CASE DieStep \/ ServerStep \/ PurgeStep \/ WatchStep \/ UNCHANGED vars
  BY <1>1, <1>9
     DEF DieStep, ServerStep, StopServer, StartServer, PurgeStep, Evict, WatchStep, HandleEvent,
         vars, client
<1> QED BY <1>8, <1>9 DEF Next

\* So a step registers a replica, or the list shrinks.
LEMMA RegistersOrShrinks ==
  ASSUME EdgeOK, [Next]_vars, Quiet'
  PROVE  Shrinks \/ \E x \in Clis : Registers(x)
<1>1. CASE \A x \in Clis : ~RegisterInstance(x)
  BY <1>1, OthersShrink
<1>2. ASSUME NEW x \in Clis, RegisterInstance(x) PROVE Shrinks \/ Registers(x)
  <2>1. CASE UNCHANGED <<pool, used>>
    BY <2>1 DEF Shrinks, OneEach
  <2>2. CASE ~UNCHANGED <<pool, used>>
    <3>1. PICK ok \in BOOLEAN : RegisterTarget(x, ok)
      BY <1>2 DEF RegisterInstance
    <3> QED BY <1>2, <2>2, <3>1 DEF Registers, RegisterTarget, RegisterUpstream, Refused
  <2> QED BY <2>1, <2>2
<1> QED BY <1>1, <1>2

\* What is registered is a container that runs, at its address.
LEMMA RegistersWhatRuns ==
  ASSUME Calm, [Next]_vars, Quiet', NEW x \in Clis, Registers(x)
  PROVE  /\ Deploying(x) /\ ~At(x, "deployed") /\ UNCHANGED box
         /\ \E c \in Containers :
              /\ c = Instance(x) /\ ContainerIsRunning(c)
              /\ ListensAt(c, cli[x].ip, cli[x].job.port)
              /\ Finished(x, c)'
<1>1. EdgeOK /\ Quiet /\ ~Fault
  BY StillQuiet DEF Calm
<1>2. At(x, "register") /\ DeployStep(x) /\ UNCHANGED box
  BY DEF Registers, RegisterInstance, DeployStep, ApiOnly, docker
<1>3. Deploying(x) /\ Instance(x) \in Containers
  BY <1>1, <1>2, AtTheReplica DEF At, DeployPcs
<1>4. PICK c \in Containers : c = Instance(x)
  BY <1>3
<1>5. ContainerIsRunning(c)
  BY <1>1, <1>2, <1>4 DEF At, Calm, Settled, HasStarted
<1>6. cli[x].ip = box[c].ip /\ ListensOn[c] = cli[x].job.port
  BY <1>2, <1>4, <1>5 DEF At, Calm, AllTried, Tried
<1>7. cli[x].ip \in IPv4
  <2>1. cli[x].ip \in ParsedIps
    BY DEF Registers, ValidRegistration
  <2>2. cli[x].ip \in IPv4 \cup BadIps \cup {None}
    BY <1>1, <1>6 DEF EdgeOK, DockerTypeOK
  <2> QED BY <2>1, <2>2, UpstreamsAssumption DEF ParsedIps
<1>8. Finished(x, c)'
  <2>0. /\ cli[x] \in CliState(Jobs) /\ cli \in [Clis -> CliState(Jobs)]
        /\ cli[x].at \in 1..Len(cli[x].names) /\ Len(cli[x].names) \in Nat
        /\ cli[x].names[cli[x].at] = c
    BY <1>1, <1>3, <1>4, AtAReplica DEF EdgeOK, Invocations, Instance
  <2>1. PICK ok \in BOOLEAN :
          /\ RegisterTarget(x, ok)
          /\ \/ ~ok /\ Goto(x, "abort")
             \/ ok /\ cli[x].at < Len(cli[x].names) /\ NextReplica(x)
             \/ ok /\ cli[x].at = Len(cli[x].names) /\ Goto(x, "deployed")
    BY DEF Registers, RegisterInstance
  <2>2. ok
    <3> SUFFICES ASSUME ~ok PROVE FALSE
      OBVIOUS
    <3>1. used' # used
      BY <1>1 DEF Registers, Add
    <3> QED BY <1>1, <2>1, <3>1 DEF RegisterTarget, RegisterUpstream, Refused, Took
  <2>3. CASE NextReplica(x)
    <3>1. cli'[x].names = cli[x].names /\ cli'[x].at = cli[x].at + 1
      BY <2>0, <2>3 DEF NextReplica, CliState
    <3>2. cli[x].at < cli'[x].at
      BY <2>0, <3>1
    <3> QED BY <1>3, <2>0, <3>1, <3>2 DEF Finished, Deploying
  <2>4. CASE cli[x].at = Len(cli[x].names) /\ Goto(x, "deployed")
    <3>1. /\ cli'[x].names = cli[x].names /\ cli'[x].at = cli[x].at
          /\ cli'[x].pc = "deployed"
      BY <2>0, <2>4 DEF Goto, CliState
    <3> QED BY <1>3, <2>0, <3>1 DEF Finished, Deploying, At
  <2> QED BY <2>1, <2>2, <2>3, <2>4
<1>9. ListensAt(c, cli[x].ip, cli[x].job.port)
  BY <1>6, <1>7 DEF ListensAt
<1> QED BY <1>2, <1>3, <1>4, <1>5, <1>8, <1>9 DEF At

\* What the list has after a step is up, and at different addresses.
LEMMA NextUp ==
  ASSUME NamesApart, Calm, [Next]_vars, Quiet'
  PROVE  OneEach' /\ \A i \in pool' : Up(i)'
<1>1. EdgeOK /\ Quiet
  BY StillQuiet DEF Calm
<1>2. OneEach
  BY <1>1 DEF Calm, Settled
<1>3. CASE Shrinks
  <2>1. ASSUME NEW i \in pool' PROVE Up(i)'
    <3>1. PICK j \in pool : i.ip = j.ip /\ i.port = j.port
      BY <1>3 DEF Shrinks
    <3> QED BY <3>1, UpStays
  <2> QED BY <1>2, <1>3, <2>1 DEF Shrinks
<1>4. ASSUME NEW x \in Clis, Registers(x) PROVE OneEach' /\ \A i \in pool' : Up(i)'
  <2>1. PICK n : /\ n.ip = cli[x].ip /\ n.port = cli[x].job.port
                 /\ pool' = pool \cup {n}
    BY <1>4 DEF Registers, Add, NewItem
  <2>2. ~Duplicate(pool, cli[x].ip, cli[x].job.port)
    BY <1>4 DEF Registers, Add
  <2>3. PICK c \in Containers : ListensAt(c, n.ip, n.port) /\ Finished(x, c)'
    BY <1>4, <2>1, RegistersWhatRuns
  <2>4. Up(n)'
    <3>1. ListensAt(c, n.ip, n.port)'
      BY <1>4, <2>3, RegistersWhatRuns DEF ListensAt
    <3> QED BY <2>3, <3>1 DEF Up
  <2>5. ASSUME NEW i \in pool PROVE Up(i)'
    BY UpStays
  <2>6. OneEach'
    BY <1>2, <2>1, <2>2 DEF OneEach, Duplicate
  <2> QED BY <2>1, <2>4, <2>5, <2>6
<1> QED BY <1>1, <1>3, <1>4, RegistersOrShrinks

(***************************************************************************)
(* The deregistrations.                                                    *)
(***************************************************************************)

\* How a deregistration comes to its call, to wait, to look for a container
\* and to stop it.
Resolves(p) ==
  /\ At(p, "resolve") /\ cli'[p].pc = "evict"
  /\ ContainerIsRunning(cli[p].name) /\ cli'[p].ip = box[cli[p].name].ip

Evicts(p) ==
  /\ At(p, "evict") /\ cli'[p].ip = cli[p].ip
  /\ cli'[p].pc = IF cli[p].job.graceful THEN "wait" ELSE "find"
  /\ IF cli[p].job.graceful THEN DrainUpstream(cli[p].ip, cli[p].job.port, TRUE)
                            ELSE DeregisterUpstream(cli[p].ip, cli[p].job.port, TRUE)

Waits(p) ==
  /\ At(p, "wait") /\ cli'[p].ip = cli[p].ip
  /\ \/ cli'[p].pc = "wait"
     \/ cli'[p].pc = "find" /\ Refused(FirstMatch(pool, cli[p].ip, cli[p].job.port, None) = {})
  /\ UNCHANGED pool

Finds(p) == At(p, "find") /\ cli'[p].pc = "stop" /\ cli'[p].ip = cli[p].ip /\ UNCHANGED pool

\* There is no other way.
LEMMA HowEvictionsGoOn ==
  ASSUME EdgeOK, [Next]_vars, Quiet', NEW p \in Clis,
         cli'[p].pc \in {"evict", "wait", "find", "stop"},
         At(p, "find") => cli[p].name \in Containers
  PROVE  \/ cli'[p] = cli[p]
         \/ /\ Resolves(p) \/ Evicts(p) \/ Waits(p) \/ Finds(p)
            /\ cli'[p].job = cli[p].job /\ cli'[p].name = cli[p].name
            /\ UNCHANGED box
<1>0. cli[p] \in CliState(Jobs) /\ cli \in [Clis -> CliState(Jobs)]
  BY DEF EdgeOK, Invocations
<1>1. ASSUME NEW s, Goto(p, s)
      PROVE  /\ cli'[p].pc = s /\ cli'[p].job = cli[p].job /\ cli'[p].ip = cli[p].ip
             /\ cli'[p].name = cli[p].name
  BY <1>0, <1>1 DEF Goto, CliState
<1>2. CASE CliStep(p)
  <2>1. ~DeployNext(p)
    BY DeployPlaces DEF EdgeOK, DeployPcs
  <2>2. ~ListNext(p)
    BY ScanPlaces DEF EdgeOK, ScanPcs
  <2>3. ~DiscoverNext(p)
    BY StillQuiet, NoScans
  <2>4. DeregisterNext(p)
    BY <1>2, <2>1, <2>2, <2>3 DEF CliStep
  <2>5. CASE StartDeregister(p)
    <3>1. PICK e \in Evictions[p] :
            cli' = [cli EXCEPT ![p] = [NewCli EXCEPT
                     !.pc = IF ~ValidEvictionArgs(e) THEN "failed"
                            ELSE IF e.ip = None THEN "resolve" ELSE "evict",
                     !.job = e, !.ip = e.ip,
                     !.name = IF e.name = None THEN None ELSE Lower[e.name]]]
      BY <2>5 DEF StartDeregister
    <3>2. cli'[p].job = e
      BY <1>0, <3>1 DEF NewCli
    <3>3. e.ip = None
      BY <3>2 DEF Quiet, NamedOnly
    <3>4. cli'[p].pc \in {"failed", "resolve"}
      BY <1>0, <3>1, <3>3 DEF NewCli
    <3> QED BY <3>4
  <2>6. CASE ResolveTarget(p)
    <3>1. UNCHANGED box /\ At(p, "resolve")
      BY <2>6 DEF ResolveTarget, AskOnly, docker
    <3>2. ~Goto(p, "failed")
      BY <1>1
    <3>3. /\ Seen(TRUE, ContainerIsRunning(cli[p].name))
          /\ cli' = [cli EXCEPT ![p].pc = "evict", ![p].ip = box[cli[p].name].ip]
      BY <2>6, <3>2 DEF ResolveTarget
    <3>4. /\ cli'[p].pc = "evict" /\ cli'[p].ip = box[cli[p].name].ip
          /\ cli'[p].job = cli[p].job /\ cli'[p].name = cli[p].name
      BY <1>0, <3>3 DEF CliState
    <3> QED BY <3>1, <3>3, <3>4 DEF Resolves, Seen
  <2>7. CASE EvictTarget(p)
    <3>1. UNCHANGED box /\ At(p, "evict")
      BY <2>7 DEF EvictTarget, ApiOnly, docker
    <3>2. PICK ok \in BOOLEAN :
            /\ IF cli[p].job.graceful THEN DrainUpstream(cli[p].ip, cli[p].job.port, ok)
                                      ELSE DeregisterUpstream(cli[p].ip, cli[p].job.port, ok)
            /\ \/ ~ok /\ Goto(p, "failed")
               \/ ok /\ ~cli[p].job.halt /\ Goto(p, "evicted")
               \/ ok /\ cli[p].job.halt /\ Goto(p, IF cli[p].job.graceful THEN "wait" ELSE "find")
      BY <2>7 DEF EvictTarget
    <3>3. ok = TRUE /\ Goto(p, IF cli[p].job.graceful THEN "wait" ELSE "find")
      BY <1>1, <3>2
    <3> QED BY <1>1, <3>1, <3>2, <3>3 DEF Evicts
  <2>8. CASE WaitForBackendDrain(p)
    <3>1. PICK ok \in BOOLEAN : /\ GetUpstreamStatus(cli[p].ip, cli[p].job.port, ok)
                                /\ Goto(p, IF ok THEN "wait" ELSE "find")
      BY <2>8 DEF WaitForBackendDrain
    <3>2. At(p, "wait") /\ UNCHANGED pool /\ UNCHANGED box
      BY <2>8, <3>1 DEF WaitForBackendDrain, GetUpstreamStatus, Refused, ApiOnly, docker
    <3> QED BY <1>1, <3>1, <3>2 DEF Waits, GetUpstreamStatus
  <2>9. CASE FindTarget(p)
    <3>1. At(p, "find") /\ UNCHANGED pool /\ UNCHANGED box
      BY <2>9 DEF FindTarget, AskOnly, DockerOnly, docker
    <3>2. cli[p].name # None
      BY <3>1, DockerAssumption
    <3>3. Goto(p, "stop")
      BY <2>9, <3>2 DEF FindTarget
    <3> QED BY <1>1, <3>1, <3>3 DEF Finds
  <2>10. CASE StopTarget(p)
    BY <1>1, <2>10 DEF StopTarget
  <2> QED BY <2>4, <2>5, <2>6, <2>7, <2>8, <2>9, <2>10 DEF DeregisterNext
<1> QED BY <1>2, WhoMoves

\* A container whose life is over stays so.
LEMMA TargetStays ==
  ASSUME NamesApart, Calm, [Next]_vars, Quiet',
         NEW c \in Containers, NEW a,
         IF ContainerIsRunning(c) THEN a = box[c].ip ELSE Over(c)
  PROVE  /\ IF ContainerIsRunning(c)' THEN a = box'[c].ip ELSE Over(c)'
         /\ ContainerIsRunning(c)' => ContainerIsRunning(c) /\ box'[c] = box[c]
<1>0. EdgeOK /\ Quiet
  BY StillQuiet DEF Calm
<1>1. Over(c) => Over(c)'
  BY <1>0, OverStays
<1>2. CASE ~ContainerIsRunning(c)
  <2>1. Over(c)
    BY <1>2
  <2>2. ASSUME ContainerIsRunning(c)' PROVE FALSE
    <3>1. box'[c] = box[c] \/ \E q \in Clis : Starts(q, c)
      BY <1>0, <2>2, RunsAsBefore
    <3>2. ASSUME NEW q \in Clis, Starts(q, c) PROVE FALSE
      BY <1>0, <2>1, <3>2, StartedOnce
    <3> QED BY <1>2, <2>2, <3>1, <3>2 DEF ContainerIsRunning
  <2> QED BY <1>1, <2>1, <2>2
<1>3. CASE ContainerIsRunning(c) /\ box'[c] = box[c]
  BY <1>3 DEF ContainerIsRunning
<1>4. CASE ContainerIsRunning(c) /\ box'[c] # box[c]
  <2>1. Over(c)
    <3>1. PICK q \in Clis : \/ Abort(q) /\ DeployStep(q) /\ c = Instance(q)
                            \/ StopTarget(q) /\ c = cli[q].name
      BY <1>4, WhoStops
    <3>2. CASE Abort(q) /\ DeployStep(q) /\ c = Instance(q)
      <4>1. Deploying(q) /\ cli[q].pc = "abort"
        BY <1>0, <3>2, WhereDeploymentsGo DEF Abort, At
      <4>2. cli[q].at \in 1..Len(cli[q].names)
        BY <1>0, <4>1, AtAReplica DEF EdgeOK
      <4>3. Claims(q, c)
        BY <3>2, <4>1, <4>2 DEF Claims, Instance, Started
      <4> QED BY <4>3 DEF Over
    <3>3. CASE StopTarget(q) /\ c = cli[q].name
      <4>1. PICK r \in Clis : Finished(r, c)
        BY <1>0, <1>4, <3>3 DEF StopTarget, Calm, Settled, Aimed, At
      <4> QED BY <4>1, FinishedOver
    <3> QED BY <3>1, <3>2, <3>3
  <2>2. ASSUME ContainerIsRunning(c)' PROVE FALSE
    <3>1. PICK q \in Clis : Starts(q, c)
      BY <1>0, <1>4, <2>2, RunsAsBefore
    <3> QED BY <1>4, <3>1 DEF Starts, ContainerIsRunning
  <2> QED BY <1>1, <2>1, <2>2
<1> QED BY <1>2, <1>3, <1>4

\* What a deregistration finds in the list is the container that it has named.
LEMMA FindsItsTarget ==
  ASSUME Calm, Quiet, NEW c \in Containers, ContainerIsRunning(c),
         NEW i \in pool, i.ip = box[c].ip
  PROVE  i.port = ListensOn[c] /\ \E q \in Clis : Finished(q, c)
<1>1. PICK d \in Containers : ListensAt(d, i.ip, i.port) /\ \E q \in Clis : Finished(q, d)
  BY DEF Calm, Settled, Up
<1>2. c = d
  BY <1>1 DEF ListensAt, Calm, OwnAddresses
<1> QED BY <1>1, <1>2 DEF ListensAt

\* A call that takes effect has found it, and one that removes takes it out.
LEMMA EvictsItsTarget ==
  ASSUME Calm, Quiet, NEW p \in Clis, Evicts(p), NEW c \in Containers,
         ContainerIsRunning(c), cli[p].ip = box[c].ip
  PROVE  /\ \E q \in Clis : Finished(q, c)
         /\ cli[p].job.port \in {None, ListensOn[c]}
         /\ cli'[p].pc = "find" => \A i \in pool' : i.ip # box[c].ip
<1>1. box[c].ip # None
  BY DEF Calm, OwnAddresses
<1>2. CASE cli[p].job.graceful
  <2>1. PICK i \in pool : Matches(i, cli[p].ip, cli[p].job.port, None)
    BY <1>2 DEF Evicts, DrainUpstream, FirstMatch
  <2>2. i.ip = box[c].ip /\ cli[p].job.port \in {None, i.port}
    BY <1>1, <2>1 DEF Matches
  <2>3. cli'[p].pc = "wait"
    BY <1>2 DEF Evicts
  <2> QED BY <2>2, <2>3, FindsItsTarget
<1>3. CASE ~cli[p].job.graceful
  <2>1. /\ Retained(pool, cli[p].ip, cli[p].job.port) # pool
        /\ pool' = Retained(pool, cli[p].ip, cli[p].job.port)
    BY <1>3 DEF Evicts, DeregisterUpstream, Remove
  <2>2. PICK i \in pool : i \notin Retained(pool, cli[p].ip, cli[p].job.port)
    BY <2>1 DEF Retained
  <2>3. i.ip = box[c].ip /\ cli[p].job.port \in {None, i.port}
    BY <2>2 DEF Retained
  <2>4. i.port = ListensOn[c] /\ \E q \in Clis : Finished(q, c)
    BY <2>3, FindsItsTarget
  <2>5. ASSUME NEW j \in pool', j.ip = box[c].ip PROVE FALSE
    <3>1. j \in pool /\ ~(j.ip = cli[p].ip /\ (cli[p].job.port = None \/ j.port = cli[p].job.port))
      BY <2>1, <2>5 DEF Retained
    <3>2. j.port = ListensOn[c]
      BY <2>5, <3>1, FindsItsTarget
    <3> QED BY <2>3, <2>4, <2>5, <3>1, <3>2
  <2> QED BY <2>3, <2>4, <2>5
<1> QED BY <1>2, <1>3

\* The status call fails when the target has left the list.
LEMMA WaitsForItsTarget ==
  ASSUME Calm, Quiet, ~Fault, NEW p \in Clis, Waits(p), cli'[p].pc = "find",
         NEW c \in Containers, ContainerIsRunning(c), cli[p].ip = box[c].ip,
         cli[p].job.port \in {None, ListensOn[c]}
  PROVE  \A i \in pool' : i.ip # box[c].ip
<1>1. FirstMatch(pool, cli[p].ip, cli[p].job.port, None) = {} /\ pool' = pool
  BY DEF Waits, Refused, Reachable, Calm, Settled
<1>2. ASSUME NEW i \in pool, i.ip = box[c].ip PROVE FALSE
  <2>1. i.port = ListensOn[c]
    BY <1>2, FindsItsTarget
  <2>2. Matches(i, cli[p].ip, cli[p].job.port, None)
    BY <1>2, <2>1 DEF Matches
  <2>3. ASSUME NEW j \in pool, Matches(j, cli[p].ip, cli[p].job.port, None) PROVE j = i
    <3>1. j.ip = box[c].ip
      BY <2>3 DEF Matches, Calm, OwnAddresses
    <3>2. j.port = ListensOn[c]
      BY <3>1, FindsItsTarget
    <3> QED BY <1>2, <2>1, <3>1, <3>2 DEF Calm, Settled, OneEach
  <2>4. i.id <= i.id
    BY DEF Calm, EdgeOK, ClientOK, Item, Ids
  <2> QED BY <1>1, <2>2, <2>3, <2>4 DEF FirstMatch
<1> QED BY <1>1, <1>2

\* What was not in the list at the address of a registered container is not.
LEMMA NotRegisteredAgain ==
  ASSUME NamesApart, Calm, [Next]_vars, Quiet',
         NEW c \in Containers, ContainerIsRunning(c), NEW q \in Clis, Finished(q, c),
         \A i \in pool : i.ip # box[c].ip
  PROVE  \A i \in pool' : i.ip # box[c].ip
<1>0. EdgeOK
  BY DEF Calm
<1>1. CASE Shrinks
  BY <1>1 DEF Shrinks
<1>2. ASSUME NEW x \in Clis, Registers(x), NEW i \in pool', i.ip = box[c].ip PROVE FALSE
  <2>1. i.ip = cli[x].ip
    BY <1>2 DEF Registers, Add, NewItem
  <2>2. PICK d \in Containers : d = Instance(x) /\ ListensAt(d, cli[x].ip, cli[x].job.port)
    BY <1>2, RegistersWhatRuns
  <2>3. c = Instance(x)
    BY <1>2, <2>1, <2>2 DEF ListensAt, Calm, OwnAddresses
  <2>4. Deploying(x) /\ ~At(x, "deployed")
    BY <1>2, RegistersWhatRuns
  <2> QED BY <1>0, <2>3, <2>4, FinishedApart
<1> QED BY <1>0, <1>1, <1>2, RegistersOrShrinks

\* Every step keeps the targets.
LEMMA NextAimed ==
  ASSUME NamesApart, Calm, [Next]_vars, Quiet', NEW p \in Clis
  PROVE  Aimed(p)'
<1> SUFFICES ASSUME cli'[p].pc \in {"evict", "wait", "find", "stop"} PROVE Aimed(p)'
  BY DEF Aimed, At
<1>0. EdgeOK /\ Quiet /\ ~Fault /\ Aimed(p)
  BY StillQuiet DEF Calm, Settled
<1>1. CASE cli'[p] = cli[p]
  <2>1. PICK c \in Containers : c = cli[p].name
    BY <1>0, <1>1 DEF Aimed
  <2>2. IF ContainerIsRunning(c) THEN cli[p].ip = box[c].ip ELSE Over(c)
    BY <1>0, <1>1, <2>1 DEF Aimed
  <2>3. /\ IF ContainerIsRunning(c)' THEN cli[p].ip = box'[c].ip ELSE Over(c)'
        /\ ContainerIsRunning(c)' => ContainerIsRunning(c) /\ box'[c] = box[c]
    BY <2>2, TargetStays
  <2>4. ASSUME cli[p].pc \in {"wait", "find", "stop"}, ContainerIsRunning(c)'
        PROVE  /\ \E q \in Clis : Finished(q, c)'
               /\ At(p, "wait") => cli[p].job.port \in {None, ListensOn[c]}
               /\ cli[p].pc \in {"find", "stop"} => \A i \in pool' : i.ip # box'[c].ip
    <3>1. ContainerIsRunning(c) /\ box'[c] = box[c]
      BY <2>3, <2>4
    <3>2. PICK q \in Clis : Finished(q, c)
      BY <1>0, <2>1, <2>4, <3>1 DEF Aimed
    <3>3. Finished(q, c)'
      BY <1>0, <3>2, FinishedStays
    <3>4. At(p, "wait") => cli[p].job.port \in {None, ListensOn[c]}
      BY <1>0, <2>1, <3>1 DEF Aimed
    <3>5. cli[p].pc \in {"find", "stop"} => \A i \in pool' : i.ip # box'[c].ip
      BY <1>0, <2>1, <3>1, <3>2, NotRegisteredAgain DEF Aimed
    <3> QED BY <3>3, <3>4, <3>5
  <2> QED BY <1>1, <2>1, <2>3, <2>4 DEF Aimed, At
<1>2. CASE /\ Resolves(p) \/ Evicts(p) \/ Waits(p) \/ Finds(p)
           /\ cli'[p].job = cli[p].job /\ cli'[p].name = cli[p].name
           /\ UNCHANGED box
  <2>1. PICK c \in Containers : c = cli[p].name
    BY <1>0, <1>2 DEF Resolves, Evicts, Waits, Finds, Aimed, At, EdgeOK, Invocations, CommandOK
  <2>2. IF ContainerIsRunning(c)' THEN cli'[p].ip = box'[c].ip ELSE Over(c)'
    <3>1. CASE Resolves(p)
      BY <1>2, <2>1, <3>1 DEF Resolves, ContainerIsRunning
    <3>2. CASE Evicts(p) \/ Waits(p) \/ Finds(p)
      <4>1. cli[p].pc \in {"evict", "wait", "find"} /\ cli'[p].ip = cli[p].ip
        BY <3>2 DEF Evicts, Waits, Finds, At
      <4>2. IF ContainerIsRunning(c) THEN cli[p].ip = box[c].ip ELSE Over(c)
        BY <1>0, <2>1, <4>1 DEF Aimed
      <4> QED BY <4>1, <4>2, TargetStays
    <3> QED BY <1>2, <3>1, <3>2
  <2>3. ASSUME cli'[p].pc \in {"wait", "find", "stop"}, ContainerIsRunning(c)'
        PROVE  /\ \E q \in Clis : Finished(q, c)'
               /\ cli'[p].pc = "wait" => cli[p].job.port \in {None, ListensOn[c]}
               /\ cli'[p].pc \in {"find", "stop"} => \A i \in pool' : i.ip # box[c].ip
    <3>1. ContainerIsRunning(c) /\ cli[p].pc \in {"evict", "wait", "find"}
      BY <1>2, <2>3 DEF ContainerIsRunning, Resolves, Evicts, Waits, Finds, At
    <3>2. cli[p].ip = box[c].ip
      BY <1>0, <2>1, <3>1 DEF Aimed
    <3>3. \E q \in Clis : Finished(q, c)
      <4>1. CASE Evicts(p)
        BY <1>0, <3>1, <3>2, <4>1, EvictsItsTarget
      <4>2. CASE Waits(p) \/ Finds(p)
        BY <1>0, <2>1, <3>1, <4>2 DEF Aimed, Waits, Finds, At
      <4> QED BY <1>2, <2>3, <4>1, <4>2 DEF Resolves
    <3>4. \E q \in Clis : Finished(q, c)'
      BY <1>0, <3>3, FinishedStays
    <3>5. ASSUME cli'[p].pc = "wait" PROVE cli[p].job.port \in {None, ListensOn[c]}
      <4>1. CASE Evicts(p)
        BY <1>0, <3>1, <3>2, <4>1, EvictsItsTarget
      <4>2. CASE Waits(p)
        BY <1>0, <2>1, <3>1, <4>2 DEF Aimed, Waits
      <4> QED BY <1>2, <3>5, <4>1, <4>2 DEF Resolves, Finds
    <3>6. ASSUME cli'[p].pc \in {"find", "stop"} PROVE \A i \in pool' : i.ip # box[c].ip
      <4>1. CASE Evicts(p)
        <5>1. cli'[p].pc = "find"
          BY <3>6, <4>1 DEF Evicts
        <5> QED BY <1>0, <3>1, <3>2, <4>1, <5>1, EvictsItsTarget
      <4>2. CASE Waits(p)
        <5>1. cli'[p].pc = "find" /\ cli[p].job.port \in {None, ListensOn[c]}
          BY <1>0, <2>1, <3>1, <3>6, <4>2 DEF Waits, Aimed
        <5> QED BY <1>0, <3>1, <3>2, <4>2, <5>1, WaitsForItsTarget
      <4>3. CASE Finds(p)
        BY <1>0, <2>1, <3>1, <4>3 DEF Aimed, Finds, At
      <4> QED BY <1>2, <3>6, <4>1, <4>2, <4>3 DEF Resolves
    <3> QED BY <3>4, <3>5, <3>6
  <2> QED BY <1>2, <2>1, <2>2, <2>3 DEF Aimed, At
<1>3. At(p, "find") => cli[p].name \in Containers
  BY <1>0 DEF Aimed, At
<1> QED BY <1>0, <1>1, <1>2, <1>3, HowEvictionsGoOn

\* Every step keeps what is about to be registered.
LEMMA NextStarted ==
  ASSUME NamesApart, Calm, [Next]_vars, Quiet', NEW p \in Clis
  PROVE  HasStarted(p)'
<1> SUFFICES ASSUME cli'[p].pc \in {"inspect", "probe", "register"}
             PROVE  ContainerIsRunning(Instance(p))'
  BY DEF HasStarted
<1>0. EdgeOK /\ Quiet /\ HasStarted(p)
  BY StillQuiet DEF Calm, Settled
<1>1. Deploying(p) /\ (cli'[p] = cli[p] \/ DeployStep(p))
  BY <1>0, ComesFromDeploying
<1>2. CASE cli'[p] = cli[p]
  <2>1. ContainerIsRunning(Instance(p)) /\ Instance(p)' = Instance(p)
    BY <1>0, <1>2 DEF HasStarted, Instance
  <2>2. box'[Instance(p)] = box[Instance(p)]
    BY <1>2, <2>1, StartedRuns
  <2> QED BY <2>1, <2>2 DEF ContainerIsRunning
<1>3. CASE DeployStep(p) /\ cli'[p].pc \in {"probe", "register"}
  <2>1. UNCHANGED box /\ Instance(p)' = Instance(p) /\ ContainerIsRunning(Instance(p))
    BY <1>0, <1>3, HowDeploymentsGoOn DEF HasStarted, At
  <2> QED BY <2>1 DEF ContainerIsRunning
<1>4. CASE DeployStep(p) /\ cli'[p].pc = "inspect"
  <2>1. ASSUME NEW s, Goto(p, s) PROVE cli'[p].pc = s /\ Instance(p)' = Instance(p)
    BY <1>0, <2>1 DEF Goto, EdgeOK, Invocations, CliState, Instance
  <2>2. RunContainer(p)
    <3>1. ~(cli' = [cli EXCEPT ![p].pc = "probe", ![p].ip = box[Instance(p)].ip])
      BY <1>0, <1>4 DEF EdgeOK, Invocations, CliState
    <3>2. ~NextReplica(p)
      BY <1>0, <1>4 DEF NextReplica, EdgeOK, Invocations, CliState
    <3>3. PICK s : Leads(p, s)
      BY <1>4, <3>1, <3>2, WaysToGo
    <3>4. s = "inspect"
      BY <1>4, <2>1, <3>3 DEF Leads
    <3> QED BY <3>3, <3>4 DEF Leads
  <2>3. ~Goto(p, "failed")
    BY <1>4, <2>1
  <2>4. StartNew(Instance(p), cli[p].tag) /\ Goto(p, "inspect")
    BY <2>2, <2>3, RunsOne
  <2>5. Instance(p) \in Containers /\ Instance(p)' = Instance(p)
    BY <1>0, <1>1, <2>1, <2>4, TheReplica
  <2>6. box'[Instance(p)].state = "running"
    BY <1>0, <2>4, <2>5 DEF StartNew, RunningAt, EdgeOK, DockerTypeOK
  <2> QED BY <2>5, <2>6 DEF ContainerIsRunning
<1> QED BY <1>1, <1>2, <1>3, <1>4

\* Every step keeps Settled.
LEMMA NextSettled ==
  ASSUME NamesApart, Calm, [Next]_vars
  PROVE  Settled'
<1> SUFFICES ASSUME Quiet' PROVE Settled'
  BY DEF Settled
<1>1. EdgeOK /\ Quiet /\ outages' = outages
  BY StillQuiet DEF Calm
<1>2. server' = "serving"
  BY <1>1, KeepsServing DEF Calm, Settled
<1> QED BY <1>2, NextUp, NextAimed, NextStarted DEF Settled

\* Every upstream of the list is a running container that listens on its port,
\* as long as nothing has failed, nobody scans and targets are named: what is
\* registered is up, and what is stopped has left the list.  So it is with any
\* number of deployments of any number of replicas, whose addresses are given
\* away again, and of deregistrations that race for them, by drain or at once,
\* with a port or without; as long as the deployments have names of their own.
THEOREM NoDeadUpstreamCorrect ==
  ASSUME NamesApart
  PROVE  Spec => []NoDeadUpstream
<1>1. ASSUME Init, NEW p \in Clis PROVE cli[p].pc = "start"
  BY <1>1 DEF Init, NewCli
<1>2. Init => AllCareful /\ AllTried /\ Settled
  BY <1>1 DEF Init, ServerInit, RegistryInit, AllCareful, Careful, AllTried, Tried, Settled,
              OneEach, Aimed, HasStarted, At
<1>3. EdgeOK /\ OwnAddresses /\ AllCareful /\ AllTried /\ Settled /\ [Next]_vars
        => (AllCareful /\ AllTried /\ Settled)'
  BY NextCareful, NextTried, NextSettled DEF Calm
<1>4. Settled => NoDeadUpstream
  BY DEF Settled, Quiet, Up, NoDeadUpstream
<1> QED BY <1>2, <1>3, <1>4, EdgeOKCorrect, AddressesCorrect, PTL DEF Spec
==============================================================================
