--------------------------- MODULE DiscoveryProofs ---------------------------
(***************************************************************************)
(* What a discovery brings back, beside any number of deployments and of   *)
(* other discoveries, through any number of deaths, stops and starts of    *)
(* the server before it began.                                             *)
(***************************************************************************)
EXTENDS DeployProofs

(***************************************************************************)
(* Addresses.                                                              *)
(***************************************************************************)

\* Running containers, and only they, have an address, each one of its own.
OwnAddresses ==
  /\ \A c \in Containers : box[c].ip # None <=> ContainerIsRunning(c)
  /\ \A c, d \in Containers : (c # d /\ box[c].ip # None) => box[c].ip # box[d].ip

\* docker run gives an address that nobody has, and what stops gives its own
\* back.
LEMMA DaemonKeepsAddresses ==
  ASSUME DockerTypeOK, OwnAddresses, NEW c \in Containers,
         \/ box' = [box EXCEPT ![c] = Absent]
         \/ box' = [box EXCEPT ![c] = Stopped]
         \/ \E tag : StartNew(c, tag)
  PROVE  OwnAddresses'
<1>1. CASE box' = [box EXCEPT ![c] = Absent]
  BY <1>1 DEF DockerTypeOK, OwnAddresses, Absent, ContainerIsRunning
<1>2. CASE box' = [box EXCEPT ![c] = Stopped]
  BY <1>2 DEF DockerTypeOK, OwnAddresses, Stopped, ContainerIsRunning
<1>3. ASSUME NEW a \in FreeIps, NEW image, box' = [box EXCEPT ![c] = RunningAt(a, image)]
      PROVE  OwnAddresses'
  <2>1. a # None /\ \A d \in Containers : box[d].ip # a
    BY UpstreamsAssumption DEF FreeIps
  <2>2. /\ box'[c].ip = a /\ box'[c].state = "running"
        /\ \A d \in Containers \ {c} : box'[d] = box[d]
    BY <1>3 DEF DockerTypeOK, RunningAt
  <2> QED BY <2>1, <2>2 DEF OwnAddresses, ContainerIsRunning
<1> QED BY <1>1, <1>2, <1>3 DEF StartNew

\* c is removed, has stopped or was created, or is started by docker run.
Changes(c) == \/ box' = [box EXCEPT ![c] = Absent]
              \/ box' = [box EXCEPT ![c] = Stopped]
              \/ \E tag : StartNew(c, tag)

\* What a step may do to the containers.
LEMMA DockerSteps ==
  ASSUME EdgeOK, [Next]_vars, ~UNCHANGED box
  PROVE  \E c \in Containers : Changes(c)
<1>1. ASSUME NEW p \in Clis, DeployNext(p) PROVE \E c \in Containers : Changes(c)
  <2>1. Cleanup(p) \/ RunContainer(p) \/ Abort(p)
    BY <1>1 DEF DeployNext, StartDeploy, FindImage, LoginToRegistry, PullImage, BuildImage,
                CheckRunning, CheckExists, CheckStopped, FindNetwork, CreateNetwork, Inspect,
                WaitForReadiness, RegisterInstance, ApiOnly, AskOnly, docker, Fails, SetImage,
                NetworkCreate
  <2>2. Instance(p) \in Containers
    BY <2>1, AtAReplica DEF EdgeOK, Invocations, CommandOK, Cleanup, RunContainer, Abort, At,
                            DeployPcs
  <2>3. CASE Cleanup(p) \/ Abort(p)
    <3>1. StopAndRemoveContainer(Instance(p))
      BY <2>3 DEF Cleanup, Abort
    <3>2. Changes(Instance(p))
      BY <2>2, <3>1, StopsOne DEF Changes
    <3> QED BY <2>2, <3>2
  <2>4. CASE RunContainer(p)
    <3>1. Changes(Instance(p))
      BY <2>4, RunsOne DEF Changes
    <3> QED BY <2>2, <3>1
  <2> QED BY <2>1, <2>3, <2>4
<1>2. ASSUME NEW p \in Clis, DeregisterNext(p) PROVE \E c \in Containers : Changes(c)
  <2>1. StopTarget(p)
    BY <1>2 DEF DeregisterNext, StartDeregister, ResolveTarget, EvictTarget,
                WaitForBackendDrain, FindTarget, ApiOnly, AskOnly, docker
  <2>2. cli[p].name \in Containers /\ StopAndRemoveContainer(cli[p].name)
    BY <2>1 DEF EdgeOK, Invocations, CommandOK, StopTarget, At
  <2>3. Changes(cli[p].name)
    BY <2>2, StopsOne DEF Changes
  <2> QED BY <2>2, <2>3
<1>3. ASSUME NEW p \in Clis, DiscoverNext(p) \/ ListNext(p) PROVE FALSE
  BY <1>3 DEF DiscoverNext, StartDiscover, ListRunningContainers, InspectApp,
              ProbeHealthEndpoint, RegisterApp, FinishDiscover, ListNext, ApiOnly, AskOnly, docker
<1>4. CASE \E p \in Clis : CliStep(p)
  BY <1>1, <1>2, <1>3, <1>4 DEF CliStep
<1>5. CASE DieStep
  BY <1>5 DEF DieStep, Die, Changes
<1>6. CASE ServerStep \/ PurgeStep \/ WatchStep \/ UNCHANGED vars
  BY <1>6 DEF ServerStep, PurgeStep, WatchStep, HandleEvent, docker, vars
<1> QED BY <1>4, <1>5, <1>6 DEF Next

\* Addresses are never shared.
LEMMA AddressesCorrect == Spec => []OwnAddresses
<1>1. Init => OwnAddresses
  BY UpstreamsAssumption DEF Init, DockerInit, OwnAddresses, Absent, Stopped, RunningAt, ContainerIsRunning
<1>2. EdgeOK /\ OwnAddresses /\ [Next]_vars => OwnAddresses'
  <2> SUFFICES ASSUME EdgeOK, OwnAddresses, [Next]_vars PROVE OwnAddresses'
    OBVIOUS
  <2>1. CASE UNCHANGED box
    BY <2>1 DEF OwnAddresses, ContainerIsRunning
  <2>2. CASE ~UNCHANGED box
    BY <2>2, DockerSteps, DaemonKeepsAddresses DEF EdgeOK, Changes
  <2> QED BY <2>1, <2>2
<1> QED BY <1>1, <1>2, EdgeOKCorrect, PTL DEF Spec

\* With addresses of their own, what answers at the address of a container is
\* that container.
LEMMA ServesItself ==
  ASSUME OwnAddresses, NEW c \in Containers, NEW port, NEW path
  PROVE  Serves(box[c].ip, port, path) <=> ListensAt(c, box[c].ip, port) /\ path \in Answers[c]
<1>1. box[c].ip \in IPv4 => box[c].ip # None
  BY UpstreamsAssumption
<1> QED BY <1>1 DEF Serves, ListensAt, OwnAddresses

(***************************************************************************)
(* Names.  An address may have been another container's when a command     *)
(* inspected it; the name that is then registered is that one's.           *)
(***************************************************************************)

\* d has the address a, or has had one and is gone.
Holds(d, a) == d \in gone \/ (ContainerIsRunning(d) /\ box[d].ip = a)

\* p knows the address of the container at hand.
KnowsAddress(p) ==
  /\ cli[p].pc \in {"probe_app", "register_app"} => Holds(cli[p].name, cli[p].ip)
  /\ cli[p].pc \in {"probe", "register"} => Holds(Instance(p), cli[p].ip)

AllKnow == \A p \in Clis : KnowsAddress(p)

ItemsNamed == \A i \in pool : \E d \in Containers : i.sni \in HostNames(d) /\ Holds(d, i.ip)

\* The history only grows.
LEMMA GoneGrows == [Next]_vars => gone \subseteq gone'
  BY DEF Next, CliStep, DieStep, ServerStep, PurgeStep, WatchStep, Events, vars

\* Who has an address keeps it or is gone.
LEMMA HoldsStays ==
  ASSUME EdgeOK, [Next]_vars, NEW d \in Containers, NEW a, Holds(d, a)
  PROVE  Holds(d, a)'
<1>1. CASE d \in gone'
  BY <1>1 DEF Holds
<1>2. CASE d \notin gone'
  <2>1. ContainerIsRunning(d) /\ box[d].ip = a
    BY <1>2, GoneGrows DEF Holds
  <2>2. box'[d] = box[d]
    BY <1>2, <2>1, RunningStays
  <2> QED BY <2>1, <2>2 DEF Holds, ContainerIsRunning
<1> QED BY <1>1, <1>2

\* Only the invocation that takes a step moves.
LEMMA WhoMoves ==
  ASSUME EdgeOK, [Next]_vars, NEW p \in Clis, cli'[p] # cli[p]
  PROVE  CliStep(p)
<1>1. ASSUME NEW q \in Clis \ {p}, CliStep(q) PROVE cli'[p] = cli[p]
  BY <1>1, CliTypes DEF OthersStay
<1>2. CASE DieStep \/ ServerStep \/ PurgeStep \/ WatchStep \/ UNCHANGED vars
  BY <1>2, WorldTypes DEF vars
<1> QED BY <1>1, <1>2 DEF Next

\* A deployment that is at a replica is one of a container with that name.
LEMMA AtTheReplica ==
  ASSUME EdgeOK, NEW p \in Clis, cli[p].pc \in DeployPcs
  PROVE  Deploying(p) /\ Instance(p) \in Containers
  BY AtAReplica DEF EdgeOK, Invocations, CommandOK

\* What an invocation that has moved knows.
LEMMA MovesKnow ==
  ASSUME EdgeOK, NEW p \in Clis, CliStep(p), KnowsAddress(p), [Next]_vars
  PROVE  KnowsAddress(p)'
<1>0. cli[p] \in CliState(Jobs) /\ CommandOK(p) /\ cli \in [Clis -> CliState(Jobs)]
  BY DEF EdgeOK, Invocations
<1>1. ASSUME NEW s, Goto(p, s)
      PROVE  /\ cli'[p].pc = s /\ cli'[p].name = cli[p].name /\ cli'[p].ip = cli[p].ip
             /\ Instance(p)' = Instance(p)
  BY <1>0, <1>1 DEF Goto, CliState, Instance
<1>2. CASE Inspect(p)
  <2>1. CASE Goto(p, "abort")
    BY <1>1, <2>1 DEF KnowsAddress
  <2>2. CASE /\ ContainerIsRunning(Instance(p))
             /\ cli' = [cli EXCEPT ![p].pc = "probe", ![p].ip = box[Instance(p)].ip]
    <3>1. cli'[p].pc = "probe" /\ cli'[p].ip = box[Instance(p)].ip /\ Instance(p)' = Instance(p)
      BY <1>0, <2>2 DEF CliState, Instance
    <3>2. UNCHANGED box
      BY <1>2 DEF Inspect, AskOnly, docker
    <3> QED BY <2>2, <3>1, <3>2 DEF KnowsAddress, Holds, ContainerIsRunning
  <2> QED BY <1>2, <2>1, <2>2 DEF Inspect, Seen
<1>3. CASE InspectApp(p)
  <2>1. PICK c \in cli[p].todo :
          \/ /\ ContainerIsRunning(c)
             /\ cli' = [cli EXCEPT ![p].pc = "probe_app", ![p].name = c, ![p].ip = box[c].ip,
                                   ![p].at = 1, ![p].todo = @ \ {c}]
          \/ cli' = [cli EXCEPT ![p].todo = @ \ {c}]
    BY <1>3 DEF InspectApp, Seen
  <2>2. UNCHANGED box /\ At(p, "scan")
    BY <1>3 DEF InspectApp, AskOnly, docker
  <2>3. CASE /\ ContainerIsRunning(c)
             /\ cli' = [cli EXCEPT ![p].pc = "probe_app", ![p].name = c, ![p].ip = box[c].ip,
                                   ![p].at = 1, ![p].todo = @ \ {c}]
    <3>1. cli'[p].pc = "probe_app" /\ cli'[p].name = c /\ cli'[p].ip = box[c].ip
      BY <1>0, <2>3 DEF CliState
    <3> QED BY <2>2, <2>3, <3>1 DEF KnowsAddress, Holds, ContainerIsRunning
  <2>4. CASE cli' = [cli EXCEPT ![p].todo = @ \ {c}]
    <3>1. cli'[p].pc = "scan"
      BY <1>0, <2>2, <2>4 DEF CliState, At
    <3> QED BY <3>1 DEF KnowsAddress
  <2> QED BY <2>1, <2>3, <2>4
<1>4. CASE WaitForReadiness(p)
  <2>1. Instance(p) \in Containers /\ At(p, "probe")
    BY <1>4, AtTheReplica DEF WaitForReadiness, At, DeployPcs
  <2>2. Holds(Instance(p), cli[p].ip)
    BY <2>1 DEF KnowsAddress, At
  <2>3. PICK s \in {"register", "abort"} : Goto(p, s)
    BY <1>4 DEF WaitForReadiness
  <2>4. ASSUME NEW c, c = Instance(p), NEW a, a = cli[p].ip PROVE Holds(c, a)'
    BY <2>1, <2>2, <2>4, HoldsStays
  <2>5. Holds(Instance(p), cli[p].ip)'
    BY <1>1, <2>3, <2>4 DEF Holds, ContainerIsRunning
  <2>6. cli'[p].pc = s
    BY <1>1, <2>3
  <2> QED BY <2>3, <2>5, <2>6 DEF KnowsAddress
<1>5. CASE ProbeHealthEndpoint(p)
  <2>1. cli[p].name \in Containers /\ At(p, "probe_app")
    BY <1>0, <1>5 DEF ProbeHealthEndpoint, At, CommandOK
  <2>2. Holds(cli[p].name, cli[p].ip)
    BY <2>1 DEF KnowsAddress, At
  <2>3. /\ cli'[p].pc \in {"register_app", "scan", "probe_app"}
        /\ cli'[p].name = cli[p].name /\ cli'[p].ip = cli[p].ip
    <3>1. CASE Goto(p, "register_app") \/ Goto(p, "scan")
      BY <1>1, <3>1
    <3>2. CASE cli' = [cli EXCEPT ![p].at = @ + 1]
      BY <1>0, <2>1, <3>2 DEF CliState, At
    <3> QED BY <1>5, <3>1, <3>2 DEF ProbeHealthEndpoint
  <2>4. ASSUME NEW c, c = cli[p].name, NEW a, a = cli[p].ip PROVE Holds(c, a)'
    BY <2>1, <2>2, <2>4, HoldsStays
  <2>5. Holds(cli[p].name, cli[p].ip)'
    BY <2>3, <2>4 DEF Holds, ContainerIsRunning
  <2> QED BY <2>3, <2>5 DEF KnowsAddress
<1>6. CASE cli'[p].pc \notin {"probe_app", "register_app", "probe", "register"}
  BY <1>6 DEF KnowsAddress
<1>7. ASSUME DeployNext(p), ~Inspect(p), ~WaitForReadiness(p)
      PROVE  cli'[p].pc \notin {"probe_app", "register_app", "probe", "register"}
  <2>1. CASE StartDeploy(p)
    <3>1. CASE Goto(p, "failed")
      BY <1>1, <3>1
    <3>2. CASE \E a \in Deployments[p] : \E base \in BaseNames(a) :
                 cli' = [cli EXCEPT ![p] = [NewCli EXCEPT
                           !.pc = IF a.image # None THEN "image" ELSE "build", !.job = a,
                           !.names = InstanceNames(a, base), !.tag = ImageTag(a, base)]]
      BY <1>0, <3>2 DEF NewCli
    <3> QED BY <2>1, <3>1, <3>2 DEF StartDeploy
  <2>2. CASE NextReplica(p)
    BY <1>0, <2>2 DEF NextReplica, CliState
  <2>3. CASE \E s : Leads(p, s)
    <3>1. PICK s : Leads(p, s)
      BY <2>3
    <3>2. s \notin {"probe_app", "register_app", "probe", "register"}
      BY <1>0, <1>1, <1>7, <3>1, DeployPlaces DEF Leads, DeployPcs, EdgeOK
    <3> QED BY <1>1, <3>1, <3>2 DEF Leads
  <2>4. StartDeploy(p) \/ DeployStep(p)
    BY <1>7 DEF DeployNext, DeployStep
  <2> QED BY <1>7, <2>1, <2>2, <2>3, <2>4, WaysToGo
<1>8. ASSUME DeregisterNext(p)
      PROVE  cli'[p].pc \notin {"probe_app", "register_app", "probe", "register"}
  BY <1>8, EvictPlaces DEF EdgeOK, EvictPcs
<1>9. ASSUME DiscoverNext(p) \/ ListNext(p), ~InspectApp(p), ~ProbeHealthEndpoint(p)
      PROVE  cli'[p].pc \notin {"probe_app", "register_app", "probe", "register"}
  <2>1. CASE cli' = [cli EXCEPT ![p] = Scanning]
    BY <1>0, <2>1 DEF Scanning, NewCli
  <2>2. CASE ListRunningContainers(p)
    <3> DEFINE found == {c \in Containers \ Platform : ContainerIsRunning(c)}
    <3>1. CASE cli' = [cli EXCEPT ![p].pc = "scan", ![p].todo = found]
      <4> HIDE DEF found
      <4> QED BY <1>0, <3>1 DEF CliState
    <3> QED BY <1>1, <2>2, <3>1 DEF ListRunningContainers
  <2> QED BY <1>1, <1>9, <2>1, <2>2
          DEF DiscoverNext, StartDiscover, RegisterApp, FinishDiscover, ListNext
<1> QED BY <1>2, <1>3, <1>4, <1>5, <1>6, <1>7, <1>8, <1>9 DEF CliStep

\* What the invocations know of addresses stays true.
LEMMA NextKnow == EdgeOK /\ AllKnow /\ [Next]_vars => AllKnow'
<1> SUFFICES ASSUME EdgeOK, AllKnow, [Next]_vars, NEW p \in Clis PROVE KnowsAddress(p)'
  BY DEF AllKnow
<1>1. KnowsAddress(p)
  BY DEF AllKnow
<1>2. CASE cli'[p] = cli[p]
  <2>1. CASE cli[p].pc \in {"probe_app", "register_app"}
    <3>1. cli[p].name \in Containers
      BY <2>1 DEF EdgeOK, Invocations, CommandOK
    <3>2. ASSUME NEW c, c = cli[p].name, NEW a, a = cli[p].ip PROVE Holds(c, a)'
      BY <1>1, <2>1, <3>1, <3>2, HoldsStays DEF KnowsAddress
    <3> QED BY <1>2, <2>1, <3>2 DEF KnowsAddress, Holds, ContainerIsRunning
  <2>2. CASE cli[p].pc \in {"probe", "register"}
    <3>1. Instance(p) \in Containers /\ Instance(p)' = Instance(p)
      BY <1>2, <2>2, AtTheReplica DEF DeployPcs, Instance
    <3>2. ASSUME NEW c, c = Instance(p), NEW a, a = cli[p].ip PROVE Holds(c, a)'
      BY <1>1, <2>2, <3>1, <3>2, HoldsStays DEF KnowsAddress
    <3> QED BY <1>2, <2>2, <3>1, <3>2 DEF KnowsAddress, Holds, ContainerIsRunning
  <2>3. CASE cli[p].pc \notin {"probe_app", "register_app", "probe", "register"}
    BY <1>2, <2>3 DEF KnowsAddress
  <2> QED BY <2>1, <2>2, <2>3
<1>3. CASE cli'[p] # cli[p]
  BY <1>1, <1>3, MovesKnow, WhoMoves
<1> QED BY <1>2, <1>3

\* The name a deployment registers a container under is one of its host names.
LEMMA TargetNamed ==
  ASSUME NEW c \in Containers, NEW s \in Suffixes
  PROVE  Norm[Hostname[c, s]] \in HostNames(c)
<1> DEFINE H(d, t) == Norm[Hostname[d, t]]
<1>1. HostNames(c) = {H(d, t) : d \in {c, Lower[c]}, t \in Suffixes}
  BY DEF HostNames
<1>2. H(c, s) = Norm[Hostname[c, s]]
  OBVIOUS
<1> HIDE DEF H
<1>3. H(c, s) \in HostNames(c)
  BY <1>1
<1> QED BY <1>2, <1>3

\* So is the name of a discovered container.
LEMMA AppNamed ==
  ASSUME NEW c \in Containers
  PROVE  Norm[AppName(c)] \in HostNames(c)
<1> DEFINE H(d, t) == Norm[Hostname[d, t]]
<1>1. HostNames(c) = {H(d, t) : d \in {c, Lower[c]}, t \in Suffixes}
  BY DEF HostNames
<1>2. H(Lower[c], DefaultSuffix) = Norm[AppName(c)]
  BY DEF AppName
<1> HIDE DEF H
<1>3. DefaultSuffix \in Suffixes
  BY FlagsAssumption
<1>4. H(Lower[c], DefaultSuffix) \in {H(d, t) : d \in {c, Lower[c]}, t \in Suffixes}
  BY <1>3
<1> QED BY <1>1, <1>2, <1>4

\* The suffix of a deployment is a valid one, or the default.
LEMMA ReplicaNamed ==
  ASSUME EdgeOK, NEW p \in Clis, Deploying(p), NEW c \in Containers
  PROVE  Norm[TargetName(c, cli[p].job)] \in HostNames(c)
<1>1. PICK a \in Deployments[p] : cli[p].job = a
  BY DEF EdgeOK, Invocations, CommandOK, Deployer, RunsADeployment
<1>2. a.suffix \in Suffixes \cup {None}
  BY DeploymentsAssumption
<1> DEFINE s == IF a.suffix = None THEN DefaultSuffix ELSE a.suffix
<1>3. s \in Suffixes
  BY <1>2, FlagsAssumption
<1>4. TargetName(c, cli[p].job) = Hostname[c, s]
  BY <1>1 DEF TargetName
<1> HIDE DEF s
<1> QED BY <1>3, <1>4, TargetNamed

\* Where an item of the list comes from: it was there, or was drained, or a
\* deployment or a discovery has registered it.
LEMMA WhereItemsComeFrom ==
  ASSUME EdgeOK, [Next]_vars, NEW i \in pool'
  PROVE  \/ \E j \in pool : j.ip = i.ip /\ j.sni = i.sni
         \/ \E p \in Clis : /\ RegisterInstance(p) /\ i.ip = cli[p].ip
                            /\ i.sni = Norm[TargetName(Instance(p), cli[p].job)]
         \/ \E p \in Clis : /\ RegisterApp(p) /\ i.ip = cli[p].ip
                            /\ i.sni = Norm[AppName(cli[p].name)]
<1> DEFINE Same == \E j \in pool : j.ip = i.ip /\ j.sni = i.sni
<1>1. CASE pool' \subseteq pool
  BY <1>1
<1>2. ASSUME NEW ip, NEW port, NEW name, NEW e, NEW ok \in BOOLEAN,
             RegisterUpstream(ip, port, name, e, ok)
      PROVE  Same \/ (i.ip = ip /\ i.sni = Norm[name])
  BY <1>2 DEF RegisterUpstream, Refused, Add, NewItem
<1>3. ASSUME NEW p \in Clis, DeployNext(p)
      PROVE  Same \/ (RegisterInstance(p) /\ i.ip = cli[p].ip
                        /\ i.sni = Norm[TargetName(Instance(p), cli[p].job)])
  <2>1. CASE RegisterInstance(p)
    BY <1>2, <2>1 DEF RegisterInstance, RegisterTarget
  <2>2. CASE UNCHANGED pool
    BY <1>1, <2>2
  <2> QED BY <1>3, <2>1, <2>2
          DEF DeployNext, StartDeploy, FindImage, LoginToRegistry, PullImage, BuildImage,
              CheckRunning, CheckExists, CheckStopped, Cleanup, FindNetwork, CreateNetwork,
              RunContainer, Inspect, WaitForReadiness, Abort, CheckApiServerHealth, DockerOnly,
              AskOnly, client
<1>4. ASSUME NEW p \in Clis, DiscoverNext(p) \/ ListNext(p)
      PROVE  Same \/ (RegisterApp(p) /\ i.ip = cli[p].ip /\ i.sni = Norm[AppName(cli[p].name)])
  <2>1. CASE RegisterApp(p)
    BY <1>2, <2>1 DEF RegisterApp
  <2>2. CASE UNCHANGED pool
    BY <1>1, <2>2
  <2> QED BY <1>4, <2>1, <2>2
          DEF DiscoverNext, StartDiscover, ListRunningContainers, InspectApp,
              ProbeHealthEndpoint, FinishDiscover, ListNext, ListUpstreams, CheckApiServerHealth,
              DockerOnly, AskOnly, client
<1>5. ASSUME NEW p \in Clis, DeregisterNext(p) PROVE Same
  <2>1. CASE pool' \subseteq pool
    BY <1>1, <2>1
  <2>2. CASE \E j \in pool, until \in Deadlines : BeginDrain(j, until)
    <3>1. PICK j \in pool, until \in Deadlines : BeginDrain(j, until)
      BY <2>2
    <3>2. i \in pool \/ i = MarkedDraining(j, until)
      BY <3>1 DEF BeginDrain
    <3>3. MarkedDraining(j, until).ip = j.ip /\ MarkedDraining(j, until).sni = j.sni
      BY DEF MarkedDraining, EdgeOK, ClientOK, Item
    <3> QED BY <3>2, <3>3
  <2>3. CASE EvictTarget(p)
    <3>1. PICK ok \in BOOLEAN :
            IF cli[p].job.graceful THEN DrainUpstream(cli[p].ip, cli[p].job.port, ok)
                                   ELSE DeregisterUpstream(cli[p].ip, cli[p].job.port, ok)
      BY <2>3 DEF EvictTarget
    <3> QED BY <2>1, <2>2, <3>1 DEF DrainUpstream, DeregisterUpstream, Refused, Remove, Retained,
                                    FirstMatch
  <2> QED BY <1>5, <2>1, <2>3
          DEF DeregisterNext, StartDeregister, ResolveTarget, WaitForBackendDrain, FindTarget,
              StopTarget, GetUpstreamStatus, Refused, DockerOnly, AskOnly, client
<1>6. CASE \E p \in Clis : CliStep(p)
  BY <1>3, <1>4, <1>5, <1>6 DEF CliStep
<1>7. CASE DieStep \/ ServerStep \/ PurgeStep \/ WatchStep \/ UNCHANGED vars
  BY <1>1, <1>7 DEF DieStep, ServerStep, StopServer, StartServer, PurgeStep, Evict, WatchStep,
                    HandleEvent, vars, client
<1> QED BY <1>6, <1>7 DEF Next

\* Every item has the name of a container that has its address, or that is gone.
LEMMA NextItemsNamed == EdgeOK /\ AllKnow /\ ItemsNamed /\ [Next]_vars => ItemsNamed'
<1> SUFFICES ASSUME EdgeOK, AllKnow, ItemsNamed, [Next]_vars, NEW i \in pool'
             PROVE  \E d \in Containers : i.sni \in HostNames(d) /\ Holds(d, i.ip)'
  BY DEF ItemsNamed, Holds, ContainerIsRunning
<1>1. CASE \E j \in pool : j.ip = i.ip /\ j.sni = i.sni
  <2>1. PICK d \in Containers : i.sni \in HostNames(d) /\ Holds(d, i.ip)
    BY <1>1 DEF ItemsNamed
  <2> QED BY <2>1, HoldsStays
<1>2. ASSUME NEW p \in Clis, RegisterInstance(p), i.ip = cli[p].ip,
             i.sni = Norm[TargetName(Instance(p), cli[p].job)]
      PROVE  \E d \in Containers : i.sni \in HostNames(d) /\ Holds(d, i.ip)'
  <2>1. At(p, "register")
    BY <1>2 DEF RegisterInstance
  <2>2. Deploying(p) /\ Instance(p) \in Containers
    BY <2>1, AtTheReplica DEF At, DeployPcs
  <2>3. i.sni \in HostNames(Instance(p))
    BY <1>2, <2>2, ReplicaNamed
  <2>4. Holds(Instance(p), i.ip)
    BY <1>2, <2>1 DEF AllKnow, KnowsAddress, At
  <2>5. PICK d \in Containers : d = Instance(p)
    BY <2>2
  <2>6. Holds(d, i.ip)'
    BY <2>4, <2>5, HoldsStays
  <2> QED BY <2>3, <2>5, <2>6
<1>3. ASSUME NEW p \in Clis, RegisterApp(p), i.ip = cli[p].ip, i.sni = Norm[AppName(cli[p].name)]
      PROVE  \E d \in Containers : i.sni \in HostNames(d) /\ Holds(d, i.ip)'
  <2>1. At(p, "register_app")
    BY <1>3 DEF RegisterApp
  <2>2. PICK d \in Containers : d = cli[p].name
    BY <2>1 DEF EdgeOK, Invocations, CommandOK, At
  <2>3. i.sni \in HostNames(d)
    BY <1>3, <2>2, AppNamed
  <2>4. Holds(d, i.ip)
    BY <1>3, <2>1, <2>2 DEF AllKnow, KnowsAddress, At
  <2> QED BY <2>3, <2>4, HoldsStays
<1> QED BY <1>1, <1>2, <1>3, WhereItemsComeFrom

\* Names and addresses, in every reachable state.
LEMMA NamesCorrect == Spec => [](AllKnow /\ ItemsNamed)
<1>1. Init => AllKnow /\ ItemsNamed
  BY DEF Init, ServerInit, RegistryInit, NewCli, AllKnow, KnowsAddress, ItemsNamed
<1> QED BY <1>1, NextKnow, NextItemsNamed, EdgeOKCorrect, PTL DEF Spec

(***************************************************************************)
(* Deployments beside a discovery.                                         *)
(***************************************************************************)

\* What p has probed, and is about to register, is at the address it knows and
\* serves the port it was given, if it runs.
Tried(p) ==
  LET c == Instance(p)
  IN /\ (cli[p].pc \in {"probe", "register"} /\ ContainerIsRunning(c)) => cli[p].ip = box[c].ip
     /\ (At(p, "register") /\ ContainerIsRunning(c)) => ListensOn[c] = cli[p].job.port

AllTried == \A p \in Clis : Tried(p)

\* A container that runs after a step has been started by it, or is as before.
LEMMA RunsAsBefore ==
  ASSUME EdgeOK, [Next]_vars, NEW c \in Containers, ContainerIsRunning(c)'
  PROVE  box'[c] = box[c] \/ \E q \in Clis : Starts(q, c)
  BY WhatContainersBecome DEF ContainerIsRunning

\* The container of a deployment is started by nobody else.
LEMMA StartsItsOwn ==
  ASSUME NamesApart, EdgeOK, NEW p \in Clis, Deploying(p), NEW q \in Clis, Starts(q, Instance(p))
  PROVE  p = q /\ At(p, "run") /\ cli'[p].pc \in {"inspect", "failed"}
<1>1. /\ DeployStep(q) /\ Instance(p) = Instance(q) /\ At(q, "run")
      /\ Goto(q, "inspect") \/ Goto(q, "failed")
  BY DEF Starts, DeployStep, RunContainer
<1>2. Deploying(q)
  BY <1>1, WhereDeploymentsGo
<1>3. p = q
  BY <1>1, <1>2, OneClaims, TheReplica
<1> QED BY <1>1, <1>3 DEF Goto, EdgeOK, Invocations, CliState

\* Who has come to the probe or to the registration was deploying before.
LEMMA ComesFromDeploying ==
  ASSUME EdgeOK, [Next]_vars, NEW p \in Clis, cli'[p].pc \in {"inspect", "probe", "register", "abort"}
  PROVE  Deploying(p) /\ (cli'[p] = cli[p] \/ DeployStep(p))
<1>1. Deploying(p)'
  BY EdgeOKStays DEF EdgeOK, Invocations, CommandOK, DeployPcs, Deploying
<1>2. Deploying(p)
  <2>1. ASSUME ~Deploying(p) PROVE FALSE
    <3>1. cli'[p].pc \in {"image", "build"}
      BY <1>1, <2>1, DeploymentsBegin
    <3> QED BY <3>1
  <2> QED BY <2>1
<1> QED BY <1>2, DeploymentsRest

\* The steps of a deployment from docker run to the registration.
LEMMA HowDeploymentsGoOn ==
  ASSUME EdgeOK, NEW p \in Clis, DeployStep(p), cli'[p].pc \in {"probe", "register"}
  PROVE  /\ UNCHANGED box /\ Instance(p)' = Instance(p) /\ cli'[p].job = cli[p].job
         /\ \/ /\ Inspect(p) /\ cli'[p].pc = "probe"
               /\ ContainerIsRunning(Instance(p)) /\ cli'[p].ip = box[Instance(p)].ip
            \/ /\ WaitForReadiness(p) /\ cli'[p].pc = "register" /\ cli'[p].ip = cli[p].ip
               /\ At(p, "probe") /\ Serves(cli[p].ip, cli[p].job.port, cli[p].job.path)
<1>0. cli[p] \in CliState(Jobs) /\ cli \in [Clis -> CliState(Jobs)]
  BY DEF EdgeOK, Invocations
<1>1. ASSUME NEW s, Goto(p, s)
      PROVE  /\ cli'[p].pc = s /\ cli'[p].ip = cli[p].ip /\ cli'[p].job = cli[p].job
             /\ Instance(p)' = Instance(p)
  BY <1>0, <1>1 DEF Goto, CliState, Instance
<1>2. CASE Inspect(p)
  <2>1. ~Goto(p, "abort")
    BY <1>1
  <2>2. /\ ContainerIsRunning(Instance(p))
        /\ cli' = [cli EXCEPT ![p].pc = "probe", ![p].ip = box[Instance(p)].ip]
    BY <1>2, <2>1 DEF Inspect, Seen
  <2>3. /\ cli'[p].pc = "probe" /\ cli'[p].ip = box[Instance(p)].ip /\ cli'[p].job = cli[p].job
        /\ Instance(p)' = Instance(p)
    BY <1>0, <2>2 DEF CliState, Instance
  <2> QED BY <1>2, <2>2, <2>3 DEF Inspect, AskOnly, docker
<1>3. CASE WaitForReadiness(p)
  <2>1. ~Goto(p, "abort")
    BY <1>1
  <2>2. PICK ok \in BOOLEAN : /\ Seen(ok, Serves(cli[p].ip, cli[p].job.port, cli[p].job.path))
                              /\ Goto(p, IF ok THEN "register" ELSE "abort")
    BY <1>3 DEF WaitForReadiness
  <2>3. Serves(cli[p].ip, cli[p].job.port, cli[p].job.path) /\ Goto(p, "register")
    BY <2>1, <2>2 DEF Seen
  <2>4. At(p, "probe") /\ UNCHANGED box
    BY <1>3 DEF WaitForReadiness, AskOnly, docker
  <2> QED BY <1>1, <1>3, <2>3, <2>4
<1>4. CASE ~Inspect(p) /\ ~WaitForReadiness(p)
  <2>1. ~NextReplica(p)
    BY <1>0 DEF NextReplica, CliState
  <2>2. PICK s : Leads(p, s)
    BY <1>4, <2>1, WaysToGo
  <2> QED BY <1>1, <1>4, <2>2 DEF Leads
<1> QED BY <1>2, <1>3, <1>4

\* What has been probed stays true until it is registered.
LEMMA NextTried ==
  ASSUME NamesApart
  PROVE  EdgeOK /\ OwnAddresses /\ AllTried /\ [Next]_vars => AllTried'
<1> SUFFICES ASSUME EdgeOK, OwnAddresses, AllTried, [Next]_vars, NEW p \in Clis,
                    cli'[p].pc \in {"probe", "register"}, ContainerIsRunning(Instance(p))'
             PROVE  /\ cli'[p].ip = (box[Instance(p)].ip)'
                    /\ cli'[p].pc = "register" => (ListensOn[Instance(p)] = cli[p].job.port)'
  BY DEF AllTried, Tried, At
<1>1. Deploying(p) /\ (cli'[p] = cli[p] \/ DeployStep(p)) /\ Tried(p)
  BY ComesFromDeploying DEF AllTried
<1>2. Instance(p) \in Containers
  BY <1>1, TheReplica
<1>3. CASE cli'[p] = cli[p]
  <2>1. Instance(p)' = Instance(p)
    BY <1>3 DEF Instance
  <2>2. ASSUME NEW c \in Containers, c = Instance(p) PROVE box'[c] = box[c]
    <3>1. ContainerIsRunning(c)'
      BY <2>1, <2>2 DEF ContainerIsRunning
    <3>2. ASSUME NEW q \in Clis, Starts(q, c) PROVE FALSE
      BY <1>1, <1>3, <2>2, <3>2, StartsItsOwn DEF At
    <3> QED BY <3>1, <3>2, RunsAsBefore
  <2>3. box'[Instance(p)] = box[Instance(p)] /\ ContainerIsRunning(Instance(p))
    BY <1>2, <2>1, <2>2 DEF ContainerIsRunning
  <2> QED BY <1>1, <1>3, <2>1, <2>3 DEF Tried, At
<1>4. CASE DeployStep(p)
  <2>1. /\ UNCHANGED box /\ Instance(p)' = Instance(p) /\ cli'[p].job = cli[p].job
        /\ \/ /\ Inspect(p) /\ cli'[p].pc = "probe"
              /\ ContainerIsRunning(Instance(p)) /\ cli'[p].ip = box[Instance(p)].ip
           \/ /\ WaitForReadiness(p) /\ cli'[p].pc = "register" /\ cli'[p].ip = cli[p].ip
              /\ At(p, "probe") /\ Serves(cli[p].ip, cli[p].job.port, cli[p].job.path)
    BY <1>4, HowDeploymentsGoOn
  <2>2. CASE cli'[p].pc = "probe"
    BY <2>1, <2>2
  <2>3. CASE cli'[p].pc = "register"
    <3>1. ContainerIsRunning(Instance(p)) /\ At(p, "probe")
      BY <2>1, <2>3 DEF ContainerIsRunning
    <3>2. cli[p].ip = box[Instance(p)].ip
      BY <1>1, <3>1 DEF Tried, At
    <3>3. Serves(box[Instance(p)].ip, cli[p].job.port, cli[p].job.path)
      BY <2>1, <2>3, <3>2
    <3>4. ASSUME NEW c \in Containers, c = Instance(p) PROVE ListensOn[c] = cli[p].job.port
      <4>1. Serves(box[c].ip, cli[p].job.port, cli[p].job.path)
        BY <3>3, <3>4
      <4>2. ListensAt(c, box[c].ip, cli[p].job.port)
        BY <4>1, ServesItself
      <4> QED BY <4>2 DEF ListensAt
    <3> QED BY <1>2, <2>1, <2>3, <3>2, <3>4
  <2> QED BY <2>1, <2>2, <2>3
<1> QED BY <1>1, <1>3, <1>4

(***************************************************************************)
(* A discovery.                                                            *)
(***************************************************************************)

\* The list has it, under its name or that of one which is gone.
Listed(c) ==
  \E i \in pool : /\ i.ip = box[c].ip /\ i.port = DiscoverPort
                  /\ \E d \in gone \cup {c} : i.sni \in HostNames(d)

\* The discovery p is about to register it, when a path it has not tried answers.
AtHand(p, c) ==
  /\ cli[p].pc \in {"probe_app", "register_app"} /\ cli[p].name = c /\ cli[p].ip = box[c].ip
  /\ At(p, "probe_app") =>
       \E k \in DOMAIN HealthProbePaths : k >= cli[p].at /\ HealthProbePaths[k] \in Answers[c]

\* The deployment p has started it, and will register or remove it.
InHand(p, c) == cli[p].pc \in {"inspect", "probe", "register", "abort"} /\ c = Instance(p)

Covered(p, c) ==
  \/ At(p, "ps") \/ c \in cli[p].todo \/ AtHand(p, c)
  \/ Listed(c) \/ \E q \in Clis : InHand(q, c)

\* A discovery that nothing has failed since it began.
Current(p) ==
  /\ (cli[p].pc \in ScanPcs /\ cli[p].since = outages /\ faults = 0) =>
       server = "serving" /\ \A c \in Containers : Discoverable(c) => Covered(p, c)
  /\ At(p, "discovered") => cli[p].todo = {}
  /\ cli[p].since <= outages

AllCurrent == \A p \in Clis : Current(p)

\* A server that serves does so until the next outage.
LEMMA KeepsServing ==
  ASSUME EdgeOK, [Next]_vars, outages' = outages, server = "serving"
  PROVE  server' = "serving"
<1>1. outages \in Nat
  BY CountsGrow
<1>2. CASE \E p \in Clis : CliStep(p)
  BY <1>2, CallsCount
<1>3. CASE DieStep \/ ServerStep \/ PurgeStep \/ WatchStep \/ UNCHANGED vars
  BY <1>1, <1>3 DEF DieStep, ServerStep, StopServer, StartServer, Outage, PurgeStep, WatchStep,
                    HandleEvent, vars, client
<1> QED BY <1>2, <1>3 DEF Next

\* What is listed stays so, as long as the container stays where it is.
LEMMA ListedStays ==
  ASSUME NEW c, Listed(c), box'[c] = box[c], pool \subseteq pool', gone \subseteq gone'
  PROVE  Listed(c)'
  BY DEF Listed

\* A deployment passes its container on to the list, or keeps it in hand.
LEMMA HandedOn ==
  ASSUME EdgeOK, [Next]_vars, AllTried, NEW p \in Clis, NEW c \in Containers, InHand(p, c),
         ContainerIsRunning(c), ContainerIsRunning(c)', ListensOn[c] = DiscoverPort,
         faults' = faults
  PROVE  InHand(p, c)' \/ Listed(c)'
<1>0. /\ cli[p] \in CliState(Jobs) /\ cli \in [Clis -> CliState(Jobs)]
      /\ Deploying(p) /\ c = Instance(p)
  BY AtTheReplica DEF EdgeOK, Invocations, InHand, DeployPcs
<1>1. ASSUME NEW s \in {"inspect", "probe", "register", "abort"}, Goto(p, s)
      PROVE  InHand(p, c)'
  <2>1. cli'[p].pc = s /\ Instance(p)' = Instance(p)
    BY <1>0, <1>1 DEF Goto, CliState, Instance
  <2> QED BY <1>0, <2>1 DEF InHand
<1>2. CASE cli'[p] = cli[p]
  BY <1>2 DEF InHand, Instance
<1>3. CASE DeployStep(p)
  <2>1. CASE Inspect(p)
    <3>1. CASE cli' = [cli EXCEPT ![p].pc = "probe", ![p].ip = box[Instance(p)].ip]
      <4>1. cli'[p].pc = "probe" /\ Instance(p)' = Instance(p)
        BY <1>0, <3>1 DEF CliState, Instance
      <4> QED BY <1>0, <4>1 DEF InHand
    <3> QED BY <1>1, <2>1, <3>1 DEF Inspect
  <2>2. CASE WaitForReadiness(p)
    BY <1>1, <2>2 DEF WaitForReadiness
  <2>3. CASE RegisterInstance(p)
    <3>1. CASE Goto(p, "abort")
      BY <1>1, <3>1
    <3>2. CASE ~Goto(p, "abort")
      <4>1. RegisterTarget(p, TRUE) /\ At(p, "register") /\ UNCHANGED box
        BY <1>0, <1>1, <2>3, <3>2 DEF RegisterInstance, ApiOnly, docker
      <4>2. Add(NextId, cli[p].ip, cli[p].job.port, TargetName(c, cli[p].job))
        BY <1>0, <4>1 DEF RegisterTarget, RegisterUpstream
      <4>3. cli[p].ip = box[c].ip /\ cli[p].job.port = DiscoverPort
        BY <1>0, <4>1 DEF AllTried, Tried, At
      <4> DEFINE new == NewItem(NextId, cli[p].ip, cli[p].job.port, TargetName(c, cli[p].job))
      <4>4. new \in pool'
        BY <4>2 DEF Add
      <4>5. /\ new.ip = cli[p].ip /\ new.port = cli[p].job.port
            /\ new.sni = Norm[TargetName(c, cli[p].job)]
        BY DEF NewItem
      <4> HIDE DEF new
      <4>6. new.sni \in HostNames(c)
        BY <1>0, <4>5, ReplicaNamed
      <4> QED BY <4>1, <4>3, <4>4, <4>5, <4>6 DEF Listed
    <3> QED BY <3>1, <3>2
  <2>4. CASE Abort(p)
    <3>1. faults \in Nat /\ c \in Containers
      BY <1>0, CountsGrow
    <3>2. box' = [box EXCEPT ![c] = Absent]
      BY <1>0, <2>4, <3>1, StopsOne DEF Abort, Fault
    <3> QED BY <3>1, <3>2 DEF ContainerIsRunning, Absent, EdgeOK, DockerTypeOK
  <2>5. CASE ~Inspect(p) /\ ~WaitForReadiness(p) /\ ~RegisterInstance(p) /\ ~Abort(p)
    BY <1>3, <2>5
       DEF DeployStep, FindImage, LoginToRegistry, PullImage, BuildImage, CheckRunning,
           CheckExists, CheckStopped, Cleanup, FindNetwork, CreateNetwork, RunContainer, At, InHand
  <2> QED BY <2>1, <2>2, <2>3, <2>4, <2>5
<1> QED BY <1>0, <1>2, <1>3, DeploymentsRest

\* A discovery tries four paths.
LEMMA ProbesAre == DOMAIN HealthProbePaths = 1..4 /\ Len(HealthProbePaths) = 4
  BY DEF HealthProbePaths

\* A discovered container has a name.
LEMMA AppNotBlank ==
  ASSUME NEW c \in Containers
  PROVE  Norm[AppName(c)] # Blank
<1>1. Lower[c] \in Containers /\ DefaultSuffix \in Suffixes
  BY FlagsAssumption
<1>2. Norm[Hostname[Lower[c], DefaultSuffix]] # Blank
  BY <1>1, HostnameAssumption, Zenon
<1> QED BY <1>2, Zenon DEF AppName

\* A discovery that registers an app finds it in the list, unless it has put it
\* there: the only refusal left is that the address is taken.
LEMMA DiscoveryLists ==
  ASSUME EdgeOK, OwnAddresses, ItemsNamed, NEW p \in Clis, RegisterApp(p),
         NEW c \in Containers, AtHand(p, c), Discoverable(c),
         server = "serving", faults' = faults, gone \subseteq gone'
  PROVE  Listed(c)'
<1>0. faults \in Nat /\ cli[p].ip = box[c].ip /\ cli[p].name = c /\ UNCHANGED box
  BY ClientAssumption DEF EdgeOK, ClientOK, ServerTypeOK, AtHand, RegisterApp, ApiOnly, docker
<1>1. PICK ok \in BOOLEAN : RegisterUpstream(box[c].ip, DiscoverPort, AppName(c), "rooted", ok)
  BY <1>0 DEF RegisterApp
<1>2. ValidRegistration(box[c].ip, DiscoverPort, AppName(c), "rooted")
  BY AppNotBlank, DiscoverAssumption DEF ValidRegistration, Discoverable, ListensAt, ParsedIps
<1>3. CASE Add(NextId, box[c].ip, DiscoverPort, AppName(c))
  <2> DEFINE new == NewItem(NextId, box[c].ip, DiscoverPort, AppName(c))
  <2>1. new \in pool'
    BY <1>3 DEF Add
  <2>2. new.ip = box[c].ip /\ new.port = DiscoverPort /\ new.sni = Norm[AppName(c)]
    BY DEF NewItem
  <2> HIDE DEF new
  <2>3. new.sni \in HostNames(c)
    BY <2>2, AppNamed
  <2> QED BY <1>0, <2>1, <2>2, <2>3 DEF Listed
<1>4. CASE /\ Duplicate(pool, box[c].ip, DiscoverPort)
           /\ UNCHANGED pool
  <2>1. PICK i \in pool : i.ip = box[c].ip /\ i.port = DiscoverPort
    BY <1>4 DEF Duplicate
  <2>2. PICK d \in Containers : i.sni \in HostNames(d) /\ Holds(d, i.ip)
    BY DEF ItemsNamed
  <2>3. d \in gone \/ d = c
    <3>1. box[c].ip # None
      BY UpstreamsAssumption DEF Discoverable, ListensAt
    <3> QED BY <2>1, <2>2, <3>1 DEF Holds, OwnAddresses
  <2> QED BY <1>0, <1>4, <2>1, <2>2, <2>3 DEF Listed
<1>5. ASSUME Refused(\/ ~ValidRegistration(box[c].ip, DiscoverPort, AppName(c), "rooted")
                     \/ Duplicate(pool, box[c].ip, DiscoverPort))
      PROVE  Duplicate(pool, box[c].ip, DiscoverPort) /\ UNCHANGED pool
  BY <1>0, <1>2, <1>5 DEF Refused, Fault, Reachable
<1> QED BY <1>1, <1>3, <1>4, <1>5 DEF RegisterUpstream

\* A discovery passes what it looks at from its list to the list of upstreams.
LEMMA DiscoveryGoesOn ==
  ASSUME EdgeOK, OwnAddresses, ItemsNamed, NEW p \in Clis, DiscoverNext(p), ~At(p, "start"),
         NEW c \in Containers, Discoverable(c),
         At(p, "ps") \/ c \in cli[p].todo \/ AtHand(p, c),
         server = "serving", faults' = faults, gone \subseteq gone'
  PROVE  c \in cli'[p].todo \/ AtHand(p, c)' \/ Listed(c)'
<1>0. /\ cli[p] \in CliState(Jobs) /\ cli \in [Clis -> CliState(Jobs)]
      /\ faults \in Nat /\ cli[p].at \in Nat
      /\ box[c].ip # None
  BY ClientAssumption, UpstreamsAssumption
     DEF EdgeOK, Invocations, CliState, ClientOK, ServerTypeOK, Discoverable, ListensAt
<1>1. ContainerIsRunning(c)
  BY <1>0 DEF OwnAddresses
<1>2. ASSUME NEW s, Goto(p, s)
      PROVE  /\ cli'[p].pc = s /\ cli'[p].todo = cli[p].todo
             /\ cli'[p].name = cli[p].name /\ cli'[p].ip = cli[p].ip
  BY <1>0, <1>2 DEF Goto, CliState
<1>3. CASE InspectApp(p)
  <2>0. UNCHANGED box /\ At(p, "scan") /\ c \in cli[p].todo
    BY <1>3 DEF InspectApp, AskOnly, docker, At, AtHand
  <2>1. PICK d \in cli[p].todo :
          \/ cli' = [cli EXCEPT ![p].pc = "probe_app", ![p].name = d, ![p].ip = box[d].ip,
                                ![p].at = 1, ![p].todo = @ \ {d}]
          \/ /\ ~ContainerIsRunning(d)
             /\ cli' = [cli EXCEPT ![p].todo = @ \ {d}]
    <3>1. ~Fault
      BY <1>0 DEF Fault
    <3> QED BY <1>3, <3>1 DEF InspectApp, Seen
  <2>2. cli'[p].todo = cli[p].todo \ {d}
    BY <1>0, <2>1 DEF CliState
  <2>3. CASE d = c
    <3>1. /\ cli'[p].pc = "probe_app" /\ cli'[p].name = c /\ cli'[p].ip = box[c].ip
          /\ cli'[p].at = 1
      BY <1>0, <1>1, <2>1, <2>3 DEF CliState
    <3>2. PICK k \in DOMAIN HealthProbePaths : HealthProbePaths[k] \in Answers[c]
      BY DEF Discoverable
    <3>3. k >= 1
      BY ProbesAre
    <3> QED BY <2>0, <3>1, <3>2, <3>3 DEF AtHand
  <2> QED BY <2>0, <2>2, <2>3
<1>4. CASE ProbeHealthEndpoint(p)
  <2> DEFINE path    == HealthProbePaths[cli[p].at]
             answers == ExecWorks /\ Serves(cli[p].ip, DiscoverPort, path)
  <2>0. UNCHANGED box /\ At(p, "probe_app")
    BY <1>4 DEF ProbeHealthEndpoint, AskOnly, docker
  <2>1. \/ answers /\ Goto(p, "register_app")
        \/ /\ ~answers
           /\ IF cli[p].at < Len(HealthProbePaths)
                THEN cli' = [cli EXCEPT ![p].at = @ + 1] ELSE Goto(p, "scan")
    BY <1>0, <1>4 DEF ProbeHealthEndpoint, Seen, Fault
  <2>2. CASE AtHand(p, c)
    <3>1. PICK k \in 1..4 : k >= cli[p].at /\ HealthProbePaths[k] \in Answers[c]
      BY <2>0, <2>2, ProbesAre DEF AtHand
    <3>2. answers <=> path \in Answers[c]
      BY <2>2, ServesItself DEF AtHand, Discoverable, ExecWorks
    <3> HIDE DEF answers
    <3>3. CASE Goto(p, "register_app")
      BY <1>2, <2>0, <2>2, <3>3 DEF AtHand, At
    <3>4. CASE ~answers /\ ~Goto(p, "register_app")
      <4>1. k >= cli[p].at + 1
        <5>1. k # cli[p].at
          BY <3>1, <3>2, <3>4
        <5> QED BY <1>0, <3>1, <5>1
      <4>2. cli' = [cli EXCEPT ![p].at = @ + 1]
        BY <1>0, <2>1, <3>4, <4>1, ProbesAre
      <4>3. /\ cli'[p].pc = "probe_app" /\ cli'[p].name = c /\ cli'[p].ip = box[c].ip
            /\ cli'[p].at = cli[p].at + 1
        BY <1>0, <2>0, <2>2, <4>2 DEF CliState, AtHand, At
      <4> QED BY <2>0, <3>1, <4>1, <4>3, ProbesAre DEF AtHand
    <3> QED BY <2>1, <3>3, <3>4
  <2>3. CASE c \in cli[p].todo
    <3>1. CASE cli' = [cli EXCEPT ![p].at = @ + 1]
      BY <1>0, <2>3, <3>1 DEF CliState
    <3> QED BY <1>2, <2>1, <2>3, <3>1
  <2> QED BY <2>0, <2>2, <2>3 DEF At
<1>5. CASE RegisterApp(p)
  <2>1. CASE AtHand(p, c)
    BY <1>5, <2>1, DiscoveryLists
  <2>2. CASE c \in cli[p].todo
    BY <1>2, <1>5, <2>2 DEF RegisterApp
  <2> QED BY <1>5, <2>1, <2>2 DEF RegisterApp, At
<1>6. CASE FinishDiscover(p)
  BY <1>6 DEF FinishDiscover, At, AtHand
<1>7. ~StartDiscover(p)
  BY DEF StartDiscover
<1>8. CASE ListRunningContainers(p)
  <2> DEFINE found == {d \in Containers \ Platform : ContainerIsRunning(d)}
  <2>1. cli' = [cli EXCEPT ![p].pc = "scan", ![p].todo = found]
    BY <1>0, <1>8 DEF ListRunningContainers, Fault
  <2>2. c \in found
    BY <1>1 DEF Discoverable
  <2> HIDE DEF found
  <2>3. cli'[p].todo = found
    BY <1>0, <2>1 DEF CliState
  <2> QED BY <2>2, <2>3
<1> QED BY <1>3, <1>4, <1>5, <1>6, <1>7, <1>8 DEF DiscoverNext

\* The outages a discovery remembers are those there were, and an invocation
\* that has begun keeps its flags.
LEMMA SinceStays ==
  ASSUME EdgeOK, NEW p \in Clis, CliStep(p)
  PROVE  /\ cli'[p].since \in {0, cli[p].since, outages}
         /\ ~At(p, "start") => cli'[p].job = cli[p].job
<1>0. cli[p] \in CliState(Jobs) /\ cli \in [Clis -> CliState(Jobs)]
  BY DEF EdgeOK, Invocations
<1>1. ASSUME NEW s, Goto(p, s) PROVE cli'[p].since = cli[p].since /\ cli'[p].job = cli[p].job
  BY <1>0, <1>1 DEF Goto, CliState
<1>2. CASE StartDeploy(p)
  <2>1. CASE \E a \in Deployments[p] : \E base \in BaseNames(a) :
               cli' = [cli EXCEPT ![p] = [NewCli EXCEPT
                         !.pc = IF a.image # None THEN "image" ELSE "build", !.job = a,
                         !.names = InstanceNames(a, base), !.tag = ImageTag(a, base)]]
    BY <1>0, <1>2, <2>1 DEF NewCli, StartDeploy
  <2> QED BY <1>1, <1>2, <2>1 DEF StartDeploy
<1>3. CASE DeployNext(p) /\ ~StartDeploy(p)
  <2>1. CASE Inspect(p)
    <3>1. \/ cli' = [cli EXCEPT ![p].pc = "probe", ![p].ip = box[Instance(p)].ip]
          \/ Goto(p, "abort")
      BY <2>1 DEF Inspect
    <3>2. CASE Goto(p, "abort")
      BY <1>1, <3>2
    <3> QED BY <1>0, <3>1, <3>2 DEF CliState
  <2>2. CASE NextReplica(p)
    BY <1>0, <2>2 DEF NextReplica, CliState
  <2>3. DeployStep(p)
    BY <1>3 DEF DeployNext, DeployStep
  <2> QED BY <1>1, <2>1, <2>2, <2>3, WaysToGo DEF Leads
<1>4. CASE DeregisterNext(p)
  <2>1. CASE StartDeregister(p)
    BY <1>0, <2>1 DEF StartDeregister, NewCli
  <2>2. CASE ResolveTarget(p)
    <3>1. \/ cli' = [cli EXCEPT ![p].pc = "evict", ![p].ip = box[cli[p].name].ip]
          \/ Goto(p, "failed")
      BY <2>2 DEF ResolveTarget
    <3>2. CASE Goto(p, "failed")
      BY <1>1, <3>2
    <3> QED BY <1>0, <3>1, <3>2 DEF CliState
  <2>3. CASE FindTarget(p)
    <3>1. \/ \E c \in NamesForIp(cli[p].ip) :
               cli' = [cli EXCEPT ![p].pc = "stop", ![p].name = c]
          \/ \E s \in {"stop", "evicted"} : Goto(p, s)
      BY <2>3 DEF FindTarget
    <3>2. CASE \E s \in {"stop", "evicted"} : Goto(p, s)
      BY <1>1, <3>2
    <3> QED BY <1>0, <3>1, <3>2 DEF CliState
  <2> QED BY <1>1, <1>4, <2>1, <2>2, <2>3
          DEF DeregisterNext, EvictTarget, WaitForBackendDrain, StopTarget
<1>5. CASE DiscoverNext(p) \/ ListNext(p)
  <2>1. CASE At(p, "start") /\ cli' = [cli EXCEPT ![p] = Scanning]
    BY <1>0, <2>1 DEF Scanning, NewCli
  <2>2. CASE InspectApp(p)
    <3>1. PICK c \in cli[p].todo :
            \/ cli' = [cli EXCEPT ![p].pc = "probe_app", ![p].name = c, ![p].ip = box[c].ip,
                                  ![p].at = 1, ![p].todo = @ \ {c}]
            \/ cli' = [cli EXCEPT ![p].todo = @ \ {c}]
      BY <2>2 DEF InspectApp
    <3> QED BY <1>0, <3>1 DEF CliState
  <2>3. CASE ListRunningContainers(p)
    <3> DEFINE found == {c \in Containers \ Platform : ContainerIsRunning(c)}
    <3>1. CASE cli' = [cli EXCEPT ![p].pc = "scan", ![p].todo = found]
      <4> HIDE DEF found
      <4> QED BY <1>0, <3>1 DEF CliState
    <3> QED BY <1>1, <2>3, <3>1 DEF ListRunningContainers
  <2>4. CASE ProbeHealthEndpoint(p)
    <3>1. CASE cli' = [cli EXCEPT ![p].at = @ + 1]
      BY <1>0, <3>1 DEF CliState
    <3> QED BY <1>1, <2>4, <3>1 DEF ProbeHealthEndpoint
  <2> QED BY <1>1, <1>5, <2>1, <2>2, <2>3, <2>4
          DEF DiscoverNext, StartDiscover, RegisterApp, FinishDiscover, ListNext
<1> QED BY <1>2, <1>3, <1>4, <1>5 DEF CliStep

\* A discovery has looked at everything when it ends.
LEMMA DiscoveryEnds ==
  ASSUME NoEvictions, EdgeOK, NEW p \in Clis, CliStep(p), cli'[p].pc \in ScanPcs
  PROVE  /\ DiscoverNext(p)
         /\ At(p, "start") => /\ cli' = [cli EXCEPT ![p] = Scanning]
                              /\ server = "serving" /\ faults' = faults
         /\ ~At(p, "start") => cli[p].pc \in ScanPcs /\ cli'[p].since = cli[p].since
         /\ cli'[p].pc = "discovered" => cli'[p].todo = {}
<1>0. cli[p] \in CliState(Jobs) /\ cli \in [Clis -> CliState(Jobs)]
  BY DEF EdgeOK, Invocations
<1>1. ASSUME NEW s, Goto(p, s)
      PROVE  cli'[p].pc = s /\ cli'[p].todo = cli[p].todo /\ cli'[p].since = cli[p].since
  BY <1>0, <1>1 DEF Goto, CliState
<1>2. ~DeployNext(p)
  BY DeployPlaces DEF EdgeOK, DeployPcs, ScanPcs
<1>3. ~ListNext(p)
  BY <1>1 DEF ListNext, ScanPcs
<1>4. DiscoverNext(p)
  BY <1>2, <1>3 DEF CliStep, NoEvictions
<1>5. CASE StartDiscover(p)
  <2>1. PICK ok \in BOOLEAN :
          /\ CheckApiServerHealth(ok)
          /\ IF ok THEN cli' = [cli EXCEPT ![p] = Scanning] ELSE Goto(p, "failed")
    BY <1>5 DEF StartDiscover
  <2>2. ok
    BY <1>1, <2>1 DEF ScanPcs
  <2>3. server = "serving" /\ faults' = faults /\ At(p, "start")
    BY <1>5, <2>1, <2>2 DEF CheckApiServerHealth, Reachable, NoFault, StartDiscover
  <2>4. cli'[p].pc = "ps"
    BY <1>0, <2>1, <2>2 DEF Scanning, NewCli
  <2> QED BY <1>4, <2>1, <2>2, <2>3, <2>4
<1>6. CASE InspectApp(p)
  <2>1. PICK c \in cli[p].todo :
          \/ cli' = [cli EXCEPT ![p].pc = "probe_app", ![p].name = c, ![p].ip = box[c].ip,
                                ![p].at = 1, ![p].todo = @ \ {c}]
          \/ cli' = [cli EXCEPT ![p].todo = @ \ {c}]
    BY <1>6 DEF InspectApp
  <2>2. At(p, "scan")
    BY <1>6 DEF InspectApp
  <2>3. cli'[p].pc \in {"scan", "probe_app"} /\ cli'[p].since = cli[p].since
    BY <1>0, <2>1, <2>2 DEF CliState, At
  <2> QED BY <1>4, <2>2, <2>3 DEF At, ScanPcs
<1>7. CASE ProbeHealthEndpoint(p) \/ RegisterApp(p)
  <2>1. CASE cli' = [cli EXCEPT ![p].at = @ + 1]
    <3>1. cli'[p].pc = cli[p].pc /\ cli'[p].since = cli[p].since
      BY <1>0, <2>1 DEF CliState
    <3> QED BY <1>4, <1>7, <3>1 DEF ProbeHealthEndpoint, RegisterApp, At, ScanPcs
  <2>2. CASE Goto(p, "register_app") \/ Goto(p, "scan")
    <3>1. cli'[p].pc \in {"register_app", "scan"} /\ cli'[p].since = cli[p].since
      BY <1>1, <2>2
    <3>2. cli[p].pc \in {"probe_app", "register_app"}
      BY <1>7 DEF ProbeHealthEndpoint, RegisterApp, At
    <3> QED BY <1>4, <3>1, <3>2 DEF At, ScanPcs
  <2> QED BY <1>7, <2>1, <2>2 DEF ProbeHealthEndpoint, RegisterApp
<1>8. CASE FinishDiscover(p)
  BY <1>1, <1>4, <1>8 DEF FinishDiscover, At, ScanPcs
<1>9. CASE ListRunningContainers(p)
  <2> DEFINE found == {c \in Containers \ Platform : ContainerIsRunning(c)}
  <2>1. cli' = [cli EXCEPT ![p].pc = "scan", ![p].todo = found]
    BY <1>1, <1>9 DEF ListRunningContainers, ScanPcs
  <2> HIDE DEF found
  <2>2. cli'[p].pc = "scan" /\ cli'[p].since = cli[p].since
    BY <1>0, <2>1 DEF CliState
  <2> QED BY <1>4, <1>9, <2>2 DEF ListRunningContainers, At, ScanPcs
<1> QED BY <1>4, <1>5, <1>6, <1>7, <1>8, <1>9 DEF DiscoverNext

\* Everything a current discovery looks for stays covered.
LEMMA NextCovered ==
  ASSUME NamesApart, NoEvictions, EdgeOK, NoneDraining, OwnAddresses, OwnAddresses', ItemsNamed,
         AllTried, AllCurrent, [Next]_vars, NEW p \in Clis, NEW c \in Containers,
         cli'[p].pc \in ScanPcs, cli'[p].since = outages', faults' = 0, Discoverable(c)'
  PROVE  server' = "serving" /\ Covered(p, c)'
<1>0. /\ faults \in Nat /\ faults' \in Nat /\ faults' >= faults
      /\ outages \in Nat /\ outages' \in Nat /\ outages' >= outages
      /\ cli[p] \in CliState(Jobs) /\ cli \in [Clis -> CliState(Jobs)]
  BY CountsGrow DEF EdgeOK, Invocations
<1>1. ContainerIsRunning(c)'
  <2>1. box'[c].ip # None
    BY UpstreamsAssumption DEF Discoverable, ListensAt
  <2> QED BY <2>1 DEF OwnAddresses, ContainerIsRunning
<1>2. ASSUME NEW q \in Clis, Starts(q, c) PROVE InHand(q, c)'
  <2>1. Goto(q, "inspect") /\ c = Instance(q)
    BY <1>0, <1>2 DEF Starts, Fault
  <2>2. cli'[q].pc = "inspect" /\ c = Instance(q)'
    BY <2>1 DEF Goto, CliState, Instance, EdgeOK, Invocations
  <2> QED BY <2>2 DEF InHand
<1>3. faults = 0
  BY <1>0
<1>4. gone \subseteq gone'
  BY GoneGrows
<1>5. CASE CliStep(p) /\ At(p, "start")
  <2>1. DiscoverNext(p) /\ cli' = [cli EXCEPT ![p] = Scanning] /\ server = "serving"
    BY <1>5, DiscoveryEnds
  <2>2. cli'[p].pc = "ps"
    BY <1>0, <2>1 DEF Scanning, NewCli
  <2>3. server' = "serving"
    BY <1>5, <2>1, CallsCount
  <2> QED BY <2>2, <2>3 DEF Covered, At
<1>6. CASE cli'[p] = cli[p] \/ (CliStep(p) /\ DiscoverNext(p) /\ ~At(p, "start"))
  <2>1. cli[p].pc \in ScanPcs /\ cli'[p].since = cli[p].since
    BY <1>6, DiscoveryEnds
  <2>2. outages' = outages /\ cli[p].since = outages
    BY <1>0, <2>1 DEF AllCurrent, Current
  <2>3. /\ server = "serving"
        /\ Discoverable(c) => Covered(p, c)
    BY <1>3, <2>1, <2>2 DEF AllCurrent, Current
  <2>4. server' = "serving" /\ pool \subseteq pool'
    BY <2>2, <2>3, KeepsServing, PoolGrows
  <2>5. CASE \E q \in Clis : Starts(q, c)
    BY <1>2, <2>4, <2>5 DEF Covered
  <2>6. CASE box'[c] = box[c]
    <3>1. Discoverable(c) /\ ContainerIsRunning(c) /\ ListensOn[c] = DiscoverPort
      BY <1>1, <2>6 DEF Discoverable, ListensAt, ContainerIsRunning
    <3>2. CASE At(p, "ps") \/ c \in cli[p].todo \/ AtHand(p, c)
      <4>1. CASE cli'[p] = cli[p]
        BY <2>4, <2>6, <3>2, <4>1 DEF Covered, AtHand, At
      <4>2. CASE CliStep(p) /\ DiscoverNext(p) /\ ~At(p, "start")
        <5>1. c \in cli'[p].todo \/ AtHand(p, c)' \/ Listed(c)'
          BY <1>0, <1>3, <1>4, <2>3, <3>1, <3>2, <4>2, DiscoveryGoesOn
        <5> QED BY <2>4, <5>1 DEF Covered
      <4> QED BY <1>6, <4>1, <4>2
    <3>3. CASE Listed(c)
      <4>1. Listed(c)'
        BY <1>4, <2>4, <2>6, <3>3, ListedStays
      <4> QED BY <2>4, <4>1 DEF Covered
    <3>4. CASE \E q \in Clis : InHand(q, c)
      <4>1. PICK q \in Clis : InHand(q, c)
        BY <3>4
      <4>2. InHand(q, c)' \/ Listed(c)'
        BY <1>0, <1>1, <1>3, <3>1, <4>1, HandedOn
      <4> QED BY <2>4, <4>2 DEF Covered
    <3> QED BY <2>3, <2>4, <3>1, <3>2, <3>3, <3>4 DEF Covered
  <2> QED BY <1>1, <2>5, <2>6, RunsAsBefore
<1>7. cli'[p] = cli[p] \/ (CliStep(p) /\ (At(p, "start") \/ DiscoverNext(p)))
  BY WhoMoves, DiscoveryEnds
<1> QED BY <1>5, <1>6, <1>7

\* A current discovery stays current, until something fails.
LEMMA NextCurrent ==
  ASSUME NamesApart, NoEvictions
  PROVE  /\ EdgeOK /\ NoneDraining /\ OwnAddresses /\ OwnAddresses' /\ ItemsNamed /\ AllTried
         /\ AllCurrent /\ [Next]_vars
         => AllCurrent'
<1> SUFFICES ASSUME EdgeOK, NoneDraining, OwnAddresses, OwnAddresses', ItemsNamed, AllTried,
                    AllCurrent, [Next]_vars, NEW p \in Clis
             PROVE  Current(p)'
  BY DEF AllCurrent
<1>1. (cli'[p].pc \in ScanPcs /\ cli'[p].since = outages' /\ faults' = 0) =>
        server' = "serving" /\ \A c \in Containers : Discoverable(c)' => Covered(p, c)'
  <2> SUFFICES ASSUME cli'[p].pc \in ScanPcs, cli'[p].since = outages', faults' = 0
               PROVE  server' = "serving" /\ \A c \in Containers : Discoverable(c)' => Covered(p, c)'
    OBVIOUS
  <2>1. \A c \in Containers : Discoverable(c)' => server' = "serving" /\ Covered(p, c)'
    BY NextCovered
  <2>2. server' = "serving"
    <3>1. CASE cli'[p] = cli[p]
      <4>1. cli[p].since = outages /\ outages' = outages /\ faults = 0
        BY <3>1, CountsGrow DEF AllCurrent, Current
      <4> QED BY <3>1, <4>1, KeepsServing DEF AllCurrent, Current
    <3>2. CASE cli'[p] # cli[p] /\ At(p, "start")
      BY <3>2, WhoMoves, DiscoveryEnds, CallsCount
    <3>3. CASE cli'[p] # cli[p] /\ ~At(p, "start")
      <4>1. cli[p].pc \in ScanPcs /\ cli'[p].since = cli[p].since
        BY <3>3, WhoMoves, DiscoveryEnds
      <4>2. cli[p].since = outages /\ outages' = outages /\ faults = 0
        BY <4>1, CountsGrow DEF AllCurrent, Current
      <4> QED BY <4>1, <4>2, KeepsServing DEF AllCurrent, Current
    <3> QED BY <3>1, <3>2, <3>3
  <2> QED BY <2>1, <2>2
<1>2. cli'[p].pc = "discovered" => cli'[p].todo = {}
  BY WhoMoves, DiscoveryEnds DEF AllCurrent, Current, At, ScanPcs
<1>3. cli'[p].since <= outages'
  <2>1. /\ cli[p].since \in Nat /\ cli[p].since <= outages
        /\ outages \in Nat /\ outages' \in Nat /\ outages' >= outages
    BY CountsGrow DEF EdgeOK, Invocations, CliState, AllCurrent, Current
  <2>2. cli'[p].since \in {0, cli[p].since, outages}
    BY WhoMoves, SinceStays
  <2> QED BY <2>1, <2>2
<1> QED BY <1>1, <1>2, <1>3 DEF Current, At

\* A discovery that reports success has brought back every running container
\* it looks for, that is neither the platform's own nor deaf to every path it
\* tries, whatever the server and the containers went through before it began,
\* beside any number of deployments with names of their own and of other
\* discoveries, as long as nobody deregisters.
THEOREM DiscoveryRegistersAllCorrect ==
  ASSUME NamesApart, NoEvictions
  PROVE  Spec => []DiscoveryRegistersAll
<1>1. Init => NoneDraining /\ AllTried /\ AllCurrent
  <2> SUFFICES ASSUME Init PROVE NoneDraining /\ AllTried /\ AllCurrent
    OBVIOUS
  <2>1. ASSUME NEW p \in Clis PROVE cli[p].pc = "start" /\ cli[p].since = 0
    BY <2>1 DEF Init, NewCli
  <2>2. pool = {} /\ outages = 0
    BY DEF Init, ServerInit, RegistryInit
  <2> QED BY <2>1, <2>2 DEF NoneDraining, AllTried, Tried, AllCurrent, Current, At, ScanPcs
<1>2. EdgeOK /\ NoneDraining /\ [Next]_vars => NoneDraining'
  BY PoolGrows
<1>3. EdgeOK /\ OwnAddresses /\ AllCurrent => DiscoveryRegistersAll
  <2> SUFFICES ASSUME EdgeOK, OwnAddresses, AllCurrent, faults = 0,
                      \A q \in Clis : cli[q].pc \in Ends \cup {"start"},
                      NEW p \in Clis, At(p, "discovered"), cli[p].since = outages,
                      NEW c \in Containers, Discoverable(c)
               PROVE  Listed(c)
    BY DEF DiscoveryRegistersAll, Listed
  <2>2. Covered(p, c) /\ cli[p].todo = {}
    BY DEF AllCurrent, Current, At, ScanPcs
  <2>3. \A q \in Clis : ~InHand(q, c)
    BY DEF InHand, Ends
  <2> QED BY <2>2, <2>3 DEF Covered, AtHand, At
<1> QED BY <1>1, <1>2, <1>3, NextTried, NextCurrent, AddressesCorrect, NamesCorrect,
          EdgeOKCorrect, PTL DEF Spec
==============================================================================
