----------------------------- MODULE EdgeProofs ------------------------------
(***************************************************************************)
(* What holds of EdgeCluster for every value of its constants: the types,  *)
(* with what every invocation holds at the place where it is.              *)
(***************************************************************************)
EXTENDS EdgeCluster, UpstreamsProofs, FiniteSetTheorems

(***************************************************************************)
(* Where an invocation can be, by its command, and what it holds there.    *)
(***************************************************************************)
Jobs == UNION {Deployments[p] \cup Evictions[p] : p \in Clis}

DeployPcs == {"image", "login", "pull", "build", "check", "exists", "stopped", "cleanup",
              "network", "create", "run", "inspect", "probe", "register", "abort", "deployed"}
EvictPcs  == {"resolve", "evict", "wait", "find", "stop", "evicted"}
ScanPcs   == {"ps", "scan", "probe_app", "register_app", "discovered"}

\* p runs the replicas and the image of one of its deployments.
RunsADeployment(p) ==
  \E a \in Deployments[p] : \E b \in BaseNames(a) :
    /\ a.replicas >= 1
    /\ cli[p].job = a
    /\ cli[p].names = InstanceNames(a, b)
    /\ cli[p].tag = ImageTag(a, b)

Deployer(p) ==
  /\ "deploy" \in Commands[p]
  /\ cli[p].pc \in DeployPcs \cup {"failed"}
  /\ cli[p].at \in 1..Len(cli[p].names)
  /\ RunsADeployment(p)

CommandOK(p) ==
  /\ Deploying(p) => Deployer(p)
  /\ cli[p].pc \in DeployPcs => Deploying(p)
  /\ cli[p].pc \in EvictPcs => "deregister" \in Commands[p] /\ cli[p].job \in Evictions[p]
  /\ cli[p].pc \in ScanPcs => "discover" \in Commands[p]
  /\ cli[p].pc \in {"resolve", "stop", "probe_app", "register_app"} => cli[p].name \in Containers

Invocations == cli \in [Clis -> CliState(Jobs)] /\ \A p \in Clis : CommandOK(p)

ClientOK == pool \subseteq Item /\ used \subseteq Ids /\ ServerTypeOK

EdgeOK == Invocations /\ ClientOK /\ DockerTypeOK

\* A step of p leaves the other invocations where they are.
OthersStay(p) == \A q \in Clis \ {p} : cli'[q] = cli[q]

(***************************************************************************)
(* The client and the daemon.                                              *)
(***************************************************************************)

\* A fault is counted within its bound, and changes nothing else.
LEMMA FaultTypes ==
  ASSUME ClientOK, Fault \/ NoFault, UNCHANGED <<pool, used>>
  PROVE  ClientOK'
  BY ClientAssumption DEF ClientOK, ServerTypeOK, Fault, NoFault

\* A question put to docker changes nothing but the count of faults.
LEMMA SeenTypes ==
  ASSUME ClientOK, NEW yes \in BOOLEAN, NEW fact, Seen(yes, fact), UNCHANGED <<pool, used>>
  PROVE  ClientOK'
  BY FaultTypes DEF Seen

\* The health check changes nothing but the count of faults.
LEMMA HealthTypes ==
  ASSUME ClientOK, NEW ok \in BOOLEAN, CheckApiServerHealth(ok)
  PROVE  ClientOK'
  BY FaultTypes DEF CheckApiServerHealth

\* A registration adds an item, or none.
LEMMA RegisterTypes ==
  ASSUME ClientOK, NEW ip, NEW port \in Ports, NEW name \in Names, NEW e, NEW ok \in BOOLEAN,
         RegisterUpstream(ip, port, name, e, ok)
  PROVE  ClientOK'
<1>1. CASE ~ok /\ Refused(~ValidRegistration(ip, port, name, e) \/ Duplicate(pool, ip, port))
  BY <1>1, FaultTypes DEF Refused
<1>2. CASE /\ ValidRegistration(ip, port, name, e) /\ NextId \in Ids
           /\ Add(NextId, ip, port, name) /\ Took(ok)
  <2>1. NewItem(NextId, ip, port, name) \in Item
    BY <1>2, NewItemType
  <2> QED BY <1>2, <2>1, ClientAssumption
          DEF Add, Took, Fault, NoFault, ClientOK, ServerTypeOK
<1> QED BY <1>1, <1>2 DEF RegisterUpstream

\* A deregistration takes items away, or none.
LEMMA DeregisterTypes ==
  ASSUME ClientOK, NEW ip, NEW port, NEW ok \in BOOLEAN, DeregisterUpstream(ip, port, ok)
  PROVE  ClientOK'
<1>1. CASE ~ok /\ Refused(~ValidDeregistration(ip, port) \/ Retained(pool, ip, port) = pool)
  BY <1>1, FaultTypes DEF Refused
<1>2. CASE Remove(ip, port) /\ Took(ok)
  BY <1>2, ClientAssumption
     DEF Remove, Retained, Took, Fault, NoFault, ClientOK, ServerTypeOK
<1> QED BY <1>1, <1>2 DEF DeregisterUpstream

\* A drain marks an item, or none.
LEMMA DrainTypes ==
  ASSUME ClientOK, NEW ip, NEW port, NEW ok \in BOOLEAN, DrainUpstream(ip, port, ok)
  PROVE  ClientOK'
<1>1. CASE ~ok /\ Refused(FirstMatch(pool, ip, port, None) = {})
  BY <1>1, FaultTypes DEF Refused
<1>2. CASE /\ \E i \in FirstMatch(pool, ip, port, None), until \in Deadlines :
                BeginDrain(i, until)
           /\ Took(ok)
  <2>1. PICK i \in pool, until \in Nat : BeginDrain(i, until)
    BY <1>2, RegistryAssumption DEF FirstMatch
  <2>2. MarkedDraining(i, until) \in Item
    BY MarkedType DEF ClientOK
  <2> QED BY <1>2, <2>1, <2>2, ClientAssumption
          DEF BeginDrain, Took, Fault, NoFault, ClientOK, ServerTypeOK
<1> QED BY <1>1, <1>2 DEF DrainUpstream

\* The status and the list change nothing but the count of faults.
LEMMA ReadTypes ==
  ASSUME ClientOK, NEW ok \in BOOLEAN,
         ListUpstreams(ok) \/ \E ip, port : GetUpstreamStatus(ip, port, ok)
  PROVE  ClientOK'
  BY FaultTypes DEF ListUpstreams, GetUpstreamStatus, Took, Refused

\* Every docker command keeps the types of the daemon.
LEMMA DaemonTypes ==
  ASSUME DockerTypeOK, NEW c \in Containers,
         \/ UNCHANGED docker
         \/ RemoveContainer(c) \/ Die(c) \/ CreateContainer(c)
         \/ \E ok \in BOOLEAN : NetworkCreate(ok)
         \/ \E tag \in Tags : StartNew(c, tag) \/ \E ok \in BOOLEAN : DockerRun(c, tag, ok)
         \/ \E tag \in Tags, content \in Contents : SetImage(tag, content)
  PROVE  DockerTypeOK'
<1>1. CASE UNCHANGED docker
  BY <1>1 DEF docker, DockerTypeOK
<1>2. CASE RemoveContainer(c) \/ Die(c) \/ CreateContainer(c)
  BY <1>2 DEF DockerTypeOK, RemoveContainer, Die, CreateContainer, Absent, Stopped, Contents
<1>3. CASE \E ok \in BOOLEAN : NetworkCreate(ok)
  BY <1>3 DEF DockerTypeOK, NetworkCreate
<1>4. CASE \E tag \in Tags : StartNew(c, tag)
  BY <1>4 DEF DockerTypeOK, StartNew, FreeIps, RunningAt, Contents
<1>5. CASE \E tag \in Tags, content \in Contents : SetImage(tag, content)
  BY <1>5 DEF DockerTypeOK, SetImage
<1> QED BY <1>1, <1>2, <1>3, <1>4, <1>5 DEF DockerRun

\* A removal keeps them, and the client's, whether or not it succeeds.
LEMMA StopTypes ==
  ASSUME ClientOK, DockerTypeOK, NEW c \in Containers, StopAndRemoveContainer(c), DockerOnly
  PROVE  ClientOK' /\ DockerTypeOK'
  BY FaultTypes, DaemonTypes DEF StopAndRemoveContainer, Fails, DockerOnly

(***************************************************************************)
(* Where invocations go.                                                   *)
(***************************************************************************)

\* Going on changes one field of one invocation.
LEMMA GoesOn ==
  ASSUME Invocations, NEW p \in Clis, NEW s \in Pcs, Goto(p, s)
  PROVE  /\ cli' \in [Clis -> CliState(Jobs)]
         /\ cli'[p] = [cli[p] EXCEPT !.pc = s]
         /\ OthersStay(p)
<1>1. cli[p] \in CliState(Jobs)
  BY DEF Invocations
<1>2. [cli[p] EXCEPT !.pc = s] \in CliState(Jobs)
  BY <1>1 DEF CliState
<1> QED BY <1>2 DEF Invocations, Goto, OthersStay

\* An invocation that has not begun.
LEMMA NewCliType == NewCli \in CliState(Jobs) /\ NewCli.names = <<>>
<1>1. <<>> \in Seq(Containers)
  OBVIOUS
<1>2. {} \in SUBSET Containers
  OBVIOUS
<1>3. "start" \in Pcs
  BY DEF Pcs
<1> QED BY <1>1, <1>2, <1>3 DEF NewCli, CliState

\* The invocations that a step of p leaves alone are still in order.
LEMMA OthersInOrder ==
  ASSUME Invocations, NEW p \in Clis, cli' \in [Clis -> CliState(Jobs)], OthersStay(p),
         CommandOK(p)'
  PROVE  Invocations'
<1>1. ASSUME NEW q \in Clis \ {p} PROVE CommandOK(q)'
  BY <1>1 DEF Invocations, OthersStay, CommandOK, Deploying, Deployer, RunsADeployment
<1> QED BY <1>1 DEF Invocations

\* A deployment goes on as one.
LEMMA DeployGoesOn ==
  ASSUME Invocations, NEW p \in Clis, NEW s \in DeployPcs \cup {"failed"},
         cli[p].pc \in DeployPcs, Goto(p, s)
  PROVE  Invocations' /\ OthersStay(p) /\ cli'[p] = [cli[p] EXCEPT !.pc = s]
<1>1. s \in Pcs
  BY DEF DeployPcs, Pcs, Ends
<1>2. cli[p] \in CliState(Jobs) /\ CommandOK(p)
  BY DEF Invocations
<1>3. /\ cli' \in [Clis -> CliState(Jobs)]
      /\ cli'[p] = [cli[p] EXCEPT !.pc = s]
      /\ OthersStay(p)
  BY <1>1, GoesOn
<1>4. CommandOK(p)'
  BY <1>2, <1>3 DEF CommandOK, Deploying, Deployer, RunsADeployment, CliState,
                    DeployPcs, EvictPcs, ScanPcs
<1> QED BY <1>3, <1>4, OthersInOrder

\* So does a deregistration, to its end.
LEMMA EvictGoesOn ==
  ASSUME Invocations, NEW p \in Clis, NEW s \in EvictPcs \cup {"failed"},
         s \notin {"resolve", "stop"} \/ cli[p].name \in Containers,
         cli[p].pc \in EvictPcs, Goto(p, s)
  PROVE  Invocations' /\ OthersStay(p) /\ cli'[p] = [cli[p] EXCEPT !.pc = s]
<1>1. s \in Pcs
  BY DEF EvictPcs, Pcs, Ends
<1>2. cli[p] \in CliState(Jobs) /\ CommandOK(p)
  BY DEF Invocations
<1>3. /\ cli' \in [Clis -> CliState(Jobs)]
      /\ cli'[p] = [cli[p] EXCEPT !.pc = s]
      /\ OthersStay(p)
  BY <1>1, GoesOn
<1>4. CommandOK(p)'
  BY <1>2, <1>3 DEF CommandOK, Deploying, Deployer, CliState, DeployPcs, EvictPcs, ScanPcs
<1> QED BY <1>3, <1>4, OthersInOrder

\* And a discovery.
LEMMA ScanGoesOn ==
  ASSUME Invocations, NEW p \in Clis, NEW s \in ScanPcs \cup {"failed"},
         s \notin {"probe_app", "register_app"} \/ cli[p].name \in Containers,
         cli[p].pc \in ScanPcs, Goto(p, s)
  PROVE  Invocations' /\ OthersStay(p) /\ cli'[p] = [cli[p] EXCEPT !.pc = s]
<1>1. s \in Pcs
  BY DEF ScanPcs, Pcs, Ends
<1>2. cli[p] \in CliState(Jobs) /\ CommandOK(p)
  BY DEF Invocations
<1>3. /\ cli' \in [Clis -> CliState(Jobs)]
      /\ cli'[p] = [cli[p] EXCEPT !.pc = s]
      /\ OthersStay(p)
  BY <1>1, GoesOn
<1>4. CommandOK(p)'
  BY <1>2, <1>3 DEF CommandOK, Deploying, Deployer, CliState, DeployPcs, EvictPcs, ScanPcs
<1> QED BY <1>3, <1>4, OthersInOrder

\* A command may end without having begun.
LEMMA EndsAtOnce ==
  ASSUME Invocations, NEW p \in Clis, NEW s \in {"failed", "listed"}, At(p, "start"), Goto(p, s)
  PROVE  Invocations' /\ OthersStay(p) /\ cli'[p] = [cli[p] EXCEPT !.pc = s]
<1>1. s \in Pcs
  BY DEF Pcs, Ends
<1>2. cli[p] \in CliState(Jobs) /\ CommandOK(p)
  BY DEF Invocations
<1>3. /\ cli' \in [Clis -> CliState(Jobs)]
      /\ cli'[p] = [cli[p] EXCEPT !.pc = s]
      /\ OthersStay(p)
  BY <1>1, GoesOn
<1>4. CommandOK(p)'
  BY <1>2, <1>3 DEF CommandOK, Deploying, Deployer, CliState, DeployPcs, EvictPcs, ScanPcs, At
<1> QED BY <1>3, <1>4, OthersInOrder

(***************************************************************************)
(* What flags make of themselves.                                          *)
(***************************************************************************)

\* The replicas of a valid deployment are at least one, and different
\* containers; its image has a tag; and its targets have names.
LEMMA DeploymentFacts ==
  ASSUME NEW p \in Clis, NEW a \in Deployments[p], NEW b \in BaseNames(a), a.replicas >= 1
  PROVE  /\ InstanceNames(a, b) \in Seq(Containers)
         /\ Len(InstanceNames(a, b)) = a.replicas
         /\ InstanceNames(a, b) # <<>>
         /\ ImageTag(a, b) \in Tags
         /\ \A c \in Containers : TargetName(c, a) \in Names
         /\ a.port \in Ports
         /\ \A i, j \in 1..Len(InstanceNames(a, b)) :
              InstanceNames(a, b)[i] = InstanceNames(a, b)[j] => i = j
<1>1. /\ a.name \in Bases \cup {None} /\ a.image \in Tags \cup {None}
      /\ a.replicas \in Int /\ a.suffix \in Suffixes \cup {None}
      /\ a.port \in Ports
      /\ InstanceNames(a, b) \in Seq(Containers)
      /\ \A i, j \in DOMAIN InstanceNames(a, b) :
           InstanceNames(a, b)[i] = InstanceNames(a, b)[j] => i = j
  BY DeploymentsAssumption
<1>2. Len(InstanceNames(a, b)) = a.replicas
  <2> DEFINE only    == InstanceName[b, 0]
             many(i) == InstanceName[b, i]
  <2>1. InstanceNames(a, b) = IF a.replicas = 1 THEN <<only>>
                                                ELSE [i \in 1..a.replicas |-> many(i)]
    BY Zenon DEF InstanceNames
  <2> HIDE DEF only, many
  <2> QED BY <1>1, <2>1
<1>3. DOMAIN InstanceNames(a, b) = 1..Len(InstanceNames(a, b))
  BY <1>1
<1>4. b \in Bases
  BY <1>1, FlagsAssumption DEF BaseNames
<1>5. ImageTag(a, b) \in Tags
  BY <1>1, <1>4, FlagsAssumption DEF ImageTag
<1>6. ASSUME NEW c \in Containers PROVE TargetName(c, a) \in Names
  BY <1>1, FlagsAssumption DEF TargetName
<1>7. InstanceNames(a, b) # <<>>
  BY <1>1, <1>2
<1> QED BY <1>1, <1>2, <1>3, <1>5, <1>6, <1>7

\* The replica a deployment is at is one of its containers.
LEMMA AtAReplica ==
  ASSUME Invocations, NEW p \in Clis, Deploying(p)
  PROVE  /\ cli[p].names \in Seq(Containers)
         /\ cli[p].at \in 1..Len(cli[p].names)
         /\ Instance(p) \in Containers
         /\ cli[p].tag \in Tags
         /\ cli[p].job.port \in Ports
         /\ \A c \in Containers : TargetName(c, cli[p].job) \in Names
         /\ \A i, j \in 1..Len(cli[p].names) :
              cli[p].names[i] = cli[p].names[j] => i = j
<1>1. Deployer(p)
  BY DEF Invocations, CommandOK
<1>2. PICK a \in Deployments[p] : \E b \in BaseNames(a) :
         /\ a.replicas >= 1
         /\ cli[p].job = a
         /\ cli[p].names = InstanceNames(a, b)
         /\ cli[p].tag = ImageTag(a, b)
  BY <1>1 DEF Deployer, RunsADeployment
<1>3. PICK b \in BaseNames(a) :
         /\ a.replicas >= 1
         /\ cli[p].job = a
         /\ cli[p].names = InstanceNames(a, b)
         /\ cli[p].tag = ImageTag(a, b)
  BY <1>2
<1> QED BY <1>1, <1>3, DeploymentFacts DEF Deployer, Instance

(***************************************************************************)
(* Types.  One lemma per command: each of its steps keeps them.            *)
(***************************************************************************)
\* A deployment keeps the types, and every other invocation as it is.
LEMMA DeployTypes ==
  ASSUME EdgeOK, NEW p \in Clis, "deploy" \in Commands[p], DeployNext(p)
  PROVE  EdgeOK' /\ OthersStay(p)
<1> USE DEF EdgeOK, At
<1>0. cli[p] \in CliState(Jobs) /\ CommandOK(p)
  BY DEF Invocations
<1>a. cli[p].pc \in DeployPcs => Deploying(p)
  BY <1>0 DEF CommandOK
<1>1. CASE StartDeploy(p)
  <2>1. PICK a \in Deployments[p], ok \in BOOLEAN :
          /\ IF ValidDeployArgs(a) THEN CheckApiServerHealth(ok) ELSE ~ok /\ UNCHANGED client
          /\ \/ ~ok /\ Goto(p, "failed")
             \/ ok /\ \E base \in BaseNames(a) :
                  cli' = [cli EXCEPT ![p] = [NewCli EXCEPT
                            !.pc = IF a.image # None THEN "image" ELSE "build", !.job = a,
                            !.names = InstanceNames(a, base), !.tag = ImageTag(a, base)]]
    BY <1>1 DEF StartDeploy
  <2>2. ClientOK'
    BY <2>1, HealthTypes DEF ClientOK, ServerTypeOK, client
  <2>3. DockerTypeOK'
    BY <1>1 DEF StartDeploy, ApiOnly, docker, DockerTypeOK
  <2>4. CASE ~ok /\ Goto(p, "failed")
    BY <1>1, <2>2, <2>3, <2>4, EndsAtOnce DEF StartDeploy
  <2>5. CASE ok /\ ~(~ok /\ Goto(p, "failed"))
    <3>1. PICK base \in BaseNames(a) :
            cli' = [cli EXCEPT ![p] = [NewCli EXCEPT
                      !.pc = IF a.image # None THEN "image" ELSE "build", !.job = a,
                      !.names = InstanceNames(a, base), !.tag = ImageTag(a, base)]]
      BY <2>1, <2>5
    <3>2. ValidDeployArgs(a)
      BY <2>1, <2>5
    <3>3. a.replicas >= 1
      BY <3>2 DEF ValidDeployArgs
    <3>4. /\ InstanceNames(a, base) \in Seq(Containers)
          /\ InstanceNames(a, base) # <<>>
          /\ ImageTag(a, base) \in Tags
      BY <3>3, DeploymentFacts
    <3> DEFINE new == [NewCli EXCEPT
                         !.pc = IF a.image # None THEN "image" ELSE "build", !.job = a,
                         !.names = InstanceNames(a, base), !.tag = ImageTag(a, base)]
    <3>5. a \in Jobs
      BY DEF Jobs
    <3>6. /\ new \in CliState(Jobs)
          /\ new.pc \in {"image", "build"} /\ new.job = a /\ new.at = 1
          /\ new.names = InstanceNames(a, base) /\ new.tag = ImageTag(a, base)
      BY <3>4, <3>5 DEF NewCli, CliState, Pcs
    <3> HIDE DEF new
    <3>7. cli' \in [Clis -> CliState(Jobs)] /\ cli'[p] = new /\ OthersStay(p)
      BY <3>1, <3>6 DEF Invocations, OthersStay, new
    <3>8. 1 \in 1..Len(InstanceNames(a, base))
      BY <3>4
    <3>9. RunsADeployment(p)'
      BY <3>3, <3>6, <3>7 DEF RunsADeployment
    <3>10. CommandOK(p)'
      BY <3>6, <3>7, <3>8, <3>9
         DEF CommandOK, Deploying, Deployer, DeployPcs, EvictPcs, ScanPcs
    <3> QED BY <2>2, <2>3, <3>7, <3>10, OthersInOrder
  <2> QED BY <2>1, <2>4, <2>5
<1>2. CASE FindImage(p)
  <2>1. PICK yes \in BOOLEAN :
          /\ Seen(yes, LocalImageExists(cli[p].tag))
          /\ Goto(p, IF yes THEN "check" ELSE IF cli[p].job.credentials THEN "login" ELSE "pull")
    BY <1>2 DEF FindImage
  <2>2. Invocations' /\ OthersStay(p)
    BY <1>2, <2>1, DeployGoesOn DEF FindImage, DeployPcs
  <2> QED BY <1>2, <2>1, <2>2, SeenTypes DEF FindImage, AskOnly, DockerOnly, docker, DockerTypeOK
<1>3. CASE LoginToRegistry(p)
  <2>1. Invocations' /\ OthersStay(p)
    BY <1>3, DeployGoesOn DEF LoginToRegistry, DeployPcs
  <2> QED BY <1>3, <2>1, FaultTypes DEF LoginToRegistry, AskOnly, DockerOnly, docker, DockerTypeOK
<1>4. CASE PullImage(p) \/ BuildImage(p)
  <2>1. Invocations' /\ OthersStay(p)
    BY <1>4, DeployGoesOn DEF PullImage, BuildImage, DeployPcs
  <2>2. ClientOK'
    BY <1>4, FaultTypes DEF PullImage, BuildImage, Fails, DockerOnly
  <2>3. Deploying(p) /\ Instance(p) \in Containers /\ cli[p].tag \in Tags
    BY <1>4, <1>a, AtAReplica DEF PullImage, BuildImage, DeployPcs
  <2>4. DockerTypeOK'
    BY <1>4, <2>3, DaemonTypes DEF PullImage, BuildImage, Fails, Contents
  <2> QED BY <2>1, <2>2, <2>4
<1>5. CASE CheckRunning(p) \/ CheckExists(p) \/ CheckStopped(p) \/ FindNetwork(p)
  <2>1. Invocations' /\ OthersStay(p)
    BY <1>5, DeployGoesOn DEF CheckRunning, CheckExists, CheckStopped, FindNetwork, DeployPcs
  <2>2. ClientOK'
    BY <1>5, SeenTypes
       DEF CheckRunning, CheckExists, CheckStopped, FindNetwork, AskOnly, DockerOnly
  <2> QED BY <1>5, <2>1, <2>2
          DEF CheckRunning, CheckExists, CheckStopped, FindNetwork, AskOnly, docker, DockerTypeOK
<1>6. CASE Cleanup(p) \/ CreateNetwork(p) \/ RunContainer(p) \/ Abort(p)
  <2>1. Invocations' /\ OthersStay(p)
    BY <1>6, DeployGoesOn DEF Cleanup, CreateNetwork, RunContainer, Abort, DeployPcs
  <2>2. Deploying(p) /\ Instance(p) \in Containers /\ cli[p].tag \in Tags
    BY <1>6, <1>a, AtAReplica DEF Cleanup, CreateNetwork, RunContainer, Abort, DeployPcs
  <2>3. CASE Cleanup(p) \/ Abort(p)
    BY <2>1, <2>2, <2>3, StopTypes DEF Cleanup, Abort
  <2>4. CASE CreateNetwork(p) \/ RunContainer(p)
    <3>1. ClientOK'
      BY <2>4, FaultTypes DEF CreateNetwork, RunContainer, Fails, DockerOnly
    <3>2. DockerTypeOK'
      BY <2>2, <2>4, DaemonTypes DEF CreateNetwork, RunContainer, Fails
    <3> QED BY <2>1, <3>1, <3>2
  <2> QED BY <1>6, <2>3, <2>4
<1>7. CASE Inspect(p)
  <2>1. ClientOK' /\ DockerTypeOK'
    BY <1>7, SeenTypes DEF Inspect, AskOnly, DockerOnly, docker, DockerTypeOK
  <2>2. CASE Goto(p, "abort")
    BY <1>7, <2>1, <2>2, DeployGoesOn DEF Inspect, DeployPcs
  <2>3. CASE cli' = [cli EXCEPT ![p].pc = "probe", ![p].ip = box[Instance(p)].ip]
    <3>1. Deploying(p) /\ Instance(p) \in Containers
      BY <1>7, <1>a, AtAReplica DEF Inspect, DeployPcs
    <3>2. box[Instance(p)].ip \in IpTexts \cup {None}
      BY <3>1 DEF DockerTypeOK, IpTexts, ParsedIps
    <3>3. [cli[p] EXCEPT !.pc = "probe", !.ip = box[Instance(p)].ip] \in CliState(Jobs)
      BY <1>0, <3>2 DEF CliState, Pcs
    <3>4. /\ cli' \in [Clis -> CliState(Jobs)] /\ OthersStay(p)
          /\ cli'[p] = [cli[p] EXCEPT !.pc = "probe", !.ip = box[Instance(p)].ip]
      BY <2>3, <3>3 DEF Invocations, OthersStay
    <3>5. CommandOK(p)'
      BY <1>0, <1>7, <3>1, <3>4 DEF Inspect, CommandOK, Deploying, Deployer, RunsADeployment,
         CliState, DeployPcs, EvictPcs, ScanPcs
    <3> QED BY <2>1, <3>4, <3>5, OthersInOrder
  <2> QED BY <1>7, <2>2, <2>3 DEF Inspect
<1>8. CASE WaitForReadiness(p)
  <2>1. Invocations' /\ OthersStay(p)
    BY <1>8, DeployGoesOn DEF WaitForReadiness, DeployPcs
  <2> QED BY <1>8, <2>1, SeenTypes DEF WaitForReadiness, AskOnly, DockerOnly, docker, DockerTypeOK
<1>9. CASE RegisterInstance(p)
  <2>1. Deploying(p) /\ Instance(p) \in Containers /\ cli[p].job.port \in Ports
        /\ TargetName(Instance(p), cli[p].job) \in Names
        /\ cli[p].at \in 1..Len(cli[p].names)
    BY <1>9, <1>a, AtAReplica DEF RegisterInstance, DeployPcs
  <2>2. ClientOK'
    BY <1>9, <2>1, RegisterTypes DEF RegisterInstance, RegisterTarget
  <2>3. DockerTypeOK'
    BY <1>9 DEF RegisterInstance, ApiOnly, docker, DockerTypeOK
  <2>4. CASE Goto(p, "abort") \/ Goto(p, "deployed")
    BY <1>9, <2>2, <2>3, <2>4, DeployGoesOn DEF RegisterInstance, DeployPcs
  <2>5. CASE cli[p].at < Len(cli[p].names) /\ NextReplica(p)
    <3>1. cli[p].at \in Nat /\ Len(cli[p].names) \in Nat
      BY <1>0, <2>1 DEF CliState
    <3>0. cli[p].at + 1 \in Nat /\ "check" \in Pcs
      BY <3>1 DEF Pcs
    <3>2. [cli[p] EXCEPT !.pc = "check", !.at = @ + 1, !.ip = None] \in CliState(Jobs)
      BY <1>0, <3>0 DEF CliState
    <3>3. /\ cli' \in [Clis -> CliState(Jobs)] /\ OthersStay(p)
          /\ cli'[p] = [cli[p] EXCEPT !.pc = "check", !.at = @ + 1, !.ip = None]
      BY <2>5, <3>2 DEF NextReplica, Invocations, OthersStay
    <3>4. /\ cli'[p].at \in 1..Len(cli[p].names) /\ cli'[p].names = cli[p].names
          /\ cli'[p].pc = "check" /\ cli'[p].job = cli[p].job /\ cli'[p].tag = cli[p].tag
      BY <1>0, <2>1, <2>5, <3>1, <3>3 DEF CliState
    <3>5. CommandOK(p)'
      BY <1>0, <2>1, <3>4 DEF CommandOK, Deploying, Deployer, RunsADeployment,
         DeployPcs, EvictPcs, ScanPcs
    <3> QED BY <2>2, <2>3, <3>3, <3>5, OthersInOrder
  <2> QED BY <1>9, <2>4, <2>5 DEF RegisterInstance
<1> QED BY <1>1, <1>2, <1>3, <1>4, <1>5, <1>6, <1>7, <1>8, <1>9 DEF DeployNext

\* So does a deregistration,
LEMMA EvictTypes ==
  ASSUME EdgeOK, NEW p \in Clis, "deregister" \in Commands[p], DeregisterNext(p)
  PROVE  EdgeOK' /\ OthersStay(p)
<1> USE DEF EdgeOK, At
<1>0. cli[p] \in CliState(Jobs) /\ CommandOK(p)
  BY DEF Invocations
<1>1. CASE StartDeregister(p)
  <2>1. PICK e \in Evictions[p] :
          cli' = [cli EXCEPT ![p] = [NewCli EXCEPT
                    !.pc = IF ~ValidEvictionArgs(e) THEN "failed"
                           ELSE IF e.ip = None THEN "resolve" ELSE "evict",
                    !.job = e, !.ip = e.ip,
                    !.name = IF e.name = None THEN None ELSE Lower[e.name]]]
    BY <1>1 DEF StartDeregister
  <2> DEFINE pc   == IF ~ValidEvictionArgs(e) THEN "failed"
                     ELSE IF e.ip = None THEN "resolve" ELSE "evict"
             name == IF e.name = None THEN None ELSE Lower[e.name]
  <2>2. e \in Jobs /\ e.ip \in IpTexts \cup {None} /\ name \in Containers \cup {None}
    BY EvictionsAssumption, FlagsAssumption DEF Jobs
  <2>3. pc \in {"failed", "resolve", "evict"} /\ pc \in Pcs
    BY DEF Pcs, Ends
  <2>4. pc = "resolve" => name \in Containers
    BY EvictionsAssumption, FlagsAssumption, DockerAssumption DEF ValidEvictionArgs
  <2> HIDE DEF pc, name
  <2>5. [NewCli EXCEPT !.pc = pc, !.job = e, !.ip = e.ip, !.name = name] \in CliState(Jobs)
    BY <2>2, <2>3, NewCliType DEF CliState
  <2>6. /\ cli' \in [Clis -> CliState(Jobs)] /\ OthersStay(p)
        /\ cli'[p] = [NewCli EXCEPT !.pc = pc, !.job = e, !.ip = e.ip, !.name = name]
    BY <2>1, <2>5 DEF Invocations, OthersStay, pc, name
  <2>7. CommandOK(p)'
    BY <2>2, <2>3, <2>4, <2>6, NewCliType DEF CliState, CommandOK, Deploying, DeployPcs, EvictPcs, ScanPcs
  <2> QED BY <1>1, <2>6, <2>7, OthersInOrder
          DEF StartDeregister, client, ClientOK, ServerTypeOK, docker, DockerTypeOK
<1>2. CASE ResolveTarget(p)
  <2>1. ClientOK' /\ DockerTypeOK'
    BY <1>2, SeenTypes DEF ResolveTarget, AskOnly, DockerOnly, docker, DockerTypeOK
  <2>2. CASE Goto(p, "failed")
    BY <1>2, <2>1, <2>2, EvictGoesOn DEF ResolveTarget, EvictPcs
  <2>3. CASE cli' = [cli EXCEPT ![p].pc = "evict", ![p].ip = box[cli[p].name].ip]
    <3>0. cli[p].name \in Containers
      BY <1>0, <1>2 DEF ResolveTarget, CommandOK
    <3>1. box[cli[p].name].ip \in IpTexts \cup {None}
      BY <3>0 DEF DockerTypeOK, IpTexts, ParsedIps
    <3>2. [cli[p] EXCEPT !.pc = "evict", !.ip = box[cli[p].name].ip] \in CliState(Jobs)
      BY <1>0, <3>1 DEF CliState, Pcs
    <3>3. /\ cli' \in [Clis -> CliState(Jobs)] /\ OthersStay(p)
          /\ cli'[p] = [cli[p] EXCEPT !.pc = "evict", !.ip = box[cli[p].name].ip]
      BY <2>3, <3>2 DEF Invocations, OthersStay
    <3>4. CommandOK(p)'
      BY <1>0, <1>2, <3>3 DEF ResolveTarget, CommandOK, Deploying, Deployer, CliState,
                              DeployPcs, EvictPcs, ScanPcs
    <3> QED BY <2>1, <3>3, <3>4, OthersInOrder
  <2> QED BY <1>2, <2>2, <2>3 DEF ResolveTarget
<1>3. CASE EvictTarget(p)
  <2>1. PICK ok \in BOOLEAN :
          /\ IF cli[p].job.graceful THEN DrainUpstream(cli[p].ip, cli[p].job.port, ok)
                                    ELSE DeregisterUpstream(cli[p].ip, cli[p].job.port, ok)
          /\ \/ ~ok /\ Goto(p, "failed")
             \/ ok /\ ~cli[p].job.halt /\ Goto(p, "evicted")
             \/ ok /\ cli[p].job.halt /\ Goto(p, IF cli[p].job.graceful THEN "wait" ELSE "find")
    BY <1>3 DEF EvictTarget
  <2>2. ClientOK'
    BY <2>1, DrainTypes, DeregisterTypes
  <2>3. Invocations' /\ OthersStay(p)
    BY <1>3, <2>1, EvictGoesOn DEF EvictTarget, EvictPcs
  <2> QED BY <1>3, <2>2, <2>3 DEF EvictTarget, ApiOnly, docker, DockerTypeOK
<1>4. CASE WaitForBackendDrain(p)
  <2>1. ClientOK'
    BY <1>4, ReadTypes DEF WaitForBackendDrain
  <2>2. Invocations' /\ OthersStay(p)
    BY <1>4, EvictGoesOn DEF WaitForBackendDrain, EvictPcs
  <2> QED BY <1>4, <2>1, <2>2 DEF WaitForBackendDrain, ApiOnly, docker, DockerTypeOK
<1>5. CASE FindTarget(p)
  <2>1. ClientOK' /\ DockerTypeOK'
    BY <1>5, FaultTypes, SeenTypes DEF FindTarget, AskOnly, DockerOnly, docker, DockerTypeOK
  <2>2. CASE cli[p].name # None /\ Goto(p, "stop")
    <3>1. cli[p].name \in Containers
      BY <1>0, <2>2 DEF CliState
    <3> QED BY <1>5, <2>1, <2>2, <3>1, EvictGoesOn DEF FindTarget, EvictPcs
  <2>3. CASE Goto(p, "evicted")
    BY <1>5, <2>1, <2>3, EvictGoesOn DEF FindTarget, EvictPcs
  <2>4. CASE \E c \in NamesForIp(cli[p].ip) :
               cli' = [cli EXCEPT ![p].pc = "stop", ![p].name = c]
    <3>1. PICK c \in Containers : cli' = [cli EXCEPT ![p].pc = "stop", ![p].name = c]
      BY <2>4 DEF NamesForIp
    <3>2. [cli[p] EXCEPT !.pc = "stop", !.name = c] \in CliState(Jobs)
      BY <1>0 DEF CliState, Pcs
    <3>3. /\ cli' \in [Clis -> CliState(Jobs)] /\ OthersStay(p)
          /\ cli'[p] = [cli[p] EXCEPT !.pc = "stop", !.name = c]
      BY <3>1, <3>2 DEF Invocations, OthersStay
    <3>4. CommandOK(p)'
      BY <1>0, <1>5, <3>3 DEF FindTarget, CommandOK, Deploying, Deployer, CliState,
                              DeployPcs, EvictPcs, ScanPcs
    <3> QED BY <2>1, <3>3, <3>4, OthersInOrder
  <2> QED BY <1>5, <2>2, <2>3, <2>4 DEF FindTarget
<1>6. CASE StopTarget(p)
  <2>1. Invocations' /\ OthersStay(p)
    BY <1>6, EvictGoesOn DEF StopTarget, EvictPcs
  <2>2. cli[p].name \in Containers
    BY <1>0, <1>6 DEF CommandOK, StopTarget
  <2> QED BY <1>6, <2>1, <2>2, StopTypes DEF StopTarget
<1> QED BY <1>1, <1>2, <1>3, <1>4, <1>5, <1>6 DEF DeregisterNext

\* a discovery,
LEMMA ScanTypes ==
  ASSUME EdgeOK, NEW p \in Clis, "discover" \in Commands[p], DiscoverNext(p)
  PROVE  EdgeOK' /\ OthersStay(p)
<1> USE DEF EdgeOK, At
<1>0. cli[p] \in CliState(Jobs) /\ CommandOK(p)
  BY DEF Invocations
<1>1. CASE StartDiscover(p)
  <2>1. PICK ok \in BOOLEAN :
          /\ CheckApiServerHealth(ok)
          /\ IF ok THEN cli' = [cli EXCEPT ![p] = Scanning] ELSE Goto(p, "failed")
    BY <1>1 DEF StartDiscover
  <2>2. ClientOK' /\ DockerTypeOK'
    BY <1>1, <2>1, HealthTypes DEF StartDiscover, ApiOnly, docker, DockerTypeOK
  <2>3. CASE ok
    <3>0. outages \in Nat /\ "ps" \in Pcs
      BY ClientAssumption DEF ClientOK, ServerTypeOK, Pcs
    <3>1. Scanning \in CliState(Jobs) /\ Scanning.pc = "ps" /\ Scanning.names = <<>>
      BY <3>0, NewCliType DEF Scanning, CliState
    <3>2. cli' \in [Clis -> CliState(Jobs)] /\ OthersStay(p) /\ cli'[p] = Scanning
      BY <2>1, <2>3, <3>1 DEF Invocations, OthersStay
    <3>3. CommandOK(p)'
      BY <3>1, <3>2 DEF CommandOK, Deploying, DeployPcs, EvictPcs, ScanPcs
    <3> QED BY <2>2, <3>2, <3>3, OthersInOrder
  <2>4. CASE ~ok
    BY <1>1, <2>1, <2>2, <2>4, EndsAtOnce DEF StartDiscover
  <2> QED BY <2>3, <2>4
<1>2. CASE InspectApp(p)
  <2>1. ClientOK' /\ DockerTypeOK'
    BY <1>2, SeenTypes DEF InspectApp, AskOnly, DockerOnly, docker, DockerTypeOK
  <2>2. PICK c \in cli[p].todo :
          \/ cli' = [cli EXCEPT ![p].pc = "probe_app", ![p].name = c, ![p].ip = box[c].ip,
                                ![p].at = 1, ![p].todo = @ \ {c}]
          \/ cli' = [cli EXCEPT ![p].todo = @ \ {c}]
    BY <1>2 DEF InspectApp
  <2>3. c \in Containers /\ cli[p].todo \ {c} \in SUBSET Containers
    BY <1>0 DEF CliState
  <2>4. box[c].ip \in IpTexts \cup {None} /\ "probe_app" \in Pcs
    BY <2>3 DEF DockerTypeOK, IpTexts, ParsedIps, Pcs
  <2> DEFINE taken  == [cli[p] EXCEPT !.pc = "probe_app", !.name = c, !.ip = box[c].ip,
                                      !.at = 1, !.todo = @ \ {c}]
             passed == [cli[p] EXCEPT !.todo = @ \ {c}]
  <2>5. taken \in CliState(Jobs) /\ passed \in CliState(Jobs)
    BY <1>0, <2>3, <2>4 DEF CliState
  <2>6. /\ cli' \in [Clis -> CliState(Jobs)] /\ OthersStay(p)
        /\ cli'[p] \in {taken, passed}
    <3>1. cli' = [cli EXCEPT ![p] = taken] \/ cli' = [cli EXCEPT ![p] = passed]
      BY <2>2 DEF Invocations
    <3> HIDE DEF taken, passed
    <3> QED BY <2>5, <3>1 DEF Invocations, OthersStay
  <2>7. CommandOK(p)'
    <3>1. At(p, "scan") /\ ~Deploying(p) /\ "discover" \in Commands[p]
      BY <1>0, <1>2 DEF InspectApp, CommandOK, Deployer, DeployPcs, ScanPcs, At
    <3>2. /\ cli'[p].names = cli[p].names /\ cli'[p].pc \in {"scan", "probe_app"}
          /\ cli'[p].pc = "probe_app" => cli'[p].name = c
      BY <1>0, <2>6, <3>1 DEF CliState, At
    <3> QED BY <2>3, <3>1, <3>2 DEF CommandOK, Deploying, DeployPcs, EvictPcs, ScanPcs
  <2> QED BY <2>1, <2>6, <2>7, OthersInOrder
<1>3. CASE ProbeHealthEndpoint(p)
  <2>1. ClientOK' /\ DockerTypeOK'
    BY <1>3, SeenTypes DEF ProbeHealthEndpoint, AskOnly, DockerOnly, docker, DockerTypeOK
  <2>2. cli[p].name \in Containers
    BY <1>0, <1>3 DEF ProbeHealthEndpoint, CommandOK
  <2>3. CASE Goto(p, "register_app") \/ Goto(p, "scan")
    BY <1>3, <2>1, <2>2, <2>3, ScanGoesOn DEF ProbeHealthEndpoint, ScanPcs
  <2>4. CASE cli' = [cli EXCEPT ![p].at = @ + 1]
    <3>1. cli[p].at + 1 \in Nat
      BY <1>0 DEF CliState
    <3>2. [cli[p] EXCEPT !.at = @ + 1] \in CliState(Jobs)
      BY <1>0, <3>1 DEF CliState
    <3>3. /\ cli' \in [Clis -> CliState(Jobs)] /\ OthersStay(p)
          /\ cli'[p] = [cli[p] EXCEPT !.at = @ + 1]
      BY <2>4, <3>2 DEF Invocations, OthersStay
    <3>4. CommandOK(p)'
      <4>1. At(p, "probe_app") /\ ~Deploying(p) /\ "discover" \in Commands[p]
        BY <1>0, <1>3 DEF ProbeHealthEndpoint, CommandOK, Deployer, DeployPcs, ScanPcs
      <4>2. /\ cli'[p].names = cli[p].names /\ cli'[p].pc = "probe_app"
            /\ cli'[p].name = cli[p].name
        BY <1>0, <3>3, <4>1 DEF CliState
      <4> QED BY <2>2, <4>1, <4>2 DEF CommandOK, Deploying, DeployPcs, EvictPcs, ScanPcs
    <3> QED BY <2>1, <3>3, <3>4, OthersInOrder
  <2> QED BY <1>3, <2>3, <2>4 DEF ProbeHealthEndpoint
<1>4. CASE RegisterApp(p)
  <2>1. Invocations' /\ OthersStay(p)
    BY <1>4, ScanGoesOn DEF RegisterApp, ScanPcs
  <2>2. cli[p].name \in Containers
    BY <1>0, <1>4 DEF CommandOK, RegisterApp
  <2>3. AppName(cli[p].name) \in Names /\ DiscoverPort \in Ports
    BY <2>2, FlagsAssumption, DiscoverAssumption DEF AppName
  <2>4. ClientOK'
    BY <1>4, <2>3, RegisterTypes DEF RegisterApp
  <2> QED BY <1>4, <2>1, <2>4 DEF RegisterApp, ApiOnly, docker, DockerTypeOK
<1>5. CASE FinishDiscover(p)
  <2>1. Invocations' /\ OthersStay(p)
    BY <1>5, ScanGoesOn DEF FinishDiscover, ScanPcs
  <2> QED BY <1>5, <2>1 DEF FinishDiscover, client, ClientOK, ServerTypeOK, docker, DockerTypeOK
<1>6. CASE ListRunningContainers(p)
  <2>1. ClientOK' /\ DockerTypeOK'
    BY <1>6, FaultTypes DEF ListRunningContainers, AskOnly, DockerOnly, docker, DockerTypeOK
  <2>2. CASE Goto(p, "failed")
    BY <1>6, <2>1, <2>2, ScanGoesOn DEF ListRunningContainers, ScanPcs
  <2> DEFINE found == {c \in Containers \ Platform : ContainerIsRunning(c)}
  <2>3. CASE cli' = [cli EXCEPT ![p].pc = "scan", ![p].todo = found]
    <3>1. found \in SUBSET Containers /\ "scan" \in Pcs
      BY DEF Pcs
    <3> HIDE DEF found
    <3>2. [cli[p] EXCEPT !.pc = "scan", !.todo = found] \in CliState(Jobs)
      BY <1>0, <3>1 DEF CliState
    <3>3. /\ cli' \in [Clis -> CliState(Jobs)] /\ OthersStay(p)
          /\ cli'[p] = [cli[p] EXCEPT !.pc = "scan", !.todo = found]
      BY <2>3, <3>2 DEF Invocations, OthersStay
    <3>4. CommandOK(p)'
      BY <1>0, <1>6, <3>3 DEF ListRunningContainers, CommandOK, Deploying, Deployer, CliState,
                              DeployPcs, EvictPcs, ScanPcs
    <3> QED BY <2>1, <3>3, <3>4, OthersInOrder
  <2> QED BY <1>6, <2>2, <2>3 DEF ListRunningContainers
<1> QED BY <1>1, <1>2, <1>3, <1>4, <1>5, <1>6 DEF DiscoverNext

\* and a listing.
LEMMA ListTypes ==
  ASSUME EdgeOK, NEW p \in Clis, ListNext(p)
  PROVE  EdgeOK' /\ OthersStay(p)
<1>1. Invocations' /\ OthersStay(p)
  BY EndsAtOnce DEF EdgeOK, ListNext
<1>2. ClientOK'
  BY ReadTypes DEF EdgeOK, ListNext
<1> QED BY <1>1, <1>2 DEF EdgeOK, ListNext, ApiOnly, docker, DockerTypeOK

\* The history of containers that have stopped covers the events to come.
Histories == died \subseteq gone /\ gone \subseteq Containers

\* What happens to containers by themselves adds nothing to the histories.
LEMMA EventsKeepHistories ==
  ASSUME Histories, Events
  PROVE  Histories'
  BY DEF Histories, Events, Ended

\* Nothing has been done at first.
LEMMA InitEdgeOK == Init => EdgeOK /\ Histories
<1> SUFFICES ASSUME Init PROVE EdgeOK /\ Histories
  OBVIOUS
<1>1. Invocations
  <2>1. cli \in [Clis -> CliState(Jobs)]
    BY NewCliType DEF Init
  <2>2. ASSUME NEW p \in Clis PROVE CommandOK(p)
    <3>1. cli[p].pc = "start" /\ cli[p].names = <<>>
      BY NewCliType DEF Init, NewCli
    <3> QED BY <3>1 DEF CommandOK, Deploying, DeployPcs, EvictPcs, ScanPcs
  <2> QED BY <2>1, <2>2 DEF Invocations
<1>2. ClientOK
  BY ClientAssumption DEF Init, ServerInit, RegistryInit, ClientOK, ServerTypeOK
<1>3. DockerTypeOK
  <2>1. box \in [Containers -> {Absent, Stopped} \cup {RunningAt(a, "none") : a \in IPv4 \cup BadIps}]
    BY DEF Init, DockerInit
  <2>2. {Absent, Stopped} \cup {RunningAt(a, "none") : a \in IPv4 \cup BadIps}
          \subseteq [state : {"absent", "stopped", "running"},
                     ip : IPv4 \cup BadIps \cup {None}, image : Contents]
    BY DEF Absent, Stopped, RunningAt, Contents
  <2>3. network \in BOOLEAN /\ images \in [Tags -> Contents]
    BY DEF Init, DockerInit, Contents
  <2> QED BY <2>1, <2>2, <2>3 DEF DockerTypeOK
<1> QED BY <1>1, <1>2, <1>3 DEF Init, EdgeOK, Histories

\* A step of one invocation.
LEMMA CliTypes ==
  ASSUME EdgeOK, NEW p \in Clis, CliStep(p)
  PROVE  EdgeOK' /\ OthersStay(p)
  BY DeployTypes, EvictTypes, ScanTypes, ListTypes DEF CliStep

\* The other steps leave the invocations alone.
LEMMA WorldTypes ==
  ASSUME EdgeOK, DieStep \/ ServerStep \/ PurgeStep \/ WatchStep
  PROVE  EdgeOK' /\ UNCHANGED cli
<1>1. UNCHANGED cli /\ Invocations'
  BY DEF EdgeOK, DieStep, ServerStep, PurgeStep, WatchStep, HandleEvent, Invocations, CommandOK,
         Deploying, Deployer, RunsADeployment
<1>2. ClientOK'
  BY ClientAssumption
     DEF EdgeOK, DieStep, ServerStep, PurgeStep, WatchStep, HandleEvent, Outage, StopServer,
         StartServer, Evict, ClientOK, ServerTypeOK
<1>3. DockerTypeOK'
  <2>1. CASE DieStep
    BY <2>1, DaemonTypes DEF DieStep, EdgeOK
  <2>2. CASE UNCHANGED docker
    BY <2>2 DEF docker, DockerTypeOK, EdgeOK
  <2> QED BY <2>1, <2>2 DEF ServerStep, PurgeStep, WatchStep, HandleEvent
<1> QED BY <1>1, <1>2, <1>3 DEF EdgeOK

\* Every step keeps the types and the places.
LEMMA EdgeOKStays == EdgeOK /\ [Next]_vars => EdgeOK'
<1>1. EdgeOK /\ UNCHANGED vars => EdgeOK'
  BY DEF vars, client, docker, EdgeOK, Invocations, CommandOK, Deploying,
         Deployer, RunsADeployment, ClientOK, ServerTypeOK, DockerTypeOK
<1> QED BY <1>1, CliTypes, WorldTypes DEF Next

\* Every step of the edge keeps the types and what is recorded of it.
LEMMA NextEdgeOK == EdgeOK /\ Histories /\ [Next]_vars => (EdgeOK /\ Histories)'
<1> SUFFICES ASSUME EdgeOK, Histories, [Next]_vars PROVE Histories'
  BY EdgeOKStays
<1>1. CASE \E p \in Clis : CliStep(p)
  BY <1>1, EventsKeepHistories DEF CliStep
<1>2. CASE DieStep \/ ServerStep \/ PurgeStep \/ WatchStep \/ UNCHANGED vars
  BY <1>2, EventsKeepHistories
     DEF DieStep, ServerStep, PurgeStep, WatchStep, HandleEvent, Histories, vars
<1> QED BY <1>1, <1>2 DEF Next

\* Types, with what every invocation holds at the place where it is.
THEOREM EdgeOKCorrect == Spec => [](EdgeOK /\ Histories)
  BY InitEdgeOK, NextEdgeOK, PTL DEF Spec

\* The variables hold what the code and the bounds say they may: items that
\* were validated, containers with an address or without, and a deployment at
\* one of its replicas.
THEOREM ClusterTypeCorrect == Spec => []ClusterTypeOK
<1>1. EdgeOK /\ Histories => ClusterTypeOK
  BY DEF EdgeOK, Histories, ClusterTypeOK, ClientOK, Invocations, Jobs, CommandOK, Deploying,
         Deployer
<1> QED BY <1>1, EdgeOKCorrect, PTL

(***************************************************************************)
(* Containers that stay as they are, and places.                           *)
(***************************************************************************)

\* A removal removes a container, or fails: then it may have stopped it.
LEMMA StopsOne ==
  ASSUME NEW c \in Containers, StopAndRemoveContainer(c)
  PROVE  /\ UNCHANGED <<network, images, server>>
         /\ \/ UNCHANGED <<faults, outages>> /\ box' = [box EXCEPT ![c] = Absent]
            \/ Fault /\ UNCHANGED box
            \/ Fault /\ box' = [box EXCEPT ![c] = Stopped]
  BY DEF StopAndRemoveContainer, RemoveContainer, Fails, Die, NoFault, Fault, docker

\* docker run leaves what exists alone; what it starts is inspected, or
\* a fault has hidden that it runs.
LEMMA RunsOne ==
  ASSUME NEW p \in Clis, RunContainer(p)
  PROVE  /\ UNCHANGED <<network, images>>
         /\ \/ UNCHANGED box /\ Goto(p, "failed")
            \/ /\ ~ContainerExists(Instance(p)) /\ Goto(p, "failed")
               /\ box' = [box EXCEPT ![Instance(p)] = Stopped]
            \/ StartNew(Instance(p), cli[p].tag) /\ Goto(p, "inspect")
            \/ StartNew(Instance(p), cli[p].tag) /\ Goto(p, "failed") /\ Fault
<1>1. CASE \E ok \in BOOLEAN : /\ NoFault /\ DockerRun(Instance(p), cli[p].tag, ok)
                              /\ Goto(p, IF ok THEN "inspect" ELSE "failed")
  <2>1. PICK ok \in BOOLEAN : /\ DockerRun(Instance(p), cli[p].tag, ok)
                             /\ Goto(p, IF ok THEN "inspect" ELSE "failed")
    BY <1>1
  <2>2. CASE ok
    BY <2>1, <2>2 DEF DockerRun, StartNew
  <2>3. CASE ~ok
    BY <2>1, <2>3 DEF DockerRun, CreateContainer, docker
  <2> QED BY <2>2, <2>3
<1>2. CASE Fails(CreateContainer(Instance(p)) \/ StartNew(Instance(p), cli[p].tag)) /\ Goto(p, "failed")
  BY <1>2 DEF Fails, CreateContainer, StartNew, docker
<1> QED BY <1>1, <1>2 DEF RunContainer

\* A running container that does not stop in a step is not changed by it.
LEMMA RunningStays ==
  ASSUME EdgeOK, [Next]_vars, NEW c \in Containers, ContainerIsRunning(c), c \notin gone'
  PROVE  c \notin gone /\ box'[c] = box[c]
<1>1. CASE UNCHANGED <<box, gone>>
  BY <1>1
<1>2. ASSUME Events, NEW d \in Containers,
             \/ UNCHANGED box
             \/ box' = [box EXCEPT ![d] = Absent]
             \/ box' = [box EXCEPT ![d] = Stopped]
             \/ ~ContainerExists(d) /\ \E x : box' = [box EXCEPT ![d] = x]
      PROVE  c \notin gone /\ box'[c] = box[c]
  <2>1. c \notin gone /\ box'[c].state = "running"
    BY <1>2 DEF Events, Ended, ContainerIsRunning
  <2> QED BY <1>2, <2>1 DEF EdgeOK, DockerTypeOK, ContainerExists, ContainerIsRunning, Absent,
                            Stopped
<1>3. ASSUME NEW p \in Clis, CliStep(p) PROVE c \notin gone /\ box'[c] = box[c]
  <2>1. Events
    BY <1>3 DEF CliStep
  <2>2. ASSUME UNCHANGED box PROVE c \notin gone /\ box'[c] = box[c]
    BY <1>2, <2>1, <2>2
  <2>3. CASE DeployNext(p)
    <3>1. CASE Cleanup(p) \/ RunContainer(p) \/ Abort(p)
      <4>1. Instance(p) \in Containers
        BY <3>1, AtAReplica DEF EdgeOK, Invocations, CommandOK, Cleanup, RunContainer, Abort, At,
                                DeployPcs
      <4>2. CASE Cleanup(p) \/ Abort(p)
        <5>1. StopAndRemoveContainer(Instance(p))
          BY <4>2 DEF Cleanup, Abort
        <5> QED BY <1>2, <2>1, <4>1, <5>1, StopsOne
      <4>3. CASE RunContainer(p)
        BY <1>2, <2>1, <4>1, <4>3, RunsOne DEF StartNew
      <4> QED BY <3>1, <4>2, <4>3
    <3> QED BY <2>2, <2>3, <3>1
            DEF DeployNext, StartDeploy, FindImage, LoginToRegistry, PullImage, BuildImage,
                CheckRunning, CheckExists, CheckStopped, FindNetwork, CreateNetwork, Inspect,
                WaitForReadiness, RegisterInstance, ApiOnly, AskOnly, docker, Fails, SetImage,
                NetworkCreate
  <2>4. CASE DeregisterNext(p)
    <3>1. CASE StopTarget(p)
      <4>1. cli[p].name \in Containers /\ StopAndRemoveContainer(cli[p].name)
        BY <3>1 DEF EdgeOK, Invocations, CommandOK, StopTarget, At
      <4> QED BY <1>2, <2>1, <4>1, StopsOne
    <3> QED BY <2>2, <2>4, <3>1
            DEF DeregisterNext, StartDeregister, ResolveTarget, EvictTarget,
                WaitForBackendDrain, FindTarget, ApiOnly, AskOnly, docker
  <2>5. CASE DiscoverNext(p) \/ ListNext(p)
    BY <2>2, <2>5
       DEF DiscoverNext, StartDiscover, ListRunningContainers, InspectApp, ProbeHealthEndpoint,
           RegisterApp, FinishDiscover, ListNext, ApiOnly, AskOnly, docker
  <2> QED BY <1>3, <2>3, <2>4, <2>5 DEF CliStep
<1>4. CASE DieStep
  BY <1>2, <1>4 DEF DieStep, Die
<1>5. CASE ServerStep \/ PurgeStep \/ WatchStep \/ UNCHANGED vars
  BY <1>1, <1>5 DEF ServerStep, PurgeStep, WatchStep, HandleEvent, docker, vars
<1> QED BY <1>3, <1>4, <1>5 DEF Next

\* The commands keep to places of their own.
LEMMA DeployPlaces ==
  ASSUME Invocations, NEW p \in Clis, DeployNext(p)
  PROVE  cli'[p].pc \in DeployPcs \cup {"failed"}
<1>1. ASSUME NEW s, Goto(p, s) PROVE cli'[p].pc = s
  BY <1>1 DEF Goto, Invocations, CliState
<1>2. CASE StartDeploy(p)
  <2>1. CASE Goto(p, "failed")
    BY <1>1, <2>1
  <2>2. CASE \E a \in Deployments[p] : \E base \in BaseNames(a) :
               cli' = [cli EXCEPT ![p] = [NewCli EXCEPT
                         !.pc = IF a.image # None THEN "image" ELSE "build", !.job = a,
                         !.names = InstanceNames(a, base), !.tag = ImageTag(a, base)]]
    BY <2>2 DEF Invocations, NewCli, DeployPcs
  <2> QED BY <1>2, <2>1, <2>2 DEF StartDeploy
<1>3. CASE FindImage(p) \/ LoginToRegistry(p) \/ PullImage(p) \/ BuildImage(p)
  BY <1>1, <1>3 DEF FindImage, LoginToRegistry, PullImage, BuildImage, DeployPcs
<1>4. CASE CheckRunning(p) \/ CheckExists(p) \/ CheckStopped(p) \/ Cleanup(p)
  BY <1>1, <1>4 DEF CheckRunning, CheckExists, CheckStopped, Cleanup, DeployPcs
<1>5. CASE FindNetwork(p) \/ CreateNetwork(p) \/ RunContainer(p)
  BY <1>1, <1>5 DEF FindNetwork, CreateNetwork, RunContainer, DeployPcs
<1>6. CASE Inspect(p) \/ WaitForReadiness(p) \/ Abort(p)
  BY <1>1, <1>6 DEF Inspect, WaitForReadiness, Abort, DeployPcs, Invocations, CliState
<1>7. CASE RegisterInstance(p)
  BY <1>1, <1>7 DEF RegisterInstance, NextReplica, DeployPcs, Invocations, CliState
<1> QED BY <1>2, <1>3, <1>4, <1>5, <1>6, <1>7 DEF DeployNext

\* Where a step of deregister may lead.
LEMMA EvictPlaces ==
  ASSUME Invocations, NEW p \in Clis, DeregisterNext(p)
  PROVE  cli'[p].pc \in EvictPcs \cup {"failed"}
<1>1. ASSUME NEW s, Goto(p, s) PROVE cli'[p].pc = s
  BY <1>1 DEF Goto, Invocations, CliState
<1>2. CASE StartDeregister(p)
  BY <1>2 DEF StartDeregister, NewCli, EvictPcs, Invocations
<1>3. CASE ResolveTarget(p)
  <2>1. CASE cli' = [cli EXCEPT ![p].pc = "evict", ![p].ip = box[cli[p].name].ip]
    BY <2>1 DEF Invocations, CliState, EvictPcs
  <2> QED BY <1>1, <1>3, <2>1 DEF ResolveTarget
<1>4. CASE FindTarget(p)
  <2>1. ASSUME NEW c, cli' = [cli EXCEPT ![p].pc = "stop", ![p].name = c]
        PROVE  cli'[p].pc \in EvictPcs
    BY <2>1 DEF Invocations, CliState, EvictPcs
  <2>2. \/ \E c : cli' = [cli EXCEPT ![p].pc = "stop", ![p].name = c]
        \/ Goto(p, "stop") \/ Goto(p, "evicted")
    BY <1>4 DEF FindTarget
  <2> QED BY <1>1, <2>1, <2>2 DEF EvictPcs
<1>5. CASE EvictTarget(p) \/ WaitForBackendDrain(p) \/ StopTarget(p)
  BY <1>1, <1>5 DEF EvictTarget, WaitForBackendDrain, StopTarget, EvictPcs
<1> QED BY <1>2, <1>3, <1>4, <1>5 DEF DeregisterNext

\* Where a step of discover or of list may lead.
LEMMA ScanPlaces ==
  ASSUME Invocations, NEW p \in Clis, DiscoverNext(p) \/ ListNext(p)
  PROVE  cli'[p].pc \in ScanPcs \cup {"failed", "listed"}
<1>1. ASSUME NEW s, Goto(p, s) PROVE cli'[p].pc = s
  BY <1>1 DEF Goto, Invocations, CliState
<1>2. CASE StartDiscover(p) \/ ListNext(p)
  BY <1>1, <1>2 DEF StartDiscover, ListNext, Scanning, NewCli, ScanPcs, Invocations
<1>3. CASE InspectApp(p)
  <2>1. PICK c \in cli[p].todo :
          \/ cli' = [cli EXCEPT ![p].pc = "probe_app", ![p].name = c, ![p].ip = box[c].ip,
                                ![p].at = 1, ![p].todo = @ \ {c}]
          \/ cli' = [cli EXCEPT ![p].todo = @ \ {c}]
    BY <1>3 DEF InspectApp
  <2>2. cli'[p].pc \in {"probe_app", cli[p].pc}
    BY <2>1 DEF Invocations, CliState
  <2> QED BY <1>3, <2>2 DEF InspectApp, At, ScanPcs
<1>4. CASE RegisterApp(p) \/ FinishDiscover(p)
  BY <1>1, <1>4 DEF RegisterApp, FinishDiscover, ScanPcs
<1>5. CASE ListRunningContainers(p)
  <2> DEFINE found == {c \in Containers \ Platform : ContainerIsRunning(c)}
  <2>1. CASE Goto(p, "failed")
    BY <1>1, <2>1
  <2>2. CASE cli' = [cli EXCEPT ![p].pc = "scan", ![p].todo = found]
    <3> HIDE DEF found
    <3> QED BY <2>2 DEF ScanPcs, Invocations, CliState
  <2> QED BY <1>5, <2>1, <2>2 DEF ListRunningContainers
<1>6. CASE ProbeHealthEndpoint(p)
  <2>1. CASE Goto(p, "register_app") \/ Goto(p, "scan")
    BY <1>1, <2>1 DEF ScanPcs
  <2>2. CASE cli' = [cli EXCEPT ![p].at = @ + 1]
    BY <1>6, <2>2 DEF ProbeHealthEndpoint, At, ScanPcs, Invocations, CliState
  <2> QED BY <1>6, <2>1, <2>2 DEF ProbeHealthEndpoint
<1> QED BY <1>2, <1>3, <1>4, <1>5, <1>6 DEF DiscoverNext
==============================================================================
