---------------------------- MODULE DeployProofs -----------------------------
(***************************************************************************)
(* What holds of any number of deployments at the same time, beside any    *)
(* other commands: what a failed one leaves, what one removes, and what    *)
(* one that has succeeded serves.                                          *)
(***************************************************************************)
EXTENDS EdgeProofs

Deployers == {p \in Clis : "deploy" \in Commands[p]}

\* Deployments of different invocations have containers of different names.
NamesApart ==
  \A p, q \in Deployers : p # q =>
    \A a \in Deployments[p], d \in Deployments[q] :
      \A b \in BaseNames(a), e \in BaseNames(d) :
        \A i \in DOMAIN InstanceNames(a, b), j \in DOMAIN InstanceNames(d, e) :
          InstanceNames(a, b)[i] # InstanceNames(d, e)[j]

\* They share a tag only if neither builds it.
TagsApart ==
  \A p, q \in Deployers : p # q =>
    \A a \in Deployments[p], d \in Deployments[q] :
      \A b \in BaseNames(a), e \in BaseNames(d) :
        ImageTag(a, b) = ImageTag(d, e) => a.image # None /\ d.image # None

(***************************************************************************)
(* The steps of a deployment.                                              *)
(***************************************************************************)

\* The deployments that are under way have different containers.
LEMMA NamesDiffer ==
  ASSUME NamesApart, Invocations, NEW p \in Clis, NEW q \in Clis, p # q,
         Deploying(p), Deploying(q),
         NEW i \in 1..Len(cli[p].names), NEW j \in 1..Len(cli[q].names)
  PROVE  cli[p].names[i] # cli[q].names[j]
<1>1. Deployer(p) /\ Deployer(q)
  BY DEF Invocations, CommandOK
<1>2. p \in Deployers /\ q \in Deployers
  BY <1>1 DEF Deployer, Deployers
<1>3. PICK a \in Deployments[p] : \E b \in BaseNames(a) : cli[p].names = InstanceNames(a, b)
  BY <1>1 DEF Deployer, RunsADeployment
<1>4. PICK b \in BaseNames(a) : cli[p].names = InstanceNames(a, b)
  BY <1>3
<1>5. PICK d \in Deployments[q] : \E e \in BaseNames(d) : cli[q].names = InstanceNames(d, e)
  BY <1>1 DEF Deployer, RunsADeployment
<1>6. PICK e \in BaseNames(d) : cli[q].names = InstanceNames(d, e)
  BY <1>5
<1>7. i \in DOMAIN InstanceNames(a, b) /\ j \in DOMAIN InstanceNames(d, e)
  BY <1>4, <1>6, AtAReplica
<1> QED BY <1>2, <1>4, <1>6, <1>7 DEF NamesApart

\* If two of them use one tag, then both run what a registry serves.
LEMMA TagsDiffer ==
  ASSUME TagsApart, Invocations, NEW p \in Clis, NEW q \in Clis, p # q,
         Deploying(p), Deploying(q), cli[p].tag = cli[q].tag
  PROVE  cli[p].job.image # None /\ cli[q].job.image # None
<1>1. Deployer(p) /\ Deployer(q)
  BY DEF Invocations, CommandOK
<1>2. p \in Deployers /\ q \in Deployers
  BY <1>1 DEF Deployer, Deployers
<1>3. PICK a \in Deployments[p] : \E b \in BaseNames(a) :
         cli[p].job = a /\ cli[p].tag = ImageTag(a, b)
  BY <1>1 DEF Deployer, RunsADeployment
<1>4. PICK b \in BaseNames(a) : cli[p].job = a /\ cli[p].tag = ImageTag(a, b)
  BY <1>3
<1>5. PICK d \in Deployments[q] : \E e \in BaseNames(d) :
         cli[q].job = d /\ cli[q].tag = ImageTag(d, e)
  BY <1>1 DEF Deployer, RunsADeployment
<1>6. PICK e \in BaseNames(d) : cli[q].job = d /\ cli[q].tag = ImageTag(d, e)
  BY <1>5
<1> QED BY <1>2, <1>4, <1>6 DEF TagsApart

\* A step of an invocation that deploys is one of these.
DeployStep(p) ==
  \/ FindImage(p) \/ LoginToRegistry(p) \/ PullImage(p) \/ BuildImage(p)
  \/ CheckRunning(p) \/ CheckExists(p) \/ CheckStopped(p) \/ Cleanup(p)
  \/ FindNetwork(p) \/ CreateNetwork(p) \/ RunContainer(p)
  \/ Inspect(p) \/ WaitForReadiness(p) \/ RegisterInstance(p) \/ Abort(p)

\* Every step of a deploying invocation is one of deploy.go.
LEMMA StepsOfADeployment ==
  ASSUME Invocations, NEW p \in Clis, CliStep(p), Deploying(p)
  PROVE  DeployStep(p)
<1>1. cli[p].pc \in DeployPcs \cup {"failed"}
  BY DEF Invocations, CommandOK, Deployer
<1>2. ~StartDeploy(p) /\ ~DeregisterNext(p) /\ ~DiscoverNext(p) /\ ~ListNext(p)
  BY <1>1 DEF StartDeploy, DeregisterNext, StartDeregister, ResolveTarget, EvictTarget,
       WaitForBackendDrain, FindTarget, StopTarget, DiscoverNext, StartDiscover,
       ListRunningContainers, InspectApp, ProbeHealthEndpoint, RegisterApp, FinishDiscover,
       ListNext, At, DeployPcs
<1> QED BY <1>2 DEF CliStep, DeployNext, DeployStep

\* p goes to s, by an action that leads there.
Leads(p, s) ==
  /\ Goto(p, s)
  /\ s \notin {"image", "build", "probe"}
  /\ s \in {"login", "pull"} => FindImage(p) \/ LoginToRegistry(p)
  /\ s = "exists" => CheckRunning(p)
  /\ s = "stopped" => CheckExists(p)
  /\ s = "cleanup" => CheckStopped(p)
  /\ s = "inspect" => RunContainer(p)
  /\ s = "register" => WaitForReadiness(p)
  /\ s = "deployed" => RegisterInstance(p)

\* A step of a deployment leads to such a place, to the probe, or to the next
\* replica.
LEMMA WaysToGo ==
  ASSUME NEW p \in Clis, DeployStep(p)
  PROVE  \/ Inspect(p) /\ cli' = [cli EXCEPT ![p].pc = "probe", ![p].ip = box[Instance(p)].ip]
         \/ RegisterInstance(p) /\ NextReplica(p)
         \/ \E s : Leads(p, s)
<1>1. CASE FindImage(p)
  <2>1. Goto(p, "check") \/ Goto(p, "login") \/ Goto(p, "pull")
    BY <1>1 DEF FindImage
  <2>2. Leads(p, "check") \/ Leads(p, "login") \/ Leads(p, "pull")
    BY <1>1, <2>1 DEF Leads
  <2> QED BY <2>2
<1>2. CASE LoginToRegistry(p) \/ PullImage(p) \/ BuildImage(p)
  <2>1. (LoginToRegistry(p) /\ Goto(p, "pull")) \/ Goto(p, "check") \/ Goto(p, "failed")
    BY <1>2 DEF LoginToRegistry, PullImage, BuildImage
  <2>2. Leads(p, "pull") \/ Leads(p, "check") \/ Leads(p, "failed")
    BY <2>1 DEF Leads
  <2> QED BY <2>2
<1>3. CASE CheckRunning(p) \/ CheckExists(p) \/ CheckStopped(p)
  <2>1. CheckRunning(p) => Goto(p, "failed") \/ Goto(p, "exists")
    BY DEF CheckRunning
  <2>2. CheckExists(p) => Goto(p, "stopped") \/ Goto(p, "network")
    BY DEF CheckExists
  <2>3. CheckStopped(p) => Goto(p, "network") \/ Goto(p, "cleanup")
    BY DEF CheckStopped
  <2>4. \/ Leads(p, "failed") \/ Leads(p, "exists") \/ Leads(p, "stopped")
        \/ Leads(p, "network") \/ Leads(p, "cleanup")
    BY <1>3, <2>1, <2>2, <2>3 DEF Leads
  <2> QED BY <2>4
<1>4. CASE Cleanup(p) \/ FindNetwork(p) \/ CreateNetwork(p) \/ Abort(p)
  <2>1. Goto(p, "network") \/ Goto(p, "run") \/ Goto(p, "create") \/ Goto(p, "failed")
    BY <1>4 DEF Cleanup, FindNetwork, CreateNetwork, Abort
  <2>2. Leads(p, "network") \/ Leads(p, "run") \/ Leads(p, "create") \/ Leads(p, "failed")
    BY <2>1 DEF Leads
  <2> QED BY <2>2
<1>5. CASE RunContainer(p)
  <2>1. Goto(p, "inspect") \/ Goto(p, "failed")
    BY <1>5, RunsOne
  <2>2. Leads(p, "inspect") \/ Leads(p, "failed")
    BY <1>5, <2>1 DEF Leads
  <2> QED BY <2>2
<1>6. CASE Inspect(p)
  <2>1. Goto(p, "abort") => Leads(p, "abort")
    BY DEF Leads
  <2> QED BY <1>6, <2>1 DEF Inspect
<1>7. CASE WaitForReadiness(p)
  <2>1. Goto(p, "register") \/ Goto(p, "abort")
    BY <1>7 DEF WaitForReadiness
  <2>2. Leads(p, "register") \/ Leads(p, "abort")
    BY <1>7, <2>1 DEF Leads
  <2> QED BY <2>2
<1>8. CASE RegisterInstance(p)
  <2>1. Goto(p, "abort") \/ Goto(p, "deployed") \/ NextReplica(p)
    BY <1>8 DEF RegisterInstance
  <2>2. Leads(p, "abort") \/ Leads(p, "deployed") \/ NextReplica(p)
    BY <1>8, <2>1 DEF Leads
  <2> QED BY <1>8, <2>2
<1> QED BY <1>1, <1>2, <1>3, <1>4, <1>5, <1>6, <1>7, <1>8 DEF DeployStep

\* A container is at hand from docker run to the end.
Started == {"inspect", "probe", "register", "abort", "deployed"}

\* Where a step takes a deployment.
LEMMA WhereDeploymentsGo ==
  ASSUME EdgeOK, NEW p \in Clis, DeployStep(p)
  PROVE  /\ Deploying(p) /\ cli'[p].names = cli[p].names
         /\ cli'[p].job = cli[p].job /\ cli'[p].tag = cli[p].tag
         /\ \/ /\ cli'[p].at = cli[p].at
               /\ \/ cli[p].pc \notin Started
                  \/ cli'[p].pc \in Started
                  \/ At(p, "abort") /\ cli'[p].pc = "failed" /\ Abort(p)
            \/ At(p, "register") /\ cli'[p].at = cli[p].at + 1 /\ cli'[p].pc = "check"
<1>0. cli[p] \in CliState(Jobs) /\ CommandOK(p)
  BY DEF EdgeOK, Invocations
<1>1. ASSUME NEW s, Goto(p, s)
      PROVE  /\ cli'[p].names = cli[p].names /\ cli'[p].job = cli[p].job
             /\ cli'[p].tag = cli[p].tag /\ cli'[p].at = cli[p].at /\ cli'[p].pc = s
  BY <1>0, <1>1 DEF Goto, EdgeOK, Invocations, CliState
<1>2. cli[p].pc \in DeployPcs
  BY DEF DeployStep, FindImage, LoginToRegistry, PullImage, BuildImage, CheckRunning,
         CheckExists, CheckStopped, Cleanup, FindNetwork, CreateNetwork, RunContainer, Inspect,
         WaitForReadiness, RegisterInstance, Abort, At, DeployPcs
<1>3. Deploying(p)
  BY <1>0, <1>2 DEF CommandOK
<1>4. CASE \/ FindImage(p) \/ LoginToRegistry(p) \/ PullImage(p) \/ BuildImage(p)
           \/ CheckRunning(p) \/ CheckExists(p) \/ CheckStopped(p) \/ Cleanup(p)
           \/ FindNetwork(p) \/ CreateNetwork(p) \/ RunContainer(p)
  <2>1. PICK s : Goto(p, s)
    BY <1>4 DEF FindImage, LoginToRegistry, PullImage, BuildImage, CheckRunning,
         CheckExists, CheckStopped, Cleanup, FindNetwork, CreateNetwork, RunContainer
  <2>2. cli[p].pc \notin Started
    BY <1>4 DEF FindImage, LoginToRegistry, PullImage, BuildImage, CheckRunning,
         CheckExists, CheckStopped, Cleanup, FindNetwork, CreateNetwork, RunContainer, At, Started
  <2> QED BY <1>1, <1>3, <2>1, <2>2
<1>5. CASE WaitForReadiness(p) \/ Abort(p)
  BY <1>1, <1>3, <1>5 DEF WaitForReadiness, Abort, Started
<1>6. CASE Inspect(p)
  <2>1. CASE Goto(p, "abort")
    BY <1>1, <1>3, <2>1 DEF Started
  <2>2. CASE cli' = [cli EXCEPT ![p].pc = "probe", ![p].ip = box[Instance(p)].ip]
    BY <1>0, <1>3, <2>2 DEF EdgeOK, Invocations, CliState, Started
  <2> QED BY <1>6, <2>1, <2>2 DEF Inspect
<1>7. CASE RegisterInstance(p)
  <2>1. CASE Goto(p, "abort") \/ Goto(p, "deployed")
    BY <1>1, <1>3, <2>1 DEF Started
  <2>2. CASE NextReplica(p)
    BY <1>0, <1>3, <1>7, <2>2 DEF NextReplica, RegisterInstance, EdgeOK, Invocations, CliState
  <2> QED BY <1>7, <2>1, <2>2 DEF RegisterInstance
<1> QED BY <1>4, <1>5, <1>6, <1>7 DEF DeployStep

\* An invocation that deploys is at rest or goes on.
LEMMA DeploymentsRest ==
  ASSUME EdgeOK, [Next]_vars, NEW p \in Clis, Deploying(p)
  PROVE  cli'[p] = cli[p] \/ DeployStep(p)
<1>1. CASE CliStep(p)
  BY <1>1, StepsOfADeployment DEF EdgeOK
<1>2. ASSUME NEW q \in Clis \ {p}, CliStep(q) PROVE cli'[p] = cli[p]
  BY <1>2, CliTypes DEF OthersStay
<1>3. CASE DieStep \/ ServerStep \/ PurgeStep \/ WatchStep \/ UNCHANGED vars
  BY <1>3, WorldTypes DEF vars
<1> QED BY <1>1, <1>2, <1>3 DEF Next

(***************************************************************************)
(* What containers become.                                                 *)
(***************************************************************************)

\* Starts(p, c): docker run of p starts c, and says so or fails.
Starts(p, c) ==
  /\ RunContainer(p) /\ c = Instance(p)
  /\ Goto(p, "inspect") \/ (Goto(p, "failed") /\ Fault)
  /\ box[c].state = "absent"
  /\ box'[c].state = "running" /\ box'[c].image = images[cli[p].tag]

\* In a step a container stays as it is, or does not run any more and holds no
\* image, or is started by a deployment.
LEMMA WhatContainersBecome ==
  ASSUME EdgeOK, [Next]_vars, NEW c \in Containers
  PROVE  \/ box'[c] = box[c]
         \/ box'[c].state # "running" /\ box'[c].image = "none"
         \/ \E p \in Clis : Starts(p, c)
<1>1. CASE UNCHANGED box
  BY <1>1
<1>2. ASSUME NEW d \in Containers, \/ UNCHANGED box
                                   \/ box' = [box EXCEPT ![d] = Absent]
                                   \/ box' = [box EXCEPT ![d] = Stopped]
      PROVE  \/ box'[c] = box[c]
             \/ box'[c].state # "running" /\ box'[c].image = "none"
  BY <1>2 DEF EdgeOK, DockerTypeOK, Absent, Stopped
<1>3. ASSUME NEW p \in Clis, DeployNext(p)
      PROVE  \/ box'[c] = box[c]
             \/ box'[c].state # "running" /\ box'[c].image = "none"
             \/ \E q \in Clis : Starts(q, c)
  <2>1. CASE RunContainer(p)
    <3>1. Instance(p) \in Containers
      BY <2>1, AtAReplica DEF EdgeOK, Invocations, CommandOK, RunContainer, At, DeployPcs
    <3>2. CASE UNCHANGED box \/ box' = [box EXCEPT ![Instance(p)] = Stopped]
      BY <1>2, <3>1, <3>2
    <3>3. CASE /\ StartNew(Instance(p), cli[p].tag)
               /\ Goto(p, "inspect") \/ (Goto(p, "failed") /\ Fault)
      <4>1. CASE c = Instance(p)
        <5>1. /\ box[c].state = "absent" /\ box'[c].state = "running"
              /\ box'[c].image = images[cli[p].tag]
          BY <3>3, <4>1 DEF StartNew, ContainerExists, EdgeOK, DockerTypeOK, RunningAt
        <5>2. Starts(p, c)
          BY <2>1, <3>3, <4>1, <5>1 DEF Starts
        <5> QED BY <5>2
      <4>2. CASE c # Instance(p)
        BY <3>3, <4>2 DEF StartNew, EdgeOK, DockerTypeOK
      <4> QED BY <4>1, <4>2
    <3> QED BY <2>1, <3>2, <3>3, RunsOne
  <2>2. CASE Cleanup(p) \/ Abort(p)
    <3>1. Instance(p) \in Containers /\ StopAndRemoveContainer(Instance(p))
      BY <2>2, AtAReplica DEF EdgeOK, Invocations, CommandOK, Cleanup, Abort, At, DeployPcs
    <3> QED BY <1>2, <3>1, StopsOne
  <2>3. CASE UNCHANGED box
    BY <2>3
  <2> QED BY <1>3, <2>1, <2>2, <2>3
          DEF DeployNext, StartDeploy, FindImage, LoginToRegistry, PullImage, BuildImage,
              CheckRunning, CheckExists, CheckStopped, FindNetwork, CreateNetwork, Inspect,
              WaitForReadiness, RegisterInstance, ApiOnly, AskOnly, docker, Fails, SetImage,
              NetworkCreate
<1>4. ASSUME NEW p \in Clis, DeregisterNext(p)
      PROVE  UNCHANGED box \/ \E d \in Containers : StopAndRemoveContainer(d)
  <2>1. CASE StopTarget(p)
    BY <2>1 DEF EdgeOK, Invocations, CommandOK, StopTarget, At
  <2> QED BY <1>4, <2>1
          DEF DeregisterNext, StartDeregister, ResolveTarget, EvictTarget,
              WaitForBackendDrain, FindTarget, ApiOnly, AskOnly, docker
<1>5. ASSUME NEW p \in Clis, DiscoverNext(p) \/ ListNext(p) PROVE UNCHANGED box
  BY <1>5 DEF DiscoverNext, StartDiscover, ListRunningContainers, InspectApp,
              ProbeHealthEndpoint, RegisterApp, FinishDiscover, ListNext, ApiOnly, AskOnly, docker
<1>6. CASE \E p \in Clis : CliStep(p)
  BY <1>1, <1>2, <1>3, <1>4, <1>5, <1>6, StopsOne DEF CliStep
<1>7. CASE DieStep
  BY <1>2, <1>7 DEF DieStep, Die
<1>8. CASE ServerStep \/ PurgeStep \/ WatchStep \/ UNCHANGED vars
  BY <1>1, <1>8 DEF ServerStep, PurgeStep, WatchStep, HandleEvent, docker, vars
<1> QED BY <1>6, <1>7, <1>8 DEF Next

(***************************************************************************)
(* A failed deployment.                                                    *)
(***************************************************************************)

\* c is a replica that p has started and not given up.
Claims(p, c) ==
  /\ Deploying(p)
  /\ \E k \in 1..Len(cli[p].names) :
       /\ cli[p].names[k] = c
       /\ k < cli[p].at \/ (k = cli[p].at /\ cli[p].pc \in Started)

\* c is the replica at which p has failed, and may have been left.
Left(p, c) == Deploying(p) /\ At(p, "failed") /\ Instance(p) = c

\* What runs the image of a deployment, some deployment answers for.
ImagesClaimed ==
  \A c \in Containers : box[c].image # "none" => \E p \in Clis : Claims(p, c) \/ Left(p, c)

\* A deployment gives a container up only by removing it, or trying to.
LEMMA ClaimsStay ==
  ASSUME EdgeOK, [Next]_vars, NEW p \in Clis, NEW c \in Containers, Claims(p, c) \/ Left(p, c)
  PROVE  (Claims(p, c) \/ Left(p, c))'
<1>1. CASE cli'[p] = cli[p]
  BY <1>1 DEF Claims, Left, Deploying, At, Instance
<1>2. CASE DeployStep(p)
  <2>0. ~Left(p, c)
    BY <1>2 DEF Left, At, DeployStep, FindImage, LoginToRegistry, PullImage, BuildImage,
         CheckRunning, CheckExists, CheckStopped, Cleanup, FindNetwork, CreateNetwork,
         RunContainer, Inspect, WaitForReadiness, RegisterInstance, Abort
  <2>1. PICK k \in 1..Len(cli[p].names) :
          /\ cli[p].names[k] = c
          /\ k < cli[p].at \/ (k = cli[p].at /\ cli[p].pc \in Started)
    BY <2>0 DEF Claims
  <2>2. cli[p].at \in 1..Len(cli[p].names) /\ Len(cli[p].names) \in Nat
    BY AtAReplica DEF EdgeOK, Claims, Left
  <2>3. cli'[p].names = cli[p].names
    BY <1>2, WhereDeploymentsGo
  <2>4. CASE k = cli[p].at /\ cli'[p].at = cli[p].at /\ cli'[p].pc = "failed"
    BY <2>0, <2>1, <2>3, <2>4 DEF Claims, Left, Deploying, Instance, At
  <2>5. CASE k < cli'[p].at \/ (k = cli'[p].at /\ cli'[p].pc \in Started)
    BY <2>0, <2>1, <2>3, <2>5 DEF Claims, Deploying
  <2>6. \/ cli'[p].at = cli[p].at
        \/ cli'[p].at = cli[p].at + 1
    BY <1>2, WhereDeploymentsGo
  <2> QED BY <1>2, <2>1, <2>2, <2>4, <2>5, <2>6, WhereDeploymentsGo
<1> QED BY <1>1, <1>2, DeploymentsRest DEF Claims, Left

\* What a step runs, the deployment that runs it answers for.
LEMMA NextImagesClaimed == EdgeOK /\ ImagesClaimed /\ [Next]_vars => ImagesClaimed'
<1> SUFFICES ASSUME EdgeOK, ImagesClaimed, [Next]_vars,
                    NEW c \in Containers, box'[c].image # "none"
             PROVE  \E p \in Clis : (Claims(p, c) \/ Left(p, c))'
  BY DEF ImagesClaimed
<1>1. CASE box'[c] = box[c]
  <2>1. PICK p \in Clis : Claims(p, c) \/ Left(p, c)
    BY <1>1 DEF ImagesClaimed
  <2> QED BY <2>1, ClaimsStay
<1>2. CASE \E p \in Clis : Starts(p, c)
  <2>1. PICK p \in Clis : Starts(p, c)
    BY <1>2
  <2>2. DeployStep(p) /\ At(p, "run")
    BY <2>1 DEF Starts, DeployStep, RunContainer
  <2>3. cli'[p].pc \in {"inspect", "failed"}
    BY <2>1 DEF Starts, Goto, EdgeOK, Invocations, CliState
  <2>4. Deploying(p) /\ cli'[p].names = cli[p].names /\ cli'[p].at = cli[p].at
    BY <2>2, WhereDeploymentsGo DEF At
  <2>5. cli[p].at \in 1..Len(cli[p].names) /\ cli[p].names[cli[p].at] = c
    BY <2>1, <2>4, AtAReplica DEF EdgeOK, Starts, Instance
  <2> QED BY <2>3, <2>4, <2>5 DEF Claims, Left, Deploying, Started, At, Instance
<1> QED BY <1>1, <1>2, WhatContainersBecome

\* Some deployment answers for every container, in every reachable state.
LEMMA ImagesClaimedCorrect == Spec => []ImagesClaimed
<1>1. Init => ImagesClaimed
  BY DEF Init, DockerInit, ImagesClaimed, Absent, Stopped, RunningAt
<1> QED BY <1>1, NextImagesClaimed, EdgeOKCorrect, PTL DEF Spec

\* A deployment that fails, at whatever step, leaves nothing running of the
\* replica it is at or of those after it: whatever other commands do, whatever
\* dies or has failed before, as long as no other deployment uses its names,
\* and unless the very docker run or docker rm that ends it fails by chance.
THEOREM FailedDeployCleansUpCorrect ==
  ASSUME NamesApart
  PROVE  Spec => FailedDeployCleansUp
<1>1. ASSUME EdgeOK, ImagesClaimed, [Next]_vars, NEW p \in Clis,
             Deploying(p), ~At(p, "failed"), At(p, "failed")',
             cli[p].pc \in {"run", "abort"} => faults' = faults,
             NEW k \in cli[p].at..Len(cli[p].names)
      PROVE  box'[cli[p].names[k]].image = "none"
  <2> DEFINE c == cli[p].names[k]
  <2> SUFFICES ASSUME box'[c].image # "none" PROVE FALSE
    OBVIOUS
  <2>1. /\ cli[p].names \in Seq(Containers) /\ cli[p].at \in 1..Len(cli[p].names)
        /\ \A i, j \in 1..Len(cli[p].names) : cli[p].names[i] = cli[p].names[j] => i = j
    BY <1>1, AtAReplica DEF EdgeOK
  <2>2. k \in 1..Len(cli[p].names) /\ c \in Containers
    BY <1>1, <2>1
  <2>3. DeployStep(p)
    BY <1>1, DeploymentsRest DEF At
  <2>4. faults' = faults => ~Fault
    BY <1>1, ClientAssumption DEF EdgeOK, ClientOK, ServerTypeOK, Fault
  <2>5. CASE box'[c] = box[c]
    <3>1. PICK q \in Clis : Claims(q, c) \/ Left(q, c)
      BY <1>1, <2>2, <2>5 DEF ImagesClaimed
    <3>2. Deploying(q) /\ \E j \in 1..Len(cli[q].names) : cli[q].names[j] = c
      BY <1>1, <3>1, AtAReplica DEF EdgeOK, Claims, Left, Instance
    <3>3. q = p
      BY <1>1, <2>2, <3>2, NamesDiffer DEF EdgeOK
    <3>4. k = cli[p].at /\ cli[p].pc \in Started
      BY <1>1, <2>1, <2>2, <3>1, <3>3 DEF Claims, Left
    <3>5. Abort(p) /\ At(p, "abort")
      BY <1>1, <2>1, <2>3, <3>4, WhereDeploymentsGo DEF At, Started
    <3>6. StopAndRemoveContainer(c)
      BY <3>4, <3>5 DEF Abort, Instance
    <3>7. box' = [box EXCEPT ![c] = Absent]
      BY <1>1, <2>2, <2>4, <3>5, <3>6, StopsOne DEF At
    <3> QED BY <1>1, <2>2, <3>7 DEF EdgeOK, DockerTypeOK, Absent
  <2>6. ASSUME NEW q \in Clis, Starts(q, c) PROVE FALSE
    <3>1. DeployStep(q) /\ At(q, "run") /\ c = Instance(q)
      BY <2>6 DEF Starts, DeployStep, RunContainer
    <3>2. Deploying(q)
      BY <1>1, <3>1, WhereDeploymentsGo
    <3>3. \E j \in 1..Len(cli[q].names) : cli[q].names[j] = c
      BY <1>1, <3>1, <3>2, AtAReplica DEF EdgeOK, Instance
    <3>4. q = p
      BY <1>1, <2>2, <3>2, <3>3, NamesDiffer DEF EdgeOK
    <3>5. ~Goto(p, "inspect")
      BY <1>1 DEF Goto, At, EdgeOK, Invocations, CliState
    <3> QED BY <1>1, <2>4, <2>6, <3>1, <3>4, <3>5 DEF Starts, At
  <2> QED BY <1>1, <2>2, <2>5, <2>6, WhatContainersBecome
<1>2. EdgeOK /\ ImagesClaimed /\ [Next]_vars =>
        \A p \in Clis :
          ( /\ Deploying(p) /\ ~At(p, "failed") /\ At(p, "failed")'
            /\ cli[p].pc \in {"run", "abort"} => faults' = faults )
          => \A k \in cli[p].at..Len(cli[p].names) : box'[cli[p].names[k]].image = "none"
  BY <1>1
<1> QED BY <1>2, EdgeOKCorrect, ImagesClaimedCorrect, PTL DEF Spec, FailedDeployCleansUp

(***************************************************************************)
(* What a deployment runs and removes.                                     *)
(***************************************************************************)
Preparing == {"image", "login", "pull", "build"}

\* An image that no registry serves was built by a deployment for its tag.
ImagesKnown ==
  \A t \in Tags : images[t] \notin {"none", "registry"} =>
    \E q \in Clis : Deploying(q) /\ cli[q].tag = t /\ cli[q].job.image = None

\* From the preparation on, the tag of a deployment has the image prepared.
ImageReady(p) ==
  /\ cli[p].pc \in {"image", "login", "pull"} => cli[p].job.image # None
  /\ cli[p].pc = "build" => cli[p].job.image = None
  /\ (Deploying(p) /\ cli[p].pc \notin Preparing \cup {"failed"})
       => images[cli[p].tag] = Prepared(p)

\* What a deployment answers for runs the image that it prepared.
RunsItsOwn(p) ==
  \A c \in Containers :
    (Claims(p, c) /\ ContainerIsRunning(c)) => box[c].image = Prepared(p)

\* Each time a running container was taken for another a command has failed.
Careful(p) ==
  /\ (cli[p].pc \in {"exists", "stopped"} /\ ContainerIsRunning(Instance(p))) => faults >= 1
  /\ (At(p, "cleanup") /\ ContainerIsRunning(Instance(p))) => faults >= 2

\* A command counts its faults, and nothing else of the server's.
LEMMA CallsCount ==
  ASSUME NEW p \in Clis, CliStep(p)
  PROVE  ((faults' = faults /\ outages' = outages) \/ Fault) /\ server' = server
<1>1. CASE DeployNext(p)
  BY <1>1 DEF DeployNext, StartDeploy, FindImage, LoginToRegistry, PullImage, BuildImage,
       CheckRunning, CheckExists, CheckStopped, Cleanup, FindNetwork, CreateNetwork,
       RunContainer, Inspect, WaitForReadiness, RegisterInstance, Abort, RegisterTarget,
       RegisterUpstream, Refused, Took, Seen, NoFault, Fault, Fails, StopAndRemoveContainer,
       CheckApiServerHealth, client
<1>2. CASE DeregisterNext(p)
  BY <1>2 DEF DeregisterNext, StartDeregister, ResolveTarget, EvictTarget, WaitForBackendDrain,
       FindTarget, StopTarget, DrainUpstream, DeregisterUpstream, GetUpstreamStatus, Refused,
       Took, Seen, NoFault, Fault, Fails, StopAndRemoveContainer, client
<1>3. CASE DiscoverNext(p) \/ ListNext(p)
  BY <1>3 DEF DiscoverNext, StartDiscover, ListRunningContainers, InspectApp,
       ProbeHealthEndpoint, RegisterApp, FinishDiscover, ListNext, ListUpstreams,
       RegisterUpstream, Refused, Took, Seen, NoFault, Fault, CheckApiServerHealth, client
<1> QED BY <1>1, <1>2, <1>3 DEF CliStep

\* Faults and outages are only ever counted up.
LEMMA CountsGrow ==
  ASSUME EdgeOK, [Next]_vars
  PROVE  /\ faults \in Nat /\ faults' \in Nat /\ faults' >= faults
         /\ outages \in Nat /\ outages' \in Nat /\ outages' >= outages
<1>1. faults \in Nat /\ outages \in Nat
  BY ClientAssumption DEF EdgeOK, ClientOK, ServerTypeOK
<1>2. CASE (faults' = faults /\ outages' = outages) \/ Fault
  BY <1>1, <1>2 DEF Fault
<1>3. CASE DieStep \/ StopServer
  BY <1>1, <1>3 DEF DieStep, Die, StopServer, Outage, Events
<1>4. CASE ServerStep \/ PurgeStep \/ WatchStep \/ UNCHANGED vars
  BY <1>2, <1>3, <1>4 DEF ServerStep, StartServer, PurgeStep, WatchStep, HandleEvent, vars, client
<1> QED BY <1>2, <1>3, <1>4, CallsCount DEF Next

\* A discovery under way runs no replicas.
LEMMA ScanKeepsNames ==
  ASSUME Invocations, NEW p \in Clis,
         InspectApp(p) \/ ListRunningContainers(p) \/ ProbeHealthEndpoint(p)
  PROVE  cli'[p].names = cli[p].names
<1>1. ASSUME NEW s, Goto(p, s) PROVE cli'[p].names = cli[p].names
  BY <1>1 DEF Goto, Invocations, CliState
<1>2. CASE InspectApp(p)
  <2>1. PICK c \in cli[p].todo :
          \/ cli' = [cli EXCEPT ![p].pc = "probe_app", ![p].name = c, ![p].ip = box[c].ip,
                                ![p].at = 1, ![p].todo = @ \ {c}]
          \/ cli' = [cli EXCEPT ![p].todo = @ \ {c}]
    BY <1>2 DEF InspectApp
  <2> QED BY <2>1 DEF Invocations, CliState
<1>3. CASE ListRunningContainers(p)
  <2> DEFINE found == {c \in Containers \ Platform : ContainerIsRunning(c)}
  <2>1. CASE cli' = [cli EXCEPT ![p].pc = "scan", ![p].todo = found]
    <3> HIDE DEF found
    <3> QED BY <2>1 DEF Invocations, CliState
  <2> QED BY <1>1, <1>3, <2>1 DEF ListRunningContainers
<1>4. CASE ProbeHealthEndpoint(p)
  <2>1. CASE cli' = [cli EXCEPT ![p].at = @ + 1]
    BY <2>1 DEF Invocations, CliState
  <2> QED BY <1>1, <1>4, <2>1 DEF ProbeHealthEndpoint
<1> QED BY <1>2, <1>3, <1>4

\* A deployment begins with its image, and with no replica.
LEMMA DeploymentsBegin ==
  ASSUME EdgeOK, [Next]_vars, NEW p \in Clis, ~Deploying(p), Deploying(p)'
  PROVE  /\ At(p, "start") /\ CliStep(p)
         /\ cli'[p].pc = (IF cli'[p].job.image # None THEN "image" ELSE "build")
         /\ cli'[p].at = 1
         /\ UNCHANGED <<images, box>>
<1>0. cli[p] \in CliState(Jobs) /\ CommandOK(p)
  BY DEF EdgeOK, Invocations
<1>1. cli'[p] # cli[p]
  BY DEF Deploying
<1>2. CliStep(p)
  <2>1. ASSUME NEW q \in Clis \ {p}, CliStep(q) PROVE FALSE
    BY <1>1, <2>1, CliTypes DEF OthersStay
  <2>2. CASE DieStep \/ ServerStep \/ PurgeStep \/ WatchStep \/ UNCHANGED vars
    BY <1>1, <2>2, WorldTypes DEF vars
  <2> QED BY <2>1, <2>2 DEF Next
<1>3. cli'[p].pc \in DeployPcs \cup {"failed"} /\ cli'[p].names # <<>>
  BY <1>2, CliTypes DEF EdgeOK, Invocations, CommandOK, Deployer, Deploying
<1>4. ASSUME NEW s, Goto(p, s) PROVE FALSE
  BY <1>0, <1>1, <1>4 DEF Goto, EdgeOK, Invocations, CliState, Deploying
<1>5. ASSUME DeployStep(p) PROVE FALSE
  BY <1>5, WhereDeploymentsGo
<1>6. ASSUME DeregisterNext(p) PROVE FALSE
  <2>1. CASE StartDeregister(p)
    BY <1>3, <2>1 DEF StartDeregister, NewCli, EdgeOK, Invocations
  <2>2. CASE ResolveTarget(p) \/ FindTarget(p)
    BY <1>0, <1>4, <2>2 DEF ResolveTarget, FindTarget, EdgeOK, Invocations, CliState, Deploying
  <2> QED BY <1>4, <1>6, <2>1, <2>2 DEF DeregisterNext, EvictTarget, WaitForBackendDrain, StopTarget
<1>7. ASSUME DiscoverNext(p) \/ ListNext(p) PROVE FALSE
  <2>1. cli'[p].pc \in ScanPcs \cup {"failed", "listed"}
    BY <1>7, ScanPlaces DEF EdgeOK
  <2>2. CASE StartDiscover(p)
    BY <1>3, <1>4, <2>2 DEF StartDiscover, Scanning, NewCli, EdgeOK, Invocations
  <2>3. CASE InspectApp(p) \/ ListRunningContainers(p) \/ ProbeHealthEndpoint(p)
    <3>1. cli[p].names = <<>> /\ cli[p].pc \in ScanPcs
      BY <2>3 DEF InspectApp, ListRunningContainers, ProbeHealthEndpoint, At, ScanPcs, Deploying
    <3>2. cli'[p].names = cli[p].names
      BY <1>4, <2>3, ScanKeepsNames DEF EdgeOK
    <3> QED BY <1>3, <3>1, <3>2
  <2> QED BY <1>4, <1>7, <2>2, <2>3 DEF DiscoverNext, ListNext, RegisterApp, FinishDiscover
<1>8. StartDeploy(p)
  BY <1>2, <1>5, <1>6, <1>7 DEF CliStep, DeployNext, DeployStep
<1>9. PICK a \in Deployments[p] : \E base \in BaseNames(a) :
         cli' = [cli EXCEPT ![p] = [NewCli EXCEPT
                   !.pc = IF a.image # None THEN "image" ELSE "build", !.job = a,
                   !.names = InstanceNames(a, base), !.tag = ImageTag(a, base)]]
  BY <1>4, <1>8 DEF StartDeploy
<1>10. /\ cli'[p].job = a /\ cli'[p].at = 1
       /\ cli'[p].pc = IF a.image # None THEN "image" ELSE "build"
  BY <1>9 DEF NewCli, EdgeOK, Invocations
<1> QED BY <1>2, <1>8, <1>10 DEF StartDeploy, ApiOnly, docker

\* A deployment begins to answer for a container by starting it.
LEMMA NewClaims ==
  ASSUME EdgeOK, [Next]_vars, NEW p \in Clis, NEW c \in Containers, ~Claims(p, c), Claims(p, c)'
  PROVE  Starts(p, c)
<1>1. Deploying(p)' /\ cli'[p] # cli[p]
  BY DEF Claims, Deploying
<1>2. CASE ~Deploying(p)
  <2>1. cli'[p].at = 1 /\ cli'[p].pc \in {"image", "build"}
    BY <1>1, <1>2, DeploymentsBegin
  <2> QED BY <2>1 DEF Claims, Started
<1>3. CASE Deploying(p)
  <2>1. DeployStep(p)
    BY <1>1, <1>3, DeploymentsRest
  <2>2. /\ cli[p].names \in Seq(Containers) /\ cli[p].at \in 1..Len(cli[p].names)
        /\ cli'[p].names = cli[p].names
    BY <1>3, <2>1, AtAReplica, WhereDeploymentsGo DEF EdgeOK
  <2>3. PICK k \in 1..Len(cli[p].names) :
          /\ cli[p].names[k] = c
          /\ k < cli'[p].at \/ (k = cli'[p].at /\ cli'[p].pc \in Started)
    BY <2>2 DEF Claims
  <2>4. ~(k < cli[p].at \/ (k = cli[p].at /\ cli[p].pc \in Started))
    BY <1>3, <2>3 DEF Claims
  <2>5. cli'[p].at = cli[p].at /\ k = cli[p].at /\ cli'[p].pc \in Started /\ cli[p].pc \notin Started
    BY <2>1, <2>2, <2>3, <2>4, WhereDeploymentsGo DEF At, Started
  <2>6. ASSUME NEW s, Goto(p, s) PROVE cli'[p].pc = s
    BY <2>6 DEF Goto, EdgeOK, Invocations, CliState
  <2>7. RunContainer(p) /\ Goto(p, "inspect")
    BY <2>1, <2>5, <2>6
       DEF DeployStep, FindImage, LoginToRegistry, PullImage, BuildImage, CheckRunning,
           CheckExists, CheckStopped, Cleanup, FindNetwork, CreateNetwork, RunContainer, Inspect,
           WaitForReadiness, RegisterInstance, Abort, At, Started
  <2>8. c = Instance(p)
    BY <2>3, <2>5 DEF Instance
  <2>9. StartNew(c, cli[p].tag)
    BY <2>6, <2>7, <2>8, RunsOne
  <2>10. box[c].state = "absent" /\ box'[c].state = "running" /\ box'[c].image = images[cli[p].tag]
    BY <2>9 DEF StartNew, ContainerExists, RunningAt, EdgeOK, DockerTypeOK
  <2> QED BY <2>7, <2>8, <2>10 DEF Starts
<1> QED BY <1>2, <1>3

\* A tag changes by a pull or a build for it.
LEMMA WhatImagesBecome ==
  ASSUME EdgeOK, [Next]_vars, NEW t \in Tags
  PROVE  \/ images'[t] = images[t]
         \/ \E p \in Clis : PullImage(p) /\ cli[p].tag = t /\ images'[t] = "registry"
         \/ \E p \in Clis : BuildImage(p) /\ cli[p].tag = t /\ images'[t] = p
<1>1. CASE UNCHANGED images
  BY <1>1
<1>2. ASSUME NEW p \in Clis, PullImage(p) \/ BuildImage(p)
      PROVE  \/ images'[t] = images[t]
             \/ PullImage(p) /\ cli[p].tag = t /\ images'[t] = "registry"
             \/ BuildImage(p) /\ cli[p].tag = t /\ images'[t] = p
  <2>1. CASE UNCHANGED images
    BY <2>1
  <2>2. CASE PullImage(p) /\ SetImage(cli[p].tag, "registry")
    BY <2>2 DEF SetImage, EdgeOK, DockerTypeOK
  <2>3. CASE BuildImage(p) /\ SetImage(cli[p].tag, p)
    BY <2>3 DEF SetImage, EdgeOK, DockerTypeOK
  <2> QED BY <1>2, <2>1, <2>2, <2>3 DEF PullImage, BuildImage, Fails, docker
<1>3. ASSUME NEW p \in Clis, CliStep(p), ~PullImage(p), ~BuildImage(p) PROVE UNCHANGED images
  <2>0. ASSUME NEW c, StopAndRemoveContainer(c) PROVE UNCHANGED images
    BY <2>0 DEF StopAndRemoveContainer, RemoveContainer, Fails, Die, docker
  <2>1. CASE DeployNext(p)
    BY <1>3, <2>0, <2>1, RunsOne
       DEF DeployNext, StartDeploy, FindImage, LoginToRegistry, CheckRunning, CheckExists,
           CheckStopped, Cleanup, FindNetwork, CreateNetwork, Inspect, WaitForReadiness,
           RegisterInstance, Abort, ApiOnly, AskOnly, docker, Fails, NetworkCreate
  <2>2. CASE DeregisterNext(p)
    BY <2>0, <2>2 DEF DeregisterNext, StartDeregister, ResolveTarget, EvictTarget,
       WaitForBackendDrain, FindTarget, StopTarget, ApiOnly, AskOnly, docker
  <2>3. CASE DiscoverNext(p) \/ ListNext(p)
    BY <2>3 DEF DiscoverNext, StartDiscover, ListRunningContainers, InspectApp,
                ProbeHealthEndpoint, RegisterApp, FinishDiscover, ListNext, ApiOnly, AskOnly,
                docker
  <2> QED BY <1>3, <2>1, <2>2, <2>3 DEF CliStep
<1>4. CASE DieStep \/ ServerStep \/ PurgeStep \/ WatchStep \/ UNCHANGED vars
  BY <1>4 DEF DieStep, Die, ServerStep, PurgeStep, WatchStep, HandleEvent, docker, vars
<1> QED BY <1>1, <1>2, <1>3, <1>4 DEF Next

AllReady   == \A p \in Clis : ImageReady(p)
AllTheirOwn == \A p \in Clis : RunsItsOwn(p)
AllCareful == \A p \in Clis : Careful(p)

\* A deployment that is under way stays the deployment it is.
LEMMA SameDeployment ==
  ASSUME EdgeOK, [Next]_vars, NEW p \in Clis, Deploying(p)
  PROVE  /\ Deploying(p)' /\ cli'[p].names = cli[p].names
         /\ cli'[p].job = cli[p].job /\ cli'[p].tag = cli[p].tag
         /\ Prepared(p)' = Prepared(p)
<1>1. CASE cli'[p] = cli[p]
  BY <1>1 DEF Deploying, Prepared
<1>2. CASE DeployStep(p)
  BY <1>2, WhereDeploymentsGo DEF Deploying, Prepared
<1> QED BY <1>1, <1>2, DeploymentsRest

\* An image is only ever built by a deployment, for its tag.
LEMMA NextImagesKnown == EdgeOK /\ AllReady /\ ImagesKnown /\ [Next]_vars => ImagesKnown'
<1> SUFFICES ASSUME EdgeOK, AllReady, ImagesKnown, [Next]_vars,
                    NEW t \in Tags, images'[t] \notin {"none", "registry"}
             PROVE  \E q \in Clis : /\ Deploying(q)' /\ cli'[q].tag = t
                                    /\ cli'[q].job.image = None
  BY DEF ImagesKnown
<1>1. CASE images'[t] = images[t]
  <2>1. PICK q \in Clis : Deploying(q) /\ cli[q].tag = t /\ cli[q].job.image = None
    BY <1>1 DEF ImagesKnown
  <2> QED BY <2>1, SameDeployment
<1>2. CASE \E p \in Clis : BuildImage(p) /\ cli[p].tag = t
  <2>1. PICK p \in Clis : BuildImage(p) /\ cli[p].tag = t
    BY <1>2
  <2>2. Deploying(p) /\ cli[p].job.image = None
    BY <2>1 DEF AllReady, ImageReady, BuildImage, At, EdgeOK, Invocations, CommandOK, DeployPcs
  <2> QED BY <2>1, <2>2, SameDeployment
<1> QED BY <1>1, <1>2, WhatImagesBecome

\* What others pull or build is not the image that a deployment has prepared.
LEMMA OthersKeepTheImage ==
  ASSUME TagsApart, EdgeOK, AllReady, [Next]_vars, NEW p \in Clis, Deploying(p),
         images[cli[p].tag] = Prepared(p), ~PullImage(p), ~BuildImage(p)
  PROVE  images'[cli[p].tag] = Prepared(p)
<1>1. cli[p].tag \in Tags
  BY AtAReplica DEF EdgeOK
<1>2. ASSUME NEW q \in Clis, PullImage(q) \/ BuildImage(q), cli[q].tag = cli[p].tag
      PROVE  ~BuildImage(q) /\ Prepared(p) = "registry"
  <2>1. p # q /\ Deploying(q)
    BY <1>2 DEF PullImage, BuildImage, At, EdgeOK, Invocations, CommandOK, DeployPcs
  <2>2. cli[p].job.image # None /\ cli[q].job.image # None
    BY <1>2, <2>1, TagsDiffer DEF EdgeOK
  <2>3. ~BuildImage(q)
    BY <2>2 DEF AllReady, ImageReady, BuildImage, At
  <2> QED BY <1>2, <2>2, <2>3 DEF Prepared
<1> QED BY <1>1, <1>2, WhatImagesBecome

\* No other deployment touches the image that one has prepared.
LEMMA NextReady ==
  ASSUME TagsApart
  PROVE  EdgeOK /\ AllReady /\ ImagesKnown /\ [Next]_vars => AllReady'
<1> SUFFICES ASSUME EdgeOK, AllReady, ImagesKnown, [Next]_vars, NEW p \in Clis
             PROVE  ImageReady(p)'
  BY DEF AllReady
<1>0. cli[p] \in CliState(Jobs) /\ CommandOK(p) /\ ImageReady(p)
  BY DEF EdgeOK, Invocations, AllReady
<1>1. CASE ~Deploying(p)
  <2>1. CASE Deploying(p)'
    BY <1>1, <2>1, DeploymentsBegin DEF ImageReady, Preparing
  <2>2. CASE ~Deploying(p)'
    <3>1. cli'[p].pc \notin DeployPcs
      BY <2>2, EdgeOKStays DEF EdgeOK, Invocations, CommandOK, Deploying
    <3> QED BY <2>2, <3>1 DEF ImageReady, DeployPcs
  <2> QED BY <2>1, <2>2
<1>2. CASE Deploying(p) /\ cli'[p] = cli[p]
  <2>1. (~PullImage(p) /\ ~BuildImage(p)) \/ cli[p].pc \in Preparing
    BY DEF PullImage, BuildImage, At, Preparing
  <2> QED BY <1>0, <1>2, <2>1, OthersKeepTheImage DEF ImageReady, Deploying, Prepared
<1>3. CASE Deploying(p) /\ DeployStep(p)
  <2>0. /\ cli'[p].job = cli[p].job /\ cli'[p].tag = cli[p].tag
        /\ Prepared(p)' = Prepared(p) /\ cli[p].tag \in Tags
    BY <1>3, SameDeployment, AtAReplica DEF EdgeOK
  <2>1. ASSUME NEW s, Goto(p, s) PROVE cli'[p].pc = s
    BY <2>1 DEF Goto, EdgeOK, Invocations, CliState
  <2>2. CASE FindImage(p)
    <3>0. cli[p].job.image # None
      BY <1>0, <2>2 DEF ImageReady, FindImage, At
    <3>1. PICK yes \in BOOLEAN :
            /\ Seen(yes, LocalImageExists(cli[p].tag))
            /\ Goto(p, IF yes THEN "check" ELSE IF cli[p].job.credentials THEN "login" ELSE "pull")
      BY <2>2 DEF FindImage
    <3>2. CASE yes
      <4>1. images[cli[p].tag] # "none" /\ images' = images
        BY <2>2, <3>1, <3>2 DEF Seen, LocalImageExists, FindImage, AskOnly, docker
      <4>2. images[cli[p].tag] = "registry"
        <5> SUFFICES ASSUME images[cli[p].tag] # "registry" PROVE FALSE
          OBVIOUS
        <5>1. PICK q \in Clis : /\ Deploying(q) /\ cli[q].tag = cli[p].tag
                                /\ cli[q].job.image = None
          BY <2>0, <4>1 DEF ImagesKnown
        <5> QED BY <1>3, <3>0, <5>1, TagsDiffer DEF EdgeOK
      <4> QED BY <2>0, <2>1, <3>0, <3>1, <3>2, <4>1, <4>2 DEF ImageReady, Prepared, Preparing
    <3>3. CASE ~yes
      BY <2>0, <2>1, <3>0, <3>1, <3>3 DEF ImageReady, Preparing
    <3> QED BY <3>2, <3>3
  <2>3. CASE LoginToRegistry(p)
    BY <1>0, <2>0, <2>1, <2>3 DEF LoginToRegistry, ImageReady, Preparing, At
  <2>4. CASE PullImage(p)
    <3>1. CASE Goto(p, "failed")
      BY <2>1, <3>1 DEF ImageReady
    <3>2. CASE SetImage(cli[p].tag, "registry") /\ Goto(p, "check")
      <4>1. images'[cli[p].tag] = "registry" /\ cli[p].job.image # None
        BY <1>0, <2>0, <2>4, <3>2 DEF SetImage, PullImage, ImageReady, At, EdgeOK, DockerTypeOK
      <4> QED BY <2>0, <2>1, <3>2, <4>1 DEF ImageReady, Prepared
    <3> QED BY <2>4, <3>1, <3>2 DEF PullImage
  <2>5. CASE BuildImage(p)
    <3>1. CASE Goto(p, "failed")
      BY <2>1, <3>1 DEF ImageReady
    <3>2. CASE SetImage(cli[p].tag, p) /\ Goto(p, "check")
      <4>1. images'[cli[p].tag] = p /\ cli[p].job.image = None
        BY <1>0, <2>0, <2>5, <3>2 DEF SetImage, BuildImage, ImageReady, At, EdgeOK, DockerTypeOK
      <4> QED BY <2>0, <2>1, <3>2, <4>1 DEF ImageReady, Prepared
    <3> QED BY <2>5, <3>1, <3>2 DEF BuildImage
  <2>6. CASE ~FindImage(p) /\ ~LoginToRegistry(p) /\ ~PullImage(p) /\ ~BuildImage(p)
    <3>1. cli[p].pc \notin Preparing \cup {"failed"}
      BY <1>3, <2>6
         DEF DeployStep, CheckRunning, CheckExists, CheckStopped, Cleanup, FindNetwork,
             CreateNetwork, RunContainer, Inspect, WaitForReadiness, RegisterInstance, Abort,
             At, Preparing
    <3>2. cli'[p].pc \notin {"image", "login", "pull", "build"}
      <4>1. CASE Inspect(p) /\ cli' = [cli EXCEPT ![p].pc = "probe", ![p].ip = box[Instance(p)].ip]
        BY <1>0, <4>1 DEF EdgeOK, Invocations, CliState
      <4>2. CASE NextReplica(p)
        BY <1>0, <4>2 DEF NextReplica, EdgeOK, Invocations, CliState
      <4>3. ASSUME NEW s, Leads(p, s) PROVE cli'[p].pc \notin {"image", "login", "pull", "build"}
        BY <2>1, <2>6, <4>3 DEF Leads
      <4> QED BY <1>3, <4>1, <4>2, <4>3, WaysToGo
    <3>3. images'[cli[p].tag] = Prepared(p)
      BY <1>0, <1>3, <2>6, <3>1, OthersKeepTheImage DEF ImageReady
    <3> QED BY <2>0, <3>2, <3>3 DEF ImageReady
  <2> QED BY <2>2, <2>3, <2>4, <2>5, <2>6
<1> QED BY <1>1, <1>2, <1>3, DeploymentsRest

\* Two deployments do not answer for one container.
LEMMA OneClaims ==
  ASSUME NamesApart, EdgeOK, NEW p \in Clis, NEW q \in Clis, NEW c \in Containers,
         Deploying(p), \E k \in 1..Len(cli[p].names) : cli[p].names[k] = c,
         Deploying(q), \E k \in 1..Len(cli[q].names) : cli[q].names[k] = c
  PROVE  p = q
  BY NamesDiffer DEF EdgeOK

\* The replica that a step of a deployment is about.
LEMMA TheReplica ==
  ASSUME EdgeOK, NEW p \in Clis, Deploying(p)
  PROVE  Instance(p) \in Containers /\ \E k \in 1..Len(cli[p].names) : cli[p].names[k] = Instance(p)
  BY AtAReplica DEF EdgeOK, Instance

\* What a deployment answers for keeps running the image that it prepared.
LEMMA NextTheirOwn ==
  ASSUME NamesApart
  PROVE  EdgeOK /\ AllReady /\ AllTheirOwn /\ [Next]_vars => AllTheirOwn'
<1> SUFFICES ASSUME EdgeOK, AllReady, AllTheirOwn, [Next]_vars, NEW p \in Clis,
                    NEW c \in Containers, Claims(p, c)', ContainerIsRunning(c)'
             PROVE  box'[c].image = Prepared(p)'
  BY DEF AllTheirOwn, RunsItsOwn
<1>1. CASE Starts(p, c)
  <2>1. DeployStep(p) /\ At(p, "run")
    BY <1>1 DEF Starts, DeployStep, RunContainer
  <2>2. Deploying(p)
    BY <2>1, WhereDeploymentsGo
  <2>3. images[cli[p].tag] = Prepared(p)
    BY <2>1, <2>2 DEF AllReady, ImageReady, At, Preparing
  <2> QED BY <1>1, <2>2, <2>3, SameDeployment DEF Starts
<1>2. CASE ~Starts(p, c)
  <2>1. Claims(p, c)
    BY <1>2, NewClaims
  <2>2. Prepared(p)' = Prepared(p) /\ Deploying(p)
    BY <2>1, SameDeployment DEF Claims
  <2>3. CASE box'[c] = box[c]
    BY <2>1, <2>2, <2>3 DEF AllTheirOwn, RunsItsOwn, ContainerIsRunning
  <2>4. ASSUME NEW q \in Clis, Starts(q, c) PROVE FALSE
    <3>1. Deploying(q) /\ c = Instance(q)
      BY <2>4, WhereDeploymentsGo DEF Starts, DeployStep
    <3>2. p = q
      BY <2>1, <2>2, <3>1, OneClaims, TheReplica DEF Claims
    <3> QED BY <1>2, <2>4, <3>2
  <2> QED BY <2>3, <2>4, WhatContainersBecome DEF ContainerIsRunning
<1> QED BY <1>1, <1>2

\* A running container is taken for another only after a failure.
LEMMA NextCareful ==
  ASSUME NamesApart
  PROVE  EdgeOK /\ AllCareful /\ [Next]_vars => AllCareful'
<1> SUFFICES ASSUME EdgeOK, AllCareful, [Next]_vars, NEW p \in Clis
             PROVE  Careful(p)'
  BY DEF AllCareful
<1>0. Careful(p) /\ faults \in Nat /\ faults' \in Nat /\ faults' >= faults
  BY CountsGrow DEF AllCareful
<1>1. CASE ~Deploying(p)
  <2>1. CASE Deploying(p)'
    BY <1>1, <2>1, DeploymentsBegin DEF Careful, At
  <2>2. CASE ~Deploying(p)'
    <3>1. cli'[p].pc \notin DeployPcs
      BY <2>2, EdgeOKStays DEF EdgeOK, Invocations, CommandOK, Deploying
    <3> QED BY <3>1 DEF Careful, DeployPcs, At
  <2> QED BY <2>1, <2>2
<1>2. CASE Deploying(p) /\ cli'[p] = cli[p]
  <2>1. Instance(p)' = Instance(p)
    BY <1>2 DEF Instance
  <2>2. ASSUME ContainerIsRunning(Instance(p))', ~ContainerIsRunning(Instance(p)) PROVE FALSE
    <3>1. Instance(p) \in Containers
      BY <1>2, TheReplica
    <3>2. box'[Instance(p)].state = "running" /\ box[Instance(p)].state # "running"
      BY <2>1, <2>2 DEF ContainerIsRunning
    <3>3. PICK q \in Clis : Starts(q, Instance(p))
      BY <3>1, <3>2, WhatContainersBecome
    <3>4. DeployStep(q) /\ Instance(p) = Instance(q)
      BY <3>3 DEF Starts, DeployStep
    <3>5. Deploying(q) /\ Instance(p) = Instance(q)
      BY <3>4, WhereDeploymentsGo
    <3>6. p = q
      BY <1>2, <3>1, <3>5, OneClaims, TheReplica
    <3>7. cli'[p].pc \in {"inspect", "failed"} /\ At(p, "run")
      BY <3>3, <3>6 DEF Starts, RunContainer, Goto, EdgeOK, Invocations, CliState
    <3> QED BY <1>2, <3>7 DEF At
  <2> QED BY <1>0, <1>2, <2>1, <2>2 DEF Careful, At
<1>3. CASE Deploying(p) /\ DeployStep(p)
  <2>1. ASSUME NEW s, Goto(p, s) PROVE cli'[p].pc = s /\ Instance(p)' = Instance(p)
    BY <2>1 DEF Goto, EdgeOK, Invocations, CliState, Instance
  <2>2. CASE CheckRunning(p)
    <3>1. PICK yes \in BOOLEAN : /\ Seen(yes, ContainerIsRunning(Instance(p)))
                                 /\ Goto(p, IF yes THEN "failed" ELSE "exists")
      BY <2>2 DEF CheckRunning
    <3>2. box' = box
      BY <2>2 DEF CheckRunning, AskOnly, docker
    <3>3. CASE yes
      BY <2>1, <3>1, <3>3 DEF Careful, At
    <3>4. CASE ~yes
      BY <1>0, <2>1, <3>1, <3>2, <3>4 DEF Careful, At, Seen, Fault, ContainerIsRunning
    <3> QED BY <3>3, <3>4
  <2>3. CASE CheckExists(p)
    <3>1. Goto(p, "stopped") \/ Goto(p, "network")
      BY <2>3 DEF CheckExists
    <3>2. box' = box /\ At(p, "exists")
      BY <2>3 DEF CheckExists, AskOnly, docker
    <3> QED BY <1>0, <2>1, <3>1, <3>2 DEF Careful, At, ContainerIsRunning
  <2>4. CASE CheckStopped(p)
    <3>1. PICK yes \in BOOLEAN : /\ Seen(yes, ContainerIsRunning(Instance(p)))
                                 /\ Goto(p, IF yes THEN "network" ELSE "cleanup")
      BY <2>4 DEF CheckStopped
    <3>2. box' = box /\ At(p, "stopped")
      BY <2>4 DEF CheckStopped, AskOnly, docker
    <3>3. CASE yes
      BY <2>1, <3>1, <3>3 DEF Careful, At
    <3>4. CASE ~yes
      BY <1>0, <2>1, <3>1, <3>2, <3>4 DEF Careful, At, Seen, Fault, ContainerIsRunning
    <3> QED BY <3>3, <3>4
  <2>5. CASE ~CheckRunning(p) /\ ~CheckExists(p) /\ ~CheckStopped(p)
    <3>1. cli'[p].pc \notin {"exists", "stopped", "cleanup"}
      <4>1. CASE Inspect(p) /\ cli' = [cli EXCEPT ![p].pc = "probe", ![p].ip = box[Instance(p)].ip]
        BY <4>1 DEF EdgeOK, Invocations, CliState
      <4>2. CASE NextReplica(p)
        BY <4>2 DEF NextReplica, EdgeOK, Invocations, CliState
      <4>3. ASSUME NEW s, Leads(p, s) PROVE cli'[p].pc \notin {"exists", "stopped", "cleanup"}
        BY <2>1, <2>5, <4>3 DEF Leads
      <4> QED BY <1>3, <4>1, <4>2, <4>3, WaysToGo
    <3> QED BY <3>1 DEF Careful, At
  <2> QED BY <2>2, <2>3, <2>4, <2>5
<1> QED BY <1>1, <1>2, <1>3, DeploymentsRest

\* The three of them, in every reachable state.
LEMMA DeploymentsCorrect ==
  ASSUME NamesApart, TagsApart
  PROVE  Spec => [](AllReady /\ AllTheirOwn /\ AllCareful)
<1>1. ASSUME Init, NEW p \in Clis PROVE cli[p].pc = "start" /\ ~Deploying(p)
  BY <1>1 DEF Init, NewCli, Deploying
<1>2. Init => AllReady /\ ImagesKnown /\ AllTheirOwn /\ AllCareful
  BY <1>1 DEF AllReady, ImageReady, AllTheirOwn, RunsItsOwn, Claims, AllCareful, Careful, At,
              ImagesKnown, Init, DockerInit
<1> QED BY <1>2, NextReady, NextImagesKnown, NextTheirOwn, NextCareful, EdgeOKCorrect, PTL DEF Spec

\* A deployment removes no running container but one that it has started, even
\* if one docker command fails, whatever other deployments, discoveries and
\* deregistrations do: as long as the deployments have names and tags of their
\* own.
THEOREM RemovesOnlyItsOwnCorrect ==
  ASSUME NamesApart, TagsApart
  PROVE  Spec => RemovesOnlyItsOwn
<1>1. EdgeOK /\ AllReady /\ AllTheirOwn /\ AllCareful /\ [Next]_vars =>
        \A p \in Clis, c \in Containers :
          ( /\ Deploying(p) /\ cli'[p] # cli[p] /\ faults' < 2
            /\ ContainerIsRunning(c) /\ ~ContainerIsRunning(c)' )
          => box[c].image = Prepared(p)
  <2> SUFFICES ASSUME EdgeOK, AllTheirOwn, AllCareful, [Next]_vars,
                      NEW p \in Clis, NEW c \in Containers,
                      Deploying(p), cli'[p] # cli[p], faults' < 2,
                      ContainerIsRunning(c), ~ContainerIsRunning(c)'
               PROVE  box[c].image = Prepared(p)
    OBVIOUS
  <2>1. DeployStep(p)
    BY DeploymentsRest
  <2>2. Instance(p) \in Containers
    BY TheReplica
  <2>3. CASE Cleanup(p)
    <3>1. c = Instance(p)
      BY <2>2, <2>3, StopsOne DEF Cleanup, EdgeOK, DockerTypeOK, ContainerIsRunning
    <3>2. faults >= 2
      BY <2>3, <3>1 DEF AllCareful, Careful, Cleanup
    <3> QED BY <3>2, CountsGrow
  <2>4. CASE Abort(p)
    <3>1. c = Instance(p) /\ At(p, "abort")
      BY <2>2, <2>4, StopsOne DEF Abort, EdgeOK, DockerTypeOK, ContainerIsRunning
    <3>2. cli[p].at \in 1..Len(cli[p].names) /\ cli[p].names[cli[p].at] = c
      BY <3>1, AtAReplica DEF EdgeOK, Instance
    <3>3. Claims(p, c)
      BY <3>1, <3>2 DEF Claims, At, Started
    <3> QED BY <3>3 DEF AllTheirOwn, RunsItsOwn
  <2>5. CASE RunContainer(p)
    BY <2>2, <2>5, RunsOne DEF StartNew, ContainerExists, ContainerIsRunning, EdgeOK,
                               DockerTypeOK
  <2>6. CASE UNCHANGED box
    BY <2>6 DEF ContainerIsRunning
  <2> QED BY <2>1, <2>3, <2>4, <2>5, <2>6
          DEF DeployStep, FindImage, LoginToRegistry, PullImage, BuildImage, CheckRunning,
              CheckExists, CheckStopped, FindNetwork, CreateNetwork, Inspect, WaitForReadiness,
              RegisterInstance, ApiOnly, AskOnly, docker, Fails, SetImage, NetworkCreate
<1> QED BY <1>1, EdgeOKCorrect, DeploymentsCorrect, PTL DEF Spec, RemovesOnlyItsOwn

(***************************************************************************)
(* What a deployment serves.                                               *)
(***************************************************************************)

\* Nobody takes targets out of service on purpose.
NoEvictions == \A p \in Clis : "deregister" \notin Commands[p]

NoneDraining == \A i \in pool : IsActive(i)

\* The list has the replica c of p at its address, under its name.
Served(p, c) ==
  \E i \in pool : /\ i.ip = box[c].ip /\ i.port = cli[p].job.port
                  /\ i.sni = Norm[TargetName(c, cli[p].job)]

\* What p has started runs at the address it knows, and what it is done with
\* is served.
Standing(p) ==
  /\ At(p, "deployed") => cli[p].at = Len(cli[p].names)
  /\ cli[p].pc \in {"inspect", "probe", "register"} => ContainerIsRunning(Instance(p))
  /\ cli[p].pc \in {"probe", "register"} => cli[p].ip = box[Instance(p)].ip
  /\ Deploying(p) => \A k \in Done(p) : /\ ContainerIsRunning(cli[p].names[k])
                                        /\ Served(p, cli[p].names[k])

AllStanding == outages = 0 => \A p \in Clis : Standing(p)

\* As long as nothing dies, only the deployment at a container removes it.
LEMMA WhoRemoves ==
  ASSUME NoEvictions, EdgeOK, [Next]_vars, outages' = 0,
         NEW c \in Containers, ContainerIsRunning(c), box'[c] # box[c]
  PROVE  \E q \in Clis : DeployStep(q) /\ c = Instance(q) /\ (Cleanup(q) \/ Abort(q))
<1>1. ~UNCHANGED box
  OBVIOUS
<1>2. ~DieStep
  BY CountsGrow DEF DieStep, Outage
<1>3. PICK q \in Clis : CliStep(q)
  BY <1>1, <1>2 DEF Next, vars, docker, ServerStep, PurgeStep, WatchStep, HandleEvent
<1>4. DeployNext(q)
  BY <1>1, <1>3 DEF NoEvictions, CliStep, DiscoverNext, ListNext, StartDiscover,
                    ListRunningContainers, InspectApp, ProbeHealthEndpoint, RegisterApp,
                    FinishDiscover, ApiOnly, AskOnly, docker
<1>5. RunContainer(q) \/ Cleanup(q) \/ Abort(q)
  BY <1>1, <1>4
     DEF DeployNext, StartDeploy, FindImage, LoginToRegistry, PullImage, BuildImage,
         CheckRunning, CheckExists, CheckStopped, FindNetwork, CreateNetwork, Inspect,
         WaitForReadiness, RegisterInstance, ApiOnly, AskOnly, docker, Fails, SetImage,
         NetworkCreate
<1>6. DeployStep(q)
  BY <1>5 DEF DeployStep
<1>7. Instance(q) \in Containers
  BY <1>6, TheReplica, WhereDeploymentsGo
<1>8. CASE RunContainer(q)
  BY <1>1, <1>7, <1>8, RunsOne DEF StartNew, ContainerExists, ContainerIsRunning, EdgeOK,
                                   DockerTypeOK
<1>9. CASE Cleanup(q) \/ Abort(q)
  <2>1. c = Instance(q)
    BY <1>7, <1>9, StopsOne DEF Cleanup, Abort, EdgeOK, DockerTypeOK
  <2> QED BY <1>6, <1>9, <2>1
<1> QED BY <1>5, <1>8, <1>9

\* The replicas of a deployment stay as they are but for its own removals.
LEMMA ReplicasStay ==
  ASSUME NamesApart, NoEvictions, EdgeOK, [Next]_vars, outages' = 0,
         NEW p \in Clis, Deploying(p),
         NEW k \in 1..Len(cli[p].names), ContainerIsRunning(cli[p].names[k]),
         k # cli[p].at \/ ~(Cleanup(p) \/ Abort(p))
  PROVE  box'[cli[p].names[k]] = box[cli[p].names[k]]
<1> SUFFICES ASSUME box'[cli[p].names[k]] # box[cli[p].names[k]] PROVE FALSE
  OBVIOUS
<1>1. /\ cli[p].names \in Seq(Containers) /\ cli[p].at \in 1..Len(cli[p].names)
      /\ \A i, j \in 1..Len(cli[p].names) : cli[p].names[i] = cli[p].names[j] => i = j
  BY AtAReplica DEF EdgeOK
<1>2. cli[p].names[k] \in Containers
  BY <1>1
<1>3. PICK q \in Clis : /\ DeployStep(q) /\ cli[p].names[k] = Instance(q)
                        /\ Cleanup(q) \/ Abort(q)
  BY <1>2, WhoRemoves
<1>4. Deploying(q)
  BY <1>3, WhereDeploymentsGo
<1>5. p = q
  BY <1>2, <1>3, <1>4, OneClaims, TheReplica
<1>6. k = cli[p].at
  BY <1>1, <1>3, <1>5 DEF Instance
<1> QED BY <1>3, <1>5, <1>6

\* As long as the server runs and nobody evicts, the list only grows.
LEMMA PoolGrows ==
  ASSUME NoEvictions, NoneDraining, EdgeOK, [Next]_vars
  PROVE  NoneDraining' /\ (outages' = outages => pool \subseteq pool')
<1>1. CASE pool' \subseteq pool /\ (outages' = outages => pool \subseteq pool')
  BY <1>1 DEF NoneDraining
<1>2. ASSUME NEW ip, NEW port, NEW name, NEW e, NEW ok \in BOOLEAN,
             RegisterUpstream(ip, port, name, e, ok)
      PROVE  NoneDraining' /\ pool \subseteq pool'
  BY <1>2 DEF RegisterUpstream, Refused, Add, NewItem, NoneDraining, IsActive
<1>3. ASSUME NEW p \in Clis, DeployNext(p)
      PROVE  NoneDraining' /\ pool \subseteq pool'
  <2>1. CASE RegisterInstance(p)
    BY <1>2, <2>1 DEF RegisterInstance, RegisterTarget
  <2>2. CASE UNCHANGED pool
    BY <2>2 DEF NoneDraining
  <2> QED BY <1>3, <2>1, <2>2
          DEF DeployNext, StartDeploy, FindImage, LoginToRegistry, PullImage, BuildImage,
              CheckRunning, CheckExists, CheckStopped, Cleanup, FindNetwork, CreateNetwork,
              RunContainer, Inspect, WaitForReadiness, Abort, CheckApiServerHealth, DockerOnly,
              AskOnly, client
<1>4. ASSUME NEW p \in Clis, DiscoverNext(p) \/ ListNext(p)
      PROVE  NoneDraining' /\ pool \subseteq pool'
  <2>1. CASE RegisterApp(p)
    BY <1>2, <2>1 DEF RegisterApp
  <2>2. CASE UNCHANGED pool
    BY <2>2 DEF NoneDraining
  <2> QED BY <1>4, <2>1, <2>2
          DEF DiscoverNext, StartDiscover, ListRunningContainers, InspectApp,
              ProbeHealthEndpoint, FinishDiscover, ListNext, ListUpstreams, CheckApiServerHealth,
              DockerOnly, AskOnly, client
<1>5. CASE \E p \in Clis : CliStep(p)
  BY <1>3, <1>4, <1>5 DEF CliStep, NoEvictions
<1>6. CASE ServerStep
  <2>1. StopServer => outages' # outages
    BY CountsGrow DEF StopServer, Outage
  <2> QED BY <1>1, <1>6, <2>1 DEF ServerStep, StopServer, StartServer
<1>7. CASE PurgeStep
  BY <1>7 DEF PurgeStep, Draining, NoneDraining, IsActive
<1>8. CASE DieStep \/ WatchStep \/ UNCHANGED vars
  BY <1>1, <1>8 DEF DieStep, WatchStep, HandleEvent, Decoded, FormatUpstreamTable, vars, client
<1> QED BY <1>5, <1>6, <1>7, <1>8 DEF Next

\* What is served stays served.
LEMMA ServedStays ==
  ASSUME NEW p, NEW c, Served(p, c), pool \subseteq pool', box'[c] = box[c],
         cli'[p].job = cli[p].job
  PROVE  Served(p, c)'
  BY DEF Served

\* docker run leaves the replica running, or the deployment has failed; what is
\* inspected, and what was probed, is at the address of the replica.
LEMMA AtTheAddress ==
  ASSUME NamesApart, NoEvictions, EdgeOK, [Next]_vars, outages' = 0,
         NEW p \in Clis, Deploying(p), Standing(p), cli'[p] = cli[p] \/ DeployStep(p),
         cli'[p].pc \in {"inspect", "probe", "register"}
  PROVE  /\ Instance(p)' = Instance(p)
         /\ ContainerIsRunning(Instance(p))'
         /\ cli'[p].pc \in {"probe", "register"} => cli'[p].ip = box'[Instance(p)].ip
<1>1. /\ cli[p].names \in Seq(Containers) /\ cli[p].at \in 1..Len(cli[p].names)
      /\ Instance(p) \in Containers
  BY AtAReplica DEF EdgeOK
<1>2. ASSUME NEW s, Goto(p, s)
      PROVE  cli'[p].pc = s /\ Instance(p)' = Instance(p) /\ cli'[p].ip = cli[p].ip
  BY <1>2 DEF Goto, EdgeOK, Invocations, CliState, Instance
<1>3. CASE cli'[p] = cli[p]
  <2>1. Instance(p)' = Instance(p)
    BY <1>3 DEF Instance
  <2>2. ~Cleanup(p) /\ ~Abort(p)
    BY <1>3 DEF Cleanup, Abort, At
  <2>3. box'[Instance(p)] = box[Instance(p)]
    BY <1>1, <1>3, <2>2, ReplicasStay DEF Standing, Instance
  <2> QED BY <1>3, <2>1, <2>3 DEF Standing, ContainerIsRunning
<1>4. CASE RunContainer(p)
  <2>1. ~Goto(p, "failed")
    BY <1>2
  <2>2. cli'[p].pc = "inspect" /\ Instance(p)' = Instance(p)
    BY <1>2, <1>4, <2>1, RunsOne
  <2>3. PICK a \in FreeIps : box' = [box EXCEPT ![Instance(p)] = RunningAt(a, images[cli[p].tag])]
    BY <1>4, <2>1, RunsOne DEF StartNew
  <2>4. box'[Instance(p)].state = "running"
    BY <1>1, <2>3 DEF EdgeOK, DockerTypeOK, RunningAt
  <2> QED BY <2>2, <2>4 DEF ContainerIsRunning
<1>5. CASE Inspect(p)
  <2>1. UNCHANGED box /\ At(p, "inspect")
    BY <1>5 DEF Inspect, AskOnly, docker
  <2>2. ~Goto(p, "abort")
    BY <1>2
  <2>3. cli' = [cli EXCEPT ![p].pc = "probe", ![p].ip = box[Instance(p)].ip]
    BY <1>5, <2>2 DEF Inspect
  <2>4. Instance(p)' = Instance(p) /\ cli'[p].ip = box[Instance(p)].ip
    BY <2>3 DEF EdgeOK, Invocations, CliState, Instance
  <2> QED BY <2>1, <2>4 DEF Standing, At, ContainerIsRunning
<1>6. CASE WaitForReadiness(p)
  <2>1. UNCHANGED box /\ At(p, "probe")
    BY <1>6 DEF WaitForReadiness, AskOnly, docker
  <2>2. Instance(p)' = Instance(p) /\ cli'[p].ip = cli[p].ip
    BY <1>2, <1>6 DEF WaitForReadiness
  <2> QED BY <2>1, <2>2 DEF Standing, At, ContainerIsRunning
<1>7. CASE RegisterInstance(p)
  <2>1. ~NextReplica(p)
    BY DEF NextReplica, EdgeOK, Invocations, CliState
  <2> QED BY <1>2, <1>7, <2>1 DEF RegisterInstance
<1>8. CASE DeployStep(p) /\ ~RunContainer(p) /\ ~Inspect(p) /\ ~WaitForReadiness(p)
                         /\ ~RegisterInstance(p)
  <2>1. ASSUME NEW s, Leads(p, s) PROVE FALSE
    BY <1>2, <1>8, <2>1 DEF Leads
  <2> QED BY <1>8, <2>1, WaysToGo
<1> QED BY <1>3, <1>4, <1>5, <1>6, <1>7, <1>8

\* A registration that succeeds puts the replica into the list.
LEMMA RegistersTheReplica ==
  ASSUME EdgeOK, NEW p \in Clis, Deploying(p), Standing(p), RegisterInstance(p),
         ~Goto(p, "abort"), cli'[p].job = cli[p].job, NEW c, c = Instance(p)
  PROVE  ContainerIsRunning(c)' /\ Served(p, c)'
<1>1. RegisterTarget(p, TRUE)
  BY DEF RegisterInstance
<1>2. Add(NextId, cli[p].ip, cli[p].job.port, TargetName(c, cli[p].job))
  BY <1>1 DEF RegisterTarget, RegisterUpstream
<1>3. UNCHANGED box /\ At(p, "register")
  BY DEF RegisterInstance, ApiOnly, docker
<1>4. cli[p].ip = box[c].ip /\ ContainerIsRunning(c)
  BY <1>3 DEF Standing, At
<1> DEFINE new == NewItem(NextId, cli[p].ip, cli[p].job.port, TargetName(c, cli[p].job))
<1>5. new \in pool'
  BY <1>2 DEF Add
<1>6. /\ new.ip = cli[p].ip /\ new.port = cli[p].job.port
      /\ new.sni = Norm[TargetName(c, cli[p].job)]
  BY DEF NewItem
<1> HIDE DEF new
<1>7. Served(p, c)'
  BY <1>3, <1>4, <1>5, <1>6 DEF Served
<1> QED BY <1>3, <1>4, <1>7 DEF ContainerIsRunning

\* What a deployment is done with, before and after a step of it.
LEMMA WhatIsDone ==
  ASSUME EdgeOK, NEW p \in Clis, DeployStep(p), At(p, "deployed") => cli[p].at = Len(cli[p].names)
  PROVE  /\ cli'[p].pc = "deployed" => cli'[p].at = Len(cli'[p].names)
         /\ \/ Done(p)' \subseteq Done(p)
            \/ /\ RegisterInstance(p) /\ ~Goto(p, "abort")
               /\ Done(p)' \subseteq Done(p) \cup {cli[p].at}
<1>0. Deploying(p) /\ cli'[p].names = cli[p].names
  BY WhereDeploymentsGo
<1>1. /\ cli[p].names \in Seq(Containers) /\ cli[p].at \in 1..Len(cli[p].names)
      /\ cli[p].at \in Nat /\ Len(cli[p].names) \in Nat
  BY <1>0, AtAReplica DEF EdgeOK
<1>2. ASSUME NEW s, Goto(p, s)
      PROVE  cli'[p].pc = s /\ cli'[p].at = cli[p].at
  BY <1>2 DEF Goto, EdgeOK, Invocations, CliState
<1>3. CASE RegisterInstance(p)
  <2>0. At(p, "register")
    BY <1>3 DEF RegisterInstance
  <2>1. CASE Goto(p, "abort")
    BY <1>0, <1>2, <2>0, <2>1 DEF Done, At
  <2>2. CASE ~Goto(p, "abort") /\ NextReplica(p)
    <3>1. cli'[p].pc = "check" /\ cli'[p].at = cli[p].at + 1
      BY <2>2 DEF NextReplica, EdgeOK, Invocations, CliState
    <3> QED BY <1>0, <1>1, <1>3, <2>0, <2>2, <3>1 DEF Done, At
  <2>3. CASE ~Goto(p, "abort") /\ cli[p].at = Len(cli[p].names) /\ Goto(p, "deployed")
    <3>1. cli'[p].pc = "deployed" /\ cli'[p].at = cli[p].at
      BY <1>2, <2>3
    <3> QED BY <1>0, <1>1, <1>3, <2>0, <2>3, <3>1 DEF Done, At
  <2> QED BY <1>3, <2>1, <2>2, <2>3 DEF RegisterInstance
<1>4. CASE ~RegisterInstance(p)
  <2>1. cli[p].pc # "deployed"
    BY DEF DeployStep, FindImage, LoginToRegistry, PullImage, BuildImage, CheckRunning,
           CheckExists, CheckStopped, Cleanup, FindNetwork, CreateNetwork, RunContainer, Inspect,
           WaitForReadiness, RegisterInstance, Abort, At
  <2>2. cli'[p].pc # "deployed" /\ cli'[p].at = cli[p].at
    <3>1. CASE cli' = [cli EXCEPT ![p].pc = "probe", ![p].ip = box[Instance(p)].ip]
      BY <3>1 DEF EdgeOK, Invocations, CliState
    <3>2. ASSUME NEW s, Leads(p, s) PROVE cli'[p].pc # "deployed" /\ cli'[p].at = cli[p].at
      BY <1>2, <1>4, <3>2 DEF Leads
    <3> QED BY <1>4, <3>1, <3>2, WaysToGo
  <2> QED BY <1>0, <2>1, <2>2 DEF Done, At
<1> QED BY <1>3, <1>4

\* Every step keeps what stands.
LEMMA NextStanding ==
  ASSUME NamesApart, NoEvictions
  PROVE  EdgeOK /\ NoneDraining /\ AllStanding /\ [Next]_vars => AllStanding'
<1> SUFFICES ASSUME EdgeOK, NoneDraining, AllStanding, [Next]_vars, outages' = 0, NEW p \in Clis
             PROVE  Standing(p)'
  BY DEF AllStanding
<1>0. Standing(p) /\ outages' = outages
  BY CountsGrow DEF AllStanding
<1>1. pool \subseteq pool'
  BY <1>0, PoolGrows
<1>2. CASE ~Deploying(p)
  <2>1. CASE Deploying(p)'
    <3>1. cli'[p].at = 1 /\ cli'[p].pc \in {"image", "build"}
      BY <1>2, <2>1, DeploymentsBegin
    <3> QED BY <3>1 DEF Standing, At, Done
  <2>2. CASE ~Deploying(p)'
    <3>1. cli'[p].pc \notin DeployPcs
      BY <2>2, EdgeOKStays DEF EdgeOK, Invocations, CommandOK, Deploying
    <3> QED BY <2>2, <3>1 DEF Standing, At, DeployPcs
  <2> QED BY <2>1, <2>2
<1>3. CASE Deploying(p)
  <2>1. cli'[p] = cli[p] \/ DeployStep(p)
    BY <1>3, DeploymentsRest
  <2>2. /\ cli'[p].names = cli[p].names /\ cli'[p].job = cli[p].job
        /\ cli[p].names \in Seq(Containers) /\ cli[p].at \in 1..Len(cli[p].names)
    BY <1>3, SameDeployment, AtAReplica DEF EdgeOK
  <2>3. /\ At(p, "deployed")' => cli'[p].at = Len(cli'[p].names)
        /\ \/ Done(p)' \subseteq Done(p)
           \/ /\ RegisterInstance(p) /\ ~Goto(p, "abort")
              /\ Done(p)' \subseteq Done(p) \cup {cli[p].at}
    <3>1. CASE cli'[p] = cli[p]
      BY <1>0, <3>1 DEF Standing, Done, At
    <3>2. CASE DeployStep(p)
      BY <1>0, <3>2, WhatIsDone DEF Standing, At
    <3> QED BY <2>1, <3>1, <3>2
  <2>4. ASSUME NEW k \in Done(p), NEW c, c = cli[p].names[k]
        PROVE  ContainerIsRunning(c)' /\ Served(p, c)'
    <3>1. k \in 1..Len(cli[p].names) /\ (k # cli[p].at \/ At(p, "deployed"))
      BY <2>2 DEF Done
    <3>2. ContainerIsRunning(c) /\ Served(p, c)
      BY <1>0, <1>3, <2>4 DEF Standing
    <3>3. box'[c] = box[c]
      BY <1>3, <2>4, <3>1, <3>2, ReplicasStay DEF Cleanup, Abort, At
    <3>4. Served(p, c)'
      BY <1>1, <2>2, <3>2, <3>3, ServedStays
    <3> QED BY <3>2, <3>3, <3>4 DEF ContainerIsRunning
  <2>5. ASSUME RegisterInstance(p), ~Goto(p, "abort"), NEW c, c = cli[p].names[cli[p].at]
        PROVE  ContainerIsRunning(c)' /\ Served(p, c)'
    BY <1>0, <1>3, <2>2, <2>5, RegistersTheReplica DEF Instance
  <2>6. ASSUME NEW k \in Done(p)', NEW c, c = cli'[p].names[k]
        PROVE  ContainerIsRunning(c)' /\ Served(p, c)'
    BY <2>2, <2>3, <2>4, <2>5, <2>6
  <2>7. ( /\ cli[p].pc \in {"inspect", "probe", "register"} => ContainerIsRunning(Instance(p))
          /\ cli[p].pc \in {"probe", "register"} => cli[p].ip = box[Instance(p)].ip )'
    BY <1>0, <1>3, <2>1, AtTheAddress
  <2>8. (\A k \in Done(p) : ContainerIsRunning(cli[p].names[k]) /\ Served(p, cli[p].names[k]))'
    BY <2>6 DEF ContainerIsRunning, Served
  <2> QED BY <2>3, <2>7, <2>8 DEF Standing, At, ContainerIsRunning
<1> QED BY <1>2, <1>3

\* A replica that a deployment is done with stays: whatever fails afterwards,
\* it runs the image that was prepared and is registered at its address under
\* its name; beside any number of other deployments with names and tags of
\* their own, of discoveries and of lists, as long as no container has died,
\* the server has not stopped and nobody deregisters.
THEOREM DeployedServesCorrect ==
  ASSUME NamesApart, TagsApart, NoEvictions
  PROVE  Spec => []DeployedServes
<1>1. ASSUME Init, NEW p \in Clis PROVE cli[p].pc = "start" /\ ~Deploying(p)
  BY <1>1 DEF Init, NewCli, Deploying
<1>2. Init => NoneDraining /\ AllStanding
  BY <1>1 DEF Init, ServerInit, RegistryInit, NoneDraining, AllStanding, Standing, At
<1>3. EdgeOK /\ NoneDraining /\ [Next]_vars => NoneDraining'
  BY PoolGrows
<1>4. EdgeOK /\ AllTheirOwn /\ AllStanding => DeployedServes
  <2> SUFFICES ASSUME EdgeOK, AllTheirOwn, AllStanding, outages = 0,
                      NEW p \in Clis, Deploying(p), NEW k \in Done(p)
               PROVE  LET c == cli[p].names[k]
                      IN /\ ContainerIsRunning(c) /\ box[c].image = Prepared(p)
                         /\ \E i \in pool : /\ i.ip = box[c].ip /\ i.port = cli[p].job.port
                                            /\ i.sni = Norm[TargetName(c, cli[p].job)]
    BY DEF DeployedServes
  <2>1. /\ Standing(p)
        /\ cli[p].names \in Seq(Containers) /\ cli[p].at \in 1..Len(cli[p].names)
    BY AtAReplica DEF EdgeOK, AllStanding
  <2>2. /\ k \in 1..Len(cli[p].names)
        /\ k < cli[p].at \/ (k = cli[p].at /\ cli[p].pc \in Started)
    BY <2>1 DEF Done, Standing, At, Started
  <2>3. Claims(p, cli[p].names[k]) /\ cli[p].names[k] \in Containers
    BY <2>1, <2>2 DEF Claims
  <2> QED BY <2>1, <2>3 DEF Standing, Served, AllTheirOwn, RunsItsOwn
<1> QED BY <1>2, <1>3, <1>4, NextStanding, EdgeOKCorrect, DeploymentsCorrect, PTL DEF Spec
==============================================================================
