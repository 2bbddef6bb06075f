------------------------------ MODULE CliDeploy ------------------------------
(***************************************************************************)
(* "deploy": src/cli/deploy/deploy.go.  The image is prepared, and then    *)
(* the replicas are deployed one after the other, each by a chain of       *)
(* docker commands and Control API calls; other invocations of the CLI run *)
(* between any two of them.                                                *)
(***************************************************************************)
EXTENDS CliFlags

CONSTANT Deployments   \* Deployments[p]: the flags p may give to deploy, records of name,
                       \* image, credentials, context, replicas, suffix, port, endpoint
                       \* and path, "/" and the endpoint without its leading slashes

\* The replicas of one deployment are containers of different names.
ASSUME DeploymentsAssumption ==
  \A p \in Clis : \A a \in Deployments[p] :
    /\ a.name \in Bases \cup {None} /\ a.image \in Tags \cup {None}
    /\ a.replicas \in Int /\ a.suffix \in Suffixes \cup {None}
    /\ a.port \in Ports /\ a.endpoint \in Endpoints
    /\ \A b \in BaseNames(a) :
         LET names == InstanceNames(a, b)
         IN /\ names \in Seq(Containers)
            /\ \A i, j \in DOMAIN names : names[i] = names[j] => i = j

VARIABLE cli    \* per invocation: where it is and the values it holds

Ends == {"deployed", "evicted", "discovered", "listed", "failed"}

Pcs == Ends \cup
       {"start", "image", "login", "pull", "build",
        "check", "exists", "stopped", "cleanup", "network", "create", "run",
        "inspect", "probe", "register", "abort",
        "resolve", "evict", "wait", "find", "stop",
        "ps", "scan", "probe_app", "register_app"}

\* names and tag are what a deployment runs, at the replica it is at; name and
\* ip the container at hand; todo what a discovery has not looked at, at the
\* path it tries; since, for the properties only, the outages there had been
\* when it started.
CliState(jobs) ==
  [pc : Pcs, job : jobs \cup {None}, names : Seq(Containers), at : Nat,
   tag : Tags \cup {None}, name : Containers \cup {None},
   ip : IpTexts \cup {None}, todo : SUBSET Containers, since : Nat]

NewCli == [pc |-> "start", job |-> None, names |-> <<>>, at |-> 1, tag |-> None,
           name |-> None, ip |-> None, todo |-> {}, since |-> 0]

At(p, pc)   == cli[p].pc = pc
Goto(p, pc) == cli' = [cli EXCEPT ![p].pc = pc]
Instance(p) == cli[p].names[cli[p].at]

\* A step of p that uses docker only, one that only asks it, and one that calls
\* the API only.
DockerOnly == UNCHANGED <<pool, used>>
AskOnly    == UNCHANGED docker /\ DockerOnly
ApiOnly    == UNCHANGED docker

(***************************************************************************)
(* ExecuteDeployment: the flags, the health check, the image.              *)
(***************************************************************************)
StartDeploy(p) ==
  /\ At(p, "start")
  /\ \E a \in Deployments[p], ok \in BOOLEAN :
       /\ IF ValidDeployArgs(a) THEN CheckApiServerHealth(ok) ELSE ~ok /\ UNCHANGED client
       /\ \/ ~ok /\ Goto(p, "failed")
          \/ ok /\ \E base \in BaseNames(a) :
               cli' = [cli EXCEPT ![p] = [NewCli EXCEPT
                         !.pc = IF a.image # None THEN "image" ELSE "build", !.job = a,
                         !.names = InstanceNames(a, base), !.tag = ImageTag(a, base)]]
  /\ ApiOnly

\* EnsureImageAvailable: an image that is there is not pulled.
FindImage(p) ==
  /\ At(p, "image")
  /\ \E yes \in BOOLEAN :
       /\ Seen(yes, LocalImageExists(cli[p].tag))
       /\ Goto(p, IF yes THEN "check" ELSE IF cli[p].job.credentials THEN "login" ELSE "pull")
  /\ AskOnly

LoginToRegistry(p) ==
  /\ At(p, "login")
  /\ (NoFault /\ Goto(p, "pull")) \/ (Fault /\ Goto(p, "failed"))
  /\ AskOnly

PullImage(p) ==
  /\ At(p, "pull")
  /\ \/ NoFault /\ SetImage(cli[p].tag, "registry") /\ Goto(p, "check")
     \/ Fails(SetImage(cli[p].tag, "registry")) /\ Goto(p, "failed")
  /\ DockerOnly

BuildImage(p) ==
  /\ At(p, "build")
  /\ \/ NoFault /\ SetImage(cli[p].tag, p) /\ Goto(p, "check")
     \/ Fails(SetImage(cli[p].tag, p)) /\ Goto(p, "failed")
  /\ DockerOnly

(***************************************************************************)
(* deploySingleInstance, up to docker run.                                 *)
(***************************************************************************)
\* A running container of that name ends the deployment.
CheckRunning(p) ==
  /\ At(p, "check")
  /\ \E yes \in BOOLEAN : /\ Seen(yes, ContainerIsRunning(Instance(p)))
                         /\ Goto(p, IF yes THEN "failed" ELSE "exists")
  /\ AskOnly

\* Mutation: what exists is removed, running or not.
CheckExistsOnly(p) ==
  /\ At(p, "exists")
  /\ \E yes \in BOOLEAN : /\ Seen(yes, ContainerExists(Instance(p)))
                         /\ Goto(p, IF yes THEN "cleanup" ELSE "network")
  /\ AskOnly

\* CleanupStoppedContainer: two docker inspects and a docker rm -f.
CheckExists(p) ==
  /\ At(p, "exists")
  /\ \E yes \in BOOLEAN : /\ Seen(yes, ContainerExists(Instance(p)))
                         /\ Goto(p, IF yes THEN "stopped" ELSE "network")
  /\ AskOnly

CheckStopped(p) ==
  /\ At(p, "stopped")
  /\ \E yes \in BOOLEAN : /\ Seen(yes, ContainerIsRunning(Instance(p)))
                         /\ Goto(p, IF yes THEN "network" ELSE "cleanup")
  /\ AskOnly

Cleanup(p) ==
  /\ At(p, "cleanup")
  /\ StopAndRemoveContainer(Instance(p))
  /\ Goto(p, "network")
  /\ DockerOnly

\* RunContainer: EnsureNetworkExists, in two commands, and docker run.
FindNetwork(p) ==
  /\ At(p, "network")
  /\ \E yes \in BOOLEAN : Seen(yes, network) /\ Goto(p, IF yes THEN "run" ELSE "create")
  /\ AskOnly

CreateNetwork(p) ==
  /\ At(p, "create")
  /\ \/ \E ok \in BOOLEAN : /\ NoFault /\ NetworkCreate(ok)
                            /\ Goto(p, IF ok THEN "run" ELSE "failed")
     \/ Fails(NetworkCreate(TRUE)) /\ Goto(p, "failed")
  /\ DockerOnly

\* An error ends the deployment, whatever the daemon has done.
RunContainer(p) ==
  LET c == Instance(p)
  IN /\ At(p, "run")
     /\ \/ \E ok \in BOOLEAN : /\ NoFault /\ DockerRun(c, cli[p].tag, ok)
                               /\ Goto(p, IF ok THEN "inspect" ELSE "failed")
        \/ Fails(CreateContainer(c) \/ StartNew(c, cli[p].tag)) /\ Goto(p, "failed")
     /\ DockerOnly

(***************************************************************************)
(* registerAndCompleteDeployment.                                          *)
(***************************************************************************)
\* ExtractContainerIP: a container that is not running has no address.
Inspect(p) ==
  LET c == Instance(p)
  IN /\ At(p, "inspect")
     /\ \/ /\ Seen(TRUE, ContainerIsRunning(c))
           /\ cli' = [cli EXCEPT ![p].pc = "probe", ![p].ip = box[c].ip]
        \/ Seen(FALSE, ContainerIsRunning(c)) /\ Goto(p, "abort")
     /\ AskOnly

\* Polled from pingora-lb and from a container of its own on the network, so
\* that it needs no server.  A program that is slow to answer is a Fault.
WaitForReadiness(p) ==
  /\ At(p, "probe")
  /\ \E ok \in BOOLEAN : /\ Seen(ok, Serves(cli[p].ip, cli[p].job.port, cli[p].job.path))
                        /\ Goto(p, IF ok THEN "register" ELSE "abort")
  /\ AskOnly

RegisterTarget(p, ok) ==
  RegisterUpstream(cli[p].ip, cli[p].job.port, TargetName(Instance(p), cli[p].job),
                   TargetEndpoint(cli[p].job), ok)

NextReplica(p) == cli' = [cli EXCEPT ![p].pc = "check", ![p].at = @ + 1, ![p].ip = None]

\* Mutation: one replica too many.
RegisterInstanceOffByOne(p) ==
  /\ At(p, "register")
  /\ \E ok \in BOOLEAN :
       /\ RegisterTarget(p, ok)
       /\ \/ ~ok /\ Goto(p, "abort")
          \/ ok /\ cli[p].at <= Len(cli[p].names) /\ NextReplica(p)
  /\ ApiOnly

\* Mutation: a registration that fails does not fail the deployment.
RegisterInstanceGoesOn(p) ==
  /\ At(p, "register")
  /\ \E ok \in BOOLEAN : RegisterTarget(p, ok)
  /\ IF cli[p].at < Len(cli[p].names) THEN NextReplica(p) ELSE Goto(p, "deployed")
  /\ ApiOnly

RegisterInstance(p) ==
  /\ At(p, "register")
  /\ \E ok \in BOOLEAN :
       /\ RegisterTarget(p, ok)
       /\ \/ ~ok /\ Goto(p, "abort")
          \/ ok /\ cli[p].at < Len(cli[p].names) /\ NextReplica(p)
          \/ ok /\ cli[p].at = Len(cli[p].names) /\ Goto(p, "deployed")
  /\ ApiOnly

\* Mutation: the container is left.
AbortOnly(p) == At(p, "abort") /\ Goto(p, "failed") /\ NoFault /\ AskOnly

\* The container is removed, or not; the replicas before it stay.
Abort(p) ==
  /\ At(p, "abort")
  /\ StopAndRemoveContainer(Instance(p))
  /\ Goto(p, "failed")
  /\ DockerOnly

DeployNext(p) ==
  \/ StartDeploy(p) \/ FindImage(p) \/ LoginToRegistry(p) \/ PullImage(p) \/ BuildImage(p)
  \/ CheckRunning(p) \/ CheckExists(p) \/ CheckStopped(p) \/ Cleanup(p)
  \/ FindNetwork(p) \/ CreateNetwork(p) \/ RunContainer(p)
  \/ Inspect(p) \/ WaitForReadiness(p) \/ RegisterInstance(p) \/ Abort(p)
==============================================================================
