----------------------------- MODULE EdgeCluster -----------------------------
(***************************************************************************)
(* The whole edge: invocations of the CLI, the Docker daemon, the list of  *)
(* upstreams behind the Control API, whose server may stop and start, and  *)
(* the event watcher.                                                      *)
(***************************************************************************)
EXTENDS CliDiscover

CONSTANT Commands     \* Commands[p]: the commands p may be

ASSUME ClusterAssumption ==
  Commands \in [Clis -> SUBSET {"deploy", "deregister", "discover", "list"}]

VARIABLE gone    \* history: the containers that have ever stopped or been removed

vars == <<client, docker, cli, died, gone>>

Init == /\ ServerInit /\ DockerInit
        /\ cli = [p \in Clis |-> NewCli]
        /\ died = {} /\ gone = {}

Ended == {c \in Containers : \/ ContainerIsRunning(c) /\ box'[c].state # "running"
                             \/ ContainerExists(c) /\ box'[c].state = "absent"}

\* The daemon reports every container that stopped or was removed.
Events == died' = died \cup Ended /\ gone' = gone \cup Ended

CliStep(p) ==
  /\ \/ "deploy" \in Commands[p] /\ DeployNext(p)
     \/ "deregister" \in Commands[p] /\ DeregisterNext(p)
     \/ "discover" \in Commands[p] /\ DiscoverNext(p)
     \/ "list" \in Commands[p] /\ ListNext(p)
  /\ Events

DieStep ==
  /\ Outage
  /\ \E c \in Containers : Die(c)
  /\ Events
  /\ UNCHANGED <<pool, used, server, faults, cli>>

ServerStep == (StopServer \/ StartServer) /\ UNCHANGED <<docker, cli, died, gone>>

\* The draining service drops a draining item, at its deadline at the latest.
PurgeStep ==
  /\ \E i \in Draining(pool) : Evict({i})
  /\ UNCHANGED <<server, faults, outages, docker, cli, died, gone>>

WatchStep == (\E c \in Containers : HandleEvent(c)) /\ UNCHANGED gone

Next == (\E p \in Clis : CliStep(p)) \/ DieStep \/ ServerStep \/ PurgeStep \/ WatchStep

Spec == Init /\ [][Next]_vars

\* An invocation that has begun goes on, the draining service evicts and the
\* watcher handles its events; nothing has to be invoked, to die or to fail,
\* and a server that has stopped need not be started.  That an invocation goes on
\* says that every docker command returns; no HTTP request made in one has a
\* timeout.  The API answers from memory; a backend that accepts the connection
\* of a probe and never answers is left out.
Fairness ==
  /\ \A p \in Clis : WF_vars(cli[p].pc # "start" /\ CliStep(p))
  /\ WF_vars(PurgeStep)
  /\ WF_vars(WatchStep)

FairSpec == Spec /\ Fairness

(***************************************************************************)
(* Correctness.                                                            *)
(***************************************************************************)

\* The variables hold what the code and the bounds say they may.
ClusterTypeOK ==
  /\ pool \subseteq Item /\ used \subseteq Ids
  /\ ServerTypeOK /\ DockerTypeOK
  /\ LET jobs == UNION {Deployments[p] \cup Evictions[p] : p \in Clis}
     IN cli \in [Clis -> CliState(jobs)]
  /\ \A p \in Clis : cli[p].names # <<>> => cli[p].at \in 1..Len(cli[p].names)
  /\ died \subseteq gone /\ gone \subseteq Containers

Deploying(p) == cli[p].names # <<>>

\* The replicas a deployment is done with.
Done(p) == 1..(IF At(p, "deployed") THEN Len(cli[p].names) ELSE cli[p].at - 1)

\* The image that a deployment prepares: its own build or what it named.
Prepared(p) == IF cli[p].job.image = None THEN p ELSE "registry"

\* A replica that a deployment is done with stays: whatever fails afterwards,
\* it runs the image that was prepared and is registered at its address under
\* its name, as long as no container has died and the server has not stopped.
DeployedServes ==
  outages = 0 =>
    \A p \in Clis : Deploying(p) =>
      \A k \in Done(p) :
        LET c == cli[p].names[k]
        IN /\ ContainerIsRunning(c) /\ box[c].image = Prepared(p)
           /\ \E i \in pool : /\ i.ip = box[c].ip /\ i.port = cli[p].job.port
                              /\ i.sni = Norm[TargetName(c, cli[p].job)]

\* A deployment that fails, at whatever step and whatever has failed before,
\* leaves nothing running of the replica it is at or of those after it; unless
\* it is docker run or the docker rm of the clean-up itself that fails by
\* chance, since neither is followed by anything.
FailedDeployCleansUp ==
  [][\A p \in Clis :
       ( /\ Deploying(p) /\ ~At(p, "failed") /\ At(p, "failed")'
         /\ cli[p].pc \in {"run", "abort"} => faults' = faults )
       => \A k \in cli[p].at..Len(cli[p].names) : box'[cli[p].names[k]].image = "none"]_vars

\* A deployment removes no running container but one that it has started, even
\* if one docker command fails: what it cleans up had stopped.
RemovesOnlyItsOwn ==
  [][\A p \in Clis, c \in Containers :
       ( /\ Deploying(p) /\ cli'[p] # cli[p] /\ faults' < 2
         /\ ContainerIsRunning(c) /\ ~ContainerIsRunning(c)' )
       => box[c].image = Prepared(p)]_vars

Undisturbed == faults = 0 /\ outages = 0

\* No discovery has begun to scan, and no deregistration was given an address.
NamedOnly ==
  \A p \in Clis :
    cli[p].pc # "start" =>
      /\ cli[p].pc \notin {"ps", "scan", "probe_app", "register_app", "discovered"}
      /\ cli[p].job \in Evictions[p] => cli[p].job.ip = None

\* Every upstream of the list is a running container that listens on its port:
\* what is registered is up, and what is stopped has left the list, however
\* addresses are used again; as long as nothing has failed, targets are named
\* and nobody discovers.  By address the container found may be another one, and
\* a discovery may register what is about to be stopped.
NoDeadUpstream ==
  Undisturbed /\ NamedOnly => \A i \in pool : \E c \in Containers : ListensAt(c, i.ip, i.port)

HostNames(c) == {Norm[Hostname[d, s]] : d \in {c, Lower[c]}, s \in Suffixes}

\* What a discovery looks for: a container that is not the platform's own, has
\* one address, and answers at the port and one of the paths it tries.
Discoverable(c) ==
  /\ c \notin Platform
  /\ ListensAt(c, box[c].ip, DiscoverPort)
  /\ \E k \in DOMAIN HealthProbePaths : HealthProbePaths[k] \in Answers[c]

\* A discovery that reports success has brought back, even after the server has
\* lost its list, every running container it looks for, once the deployments
\* around it have ended, as long as no call is lost and nothing has died or
\* stopped since it began.  The name it is listed under is its own, or that of a
\* container which had the address before it: an earlier command may have
\* inspected that one and registered it late, and the API refuses a second
\* upstream at the address.
DiscoveryRegistersAll ==
  ( /\ faults = 0
    /\ \A p \in Clis : cli[p].pc \in Ends \cup {"start"}
    /\ \E p \in Clis : At(p, "discovered") /\ cli[p].since = outages )
  => \A c \in Containers :
       Discoverable(c) =>
         \E i \in pool : /\ i.ip = box[c].ip /\ i.port = DiscoverPort
                        /\ \E d \in gone \cup {c} : i.sni \in HostNames(d)

\* When the watcher has handled the death of a container, the list has no
\* upstream of its name, unless the container runs again.
WatcherEvicts ==
  [][\A c \in died \ died' :
       ContainerIsRunning(c) \/ \A i \in pool' : i.sni \notin HostNames(c)]_vars

\* Every invocation that has begun ends.
CommandsEnd == \A p \in Clis : cli[p].pc # "start" ~> cli[p].pc \in Ends

\* Every invocation that has begun ends, or waits for an upstream that is not
\* being drained: the address it drained is registered again.
CommandsEndUnlessRevived ==
  \A p \in Clis :
    cli[p].pc # "start" ~>
      \/ cli[p].pc \in Ends
      \/ At(p, "wait") /\ \E i \in FirstMatch(pool, cli[p].ip, cli[p].job.port, None) :
                             i \notin Draining(pool)
==============================================================================
