----------------------------- MODULE CliDiscover -----------------------------
(***************************************************************************)
(* "discover": src/cli/discover/discover.go, which registers the running   *)
(* containers with a list of upstreams that a restart has emptied, "list", *)
(* and "watch": src/cli/watcher/watcher.go, which hears of dead containers.*)
(***************************************************************************)
EXTENDS CliDeregister

CONSTANTS
  DiscoverPort,    \* the port inspectApp assumes, 8080
  Platform         \* the containers whose name contains "pingora-lb" or "pingora-discover"

ASSUME DiscoverAssumption == DiscoverPort \in Ports \ {0} /\ Platform \subseteq Containers

HealthProbePaths == <<"/health", "/healthz", "/api/health", "/api/healthz">>

VARIABLE died    \* container events the watcher has not handled yet

Scanning == [NewCli EXCEPT !.pc = "ps", !.since = outages]

\* Mutation: the health of the API is not looked at.
StartDiscoverUnchecked(p) ==
  /\ At(p, "start")
  /\ cli' = [cli EXCEPT ![p] = Scanning]
  /\ UNCHANGED <<docker, client>>

StartDiscover(p) ==
  /\ At(p, "start")
  /\ \E ok \in BOOLEAN :
       /\ CheckApiServerHealth(ok)
       /\ IF ok THEN cli' = [cli EXCEPT ![p] = Scanning] ELSE Goto(p, "failed")
  /\ ApiOnly

\* The platform's own containers are left out.
ListRunningContainers(p) ==
  /\ At(p, "ps")
  /\ \/ /\ NoFault
        /\ cli' = [cli EXCEPT ![p].pc = "scan",
                              ![p].todo = {c \in Containers \ Platform : ContainerIsRunning(c)}]
     \/ Fault /\ Goto(p, "failed")
  /\ AskOnly

\* processContainers: inspect, probe and register one container after the
\* other; whatever fails is skipped.
InspectApp(p) ==
  /\ At(p, "scan")
  /\ \E c \in cli[p].todo :
       \/ /\ Seen(TRUE, ContainerIsRunning(c))
          /\ cli' = [cli EXCEPT ![p].pc = "probe_app", ![p].name = c, ![p].ip = box[c].ip,
                                ![p].at = 1, ![p].todo = @ \ {c}]
       \/ /\ Seen(FALSE, ContainerIsRunning(c))
          /\ cli' = [cli EXCEPT ![p].todo = @ \ {c}]
  /\ AskOnly

\* From within pingora-lb, one path after the other until one answers.
ProbeHealthEndpoint(p) ==
  LET answers == ExecWorks /\ Serves(cli[p].ip, DiscoverPort, HealthProbePaths[cli[p].at])
  IN /\ At(p, "probe_app")
     /\ \/ Seen(TRUE, answers) /\ Goto(p, "register_app")
        \/ /\ Seen(FALSE, answers)
           /\ IF cli[p].at < Len(HealthProbePaths)
                THEN cli' = [cli EXCEPT ![p].at = @ + 1] ELSE Goto(p, "scan")
     /\ AskOnly

\* The path that answered is rooted; the result only changes the count that
\* is printed.
RegisterApp(p) ==
  /\ At(p, "register_app")
  /\ \E ok \in BOOLEAN :
       RegisterUpstream(cli[p].ip, DiscoverPort, AppName(cli[p].name), "rooted", ok)
  /\ Goto(p, "scan")
  /\ ApiOnly

FinishDiscover(p) ==
  /\ At(p, "scan") /\ cli[p].todo = {}
  /\ Goto(p, "discovered")
  /\ UNCHANGED <<docker, client>>

DiscoverNext(p) == \/ StartDiscover(p) \/ ListRunningContainers(p) \/ InspectApp(p)
                   \/ ProbeHealthEndpoint(p) \/ RegisterApp(p) \/ FinishDiscover(p)

ListNext(p) ==
  /\ At(p, "start")
  /\ \E ok \in BOOLEAN : ListUpstreams(ok) /\ Goto(p, IF ok THEN "listed" ELSE "failed")
  /\ ApiOnly

\* json.Unmarshal: nothing, with an error, unless it is given JSON.
Decoded(answer) == IF answer.form = "json" THEN answer.rows ELSE {}

\* evictContainerIfRegistered looks for upstreams whose SNI is the name of
\* the container in what ListUpstreams returned.
HandleEvent(c) ==
  /\ c \in died
  /\ died' = died \ {c}
  /\ pool' = pool \ {i \in Decoded(FormatUpstreamTable) : i.sni = c}
  /\ UNCHANGED <<used, server, faults, outages, docker, cli>>
==============================================================================
