---------------------------- MODULE MCEdgeCluster ----------------------------
(***************************************************************************)
(* Small instances of EdgeCluster: definitions the .cfg files give to its  *)
(* constants.  x, y and z are invocations of the CLI.                      *)
(***************************************************************************)
EXTENDS EdgeCluster, TLC

CONSTANTS a1, a2, junk, blank, x, y, z

NormDef         == [n \in Names |-> n]
HostnameDef     == [c \in Containers, s \in Suffixes |->
                      IF s = "dev" THEN c \o ".dev" ELSE c \o ".edge.local"]
LowerDef        == [c \in Containers |-> c]
InstanceNameDef == [b \in Bases, i \in 0..2 |->
                      IF i = 0 THEN b ELSE IF i = 1 THEN b \o "-1" ELSE b \o "-2"]
LatestTagDef    == [b \in Bases |-> b \o ":latest"]

\* An "app" answers at the second path a discovery tries, the others at the first
\* and at one of their own; the text of a1 is part of that of a2, or no text is
\* part of another.
AllOn80   == [c \in Containers |-> 80]
Answering == [c \in Containers |-> IF c \in {"app-1", "app-2"} THEN {"/healthz"}
                                                               ELSE {"/health", "/ready"}]
Apart     == {<<a1, a1>>, <<a2, a2>>}
Nested    == Apart \cup {<<a1, a2>>}

\* path is where the deployment probes.
Flags(name, replicas, image, credentials, port, path) ==
  [name |-> name, image |-> image, credentials |-> credentials, context |-> image = None,
   replicas |-> replicas, suffix |-> None, port |-> port, endpoint |-> "rooted", path |-> path]

\* x builds two replicas.  y runs an image, with a login or without; or asks
\* for another port and no path in particular, at which nothing answers, under a
\* name that is made up; or for an endpoint the API refuses; or gives flags that
\* are refused.
TwoApps == [p \in Clis |->
  IF p = x THEN {[Flags("app", 2, None, FALSE, 80, "/healthz") EXCEPT !.suffix = "dev"]}
  ELSE {Flags("pingora-lb-ui", 1, "pingora-lb-ui:latest", TRUE, 80, "/ready"),
        [Flags(None, 1, "pingora-lb-ui:latest", FALSE, 90, "/") EXCEPT !.endpoint = "absent"],
        [Flags("pingora-lb-ui", 1, None, FALSE, 80, "/ready") EXCEPT !.endpoint = "bare"],
        [Flags("pingora-lb-ui", 1, None, FALSE, 80, "/ready") EXCEPT !.context = FALSE]}]

OneApp      == [p \in Clis |-> {Flags("web", 1, "web:latest", FALSE, 80, "/ready")}]
TwoReplicas == [p \in Clis |-> {Flags("app", 2, "app:latest", FALSE, 80, "/healthz")}]

Flag(name, ip, halt, graceful) ==
  [name |-> name, ip |-> ip, port |-> IF ip = None THEN None ELSE 80,
   halt |-> halt, graceful |-> graceful]

NoEvicting   == [p \in Clis |-> {}]
Graceful     == [p \in Clis |-> {Flag("web", None, TRUE, TRUE)}]

\* A replica is taken out by name, gracefully or not, with or without a stop; or
\* an address, or a name and an address, or the flags are refused.
Flagged == {Flag("app-1", None, TRUE, g) : g \in BOOLEAN} \cup {Flag("app-2", None, TRUE, TRUE)}
Odd     == {Flag(None, a, TRUE, TRUE) : a \in IPv4}
             \cup {Flag("app-2", a1, TRUE, FALSE), Flag("app-1", None, FALSE, FALSE),
                   Flag(None, None, TRUE, TRUE)}
TwoEvictions == [p \in Clis |-> IF p = y THEN Flagged ELSE Flagged \cup Odd]

\* Addresses that are not part of one another can be exchanged.
IpSymmetry == Permutations(IPv4)

OnlyDeploys         == [p \in Clis |-> {"deploy"}]
DeployDiscover      == [p \in Clis |-> IF p = x THEN {"deploy", "discover"}
                                      ELSE {"deploy", "discover", "list"}]
DeployAndEvict      == [p \in Clis |-> IF p = x THEN {"deploy"} ELSE {"deregister"}]
DeployEvictDiscover == [p \in Clis |-> IF p = x THEN {"deploy"}
                                      ELSE IF p = y THEN {"deregister"} ELSE {"discover"}]

\* A host without the images and the network, and one that has them
\* and no containers that have stopped.
FreshInit    == Init /\ ~network /\ \A t \in Tags : ~LocalImageExists(t)
FreshSpec    == FreshInit /\ [][Next]_vars
WarmInit     == /\ Init /\ network
                /\ \A t \in Tags : LocalImageExists(t)
                /\ \A c \in Containers : box[c] # Stopped
WarmSpec     == WarmInit /\ [][Next]_vars
WarmFairSpec == WarmSpec /\ Fairness
==============================================================================
