----------------------------- MODULE DockerHost ------------------------------
(***************************************************************************)
(* The Docker daemon, as src/cli/docker_utils/docker.go uses it: named     *)
(* containers, of which the running ones hold an address, the network they *)
(* run on, and the images it has.  The daemon itself is not part of the    *)
(* repository; every operation here is one invocation of the docker        *)
(* command, which the daemon serialises.                                   *)
(***************************************************************************)
EXTENDS Upstreams

CONSTANTS
  Containers,   \* container names
  Clis,         \* invocations of the CLI
  Tags,         \* image tags
  ListensOn,    \* ListensOn[c]: the port the program in c listens on
  Answers,      \* Answers[c]: the paths at which it answers 200
  PartOf        \* the pairs <<a, b>> of texts with strings.Contains(b, a), e.g.
                \* "10.0.0.1" and "10.0.0.11"

ASSUME DockerAssumption ==
  /\ ListensOn \in [Containers -> Ports \ {0}]
  /\ PartOf \subseteq IPv4 \X (IPv4 \cup BadIps)
  /\ \A a \in IPv4 : <<a, a>> \in PartOf
  /\ None \notin Containers

VARIABLES
  box,       \* per name: absent, stopped or running, its address and its image
  network,   \* whether the network exists
  images     \* per tag: what it stands for

docker == <<box, network, images>>

\* What an image holds: the build of an invocation, or what a registry serves.
Contents == Clis \cup {"none", "registry"}

Absent  == [state |-> "absent", ip |-> None, image |-> "none"]
Stopped == [state |-> "stopped", ip |-> None, image |-> "none"]
RunningAt(a, image) == [state |-> "running", ip |-> a, image |-> image]

DockerTypeOK ==
  /\ box \in [Containers -> [state : {"absent", "stopped", "running"},
                             ip : IPv4 \cup BadIps \cup {None}, image : Contents]]
  /\ network \in BOOLEAN
  /\ images \in [Tags -> Contents]

\* Containers may be running already, started by docker compose, and old ones
\* may be lying around stopped.  A container on two networks has a text of
\* BadIps: docker inspect prints its addresses one after the other.
DockerInit ==
  /\ box \in [Containers -> {Absent, Stopped}
                 \cup {RunningAt(a, "none") : a \in IPv4 \cup BadIps}]
  /\ \A c, d \in Containers : (c # d /\ box[c].ip # None) => box[c].ip # box[d].ip
  /\ network \in BOOLEAN
  /\ images \in [Tags -> {"none", "registry"}]

ContainerExists(c)    == box[c].state # "absent"
ContainerIsRunning(c) == box[c].state = "running"
FreeIps == IPv4 \ {box[c].ip : c \in Containers}

CreateContainer(c) ==
  /\ ~ContainerExists(c)
  /\ box' = [box EXCEPT ![c] = Stopped]
  /\ UNCHANGED <<network, images>>

StartNew(c, tag) ==
  /\ ~ContainerExists(c)
  /\ \E a \in FreeIps : box' = [box EXCEPT ![c] = RunningAt(a, images[tag])]
  /\ UNCHANGED <<network, images>>

\* docker run: a taken name is an error and so is an address pool with nothing
\* left, which leaves the container created but not started.
DockerRun(c, tag, ok) ==
  \/ ok /\ StartNew(c, tag)
  \/ ~ok /\ FreeIps = {} /\ CreateContainer(c)
  \/ ~ok /\ ContainerExists(c) /\ UNCHANGED docker

\* docker rm -f
RemoveContainer(c) ==
  /\ box' = [box EXCEPT ![c] = Absent]
  /\ UNCHANGED <<network, images>>

\* docker network create: the name or the subnet of an existing one is taken.
NetworkCreate(ok) ==
  /\ ok = ~network
  /\ network' = TRUE
  /\ UNCHANGED <<box, images>>

\* docker pull and docker build give the tag its new content.
SetImage(tag, content) ==
  /\ images' = [images EXCEPT ![tag] = content]
  /\ UNCHANGED <<box, network>>

LocalImageExists(tag) == images[tag] # "none"

\* The program of a container ends.
Die(c) ==
  /\ ContainerIsRunning(c)
  /\ box' = [box EXCEPT ![c] = Stopped]
  /\ UNCHANGED <<network, images>>

ListensAt(c, a, port) == a \in IPv4 /\ box[c].ip = a /\ ListensOn[c] = port

\* A GET of a path at an address and port answers 200.
Serves(a, port, path) == \E c \in Containers : ListensAt(c, a, port) /\ path \in Answers[c]

\* FindContainerNameByIP: the running containers it may return for an address.
\* docker ps lists them in an order of its own; the first that matches wins.
NamesForIp(a) == {c \in Containers : ContainerIsRunning(c) /\ <<a, box[c].ip>> \in PartOf}
==============================================================================
