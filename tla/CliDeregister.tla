---------------------------- MODULE CliDeregister ----------------------------
(***************************************************************************)
(* "deregister": handleDeregister of src/cli/main.go.  The target is named *)
(* or addressed; it is drained or removed, and with --stop its container   *)
(* is removed once the status call has failed for the first time.          *)
(***************************************************************************)
EXTENDS CliDeploy

CONSTANT Evictions    \* Evictions[p]: the flags p may give to deregister, records of
                      \* name, ip, port, halt (--stop) and graceful (a timeout above 0)

ASSUME EvictionsAssumption ==
  \A p \in Clis : \A e \in Evictions[p] :
    /\ e.name \in Containers \cup {None}
    /\ e.ip \in IpTexts \cup {None}
    /\ e.port \in (Ports \ {0}) \cup {None}
    /\ e.halt \in BOOLEAN /\ e.graceful \in BOOLEAN

\* Without --ip the name is resolved, in lower case.
StartDeregister(p) ==
  /\ At(p, "start")
  /\ \E e \in Evictions[p] :
       cli' = [cli EXCEPT ![p] = [NewCli EXCEPT
                 !.pc = IF ~ValidEvictionArgs(e) THEN "failed"
                        ELSE IF e.ip = None THEN "resolve" ELSE "evict",
                 !.job = e, !.ip = e.ip,
                 !.name = IF e.name = None THEN None ELSE Lower[e.name]]]
  /\ UNCHANGED <<docker, client>>

ResolveTarget(p) ==
  LET c == cli[p].name
  IN /\ At(p, "resolve")
     /\ \/ /\ Seen(TRUE, ContainerIsRunning(c))
           /\ cli' = [cli EXCEPT ![p].pc = "evict", ![p].ip = box[c].ip]
        \/ Seen(FALSE, ContainerIsRunning(c)) /\ Goto(p, "failed")
     /\ AskOnly

\* executeDeregistration: an error ends the command.
EvictTarget(p) ==
  /\ At(p, "evict")
  /\ \E ok \in BOOLEAN :
       /\ IF cli[p].job.graceful THEN DrainUpstream(cli[p].ip, cli[p].job.port, ok)
                                 ELSE DeregisterUpstream(cli[p].ip, cli[p].job.port, ok)
       /\ \/ ~ok /\ Goto(p, "failed")
          \/ ok /\ ~cli[p].job.halt /\ Goto(p, "evicted")
          \/ ok /\ cli[p].job.halt /\ Goto(p, IF cli[p].job.graceful THEN "wait" ELSE "find")
  /\ ApiOnly

\* Mutation: one status call is made, whatever its answer.
WaitOnce(p) ==
  /\ At(p, "wait")
  /\ \E ok \in BOOLEAN : GetUpstreamStatus(cli[p].ip, cli[p].job.port, ok)
  /\ Goto(p, "find")
  /\ ApiOnly

\* Mutation: the test of the error is the wrong way round.
WaitUntilFound(p) ==
  /\ At(p, "wait")
  /\ \E ok \in BOOLEAN :
       /\ GetUpstreamStatus(cli[p].ip, cli[p].job.port, ok)
       /\ Goto(p, IF ok THEN "find" ELSE "wait")
  /\ ApiOnly

\* waitForBackendDrain: poll until the status call fails, for any reason.
WaitForBackendDrain(p) ==
  /\ At(p, "wait")
  /\ \E ok \in BOOLEAN :
       /\ GetUpstreamStatus(cli[p].ip, cli[p].job.port, ok)
       /\ Goto(p, IF ok THEN "wait" ELSE "find")
  /\ ApiOnly

\* stopTargetContainer: without a name, look one up by address; an error reads
\* as none.
FindTarget(p) ==
  LET found == NamesForIp(cli[p].ip)
  IN /\ At(p, "find")
     /\ \/ cli[p].name # None /\ NoFault /\ Goto(p, "stop")
        \/ /\ cli[p].name = None
           /\ \/ /\ NoFault
                 /\ \E c \in found : cli' = [cli EXCEPT ![p].pc = "stop", ![p].name = c]
              \/ Seen(FALSE, found # {}) /\ Goto(p, "evicted")
     /\ AskOnly

StopTarget(p) ==
  /\ At(p, "stop")
  /\ StopAndRemoveContainer(cli[p].name)
  /\ Goto(p, "evicted")
  /\ DockerOnly

DeregisterNext(p) == \/ StartDeregister(p) \/ ResolveTarget(p) \/ EvictTarget(p)
                     \/ WaitForBackendDrain(p) \/ FindTarget(p) \/ StopTarget(p)
==============================================================================
