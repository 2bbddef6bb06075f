---------------------------- MODULE ControlClient ----------------------------
(***************************************************************************)
(* The client of the Control API, src/cli/api_utils/api.go, over the list  *)
(* of upstreams the API promises (UpstreamRegistry), and the container     *)
(* pingora-lb that every call is made in with docker exec.                 *)
(*                                                                         *)
(* A call is one step on that list, since its caller waits for the answer: *)
(* sendApiRequest makes two docker execs, the health check and the         *)
(* request, and only the second one has an effect.  A call fails when the  *)
(* server is not up; and it may fail by chance (Fault), as every docker    *)
(* command may: it does not get through, or the answer is lost after the   *)
(* server or the daemon has acted.  The caller sees the same error as for  *)
(* a refusal by the API.                                                   *)
(***************************************************************************)
EXTENDS UpstreamRegistry, DockerHost

CONSTANTS
  MaxFaults,    \* bound on docker commands and calls that fail by chance
  MaxOutages    \* bound on containers that die and on stops of the server

ASSUME ClientAssumption == MaxFaults \in Nat /\ MaxOutages \in Nat

VARIABLES
  server,    \* pingora-lb: serving; deaf, without its Control API; or down
  faults,
  outages

client == <<pool, used, server, faults, outages>>

ServerTypeOK ==
  /\ server \in {"serving", "deaf", "down"}
  /\ faults \in 0..MaxFaults /\ outages \in 0..MaxOutages

ServerInit == RegistryInit /\ server = "serving" /\ faults = 0 /\ outages = 0

Outage == outages < MaxOutages /\ outages' = outages + 1

\* Shutdown or crash: the list is only in memory, and the listener is closed.
StopServer ==
  /\ server # "down" /\ Outage
  /\ server' = "down" /\ pool' = {}
  /\ UNCHANGED <<used, faults>>

\* start_api_server returns when its address cannot be bound; the proxy and
\* the other services run on.
StartServer ==
  /\ server = "down"
  /\ server' \in {"serving", "deaf"}
  /\ UNCHANGED <<pool, used, faults, outages>>

\* A docker exec in pingora-lb works without its API.
ExecWorks == server # "down"
Reachable == server = "serving"

Fault   == faults < MaxFaults /\ faults' = faults + 1 /\ UNCHANGED <<server, outages>>
NoFault == UNCHANGED <<server, faults, outages>>

\* What the caller of a docker command sees of a fact: an error reads as no.
Seen(yes, fact) == IF yes THEN fact /\ NoFault
                          ELSE (~fact /\ NoFault) \/ (fact /\ Fault)

\* A docker command that fails before it has had its effect, or after.
Fails(effect) == Fault /\ (UNCHANGED docker \/ effect)

\* The error is dropped: the container may have stayed, or only have stopped.
StopAndRemoveContainer(c) == (NoFault /\ RemoveContainer(c)) \/ Fails(Die(c))

\* An error that leaves the list alone: no answer, or a refusal.
Refused(why) == (Fault \/ (NoFault /\ (why \/ ~Reachable))) /\ UNCHANGED <<pool, used>>

\* The answer of a call that took effect arrives, or is lost.
Took(ok) == Reachable /\ IF ok THEN NoFault ELSE Fault

CheckApiServerHealth(ok) ==
  /\ IF ok THEN Reachable /\ NoFault ELSE Fault \/ (NoFault /\ ~Reachable)
  /\ UNCHANGED <<pool, used>>

NextId == Cardinality(used) + 1

RegisterUpstream(ip, port, name, endpoint, ok) ==
  \/ ~ok /\ Refused(\/ ~ValidRegistration(ip, port, name, endpoint)
                    \/ Duplicate(pool, ip, port))
  \/ /\ ValidRegistration(ip, port, name, endpoint)
     /\ NextId \in Ids
     /\ Add(NextId, ip, port, name)
     /\ Took(ok)

\* Port 0 stands for no port, and is not sent.
DeregisterUpstream(ip, port, ok) ==
  LET rest == Retained(pool, ip, port)
  IN \/ ~ok /\ Refused(~ValidDeregistration(ip, port) \/ rest = pool)
     \/ /\ ValidDeregistration(ip, port) /\ rest # pool
        /\ Remove(ip, port) /\ Took(ok)

\* Always by address in this client.
DrainUpstream(ip, port, ok) ==
  LET found == FirstMatch(pool, ip, port, None)
  IN \/ ~ok /\ Refused(found = {})
     \/ (\E i \in found, until \in Deadlines : BeginDrain(i, until)) /\ Took(ok)

\* An error is no answer or 404.
GetUpstreamStatus(ip, port, ok) ==
  LET found == FirstMatch(pool, ip, port, None)
  IN IF ok THEN found # {} /\ Took(TRUE) /\ UNCHANGED <<pool, used>>
           ELSE Refused(found = {})

ListUpstreams(ok) ==
  /\ IF ok THEN Took(TRUE) ELSE Refused(FALSE)
  /\ UNCHANGED <<pool, used>>

\* What ListUpstreams makes of the answer: the table it prints.
FormatUpstreamTable == [form |-> "table", rows |-> pool]
==============================================================================
