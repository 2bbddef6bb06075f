---------------------------- MODULE HealthChecker ----------------------------
(***************************************************************************)
(* HealthCheckService of src/src/health/checker.rs.  A cycle loads items   *)
(* once, awaits the probes of that list one by one, and then rebuilds      *)
(* by_addr and lb from the items that answered; it never stores items.     *)
(* The sleep between two cycles and the time a probe takes are not         *)
(* bounded, so any step of another thread may come between two of these.   *)
(*                                                                         *)
(* up is the outside world: the addresses whose endpoint answers 2xx.      *)
(***************************************************************************)
EXTENDS RoutingState

CONSTANT MaxFlips    \* bound on the changes of up

ASSUME HealthAssumption == MaxFlips \in Nat

VARIABLES
  hc,      \* the cycle: items still to probe, items found healthy, attempt
  up,
  flips

healthVars == <<hc, up, flips>>

HealthState == [pc : {"idle", "probe", "lb"}, todo : SUBSET Item,
                healthy : SUBSET Item, attempt : 1..2]

Asleep == [pc |-> "idle", todo |-> {}, healthy |-> {}, attempt |-> 1]

HealthTypeOK ==
  /\ hc \in HealthState
  /\ up \subseteq Addrs
  /\ flips \in 0..MaxFlips

HealthInit == hc = Asleep /\ up = Addrs /\ flips = 0

LoadCycle ==
  /\ hc.pc = "idle"
  /\ hc' = [pc |-> "probe", todo |-> items, healthy |-> {}, attempt |-> 1]
  /\ UNCHANGED <<shared, up, flips>>

\* Items are probed in the order of the list.
Probed(i) == i \in hc.todo /\ \A j \in hc.todo : i.id <= j.id

Answers(i) == Routable(i) /\ AddrOf(i) \in up

\* One GET of probe_backend_health: a 2xx answer ends the probe; the first
\* failure is followed by a sleep and a second attempt, the second one drops
\* the item.
Probe ==
  /\ hc.pc = "probe"
  /\ \E i \in hc.todo :
       /\ Probed(i)
       /\ \/ /\ Answers(i)
             /\ hc' = [hc EXCEPT !.todo = @ \ {i}, !.healthy = @ \cup {i}, !.attempt = 1]
          \/ /\ ~Answers(i) /\ hc.attempt = 1
             /\ hc' = [hc EXCEPT !.attempt = 2]
          \/ /\ ~Answers(i) /\ hc.attempt = 2
             /\ hc' = [hc EXCEPT !.todo = @ \ {i}, !.attempt = 1]
  /\ UNCHANGED <<shared, up, flips>>

\* The rebuild with the healthy items: by_addr first, then lb.
HealthStoreAddrMap ==
  /\ hc.pc = "probe" /\ hc.todo = {}
  /\ StoreAddrMap(hc.healthy)
  /\ hc' = [hc EXCEPT !.pc = "lb"]
  /\ UNCHANGED <<items, lb, count, nextId, now, up, flips>>

HealthStoreBackends ==
  /\ hc.pc = "lb"
  /\ StoreBackends(hc.healthy)
  /\ hc' = Asleep
  /\ UNCHANGED <<items, byAddr, count, nextId, now, up, flips>>

HealthNext == LoadCycle \/ Probe \/ HealthStoreAddrMap \/ HealthStoreBackends

\* A backend stops or starts answering its health endpoint.
Flip(a) ==
  /\ flips < MaxFlips
  /\ flips' = flips + 1
  /\ up' = IF a \in up THEN up \ {a} ELSE up \cup {a}
  /\ UNCHANGED <<shared, hc>>
==============================================================================
