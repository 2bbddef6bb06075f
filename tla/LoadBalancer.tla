---------------------------- MODULE LoadBalancer -----------------------------
(***************************************************************************)
(* The server of src/src/main.rs: the Control API, the health checker, the *)
(* draining service and the proxy, each on threads of its own, over one    *)
(* DynamicLBState.                                                         *)
(***************************************************************************)
EXTENDS ControlApi, HealthChecker, DrainingService, ProxyRequests

CONSTANT Services    \* the background services that are started

ASSUME ServicesAssumption == Services \subseteq {"health", "drain"}

vars == <<shared, apiVars, healthVars, dr, req>>

Init == RoutingInit /\ ApiInit /\ HealthInit /\ DrainInit /\ ProxyInit

ApiStep     == \E t \in ApiTasks : ApiNext(t) /\ UNCHANGED <<healthVars, dr, req>>
HealthStep  == "health" \in Services /\ HealthNext /\ UNCHANGED <<apiVars, dr, req>>
DrainStep   == "drain" \in Services /\ DrainNext /\ UNCHANGED <<apiVars, healthVars, req>>
RequestStep == \E r \in Requests : RequestNext(r) /\ UNCHANGED <<apiVars, healthVars, dr>>
FlipStep    == \E a \in Addrs : Flip(a) /\ UNCHANGED <<apiVars, dr, req>>
TickStep    == Tick /\ UNCHANGED <<apiVars, healthVars, dr, req>>

Next == ApiStep \/ HealthStep \/ DrainStep \/ RequestStep \/ FlipStep \/ TickStep

Spec == Init /\ [][Next]_vars

\* A handler that has begun to store runs on, the two services loop for ever
\* and time passes.  Nothing makes a caller call, a client send, a request
\* end or a backend change its health.
Fairness ==
  /\ \A t \in ApiTasks : WF_vars(ApiStores(t) /\ UNCHANGED <<healthVars, dr, req>>)
  /\ WF_vars(HealthStep)
  /\ WF_vars(DrainStep)
  /\ WF_vars(TickStep)

FairSpec == Spec /\ Fairness

(***************************************************************************)
(* Correctness.                                                            *)
(***************************************************************************)

\* The variables hold what their Rust types and the bounds say.
TypeOK == RoutingTypeOK /\ ApiTypeOK /\ HealthTypeOK /\ DrainTypeOK /\ ProxyTypeOK

IdsOf(S) == {i.id : i \in S}

\* No handler is between its load and its last store.
ApiQuiet == \A t \in ApiTasks : api[t].pc = "idle"

\* Nothing is about to overwrite items.
WritersQuiet == ApiQuiet /\ dr.pc = "idle"

Holders(id) == {r \in Requests : req[r].counter = id}

\* register_upstream refuses an address that is taken, yet every writer
\* stores a list it built from an older one: no order of the stores may leave
\* two registrations of one address in items.
UniqueAddrs == DistinctAddrs(items)

\* The counter of an item is the number of requests that hold it: nothing is
\* counted twice by upstream_peer, leaks, or is given back twice by logging.
CountersExact == \A id \in Ids : count[id] = Cardinality(Holders(id))

\* Even when the framework asks for a second upstream, a counter is never
\* below the number of requests that hold it, so fetch_sub never wraps
\* around and a purge never takes a used item for idle because of it.
CountersCover == \A id \in Ids : count[id] >= Cardinality(Holders(id))

\* A request on its way to a backend holds the counter of the registration
\* at the address it goes to, whatever the pool became between its lookups.
CountedAtItsBackend ==
  \A r \in Requests : \A i \in items \cup byAddr :
    (req[r].pc = "upstream" /\ req[r].counter = i.id) => AddrOf(i) = req[r].addr

\* What the API has answered is what items say once no writer is under way:
\* a registered upstream is there and active, a drained one is draining or
\* purged, a deregistered one is gone.
AcknowledgedChangesPersist ==
  WritersQuiet =>
    \A id \in Ids :
      /\ told[id] = "active" => \E i \in items : i.id = id /\ IsActive(i)
      /\ told[id] = "draining" => \A i \in items : i.id = id => ~IsActive(i)
      /\ told[id] = "gone" => id \notin IdsOf(items)

\* Once a drain is answered, no new request is sent to the backend.
DrainedNotSelected ==
  \A i \in items : (~IsActive(i) /\ told[i.id] = "draining") => AddrOf(i) \notin lb

\* The draining service drops an item only when it has no request in flight
\* or its deadline has passed.
PurgeSparesInFlight ==
  dr.pc = "items" =>
    \A i \in Draining(items) :
      (i.id \notin IdsOf(dr.next) /\ ~Expired(i, now)) => count[i.id] = 0

\* While nothing but the API changes the pool, and it is not in the middle of
\* a change, requests are sent to the active items with an IPv4 address and to
\* no other, and each of these items can be found by its address: an upstream
\* that was answered 201 is selectable at once, unless its address is IPv6.
PoolFollowsItems ==
  (Services = {} /\ ApiQuiet) =>
    /\ lb = {<<i.ip, i.port>> : i \in {j \in items : IsActive(j) /\ j.ip \in IPv4}}
    /\ byAddr = {i \in items : i.ip \in IPv4}

\* Under the same conditions a request that was given a backend is counted,
\* unless that backend has left the pool since it was selected.
UncountedOnlyWhileChanging ==
  [][\A r \in Requests :
       (Services = {} /\ req[r].pc = "named" /\ req'[r].pc = "upstream")
         => ~ApiQuiet \/ req[r].addr \notin lb]_vars

\* The list of upstreams behaves as if every call of the API were one step.
Registry == INSTANCE UpstreamRegistry
              WITH pool <- items, used <- {id \in Ids : told[id] # "none"},
                   Deadlines <- 0..MaxNow
RegistryAtomic == Registry!RegistrySpec

\* The pool a quiet server converges to: no draining item is left, and the
\* two derived structures hold the active items whose probes succeed.
Settled ==
  LET healthy == {i \in items : Answers(i)}
  IN /\ Draining(items) = {}
     /\ byAddr = AddrMap(healthy)
     /\ lb = ActiveBackends(healthy)

\* Whatever torn or stale pool the writers leave behind, the purge and the
\* health cycle repair it, though requests may stay in flight for ever.
EventuallySettled == <>[]Settled
==============================================================================
