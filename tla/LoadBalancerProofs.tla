------------------------- MODULE LoadBalancerProofs --------------------------
(***************************************************************************)
(* What holds of LoadBalancer for every value of its constants: any number *)
(* of API tasks, requests, addresses, calls and registrations.             *)
(***************************************************************************)
EXTENDS LoadBalancer, UpstreamsProofs, FiniteSetTheorems

(***************************************************************************)
(* Types.  One lemma per component: its steps keep the types of the        *)
(* variables it writes.                                                    *)
(***************************************************************************)
\* A handler of the Control API keeps the types of the routing state and its own.
LEMMA ApiTypes ==
  ASSUME RoutingTypeOK, ApiTypeOK, NEW t \in ApiTasks, ApiNext(t)
  PROVE  RoutingTypeOK' /\ ApiTypeOK'
<1> USE DEF RoutingTypeOK, ApiTypeOK, ApiState, Said, Replies
<1>1. ASSUME NEW ip \in IpTexts, NEW port \in Ports, NEW name \in Names,
             NEW e \in Endpoints, Register(t, ip, port, name, e)
      PROVE  RoutingTypeOK' /\ ApiTypeOK'
  <2>1. nextId <= MaxRegs => nextId \in Ids
    BY UpstreamsAssumption DEF Ids
  <2>2. CASE Answer(t, "bad_request") \/ Answer(t, "conflict")
    BY <1>1, <2>2, ApiAssumption DEF Register, Accept, Answer, Waiting
  <2>3. CASE /\ ValidRegistration(ip, port, name, e)
             /\ Publish(t, items \cup {NewItem(nextId, ip, port, name)}, {nextId}, "active")
             /\ nextId' = nextId + 1
    <3>1. NewItem(nextId, ip, port, name) \in Item
      BY <1>1, <2>1, <2>3, NewItemType DEF Register
    <3>2. nextId' \in 1..(MaxRegs + 1)
      BY <1>1, <2>3, UpstreamsAssumption DEF Register
    <3> QED BY <1>1, <2>1, <2>3, <3>1, <3>2, ApiAssumption DEF Register, Accept, Publish
  <2> QED BY <1>1, <2>2, <2>3 DEF Register
<1>2. ASSUME NEW ip \in IpTexts, NEW port \in Ports \cup {None}, Deregister(t, ip, port)
      PROVE  RoutingTypeOK' /\ ApiTypeOK'
  <2>1. Retained(items, ip, port) \in SUBSET Item
    BY DEF Retained
  <2>2. {i.id : i \in items \ Retained(items, ip, port)} \in SUBSET Ids
    BY DEF Item
  <2> QED BY <1>2, <2>1, <2>2, ApiAssumption
          DEF Deregister, Accept, Answer, Waiting, Publish
<1>3. ASSUME NEW ip \in IpTexts \cup {None}, NEW port \in Ports \cup {None},
             NEW name \in Names \cup {None}, NEW timeout \in Timeouts \cup {None},
             Drain(t, ip, port, name, timeout)
      PROVE  RoutingTypeOK' /\ ApiTypeOK'
  <2> DEFINE secs  == IF timeout = None THEN DefaultTimeout ELSE timeout
             found == FirstMatch(items, ip, port, NormOption(name))
  <2>1. now + secs \in Nat
    BY ApiAssumption, ClockAssumption
  <2>2. CASE Answer(t, "bad_request") \/ Answer(t, "not_found")
    BY <1>3, <2>2, ApiAssumption DEF Drain, Accept, Answer, Waiting
  <2>3. CASE /\ \E i \in found :
                  Publish(t, (items \ {i}) \cup {MarkedDraining(i, now + secs)},
                          {i.id}, "draining")
             /\ UNCHANGED nextId
    <3>1. PICK i \in found :
             Publish(t, (items \ {i}) \cup {MarkedDraining(i, now + secs)},
                     {i.id}, "draining")
      BY <2>3
    <3>2. i \in Item /\ i.id \in Ids
      BY DEF FirstMatch, Item
    <3>3. MarkedDraining(i, now + secs) \in Item
      BY <2>1, <3>2, MarkedType
    <3>4. (items \ {i}) \cup {MarkedDraining(i, now + secs)} \in SUBSET Item
      BY <3>3
    <3>5. api' \in [ApiTasks -> ApiState]
      BY <3>1, <3>2, <3>4 DEF Publish
    <3>6. calls' \in 0..MaxCalls /\ UNCHANGED <<items, byAddr, lb, count, nextId, now, told>>
      BY <1>3, <2>3, ApiAssumption DEF Drain, Accept
    <3> QED BY <3>5, <3>6
  <2> QED BY <1>3, <2>2, <2>3 DEF Drain
<1>4. CASE ApiStores(t)
  <2>1. api[t].next \in SUBSET Item /\ api[t].as \in Said
    OBVIOUS
  <2> QED BY <1>4, <2>1, RebuildTypes
          DEF ApiStores, ApiStoreAddrMap, ApiStoreBackends, ApiStoreItems,
              StoreAddrMap, StoreBackends, Waiting
<1>5. ASSUME NEW ip \in IpTexts \cup {None}, NEW port \in Ports \cup {None},
             NEW name \in Names \cup {None}, DrainPanics(t, ip, port, name)
      PROVE  RoutingTypeOK' /\ ApiTypeOK'
  BY <1>5, ApiAssumption DEF DrainPanics, Accept, Answer, Waiting
<1> QED BY <1>1, <1>2, <1>3, <1>4, <1>5
        DEF ApiNext, RegisterCall, DeregisterCall, DrainCall

\* A health cycle keeps its record and the cells typed: it publishes items it has
\* loaded.
LEMMA HealthTypes ==
  ASSUME RoutingTypeOK, HealthTypeOK, HealthNext
  PROVE  RoutingTypeOK' /\ HealthTypeOK'
<1> USE DEF RoutingTypeOK, HealthTypeOK, HealthState, shared
<1>1. CASE LoadCycle
  BY <1>1 DEF LoadCycle
<1>2. CASE Probe
  <2>1. ASSUME NEW i \in hc.todo,
               hc' = [hc EXCEPT !.todo = @ \ {i}, !.healthy = @ \cup {i}, !.attempt = 1]
        PROVE  hc' \in HealthState
    <3>1. hc.todo \ {i} \in SUBSET Item /\ hc.healthy \cup {i} \in SUBSET Item
      OBVIOUS
    <3>2. hc' = [pc |-> hc.pc, todo |-> hc.todo \ {i}, healthy |-> hc.healthy \cup {i},
                 attempt |-> 1]
      BY <2>1
    <3> QED BY <3>1, <3>2
  <2>2. ASSUME NEW i \in hc.todo, hc' = [hc EXCEPT !.todo = @ \ {i}, !.attempt = 1]
        PROVE  hc' \in HealthState
    <3>1. hc.todo \ {i} \in SUBSET Item
      OBVIOUS
    <3>2. hc' = [pc |-> hc.pc, todo |-> hc.todo \ {i}, healthy |-> hc.healthy, attempt |-> 1]
      BY <2>2
    <3> QED BY <3>1, <3>2
  <2>3. hc' = [hc EXCEPT !.attempt = 2] => hc' \in HealthState
    OBVIOUS
  <2>4. hc' \in HealthState
    BY <1>2, <2>1, <2>2, <2>3, Zenon DEF Probe
  <2> QED BY <1>2, <2>4 DEF Probe
<1>3. CASE HealthStoreAddrMap
  BY <1>3, RebuildTypes DEF HealthStoreAddrMap, StoreAddrMap
<1>4. CASE HealthStoreBackends
  BY <1>4, RebuildTypes DEF HealthStoreBackends, StoreBackends, Asleep
<1> QED BY <1>1, <1>2, <1>3, <1>4 DEF HealthNext

\* A change of the outside world touches up and flips only.
LEMMA FlipTypes ==
  ASSUME RoutingTypeOK, HealthTypeOK, NEW a \in Addrs, Flip(a)
  PROVE  RoutingTypeOK' /\ HealthTypeOK'
  BY HealthAssumption DEF RoutingTypeOK, HealthTypeOK, HealthState, Flip, shared

\* A purge keeps its record and the cells typed: it publishes items it has loaded.
LEMMA DrainTypes ==
  ASSUME RoutingTypeOK, DrainTypeOK, DrainNext
  PROVE  RoutingTypeOK' /\ DrainTypeOK'
<1> USE DEF RoutingTypeOK, DrainTypeOK, DrainState, shared
<1>1. CASE LoadPurge
  BY <1>1 DEF LoadPurge, Draining
<1>2. CASE Scan
  <2>1. PICK i \in dr.todo :
          dr' = [dr EXCEPT !.todo = @ \ {i},
                           !.next = IF KeepsDraining(i, count[i.id], dr.at)
                                      THEN @ \cup {i} ELSE @]
    BY <1>2 DEF Scan
  <2>2. dr.todo \ {i} \in SUBSET Item /\ dr.next \cup {i} \in SUBSET Item
    OBVIOUS
  <2>3. dr' \in DrainState
    BY <2>1, <2>2
  <2> QED BY <1>2, <2>3 DEF Scan
<1>3. CASE PurgeNothing
  BY <1>3, ClockAssumption DEF PurgeNothing, BetweenTicks
<1>4. CASE PurgeStoreAddrMap
  BY <1>4, RebuildTypes DEF PurgeStoreAddrMap, StoreAddrMap
<1>5. CASE PurgeStoreBackends
  BY <1>5, RebuildTypes DEF PurgeStoreBackends, StoreBackends
<1>6. CASE PurgeStoreItems
  BY <1>6, ClockAssumption DEF PurgeStoreItems, BetweenTicks
<1> QED BY <1>1, <1>2, <1>3, <1>4, <1>5, <1>6 DEF DrainNext

\* The clock stays within its bound.
LEMMA TickTypes ==
  ASSUME RoutingTypeOK, Tick
  PROVE  RoutingTypeOK'
  BY ClockAssumption DEF RoutingTypeOK, Tick

\* Loading and overwriting keep a context of the declared shape; what is
\* counted is an item of by_addr, so its id is one of Ids.
LEMMA RequestTypes ==
  ASSUME RoutingTypeOK, ProxyTypeOK, NEW r \in Requests, RequestNext(r)
  PROVE  RoutingTypeOK' /\ ProxyTypeOK'
<1> USE DEF RoutingTypeOK, ProxyTypeOK, RequestState, shared
<1>1. CASE Select(r)
  BY <1>1 DEF Select
<1>2. CASE LookupName(r)
  BY <1>2 DEF LookupName, EntryAt, Item
<1>3. CASE LookupCounter(r)
  <2>1. \A i \in EntryAt(byAddr, req[r].addr) : i.id \in Ids
    BY DEF EntryAt, Item
  <2> QED BY <1>3, <2>1 DEF LookupCounter
<1>4. CASE CountUp(r)
  <2>1. req[r].found \in Ids
    BY <1>4 DEF CountUp
  <2>2. count' \in [Ids -> Int]
    BY <1>4, <2>1 DEF CountUp
  <2>3. req' \in [Requests -> RequestState]
    <3>1. [req[r] EXCEPT !.pc = "upstream", !.counter = req[r].found] \in RequestState
      BY <2>1
    <3> QED BY <1>4, <3>1, Zenon DEF CountUp
  <2>4. \A s \in Requests : req'[s].pc = "counting" => req'[s].found \in Ids
    BY <1>4 DEF CountUp
  <2> QED BY <1>4, <2>2, <2>3, <2>4 DEF CountUp
<1>5. CASE Retry(r)
  BY <1>5, ProxyAssumption DEF Retry
<1>6. CASE Logging(r)
  BY <1>6, ProxyAssumption DEF Logging, NewCtx
<1> QED BY <1>1, <1>2, <1>3, <1>4, <1>5, <1>6 DEF RequestNext

\* DynamicLBState::new and the idle services are typed.
LEMMA InitTypes == Init => TypeOK
<1> SUFFICES ASSUME Init PROVE TypeOK
  OBVIOUS
<1>1. RoutingTypeOK
  BY UpstreamsAssumption, ClockAssumption DEF Init, RoutingInit, RoutingTypeOK
<1>2. ApiTypeOK
  BY ApiAssumption DEF Init, ApiInit, ApiTypeOK, ApiState, Waiting, Said, Replies
<1>3. HealthTypeOK
  BY HealthAssumption DEF Init, HealthInit, HealthTypeOK, HealthState, Asleep
<1>4. DrainTypeOK
  BY ClockAssumption DEF Init, DrainInit, DrainTypeOK, DrainState, BetweenTicks
<1>5. ProxyTypeOK
  BY ProxyAssumption DEF Init, ProxyInit, ProxyTypeOK, RequestState, NewCtx
<1> QED BY <1>1, <1>2, <1>3, <1>4, <1>5 DEF TypeOK

\* Every step of the server keeps the types.
LEMMA NextTypes == TypeOK /\ [Next]_vars => TypeOK'
<1> SUFFICES ASSUME TypeOK, [Next]_vars PROVE TypeOK'
  OBVIOUS
<1> USE DEF TypeOK
<1>1. CASE ApiStep
  <2>1. RoutingTypeOK' /\ ApiTypeOK'
    BY <1>1, ApiTypes DEF ApiStep
  <2> QED BY <1>1, <2>1 DEF ApiStep, healthVars, HealthTypeOK, DrainTypeOK, ProxyTypeOK
<1>2. CASE HealthStep
  <2>1. RoutingTypeOK' /\ HealthTypeOK'
    BY <1>2, HealthTypes DEF HealthStep
  <2> QED BY <1>2, <2>1 DEF HealthStep, apiVars, ApiTypeOK, DrainTypeOK, ProxyTypeOK
<1>3. CASE DrainStep
  <2>1. RoutingTypeOK' /\ DrainTypeOK'
    BY <1>3, DrainTypes DEF DrainStep
  <2> QED BY <1>3, <2>1
          DEF DrainStep, apiVars, healthVars, ApiTypeOK, HealthTypeOK, ProxyTypeOK
<1>4. CASE RequestStep
  <2>1. RoutingTypeOK' /\ ProxyTypeOK'
    BY <1>4, RequestTypes DEF RequestStep
  <2> QED BY <1>4, <2>1
          DEF RequestStep, apiVars, healthVars, ApiTypeOK, HealthTypeOK, DrainTypeOK
<1>5. CASE FlipStep
  <2>1. RoutingTypeOK' /\ HealthTypeOK'
    BY <1>5, FlipTypes DEF FlipStep
  <2> QED BY <1>5, <2>1 DEF FlipStep, apiVars, ApiTypeOK, DrainTypeOK, ProxyTypeOK
<1>6. CASE TickStep
  <2>1. RoutingTypeOK'
    BY <1>6, TickTypes DEF TickStep
  <2> QED BY <1>6, <2>1
          DEF TickStep, apiVars, healthVars, ApiTypeOK, HealthTypeOK, DrainTypeOK, ProxyTypeOK
<1>7. CASE UNCHANGED vars
  BY <1>7 DEF vars, shared, apiVars, healthVars, RoutingTypeOK, ApiTypeOK,
              HealthTypeOK, DrainTypeOK, ProxyTypeOK
<1> QED BY <1>1, <1>2, <1>3, <1>4, <1>5, <1>6, <1>7 DEF Next

\* The variables always hold what the Rust types and the bounds say, under
\* every interleaving of the handlers, the two services and the requests.
THEOREM TypeCorrect == Spec => []TypeOK
BY InitTypes, NextTypes, PTL DEF Spec

(***************************************************************************)
(* One registration per address.  items alone is not inductive: a store    *)
(* overwrites it with a list built earlier, so the lists that the handlers *)
(* and the purge carry must have distinct addresses too.                   *)
(***************************************************************************)
DistinctLists ==
  /\ DistinctAddrs(items)
  /\ \A t \in ApiTasks : DistinctAddrs(api[t].next)
  /\ DistinctAddrs(dr.loaded)
  /\ dr.todo \subseteq dr.loaded
  /\ dr.next \subseteq dr.loaded

\* The empty lists have distinct addresses.
LEMMA InitDistinct == Init => DistinctLists
  BY DEF Init, RoutingInit, ApiInit, DrainInit, Waiting, BetweenTicks, DistinctLists,
         DistinctAddrs

\* Every list a handler publishes has distinct addresses if items has.
LEMMA ApiDistinct ==
  ASSUME TypeOK, DistinctLists, NEW t \in ApiTasks, ApiNext(t), UNCHANGED dr
  PROVE  DistinctLists'
<1> USE DEF DistinctLists
<1>0. api \in [ApiTasks -> ApiState] /\ items \in SUBSET Item
  BY DEF TypeOK, ApiTypeOK, RoutingTypeOK
<1>a. SUFFICES DistinctAddrs(items') /\ DistinctAddrs(api'[t].next)
  <2>1. \A s \in ApiTasks : s # t => api'[s] = api[s]
    BY <1>0 DEF ApiNext, RegisterCall, DeregisterCall, DrainCall, ApiStores, Register,
                Deregister, Drain, DrainPanics, Answer, Publish, ApiStoreAddrMap,
                ApiStoreBackends, ApiStoreItems
  <2> QED BY <2>1
<1>1. ASSUME NEW reply, Answer(t, reply), items' = items
      PROVE  DistinctAddrs(items') /\ DistinctAddrs(api'[t].next)
  BY <1>0, <1>1 DEF Answer, Waiting, DistinctAddrs
<1>2. ASSUME NEW next, NEW ids, NEW as, Publish(t, next, ids, as), items' = items,
             DistinctAddrs(next)
      PROVE  DistinctAddrs(items') /\ DistinctAddrs(api'[t].next)
  BY <1>0, <1>2 DEF Publish
<1>3. ASSUME NEW ip \in IpTexts, NEW port \in Ports, NEW name \in Names,
             NEW e \in Endpoints, Register(t, ip, port, name, e)
      PROVE  DistinctAddrs(items') /\ DistinctAddrs(api'[t].next)
  <2>1. ~Duplicate(items, ip, port) =>
          DistinctAddrs(items \cup {NewItem(nextId, ip, port, name)})
    BY DEF Duplicate, DistinctAddrs, AddrOf, NewItem
  <2> QED BY <1>1, <1>2, <1>3, <2>1 DEF Register
<1>4. ASSUME NEW ip \in IpTexts, NEW port \in Ports \cup {None}, Deregister(t, ip, port)
      PROVE  DistinctAddrs(items') /\ DistinctAddrs(api'[t].next)
  <2>1. DistinctAddrs(Retained(items, ip, port))
    BY DEF Retained, DistinctAddrs
  <2> QED BY <1>1, <1>2, <1>4, <2>1 DEF Deregister
<1>5. ASSUME NEW ip \in IpTexts \cup {None}, NEW port \in Ports \cup {None},
             NEW name \in Names \cup {None}, NEW timeout \in Timeouts \cup {None},
             Drain(t, ip, port, name, timeout)
      PROVE  DistinctAddrs(items') /\ DistinctAddrs(api'[t].next)
  <2>1. \A i \in items, until \in Nat :
          DistinctAddrs((items \ {i}) \cup {MarkedDraining(i, until)})
    BY <1>0, MarkedType DEF DistinctAddrs
  <2>a. now \in Nat
    BY ClockAssumption DEF TypeOK, RoutingTypeOK
  <2>2. now + (IF timeout = None THEN DefaultTimeout ELSE timeout) \in Nat
    BY <2>a, ApiAssumption
  <2>3. FirstMatch(items, ip, port, NormOption(name)) \subseteq items
    BY DEF FirstMatch
  <2> QED BY <1>1, <1>2, <1>5, <2>1, <2>2, <2>3 DEF Drain
<1>6. CASE ApiStores(t)
  <2>1. CASE ApiStoreAddrMap(t)
    BY <1>0, <2>1 DEF ApiStoreAddrMap, ApiState
  <2>2. CASE ApiStoreBackends(t)
    BY <1>0, <2>2 DEF ApiStoreBackends, ApiState
  <2>3. CASE ApiStoreItems(t)
    <3>1. api'[t].next = {}
      BY <1>0, <2>3 DEF ApiStoreItems, Waiting
    <3> QED BY <2>3, <3>1 DEF ApiStoreItems, DistinctAddrs
  <2> QED BY <1>6, <2>1, <2>2, <2>3 DEF ApiStores
<1>7. ASSUME NEW ip, NEW port, NEW name, DrainPanics(t, ip, port, name)
      PROVE  DistinctAddrs(items') /\ DistinctAddrs(api'[t].next)
  BY <1>1, <1>7 DEF DrainPanics
<1> QED BY <1>3, <1>4, <1>5, <1>6, <1>7
        DEF ApiNext, RegisterCall, DeregisterCall, DrainCall

\* A purge publishes a part of the list it loaded.
LEMMA PurgeDistinct ==
  ASSUME TypeOK, DistinctLists, DrainNext, UNCHANGED api
  PROVE  DistinctLists'
<1> USE DEF DistinctLists
<1>0. dr \in DrainState
  BY DEF TypeOK, DrainTypeOK
<1>1. CASE LoadPurge
  BY <1>1 DEF LoadPurge, Draining, shared
<1>2. CASE Scan
  BY <1>0, <1>2 DEF Scan, DrainState, shared
<1>3. CASE PurgeNothing
  BY <1>3 DEF PurgeNothing, BetweenTicks, DistinctAddrs, shared
<1>4. CASE PurgeStoreAddrMap
  BY <1>0, <1>4 DEF PurgeStoreAddrMap, DrainState
<1>5. CASE PurgeStoreBackends
  BY <1>0, <1>5 DEF PurgeStoreBackends, DrainState
<1>6. CASE PurgeStoreItems
  BY <1>6 DEF PurgeStoreItems, BetweenTicks, DistinctAddrs
<1> QED BY <1>1, <1>2, <1>3, <1>4, <1>5, <1>6 DEF DrainNext

\* Every list that is stored or about to be stored has distinct addresses.
LEMMA NextDistinct == TypeOK /\ DistinctLists /\ [Next]_vars => DistinctLists'
<1> SUFFICES ASSUME TypeOK, DistinctLists, [Next]_vars PROVE DistinctLists'
  OBVIOUS
<1>1. CASE ApiStep
  BY <1>1, ApiDistinct DEF ApiStep
<1>2. CASE DrainStep
  BY <1>2, PurgeDistinct DEF DrainStep, apiVars
<1>3. ASSUME UNCHANGED <<items, api, dr>> PROVE DistinctLists'
  BY <1>3 DEF DistinctLists
<1>4. CASE HealthStep
  BY <1>3, <1>4 DEF HealthStep, HealthNext, LoadCycle, Probe, HealthStoreAddrMap,
                    HealthStoreBackends, shared, apiVars
<1>5. CASE RequestStep
  BY <1>3, <1>5 DEF RequestStep, RequestNext, Select, LookupName, LookupCounter, CountUp,
                    Retry, Logging, shared, apiVars
<1>6. CASE FlipStep \/ TickStep \/ UNCHANGED vars
  BY <1>3, <1>6 DEF FlipStep, Flip, TickStep, Tick, vars, shared, apiVars
<1> QED BY <1>1, <1>2, <1>4, <1>5, <1>6 DEF Next

\* register_upstream never leaves two registrations of one address in items,
\* however its stores interleave with those of other tasks and of the purge.
THEOREM UniqueAddrsCorrect == Spec => []UniqueAddrs
<1>1. Init => DistinctLists
  BY InitDistinct
<1>2. TypeOK /\ DistinctLists /\ [Next]_vars => DistinctLists'
  BY NextDistinct
<1>3. DistinctLists => UniqueAddrs
  BY DEF DistinctLists, UniqueAddrs
<1> QED BY <1>1, <1>2, <1>3, TypeCorrect, PTL DEF Spec

(***************************************************************************)
(* Request counters.                                                       *)
(***************************************************************************)

\* The requests that hold a counter are finitely many.
LEMMA HoldersFinite ==
  \A id : IsFiniteSet(Holders(id)) /\ Cardinality(Holders(id)) \in Nat
<1> SUFFICES ASSUME NEW id
             PROVE  IsFiniteSet(Holders(id)) /\ Cardinality(Holders(id)) \in Nat
  OBVIOUS
<1>1. Holders(id) \subseteq Requests
  BY DEF Holders
<1> QED BY <1>1, ProxyAssumption, FS_Subset, FS_CardinalityType

\* Only fetch_add and fetch_sub touch a counter or change who holds one.
CounterSteps(r) == CountUp(r) \/ Logging(r)

\* Only fetch_add and logging change what a request holds.
LEMMA OtherStepsKeepHolders ==
  ASSUME TypeOK, [Next]_vars, ~\E r \in Requests : CounterSteps(r)
  PROVE  /\ count' = count
         /\ \A r \in Requests : req'[r].counter = req[r].counter
<1>0. req \in [Requests -> RequestState]
  BY DEF TypeOK, ProxyTypeOK
<1>1. ASSUME NEW r \in Requests, Select(r) \/ LookupName(r) \/ LookupCounter(r) \/ Retry(r)
      PROVE  /\ count' = count
             /\ \A s \in Requests : req'[s].counter = req[s].counter
  BY <1>0, <1>1 DEF Select, LookupName, LookupCounter, Retry, shared, RequestState
<1>2. CASE RequestStep
  BY <1>1, <1>2 DEF RequestStep, RequestNext, CounterSteps
<1>3. CASE ApiStep
  <2>1. PICK t \in ApiTasks : ApiNext(t) /\ UNCHANGED req
    BY <1>3 DEF ApiStep
  <2>2. RegisterCall(t) => UNCHANGED count
    BY DEF RegisterCall, Register
  <2>3. DeregisterCall(t) => UNCHANGED count
    BY DEF DeregisterCall, Deregister
  <2>4. DrainCall(t) => UNCHANGED count
    BY DEF DrainCall, Drain, DrainPanics
  <2>5. ApiStores(t) => UNCHANGED count
    BY DEF ApiStores, ApiStoreAddrMap, ApiStoreBackends, ApiStoreItems
  <2> QED BY <2>1, <2>2, <2>3, <2>4, <2>5 DEF ApiNext
<1>4. CASE HealthStep
  BY <1>4 DEF HealthStep, HealthNext, LoadCycle, Probe, HealthStoreAddrMap,
              HealthStoreBackends, shared
<1>5. CASE DrainStep
  BY <1>5 DEF DrainStep, DrainNext, LoadPurge, Scan, PurgeNothing, PurgeStoreAddrMap,
              PurgeStoreBackends, PurgeStoreItems, shared
<1>6. CASE FlipStep \/ TickStep \/ UNCHANGED vars
  BY <1>6 DEF FlipStep, Flip, TickStep, Tick, vars, shared
<1> QED BY <1>2, <1>3, <1>4, <1>5, <1>6 DEF Next

\* fetch_add makes r a holder of the counter it raises, and of no other.
LEMMA CountUpHolders ==
  ASSUME TypeOK, NEW r \in Requests, CountUp(r)
  PROVE  /\ count' = [count EXCEPT ![req[r].found] = @ + 1]
         /\ \A id \in Ids : Holders(id)' = IF id = req[r].found THEN Holders(id) \cup {r}
                                            ELSE Holders(id) \ {r}
  BY DEF TypeOK, ProxyTypeOK, RequestState, CountUp, Holders

\* fetch_sub lowers the counter that r held, if it held one, and r holds none.
LEMMA LoggingHolders ==
  ASSUME TypeOK, NEW r \in Requests, Logging(r)
  PROVE  /\ req[r].counter \in Ids => count' = [count EXCEPT ![req[r].counter] = @ - 1]
         /\ req[r].counter \notin Ids => count' = count
         /\ \A id \in Ids : Holders(id)' = Holders(id) \ {r}
<1>1. None \notin Ids
  BY UpstreamsAssumption DEF Ids
<1> QED BY <1>1 DEF TypeOK, ProxyTypeOK, RequestState, Logging, NewCtx, Holders

\* No step takes a counter below the number of its holders: fetch_add raises it
\* for the new holder, and a retry that overwrites a counter drops a holder only.
LEMMA NextCountersCover == TypeOK /\ CountersCover /\ [Next]_vars => CountersCover'
<1> SUFFICES ASSUME TypeOK, CountersCover, [Next]_vars, NEW id \in Ids
             PROVE  count'[id] >= Cardinality(Holders(id)')
  BY DEF CountersCover
<1>0. count \in [Ids -> Int]
  BY DEF TypeOK, RoutingTypeOK
<1>1. count[id] >= Cardinality(Holders(id))
  BY DEF CountersCover
<1>2. ASSUME NEW r \in Requests, CountUp(r)
      PROVE  count'[id] >= Cardinality(Holders(id)')
  <2>1. CASE id = req[r].found
    <3>1. Cardinality(Holders(id) \cup {r}) <= Cardinality(Holders(id)) + 1
      <4>1. Cardinality(Holders(id) \cup {r}) =
              IF r \in Holders(id) THEN Cardinality(Holders(id)) ELSE Cardinality(Holders(id)) + 1
        BY HoldersFinite, FS_AddElement
      <4> QED BY <4>1, HoldersFinite
    <3>2. count'[id] = count[id] + 1 /\ Holders(id)' = Holders(id) \cup {r}
      BY <1>0, <1>2, <2>1, CountUpHolders
    <3>3. Cardinality(Holders(id)') \in Nat
      BY <3>2, HoldersFinite, FS_AddElement, FS_CardinalityType
    <3> QED BY <1>0, <1>1, <3>1, <3>2, <3>3, HoldersFinite
  <2>2. CASE id # req[r].found
    <3>1. Cardinality(Holders(id) \ {r}) <= Cardinality(Holders(id))
      BY HoldersFinite, FS_Subset
    <3>2. count'[id] = count[id] /\ Holders(id)' = Holders(id) \ {r}
      BY <1>0, <1>2, <2>2, CountUpHolders
    <3>3. Cardinality(Holders(id)') \in Nat
      BY <3>2, HoldersFinite, FS_Subset, FS_CardinalityType
    <3> QED BY <1>0, <1>1, <3>1, <3>2, <3>3, HoldersFinite
  <2> QED BY <2>1, <2>2
<1>3. ASSUME NEW r \in Requests, Logging(r)
      PROVE  count'[id] >= Cardinality(Holders(id)')
  <2>0. Holders(id)' = Holders(id) \ {r}
    BY <1>3, LoggingHolders
  <2>a. IsFiniteSet(Holders(id) \ {r}) /\ Cardinality(Holders(id) \ {r}) \in Nat
    BY HoldersFinite, FS_Subset, FS_CardinalityType
  <2>1. CASE req[r].counter = id
    <3>1. count'[id] = count[id] - 1
      BY <1>0, <1>3, <2>1, LoggingHolders
    <3>2. r \in Holders(id)
      BY <2>1 DEF Holders
    <3>3. Cardinality(Holders(id) \ {r}) = Cardinality(Holders(id)) - 1
      BY <3>2, HoldersFinite, FS_RemoveElement
    <3> QED BY <1>0, <1>1, <2>0, <2>a, <3>1, <3>3, HoldersFinite
  <2>2. CASE req[r].counter # id
    <3>1. count'[id] = count[id]
      BY <1>0, <1>3, <2>2, LoggingHolders
    <3>2. Cardinality(Holders(id) \ {r}) <= Cardinality(Holders(id))
      BY HoldersFinite, FS_Subset
    <3> QED BY <1>0, <1>1, <2>0, <2>a, <3>1, <3>2, HoldersFinite
  <2> QED BY <2>1, <2>2
<1>4. CASE ~\E r \in Requests : CounterSteps(r)
  <2>1. count' = count /\ Holders(id)' = Holders(id)
    BY <1>4, OtherStepsKeepHolders DEF Holders
  <2> QED BY <1>1, <2>1
<1> QED BY <1>2, <1>3, <1>4 DEF CounterSteps

\* A counter is never below the number of requests that hold it, whatever the
\* number of requests and of upstreams tried for each: fetch_sub in logging
\* never takes it below zero.
THEOREM CountersCoverCorrect == Spec => []CountersCover
<1>1. Init => CountersCover
  <2> SUFFICES ASSUME Init, NEW id \in Ids PROVE count[id] >= Cardinality(Holders(id))
    BY DEF CountersCover
  <2>1. None # id
    BY UpstreamsAssumption DEF Ids
  <2>2. Holders(id) = {}
    BY <2>1 DEF Init, ProxyInit, NewCtx, Holders
  <2>3. Cardinality(Holders(id)) = 0
    BY <2>2, FS_EmptySet
  <2> QED BY <2>3 DEF Init, RoutingInit
<1>2. TypeOK /\ CountersCover /\ [Next]_vars => CountersCover'
  BY NextCountersCover
<1> QED BY <1>1, <1>2, TypeCorrect, PTL DEF Spec

(***************************************************************************)
(* When upstream_peer runs once per request a counter is exact: a request  *)
(* that is still looking for its backend holds none, so fetch_add never    *)
(* overwrites one.                                                         *)
(***************************************************************************)
NoEarlyCounter ==
  \A r \in Requests :
    req[r].pc \in {"new", "picked", "named", "counting"} => req[r].counter = None

\* With one attempt, a request that has not counted itself holds nothing.
LEMMA NextNoEarlyCounter ==
  ASSUME MaxAttempts = 1, TypeOK, NoEarlyCounter, [Next]_vars
  PROVE  NoEarlyCounter'
<1> USE DEF NoEarlyCounter
<1>0. /\ req \in [Requests -> RequestState]
      /\ \A r \in Requests : ~(req[r].attempts < MaxAttempts)
  BY DEF TypeOK, ProxyTypeOK, RequestState
<1>1. CASE RequestStep
  <2>1. PICK r \in Requests : RequestNext(r)
    BY <1>1 DEF RequestStep
  <2>2. \A s \in Requests \ {r} : req'[s] = req[s]
    BY <1>0, <2>1 DEF RequestNext, Select, LookupName, LookupCounter, CountUp, Retry, Logging
  <2>3. CASE Select(r) \/ LookupName(r) \/ LookupCounter(r) \/ CountUp(r)
    BY <1>0, <2>2, <2>3 DEF Select, LookupName, LookupCounter, CountUp, RequestState
  <2>4. ~Retry(r)
    BY <1>0 DEF Retry
  <2>5. CASE Logging(r)
    BY <1>0, <2>2, <2>5 DEF Logging, NewCtx
  <2> QED BY <2>1, <2>3, <2>4, <2>5 DEF RequestNext
<1>2. CASE UNCHANGED req
  BY <1>2
<1> QED BY <1>1, <1>2 DEF Next, vars, ApiStep, HealthStep, DrainStep, FlipStep, TickStep

\* With one attempt, fetch_add meets an empty context, so counter and holders
\* change together.
LEMMA NextCountersExact ==
  ASSUME MaxAttempts = 1, TypeOK, NoEarlyCounter, CountersExact, [Next]_vars
  PROVE  CountersExact'
<1> SUFFICES ASSUME NEW id \in Ids
             PROVE  count'[id] = Cardinality(Holders(id)')
  BY DEF CountersExact
<1>0. count \in [Ids -> Int] /\ None \notin Ids
  BY UpstreamsAssumption DEF TypeOK, RoutingTypeOK, Ids
<1>1. count[id] = Cardinality(Holders(id))
  BY DEF CountersExact
<1>2. ASSUME NEW r \in Requests, CountUp(r)
      PROVE  count'[id] = Cardinality(Holders(id)')
  <2>1. r \notin Holders(id)
    BY <1>0, <1>2 DEF CountUp, NoEarlyCounter, Holders
  <2>2. CASE id = req[r].found
    <3>1. Holders(id)' = Holders(id) \cup {r} /\ count'[id] = count[id] + 1
      BY <1>0, <1>2, <2>2, CountUpHolders
    <3>2. Cardinality(Holders(id) \cup {r}) = Cardinality(Holders(id)) + 1
      BY <2>1, HoldersFinite, FS_AddElement
    <3> QED BY <1>1, <3>1, <3>2
  <2>3. CASE id # req[r].found
    <3>1. Holders(id)' = Holders(id) \ {r} /\ count'[id] = count[id]
      BY <1>0, <1>2, <2>3, CountUpHolders
    <3>2. Holders(id) \ {r} = Holders(id)
      BY <2>1
    <3> QED BY <1>1, <3>1, <3>2
  <2> QED BY <2>2, <2>3
<1>3. ASSUME NEW r \in Requests, Logging(r)
      PROVE  count'[id] = Cardinality(Holders(id)')
  <2>1. Holders(id)' = Holders(id) \ {r}
    BY <1>3, LoggingHolders
  <2>2. CASE req[r].counter = id
    <3>1. count'[id] = count[id] - 1
      BY <1>0, <1>3, <2>2, LoggingHolders
    <3>2. r \in Holders(id)
      BY <2>2 DEF Holders
    <3>3. Cardinality(Holders(id) \ {r}) = Cardinality(Holders(id)) - 1
      BY <3>2, HoldersFinite, FS_RemoveElement
    <3> QED BY <1>1, <2>1, <3>1, <3>3
  <2>3. CASE req[r].counter # id
    <3>1. count'[id] = count[id]
      BY <1>0, <1>3, <2>3, LoggingHolders
    <3>2. Holders(id) \ {r} = Holders(id)
      BY <2>3 DEF Holders
    <3> QED BY <1>1, <2>1, <3>1, <3>2
  <2> QED BY <2>2, <2>3
<1>4. CASE ~\E r \in Requests : CounterSteps(r)
  <2>1. count' = count /\ Holders(id)' = Holders(id)
    BY <1>4, OtherStepsKeepHolders DEF Holders
  <2> QED BY <1>1, <2>1
<1> QED BY <1>2, <1>3, <1>4 DEF CounterSteps

\* If the framework calls upstream_peer once per request, the counter of an
\* item is at all times the number of requests that hold it.
THEOREM CountersExactCorrect ==
  ASSUME MaxAttempts = 1
  PROVE  Spec => []CountersExact
<1>1. Init => NoEarlyCounter /\ CountersExact
  <2> SUFFICES ASSUME Init PROVE NoEarlyCounter /\ CountersExact
    OBVIOUS
  <2>1. ASSUME NEW id \in Ids PROVE count[id] = Cardinality(Holders(id))
    <3>1. None # id
      BY UpstreamsAssumption DEF Ids
    <3>2. Holders(id) = {}
      BY <3>1 DEF Init, ProxyInit, NewCtx, Holders
    <3>3. Cardinality(Holders(id)) = 0
      BY <3>2, FS_EmptySet
    <3> QED BY <3>3 DEF Init, RoutingInit
  <2> QED BY <2>1 DEF Init, ProxyInit, NewCtx, NoEarlyCounter, CountersExact
<1>2. TypeOK /\ NoEarlyCounter /\ CountersExact /\ [Next]_vars
        => (NoEarlyCounter /\ CountersExact)'
  BY NextNoEarlyCounter, NextCountersExact
<1> QED BY <1>1, <1>2, TypeCorrect, PTL DEF Spec

(***************************************************************************)
(* A registration has one address for ever, and a request is counted at    *)
(* the registration whose address it goes to.  upstream_peer finds a       *)
(* counter in by_addr and uses it two steps later, when items, by_addr and *)
(* every list in flight may be others; so the invariant is about all the   *)
(* places an item can come back from.                                      *)
(***************************************************************************)
\* Every item that some thread holds or may load.
Known == items \cup byAddr \cup dr.todo \cup dr.next \cup hc.todo \cup hc.healthy
           \cup UNION {api[t].next : t \in ApiTasks}

\* An item like i, up to its status and deadline, was known.
Old(i) == \E j \in Known : j.id = i.id /\ AddrOf(j) = AddrOf(i)

\* Items come from known ones, but for one that register_upstream builds with
\* an id of its own.
KnownGrows ==
  /\ nextId' >= nextId
  /\ \A i \in Known' : ~Old(i) => i.id = nextId /\ nextId' = nextId + 1
  /\ \A i, j \in Known' : (~Old(i) /\ ~Old(j)) => i = j

KnownStays == nextId' = nextId /\ \A i \in Known' : Old(i)

\* The HashMap holds items of the list it was built from.
LEMMA AddrMapPart == \A S : AddrMap(S) \subseteq S
  BY DEF AddrMap

\* What was known is old.
LEMMA KnownOld == \A i \in Known : Old(i)
  BY DEF Old

\* What stays as it was is also what grows by nothing.
LEMMA StaysGrows == TypeOK /\ KnownStays => KnownGrows
  BY UpstreamsAssumption DEF KnownStays, KnownGrows, TypeOK, RoutingTypeOK

\* A task's list is known.
LEMMA ListsKnown ==
  /\ items \subseteq Known /\ byAddr \subseteq Known
  /\ \A t \in ApiTasks : api[t].next \subseteq Known
  BY DEF Known

\* If a handler's cells and list hold what was known, and one new item at most,
\* then so do all lists.
LEMMA ApiKnown ==
  ASSUME TypeOK, NEW t \in ApiTasks, ApiNext(t), UNCHANGED <<dr, healthVars>>
  PROVE  KnownGrows
<1>0. api \in [ApiTasks -> ApiState] /\ items \in SUBSET Item /\ nextId \in Nat
  BY UpstreamsAssumption DEF TypeOK, ApiTypeOK, RoutingTypeOK
<1>a. \A s \in ApiTasks : s # t => api'[s] = api[s]
  BY <1>0 DEF ApiNext, RegisterCall, DeregisterCall, DrainCall, ApiStores, Register,
              Deregister, Drain, DrainPanics, Answer, Publish, ApiStoreAddrMap,
              ApiStoreBackends, ApiStoreItems
<1>b. \A i \in Known' : i \in Known \/ i \in items' \cup byAddr' \cup api'[t].next
  BY <1>a DEF Known, healthVars
<1>c. ASSUME nextId' = nextId, \A i \in items' \cup byAddr' \cup api'[t].next : Old(i)
      PROVE  KnownGrows
  <2>1. KnownStays
    BY <1>b, <1>c, KnownOld DEF KnownStays
  <2> QED BY <2>1, StaysGrows
<1>1. ASSUME NEW reply, Answer(t, reply), UNCHANGED <<items, byAddr>>
      PROVE  KnownGrows
  <2>1. api'[t].next = {}
    BY <1>0, <1>1 DEF Answer, Waiting
  <2> QED BY <1>1, <1>c, <2>1, ListsKnown, KnownOld DEF Answer
<1>2. ASSUME NEW next, NEW ids, NEW as, Publish(t, next, ids, as),
             UNCHANGED <<items, byAddr, nextId>>, \A i \in next : Old(i)
      PROVE  KnownGrows
  <2>1. api'[t].next = next
    BY <1>0, <1>2 DEF Publish
  <2> QED BY <1>2, <1>c, <2>1, ListsKnown, KnownOld
<1>3. ASSUME NEW ip \in IpTexts, NEW port \in Ports, NEW name \in Names,
             NEW e \in Endpoints, Register(t, ip, port, name, e)
      PROVE  KnownGrows
  <2> DEFINE new == NewItem(nextId, ip, port, name)
  <2>1. CASE Publish(t, items \cup {new}, {nextId}, "active") /\ nextId' = nextId + 1
    <3>1. api'[t].next = items \cup {new}
      BY <1>0, <2>1 DEF Publish
    <3>2. \A i \in Known' : i \in Known \/ i = new
      BY <1>3, <1>b, <3>1, ListsKnown DEF Register
    <3>3. new.id = nextId
      BY DEF NewItem
    <3> QED BY <1>0, <2>1, <3>2, <3>3, KnownOld DEF KnownGrows
  <2> QED BY <1>1, <1>3, <2>1 DEF Register
<1>4. ASSUME NEW ip \in IpTexts, NEW port \in Ports \cup {None}, Deregister(t, ip, port)
      PROVE  KnownGrows
  <2>1. \A i \in Retained(items, ip, port) : Old(i)
    BY ListsKnown, KnownOld DEF Retained
  <2> QED BY <1>1, <1>2, <1>4, <2>1 DEF Deregister
<1>5. ASSUME NEW ip \in IpTexts \cup {None}, NEW port \in Ports \cup {None},
             NEW name \in Names \cup {None}, NEW timeout \in Timeouts \cup {None},
             Drain(t, ip, port, name, timeout)
      PROVE  KnownGrows
  <2> DEFINE until == now + (IF timeout = None THEN DefaultTimeout ELSE timeout)
  <2>1. until \in Nat
    BY ApiAssumption, ClockAssumption DEF TypeOK, RoutingTypeOK
  <2>2. FirstMatch(items, ip, port, NormOption(name)) \subseteq items
    BY DEF FirstMatch
  <2>3. ASSUME NEW i \in items, NEW j \in (items \ {i}) \cup {MarkedDraining(i, until)}
        PROVE  Old(j)
    <3>1. CASE j \in items
      BY <3>1, ListsKnown, KnownOld
    <3>2. CASE j = MarkedDraining(i, until)
      BY <1>0, <2>1, <3>2, ListsKnown, MarkedType DEF Old
    <3> QED BY <3>1, <3>2
  <2>4. ASSUME NEW i \in items,
               Publish(t, (items \ {i}) \cup {MarkedDraining(i, until)}, {i.id}, "draining"),
               UNCHANGED <<items, byAddr, nextId>>
        PROVE  KnownGrows
    BY <1>2, <2>3, <2>4
  <2> QED BY <1>1, <1>5, <2>2, <2>4 DEF Drain
<1>6. ASSUME NEW ip, NEW port, NEW name, DrainPanics(t, ip, port, name)
      PROVE  KnownGrows
  BY <1>1, <1>6 DEF DrainPanics
<1>7. CASE ApiStores(t)
  <2>1. CASE ApiStoreAddrMap(t)
    <3>1. byAddr' \subseteq api[t].next /\ api'[t].next = api[t].next /\ items' = items
      BY <1>0, <2>1, AddrMapPart DEF ApiStoreAddrMap, StoreAddrMap, ApiState
    <3> QED BY <1>c, <2>1, <3>1, ListsKnown, KnownOld DEF ApiStoreAddrMap
  <2>2. CASE ApiStoreBackends(t)
    <3>1. UNCHANGED <<items, byAddr>> /\ api'[t].next = api[t].next
      BY <1>0, <2>2 DEF ApiStoreBackends, ApiState
    <3> QED BY <1>c, <2>2, <3>1, ListsKnown, KnownOld DEF ApiStoreBackends
  <2>3. CASE ApiStoreItems(t)
    <3>1. items' = api[t].next /\ byAddr' = byAddr /\ api'[t].next = {}
      BY <1>0, <2>3 DEF ApiStoreItems, Waiting
    <3> QED BY <1>c, <2>3, <3>1, ListsKnown, KnownOld DEF ApiStoreItems
  <2> QED BY <1>7, <2>1, <2>2, <2>3 DEF ApiStores
<1> QED BY <1>3, <1>4, <1>5, <1>6, <1>7
        DEF ApiNext, RegisterCall, DeregisterCall, DrainCall

\* A health cycle publishes items it has loaded, however long ago.
LEMMA HealthKnown ==
  ASSUME TypeOK, HealthNext, UNCHANGED <<dr, api>>
  PROVE  KnownStays
<1>0. hc \in HealthState
  BY DEF TypeOK, HealthTypeOK
<1>1. CASE LoadCycle
  BY <1>1 DEF LoadCycle, KnownStays, Known, Old, shared
<1>2. CASE Probe
  <2>1. hc'.todo \subseteq hc.todo /\ hc'.healthy \subseteq hc.healthy \cup hc.todo
    <3>1. PICK i \in hc.todo :
            \/ hc' = [hc EXCEPT !.todo = @ \ {i}, !.healthy = @ \cup {i}, !.attempt = 1]
            \/ hc' = [hc EXCEPT !.attempt = 2]
            \/ hc' = [hc EXCEPT !.todo = @ \ {i}, !.attempt = 1]
      BY <1>2, Zenon DEF Probe
    <3>2. /\ hc'.todo = hc.todo \ {i} \/ hc'.todo = hc.todo
          /\ hc'.healthy = hc.healthy \cup {i} \/ hc'.healthy = hc.healthy
      BY <1>0, <3>1 DEF HealthState
    <3> QED BY <3>2
  <2> QED BY <1>2, <2>1 DEF Probe, KnownStays, Known, Old, shared
<1>3. CASE HealthStoreAddrMap
  <2>1. byAddr' \subseteq hc.healthy /\ hc'.todo = hc.todo /\ hc'.healthy = hc.healthy
    BY <1>0, <1>3, AddrMapPart DEF HealthStoreAddrMap, StoreAddrMap, HealthState
  <2> QED BY <1>3, <2>1 DEF HealthStoreAddrMap, KnownStays, Known, Old
<1>4. CASE HealthStoreBackends
  BY <1>4 DEF HealthStoreBackends, Asleep, KnownStays, Known, Old
<1> QED BY <1>1, <1>2, <1>3, <1>4 DEF HealthNext

\* So does a purge.
LEMMA PurgeKnown ==
  ASSUME TypeOK, DrainNext, UNCHANGED <<hc, api>>
  PROVE  KnownStays
<1>0. dr \in DrainState
  BY DEF TypeOK, DrainTypeOK
<1>1. CASE LoadPurge
  BY <1>1 DEF LoadPurge, Draining, KnownStays, Known, Old, shared
<1>2. CASE Scan
  <2>1. dr'.todo \subseteq dr.todo /\ dr'.next \subseteq dr.next \cup dr.todo
    BY <1>0, <1>2 DEF Scan, DrainState
  <2> QED BY <1>2, <2>1 DEF Scan, KnownStays, Known, Old, shared
<1>3. CASE PurgeNothing
  BY <1>3 DEF PurgeNothing, BetweenTicks, KnownStays, Known, Old, shared
<1>4. CASE PurgeStoreAddrMap
  <2>1. byAddr' \subseteq dr.next /\ dr'.todo = dr.todo /\ dr'.next = dr.next
    BY <1>0, <1>4, AddrMapPart DEF PurgeStoreAddrMap, StoreAddrMap, DrainState
  <2> QED BY <1>4, <2>1 DEF PurgeStoreAddrMap, KnownStays, Known, Old
<1>5. CASE PurgeStoreBackends
  <2>1. dr'.todo = dr.todo /\ dr'.next = dr.next
    BY <1>0, <1>5 DEF PurgeStoreBackends, DrainState
  <2> QED BY <1>5, <2>1 DEF PurgeStoreBackends, KnownStays, Known, Old
<1>6. CASE PurgeStoreItems
  BY <1>6 DEF PurgeStoreItems, BetweenTicks, KnownStays, Known, Old
<1> QED BY <1>1, <1>2, <1>3, <1>4, <1>5, <1>6 DEF DrainNext

\* No step brings a second new item, or one with an id that was given out.
LEMMA NextKnown == TypeOK /\ [Next]_vars => KnownGrows
<1> SUFFICES ASSUME TypeOK, [Next]_vars PROVE KnownGrows
  OBVIOUS
<1>1. CASE ApiStep
  BY <1>1, ApiKnown DEF ApiStep
<1>2. CASE HealthStep
  BY <1>2, HealthKnown, StaysGrows DEF HealthStep, apiVars
<1>3. CASE DrainStep
  BY <1>3, PurgeKnown, StaysGrows DEF DrainStep, apiVars, healthVars
<1>4. ASSUME UNCHANGED <<items, byAddr, nextId, api, hc, dr>> PROVE KnownGrows
  <2>1. KnownStays
    BY <1>4, KnownOld DEF KnownStays, Known
  <2> QED BY <2>1, StaysGrows
<1>5. CASE RequestStep
  BY <1>4, <1>5 DEF RequestStep, RequestNext, Select, LookupName, LookupCounter, CountUp,
                    Retry, Logging, shared, apiVars, healthVars
<1>6. CASE FlipStep \/ TickStep \/ UNCHANGED vars
  BY <1>4, <1>6 DEF FlipStep, Flip, TickStep, Tick, vars, shared, apiVars, healthVars
<1> QED BY <1>1, <1>2, <1>3, <1>5, <1>6 DEF Next

(***************************************************************************)
(* The invariant.                                                          *)
(***************************************************************************)
\* An id stands for one address wherever it turns up, and a list that is
\* stored late never holds an id that is still to be given out.
OneAddress ==
  /\ \A i, j \in Known : i.id = j.id => AddrOf(i) = AddrOf(j)
  /\ \A i \in Known : i.id < nextId

\* What the second lookup of upstream_peer found is an item of the address the
\* request goes to, and stays one, whatever is stored before it is counted.
FoundAtItsBackend ==
  \A r \in Requests : req[r].pc \in {"counting", "upstream"} =>
    \A i \in Known : i.id = req[r].found => AddrOf(i) = req[r].addr

\* A request remembers no id that is still to be given out.
FoundOld == \A r \in Requests : req[r].found # None => req[r].found < nextId

\* With one attempt, a request holds the counter it found.
HoldsWhatItFound == \A r \in Requests : req[r].pc = "upstream" => req[r].counter = req[r].found

\* No step gives an id a second address: new items have a new id.
LEMMA NextOneAddress == TypeOK /\ OneAddress /\ [Next]_vars => OneAddress'
<1> SUFFICES ASSUME TypeOK, OneAddress, [Next]_vars PROVE OneAddress'
  OBVIOUS
<1>0. nextId \in Nat
  BY UpstreamsAssumption DEF TypeOK, RoutingTypeOK
<1>1. KnownGrows
  BY NextKnown
<1>a. /\ nextId' >= nextId
      /\ \A i \in Known' : ~Old(i) => i.id = nextId /\ nextId' = nextId + 1
      /\ \A i, j \in Known' : (~Old(i) /\ ~Old(j)) => i = j
      /\ nextId' \in Nat
  BY <1>1, NextTypes, UpstreamsAssumption DEF KnownGrows, TypeOK, RoutingTypeOK
<1>b. \A i \in Known' : Old(i) => \E j \in Known : j.id = i.id /\ AddrOf(j) = AddrOf(i) /\ j.id < nextId
  BY DEF Old, OneAddress
<1>t. \A i \in Known : i.id \in Nat
  BY UpstreamsAssumption
     DEF Known, TypeOK, RoutingTypeOK, ApiTypeOK, ApiState, HealthTypeOK, HealthState,
         DrainTypeOK, DrainState, Item, Ids
<1>2. ASSUME NEW i \in Known' PROVE i.id < nextId'
  BY <1>0, <1>a, <1>b, <1>t
<1>3. ASSUME NEW i \in Known', NEW j \in Known', i.id = j.id PROVE AddrOf(i) = AddrOf(j)
  <2>1. CASE Old(i) /\ Old(j)
    BY <1>3, <2>1 DEF Old, OneAddress
  <2>2. CASE Old(i) /\ ~Old(j)
    BY <1>0, <1>3, <1>a, <1>b, <2>2
  <2>3. CASE ~Old(i) /\ Old(j)
    BY <1>0, <1>3, <1>a, <1>b, <2>3
  <2>4. CASE ~Old(i) /\ ~Old(j)
    BY <1>a, <2>4
  <2> QED BY <2>1, <2>2, <2>3, <2>4
<1> QED BY <1>2, <1>3 DEF OneAddress

\* What a request has found stays at its address: an item of that id that
\* comes to be known later is an old one.
LEMMA NextFound ==
  TypeOK /\ OneAddress /\ FoundAtItsBackend /\ FoundOld /\ [Next]_vars
    => FoundAtItsBackend' /\ FoundOld'
<1> SUFFICES ASSUME TypeOK, OneAddress, FoundAtItsBackend, FoundOld, [Next]_vars
             PROVE  FoundAtItsBackend' /\ FoundOld'
  OBVIOUS
<1>0. /\ nextId \in Nat /\ nextId' \in Nat /\ None \notin Nat
      /\ req \in [Requests -> RequestState]
      /\ \A r \in Requests : req[r].found \in Nat \cup {None}
  BY NextTypes, UpstreamsAssumption
     DEF TypeOK, RoutingTypeOK, ProxyTypeOK, RequestState, Ids
<1>1. nextId' >= nextId
  BY NextKnown DEF KnownGrows
<1>2. CASE req' = req
  <2>1. ASSUME NEW r \in Requests, req[r].pc \in {"counting", "upstream"},
               NEW i \in Known', i.id = req[r].found
        PROVE  AddrOf(i) = req[r].addr
    <3>1. CASE Old(i)
      BY <2>1, <3>1 DEF Old, FoundAtItsBackend
    <3>2. CASE ~Old(i)
      <4>1. i.id = nextId
        BY <2>1, <3>2, NextKnown DEF KnownGrows
      <4>2. req[r].found < nextId
        BY <1>0, <2>1, <4>1 DEF FoundOld
      <4> QED BY <1>0, <2>1, <4>1, <4>2
    <3> QED BY <3>1, <3>2
  <2>2. \A r \in Requests : req'[r].found # None => req'[r].found < nextId'
    BY <1>0, <1>1, <1>2 DEF FoundOld
  <2> QED BY <1>2, <2>1, <2>2 DEF FoundAtItsBackend, FoundOld
<1>3. CASE RequestStep
  <2>1. PICK r \in Requests : RequestNext(r)
    BY <1>3 DEF RequestStep
  <2>2. Known' = Known /\ nextId' = nextId
    BY <1>3 DEF RequestStep, RequestNext, Select, LookupName, LookupCounter, CountUp, Retry,
                Logging, shared, apiVars, healthVars, Known
  <2>3. \A s \in Requests : s # r => req'[s] = req[s]
    BY <1>0, <2>1 DEF RequestNext, Select, LookupName, LookupCounter, CountUp, Retry, Logging
  <2>4. SUFFICES
          /\ req'[r].pc \in {"counting", "upstream"} =>
               \A i \in Known : i.id = req'[r].found => AddrOf(i) = req'[r].addr
          /\ req'[r].found # None => req'[r].found < nextId
    BY <2>2, <2>3, <2>4 DEF FoundAtItsBackend, FoundOld
  <2>5. CASE Select(r) \/ LookupName(r) \/ Retry(r)
    <3>1. req'[r].pc \in {"picked", "refused", "named", "new"} /\ req'[r].found = req[r].found
      BY <1>0, <2>5 DEF Select, LookupName, Retry, RequestState
    <3> QED BY <3>1 DEF FoundOld
  <2>6. CASE LookupCounter(r)
    <3>1. CASE EntryAt(byAddr, req[r].addr) = {}
      <4>1. req'[r].found = None
        BY <1>0, <2>6, <3>1 DEF LookupCounter, RequestState
      <4>2. \A i \in Known : i.id # None
        BY UpstreamsAssumption
           DEF Known, TypeOK, RoutingTypeOK, ApiTypeOK, ApiState, HealthTypeOK, HealthState,
               DrainTypeOK, DrainState, Item, Ids
      <4> QED BY <4>1, <4>2
    <3>2. CASE EntryAt(byAddr, req[r].addr) # {}
      <4>1. PICK i \in EntryAt(byAddr, req[r].addr) :
              req' = [req EXCEPT ![r].pc = "counting", ![r].found = i.id]
        BY <2>6, <3>2 DEF LookupCounter
      <4>2. i \in Known /\ AddrOf(i) = req[r].addr
        BY ListsKnown DEF EntryAt
      <4>3. req'[r].found = i.id /\ req'[r].addr = req[r].addr
        BY <1>0, <4>1 DEF RequestState
      <4> QED BY <4>2, <4>3 DEF OneAddress
    <3> QED BY <3>1, <3>2
  <2>7. CASE CountUp(r)
    <3>1. req'[r].found = req[r].found /\ req'[r].addr = req[r].addr /\ req[r].pc = "counting"
      BY <1>0, <2>7 DEF CountUp, RequestState
    <3> QED BY <3>1 DEF FoundAtItsBackend, FoundOld
  <2>8. CASE Logging(r)
    <3>1. req'[r].pc = "done" /\ req'[r].found = None
      BY <1>0, <2>8 DEF Logging, NewCtx
    <3> QED BY <3>1
  <2> QED BY <2>1, <2>5, <2>6, <2>7, <2>8 DEF RequestNext
<1> QED BY <1>2, <1>3 DEF Next, vars, ApiStep, HealthStep, DrainStep, FlipStep, TickStep

\* At first nothing is known and nothing found.
LEMMA InitKnown == Init => OneAddress /\ FoundAtItsBackend /\ FoundOld
<1> SUFFICES ASSUME Init PROVE OneAddress /\ FoundAtItsBackend /\ FoundOld
  OBVIOUS
<1>1. Known = {}
  BY DEF Init, RoutingInit, ApiInit, Waiting, HealthInit, Asleep, DrainInit, BetweenTicks, Known
<1> QED BY <1>1 DEF Init, ProxyInit, NewCtx, OneAddress, FoundAtItsBackend, FoundOld

\* Whatever is stored between its three loads, and however often the framework
\* calls upstream_peer, the counter a request finds is that of a registration
\* of the address it goes to.
THEOREM FoundAtItsBackendCorrect == Spec => []FoundAtItsBackend
<1>1. Init => OneAddress /\ FoundAtItsBackend /\ FoundOld
  BY InitKnown
<1>2. TypeOK /\ OneAddress /\ FoundAtItsBackend /\ FoundOld /\ [Next]_vars
        => (OneAddress /\ FoundAtItsBackend /\ FoundOld)'
  BY NextOneAddress, NextFound
<1> QED BY <1>1, <1>2, TypeCorrect, PTL DEF Spec

\* With one attempt, a request that found nothing holds nothing.
LEMMA NextHoldsWhatItFound ==
  ASSUME MaxAttempts = 1, TypeOK, NoEarlyCounter, HoldsWhatItFound, [Next]_vars
  PROVE  HoldsWhatItFound'
<1> USE DEF HoldsWhatItFound
<1>0. req \in [Requests -> RequestState]
  BY DEF TypeOK, ProxyTypeOK
<1>1. CASE RequestStep
  <2>1. PICK r \in Requests : RequestNext(r)
    BY <1>1 DEF RequestStep
  <2>2. \A s \in Requests \ {r} : req'[s] = req[s]
    BY <1>0, <2>1 DEF RequestNext, Select, LookupName, LookupCounter, CountUp, Retry, Logging
  <2>3. CASE Select(r) \/ LookupName(r) \/ Retry(r)
    BY <1>0, <2>2, <2>3 DEF Select, LookupName, Retry, RequestState
  <2>4. CASE LookupCounter(r)
    BY <1>0, <2>2, <2>4 DEF LookupCounter, RequestState, NoEarlyCounter
  <2>5. CASE CountUp(r) \/ Logging(r)
    BY <1>0, <2>2, <2>5 DEF CountUp, Logging, NewCtx, RequestState
  <2> QED BY <2>1, <2>3, <2>4, <2>5 DEF RequestNext
<1>2. CASE UNCHANGED req
  BY <1>2
<1> QED BY <1>1, <1>2 DEF Next, vars, ApiStep, HealthStep, DrainStep, FlipStep, TickStep

\* If the framework calls upstream_peer once per request, a request on its way
\* to a backend is counted at the registration of that address or not at all.
THEOREM CountedAtItsBackendCorrect ==
  ASSUME MaxAttempts = 1
  PROVE  Spec => []CountedAtItsBackend
<1>1. Init => NoEarlyCounter /\ HoldsWhatItFound
  BY DEF Init, ProxyInit, NewCtx, NoEarlyCounter, HoldsWhatItFound
<1>2. TypeOK /\ NoEarlyCounter /\ HoldsWhatItFound /\ [Next]_vars
        => (NoEarlyCounter /\ HoldsWhatItFound)'
  BY NextNoEarlyCounter, NextHoldsWhatItFound
<1>3. FoundAtItsBackend /\ HoldsWhatItFound => CountedAtItsBackend
  BY ListsKnown DEF FoundAtItsBackend, HoldsWhatItFound, CountedAtItsBackend
<1> QED BY <1>1, <1>2, <1>3, TypeCorrect, FoundAtItsBackendCorrect, PTL DEF Spec
==============================================================================
