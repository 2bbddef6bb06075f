--------------------------- MODULE RegistryProofs ----------------------------
(***************************************************************************)
(* With one thread for the Control API, as background_service starts it,   *)
(* and without the draining service, the calls of the API take effect one  *)
(* at a time: the server implements UpstreamRegistry, and what a caller    *)
(* was told stays true.  Health cycles and requests may run meanwhile.     *)
(***************************************************************************)
EXTENDS LoadBalancerProofs

OneApiTask == \A s, t \in ApiTasks : s = t
NoPurges   == "drain" \notin Services

(***************************************************************************)
(* What a handler that has begun to store is about to make of items, which *)
(* nobody else has changed since it loaded them.                           *)
(***************************************************************************)
Registering(t) ==
  /\ api[t].as = "active"
  /\ \E id \in Ids, ip \in ParsedIps, port \in Ports \ {0}, name \in Names :
       /\ told[id] = "none" /\ id < nextId
       /\ ~Duplicate(items, ip, port)
       /\ api[t].ids = {id}
       /\ api[t].next = items \cup {NewItem(id, ip, port, name)}

Deregistering(t) ==
  /\ api[t].as = "gone"
  /\ \E ip \in ParsedIps, port \in Ports \cup {None} :
       /\ api[t].next = Retained(items, ip, port)
       /\ api[t].ids = IdsOf(items \ api[t].next)

DrainingOne(t) ==
  /\ api[t].as = "draining"
  /\ \E i \in items, until \in 0..MaxNow :
       /\ api[t].ids = {i.id}
       /\ api[t].next = (items \ {i}) \cup {MarkedDraining(i, until)}

Pending(t) == Registering(t) \/ Deregistering(t) \/ DrainingOne(t)

AllPending == \A t \in ApiTasks : api[t].pc # "idle" => Pending(t)

\* An item of the list has an id of its own and was answered for; an id that
\* is still to be given out was not.
ToldIds ==
  /\ \A i, j \in items : i.id = j.id => i = j
  /\ \A i \in items : told[i.id] # "none"
  /\ \A id \in Ids : told[id] # "none" => id < nextId

\* What the API has said of an id is what items say, at all times.
ToldTruth ==
  \A id \in Ids :
    /\ told[id] = "active" => \E i \in items : i.id = id /\ IsActive(i)
    /\ told[id] = "draining" => \A i \in items : i.id = id => ~IsActive(i)
    /\ told[id] = "gone" => id \notin IdsOf(items)

\* The steps that touch neither items, nor what was told, nor a handler.
ApiAside == UNCHANGED <<items, told, nextId, api>>

\* Only a handler's steps are not of that kind.
LEMMA OthersAside ==
  ASSUME NoPurges, [Next]_vars, ~ApiStep
  PROVE  ApiAside
<1>1. ~DrainStep
  BY DEF DrainStep, NoPurges
<1>2. CASE HealthStep
  BY <1>2 DEF HealthStep, HealthNext, LoadCycle, Probe, HealthStoreAddrMap,
              HealthStoreBackends, shared, apiVars, ApiAside
<1>3. CASE RequestStep
  BY <1>3 DEF RequestStep, RequestNext, Select, LookupName, LookupCounter, CountUp,
              Retry, Logging, shared, apiVars, ApiAside
<1>4. CASE FlipStep \/ TickStep \/ UNCHANGED vars
  BY <1>4 DEF FlipStep, Flip, TickStep, Tick, vars, shared, apiVars, ApiAside
<1> QED BY <1>1, <1>2, <1>3, <1>4 DEF Next

\* A call that is refused changes nothing, and one that is not begins with
\* what its operation makes of items.
LEMMA CallBegins ==
  ASSUME TypeOK, ToldIds, NEW t \in ApiTasks,
         RegisterCall(t) \/ DeregisterCall(t) \/ DrainCall(t)
  PROVE  /\ UNCHANGED <<items, byAddr, lb, told>> /\ nextId' >= nextId
         /\ api[t].pc = "idle"
         /\ \/ api'[t].pc = "idle"
            \/ api'[t].pc = "by_addr" /\ Pending(t)'
<1>0. /\ api \in [ApiTasks -> ApiState] /\ items \in SUBSET Item
      /\ nextId \in Nat /\ nextId >= 1 /\ now \in Nat
  BY UpstreamsAssumption, ClockAssumption DEF TypeOK, ApiTypeOK, RoutingTypeOK
<1>1. ASSUME NEW reply, Answer(t, reply)
      PROVE  api'[t].pc = "idle" /\ nextId' = nextId
  BY <1>0, <1>1 DEF Answer, Waiting
<1>2. ASSUME NEW next, NEW ids, NEW as, Publish(t, next, ids, as)
      PROVE  /\ api'[t].pc = "by_addr"
             /\ api'[t].next = next /\ api'[t].ids = ids /\ api'[t].as = as
  BY <1>0, <1>2 DEF Publish
<1>3. ASSUME NEW ip \in IpTexts, NEW port \in Ports, NEW name \in Names,
             NEW e \in Endpoints, Register(t, ip, port, name, e)
      PROVE  /\ UNCHANGED <<items, byAddr, lb, told>> /\ nextId' >= nextId
             /\ api[t].pc = "idle"
             /\ \/ api'[t].pc = "idle"
                \/ api'[t].pc = "by_addr" /\ Registering(t)'
  <2>1. CASE /\ ValidRegistration(ip, port, name, e)
             /\ ~Duplicate(items, ip, port)
             /\ Publish(t, items \cup {NewItem(nextId, ip, port, name)}, {nextId}, "active")
             /\ nextId' = nextId + 1
    <3>1. nextId \in Ids /\ ip \in ParsedIps /\ port \in Ports \ {0}
      BY <1>0, <1>3, <2>1, UpstreamsAssumption DEF Register, Ids, ValidRegistration
    <3>2. told[nextId] = "none"
      BY <1>0, <3>1 DEF ToldIds
    <3>3. UNCHANGED <<items, byAddr, lb, told>> /\ api[t].pc = "idle"
      BY <1>3 DEF Register, Accept
    <3>4. Registering(t)'
      BY <1>0, <1>2, <2>1, <3>1, <3>2, <3>3 DEF Registering
    <3> QED BY <1>0, <1>2, <2>1, <3>3, <3>4
  <2>2. CASE Answer(t, "bad_request") \/ Answer(t, "conflict")
    BY <1>0, <1>1, <1>3, <2>2 DEF Register, Accept
  <2> QED BY <1>3, <2>1, <2>2 DEF Register
<1>4. ASSUME NEW ip \in IpTexts, NEW port \in Ports \cup {None}, Deregister(t, ip, port)
      PROVE  /\ UNCHANGED <<items, byAddr, lb, told, nextId>>
             /\ api[t].pc = "idle"
             /\ \/ api'[t].pc = "idle"
                \/ api'[t].pc = "by_addr" /\ Deregistering(t)'
  <2> DEFINE rest == Retained(items, ip, port)
  <2>1. CASE /\ ValidDeregistration(ip, port)
             /\ Publish(t, rest, {i.id : i \in items \ rest}, "gone")
             /\ UNCHANGED nextId
    <3>1. ip \in ParsedIps
      BY <2>1 DEF ValidDeregistration
    <3>2. UNCHANGED <<items, byAddr, lb, told>> /\ api[t].pc = "idle"
      BY <1>4 DEF Deregister, Accept
    <3>3. Deregistering(t)'
      BY <1>2, <2>1, <3>1, <3>2 DEF Deregistering, IdsOf
    <3> QED BY <1>2, <2>1, <3>2, <3>3
  <2>2. CASE Answer(t, "bad_request") \/ Answer(t, "not_found")
    BY <1>1, <1>4, <2>2 DEF Deregister, Accept
  <2> QED BY <1>4, <2>1, <2>2 DEF Deregister
<1>5. ASSUME NEW ip \in IpTexts \cup {None}, NEW port \in Ports \cup {None},
             NEW name \in Names \cup {None}, NEW timeout \in Timeouts \cup {None},
             Drain(t, ip, port, name, timeout)
      PROVE  /\ UNCHANGED <<items, byAddr, lb, told, nextId>>
             /\ api[t].pc = "idle"
             /\ \/ api'[t].pc = "idle"
                \/ api'[t].pc = "by_addr" /\ DrainingOne(t)'
  <2> DEFINE secs  == IF timeout = None THEN DefaultTimeout ELSE timeout
             found == FirstMatch(items, ip, port, NormOption(name))
  <2>1. now + secs \in 0..MaxNow
    BY <1>0, <1>5, ApiAssumption, ClockAssumption DEF Drain
  <2>2. UNCHANGED <<items, byAddr, lb, told, nextId>> /\ api[t].pc = "idle"
    BY <1>5 DEF Drain, Accept, Answer
  <2>3. ASSUME NEW i \in found,
               Publish(t, (items \ {i}) \cup {MarkedDraining(i, now + secs)},
                       {i.id}, "draining")
        PROVE  api'[t].pc = "by_addr" /\ DrainingOne(t)'
    <3>1. i \in items
      BY DEF FirstMatch
    <3> HIDE DEF secs, found
    <3> QED BY <1>2, <2>1, <2>2, <2>3, <3>1 DEF DrainingOne
  <2>4. CASE Answer(t, "bad_request") \/ Answer(t, "not_found")
    BY <1>1, <2>2, <2>4
  <2>5. \/ Answer(t, "bad_request") \/ Answer(t, "not_found")
        \/ \E i \in found : Publish(t, (items \ {i}) \cup {MarkedDraining(i, now + secs)},
                                   {i.id}, "draining")
    BY <1>5, Zenon DEF Drain
  <2> HIDE DEF secs, found
  <2> QED BY <2>2, <2>3, <2>4, <2>5
<1>6. ASSUME NEW ip, NEW port, NEW name, DrainPanics(t, ip, port, name)
      PROVE  /\ UNCHANGED <<items, byAddr, lb, told, nextId>>
             /\ api[t].pc = "idle" /\ api'[t].pc = "idle"
  BY <1>1, <1>6 DEF DrainPanics, Accept, Answer
<1>7. CASE RegisterCall(t)
  BY <1>3, <1>7 DEF RegisterCall, Pending
<1>8. CASE DeregisterCall(t)
  <2>1. PICK ip \in IpTexts, port \in Ports \cup {None} : Deregister(t, ip, port)
    BY <1>8 DEF DeregisterCall
  <2> QED BY <1>0, <1>4, <2>1 DEF Pending
<1>9. CASE DrainCall(t)
  <2>1. PICK ip \in IpTexts \cup {None}, port \in Ports \cup {None},
             name \in Names \cup {None} :
          \/ \E timeout \in Timeouts \cup {None} : Drain(t, ip, port, name, timeout)
          \/ DrainPanics(t, ip, port, name)
    BY <1>9 DEF DrainCall
  <2>2. CASE DrainPanics(t, ip, port, name)
    BY <1>0, <1>6, <2>2
  <2>3. CASE \E timeout \in Timeouts \cup {None} : Drain(t, ip, port, name, timeout)
    BY <1>0, <1>5, <2>3 DEF Pending
  <2> QED BY <2>1, <2>2, <2>3
<1> QED BY <1>7, <1>8, <1>9

\* The last store gives items the list, and the ids of the change the answer.
LEMMA StoredItems ==
  ASSUME TypeOK, NEW t \in ApiTasks, ApiStoreItems(t)
  PROVE  /\ items' = api[t].next /\ nextId' = nextId
         /\ api[t].pc = "items" /\ api'[t].pc = "idle"
         /\ \A id \in Ids : told'[id] = IF id \in api[t].ids THEN api[t].as ELSE told[id]
         /\ told' \in [Ids -> Said]
<1>1. api[t] \in ApiState
  BY DEF TypeOK, ApiTypeOK
<1> QED BY <1>1, NextTypes DEF ApiStoreItems, Waiting, TypeOK, ApiTypeOK, ApiState

\* The ids of the items of a list are ids.
LEMMA ItemIds == TypeOK => \A i \in items : i \in Item /\ i.id \in Ids
  BY DEF TypeOK, RoutingTypeOK, Item

\* When a change is stored the list still has one item per id, and all of
\* its ids were answered for.
LEMMA StoreToldIds ==
  ASSUME TypeOK, ToldIds, NEW t \in ApiTasks, ApiStoreItems(t), Pending(t)
  PROVE  ToldIds'
<1>0. nextId \in Nat
  BY UpstreamsAssumption DEF TypeOK, RoutingTypeOK
<1>1. CASE Registering(t)
  <2>1. PICK id \in Ids, ip \in ParsedIps, port \in Ports \ {0}, name \in Names :
          /\ told[id] = "none" /\ id < nextId
          /\ api[t].ids = {id}
          /\ api[t].next = items \cup {NewItem(id, ip, port, name)}
    BY <1>1 DEF Registering
  <2>2. NewItem(id, ip, port, name).id = id
    BY DEF NewItem
  <2>3. \A k \in Ids : told'[k] = IF k = id THEN "active" ELSE told[k]
    BY <1>1, <2>1, StoredItems DEF Registering
  <2>4. \A i \in items : i.id # id
    BY <2>1 DEF ToldIds
  <2> HIDE DEF NewItem
  <2> QED BY <2>1, <2>2, <2>3, <2>4, ItemIds, StoredItems DEF ToldIds
<1>2. CASE Deregistering(t)
  <2>1. api[t].next \subseteq items /\ api[t].ids = IdsOf(items \ api[t].next)
    BY <1>2 DEF Deregistering, Retained
  <2>2. \A k \in Ids : told'[k] = IF k \in IdsOf(items \ api[t].next) THEN "gone" ELSE told[k]
    BY <1>2, <2>1, StoredItems DEF Deregistering
  <2>3. \A k \in IdsOf(items) : told[k] # "none"
    BY DEF ToldIds, IdsOf
  <2>4. \A k \in Ids : told'[k] # "none" => k < nextId
    BY <2>2, <2>3 DEF ToldIds, IdsOf
  <2> QED BY <2>1, <2>2, <2>4, ItemIds, StoredItems DEF ToldIds
<1>3. CASE DrainingOne(t)
  <2>1. PICK i \in items, until \in 0..MaxNow :
          /\ api[t].ids = {i.id}
          /\ api[t].next = (items \ {i}) \cup {MarkedDraining(i, until)}
    BY <1>3 DEF DrainingOne
  <2>2. MarkedDraining(i, until).id = i.id
    BY <2>1, ItemIds, MarkedType, ClockAssumption
  <2>3. \A k \in Ids : told'[k] = IF k = i.id THEN "draining" ELSE told[k]
    BY <1>3, <2>1, StoredItems DEF DrainingOne
  <2>4. told[i.id] # "none" /\ i.id < nextId
    BY ItemIds DEF ToldIds
  <2>5. \A j, k \in items : j.id = k.id => j = k
    BY DEF ToldIds
  <2> QED BY <2>1, <2>2, <2>3, <2>4, <2>5, ItemIds, StoredItems DEF ToldIds
<1> QED BY <1>1, <1>2, <1>3 DEF Pending

\* When a change is stored, items say of its ids what the caller is told, and of
\* the others what they said before.
LEMMA StoreToldTruth ==
  ASSUME TypeOK, ToldIds, ToldTruth, NEW t \in ApiTasks, ApiStoreItems(t), Pending(t)
  PROVE  ToldTruth'
<1> SUFFICES ASSUME NEW k \in Ids
             PROVE  /\ told'[k] = "active" => \E i \in items' : i.id = k /\ IsActive(i)
                    /\ told'[k] = "draining" => \A i \in items' : i.id = k => ~IsActive(i)
                    /\ told'[k] = "gone" => \A i \in items' : i.id # k
  BY DEF ToldTruth, IdsOf
<1>0. /\ told[k] = "active" => \E i \in items : i.id = k /\ IsActive(i)
      /\ told[k] = "draining" => \A i \in items : i.id = k => ~IsActive(i)
      /\ told[k] = "gone" => \A i \in items : i.id # k
  BY DEF ToldTruth, IdsOf
<1>1. CASE Registering(t)
  <2>1. PICK id \in Ids, ip \in ParsedIps, port \in Ports \ {0}, name \in Names :
          /\ api[t].ids = {id}
          /\ api[t].next = items \cup {NewItem(id, ip, port, name)}
    BY <1>1 DEF Registering
  <2>2. NewItem(id, ip, port, name).id = id /\ IsActive(NewItem(id, ip, port, name))
    BY DEF NewItem, IsActive
  <2>3. told'[k] = IF k = id THEN "active" ELSE told[k]
    BY <1>1, <2>1, StoredItems DEF Registering
  <2> QED BY <1>0, <2>1, <2>2, <2>3, StoredItems
<1>2. CASE Deregistering(t)
  <2>1. api[t].next \subseteq items /\ api[t].ids = IdsOf(items \ api[t].next)
    BY <1>2 DEF Deregistering, Retained
  <2>2. told'[k] = IF k \in IdsOf(items \ api[t].next) THEN "gone" ELSE told[k]
    BY <1>2, <2>1, StoredItems DEF Deregistering
  <2>3. items' = api[t].next
    BY StoredItems
  <2>4. CASE k \in IdsOf(items \ api[t].next)
    <3>1. PICK i \in items \ api[t].next : i.id = k
      BY <2>4 DEF IdsOf
    <3>2. \A j \in api[t].next : j.id # k
      BY <2>1, <3>1 DEF ToldIds
    <3> QED BY <2>2, <2>3, <2>4, <3>2
  <2>5. CASE k \notin IdsOf(items \ api[t].next)
    <3>1. \A i \in items : i.id = k => i \in api[t].next
      BY <2>5 DEF IdsOf
    <3> QED BY <1>0, <2>1, <2>2, <2>3, <2>5, <3>1
  <2> QED BY <2>4, <2>5
<1>3. CASE DrainingOne(t)
  <2>1. PICK i \in items, until \in 0..MaxNow :
          /\ api[t].ids = {i.id}
          /\ api[t].next = (items \ {i}) \cup {MarkedDraining(i, until)}
    BY <1>3 DEF DrainingOne
  <2>2. MarkedDraining(i, until).id = i.id /\ ~IsActive(MarkedDraining(i, until))
    BY <2>1, ItemIds DEF MarkedDraining, IsActive, Item
  <2>3. told'[k] = IF k = i.id THEN "draining" ELSE told[k]
    BY <1>3, <2>1, StoredItems DEF DrainingOne
  <2>4. \A j \in items : j.id = i.id => j = i
    BY DEF ToldIds
  <2> QED BY <1>0, <2>1, <2>2, <2>3, <2>4, StoredItems
<1> QED BY <1>1, <1>2, <1>3 DEF Pending

\* One task: what is pending is not made stale by another, and what is stored
\* is what was built from the list it replaces.
LEMMA NextPending ==
  ASSUME OneApiTask, NoPurges, TypeOK, AllPending, ToldIds, [Next]_vars
  PROVE  AllPending' /\ ToldIds'
<1>0. nextId \in Nat /\ nextId' \in Nat
  BY NextTypes, UpstreamsAssumption DEF TypeOK, RoutingTypeOK
<1>1. CASE ApiAside
  BY <1>1 DEF ApiAside, AllPending, Pending, Registering, Deregistering, DrainingOne, ToldIds
<1>2. CASE ApiStep
  <2>1. PICK t \in ApiTasks : ApiNext(t)
    BY <1>2 DEF ApiStep
  <2>2. \A s \in ApiTasks : s = t
    BY DEF OneApiTask
  <2>3. CASE RegisterCall(t) \/ DeregisterCall(t) \/ DrainCall(t)
    <3>1. AllPending'
      BY <2>2, <2>3, CallBegins DEF AllPending
    <3>2. UNCHANGED <<items, told>> /\ nextId' >= nextId
      BY <2>3, CallBegins
    <3>3. \A id \in Ids : told[id] # "none" => id < nextId'
      BY <1>0, <3>2, UpstreamsAssumption DEF ToldIds, Ids
    <3> QED BY <3>1, <3>2, <3>3 DEF ToldIds
  <2>4. CASE ApiStoreAddrMap(t) \/ ApiStoreBackends(t)
    <3>1. /\ UNCHANGED <<items, told, nextId>> /\ api[t].pc # "idle"
          /\ api'[t].as = api[t].as /\ api'[t].ids = api[t].ids /\ api'[t].next = api[t].next
      <4>0. api \in [ApiTasks -> ApiState]
        BY DEF TypeOK, ApiTypeOK
      <4>1. CASE ApiStoreAddrMap(t)
        BY <4>0, <4>1 DEF ApiStoreAddrMap, ApiState
      <4>2. CASE ApiStoreBackends(t)
        BY <4>0, <4>2 DEF ApiStoreBackends, ApiState
      <4> QED BY <2>4, <4>1, <4>2
    <3>2. Pending(t)'
      <4>1. Registering(t) => Registering(t)'
        BY <3>1 DEF Registering
      <4>2. Deregistering(t) => Deregistering(t)'
        BY <3>1 DEF Deregistering
      <4>3. DrainingOne(t) => DrainingOne(t)'
        BY <3>1 DEF DrainingOne
      <4> QED BY <3>1, <4>1, <4>2, <4>3 DEF AllPending, Pending
    <3> QED BY <2>2, <3>1, <3>2 DEF AllPending, ToldIds
  <2>5. CASE ApiStoreItems(t)
    <3>1. Pending(t)
      BY <2>5, StoredItems DEF AllPending
    <3> QED BY <2>2, <2>5, <3>1, StoredItems, StoreToldIds DEF AllPending
  <2> QED BY <2>1, <2>3, <2>4, <2>5 DEF ApiNext, ApiStores
<1> QED BY <1>1, <1>2, OthersAside

\* At first nothing is pending, listed or told.
LEMMA InitPending == Init => AllPending /\ ToldIds /\ ToldTruth
  BY DEF Init, RoutingInit, ApiInit, Waiting, AllPending, ToldIds, ToldTruth

\* What was told stays true as long as nothing is stored.
LEMMA NextToldTruth ==
  ASSUME OneApiTask, NoPurges, TypeOK, AllPending, ToldIds, ToldTruth, [Next]_vars
  PROVE  ToldTruth'
<1>1. CASE UNCHANGED <<items, told>>
  BY <1>1 DEF ToldTruth, IdsOf
<1>2. CASE ApiStep
  <2>1. PICK t \in ApiTasks : ApiNext(t)
    BY <1>2 DEF ApiStep
  <2>2. CASE RegisterCall(t) \/ DeregisterCall(t) \/ DrainCall(t)
    BY <1>1, <2>2, CallBegins
  <2>3. CASE ApiStoreAddrMap(t) \/ ApiStoreBackends(t)
    BY <1>1, <2>3 DEF ApiStoreAddrMap, ApiStoreBackends
  <2>4. CASE ApiStoreItems(t)
    BY <2>4, StoredItems, StoreToldTruth DEF AllPending
  <2> QED BY <2>1, <2>2, <2>3, <2>4 DEF ApiNext, ApiStores
<1> QED BY <1>1, <1>2, OthersAside DEF ApiAside

\* The invariant of the single task: every change is made of the list it
\* will replace.
LEMMA PendingCorrect ==
  ASSUME OneApiTask, NoPurges
  PROVE  Spec => [](AllPending /\ ToldIds /\ ToldTruth)
<1>1. Init => AllPending /\ ToldIds /\ ToldTruth
  BY InitPending
<1>2. TypeOK /\ (AllPending /\ ToldIds /\ ToldTruth) /\ [Next]_vars
        => (AllPending /\ ToldIds /\ ToldTruth)'
  BY NextPending, NextToldTruth
<1> QED BY <1>1, <1>2, TypeCorrect, PTL DEF Spec

\* A registered upstream is there and active, a drained one is draining, and a
\* deregistered one is gone, from the answer of the API on and whatever health
\* cycles and requests do.
THEOREM AcknowledgedChangesPersistCorrect ==
  ASSUME OneApiTask, NoPurges
  PROVE  Spec => []AcknowledgedChangesPersist
<1>1. ToldTruth => AcknowledgedChangesPersist
  BY DEF ToldTruth, AcknowledgedChangesPersist
<1> QED BY <1>1, PendingCorrect, PTL

(***************************************************************************)
(* The refinement.  An operation takes effect where its handler stores     *)
(* items; every other step of the server is a step of nothing.             *)
(***************************************************************************)
Used == {id \in Ids : told[id] # "none"}

\* The last store of a handler is one step of the registry.
LEMMA StoreIsRegistryStep ==
  ASSUME TypeOK, ToldIds, NEW t \in ApiTasks, ApiStoreItems(t), Pending(t)
  PROVE  Registry!RegistryNext
<1>0. \A k \in Ids : told'[k] = IF k \in api[t].ids THEN api[t].as ELSE told[k]
  BY StoredItems
<1>1. CASE Registering(t)
  <2>1. PICK id \in Ids, ip \in ParsedIps, port \in Ports \ {0}, name \in Names :
          /\ told[id] = "none"
          /\ ~Duplicate(items, ip, port)
          /\ api[t].ids = {id}
          /\ api[t].next = items \cup {NewItem(id, ip, port, name)}
    BY <1>1 DEF Registering
  <2>2. id \notin Used
    BY <2>1 DEF Used
  <2>3. Used' = Used \cup {id}
    BY <1>0, <1>1, <2>1 DEF Used, Registering
  <2>4. items' = items \cup {NewItem(id, ip, port, name)}
    BY <2>1, StoredItems
  <2>5. Registry!Add(id, ip, port, name)
    BY <2>1, <2>2, <2>3, <2>4 DEF Registry!Add, Used, Duplicate, Registry!Duplicate, NewItem, Registry!NewItem
  <2> QED BY <2>5 DEF Registry!RegistryNext, Registry!Ids, Ids, Registry!ParsedIps, ParsedIps
<1>2. CASE Deregistering(t)
  <2>1. PICK ip \in ParsedIps, port \in Ports \cup {None} :
          /\ api[t].next = Retained(items, ip, port)
          /\ api[t].ids = IdsOf(items \ api[t].next)
    BY <1>2 DEF Deregistering
  <2>2. \A k \in api[t].ids : told[k] # "none"
    BY <2>1 DEF ToldIds, IdsOf
  <2>3. Used' = Used
    BY <1>0, <1>2, <2>2 DEF Used, Deregistering
  <2>4. Registry!Remove(ip, port)
    BY <2>1, <2>3, StoredItems
       DEF Registry!Remove, Used, Retained, Registry!Retained
  <2> QED BY <2>4 DEF Registry!RegistryNext, Registry!ParsedIps, ParsedIps
<1>3. CASE DrainingOne(t)
  <2>1. PICK i \in items, until \in 0..MaxNow :
          /\ api[t].ids = {i.id}
          /\ api[t].next = (items \ {i}) \cup {MarkedDraining(i, until)}
    BY <1>3 DEF DrainingOne
  <2>2. told[i.id] # "none"
    BY DEF ToldIds
  <2>3. Used' = Used
    BY <1>0, <1>3, <2>1, <2>2 DEF Used, DrainingOne
  <2>4. Registry!BeginDrain(i, until)
    BY <2>1, <2>3, StoredItems
       DEF Registry!BeginDrain, Used, MarkedDraining, Registry!MarkedDraining
  <2> QED BY <2>4 DEF Registry!RegistryNext
<1> QED BY <1>1, <1>2, <1>3 DEF Pending

\* Every other step leaves the list, and who is in it, alone.
LEMMA NextIsRegistryStep ==
  ASSUME OneApiTask, NoPurges, TypeOK, AllPending, ToldIds, [Next]_vars
  PROVE  [Registry!RegistryNext]_<<items, Used>>
<1>1. CASE UNCHANGED <<items, told>>
  BY <1>1 DEF Used
<1>2. CASE ApiStep
  <2>1. PICK t \in ApiTasks : ApiNext(t)
    BY <1>2 DEF ApiStep
  <2>2. CASE RegisterCall(t) \/ DeregisterCall(t) \/ DrainCall(t)
    BY <1>1, <2>2, CallBegins
  <2>3. CASE ApiStoreAddrMap(t) \/ ApiStoreBackends(t)
    BY <1>1, <2>3 DEF ApiStoreAddrMap, ApiStoreBackends
  <2>4. CASE ApiStoreItems(t)
    BY <2>4, StoredItems, StoreIsRegistryStep DEF AllPending
  <2> QED BY <2>1, <2>2, <2>3, <2>4 DEF ApiNext, ApiStores
<1> QED BY <1>1, <1>2, OthersAside DEF ApiAside

\* The list of upstreams is an UpstreamRegistry: seen through items, every call
\* of the API is one step, though its handler makes four.
THEOREM RegistryAtomicCorrect ==
  ASSUME OneApiTask, NoPurges
  PROVE  Spec => RegistryAtomic
<1>1. Init => Registry!RegistryInit
  BY DEF Init, RoutingInit, ApiInit, Registry!RegistryInit
<1>2. TypeOK /\ AllPending /\ ToldIds /\ [Next]_vars
        => [Registry!RegistryNext]_<<items, Used>>
  BY NextIsRegistryStep
<1>3. TypeOK /\ AllPending /\ ToldIds /\ [Next]_vars
        => [Registry!RegistryNext]_<<items, {id \in Ids : told[id] # "none"}>>
  BY <1>2 DEF Used
<1> QED BY <1>1, <1>3, TypeCorrect, PendingCorrect, PTL
        DEF Spec, RegistryAtomic, Registry!RegistrySpec

(***************************************************************************)
(* The pool.  With the API alone, by_addr and lb are those of items, and   *)
(* of the new list as soon as a handler has stored them.                   *)
(***************************************************************************)
OnlyApi == Services = {}

PoolInStep ==
  /\ (\A t \in ApiTasks : api[t].pc \in {"idle", "by_addr"}) => byAddr = AddrMap(items)
  /\ (\A t \in ApiTasks : api[t].pc # "items") => lb = ActiveBackends(items)
  /\ \A t \in ApiTasks : api[t].pc \in {"lb", "items"} => byAddr = AddrMap(api[t].next)
  /\ \A t \in ApiTasks : api[t].pc = "items" => lb = ActiveBackends(api[t].next)

\* With the API alone, no other step touches what PoolInStep is about.
LEMMA OthersKeepPool ==
  ASSUME OnlyApi, [Next]_vars, ~ApiStep
  PROVE  UNCHANGED <<items, byAddr, lb, api>>
<1>1. ~DrainStep /\ ~HealthStep
  BY DEF DrainStep, HealthStep, OnlyApi
<1>2. CASE RequestStep
  BY <1>2 DEF RequestStep, RequestNext, Select, LookupName, LookupCounter, CountUp,
              Retry, Logging, shared, apiVars
<1>3. CASE FlipStep \/ TickStep \/ UNCHANGED vars
  BY <1>3 DEF FlipStep, Flip, TickStep, Tick, vars, shared, apiVars
<1> QED BY <1>1, <1>2, <1>3 DEF Next

\* Each store brings its structure to the new list, and the last one items.
LEMMA NextPoolInStep ==
  ASSUME OneApiTask, OnlyApi, TypeOK, ToldIds, PoolInStep, [Next]_vars
  PROVE  PoolInStep'
<1>0. api \in [ApiTasks -> ApiState]
  BY DEF TypeOK, ApiTypeOK
<1>1. CASE ~ApiStep
  BY <1>1, OthersKeepPool DEF PoolInStep
<1>2. CASE ApiStep
  <2>1. PICK t \in ApiTasks : ApiNext(t)
    BY <1>2 DEF ApiStep
  <2>2. \A s \in ApiTasks : s = t
    BY DEF OneApiTask
  <2>3. CASE RegisterCall(t) \/ DeregisterCall(t) \/ DrainCall(t)
    <3>1. /\ UNCHANGED <<items, byAddr, lb>> /\ api[t].pc = "idle"
          /\ api'[t].pc \in {"idle", "by_addr"}
      BY <2>3, CallBegins
    <3> QED BY <2>2, <3>1 DEF PoolInStep
  <2>4. CASE ApiStoreAddrMap(t)
    <3>1. /\ api[t].pc = "by_addr" /\ api'[t].pc = "lb" /\ api'[t].next = api[t].next
          /\ byAddr' = AddrMap(api[t].next) /\ UNCHANGED <<items, lb>>
      BY <1>0, <2>4 DEF ApiStoreAddrMap, StoreAddrMap, ApiState
    <3> QED BY <2>2, <3>1 DEF PoolInStep
  <2>5. CASE ApiStoreBackends(t)
    <3>1. /\ api[t].pc = "lb" /\ api'[t].pc = "items" /\ api'[t].next = api[t].next
          /\ lb' = ActiveBackends(api[t].next) /\ UNCHANGED <<items, byAddr>>
      BY <1>0, <2>5 DEF ApiStoreBackends, StoreBackends, ApiState
    <3> QED BY <2>2, <3>1 DEF PoolInStep
  <2>6. CASE ApiStoreItems(t)
    <3>1. /\ api[t].pc = "items" /\ api'[t].pc = "idle"
          /\ items' = api[t].next /\ UNCHANGED <<byAddr, lb>>
      BY <2>6, StoredItems DEF ApiStoreItems
    <3> QED BY <2>2, <3>1 DEF PoolInStep
  <2> QED BY <2>1, <2>3, <2>4, <2>5, <2>6 DEF ApiNext, ApiStores
<1> QED BY <1>1, <1>2

\* With the API alone, the pool is always in step with the list.
LEMMA PoolInStepCorrect ==
  ASSUME OneApiTask, OnlyApi
  PROVE  Spec => [](DistinctLists /\ PoolInStep)
<1>1. NoPurges
  BY DEF OnlyApi, NoPurges
<1>2. Spec => [](AllPending /\ ToldIds /\ ToldTruth)
  BY <1>1, PendingCorrect
<1>3. Init => DistinctLists /\ PoolInStep
  BY InitDistinct DEF Init, RoutingInit, ApiInit, Waiting, AddrMap, ActiveBackends, PoolInStep
<1>4. TypeOK /\ ToldIds /\ DistinctLists /\ PoolInStep /\ [Next]_vars
        => (DistinctLists /\ PoolInStep)'
  BY NextDistinct, NextPoolInStep
<1> QED BY <1>2, <1>3, <1>4, TypeCorrect, PTL DEF Spec

\* No item is shadowed in the map of a list with distinct addresses.
LEMMA DistinctAddrMap ==
  ASSUME NEW S \in SUBSET Item, DistinctAddrs(S)
  PROVE  AddrMap(S) = {i \in S : i.ip \in IPv4}
  BY UpstreamsAssumption DEF AddrMap, DistinctAddrs, Routable, Item, Ids

\* Between two changes the pool is that of items.
LEMMA InStepFollows ==
  ASSUME TypeOK, DistinctLists, OnlyApi => PoolInStep
  PROVE  PoolFollowsItems
<1> SUFFICES ASSUME Services = {}, ApiQuiet
             PROVE  /\ lb = {<<i.ip, i.port>> : i \in {j \in items : IsActive(j) /\ j.ip \in IPv4}}
                    /\ byAddr = {i \in items : i.ip \in IPv4}
  BY DEF PoolFollowsItems
<1>1. byAddr = AddrMap(items) /\ lb = ActiveBackends(items)
  BY DEF OnlyApi, PoolInStep, ApiQuiet
<1>2. AddrMap(items) = {i \in items : i.ip \in IPv4}
  BY DistinctAddrMap DEF TypeOK, RoutingTypeOK, DistinctLists
<1> QED BY <1>1, <1>2 DEF ActiveBackends, AddrOf, Routable

\* With the API alone, the proxy sends requests to the active items with an
\* IPv4 address and finds the counter of each, whenever no change is half stored.
THEOREM PoolFollowsItemsCorrect ==
  ASSUME OneApiTask
  PROVE  Spec => []PoolFollowsItems
<1>1. CASE OnlyApi
  <2>1. Spec => [](DistinctLists /\ PoolInStep)
    BY <1>1, PoolInStepCorrect
  <2>2. TypeOK /\ DistinctLists /\ PoolInStep => PoolFollowsItems
    BY InStepFollows
  <2> QED BY <2>1, <2>2, TypeCorrect, PTL
<1>2. CASE ~OnlyApi
  <2>1. PoolFollowsItems
    BY <1>2 DEF OnlyApi, PoolFollowsItems
  <2> QED BY <2>1, PTL
<1> QED BY <1>1, <1>2

\* Whichever list lb was last built from, it has no active item at the address
\* of one that is draining in items.
LEMMA InStepSparesDrained ==
  ASSUME TypeOK, OneApiTask, AllPending, DistinctLists, PoolInStep
  PROVE  DrainedNotSelected
<1> SUFFICES ASSUME NEW i \in items, ~IsActive(i), AddrOf(i) \in lb PROVE FALSE
  BY DEF DrainedNotSelected
<1>1. \A j \in items : IsActive(j) => AddrOf(j) # AddrOf(i)
  BY DEF DistinctLists, DistinctAddrs
<1>2. CASE \A t \in ApiTasks : api[t].pc # "items"
  BY <1>1, <1>2 DEF PoolInStep, ActiveBackends
<1>3. ASSUME NEW t \in ApiTasks, api[t].pc = "items" PROVE FALSE
  <2>1. PICK j \in api[t].next : IsActive(j) /\ AddrOf(j) = AddrOf(i)
    BY <1>3 DEF PoolInStep, ActiveBackends
  <2>2. CASE Registering(t)
    BY <1>1, <2>1, <2>2 DEF Registering, Duplicate, NewItem, AddrOf
  <2>3. CASE Deregistering(t)
    BY <1>1, <2>1, <2>3 DEF Deregistering, Retained
  <2>4. CASE DrainingOne(t)
    <3>1. \A k \in items, until \in 0..MaxNow : ~IsActive(MarkedDraining(k, until))
      BY ItemIds DEF MarkedDraining, IsActive, Item
    <3> QED BY <1>1, <2>1, <2>4, <3>1 DEF DrainingOne
  <2> QED BY <1>3, <2>2, <2>3, <2>4 DEF AllPending, Pending
<1> QED BY <1>2, <1>3

\* With the API alone, no new request is sent to a backend whose drain was
\* answered: it takes a health cycle or a purge to bring it back.
THEOREM DrainedNotSelectedByApi ==
  ASSUME OneApiTask, OnlyApi
  PROVE  Spec => []DrainedNotSelected
<1>1. NoPurges
  BY DEF OnlyApi, NoPurges
<1>2. Spec => [](AllPending /\ ToldIds /\ ToldTruth)
  BY <1>1, PendingCorrect
<1>3. TypeOK /\ AllPending /\ DistinctLists /\ PoolInStep => DrainedNotSelected
  BY InStepSparesDrained
<1> QED BY <1>2, <1>3, TypeCorrect, PoolInStepCorrect, PTL

\* The second lookup of upstream_peer misses the backend that the first load
\* gave it only in the middle of a change, or after the backend has left.
LEMMA LookupMisses ==
  ASSUME TypeOK, PoolFollowsItems, [Next]_vars, NEW r \in Requests,
         Services = {}, req[r].pc = "named", req'[r].pc = "upstream"
  PROVE  ~ApiQuiet \/ req[r].addr \notin lb
<1>0. req \in [Requests -> RequestState]
  BY DEF TypeOK, ProxyTypeOK
<1> SUFFICES ASSUME ApiQuiet, req[r].addr \in lb PROVE FALSE
  OBVIOUS
<1>1. PICK i \in byAddr : AddrOf(i) = req[r].addr
  BY DEF PoolFollowsItems, AddrOf
<1>2. EntryAt(byAddr, req[r].addr) # {}
  BY <1>1 DEF EntryAt
<1>3. req' # req /\ req'[r] # req[r]
  OBVIOUS
<1>4. PICK s \in Requests : RequestNext(s)
  BY <1>3 DEF Next, vars, ApiStep, HealthStep, DrainStep, FlipStep, TickStep, RequestStep
<1>5. s = r
  BY <1>0, <1>3, <1>4 DEF RequestNext, Select, LookupName, LookupCounter, CountUp, Retry, Logging
<1>6. CASE LookupCounter(r)
  BY <1>0, <1>2, <1>6 DEF LookupCounter, RequestState
<1>7. ~LookupCounter(r) => FALSE
  BY <1>0, <1>4, <1>5 DEF RequestNext, Select, LookupName, CountUp, Retry, Logging
<1> QED BY <1>6, <1>7

\* A request that was given a backend goes uncounted only if a change of the
\* pool is half stored or its backend has been taken out.
THEOREM UncountedOnlyWhileChangingCorrect ==
  ASSUME OneApiTask
  PROVE  Spec => UncountedOnlyWhileChanging
<1>1. TypeOK /\ PoolFollowsItems /\ [Next]_vars =>
        \A r \in Requests :
          (Services = {} /\ req[r].pc = "named" /\ req'[r].pc = "upstream")
            => ~ApiQuiet \/ req[r].addr \notin lb
  BY LookupMisses
<1> QED BY <1>1, TypeCorrect, PoolFollowsItemsCorrect, PTL
        DEF Spec, UncountedOnlyWhileChanging
==============================================================================
