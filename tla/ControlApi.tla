----------------------------- MODULE ControlApi ------------------------------
(***************************************************************************)
(* The Control API: src/src/api/handlers.rs over the operations of         *)
(* src/src/domain/routing.rs.  A handler has no await, so the handlers of  *)
(* one task run one after the other; the other threads of the server run   *)
(* between its load of items and each of its three stores.  The reading of *)
(* the clock in mark_draining_upstream is part of the step that loads.     *)
(*                                                                         *)
(* told is a history variable: what the API has last answered about an id, *)
(* that is, what its caller may rely on.                                   *)
(***************************************************************************)
EXTENDS RoutingState

CONSTANTS
  ApiTasks,    \* worker threads of the API runtime; background_service starts one
  Timeouts,    \* values of drain_timeout_secs
  DefaultTimeout,
  MaxCalls     \* bound on the number of requests to the API

ASSUME ApiAssumption ==
  /\ Timeouts \subseteq Nat /\ DefaultTimeout \in Nat /\ MaxCalls \in Nat

VARIABLES
  api,      \* per task: the handler it runs and the list it publishes
  told,
  calls     \* requests received so far

apiVars == <<api, told, calls>>

Replies == {"none", "created", "ok", "bad_request", "not_found", "conflict"}
Said    == {"none", "active", "draining", "gone"}

ApiState == [pc : {"idle", "by_addr", "lb", "items"}, next : SUBSET Item,
             ids : SUBSET Ids, as : Said, reply : Replies]

Waiting(reply) == [pc |-> "idle", next |-> {}, ids |-> {}, as |-> "none", reply |-> reply]

ApiTypeOK ==
  /\ api \in [ApiTasks -> ApiState]
  /\ told \in [Ids -> Said]
  /\ calls \in 0..MaxCalls

ApiInit ==
  /\ api = [t \in ApiTasks |-> Waiting("none")]
  /\ told = [id \in Ids |-> "none"]
  /\ calls = 0

\* A request reaches an idle task.
Accept(t) ==
  /\ api[t].pc = "idle"
  /\ calls < MaxCalls
  /\ calls' = calls + 1

Answer(t, reply) ==
  /\ api' = [api EXCEPT ![t] = Waiting(reply)]
  /\ UNCHANGED nextId

\* The updated list is ready to be stored; ids will be told they are "as".
Publish(t, next, ids, as) ==
  api' = [api EXCEPT ![t] = [pc |-> "by_addr", next |-> next, ids |-> ids,
                             as |-> as, reply |-> "none"]]

(***************************************************************************)
(* The three handlers that write, up to their first store.                 *)
(***************************************************************************)
\* Mutation: register_upstream does not look for the address.
RegisterUnchecked(t, ip, port, name, endpoint) ==
  /\ Accept(t)
  /\ nextId <= MaxRegs
  /\ ValidRegistration(ip, port, name, endpoint)
  /\ Publish(t, items \cup {NewItem(nextId, ip, port, name)}, {nextId}, "active")
  /\ nextId' = nextId + 1
  /\ UNCHANGED <<items, byAddr, lb, count, now, told>>

Register(t, ip, port, name, endpoint) ==
  /\ Accept(t)
  /\ nextId <= MaxRegs
  /\ \/ /\ ~ValidRegistration(ip, port, name, endpoint)
        /\ Answer(t, "bad_request")
     \/ /\ ValidRegistration(ip, port, name, endpoint)
        /\ Duplicate(items, ip, port)
        /\ Answer(t, "conflict")
     \/ /\ ValidRegistration(ip, port, name, endpoint)
        /\ ~Duplicate(items, ip, port)
        /\ Publish(t, items \cup {NewItem(nextId, ip, port, name)}, {nextId}, "active")
        /\ nextId' = nextId + 1
  /\ UNCHANGED <<items, byAddr, lb, count, now, told>>

Deregister(t, ip, port) ==
  /\ Accept(t)
  /\ LET rest == Retained(items, ip, port)
     IN \/ /\ ~ValidDeregistration(ip, port)
           /\ Answer(t, "bad_request")
        \/ /\ ValidDeregistration(ip, port)
           /\ rest = items
           /\ Answer(t, "not_found")
        \/ /\ ValidDeregistration(ip, port)
           /\ rest # items
           /\ Publish(t, rest, {i.id : i \in items \ rest}, "gone")
           /\ UNCHANGED nextId
  /\ UNCHANGED <<items, byAddr, lb, count, now, told>>

\* The deadline is kept within the clock's bound.
Drain(t, ip, port, name, timeout) ==
  /\ Accept(t)
  /\ LET secs  == IF timeout = None THEN DefaultTimeout ELSE timeout
         found == FirstMatch(items, ip, port, NormOption(name))
     IN /\ now + secs <= MaxNow
        /\ \/ /\ ~ValidDrain(ip, name)
              /\ Answer(t, "bad_request")
           \/ /\ ValidDrain(ip, name)
              /\ found = {}
              /\ Answer(t, "not_found")
           \/ /\ ValidDrain(ip, name)
              /\ \E i \in found :
                   Publish(t, (items \ {i}) \cup {MarkedDraining(i, now + secs)},
                           {i.id}, "draining")
              /\ UNCHANGED nextId
  /\ UNCHANGED <<items, byAddr, lb, count, now, told>>

\* A timeout that takes the deadline past the range of Instant: the addition
\* panics in the handler, and the caller gets no answer.
DrainPanics(t, ip, port, name) ==
  /\ Accept(t)
  /\ ValidDrain(ip, name)
  /\ FirstMatch(items, ip, port, NormOption(name)) # {}
  /\ Answer(t, "none")
  /\ UNCHANGED <<items, byAddr, lb, count, now, told>>

(***************************************************************************)
(* The three stores every one of them ends with.                           *)
(***************************************************************************)
\* Mutation: the map of the addresses is left as it is.
ApiSkipAddrMap(t) ==
  /\ api[t].pc = "by_addr"
  /\ api' = [api EXCEPT ![t].pc = "lb"]
  /\ UNCHANGED <<items, byAddr, lb, count, nextId, now, told, calls>>

ApiStoreAddrMap(t) ==
  /\ api[t].pc = "by_addr"
  /\ StoreAddrMap(api[t].next)
  /\ api' = [api EXCEPT ![t].pc = "lb"]
  /\ UNCHANGED <<items, lb, count, nextId, now, told, calls>>

\* Mutation: the list before the change.
ApiStoreOldBackends(t) ==
  /\ api[t].pc = "lb"
  /\ StoreBackends(items)
  /\ api' = [api EXCEPT ![t].pc = "items"]
  /\ UNCHANGED <<items, byAddr, count, nextId, now, told, calls>>

ApiStoreBackends(t) ==
  /\ api[t].pc = "lb"
  /\ StoreBackends(api[t].next)
  /\ api' = [api EXCEPT ![t].pc = "items"]
  /\ UNCHANGED <<items, byAddr, count, nextId, now, told, calls>>

\* Mutation: the list itself is not stored.
ApiSkipItems(t) ==
  /\ api[t].pc = "items"
  /\ told' = [id \in Ids |-> IF id \in api[t].ids THEN api[t].as ELSE told[id]]
  /\ api' = [api EXCEPT ![t] = Waiting(IF api[t].as = "active" THEN "created" ELSE "ok")]
  /\ UNCHANGED <<items, byAddr, lb, count, nextId, now, calls>>

\* The last store; the handler then answers.
ApiStoreItems(t) ==
  /\ api[t].pc = "items"
  /\ items' = api[t].next
  /\ told' = [id \in Ids |-> IF id \in api[t].ids THEN api[t].as ELSE told[id]]
  /\ api' = [api EXCEPT ![t] = Waiting(IF api[t].as = "active" THEN "created" ELSE "ok")]
  /\ UNCHANGED <<byAddr, lb, count, nextId, now, calls>>

ApiStores(t) == ApiStoreAddrMap(t) \/ ApiStoreBackends(t) \/ ApiStoreItems(t)

RegisterCall(t) == \E ip \in IpTexts, port \in Ports, name \in Names, e \in Endpoints :
                      Register(t, ip, port, name, e)
DeregisterCall(t) == \E ip \in IpTexts, port \in Ports \cup {None} : Deregister(t, ip, port)
DrainCall(t) ==
  \E ip \in IpTexts \cup {None}, port \in Ports \cup {None}, name \in Names \cup {None} :
    \/ \E timeout \in Timeouts \cup {None} : Drain(t, ip, port, name, timeout)
    \/ DrainPanics(t, ip, port, name)

ApiNext(t) == RegisterCall(t) \/ DeregisterCall(t) \/ DrainCall(t) \/ ApiStores(t)
==============================================================================
