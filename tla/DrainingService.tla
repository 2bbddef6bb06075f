--------------------------- MODULE DrainingService ---------------------------
(***************************************************************************)
(* DrainingService of src/src/health/draining.rs, that is, one call of     *)
(* purge_drained_upstreams on every tick of a timer.  The purge loads      *)
(* items, reads the clock, reads the request counter of one draining item  *)
(* after the other, and publishes what is left if it dropped anything.     *)
(* No await separates these steps, but every other thread runs between     *)
(* them.  The reading of the clock is part of the step that loads.         *)
(***************************************************************************)
EXTENDS RoutingState

VARIABLE dr    \* the purge: the list it loaded, the items to look at, what it keeps

DrainState == [pc : {"idle", "scan", "lb", "items"}, loaded : SUBSET Item,
               todo : SUBSET Item, next : SUBSET Item, at : 0..MaxNow]

BetweenTicks == [pc |-> "idle", loaded |-> {}, todo |-> {}, next |-> {}, at |-> 0]

DrainTypeOK == dr \in DrainState

DrainInit == dr = BetweenTicks

\* Active items are kept whatever the counters say; a purge that loads no
\* draining item reads nothing else and changes nothing.
LoadPurge ==
  /\ dr.pc = "idle"
  /\ Draining(items) # {}
  /\ dr' = [pc |-> "scan", loaded |-> items, todo |-> Draining(items),
            next |-> items \ Draining(items), at |-> now]
  /\ UNCHANGED shared

\* The closure of retain looks at the items in the order of the list.
Examined(i) == i \in dr.todo /\ \A j \in dr.todo : i.id <= j.id

Scan ==
  /\ dr.pc = "scan"
  /\ \E i \in dr.todo :
       /\ Examined(i)
       /\ dr' = [dr EXCEPT !.todo = @ \ {i},
                           !.next = IF KeepsDraining(i, count[i.id], dr.at)
                                      THEN @ \cup {i} ELSE @]
  /\ UNCHANGED shared

PurgeNothing ==
  /\ dr.pc = "scan" /\ dr.todo = {}
  /\ dr.next = dr.loaded
  /\ dr' = BetweenTicks
  /\ UNCHANGED shared

PurgeStoreAddrMap ==
  /\ dr.pc = "scan" /\ dr.todo = {}
  /\ dr.next # dr.loaded
  /\ StoreAddrMap(dr.next)
  /\ dr' = [dr EXCEPT !.pc = "lb"]
  /\ UNCHANGED <<items, lb, count, nextId, now>>

PurgeStoreBackends ==
  /\ dr.pc = "lb"
  /\ StoreBackends(dr.next)
  /\ dr' = [dr EXCEPT !.pc = "items"]
  /\ UNCHANGED <<items, byAddr, count, nextId, now>>

PurgeStoreItems ==
  /\ dr.pc = "items"
  /\ items' = dr.next
  /\ dr' = BetweenTicks
  /\ UNCHANGED <<byAddr, lb, count, nextId, now>>

DrainNext == \/ LoadPurge \/ Scan \/ PurgeNothing
             \/ PurgeStoreAddrMap \/ PurgeStoreBackends \/ PurgeStoreItems
==============================================================================
