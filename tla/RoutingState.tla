---------------------------- MODULE RoutingState -----------------------------
(***************************************************************************)
(* DynamicLBState of src/src/domain/models.rs: three ArcSwap cells that    *)
(* every thread of the server loads and stores on its own, and the request *)
(* counters behind the Arcs of the items.  No lock orders the cells: a     *)
(* writer loads items, builds a list, and stores by_addr, lb and items one *)
(* after the other.                                                        *)
(***************************************************************************)
EXTENDS Upstreams

CONSTANT MaxNow    \* bound on the clock, in seconds

ASSUME ClockAssumption == MaxNow \in Nat

VARIABLES
  items,     \* ArcSwap<Vec<BackendItem>>
  byAddr,    \* ArcSwap<HashMap<SocketAddr, BackendItem>>, as the set of its values
  lb,        \* ArcSwap<DynamicLb>, as the set of addresses it selects from
  count,     \* active_requests of every item ever built, by id
  nextId,    \* the id of the next item built
  now        \* Instant::now() in whole seconds

cells == <<items, byAddr, lb>>
shared == <<items, byAddr, lb, count, nextId, now>>

RoutingTypeOK ==
  /\ items \subseteq Item
  /\ byAddr \subseteq Item
  /\ lb \subseteq Addrs
  /\ count \in [Ids -> Int]
  /\ nextId \in 1..(MaxRegs + 1)
  /\ now \in 0..MaxNow

RoutingInit ==
  /\ items = {} /\ byAddr = {} /\ lb = {}
  /\ count = [id \in Ids |-> 0]
  /\ nextId = 1
  /\ now = 0

\* The two stores of rebuild_load_balancer, which are two steps.
StoreAddrMap(S)  == byAddr' = AddrMap(S)
StoreBackends(S) == lb' = ActiveBackends(S)

Tick ==
  /\ now < MaxNow
  /\ now' = now + 1
  /\ UNCHANGED <<items, byAddr, lb, count, nextId>>
==============================================================================
