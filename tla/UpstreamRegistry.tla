-------------------------- MODULE UpstreamRegistry ---------------------------
(***************************************************************************)
(* What the Control API promises of the list of upstreams, as its table in *)
(* src/README.md and its handlers present it: every call is one step on    *)
(* one list.  Register adds a fresh item at a free address, deregister     *)
(* removes the items of a target, drain turns one item to draining, and    *)
(* the service may drop draining items.  Nothing else ever changes it.     *)
(***************************************************************************)
EXTENDS Upstreams

CONSTANT Deadlines    \* the deadlines a drain may set

ASSUME RegistryAssumption == Deadlines \subseteq Nat

VARIABLES
  pool,    \* the registered items
  used     \* the ids that were ever registered

Add(id, ip, port, name) ==
  /\ id \notin used
  /\ ~Duplicate(pool, ip, port)
  /\ pool' = pool \cup {NewItem(id, ip, port, name)}
  /\ used' = used \cup {id}

Remove(ip, port) ==
  /\ pool' = Retained(pool, ip, port)
  /\ UNCHANGED used

BeginDrain(i, until) ==
  /\ pool' = (pool \ {i}) \cup {MarkedDraining(i, until)}
  /\ UNCHANGED used

Evict(D) ==
  /\ pool' = pool \ D
  /\ UNCHANGED used

RegistryInit == pool = {} /\ used = {}

RegistryNext ==
  \/ \E id \in Ids, ip \in ParsedIps, port \in Ports \ {0}, name \in Names :
       Add(id, ip, port, name)
  \/ \E ip \in ParsedIps, port \in Ports \cup {None} : Remove(ip, port)
  \/ \E i \in pool, until \in Deadlines : BeginDrain(i, until)
  \/ \E D \in SUBSET Draining(pool) : Evict(D)

RegistrySpec == RegistryInit /\ [][RegistryNext]_<<pool, used>>
==============================================================================
