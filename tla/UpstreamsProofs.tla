-------------------------- MODULE UpstreamsProofs ---------------------------
(***************************************************************************)
(* What the operations on the list of upstreams give, for the proofs about *)
(* the server and about the edge.                                          *)
(***************************************************************************)
EXTENDS Upstreams, TLAPS

\* A registration that passes validation builds an item.
LEMMA NewItemType ==
  ASSUME NEW id \in Ids, NEW ip, NEW port \in Ports, NEW name \in Names, NEW e,
         ValidRegistration(ip, port, name, e)
  PROVE  NewItem(id, ip, port, name) \in Item
  BY UpstreamsAssumption DEF ValidRegistration, NewItem, Item, Statuses

\* Marking changes the status and the deadline of an item and nothing else.
LEMMA MarkedType ==
  ASSUME NEW i \in Item, NEW until \in Nat
  PROVE  /\ MarkedDraining(i, until) \in Item
         /\ AddrOf(MarkedDraining(i, until)) = AddrOf(i)
         /\ MarkedDraining(i, until).id = i.id
  BY DEF MarkedDraining, Item, Statuses, AddrOf

\* Both structures of rebuild_load_balancer are made of the items given.
LEMMA RebuildTypes ==
  ASSUME NEW S \in SUBSET Item
  PROVE  AddrMap(S) \in SUBSET Item /\ ActiveBackends(S) \in SUBSET Addrs
  BY DEF AddrMap, ActiveBackends, Routable, Item, AddrOf, Addrs
==============================================================================
