------------------------------ MODULE Upstreams ------------------------------
(***************************************************************************)
(* The records of the load balancer and the pure part of its operations:   *)
(* src/src/domain/models.rs and the bodies of src/src/domain/routing.rs    *)
(* without their loads and stores.                                         *)
(*                                                                         *)
(* A BackendItem owns its request counter through an Arc, and every clone  *)
(* of the item shares it.  The field id is the identity of that Arc: ids   *)
(* are given out in the order of registration, so a Vec<BackendItem> is    *)
(* the set of its items and the order of the Vec is the order of the ids.  *)
(* The health endpoint of an item is kept only where it is validated.      *)
(***************************************************************************)
EXTENDS Integers, FiniteSets

CONSTANTS
  IPv4,      \* texts that parse as IPv4 addresses
  IPv6,      \* texts that parse as IPv6 addresses
  BadIps,    \* texts that parse as no address
  Ports,     \* u16 values, 0 among the inputs
  Names,     \* SNI names as they are written in payloads
  Norm,      \* Norm[n] is n trimmed and in lower case
  Blank,     \* the empty name
  None,      \* Option::None
  MaxRegs    \* bound on the number of registrations in a behaviour

ASSUME UpstreamsAssumption ==
  /\ IPv4 \cap IPv6 = {} /\ BadIps \cap (IPv4 \cup IPv6) = {}
  /\ Ports \subseteq Nat
  /\ Blank \in Names
  /\ Norm \in [Names -> Names]
  /\ \A n \in Names : Norm[Norm[n]] = Norm[n]
  /\ None \notin IPv4 \cup IPv6 \cup BadIps \cup Names \cup Nat
  /\ MaxRegs \in Nat

Ids       == 1..MaxRegs
ParsedIps == IPv4 \cup IPv6
IpTexts   == ParsedIps \cup BadIps
Addrs     == IPv4 \X Ports
Statuses  == {"active", "draining"}
Endpoints == {"absent", "rooted", "bare"}    \* no text, "/..." and any other text

Item == [id : Ids, ip : ParsedIps, port : Ports \ {0}, sni : Names,
         status : Statuses, deadline : Nat \cup {None}]

NewItem(id, ip, port, name) ==
  [id |-> id, ip |-> ip, port |-> port, sni |-> Norm[name],
   status |-> "active", deadline |-> None]

AddrOf(i)   == <<i.ip, i.port>>
IsActive(i) == i.status = "active"
Draining(S) == {i \in S : i.status = "draining"}

\* address() is "ip:port", which parses as a SocketAddr for IPv4 only: an IPv6
\* address would need brackets.
Routable(i) == i.ip \in IPv4

(***************************************************************************)
(* Payload validation.                                                     *)
(***************************************************************************)
ValidRegistration(ip, port, name, endpoint) ==
  /\ ip \in ParsedIps
  /\ port # 0
  /\ Norm[name] # Blank
  /\ endpoint # "bare"

ValidDeregistration(ip, port) == ip \in ParsedIps /\ port # 0

ValidDrain(ip, name) == ip # None \/ name # None

NormOption(name) == IF name = None THEN None ELSE Norm[name]

(***************************************************************************)
(* The list operations of register, deregister, drain, status and purge.   *)
(***************************************************************************)
\* Mutation: an address is taken only by an active item.
DuplicateActive(S, ip, port) == \E i \in S : i.ip = ip /\ i.port = port /\ IsActive(i)

Duplicate(S, ip, port) == \E i \in S : i.ip = ip /\ i.port = port

Retained(S, ip, port) == {i \in S : i.ip # ip \/ (port # None /\ i.port # port)}

Matches(i, ip, port, sni) ==
  /\ ip \in {None, i.ip}
  /\ port \in {None, i.port}
  /\ sni \in {None, i.sni}

\* At most one item: the first of the Vec that matches.
FirstMatch(S, ip, port, sni) ==
  {i \in S : /\ Matches(i, ip, port, sni)
             /\ \A j \in S : Matches(j, ip, port, sni) => i.id <= j.id}

MarkedDraining(i, until) == [i EXCEPT !.status = "draining", !.deadline = until]

Expired(i, at) == i.deadline # None /\ at >= i.deadline

\* Mutation: the deadline is not looked at.
KeepsWhileUsed(i, requests, at) == requests > 0

\* What the closure of purge_drained_upstreams keeps of the draining items.
KeepsDraining(i, requests, at) == requests > 0 /\ ~Expired(i, at)

(***************************************************************************)
(* The two derived structures of rebuild_load_balancer.  The HashMap is    *)
(* the set of its values: inserting overwrites an earlier item at the same *)
(* address.                                                                *)
(***************************************************************************)
AddrMap(S) == {i \in S : /\ Routable(i)
                         /\ \A j \in S : AddrOf(j) = AddrOf(i) => j.id <= i.id}

ActiveBackends(S) == {AddrOf(i) : i \in {j \in S : Routable(j) /\ IsActive(j)}}

EntryAt(map, a) == {i \in map : AddrOf(i) = a}

\* No two items of a list hold the same address.
DistinctAddrs(S) == \A i, j \in S : AddrOf(i) = AddrOf(j) => i = j
==============================================================================
