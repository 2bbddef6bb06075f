---------------------------- MODULE ProxyRequests ----------------------------
(***************************************************************************)
(* The proxy: src/src/proxy/lb.rs and select_backend of                    *)
(* src/src/domain/routing.rs.  A request is a task of the worker threads;  *)
(* upstream_peer loads lb, then by_addr for the SNI name, then by_addr     *)
(* again for the counter, and each of the three may see another version of *)
(* the pool.  logging runs once, when the request is over.                 *)
(*                                                                         *)
(* Round robin, random and consistent hashing all pick a member of the     *)
(* current pool: which one is left open.                                   *)
(***************************************************************************)
EXTENDS RoutingState

CONSTANTS
  Requests,     \* the requests of a behaviour
  MaxAttempts   \* how often Pingora may call upstream_peer for one request

ASSUME ProxyAssumption ==
  /\ MaxAttempts \in Nat \ {0}
  /\ IsFiniteSet(Requests)

VARIABLE req    \* per request: its ProxyCtx and where it is

RequestState ==
  [pc : {"new", "picked", "named", "counting", "upstream", "refused", "done"},
   addr : Addrs \cup {None},                   \* ctx.backend_addr
   sni : Names \cup Addrs \cup {None},         \* ctx.sni_name
   found : Ids \cup {None},                    \* the item of the second lookup
   counter : Ids \cup {None},                  \* ctx.active_req_counter
   attempts : 1..MaxAttempts]

NewCtx == [pc |-> "new", addr |-> None, sni |-> None, found |-> None,
           counter |-> None, attempts |-> 1]

ProxyTypeOK ==
  /\ req \in [Requests -> RequestState]
  /\ \A r \in Requests : req[r].pc = "counting" => req[r].found \in Ids

ProxyInit == req = [r \in Requests |-> NewCtx]

\* Mutation: an attempt that follows another gives the counter back, but the
\* context keeps it.
SelectReleasing(r) ==
  /\ req[r].pc = "new"
  /\ \/ \E a \in lb : req' = [req EXCEPT ![r].pc = "picked", ![r].addr = a]
     \/ lb = {} /\ req' = [req EXCEPT ![r].pc = "refused"]
  /\ count' = IF req[r].counter = None THEN count
                ELSE [count EXCEPT ![req[r].counter] = @ - 1]
  /\ UNCHANGED <<items, byAddr, lb, nextId, now>>

\* select_backend: a member of the pool, or 503 when the pool is empty.
Select(r) ==
  /\ req[r].pc = "new"
  /\ \/ \E a \in lb : req' = [req EXCEPT ![r].pc = "picked", ![r].addr = a]
     \/ lb = {} /\ req' = [req EXCEPT ![r].pc = "refused"]
  /\ UNCHANGED shared

\* select_backend: the name by_addr has for the address, or the address.
LookupName(r) ==
  /\ req[r].pc = "picked"
  /\ LET entry == EntryAt(byAddr, req[r].addr)
     IN \/ \E i \in entry : req' = [req EXCEPT ![r].pc = "named", ![r].sni = i.sni]
        \/ entry = {} /\ req' = [req EXCEPT ![r].pc = "named", ![r].sni = req[r].addr]
  /\ UNCHANGED shared

\* Mutation: the counter is looked up by name.
LookupCounterByName(r) ==
  /\ req[r].pc = "named"
  /\ LET entry == {i \in byAddr : i.sni = req[r].sni}
     IN \/ \E i \in entry : req' = [req EXCEPT ![r].pc = "counting", ![r].found = i.id]
        \/ entry = {} /\ req' = [req EXCEPT ![r].pc = "upstream", ![r].found = None]
  /\ UNCHANGED shared

\* Mutation: the second lookup is expected to find what the first one found.
LookupCounterUnwrapped(r) ==
  /\ req[r].pc = "named"
  /\ LET entry == EntryAt(byAddr, req[r].addr)
     IN \/ \E i \in entry : req' = [req EXCEPT ![r].pc = "counting", ![r].found = i.id]
        \/ entry = {} /\ req' = [req EXCEPT ![r].pc = "counting", ![r].found = None]
  /\ UNCHANGED shared

\* upstream_peer: the second lookup, for the counter.
LookupCounter(r) ==
  /\ req[r].pc = "named"
  /\ LET entry == EntryAt(byAddr, req[r].addr)
     IN \/ \E i \in entry : req' = [req EXCEPT ![r].pc = "counting", ![r].found = i.id]
        \/ entry = {} /\ req' = [req EXCEPT ![r].pc = "upstream", ![r].found = None]
  /\ UNCHANGED shared

\* fetch_add; a counter left in ctx by an earlier attempt is overwritten.
CountUp(r) ==
  /\ req[r].pc = "counting"
  /\ count' = [count EXCEPT ![req[r].found] = @ + 1]
  /\ req' = [req EXCEPT ![r].pc = "upstream", ![r].counter = req[r].found]
  /\ UNCHANGED <<items, byAddr, lb, nextId, now>>

\* The framework gives up this upstream and asks upstream_peer for another.
Retry(r) ==
  /\ req[r].pc = "upstream"
  /\ req[r].attempts < MaxAttempts
  /\ req' = [req EXCEPT ![r].pc = "new", ![r].attempts = @ + 1]
  /\ UNCHANGED shared

\* Mutation: the counter is taken and not given back.
LoggingLeaks(r) ==
  /\ req[r].pc \in {"upstream", "refused"}
  /\ req' = [req EXCEPT ![r] = [NewCtx EXCEPT !.pc = "done"]]
  /\ UNCHANGED shared

\* logging, after the response or the error: take() and fetch_sub.
Logging(r) ==
  /\ req[r].pc \in {"upstream", "refused"}
  /\ count' = IF req[r].counter = None THEN count
                ELSE [count EXCEPT ![req[r].counter] = @ - 1]
  /\ req' = [req EXCEPT ![r] = [NewCtx EXCEPT !.pc = "done"]]
  /\ UNCHANGED <<items, byAddr, lb, nextId, now>>

RequestNext(r) == \/ Select(r) \/ LookupName(r) \/ LookupCounter(r)
                  \/ CountUp(r) \/ Retry(r) \/ Logging(r)
==============================================================================
