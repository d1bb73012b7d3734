------------------------------ MODULE EdgePool ------------------------------
(***************************************************************************)
(* The shared edge address pool (internal/cftunnel/runtime/edge_pool.go).  *)
(*                                                                         *)
(* The pool resolves the edge address list once, lazily, and binds each HA *)
(* connection index to one address.  Every operation runs under the pool's *)
(* mutex, so each is one atomic action here.                               *)
(***************************************************************************)
EXTENDS Integers, Sequences, FiniteSets

CONSTANTS Conns,      \* the HA connection indices (uint8)
          Addr,       \* the edge addresses DNS may name
          NoAddr,     \* the nil address
          AddrLists   \* the lists a successful resolution may return

ASSUME PoolAssumption ==
  /\ Conns \subseteq 0..255
  /\ IsFiniteSet(Conns)
  /\ NoAddr \notin Addr
  /\ \A l \in AddrLists : l \in Seq(Addr) /\ l # <<>>

VARIABLES addrs,      \* the resolved list, <<>> before resolution
          resolved,   \* whether resolution has succeeded
          usedBy      \* the address each connection index holds, or NoAddr

poolVars == <<addrs, resolved, usedBy>>

-----------------------------------------------------------------------------
\* The distinct addresses of a list: it may name one address several times.
Listed(list) == {list[i] : i \in DOMAIN list}

\* The connection indices that hold an address, and the addresses held.
Bound == {c \in Conns : usedBy[c] # NoAddr}
InUse == {usedBy[c] : c \in Bound}

\* (mutants: the addresses in use, or the excluded one, are not skipped)
unusedAddrLocked_IgnoresUse(list, u, exclude) ==
  LET free == {i \in DOMAIN list : list[i] # exclude}
  IN  IF free = {} THEN NoAddr
                   ELSE list[CHOOSE i \in free : \A j \in free : i <= j]

unusedAddrLocked_NoExclude(list, u, exclude) ==
  LET free == {i \in DOMAIN list : list[i] \notin {u[c] : c \in Conns}}
  IN  IF free = {} THEN NoAddr
                   ELSE list[CHOOSE i \in free : \A j \in free : i <= j]

(***************************************************************************)
(* unusedAddrLocked: the first address of the list that no connection      *)
(* index holds under the bindings u and that is not exclude; NoAddr when   *)
(* there is none.                                                          *)
(***************************************************************************)
unusedAddrLocked(list, u, exclude) ==
  LET inUse == {u[c] : c \in Conns} \cup {exclude}
      free  == {i \in DOMAIN list : list[i] \notin inUse}
  IN  IF free = {} THEN NoAddr
                   ELSE list[CHOOSE i \in free : \A j \in free : i <= j]

-----------------------------------------------------------------------------
Init ==
  /\ addrs = <<>>
  /\ resolved = FALSE
  /\ usedBy = [c \in Conns |-> NoAddr]

\* (mutant: a success is not remembered)
ensureResolved_NotKept ==
  /\ addrs' \in AddrLists
  /\ UNCHANGED resolved

\* ensureResolved, when it succeeds: the first success is kept for good.
ensureResolved ==
  IF resolved
  THEN UNCHANGED <<addrs, resolved>>
  ELSE /\ addrs' \in AddrLists
       /\ resolved' = TRUE

\* addrFor, when the list is or can be resolved: sticky, then an unused
\* address, then the modulo choice.
addrFor(c) ==
  /\ ensureResolved
  /\ LET unused == unusedAddrLocked(addrs', usedBy, NoAddr)
         reused == addrs'[(c % Len(addrs')) + 1]
     IN  usedBy' = IF usedBy[c] # NoAddr THEN usedBy
                   ELSE [usedBy EXCEPT ![c] =
                           IF unused # NoAddr THEN unused ELSE reused]

\* addrFor, when resolution fails: nothing is remembered, so the next call
\* resolves again.
addrForFails(c) ==
  /\ ~ resolved
  /\ UNCHANGED poolVars

\* (mutant: the released address is not taken back)
rotate_NoFallback(c) ==
  /\ LET released == [usedBy EXCEPT ![c] = NoAddr]
         unused   == unusedAddrLocked(addrs, released, usedBy[c])
     IN  usedBy' = IF ~ resolved THEN usedBy ELSE [usedBy EXCEPT ![c] = unused]
  /\ UNCHANGED <<addrs, resolved>>

\* rotate: release the address, bind a different unused one, or take the
\* released one back.
rotate(c) ==
  /\ LET old      == usedBy[c]
         released == [usedBy EXCEPT ![c] = NoAddr]
         unused   == unusedAddrLocked(addrs, released, old)
     IN  usedBy' = IF ~ resolved THEN usedBy
                   ELSE [usedBy EXCEPT ![c] =
                           IF unused # NoAddr THEN unused ELSE old]
  /\ UNCHANGED <<addrs, resolved>>

Next == \E c \in Conns : addrFor(c) \/ addrForFails(c) \/ rotate(c)

Spec == Init /\ [][Next]_poolVars

-----------------------------------------------------------------------------
(***************************************************************************)
(* Type invariant.  A binding always names an address of the list that is  *)
(* resolved now, and the list is empty exactly until it is resolved.       *)
(***************************************************************************)
TypeOK ==
  /\ resolved \in BOOLEAN
  /\ addrs \in Seq(Addr)
  /\ resolved <=> addrs # <<>>
  /\ usedBy \in [Conns -> Listed(addrs) \cup {NoAddr}]

\* No two connection indices hold the same address.
Distinct == \A c, d \in Bound : usedBy[c] = usedBy[d] => c = d

(***************************************************************************)
(* addrFor and rotate spread the connections as widely as the list allows: *)
(* two connections share an edge server only while every server of the     *)
(* list is in use, whatever the order of calls.                            *)
(***************************************************************************)
Spread == Distinct \/ InUse = Listed(addrs)

(***************************************************************************)
(* The promise in the comment of edgeAddressPool: with at least as many    *)
(* distinct addresses as connections, each connection index is bound to a  *)
(* server of its own (a second one on the same server gets EDUPCONN).      *)
(***************************************************************************)
NoDoubleUp == Cardinality(Conns) <= Cardinality(Listed(addrs)) => Distinct

(***************************************************************************)
(* A connection index that holds an address never ends up without one:     *)
(* rotate takes the released address back when there is no other.          *)
(***************************************************************************)
KeepsAnAddress == [][Bound \subseteq Bound']_poolVars
=============================================================================
