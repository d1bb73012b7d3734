--------------------------- MODULE EdgePoolProofs ---------------------------
(***************************************************************************)
(* Proofs about the edge address pool, for every set of connection indices *)
(* and every collection of address lists.                                  *)
(*                                                                         *)
(* The inductive invariant is TypeOK /\ Spread: NoDoubleUp alone is not    *)
(* inductive, because it says nothing of a list that is shorter than the   *)
(* number of connections, and because addrFor needs to know that a shared  *)
(* address means that no address is free.                                  *)
(***************************************************************************)
EXTENDS EdgePool, FiniteSetTheorems, FunctionTheorems, WellFoundedInduction, TLAPS

\* A non-empty set of positions of a list has a first one.
LEMMA FirstPosition ==
  ASSUME NEW T, T \subseteq Nat, T # {}
  PROVE  \E i \in T : \A j \in T : i <= j
<1>1. PICK i \in T : \A j \in T : <<j, i>> \notin OpToRel(<, Nat)
  BY NatLessThanWellFounded, WFMin
<1>2. \A j \in T : ~ (j < i)
  BY <1>1 DEF OpToRel
<1> QED  BY <1>2

(***************************************************************************)
(* What unusedAddrLocked returns: NoAddr exactly when every listed address *)
(* is held or excluded, otherwise a listed address that is neither.        *)
(***************************************************************************)
LEMMA UnusedAddr ==
  ASSUME NEW list \in Seq(Addr),
         NEW u \in [Conns -> Addr \cup {NoAddr}],
         NEW exclude
  PROVE  LET a == unusedAddrLocked(list, u, exclude) IN
         /\ a = NoAddr => \A x \in Listed(list) : x = exclude \/ \E c \in Conns : u[c] = x
         /\ a # NoAddr => /\ a \in Listed(list)
                          /\ a # exclude
                          /\ \A c \in Conns : u[c] # a
<1> DEFINE inUse == {u[c] : c \in Conns} \cup {exclude}
           free  == {i \in DOMAIN list : list[i] \notin inUse}
           first == CHOOSE i \in free : \A j \in free : i <= j
<1>1. DOMAIN list \subseteq Nat
  OBVIOUS
<1>2. CASE free = {}
  <2>1. unusedAddrLocked(list, u, exclude) = NoAddr
    BY <1>2 DEF unusedAddrLocked
  <2>2. \A i \in DOMAIN list : list[i] \in inUse
    BY <1>2
  <2> QED  BY <2>1, <2>2 DEF Listed
<1>3. CASE free # {}
  <2>1. first \in free
    BY <1>1, <1>3, FirstPosition
  <2>2. unusedAddrLocked(list, u, exclude) = list[first]
    BY <1>3 DEF unusedAddrLocked
  <2>3. list[first] \in Addr /\ list[first] # NoAddr
    BY <2>1, PoolAssumption
  <2> QED  BY <2>1, <2>2, <2>3 DEF Listed
<1> QED  BY <1>2, <1>3

-----------------------------------------------------------------------------
\* A list that TypeOK admits holds addresses only, so never NoAddr.
LEMMA ListedAreAddresses ==
  ASSUME NEW list \in Seq(Addr)
  PROVE  Listed(list) \subseteq Addr /\ NoAddr \notin Listed(list)
BY PoolAssumption DEF Listed

LEMMA AddrForTypeOK ==
  ASSUME TypeOK, NEW c \in Conns, addrFor(c)
  PROVE  TypeOK'
<1>1. /\ resolved' = TRUE
      /\ addrs' \in Seq(Addr) /\ addrs' # <<>>
      /\ Listed(addrs) \subseteq Listed(addrs')
  BY PoolAssumption DEF TypeOK, addrFor, ensureResolved, Listed
<1> DEFINE unused == unusedAddrLocked(addrs', usedBy, NoAddr)
           reused == addrs'[(c % Len(addrs')) + 1]
<1>2. usedBy \in [Conns -> Addr \cup {NoAddr}]
  BY ListedAreAddresses DEF TypeOK
<1>3. unused # NoAddr => unused \in Listed(addrs')
  BY <1>1, <1>2, UnusedAddr
<1>4. reused \in Listed(addrs')
  <2>1. c \in Nat /\ Len(addrs') \in Nat /\ Len(addrs') > 0
    BY <1>1, PoolAssumption
  <2>2. (c % Len(addrs')) + 1 \in 1..Len(addrs')
    BY <2>1
  <2> QED  BY <1>1, <2>2 DEF Listed
<1>5. usedBy' \in [Conns -> Listed(addrs') \cup {NoAddr}]
  BY <1>1, <1>3, <1>4 DEF TypeOK, addrFor
<1> QED  BY <1>1, <1>5 DEF TypeOK

LEMMA RotateTypeOK ==
  ASSUME TypeOK, NEW c \in Conns, rotate(c)
  PROVE  TypeOK'
<1> DEFINE released == [usedBy EXCEPT ![c] = NoAddr]
           unused   == unusedAddrLocked(addrs, released, usedBy[c])
<1>1. released \in [Conns -> Addr \cup {NoAddr}]
  BY ListedAreAddresses DEF TypeOK
<1>2. unused # NoAddr => unused \in Listed(addrs)
  BY <1>1, UnusedAddr DEF TypeOK
<1>3. usedBy' \in [Conns -> Listed(addrs) \cup {NoAddr}]
  BY <1>2 DEF TypeOK, rotate
<1> QED  BY <1>3 DEF TypeOK, rotate

(***************************************************************************)
(* Type correctness: every binding the pool makes names an address of the  *)
(* list it resolved, the modulo choice of addrFor included.                *)
(***************************************************************************)
THEOREM PoolTypeCorrect == Spec => []TypeOK
<1>1. Init => TypeOK
  <2> SUFFICES ASSUME Init PROVE TypeOK
    OBVIOUS
  <2>1. addrs \in Seq(Addr)
    BY DEF Init
  <2>2. resolved \in BOOLEAN /\ (resolved <=> addrs # <<>>)
    BY Zenon DEF Init
  <2>3. usedBy \in [Conns -> Listed(addrs) \cup {NoAddr}]
    BY DEF Init
  <2> QED  BY <2>1, <2>2, <2>3 DEF TypeOK
<1>2. TypeOK /\ [Next]_poolVars => TypeOK'
  <2> SUFFICES ASSUME TypeOK, [Next]_poolVars PROVE TypeOK'
    OBVIOUS
  <2>1. ASSUME NEW c \in Conns, addrForFails(c) PROVE TypeOK'
    BY <2>1 DEF TypeOK, addrForFails, poolVars
  <2>2. CASE UNCHANGED poolVars
    BY <2>2 DEF TypeOK, poolVars
  <2> QED  BY <2>1, <2>2, AddrForTypeOK, RotateTypeOK DEF Next
<1> QED  BY <1>1, <1>2, PTL DEF Spec

-----------------------------------------------------------------------------
(***************************************************************************)
(* addrFor keeps the connections spread: an address shared now means that  *)
(* no address was free, so all of them stay in use; and a free address is  *)
(* taken before any address is shared.                                     *)
(***************************************************************************)
LEMMA AddrForSpread ==
  ASSUME TypeOK, TypeOK', Spread, NEW c \in Conns, addrFor(c)
  PROVE  Spread'
<1> DEFINE unused == unusedAddrLocked(addrs', usedBy, NoAddr)
<1>1. usedBy \in [Conns -> Addr \cup {NoAddr}] /\ addrs' \in Seq(Addr)
  BY ListedAreAddresses DEF TypeOK
<1>2. CASE usedBy[c] # NoAddr
  <2>1. usedBy' = usedBy
    BY <1>2 DEF addrFor
  <2>2. resolved
    BY <1>2 DEF TypeOK, Listed
  <2>3. addrs' = addrs
    BY <2>2 DEF addrFor, ensureResolved
  <2> QED  BY <2>1, <2>3 DEF Spread, Distinct, InUse, Bound
<1>3. CASE usedBy[c] = NoAddr /\ unused # NoAddr
  <2>1. usedBy' = [usedBy EXCEPT ![c] = unused]
    BY <1>3 DEF addrFor
  <2>2. unused \in Listed(addrs') /\ \A d \in Conns : usedBy[d] # unused
    BY <1>1, <1>3, UnusedAddr
  <2>3. Distinct
    <3>1. CASE resolved
      <4>1. addrs' = addrs
        BY <3>1 DEF addrFor, ensureResolved
      <4> QED  BY <2>2, <4>1 DEF Spread, InUse, Bound
    <3>2. CASE ~ resolved
      BY <3>2 DEF TypeOK, Distinct, Bound, Listed
    <3> QED  BY <3>1, <3>2
  <2>4. Distinct'
    BY <1>1, <1>3, <2>1, <2>2, <2>3 DEF Distinct, Bound
  <2> QED  BY <2>4 DEF Spread
<1>4. CASE usedBy[c] = NoAddr /\ unused = NoAddr
  <2>1. \A x \in Listed(addrs') : x = NoAddr \/ \E d \in Conns : usedBy[d] = x
    BY <1>1, <1>4, UnusedAddr
  <2>2. \A x \in Listed(addrs') : x # NoAddr /\ \E d \in Conns : usedBy[d] = x
    BY <1>1, <2>1, ListedAreAddresses
  <2>3. \A d \in Conns : d # c => usedBy'[d] = usedBy[d]
    BY <1>1 DEF addrFor
  <2>4. \A x \in Listed(addrs') : x # NoAddr /\ \E d \in Conns : usedBy'[d] = x
    BY <1>4, <2>2, <2>3
  <2>5. InUse' = Listed(addrs')
    BY <2>4 DEF InUse, Bound, TypeOK
  <2> QED  BY <2>5 DEF Spread
<1> QED  BY <1>2, <1>3, <1>4

(***************************************************************************)
(* rotate keeps the connections spread: it moves to an address nobody      *)
(* holds, or back to the one it released.                                  *)
(***************************************************************************)
LEMMA RotateSpread ==
  ASSUME TypeOK, TypeOK', Spread, NEW c \in Conns, rotate(c)
  PROVE  Spread'
<1> DEFINE old      == usedBy[c]
           released == [usedBy EXCEPT ![c] = NoAddr]
           unused   == unusedAddrLocked(addrs, released, old)
<1>1. /\ released \in [Conns -> Addr \cup {NoAddr}]
      /\ usedBy \in [Conns -> Addr \cup {NoAddr}]
      /\ addrs' = addrs /\ addrs \in Seq(Addr)
  BY ListedAreAddresses DEF TypeOK, rotate
<1>2. CASE ~ resolved \/ unused = NoAddr
  <2>1. usedBy' = usedBy
    BY <1>1, <1>2 DEF rotate
  <2> QED  BY <1>1, <2>1 DEF Spread, Distinct, InUse, Bound
<1>3. CASE resolved /\ unused # NoAddr
  <2>1. usedBy' = [usedBy EXCEPT ![c] = unused]
    BY <1>3 DEF rotate
  <2>2. /\ unused \in Listed(addrs)
        /\ \A d \in Conns : released[d] # unused
    <3> HIDE DEF released
    <3> QED  BY <1>1, <1>3, UnusedAddr
  <2>6. unused # old
    <3> HIDE DEF released, old
    <3> QED  BY <1>1, <1>3, UnusedAddr
  <2>3. \A d \in Conns : usedBy[d] # unused
    BY <1>1, <2>2, <2>6
  <2>4. Distinct
    BY <2>2, <2>3 DEF Spread, InUse, Bound
  <2>5. Distinct'
    BY <1>1, <1>3, <2>1, <2>3, <2>4 DEF Distinct, Bound
  <2> QED  BY <2>5 DEF Spread
<1> QED  BY <1>2, <1>3

(***************************************************************************)
(* Spread holds of every pool: no sequence of addrFor and rotate calls     *)
(* doubles up on a server while another server of the list is free.        *)
(***************************************************************************)
THEOREM PoolSpread == Spec => []Spread
<1>1. Init => Spread
  BY DEF Init, Spread, Distinct, Bound
<1>2. TypeOK /\ TypeOK' /\ Spread /\ [Next]_poolVars => Spread'
  <2> SUFFICES ASSUME TypeOK, TypeOK', Spread, [Next]_poolVars PROVE Spread'
    OBVIOUS
  <2>1. ASSUME NEW c \in Conns, addrForFails(c) PROVE Spread'
    BY <2>1 DEF Spread, Distinct, InUse, Bound, addrForFails, poolVars
  <2>2. CASE UNCHANGED poolVars
    BY <2>2 DEF Spread, Distinct, InUse, Bound, poolVars
  <2> QED  BY <2>1, <2>2, AddrForSpread, RotateSpread DEF Next
<1> QED  BY <1>1, <1>2, PoolTypeCorrect, PTL DEF Spec

(***************************************************************************)
(* Counting: if every listed address is held and there are at least as     *)
(* many addresses as connection indices, no address is held twice.         *)
(***************************************************************************)
LEMMA EnoughAddressesAreDistinct ==
  ASSUME TypeOK, Spread PROVE NoDoubleUp
<1> SUFFICES ASSUME Cardinality(Conns) <= Cardinality(Listed(addrs)),
                    InUse = Listed(addrs)
             PROVE  Distinct
  BY DEF NoDoubleUp, Spread
<1> DEFINE f == [c \in Bound |-> usedBy[c]]
<1>1. IsFiniteSet(Bound) /\ Cardinality(Bound) <= Cardinality(Conns)
  BY PoolAssumption, FS_Subset DEF Bound
<1>2. f \in Surjection(Bound, InUse)
  BY Fun_IsSurj DEF InUse
<1>3. /\ IsFiniteSet(InUse)
      /\ Cardinality(InUse) <= Cardinality(Bound)
      /\ Cardinality(InUse) = Cardinality(Bound) => f \in Injection(Bound, InUse)
  BY <1>1, <1>2, FS_Surjection
<1>4. Cardinality(InUse) = Cardinality(Bound)
  <2>1. /\ Cardinality(InUse) \in Nat
        /\ Cardinality(Bound) \in Nat
        /\ Cardinality(Conns) \in Nat
    BY <1>1, <1>3, PoolAssumption, FS_CardinalityType
  <2> QED  BY <1>1, <1>3, <2>1
<1>5. \A c, d \in Bound : f[c] = f[d] => c = d
  BY <1>3, <1>4, Fun_InjectionProperties
<1> QED  BY <1>5 DEF Distinct

(***************************************************************************)
(* With at least as many distinct edge addresses as HA connections, no two *)
(* connections are ever bound to the same edge server.                     *)
(***************************************************************************)
THEOREM PoolNoDoubleUp == Spec => []NoDoubleUp
BY PoolTypeCorrect, PoolSpread, EnoughAddressesAreDistinct, PTL

(***************************************************************************)
(* A bound connection index stays bound, through every addrFor and rotate. *)
(***************************************************************************)
THEOREM PoolKeepsAnAddress == Spec => KeepsAnAddress
<1>1. ASSUME TypeOK, TypeOK', [Next]_poolVars PROVE [Bound \subseteq Bound']_poolVars
  <2>1. ASSUME NEW c \in Conns, addrFor(c) PROVE Bound \subseteq Bound'
    <3>1. \A d \in Conns : usedBy[d] # NoAddr => usedBy'[d] = usedBy[d]
      BY <1>1, <2>1 DEF TypeOK, addrFor
    <3> QED  BY <3>1 DEF Bound
  <2>2. ASSUME NEW c \in Conns, rotate(c) PROVE Bound \subseteq Bound'
    <3>1. \A d \in Conns : usedBy[d] # NoAddr => usedBy'[d] # NoAddr
      BY <1>1, <2>2 DEF TypeOK, rotate
    <3> QED  BY <3>1 DEF Bound
  <2>3. ASSUME NEW c \in Conns, addrForFails(c) PROVE Bound \subseteq Bound'
    BY <2>3 DEF addrForFails, poolVars, Bound
  <2> QED  BY <1>1, <2>1, <2>2, <2>3 DEF Next
<1> QED  BY <1>1, PoolTypeCorrect, PTL DEF Spec, KeepsAnAddress

=============================================================================
