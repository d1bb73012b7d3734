----------------------------- MODULE MCEdgePool -----------------------------
(***************************************************************************)
(* EdgePool for TLC, with the address lists that edge discovery computes   *)
(* from a few DNS answers: regions that share an address, a region without *)
(* a usable address, a failed SRV lookup with and without a fallback, too  *)
(* few regions.                                                            *)
(***************************************************************************)
EXTENDS EdgePool, TLC

CONSTANTS IPVersion, LookupFailed

D == INSTANCE EdgeDiscovery

ip(n) == [id |-> n, v4 |-> TRUE]
ip6(n) == [id |-> n, v4 |-> FALSE]

MCConns == 0..3
MCAddr == {ip(1), ip(2), ip(3), ip(4), ip6(5)}

MCAnswers ==
  { [srv |-> <<<<ip(1), ip(2)>>, <<ip(3), ip(4)>>>>, dot |-> LookupFailed],
    [srv |-> <<<<ip(1), ip(2)>>, <<ip(2), ip(3), ip6(5)>>>>, dot |-> LookupFailed],
    [srv |-> LookupFailed, dot |-> <<<<ip(2)>>, <<ip6(5), ip(1)>>, <<ip(1)>>>>],
    [srv |-> <<<<ip(4)>>, <<ip6(5)>>>>, dot |-> LookupFailed],
    [srv |-> <<<<ip(1)>>>>, dot |-> LookupFailed],
    [srv |-> <<<<ip(1)>>, LookupFailed>>, dot |-> <<<<ip(1)>>, <<ip(3)>>>>],
    [srv |-> LookupFailed, dot |-> LookupFailed] }

MCAddrLists == {D!resolveAllAddrs(a) : a \in MCAnswers} \ {<<>>}
=============================================================================
