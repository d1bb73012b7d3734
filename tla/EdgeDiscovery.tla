---------------------------- MODULE EdgeDiscovery ----------------------------
(***************************************************************************)
(* The DNS side of edge discovery: how CloudflareEdgeAddressProvider turns *)
(* SRV and host lookups into the ordered list of edge addresses that the   *)
(* address pool hands out.                                                 *)
(*                                                                         *)
(* A DNS answer is a record with fields srv and dot, each either           *)
(* LookupFailed or a sequence of regions (one per SRV record); a region is *)
(* LookupFailed or the sequence of addresses its target resolves to.  An   *)
(* address is a record with a field v4 that says whether it is IPv4.       *)
(***************************************************************************)
EXTENDS Naturals, Sequences, SequencesExt

CONSTANTS IPVersion,     \* "auto", "v4" or "v6"
          LookupFailed   \* the outcome of a failed lookup

\* edgeResolveMinRegions
MinRegions == 2

edgeIPMatchesVersion(ip) ==
  CASE IPVersion = "v4" -> ip.v4
    [] IPVersion = "v6" -> ~ ip.v4
    [] OTHER -> TRUE

resolveRecordAddrs(ips) == SelectSeq(ips, edgeIPMatchesVersion)

(***************************************************************************)
(* The whole list, or <<>> where the code returns an error: both SRV       *)
(* lookups fail, there are too few regions, one region does not resolve,   *)
(* or no address has the wanted IP version.  The code never returns an     *)
(* empty list without an error, so <<>> stands for nothing else.           *)
(***************************************************************************)
resolveAllAddrs(dns) ==
  LET records == IF dns.srv # LookupFailed THEN dns.srv ELSE dns.dot
  IN  IF \/ records = LookupFailed
         \/ Len(records) < MinRegions
         \/ \E i \in DOMAIN records : records[i] = LookupFailed
      THEN <<>>
      ELSE FlattenSeq([i \in DOMAIN records |-> resolveRecordAddrs(records[i])])
=============================================================================
