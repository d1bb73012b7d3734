------------------------- MODULE MCHTTP2Connection -------------------------
(***************************************************************************)
(* HTTP2Connection with two streams: the control stream, which every       *)
(* connection has and which waits for the end of the context, and one of   *)
(* any other type.                                                         *)
(***************************************************************************)
EXTENDS HTTP2Connection

CONSTANTS s1, s2

MCStreams == {s1, s2}
MCOffers ==
  [s \in MCStreams |-> IF s = s1 THEN {"control"} ELSE Types \ {"control"}]

\* The control stream and one TCP stream.
TCPOffers ==
  [s \in MCStreams |-> IF s = s1 THEN {"control"} ELSE {"tcp"}]
=============================================================================
