-------------------------- MODULE MCQUICConnection --------------------------
(***************************************************************************)
(* QUICConnection with one stream that may carry any kind of request.      *)
(* Streams share nothing but the connection, on which they have no effect, *)
(* so that a second stream adds interleavings and no new behaviour.        *)
(***************************************************************************)
EXTENDS QUICConnection

CONSTANT s1

MCStreams == {s1}
AllOffers == [s \in MCStreams |-> Kinds]
=============================================================================
