--------------------------- MODULE BridgeContract ---------------------------
(***************************************************************************)
(* What BridgeRunner.Run promises the tunnel that calls it, without the    *)
(* retries, the channels and the address pool: the first connection comes  *)
(* first, the others only after it has registered, and Run returns, once,  *)
(* when every connection is closed.  The ready signal is not ordered after *)
(* anything: a control stream may deliver it late, even after Run has      *)
(* returned.                                                               *)
(***************************************************************************)
EXTENDS Naturals

CONSTANT Conns

VARIABLES open,      \* the connections that are being dialled or served
          ready,     \* the readiness fuse has been called
          outcome    \* "running", or what Run returned

vars == <<open, ready, outcome>>

Init ==
  /\ open = {}
  /\ ready = FALSE
  /\ outcome = "running"

Open(c) ==
  /\ outcome = "running"
  /\ c \notin open
  /\ c # 0 => ready
  /\ open' = open \cup {c}
  /\ UNCHANGED <<ready, outcome>>

Close(c) ==
  /\ c \in open
  /\ open' = open \ {c}
  /\ UNCHANGED <<ready, outcome>>

Connected ==
  /\ ready' = TRUE
  /\ UNCHANGED <<open, outcome>>

Return(r) ==
  /\ outcome = "running"
  /\ open = {}
  /\ outcome' = r
  /\ UNCHANGED <<open, ready>>

Next ==
  \/ \E c \in Conns : Open(c) \/ Close(c)
  \/ Connected
  \/ \E r \in {"nil", "ctx", "build", "exhausted"} : Return(r)

Spec == Init /\ [][Next]_vars
=============================================================================
