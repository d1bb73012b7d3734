------------------------- MODULE QuickTunnelClient --------------------------
(***************************************************************************)
(* CreateQuickTunnel: one POST per attempt, a retry after a rate limit     *)
(* only, with a backoff that the context interrupts.  The service is       *)
(* external: an answer may be lost, cut off or replaced by a gateway's     *)
(* error after the tunnel was created, but a rate limit is answered        *)
(* before one is.  Nothing deletes a tunnel that was created.              *)
(***************************************************************************)
EXTENDS Integers

CONSTANT Backoffs   \* length of retryBackoffs, 2 by default

ASSUME BackoffsAssumption == Backoffs \in Nat

VARIABLES
  ctxDone,          \* the context of the tunnel is cancelled
  client,           \* "idle", "request", "backoff" or the result
  attempt,          \* the loop variable
  created           \* tunnels the service has created for this process

clientVars == <<client, attempt, created>>

ClientResults == {"reserved", "rateLimited", "canceled", "error"}

ClientInit == client = "idle" /\ attempt = 0 /\ created = 0

CreateQuickTunnel ==
  /\ client = "idle"
  /\ client' = "request" /\ attempt' = 0
  /\ UNCHANGED created

(* The loop returns the error, or waits for the next attempt.              *)
RetryOrReturn_Always(result) ==
  /\ client' = IF attempt = Backoffs THEN result ELSE "backoff"
  /\ UNCHANGED attempt

(* Only a rate limit is tried again.                                       *)
RetryOrReturn(result) ==
  /\ client' = IF result # "rateLimited" \/ attempt = Backoffs
               THEN result ELSE "backoff"
  /\ UNCHANGED attempt

MaybeCreated == created' \in {created, created + 1}

(* createQuickTunnelOnce: a context that is done keeps Do from sending.    *)
SendRequest ==
  /\ client = "request"
  /\ \/ ~ctxDone /\ client' = "sent" /\ UNCHANGED attempt
     \/ ctxDone /\ RetryOrReturn("canceled")
  /\ UNCHANGED created

(* Do or the reading of the body fails: the network, the timeout of the    *)
(* client, or the context.                                                 *)
NoAnswer ==
  /\ client = "sent"
  /\ RetryOrReturn(IF ctxDone THEN "canceled" ELSE "error")
  /\ MaybeCreated

(* Status 429, or "error code: 1015" in the body, whatever the status.     *)
RateLimited ==
  /\ client = "sent"
  /\ RetryOrReturn("rateLimited")
  /\ UNCHANGED created

(* Another status, a body that does not decode, success = false, an empty  *)
(* id, hostname, account or secret, or an id that is no UUID.              *)
AnswerRejected ==
  /\ client = "sent"
  /\ RetryOrReturn("error")
  /\ MaybeCreated

Reserved ==
  /\ client = "sent"
  /\ client' = "reserved" /\ created' = created + 1
  /\ UNCHANGED attempt

Backoff_SameAttempt ==
  /\ client = "backoff"
  /\ \/ ctxDone /\ client' = "canceled"
     \/ client' = "request"
  /\ UNCHANGED <<attempt, created>>

(* select: the context is done, or the timer fires.                        *)
Backoff ==
  /\ client = "backoff"
  /\ \/ ctxDone /\ client' = "canceled" /\ UNCHANGED attempt
     \/ client' = "request" /\ attempt' = attempt + 1
  /\ UNCHANGED created

ClientStep ==
  \/ SendRequest \/ NoAnswer \/ RateLimited \/ AnswerRejected \/ Reserved
  \/ Backoff
=============================================================================
