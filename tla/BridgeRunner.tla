---------------------------- MODULE BridgeRunner ----------------------------
(***************************************************************************)
(* BridgeRunner.Run (internal/cftunnel/runtime/runner.go): the supervisor  *)
(* of one tunnel's HA connections.                                         *)
(*                                                                         *)
(* Processes: the goroutine that called Run ("main"), one goroutine per    *)
(* connection index running runConnectionWithRetry, and the goroutine of   *)
(* each control stream, which calls the ConnectedFuse after the edge has   *)
(* accepted the registration.  They share two contexts, the channels       *)
(* firstConnected, firstResult and errCh, a WaitGroup and the edge address *)
(* pool.  The edge and the network are the environment: any dial may fail, *)
(* any connection may be lost at any time.                                 *)
(***************************************************************************)
EXTENDS Integers, Sequences, FiniteSets

CONSTANTS HAConnections,    \* the values of ha_connections in a session
          maxHAConnections, \* 256 in the code
          MaxRetries,       \* maxConnRetries
          Protocol,         \* "http2" or "quic"
          InstanceReturns,  \* what instance.Run may return by itself
          Addr, NoAddr, AddrLists

ASSUME BridgeAssumption ==
  /\ HAConnections \subseteq Int
  /\ maxHAConnections \in 1..256
  /\ MaxRetries \in Nat
  /\ Protocol \in {"http2", "quic"}
  /\ InstanceReturns \subseteq {"nil", "edge"}
  /\ NoAddr \notin Addr
  /\ \A l \in AddrLists : l \in Seq(Addr) /\ l # <<>>

normalizeHAConnections(h) ==
  IF h < 1 THEN 1 ELSE IF h > maxHAConnections THEN maxHAConnections ELSE h

Conns == 0..(maxHAConnections - 1)

VARIABLES
  n,               \* haConnections, the number of connections of this Run
  ctxDone,         \* the caller's context is cancelled
  cancelled,       \* main has called cancel() on the group context
  mainPc,          \* where main is
  next,            \* the connection index main starts next
  ret,             \* what main returns, or will return once drained
  preferCtx,       \* whether main replaces ret by ctx.Err() when it is set
  firstConnected,  \* the channel is closed
  firstResult,     \* the content of the channel, "empty" when there is none
  errCh,           \* the same, for the error channel
  ready,           \* the tunnel's readiness fuse has been called
  pc,              \* where each connection goroutine is
  attempts,        \* its retry counter
  tracker,         \* the connected flag of the attempt's connectTrackingFuse
  runErr,          \* what the attempt that just ended returned
  result,          \* what runConnectionWithRetry returned
  dialled,         \* the address the current attempt was built with
  fuse,            \* where the attempt's control stream is in Connected()
  late,            \* where those of its earlier attempts are in theirs
  registered,      \* history: the edge has accepted the connection being served
  streak,          \* history: attempts ended since one that was accepted
  addrs, resolved, usedBy

mainVars == <<mainPc, next, ret, preferCtx, cancelled>>
chanVars == <<firstConnected, firstResult, errCh>>
loopVars == <<pc, attempts, runErr, result, dialled, streak>>
fuseVars == <<tracker, fuse, late, registered, ready>>
poolVars == <<addrs, resolved, usedBy>>
vars == <<n, ctxDone, mainVars, chanVars, loopVars, fuseVars, poolVars>>

Pool == INSTANCE EdgePool

\* groupCtx is a child of the caller's context.
groupDone == ctxDone \/ cancelled

\* Only the first of several connections reports to the readiness fuse and
\* to firstConnected: Run passes nil to every other one, and to the only one.
hasDelegate(c) == n > 1 /\ c = 0

\* wg.Wait() returns, and done is closed.
allExited == \A c \in Conns : pc[c] \in {"idle", "exited"}

Failures == {"build", "exhausted"}

-----------------------------------------------------------------------------
Init ==
  /\ n \in {normalizeHAConnections(h) : h \in HAConnections}
  /\ ctxDone = FALSE
  /\ cancelled = FALSE
  /\ mainPc = "start"
  /\ next = 0
  /\ ret = "none"
  /\ preferCtx = FALSE
  /\ firstConnected = FALSE
  /\ firstResult = "empty"
  /\ errCh = "empty"
  /\ ready = FALSE
  /\ pc = [c \in Conns |-> "idle"]
  /\ attempts = [c \in Conns |-> 0]
  /\ tracker = [c \in Conns |-> FALSE]
  /\ runErr = [c \in Conns |-> "none"]
  /\ result = [c \in Conns |-> "none"]
  /\ dialled = [c \in Conns |-> NoAddr]
  /\ fuse = [c \in Conns |-> "none"]
  /\ late = [c \in Conns |-> {}]
  /\ registered = [c \in Conns |-> FALSE]
  /\ streak = [c \in Conns |-> 0]
  /\ Pool!Init

-----------------------------------------------------------------------------
(***************************************************************************)
(* Main.                                                                   *)
(***************************************************************************)
\* Start a connection goroutine: attempts = 0 and a fresh tracker.
spawn(c) == pc' = [pc EXCEPT ![c] = "resolve"]

\* (mutant: cancel() is forgotten)
drain_NoCancel(r, prefer) ==
  /\ mainPc' = "drain"
  /\ ret' = r
  /\ preferCtx' = prefer
  /\ UNCHANGED cancelled

\* cancel(); wg.Wait(); then return r, or ctx.Err() if preferred and set.
drain(r, prefer) ==
  /\ mainPc' = "drain"
  /\ cancelled' = TRUE
  /\ ret' = r
  /\ preferCtx' = prefer

\* Run, up to the first wait.
Run ==
  /\ mainPc = "start"
  /\ spawn(0)
  /\ next' = 1
  /\ mainPc' = IF n = 1 THEN "single" ELSE "first"
  /\ UNCHANGED <<n, ctxDone, cancelled, ret, preferCtx, chanVars, attempts, runErr,
                 result, dialled, streak, fuseVars, poolVars>>

\* ensureConnectorID fails.
RunNoConnectorID ==
  /\ mainPc = "start"
  /\ mainPc' = "returned"
  /\ ret' = "build"
  /\ UNCHANGED <<n, ctxDone, cancelled, next, preferCtx, chanVars, loopVars,
                 fuseVars, poolVars>>

\* One connection: Run is runConnectionWithRetry.
SingleReturn ==
  /\ mainPc = "single"
  /\ pc[0] = "exited"
  /\ mainPc' = "returned"
  /\ ret' = result[0]
  /\ UNCHANGED <<n, ctxDone, cancelled, next, preferCtx, chanVars, loopVars,
                 fuseVars, poolVars>>

\* The select on the first connection.
AwaitFirst ==
  /\ mainPc = "first"
  /\ \/ /\ ctxDone
        /\ drain("ctx", FALSE)
        /\ UNCHANGED firstResult
     \/ /\ firstResult # "empty"
        /\ drain(firstResult, TRUE)
        /\ firstResult' = "empty"
     \/ /\ firstConnected
        /\ mainPc' = "spawn"
        /\ UNCHANGED <<cancelled, ret, preferCtx, firstResult>>
  /\ UNCHANGED <<n, ctxDone, next, firstConnected, errCh, loopVars, fuseVars, poolVars>>

\* The body of the loop over the other connections.
StartConnection ==
  /\ mainPc = "spawn"
  /\ spawn(next)
  /\ next' = next + 1
  /\ mainPc' = IF next < n - 1 THEN "interval" ELSE "final"
  /\ UNCHANGED <<n, ctxDone, cancelled, ret, preferCtx, chanVars, attempts, runErr,
                 result, dialled, streak, fuseVars, poolVars>>

\* waitRegistrationInterval, and what its caller does with an error.
WaitRegistrationInterval ==
  /\ mainPc = "interval"
  /\ \/ /\ ctxDone
        /\ drain("ctx", FALSE)
        /\ UNCHANGED errCh
     \/ /\ errCh # "empty"
        /\ drain(errCh, FALSE)
        /\ errCh' = "empty"
     \/ /\ mainPc' = "spawn"
        /\ UNCHANGED <<cancelled, ret, preferCtx, errCh>>
  /\ UNCHANGED <<n, ctxDone, next, firstConnected, firstResult, loopVars, fuseVars, poolVars>>

\* The last select.  Several of its cases may be ready: Go picks any.
AwaitAll ==
  /\ mainPc = "final"
  /\ \/ /\ ctxDone
        /\ drain("ctx", FALSE)
        /\ UNCHANGED errCh
     \/ /\ errCh # "empty"
        /\ drain(errCh, TRUE)
        /\ errCh' = "empty"
     \/ /\ allExited
        /\ mainPc' = "returned"
        /\ ret' = "nil"
        /\ cancelled' = TRUE
        /\ UNCHANGED <<preferCtx, errCh>>
  /\ UNCHANGED <<n, ctxDone, next, firstConnected, firstResult, loopVars, fuseVars, poolVars>>

\* (mutants: return without waiting; ask the group context for its error)
Drain_NoWait ==
  /\ mainPc = "drain"
  /\ mainPc' = "returned"
  /\ ret' = IF preferCtx /\ ctxDone THEN "ctx" ELSE ret
  /\ UNCHANGED <<n, ctxDone, cancelled, next, preferCtx, chanVars, loopVars,
                 fuseVars, poolVars>>

Drain_GroupErr ==
  /\ mainPc = "drain"
  /\ allExited
  /\ mainPc' = "returned"
  /\ ret' = IF preferCtx /\ groupDone THEN "ctx" ELSE ret
  /\ UNCHANGED <<n, ctxDone, cancelled, next, preferCtx, chanVars, loopVars,
                 fuseVars, poolVars>>

Drain ==
  /\ mainPc = "drain"
  /\ allExited
  /\ mainPc' = "returned"
  /\ ret' = IF preferCtx /\ ctxDone THEN "ctx" ELSE ret
  /\ UNCHANGED <<n, ctxDone, cancelled, next, preferCtx, chanVars, loopVars,
                 fuseVars, poolVars>>

-----------------------------------------------------------------------------
(***************************************************************************)
(* A connection goroutine.                                                 *)
(***************************************************************************)
\* runConnectionWithRetry returns r; the goroutine around it passes r on.
finish(c, r) ==
  /\ result' = [result EXCEPT ![c] = r]
  /\ pc' = [pc EXCEPT ![c] = IF n = 1 THEN "exited"
                             ELSE IF c = 0 THEN "first" ELSE "errch"]

\* The attempt ends with e: back to the loop of runConnectionWithRetry.
endAttempt(c, e) ==
  /\ runErr' = [runErr EXCEPT ![c] = e]
  /\ pc' = [pc EXCEPT ![c] = "check"]
  /\ dialled' = [dialled EXCEPT ![c] = NoAddr]
  /\ streak' = [streak EXCEPT ![c] = IF registered[c] THEN 0 ELSE @ + 1]
  /\ registered' = [registered EXCEPT ![c] = FALSE]

\* A new attempt: the factory asks the pool for the address.
Resolve(c) ==
  /\ pc[c] = "resolve"
  /\ Pool!addrFor(c)
  /\ dialled' = [dialled EXCEPT ![c] = usedBy'[c]]
  /\ pc' = [pc EXCEPT ![c] = "dial"]
  /\ UNCHANGED <<n, ctxDone, mainVars, chanVars, attempts, runErr, result, streak, fuseVars>>

\* No address.  HTTP/2 (withDefaults) falls back to an in-memory pipe, which
\* nobody serves; QUIC fails to build.
ResolveFails(c) ==
  /\ pc[c] = "resolve"
  /\ Pool!addrForFails(c)
  /\ IF Protocol = "http2"
     THEN /\ pc' = [pc EXCEPT ![c] = "serve"]
          /\ UNCHANGED <<runErr, dialled, streak, registered>>
     ELSE endAttempt(c, "build")
  /\ UNCHANGED <<n, ctxDone, mainVars, chanVars, attempts, result, tracker, fuse,
                 late, ready>>

\* The factory dials, with a timeout and without the context.
Dial(c) ==
  /\ pc[c] = "dial"
  /\ pc' = [pc EXCEPT ![c] = "serve"]
  /\ UNCHANGED <<n, ctxDone, mainVars, chanVars, attempts, runErr, result, dialled,
                 streak, fuseVars, poolVars>>

\* ... and a dial error is an error of the factory: not retryable.
DialFails(c) ==
  /\ pc[c] = "dial"
  /\ endAttempt(c, "build")
  /\ UNCHANGED <<n, ctxDone, mainVars, chanVars, attempts, result, tracker, fuse,
                 late, ready, poolVars>>

\* The edge accepts the registration; the control stream will call
\* Connected().
Register(c) ==
  /\ pc[c] = "serve"
  /\ dialled[c] # NoAddr
  /\ ~ registered[c]
  /\ fuse[c] = "none"
  /\ registered' = [registered EXCEPT ![c] = TRUE]
  /\ fuse' = [fuse EXCEPT ![c] = "tracker"]
  /\ UNCHANGED <<n, ctxDone, mainVars, chanVars, loopVars, tracker, late, ready, poolVars>>

\* connectTrackingFuse.Connected
TrackerConnected(c) ==
  /\ fuse[c] = "tracker"
  /\ tracker' = [tracker EXCEPT ![c] = TRUE]
  /\ fuse' = [fuse EXCEPT ![c] = IF hasDelegate(c) THEN "delegate" ELSE "none"]
  /\ UNCHANGED <<n, ctxDone, mainVars, chanVars, loopVars, late, registered, ready,
                 poolVars>>

\* connectedSignalFuse.Connected: first the readiness fuse ...
DelegateConnected(c) ==
  /\ fuse[c] = "delegate"
  /\ ready' = TRUE
  /\ fuse' = [fuse EXCEPT ![c] = "signal"]
  /\ UNCHANGED <<n, ctxDone, mainVars, chanVars, loopVars, late, registered,
                 tracker, poolVars>>

\* ... then the channel.
SignalConnected(c) ==
  /\ fuse[c] = "signal"
  /\ firstConnected' = TRUE
  /\ fuse' = [fuse EXCEPT ![c] = "none"]
  /\ UNCHANGED <<n, ctxDone, mainVars, firstResult, errCh, loopVars, late,
                 registered, tracker, ready, poolVars>>

\* The same steps of a call that belongs to an earlier attempt: nobody reads
\* its tracker any more.  Several calls at one place are as good as one.
lateAfter(c, at) ==
  CASE at = "tracker" /\ hasDelegate(c) -> {"delegate"}
    [] at = "delegate"                  -> {"signal"}
    [] OTHER                            -> {}

LateConnected(c) ==
  \E at \in late[c] :
    /\ late' = [late EXCEPT ![c] = (@ \ {at}) \cup lateAfter(c, at)]
    /\ ready' = (ready \/ at = "delegate")
    /\ firstConnected' = (firstConnected \/ at = "signal")
    /\ UNCHANGED <<n, ctxDone, mainVars, firstResult, errCh, loopVars, fuse,
                   registered, tracker, poolVars>>

\* instance.Run returns by itself: the edge closed the connection, a pipe
\* gave up, or a graceful stop.  The QUIC runtime waits for its control
\* stream first, the HTTP/2 server does not wait for its handlers.
ServeReturns(c) ==
  /\ pc[c] = "serve"
  /\ Protocol = "quic" => fuse[c] = "none"
  /\ \E e \in InstanceReturns : endAttempt(c, e)
  /\ UNCHANGED <<n, ctxDone, mainVars, chanVars, attempts, result, tracker, fuse,
                 late, ready, poolVars>>

\* instance.Run returns because its context is cancelled.  Here it is the
\* HTTP/2 server that waits for its handlers, and QUIC that does not.
ServeCancelled(c) ==
  /\ pc[c] = "serve"
  /\ groupDone
  /\ Protocol = "http2" => fuse[c] = "none"
  /\ endAttempt(c, "ctx")
  /\ UNCHANGED <<n, ctxDone, mainVars, chanVars, attempts, result, tracker, fuse,
                 late, ready, poolVars>>

\* (mutants: no reset after a connection that served; one retry too many)
countFailure_NoReset(c) == attempts[c] + 1
exhausted_Lenient(failed) == failed > MaxRetries + 1

\* The retry budget: a connection that served resets the count.
countFailure(c) == (IF tracker[c] THEN 0 ELSE attempts[c]) + 1
exhausted(failed) == failed > MaxRetries

\* The retry loop after an attempt.  The attempt's error and its tracker are
\* not read again: a Connected() still under way comes late.
CheckAttempt(c) ==
  /\ pc[c] = "check"
  /\ \/ /\ groupDone
        /\ finish(c, "ctx")
        /\ UNCHANGED attempts
     \/ /\ ~ groupDone
        /\ runErr[c] \in {"nil", "build"}
        /\ finish(c, runErr[c])
        /\ UNCHANGED attempts
     \/ /\ ~ groupDone
        /\ runErr[c] = "edge"
        /\ attempts' = [attempts EXCEPT ![c] = countFailure(c)]
        /\ IF exhausted(countFailure(c))
           THEN finish(c, "exhausted")
           ELSE pc' = [pc EXCEPT ![c] = "rotate"] /\ UNCHANGED result
  /\ runErr' = [runErr EXCEPT ![c] = "none"]
  /\ tracker' = [tracker EXCEPT ![c] = FALSE]
  /\ late' = [late EXCEPT ![c] = @ \cup ({fuse[c]} \ {"none"})]
  /\ fuse' = [fuse EXCEPT ![c] = "none"]
  /\ UNCHANGED <<n, ctxDone, mainVars, chanVars, dialled, streak, registered, ready,
                 poolVars>>

RotateEdgeAddress(c) ==
  /\ pc[c] = "rotate"
  /\ Pool!rotate(c)
  /\ pc' = [pc EXCEPT ![c] = "backoff"]
  /\ UNCHANGED <<n, ctxDone, mainVars, chanVars, attempts, runErr, result, dialled,
                 streak, fuseVars>>

\* waitBackoff: the timer, or the context.
WaitBackoff(c) ==
  /\ pc[c] = "backoff"
  /\ \/ /\ pc' = [pc EXCEPT ![c] = "resolve"]
        /\ UNCHANGED result
     \/ /\ groupDone
        /\ finish(c, "ctx")
  /\ UNCHANGED <<n, ctxDone, mainVars, chanVars, attempts, runErr, dialled, streak,
                 fuseVars, poolVars>>

\* The first goroutine hands its result over (the buffer is free).
SendFirstResult(c) ==
  /\ pc[c] = "first"
  /\ firstResult' = result[c]
  /\ pc' = [pc EXCEPT ![c] = "errch"]
  /\ UNCHANGED <<n, ctxDone, mainVars, firstConnected, errCh, attempts, runErr,
                 result, dialled, streak, fuseVars, poolVars>>

\* (mutant: the send has no default case)
SendErr_Blocking(c) ==
  /\ pc[c] = "errch"
  /\ result[c] # "nil" => errCh = "empty"
  /\ errCh' = IF result[c] # "nil" THEN result[c] ELSE errCh
  /\ pc' = [pc EXCEPT ![c] = "exited"]
  /\ UNCHANGED <<n, ctxDone, mainVars, firstConnected, firstResult, attempts, runErr,
                 result, dialled, streak, fuseVars, poolVars>>

\* Every goroutine offers its error, a full channel drops it; the deferred
\* wg.Done() follows, and in between main could only wait for it.
SendErr(c) ==
  /\ pc[c] = "errch"
  /\ errCh' = IF result[c] # "nil" /\ errCh = "empty" THEN result[c] ELSE errCh
  /\ pc' = [pc EXCEPT ![c] = "exited"]
  /\ UNCHANGED <<n, ctxDone, mainVars, firstConnected, firstResult, attempts, runErr,
                 result, dialled, streak, fuseVars, poolVars>>

-----------------------------------------------------------------------------
\* The caller cancels its context.
CancelCtx ==
  /\ ~ ctxDone
  /\ mainPc # "returned"
  /\ ctxDone' = TRUE
  /\ UNCHANGED <<n, mainVars, chanVars, loopVars, fuseVars, poolVars>>

\* Run has returned and no goroutine has a step left.
Terminated ==
  /\ mainPc = "returned"
  /\ \A c \in Conns : fuse[c] = "none" /\ late[c] = {}
  /\ UNCHANGED vars

Main == \/ Run \/ RunNoConnectorID \/ SingleReturn \/ AwaitFirst \/ StartConnection
        \/ WaitRegistrationInterval \/ AwaitAll \/ Drain

\* What goroutine c does without the edge's or the network's help.
Loop(c) == \/ Resolve(c) \/ ResolveFails(c) \/ Dial(c) \/ DialFails(c)
           \/ ServeCancelled(c) \/ CheckAttempt(c) \/ RotateEdgeAddress(c)
           \/ WaitBackoff(c) \/ SendFirstResult(c) \/ SendErr(c)

Fuse(c) == TrackerConnected(c) \/ DelegateConnected(c) \/ SignalConnected(c)

Next ==
  \/ Main
  \/ \E c \in Conns :
       Loop(c) \/ Fuse(c) \/ LateConnected(c) \/ Register(c) \/ ServeReturns(c)
  \/ CancelCtx
  \/ Terminated

Spec == Init /\ [][Next]_vars

(***************************************************************************)
(* Goroutines are scheduled, dials and DNS lookups end (they have          *)
(* timeouts), timers fire.  The edge owes us nothing: no fairness for      *)
(* Register and ServeReturns.  A cancelled QUIC connection returns         *)
(* (QUICConnection's PartsEndTogether), and so does the pipe that nobody   *)
(* serves; a cancelled HTTP/2 connection closes only after its handlers,   *)
(* which may wait for the edge (HTTP2Connection's CancelStopsServe), so    *)
(* its ServeCancelled is not fair.                                         *)
(***************************************************************************)
Scheduled(c) ==
  /\ pc[c] = "serve" /\ dialled[c] # NoAddr => Protocol = "quic"
  /\ Loop(c)

FairSpec ==
  /\ Spec
  /\ WF_vars(Main)
  /\ \A c \in Conns : WF_vars(Scheduled(c)) /\ WF_vars(Fuse(c)) /\ WF_vars(LateConnected(c))

-----------------------------------------------------------------------------
Results == {"nil", "ctx", "build", "exhausted"}

TypeOK ==
  /\ ctxDone \in BOOLEAN /\ cancelled \in BOOLEAN /\ preferCtx \in BOOLEAN
  /\ firstConnected \in BOOLEAN /\ ready \in BOOLEAN
  /\ mainPc \in {"start", "single", "first", "spawn", "interval", "final", "drain", "returned"}
  /\ n \in 1..maxHAConnections
  /\ next \in 0..n
  /\ ret \in Results \cup {"none"}
  /\ firstResult \in Results \cup {"empty"}
  /\ errCh \in Results \cup {"empty"}
  /\ pc \in [Conns -> {"idle", "resolve", "dial", "serve", "check", "rotate",
                       "backoff", "first", "errch", "exited"}]
  /\ attempts \in [Conns -> 0..(MaxRetries + 1)]
  /\ tracker \in [Conns -> BOOLEAN]
  /\ runErr \in [Conns -> {"none", "nil", "build", "edge", "ctx"}]
  /\ result \in [Conns -> Results \cup {"none"}]
  /\ dialled \in [Conns -> Addr \cup {NoAddr}]
  /\ fuse \in [Conns -> {"none", "tracker", "delegate", "signal"}]
  /\ late \in [Conns -> SUBSET {"tracker", "delegate", "signal"}]
  /\ registered \in [Conns -> BOOLEAN]
  /\ streak \in [Conns -> Nat]

(***************************************************************************)
(* No two connections that are dialling or serving at the same time are on *)
(* the same edge server, when discovery found enough of them: whatever the *)
(* order of failures, rotations and reconnects (EDUPCONN otherwise).       *)
(***************************************************************************)
LiveConnectionsApart ==
  Cardinality(Pool!Listed(addrs)) >= n =>
    \A c, d \in Conns :
      c # d /\ dialled[c] # NoAddr => dialled[c] # dialled[d]

(***************************************************************************)
(* "gives up only after maxConnRetries consecutive failures without a      *)
(* successful connection" (runConnectionWithRetry): a connection that the  *)
(* edge accepted starts the count again.                                   *)
(***************************************************************************)
GivesUpOnlyAfterMaxRetries ==
  \A c \in Conns : result[c] = "exhausted" => streak[c] >= MaxRetries

(***************************************************************************)
(* Run never returns ctx.Err() of a context that nobody cancelled: its own *)
(* cancel() of the group context, which makes the other connections return *)
(* that error, must not mask the failure that caused it.                   *)
(***************************************************************************)
NoSpuriousCancel == mainPc = "returned" /\ ret = "ctx" => ctxDone

(***************************************************************************)
(* Once the registration of the first connection is accepted and its       *)
(* Connected() call has run, the tunnel is marked ready.                   *)
(***************************************************************************)
RegisteredMeansReady == registered[0] /\ fuse[0] = "none" => ready

(***************************************************************************)
(* "the error propagates and the process exits" (runConnectionWithRetry):  *)
(* when a connection has given up, Run does not return nil.                *)
(***************************************************************************)
FailureIsReturned ==
  mainPc = "returned" /\ ret = "nil" => \A c \in Conns : result[c] \notin Failures

(***************************************************************************)
(* "keeps a single HA connection alive across transient edge failures      *)
(* (..., dial errors)": no connection is given up before its retries.      *)
(***************************************************************************)
DialErrorsAreRetried ==
  \A c \in Conns : result[c] \in Failures => attempts[c] > MaxRetries

(***************************************************************************)
(* "Each attempt rotates to a different edge address": after a failure the *)
(* connection moves to another address whenever one is free.               *)
(***************************************************************************)
RetryMovesOn ==
  [][\A c \in Conns :
       /\ pc[c] = "rotate" /\ pc'[c] = "backoff"
       /\ usedBy[c] # NoAddr
       /\ Pool!Listed(addrs) \ Pool!InUse # {}
       => usedBy'[c] # usedBy[c]]_vars

\* Run is an implementation of what BridgeContract promises.
Contract == INSTANCE BridgeContract WITH
              open <- {c \in Conns : dialled[c] # NoAddr},
              outcome <- IF mainPc = "returned" THEN ret ELSE "running"

(***************************************************************************)
(* Run implements BridgeContract: no other connection is opened before the *)
(* first has reported ready, and Run returns only once, after every        *)
(* connection goroutine has closed its connection.                         *)
(***************************************************************************)
ImplementsContract == Contract!Spec

\* Run is told to stop, and an HTTP/2 connection does not come back.
ServesOn ==
  /\ Protocol = "http2" /\ groupDone
  /\ \E c \in Conns : pc[c] = "serve" /\ dialled[c] # NoAddr

(***************************************************************************)
(* A cancelled context ends Run, wherever its goroutines are, unless an    *)
(* HTTP/2 connection never comes back.                                     *)
(***************************************************************************)
CancelEndsRun == <>ctxDone => <>(mainPc = "returned") \/ <>[]ServesOn

(***************************************************************************)
(* A connection that gives up ends Run, and with it all other connections, *)
(* unless one of them is HTTP/2 and never comes back.                      *)
(***************************************************************************)
FailureEndsRun ==
  <>(\E c \in Conns : result[c] \in Failures) =>
    <>(mainPc = "returned") \/ <>[]ServesOn
=============================================================================
