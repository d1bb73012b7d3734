---------------------------- MODULE TunnelGroup ----------------------------
(***************************************************************************)
(* Several tunnels in one process: MultiRunner.Run                         *)
(* (internal/cftunnel/multi_runner.go), the Runner.Run of each tunnel and  *)
(* its tunnelReadiness (internal/cftunnel/runner.go), and the readiness    *)
(* that /ready reports.                                                    *)
(*                                                                         *)
(* Processes: the goroutine of MultiRunner.Run ("main"), one goroutine per *)
(* tunnel, and the control stream of the tunnel's first connection, which  *)
(* calls tunnelReadiness.Connected().  tunnelReadiness.set is not atomic:  *)
(* the status changes under its lock, the callback into MultiRunner.state  *)
(* follows after the unlock.  The bridge in between is BridgeContract: it  *)
(* may call Connected() any number of times, the last time even after it   *)
(* has returned.                                                           *)
(***************************************************************************)
EXTENDS Naturals

CONSTANT K    \* the number of tunnels, started in order

ASSUME GroupAssumption == K \in Nat \ {0}

Tunnels == 1..K

VARIABLES
  ctxDone,     \* the context of Run is cancelled
  cancelled,   \* cancel() of the group context has been called
  mainPc,      \* where Run is
  next,        \* the next tunnel to start
  runErrs,     \* the tunnels in runErrs
  ret,         \* what Run returns
  pc,          \* where each tunnel's goroutine is
  err,         \* what Runner.Run returns, see below
  fuse,        \* where the tunnel's control stream is in Connected()
  readiness,   \* tunnelReadiness.status
  calling,     \* the status the tunnel's goroutine passes to the callback
  state,       \* MultiRunner.state
  connected    \* history: the edge has accepted a registration

(***************************************************************************)
(* What Runner.Run may return: nil; "error"; "canceled", the error of a    *)
(* context that is done; and "aborted", a failure of the tunnel whose      *)
(* error wraps context.Canceled although nobody cancelled anything.  The   *)
(* HTTP/2 server cancels the context of every request when the edge closes *)
(* the connection, ServeControlStream returns that context's error, Serve  *)
(* and runConnectionWithRetry pass it on (%w).                             *)
(***************************************************************************)
RunErrors == {"nil", "error", "canceled", "aborted"}

\* errors.Is(err, context.Canceled)
isCanceled(e) == e \in {"canceled", "aborted"}

mainVars == <<mainPc, next, ret>>
vars == <<ctxDone, cancelled, mainVars, runErrs, pc, err, fuse, readiness,
          calling, state, connected>>

groupDone == ctxDone \/ cancelled

Init ==
  /\ ctxDone = FALSE
  /\ cancelled = FALSE
  /\ mainPc = "start"
  /\ next = 1
  /\ runErrs = {}
  /\ ret = "none"
  /\ pc = [t \in Tunnels |-> "idle"]
  /\ err = [t \in Tunnels |-> "none"]
  /\ fuse = [t \in Tunnels |-> "none"]
  /\ readiness = [t \in Tunnels |-> "pending"]
  /\ calling = [t \in Tunnels |-> "none"]
  /\ state = [t \in Tunnels |-> "pending"]
  /\ connected = [t \in Tunnels |-> FALSE]

-----------------------------------------------------------------------------
(***************************************************************************)
(* MultiRunner.Run.                                                        *)
(***************************************************************************)
\* (mutant: the bound of the loop is off by one)
StartTunnel_OneMore ==
  /\ mainPc = "start"
  /\ state' = [state EXCEPT ![next] = "starting"]
  /\ pc' = [pc EXCEPT ![next] = "run"]
  /\ next' = next + 1
  /\ mainPc' = IF next <= K THEN "interval" ELSE "wait"
  /\ UNCHANGED <<ctxDone, cancelled, ret, runErrs, err, fuse, readiness, calling,
                 connected>>

\* The body of the loop: setState, wg.Add, go.
StartTunnel ==
  /\ mainPc = "start"
  /\ state' = [state EXCEPT ![next] = "starting"]
  /\ pc' = [pc EXCEPT ![next] = "run"]
  /\ next' = next + 1
  /\ mainPc' = IF next < K THEN "interval" ELSE "wait"
  /\ UNCHANGED <<ctxDone, cancelled, ret, runErrs, err, fuse, readiness, calling,
                 connected>>

\* (mutant: a done context is reported, and the loop forgets to break)
WaitForStartInterval_NoBreak ==
  /\ mainPc = "interval"
  /\ \/ ~ groupDone /\ mainPc' = "start"
     \/ groupDone /\ UNCHANGED mainPc
  /\ UNCHANGED <<ctxDone, cancelled, next, ret, runErrs, pc, err, fuse, readiness,
                 calling, state, connected>>

\* waitForStartInterval: the timer, or the context, which ends the loop.
WaitForStartInterval ==
  /\ mainPc = "interval"
  /\ \/ mainPc' = "start"
     \/ groupDone /\ mainPc' = "wait"
  /\ UNCHANGED <<ctxDone, cancelled, next, ret, runErrs, pc, err, fuse, readiness,
                 calling, state, connected>>

\* (mutant: no wg.Wait)
Return_NoWait ==
  /\ mainPc = "wait"
  /\ mainPc' = "returned"
  /\ ret' = IF runErrs = {} THEN "nil" ELSE "error"
  /\ UNCHANGED <<ctxDone, cancelled, next, runErrs, pc, err, fuse, readiness,
                 calling, state, connected>>

\* wg.Wait(), and the joined errors.
Return ==
  /\ mainPc = "wait"
  /\ \A t \in Tunnels : pc[t] \in {"idle", "exited"}
  /\ mainPc' = "returned"
  /\ ret' = IF runErrs = {} THEN "nil" ELSE "error"
  /\ UNCHANGED <<ctxDone, cancelled, next, runErrs, pc, err, fuse, readiness,
                 calling, state, connected>>

-----------------------------------------------------------------------------
(***************************************************************************)
(* A tunnel's goroutine: Runner.Run, then what MultiRunner does with the   *)
(* error.                                                                  *)
(***************************************************************************)
\* tunnelReadiness.set by the tunnel's goroutine: the status ...
setStatus(t, status) ==
  /\ readiness' = [readiness EXCEPT ![t] = status]
  /\ calling' = [calling EXCEPT ![t] = status]

\* ... and, unlocked, the callback setState.
Callback(t) ==
  /\ pc[t] \in {"startCallback", "endCallback"}
  /\ state' = [state EXCEPT ![t] = calling[t]]
  /\ pc' = [pc EXCEPT ![t] = IF @ = "startCallback" THEN "prepare" ELSE "returned"]
  /\ UNCHANGED <<ctxDone, cancelled, mainVars, runErrs, err, fuse, readiness,
                 calling, connected>>

RunTunnel(t) ==
  /\ pc[t] = "run"
  /\ setStatus(t, "starting")
  /\ pc' = [pc EXCEPT ![t] = "startCallback"]
  /\ UNCHANGED <<ctxDone, cancelled, mainVars, runErrs, err, fuse, state, connected>>

\* What a context-aware call may return: its own failure at any time, the
\* context's error once it is done.
Errors == {"error"} \cup (IF groupDone THEN {"canceled"} ELSE {})

\* prepareTunnelSession
Prepare(t) ==
  /\ pc[t] = "prepare"
  /\ \/ /\ pc' = [pc EXCEPT ![t] = "bridge"]
        /\ UNCHANGED err
     \/ /\ pc' = [pc EXCEPT ![t] = "ended"]
        /\ \E e \in Errors : err' = [err EXCEPT ![t] = e]
  /\ UNCHANGED <<ctxDone, cancelled, mainVars, runErrs, fuse, readiness, calling,
                 state, connected>>

\* BridgeRunner.Run returns by itself ...
BridgeReturns(t) ==
  /\ pc[t] = "bridge"
  /\ pc' = [pc EXCEPT ![t] = "ended"]
  /\ \E e \in {"nil", "error", "aborted"} : err' = [err EXCEPT ![t] = e]
  /\ UNCHANGED <<ctxDone, cancelled, mainVars, runErrs, fuse, readiness, calling,
                 state, connected>>

\* (mutant: the bridge does not watch the group context)
BridgeStops_CallerOnly(t) ==
  /\ pc[t] = "bridge"
  /\ ctxDone
  /\ pc' = [pc EXCEPT ![t] = "ended"]
  /\ err' = [err EXCEPT ![t] = "canceled"]
  /\ UNCHANGED <<ctxDone, cancelled, mainVars, runErrs, fuse, readiness, calling,
                 state, connected>>

\* ... or because its context is done, as soon as its connections let it: an
\* HTTP/2 connection closes only after its handlers have returned.
BridgeStops(t) ==
  /\ pc[t] = "bridge"
  /\ groupDone
  /\ pc' = [pc EXCEPT ![t] = "ended"]
  /\ err' = [err EXCEPT ![t] = "canceled"]
  /\ UNCHANGED <<ctxDone, cancelled, mainVars, runErrs, fuse, readiness, calling,
                 state, connected>>

statusForRunError(e) ==
  CASE groupDone \/ isCanceled(e) -> "stopped"
    [] ~ groupDone /\ e = "error" -> "failed"
    [] OTHER                      -> "exited"

EndTunnel(t) ==
  /\ pc[t] = "ended"
  /\ setStatus(t, statusForRunError(err[t]))
  /\ pc' = [pc EXCEPT ![t] = "endCallback"]
  /\ UNCHANGED <<ctxDone, cancelled, mainVars, runErrs, err, fuse, state, connected>>

\* Back in MultiRunner: an error that is not context.Canceled is a failure.
ShowFailed(t) ==
  /\ pc[t] = "returned"
  /\ err[t] # "nil" /\ ~ isCanceled(err[t])
  /\ state' = [state EXCEPT ![t] = "failed"]
  /\ pc' = [pc EXCEPT ![t] = "record"]
  /\ UNCHANGED <<ctxDone, cancelled, mainVars, runErrs, err, fuse, readiness,
                 calling, connected>>

\* (mutant: the error is ignored when the group is stopping anyway)
RecordError_NotStopping(t) ==
  /\ pc[t] = "record"
  /\ runErrs' = IF groupDone THEN runErrs ELSE runErrs \cup {t}
  /\ pc' = [pc EXCEPT ![t] = "cancel"]
  /\ UNCHANGED <<ctxDone, cancelled, mainVars, err, fuse, readiness, calling,
                 state, connected>>

RecordError(t) ==
  /\ pc[t] = "record"
  /\ runErrs' = runErrs \cup {t}
  /\ pc' = [pc EXCEPT ![t] = "cancel"]
  /\ UNCHANGED <<ctxDone, cancelled, mainVars, err, fuse, readiness, calling,
                 state, connected>>

\* (mutant: peers are not cancelled)
CancelGroup_Forgotten(t) ==
  /\ pc[t] = "cancel"
  /\ pc' = [pc EXCEPT ![t] = "exited"]
  /\ UNCHANGED <<ctxDone, cancelled, mainVars, runErrs, err, fuse, readiness,
                 calling, state, connected>>

\* (mutant: no return after cancel)
CancelGroup_FallsThrough(t) ==
  /\ pc[t] = "cancel"
  /\ cancelled' = TRUE
  /\ state' = [state EXCEPT ![t] = "stopped"]
  /\ pc' = [pc EXCEPT ![t] = "exited"]
  /\ UNCHANGED <<ctxDone, mainVars, runErrs, err, fuse, readiness, calling,
                 connected>>

CancelGroup(t) ==
  /\ pc[t] = "cancel"
  /\ cancelled' = TRUE
  /\ pc' = [pc EXCEPT ![t] = "exited"]
  /\ UNCHANGED <<ctxDone, mainVars, runErrs, err, fuse, readiness, calling, state,
                 connected>>

\* No error, or one that is taken for a normal stop: nothing is recorded and
\* the group goes on.
ShowStopped(t) ==
  /\ pc[t] = "returned"
  /\ err[t] = "nil" \/ isCanceled(err[t])
  /\ state' = [state EXCEPT ![t] = IF groupDone THEN "stopped" ELSE "exited"]
  /\ pc' = [pc EXCEPT ![t] = "exited"]
  /\ UNCHANGED <<ctxDone, cancelled, mainVars, runErrs, err, fuse, readiness,
                 calling, connected>>

-----------------------------------------------------------------------------
(***************************************************************************)
(* The control stream of the tunnel's first connection.                    *)
(***************************************************************************)
\* The edge accepts the registration, possibly again after a reconnect.
Register(t) ==
  /\ pc[t] = "bridge"
  /\ fuse[t] = "none"
  /\ fuse' = [fuse EXCEPT ![t] = "set"]
  /\ connected' = [connected EXCEPT ![t] = TRUE]
  /\ UNCHANGED <<ctxDone, cancelled, mainVars, runErrs, pc, err, readiness,
                 calling, state>>

ConnectedSet(t) ==
  /\ fuse[t] = "set"
  /\ readiness' = [readiness EXCEPT ![t] = "ready"]
  /\ fuse' = [fuse EXCEPT ![t] = "callback"]
  /\ UNCHANGED <<ctxDone, cancelled, mainVars, runErrs, pc, err, calling, state,
                 connected>>

ConnectedCallback(t) ==
  /\ fuse[t] = "callback"
  /\ state' = [state EXCEPT ![t] = "ready"]
  /\ fuse' = [fuse EXCEPT ![t] = "none"]
  /\ UNCHANGED <<ctxDone, cancelled, mainVars, runErrs, pc, err, readiness,
                 calling, connected>>

-----------------------------------------------------------------------------
CancelCtx ==
  /\ ~ ctxDone
  /\ mainPc # "returned"
  /\ ctxDone' = TRUE
  /\ UNCHANGED <<cancelled, mainVars, runErrs, pc, err, fuse, readiness, calling,
                 state, connected>>

Terminated ==
  /\ mainPc = "returned"
  /\ \A t \in Tunnels : fuse[t] = "none"
  /\ UNCHANGED vars

Main == StartTunnel \/ WaitForStartInterval \/ Return

Tunnel(t) == \/ RunTunnel(t) \/ Callback(t) \/ Prepare(t) \/ BridgeStops(t)
             \/ EndTunnel(t) \/ ShowFailed(t) \/ RecordError(t) \/ CancelGroup(t)
             \/ ShowStopped(t)

Fuse(t) == ConnectedSet(t) \/ ConnectedCallback(t)

Next ==
  \/ Main
  \/ \E t \in Tunnels : Tunnel(t) \/ Fuse(t) \/ BridgeReturns(t) \/ Register(t)
  \/ CancelCtx
  \/ Terminated

Spec == Init /\ [][Next]_vars

(***************************************************************************)
(* Goroutines are scheduled, timers fire and the preparation ends (its     *)
(* HTTP client has a timeout).  The edge owes us nothing, and neither does *)
(* a bridge whose context is done: BridgeStops is not fair, since an       *)
(* HTTP/2 connection may wait for a handler that waits for the edge        *)
(* (HTTP2Connection's CancelStopsServe).                                   *)
(***************************************************************************)
FairSpec ==
  /\ Spec
  /\ WF_vars(Main)
  /\ \A t \in Tunnels :
       WF_vars(pc[t] # "bridge" /\ Tunnel(t)) /\ WF_vars(Fuse(t))

-----------------------------------------------------------------------------
(***************************************************************************)
(* /ready.                                                                 *)
(***************************************************************************)
\* (mutant: only failures are counted)
ReadyStatus_NoneFailed == \A t \in Tunnels : state[t] \notin {"failed", "pending"}

ReadyStatus == \A t \in Tunnels : state[t] = "ready"

Statuses == {"pending", "starting", "ready", "failed", "stopped", "exited"}

TypeOK ==
  /\ ctxDone \in BOOLEAN /\ cancelled \in BOOLEAN
  /\ mainPc \in {"start", "interval", "wait", "returned"}
  /\ next \in 1..(K + 1)
  /\ runErrs \subseteq Tunnels
  /\ ret \in {"none", "nil", "error"}
  /\ pc \in [Tunnels -> {"idle", "run", "startCallback", "prepare", "bridge",
                         "ended", "endCallback", "returned", "record", "cancel",
                         "exited"}]
  /\ err \in [Tunnels -> RunErrors \cup {"none"}]
  /\ fuse \in [Tunnels -> {"none", "set", "callback"}]
  /\ readiness \in [Tunnels -> Statuses]
  /\ calling \in [Tunnels -> Statuses \cup {"none"}]
  /\ state \in [Tunnels -> Statuses]
  /\ connected \in [Tunnels -> BOOLEAN]

(***************************************************************************)
(* When Run returns no tunnel is running, and it returns an error exactly  *)
(* when a tunnel failed with one that does not wrap context.Canceled: the  *)
(* tunnels it stopped and those it never started do not count as failures, *)
(* and no failure is lost but those "aborted" ones, which Run takes for a  *)
(* normal stop.                                                            *)
(***************************************************************************)
ReturnIsAccurate ==
  mainPc = "returned" =>
    /\ \A t \in Tunnels : pc[t] \in {"idle", "exited"}
    /\ (ret = "error") <=> (\E t \in Tunnels : err[t] = "error")

(***************************************************************************)
(* /ready answers 200 only when the edge has accepted a registration of    *)
(* every configured tunnel, those not yet started included.                *)
(***************************************************************************)
ReadyMeansAllConnected == ReadyStatus => \A t \in Tunnels : connected[t]

(***************************************************************************)
(* Nothing but its own Connected() takes a failed tunnel out of "failed":  *)
(* not Run, not a peer, not a cancellation.  A call that was under way     *)
(* when the bridge returned may still show it as ready (the unlocked       *)
(* callback of tunnelReadiness.set), and none begins later.                *)
(***************************************************************************)
FailureHiddenOnlyByLateConnected ==
  [][\A t \in Tunnels :
       pc[t] \in {"record", "cancel", "exited"} /\ state[t] = "failed" =>
         /\ \/ state'[t] = "failed"
            \/ fuse[t] = "callback" /\ state'[t] = "ready"
         /\ fuse[t] = "none" => fuse'[t] = "none"]_vars

\* The group is told to stop, and a bridge does not come back.
BridgeHangs == groupDone /\ \E t \in Tunnels : pc[t] = "bridge"

(***************************************************************************)
(* A tunnel that fails ends Run, and with it every other tunnel, unless    *)
(* the bridge of one of them never comes back.  A tunnel whose error wraps *)
(* context.Canceled does not: the group goes on without it.                *)
(***************************************************************************)
FailureEndsGroup ==
  <>(\E t \in Tunnels : err[t] = "error") =>
    <>(mainPc = "returned") \/ <>[]BridgeHangs

(***************************************************************************)
(* A cancelled context ends Run, wherever the tunnels are, unless a bridge *)
(* never comes back.                                                       *)
(***************************************************************************)
CancelEndsGroup == <>ctxDone => <>(mainPc = "returned") \/ <>[]BridgeHangs
=============================================================================
