------------------------- MODULE TunnelGroupProofs -------------------------
(***************************************************************************)
(* Proofs about TunnelGroup, for any number of tunnels.                    *)
(***************************************************************************)
EXTENDS TunnelGroup, TLAPS

\* The loop of Run never runs past the last tunnel.
Loop == mainPc \in {"start", "interval"} => next \in Tunnels

\* The tunnels it has not come to are not running.
Waiting == \A t \in Tunnels : t >= next => pc[t] = "idle"

\* A tunnel's error is in runErrs from the step that records it on, and
\* nothing else is.
Recorded ==
  \A t \in Tunnels :
    /\ pc[t] \in {"idle", "run", "startCallback", "prepare", "bridge"} => err[t] = "none"
    /\ pc[t] \in {"ended", "endCallback", "returned"} => err[t] \in RunErrors
    /\ pc[t] \in {"record", "cancel"} => err[t] = "error"
    /\ pc[t] \in {"cancel", "exited"} /\ err[t] = "error" => t \in runErrs
    /\ t \in runErrs => err[t] = "error"

\* Once Run has returned nothing of it is left but control streams.
Quiet ==
  mainPc = "returned" =>
    /\ \A t \in Tunnels : pc[t] \in {"idle", "exited"}
    /\ ret = IF runErrs = {} THEN "nil" ELSE "error"

\* Only Connected() makes a tunnel ready.
Connected ==
  \A t \in Tunnels :
    /\ state[t] = "ready" \/ fuse[t] # "none" => connected[t]
    /\ calling[t] # "ready"
    /\ pc[t] \in {"startCallback", "endCallback"} => calling[t] # "none"

IInv == TypeOK /\ Loop /\ Waiting /\ Recorded /\ Quiet /\ Connected

-----------------------------------------------------------------------------
\* The inductive invariant holds at the start.
LEMMA InitIInv == Init => IInv
<1>. SUFFICES ASSUME Init PROVE IInv
  OBVIOUS
<1>1. 1 \in 1..(K + 1) /\ 1 \in Tunnels
  BY GroupAssumption DEF Tunnels
<1>2. TypeOK
  BY <1>1 DEF Init, TypeOK, Statuses
<1>3. Loop /\ Waiting /\ Recorded /\ Quiet /\ Connected
  BY <1>1 DEF Init, Loop, Waiting, Recorded, Quiet, Connected
<1>. QED  BY <1>2, <1>3 DEF IInv

\* Run's own steps keep it.
LEMMA MainIInv ==
  ASSUME IInv, Main
  PROVE  IInv'
<1>1. CASE StartTunnel
  <2>1. next \in Tunnels
    BY <1>1 DEF IInv, Loop, StartTunnel
  <2>2. next' \in 1..(K + 1) /\ (mainPc' = "interval" => next' \in Tunnels)
    BY <1>1, <2>1, GroupAssumption DEF StartTunnel, Tunnels
  <2>3. TypeOK'
    BY <1>1, <2>2, <2>1 DEF StartTunnel, IInv, TypeOK, Statuses
  <2>4. Loop'
    BY <1>1, <2>2 DEF StartTunnel, Loop
  <2>5. pc[next] = "idle"
    BY <2>1 DEF IInv, Waiting, Tunnels
  <2>6. Waiting'
    BY <1>1, <2>1 DEF StartTunnel, IInv, TypeOK, Waiting, Tunnels
  <2>7. Recorded' /\ Quiet'
    BY <1>1, <2>1, <2>5 DEF StartTunnel, IInv, TypeOK, Recorded, Quiet
  <2>8. Connected'
    BY <1>1, <2>1 DEF StartTunnel, IInv, TypeOK, Connected
  <2>. QED  BY <2>3, <2>7, <2>8, <2>4, <2>6 DEF IInv
<1>2. CASE WaitForStartInterval
  BY <1>2 DEF WaitForStartInterval, IInv, TypeOK, Loop, Waiting, Recorded, Quiet, Connected
<1>3. CASE Return
  BY <1>3 DEF Return, IInv, TypeOK, Loop, Waiting, Recorded, Quiet, Connected
<1>. QED  BY <1>1, <1>2, <1>3 DEF Main

\* So do the steps of a tunnel's goroutine.
LEMMA TunnelIInv ==
  ASSUME IInv, NEW t \in Tunnels, Tunnel(t) \/ BridgeReturns(t)
  PROVE  IInv'
<1>. USE DEF IInv, RunErrors
<1>1. CASE RunTunnel(t)
  BY <1>1 DEF RunTunnel, setStatus, TypeOK, Loop, Waiting, Recorded, Quiet, Connected, Statuses, mainVars
<1>2. CASE Callback(t)
  BY <1>2 DEF Callback, TypeOK, Loop, Waiting, Recorded, Quiet, Connected, Statuses, mainVars
<1>3. CASE Prepare(t)
  BY <1>3 DEF Prepare, Errors, TypeOK, Loop, Waiting, Recorded, Quiet, Connected, mainVars
<1>4. CASE BridgeStops(t) \/ BridgeReturns(t)
  BY <1>4 DEF BridgeStops, BridgeReturns, TypeOK, Loop, Waiting, Recorded, Quiet, Connected, mainVars
<1>5. CASE EndTunnel(t)
  <2>1. statusForRunError(err[t]) \in {"stopped", "failed", "exited"}
    BY DEF statusForRunError
  <2>. QED  BY <1>5, <2>1 DEF EndTunnel, setStatus, TypeOK, Loop, Waiting, Recorded, Quiet,
                              Connected, Statuses, mainVars
<1>6. CASE ShowFailed(t)
  BY <1>6 DEF ShowFailed, isCanceled, TypeOK, Loop, Waiting, Recorded, Quiet, Connected, Statuses, mainVars
<1>7. CASE RecordError(t)
  BY <1>7 DEF RecordError, TypeOK, Loop, Waiting, Recorded, Quiet, Connected, mainVars
<1>8. CASE CancelGroup(t)
  BY <1>8 DEF CancelGroup, TypeOK, Loop, Waiting, Recorded, Quiet, Connected, mainVars
<1>9. CASE ShowStopped(t)
  BY <1>9 DEF ShowStopped, isCanceled, TypeOK, Loop, Waiting, Recorded, Quiet, Connected, Statuses, mainVars
<1>. QED  BY <1>1, <1>2, <1>3, <1>4, <1>5, <1>6, <1>7, <1>8, <1>9 DEF Tunnel

\* And those of its control stream.
LEMMA FuseIInv ==
  ASSUME IInv, NEW t \in Tunnels, Fuse(t) \/ Register(t)
  PROVE  IInv'
<1>. USE DEF IInv
<1>1. CASE Register(t)
  BY <1>1 DEF Register, TypeOK, Loop, Waiting, Recorded, Quiet, Connected, mainVars
<1>2. CASE ConnectedSet(t)
  BY <1>2 DEF ConnectedSet, TypeOK, Loop, Waiting, Recorded, Quiet, Connected, Statuses, mainVars
<1>3. CASE ConnectedCallback(t)
  BY <1>3 DEF ConnectedCallback, TypeOK, Loop, Waiting, Recorded, Quiet, Connected, Statuses, mainVars
<1>. QED  BY <1>1, <1>2, <1>3 DEF Fuse

\* Every step keeps it.
LEMMA NextIInv == IInv /\ [Next]_vars => IInv'
<1>. SUFFICES ASSUME IInv, [Next]_vars PROVE IInv'
  OBVIOUS
<1>1. CASE Main
  BY <1>1, MainIInv
<1>2. CASE \E t \in Tunnels : Tunnel(t) \/ Fuse(t) \/ BridgeReturns(t) \/ Register(t)
  BY <1>2, TunnelIInv, FuseIInv
<1>3. CASE CancelCtx
  BY <1>3 DEF CancelCtx, IInv, TypeOK, Loop, Waiting, Recorded, Quiet, Connected, mainVars
<1>4. CASE UNCHANGED vars
  BY <1>4 DEF vars, IInv, TypeOK, Loop, Waiting, Recorded, Quiet, Connected, mainVars
<1>. QED  BY <1>1, <1>2, <1>3, <1>4 DEF Next, Terminated

-----------------------------------------------------------------------------
\* The variables of MultiRunner and its tunnels always have their types.
THEOREM GroupTypeCorrect == Spec => []TypeOK
<1>1. IInv => TypeOK
  BY DEF IInv
<1>. QED  BY <1>1, InitIInv, NextIInv, PTL DEF Spec

\* MultiRunner.Run returns after every tunnel, and returns an error exactly
\* when one of them failed with an error that does not wrap context.Canceled.
THEOREM GroupReturnIsAccurate == Spec => []ReturnIsAccurate
<1>1. IInv => ReturnIsAccurate
  BY DEF IInv, TypeOK, Recorded, Quiet, ReturnIsAccurate
<1>. QED  BY <1>1, InitIInv, NextIInv, PTL DEF Spec

\* /ready is 200 only when the edge has accepted every configured tunnel.
THEOREM GroupReadyIsHonest == Spec => []ReadyMeansAllConnected
<1>1. IInv => ReadyMeansAllConnected
  BY DEF IInv, Connected, ReadyStatus, ReadyMeansAllConnected
<1>. QED  BY <1>1, InitIInv, NextIInv, PTL DEF Spec

-----------------------------------------------------------------------------
\* Run, the caller and the goroutines of the tunnels, its own included, keep
\* a tunnel that has left Runner.Run in "failed"; its control stream may only
\* show it as ready, by the callback of a call that is under way, and starts
\* no other.
LEMMA NextKeepsFailed ==
  ASSUME IInv, [Next]_vars, NEW t \in Tunnels,
         pc[t] \in {"record", "cancel", "exited"}, state[t] = "failed"
  PROVE  /\ \/ state'[t] = "failed"
            \/ fuse[t] = "callback" /\ state'[t] = "ready"
         /\ fuse[t] = "none" => fuse'[t] = "none"
<1>0. /\ state \in [Tunnels -> Statuses]
      /\ fuse \in [Tunnels -> {"none", "set", "callback"}]
  BY DEF IInv, TypeOK
<1>1. CASE StartTunnel
  <2>1. next # t
    BY <1>1 DEF IInv, Loop, Waiting, Tunnels, StartTunnel
  <2>. QED  BY <1>0, <1>1, <2>1 DEF StartTunnel
<1>2. CASE WaitForStartInterval \/ Return \/ CancelCtx \/ UNCHANGED vars
  BY <1>2 DEF WaitForStartInterval, Return, CancelCtx, vars
<1>3. ASSUME NEW s \in Tunnels, Tunnel(s) \/ BridgeReturns(s)
      PROVE  state'[t] = "failed" /\ fuse'[t] = fuse[t]
  BY <1>0, <1>3 DEF Tunnel, RunTunnel, Callback, Prepare, BridgeStops, BridgeReturns, EndTunnel,
                    ShowFailed, RecordError, CancelGroup, ShowStopped
<1>4. ASSUME NEW s \in Tunnels, Fuse(s) \/ Register(s)
      PROVE  /\ \/ state'[t] = "failed"
                \/ fuse[t] = "callback" /\ state'[t] = "ready"
             /\ fuse[t] = "none" => fuse'[t] = "none"
  BY <1>0, <1>4 DEF Fuse, Register, ConnectedSet, ConnectedCallback
<1>. QED  BY <1>1, <1>2, <1>3, <1>4 DEF Next, Main, Terminated

\* A failed tunnel is taken out of "failed" only by its own Connected(), one
\* that was under way already (MultiRunner.Run, tunnelReadiness.set).
THEOREM GroupFailureHiddenOnlyByLateConnected == Spec => FailureHiddenOnlyByLateConnected
<1>1. IInv /\ [Next]_vars =>
        [\A t \in Tunnels :
           pc[t] \in {"record", "cancel", "exited"} /\ state[t] = "failed" =>
             /\ \/ state'[t] = "failed"
                \/ fuse[t] = "callback" /\ state'[t] = "ready"
             /\ fuse[t] = "none" => fuse'[t] = "none"]_vars
  BY NextKeepsFailed
<1>. QED  BY <1>1, InitIInv, NextIInv, PTL DEF Spec, FailureHiddenOnlyByLateConnected
=============================================================================
