-------------------------- MODULE AppRuntimeProofs --------------------------
(***************************************************************************)
(* Proofs about AppRuntime, for any runners and any timeout.               *)
(***************************************************************************)
EXTENDS AppRuntime, SequenceTheorems, TLAPS

\* A runner has an error value exactly when its Run has returned.
Returned == \A r \in Runners : pc[r] = "run" <=> err[r] = "none"

\* Only runners that have sent a result are in the channel or completed.
Sent ==
  /\ \A i \in 1..Len(results) : pc[results[i]] = "sent"
  /\ \A r \in completed : pc[r] = "sent"

\* While firstErr is nil no error has been received.
Collected == firstErr = "nil" => \A r \in completed : err[r] = "nil"

\* How the process can have come to its exit.
Exit ==
  /\ timer => signalled
  /\ exitCode = "0" => completed = Runners /\ firstErr = "nil"
  /\ ~ Running /\ ~ signalled => completed = Runners

IInv == TypeOK /\ Returned /\ Sent /\ Collected /\ Exit

-----------------------------------------------------------------------------
\* The inductive invariant holds at the start.
LEMMA InitIInv == Init => IInv
<1>. SUFFICES ASSUME Init PROVE IInv
  OBVIOUS
<1>1. TypeOK
  <2>1. results \in Seq(Runners)
    BY DEF Init
  <2>2. pc \in [Runners -> {"run"}] /\ err \in [Runners -> {"none"}]
    BY DEF Init
  <2>. QED  BY <2>1, <2>2 DEF Init, TypeOK
<1>2. Returned /\ Collected /\ Exit
  BY DEF Init, Returned, Collected, Exit, Running
<1>3. Sent
  BY DEF Init, Sent
<1>. QED  BY <1>1, <1>2, <1>3 DEF IInv

\* A runner's Run returning keeps it: the runner was not in the channel.
LEMMA RunReturnsIInv ==
  ASSUME IInv, NEW r \in Runners, NEW e \in {"nil", "canceled", "error"},
         runReturns(r, e)
  PROVE  IInv'
<1>1. /\ pc[r] = "run"
      /\ UNCHANGED <<stuck, signalled, cancelled, results, watching, timer, completed,
                     firstErr, exitCode>>
      /\ exitCode = "none"
  BY DEF runReturns, Running
<1>2. TypeOK'
  BY DEF IInv, TypeOK, runReturns
<1>3. Returned'
  BY DEF IInv, TypeOK, Returned, runReturns
<1>4. Sent'
  BY <1>1 DEF IInv, TypeOK, Sent, runReturns
<1>5. Collected'
  BY <1>1 DEF IInv, TypeOK, Sent, Collected, runReturns
<1>6. Exit'
  BY <1>1 DEF IInv, Exit, Running
<1>. QED  BY <1>2, <1>3, <1>4, <1>5, <1>6 DEF IInv

\* What a runner does after its Run has returned keeps it.
LEMMA ReportIInv ==
  ASSUME IInv, NEW r \in Runners, Report(r)
  PROVE  IInv'
<1>1. CASE CancelPeers(r)
  BY <1>1 DEF CancelPeers, IInv, TypeOK, Returned, Sent, Collected, Exit, Running
<1>2. CASE SendResult(r)
  <2>1. results \in Seq(Runners)
    BY DEF IInv, TypeOK
  <2>2. /\ results' \in Seq(Runners)
        /\ Len(results') = Len(results) + 1
        /\ \A i \in 1..Len(results) : results'[i] = results[i]
        /\ results'[Len(results) + 1] = r
    BY <1>2, <2>1 DEF SendResult
  <2>3. TypeOK' /\ Returned' /\ Collected' /\ Exit'
    BY <1>2, <2>2 DEF SendResult, IInv, TypeOK, Returned, Collected, Exit, Running
  <2>4. Sent'
    BY <1>2, <2>1, <2>2 DEF SendResult, IInv, TypeOK, Sent
  <2>. QED  BY <2>3, <2>4 DEF IInv
<1>. QED  BY <1>1, <1>2 DEF Report

\* Main's steps keep it.
LEMMA MainIInv ==
  ASSUME IInv, Main
  PROVE  IInv'
<1>1. CASE ReceiveResult
  <2>1. results \in Seq(Runners) /\ results # <<>>
    BY <1>1 DEF IInv, TypeOK, ReceiveResult
  <2>2. /\ Head(results) \in Runners
        /\ Head(results) = results[1]
        /\ 1 \in 1..Len(results)
        /\ Tail(results) \in Seq(Runners)
        /\ Len(Tail(results)) = Len(results) - 1
        /\ \A i \in 1..Len(Tail(results)) : Tail(results)[i] = results[i + 1]
    BY <2>1
  <2>3. pc[Head(results)] = "sent" /\ err[Head(results)] # "none"
    BY <2>2 DEF IInv, Sent, Returned
  <2>4. TypeOK' /\ Returned'
    BY <1>1, <2>2, <2>3 DEF ReceiveResult, mergeErr, IInv, TypeOK, Returned
  <2>5. Sent'
    <3>1. \A i \in 1..Len(results') : pc'[results'[i]] = "sent"
      <4>. SUFFICES ASSUME NEW i \in 1..Len(results')
                    PROVE  pc'[results'[i]] = "sent"
        OBVIOUS
      <4>1. results' = Tail(results) /\ pc' = pc
        BY <1>1 DEF ReceiveResult
      <4>2. i + 1 \in 1..Len(results)
        BY <2>1, <2>2, <4>1
      <4>. QED  BY <2>2, <4>1, <4>2 DEF IInv, Sent
    <3>2. \A q \in completed' : pc'[q] = "sent"
      BY <1>1, <2>3 DEF ReceiveResult, IInv, Sent
    <3>. QED  BY <3>1, <3>2 DEF Sent
  <2>6. Collected'
    BY <1>1 DEF ReceiveResult, mergeErr, IInv, Collected
  <2>7. Exit'
    BY <1>1 DEF ReceiveResult, IInv, Exit, Running
  <2>. QED  BY <2>4, <2>5, <2>6, <2>7 DEF IInv
<1>2. CASE ShutdownSignal
  <2>1. TypeOK'
    BY <1>2 DEF ShutdownSignal, IInv, TypeOK
  <2>2. Returned' /\ Sent' /\ Collected'
    BY <1>2 DEF ShutdownSignal, IInv, Returned, Sent, Collected
  <2>3. Exit'
    BY <1>2 DEF ShutdownSignal, IInv, Exit, Running
  <2>. QED  BY <2>1, <2>2, <2>3 DEF IInv
<1>3. CASE TimeoutExpires
  BY <1>3 DEF TimeoutExpires, IInv, TypeOK, Returned, Sent, Collected, Exit, Running
<1>4. CASE AllCompleted
  BY <1>4 DEF AllCompleted, IInv, TypeOK, Returned, Sent, Collected, Exit, Running
<1>. QED  BY <1>1, <1>2, <1>3, <1>4 DEF Main

\* Every step keeps it.
LEMMA NextIInv == IInv /\ [Next]_vars => IInv'
<1>. SUFFICES ASSUME IInv, [Next]_vars PROVE IInv'
  OBVIOUS
<1>1. CASE Main
  BY <1>1, MainIInv
<1>2. CASE \E r \in Runners : Report(r)
  BY <1>2, ReportIInv
<1>3. CASE \E r \in Health : HealthListenFails(r) \/ HealthStops(r)
  BY <1>3, RunReturnsIInv DEF HealthListenFails, HealthStops, Runners
<1>4. CASE \E r \in Tunnels : TunnelReturns(r) \/ TunnelStops(r)
  BY <1>4, RunReturnsIInv DEF TunnelReturns, TunnelStops, Runners
<1>5. CASE Signal
  BY <1>5 DEF Signal, IInv, TypeOK, Returned, Sent, Collected, Exit, Running
<1>6. CASE UNCHANGED vars
  BY <1>6 DEF vars, IInv, TypeOK, Returned, Sent, Collected, Exit, Running
<1>. QED  BY <1>1, <1>2, <1>3, <1>4, <1>5, <1>6 DEF Next, Exited

-----------------------------------------------------------------------------
\* The variables of RunWithOptions always have their types.
THEOREM RuntimeTypeCorrect == Spec => []TypeOK
<1>1. IInv => TypeOK
  BY DEF IInv
<1>. QED  BY <1>1, InitIInv, NextIInv, PTL DEF Spec

\* Exit code 0 means that every runner has returned nil: runtime.go does not
\* lose an error between a runner's return and the exit code.
THEOREM ExitCodeHonest == Spec => []ExitZeroMeansClean
<1>1. IInv => ExitZeroMeansClean
  BY DEF IInv, Collected, Exit, ExitZeroMeansClean
<1>. QED  BY <1>1, InitIInv, NextIInv, PTL DEF Spec

\* Without a signal the process exits only after every runner has reported.
THEOREM RunnersAwaited == Spec => []NoRunnerAbandoned
<1>1. IInv => NoRunnerAbandoned
  BY DEF IInv, Sent, Exit, NoRunnerAbandoned
<1>. QED  BY <1>1, InitIInv, NextIInv, PTL DEF Spec
=============================================================================
