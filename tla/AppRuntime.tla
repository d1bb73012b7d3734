----------------------------- MODULE AppRuntime -----------------------------
(***************************************************************************)
(* The process: RunWithOptions (internal/runtime/runtime.go) supervising   *)
(* the runners that buildRunners (cmd/app/main.go) puts together, the      *)
(* health server (internal/health/runner.go) and a tunnel runner, and the  *)
(* exit code main derives from the result.                                 *)
(*                                                                         *)
(* Processes: main in its select loop, and one goroutine per runner.  They *)
(* share the signal context, its child the group context, and the buffered *)
(* channel of results.  What a tunnel runner does between its start and    *)
(* its return is the business of TunnelGroup and BridgeRunner.             *)
(***************************************************************************)
EXTENDS Naturals, Sequences

CONSTANTS Health,           \* the health runner alone, or empty
          Tunnels,          \* the other runners
          ShutdownTimeout   \* Options.ShutdownTimeout, 0 for none

Runners == Health \cup Tunnels

ASSUME RuntimeAssumption ==
  /\ Health \cap Tunnels = {}
  /\ Runners # {}
  /\ ShutdownTimeout \in Nat

VARIABLES
  stuck,        \* the tunnel runners that ignore a cancelled context
  signalled,    \* ctx of NotifyContext is done: SIGINT or SIGTERM
  cancelled,    \* cancel() of the group context has been called
  pc,           \* where each runner's goroutine is
  err,          \* what its Run returned
  results,      \* the channel of results: the runners that have sent one
  watching,     \* shutdownSignal is not nil
  timer,        \* time.After has been started
  completed,    \* the runners whose result has been received
  firstErr,     \* the first error received
  exitCode      \* "none" while the process runs

vars == <<stuck, signalled, cancelled, pc, err, results, watching, timer, completed,
          firstErr, exitCode>>

Running == exitCode = "none"

groupDone == signalled \/ cancelled

Init ==
  /\ stuck \in SUBSET Tunnels
  /\ signalled = FALSE
  /\ cancelled = FALSE
  /\ pc = [r \in Runners |-> "run"]
  /\ err = [r \in Runners |-> "none"]
  /\ results = <<>>
  /\ watching = TRUE
  /\ timer = FALSE
  /\ completed = {}
  /\ firstErr = "nil"
  /\ exitCode = "none"

-----------------------------------------------------------------------------
(***************************************************************************)
(* The goroutine of a runner.                                              *)
(***************************************************************************)
\* Run returns e: only an error that is not context.Canceled stops the rest.
runReturns(r, e) ==
  /\ Running
  /\ pc[r] = "run"
  /\ err' = [err EXCEPT ![r] = e]
  /\ pc' = [pc EXCEPT ![r] = IF e = "error" THEN "cancel" ELSE "send"]
  /\ UNCHANGED <<stuck, signalled, cancelled, results, watching, timer, completed,
                 firstErr, exitCode>>

\* ListenAndServe fails.
HealthListenFails(r) == runReturns(r, "error")

\* ctx.Done: Shutdown, for a second at most, then Close.
HealthStops(r) ==
  /\ groupDone
  /\ \E e \in {"nil", "error"} : runReturns(r, e)

\* A tunnel runner ends by itself ...
TunnelReturns(r) == \E e \in {"nil", "error"} : runReturns(r, e)

\* ... or because its context is done, unless it is stuck.  The multi runner
\* returns nil then, the single runner context.Canceled, and both a failure
\* that came first.
TunnelStops(r) ==
  /\ groupDone
  /\ r \notin stuck
  /\ \E e \in {"nil", "canceled", "error"} : runReturns(r, e)


CancelPeers(r) ==
  /\ Running
  /\ pc[r] = "cancel"
  /\ cancelled' = TRUE
  /\ pc' = [pc EXCEPT ![r] = "send"]
  /\ UNCHANGED <<stuck, signalled, err, results, watching, timer, completed, firstErr,
                 exitCode>>

SendResult(r) ==
  /\ Running
  /\ pc[r] = "send"
  /\ results' = Append(results, r)
  /\ pc' = [pc EXCEPT ![r] = "sent"]
  /\ UNCHANGED <<stuck, signalled, cancelled, err, watching, timer, completed, firstErr,
                 exitCode>>

-----------------------------------------------------------------------------
(***************************************************************************)
(* Main: the loop of RunWithOptions, and main() after it.                  *)
(***************************************************************************)
\* (mutants: the last error is kept, not the first; the two are joined)
mergeErr_Last(e) == e
mergeErr_Joined(e) == IF firstErr = "nil" THEN e ELSE "joined"

\* firstErr after a result e: the first one that is not nil stays.
mergeErr(e) == IF firstErr = "nil" THEN e ELSE firstErr

ReceiveResult ==
  /\ Running
  /\ completed # Runners
  /\ results # <<>>
  /\ results' = Tail(results)
  /\ completed' = completed \cup {Head(results)}
  /\ firstErr' = mergeErr(err[Head(results)])
  /\ UNCHANGED <<stuck, signalled, cancelled, pc, err, watching, timer, exitCode>>

\* (mutant: the timer is not started)
ShutdownSignal_NoTimer ==
  /\ Running
  /\ completed # Runners
  /\ watching /\ signalled
  /\ watching' = FALSE
  /\ UNCHANGED <<stuck, signalled, cancelled, pc, err, results, timer, completed,
                 firstErr, exitCode>>

\* case <-shutdownSignal: once, and the timer only with a timeout.
ShutdownSignal ==
  /\ Running
  /\ completed # Runners
  /\ watching /\ signalled
  /\ watching' = FALSE
  /\ timer' = IF ShutdownTimeout > 0 THEN TRUE ELSE timer
  /\ UNCHANGED <<stuck, signalled, cancelled, pc, err, results, completed, firstErr,
                 exitCode>>

\* case <-timeout: os.Exit(1), whatever the runners are doing.
TimeoutExpires ==
  /\ Running
  /\ completed # Runners
  /\ timer
  /\ exitCode' = "1"
  /\ UNCHANGED <<stuck, signalled, cancelled, pc, err, results, watching, timer,
                 completed, firstErr>>

\* (mutant: the loop ends one result early)
AllCompleted_OneShort ==
  /\ Running
  /\ \E r \in Runners : Runners \subseteq completed \cup {r}
  /\ exitCode' = IF firstErr = "nil" THEN "0" ELSE "1"
  /\ UNCHANGED <<stuck, signalled, cancelled, pc, err, results, watching, timer,
                 completed, firstErr>>

\* The loop is over: return firstErr, and exit.
AllCompleted ==
  /\ Running
  /\ completed = Runners
  /\ exitCode' = IF firstErr = "nil" THEN "0" ELSE "1"
  /\ UNCHANGED <<stuck, signalled, cancelled, pc, err, results, watching, timer,
                 completed, firstErr>>

-----------------------------------------------------------------------------
\* SIGINT or SIGTERM.
Signal ==
  /\ Running
  /\ ~ signalled
  /\ signalled' = TRUE
  /\ UNCHANGED <<stuck, cancelled, pc, err, results, watching, timer, completed,
                 firstErr, exitCode>>

Exited == ~ Running /\ UNCHANGED vars

Main == ReceiveResult \/ ShutdownSignal \/ TimeoutExpires \/ AllCompleted

\* What a runner's goroutine owes after its Run has returned.
Report(r) == CancelPeers(r) \/ SendResult(r)

Next ==
  \/ Main
  \/ \E r \in Runners : Report(r)
  \/ \E r \in Health : HealthListenFails(r) \/ HealthStops(r)
  \/ \E r \in Tunnels : TunnelReturns(r) \/ TunnelStops(r)
  \/ Signal
  \/ Exited

Spec == Init /\ [][Next]_vars

(***************************************************************************)
(* Goroutines are scheduled and timers fire; a runner that is not stuck    *)
(* stops when its context is done.  Nobody has to fail or send a signal.   *)
(***************************************************************************)
FairSpec ==
  /\ Spec
  /\ WF_vars(Main)
  /\ \A r \in Runners : WF_vars(Report(r))
  /\ \A r \in Health : WF_vars(HealthStops(r))
  /\ \A r \in Tunnels : WF_vars(TunnelStops(r))

-----------------------------------------------------------------------------
TypeOK ==
  /\ stuck \subseteq Tunnels
  /\ signalled \in BOOLEAN /\ cancelled \in BOOLEAN
  /\ watching \in BOOLEAN /\ timer \in BOOLEAN
  /\ pc \in [Runners -> {"run", "cancel", "send", "sent"}]
  /\ err \in [Runners -> {"none", "nil", "canceled", "error"}]
  /\ results \in Seq(Runners)
  /\ completed \subseteq Runners
  /\ firstErr \in {"nil", "canceled", "error"}
  /\ exitCode \in {"none", "0", "1"}

(***************************************************************************)
(* The process says 0 only when every runner has returned, and returned    *)
(* nil: an error received early or late, before or after a signal, is not  *)
(* lost on its way through the channel and firstErr.                       *)
(***************************************************************************)
ExitZeroMeansClean == exitCode = "0" => \A r \in Runners : err[r] = "nil"

(***************************************************************************)
(* Before a signal the process never leaves a runner behind: it exits only *)
(* when all have returned, however long a failure's shutdown takes.        *)
(***************************************************************************)
NoRunnerAbandoned ==
  ~ Running /\ ~ signalled => \A r \in Runners : pc[r] = "sent"


(***************************************************************************)
(* A signal ends the process, even when a runner never stops and whatever  *)
(* has failed before: the shutdown timeout is the last resort.             *)
(***************************************************************************)
SignalEndsProcess == signalled ~> ~ Running
=============================================================================
