------------------------- MODULE BridgeRunnerProofs -------------------------
(***************************************************************************)
(* What holds of BridgeRunner.Run for every number of connections, every   *)
(* retry budget and every collection of address lists.                     *)
(***************************************************************************)
EXTENDS BridgeRunner, FiniteSetTheorems, FunctionTheorems, TLAPS

(* The theorems about the address pool.                                    *)
PoolProofs == INSTANCE EdgePoolProofs

(* The steps of one connection.                                            *)
ConnStep(c) ==
  Loop(c) \/ Fuse(c) \/ LateConnected(c) \/ Register(c) \/ ServeReturns(c)

(* Case split of a step.                                                   *)
LEMMA NextCases ==
  ASSUME [Next]_vars
  PROVE  UNCHANGED vars \/ Main \/ CancelCtx \/ \E c \in Conns : ConnStep(c)
BY DEF Next, Terminated, ConnStep

-----------------------------------------------------------------------------
(* The pool                                                                *)

(* The indices and the address lists are what EdgePool assumes.            *)
LEMMA PoolAssumptionHolds ==
  /\ Conns \subseteq 0..255
  /\ PoolProofs!IsFiniteSet(Conns)
  /\ NoAddr \notin Addr
  /\ \A l \in AddrLists : l \in Seq(Addr) /\ l # <<>>
<1>1. Conns = 0..(maxHAConnections - 1) /\ Conns \subseteq 0..255
  BY BridgeAssumption DEF Conns
<1>2. IsFiniteSet(Conns)
  BY <1>1, BridgeAssumption, FS_Interval
<1>3. PoolProofs!IsFiniteSet(Conns)
  BY <1>2 DEF IsFiniteSet, PoolProofs!IsFiniteSet
<1>. QED
  BY <1>1, <1>3, BridgeAssumption

(* The two names of each operation of the pool.                            *)
LEMMA PoolOperations ==
  ASSUME NEW c
  PROVE  /\ Pool!addrFor(c) => PoolProofs!addrFor(c)
         /\ Pool!addrForFails(c) => UNCHANGED poolVars
         /\ Pool!rotate(c) => PoolProofs!rotate(c)
<1>1. \A list, u, exclude :
        Pool!unusedAddrLocked(list, u, exclude)
          = PoolProofs!unusedAddrLocked(list, u, exclude)
  BY DEF Pool!unusedAddrLocked, PoolProofs!unusedAddrLocked
<1>2. Pool!addrFor(c) => PoolProofs!addrFor(c)
  BY <1>1 DEF Pool!addrFor, Pool!ensureResolved,
              PoolProofs!addrFor, PoolProofs!ensureResolved
<1>3. Pool!addrForFails(c) => UNCHANGED poolVars
  BY DEF Pool!addrForFails, Pool!poolVars, poolVars
<1>4. Pool!rotate(c) => PoolProofs!rotate(c)
  BY <1>1 DEF Pool!rotate, PoolProofs!rotate
<1>. QED
  BY <1>2, <1>3, <1>4

(* A step of Run is an operation of the pool, or leaves it alone.          *)
LEMMA PoolSteps ==
  ASSUME [Next]_vars
  PROVE  [PoolProofs!Next]_(PoolProofs!poolVars)
<1> USE DEF PoolProofs!poolVars, poolVars
<1>1. CASE UNCHANGED vars
  BY <1>1 DEF vars
<1>2. CASE Main \/ CancelCtx
  BY <1>2 DEF Main, Run, RunNoConnectorID, SingleReturn, AwaitFirst, StartConnection,
              WaitRegistrationInterval, AwaitAll, Drain, CancelCtx
<1>3. ASSUME NEW c \in Conns, ConnStep(c)
      PROVE  [PoolProofs!Next]_(PoolProofs!poolVars)
  <2>1. CASE Resolve(c)
    BY <1>3, <2>1, PoolOperations DEF Resolve, PoolProofs!Next
  <2>2. CASE ResolveFails(c)
    BY <2>2, PoolOperations DEF ResolveFails
  <2>3. CASE RotateEdgeAddress(c)
    BY <1>3, <2>3, PoolOperations DEF RotateEdgeAddress, PoolProofs!Next
  <2>4. CASE \/ Dial(c) \/ DialFails(c) \/ ServeCancelled(c) \/ CheckAttempt(c)
             \/ WaitBackoff(c) \/ SendFirstResult(c) \/ SendErr(c)
    BY <2>4 DEF Dial, DialFails, ServeCancelled, CheckAttempt, WaitBackoff,
                SendFirstResult, SendErr
  <2>5. CASE Fuse(c) \/ LateConnected(c) \/ Register(c) \/ ServeReturns(c)
    BY <2>5 DEF Fuse, TrackerConnected, DelegateConnected, SignalConnected,
                LateConnected, Register, ServeReturns
  <2>. QED
    BY <1>3, <2>1, <2>2, <2>3, <2>4, <2>5 DEF ConnStep, Loop
<1>. QED
  BY <1>1, <1>2, <1>3, NextCases

(* Run uses the pool only through its operations: whatever its goroutines  *)
(* do, the pool behaves as EdgePool says (addrFor, rotate).                *)
THEOREM RunImplementsPool == Spec => PoolProofs!Spec
<1>1. Init => PoolProofs!Init
  BY DEF Init, Pool!Init, PoolProofs!Init
<1>2. [Next]_vars => [PoolProofs!Next]_(PoolProofs!poolVars)
  BY PoolSteps
<1>. QED
  BY <1>1, <1>2, PTL DEF Spec, PoolProofs!Spec

PoolInv == PoolProofs!TypeOK /\ PoolProofs!Spread

LEMMA PoolInvHolds == Spec => []PoolInv
<1>1. PoolProofs!Spec => []PoolProofs!TypeOK
  BY PoolProofs!PoolTypeCorrect, PoolAssumptionHolds, PTL
<1>2. PoolProofs!Spec => []PoolProofs!Spread
  BY PoolProofs!PoolSpread, PoolAssumptionHolds, PTL
<1>. QED
  BY <1>1, <1>2, RunImplementsPool, PTL DEF PoolInv

(* Every address the pool hands out is an address.                         *)
LEMMA PoolAddresses ==
  ASSUME PoolProofs!TypeOK
  PROVE  usedBy \in [Conns -> Addr \cup {NoAddr}]
BY DEF PoolProofs!TypeOK, PoolProofs!Listed

-----------------------------------------------------------------------------
(* Types and control                                                       *)

(* Where main is, and what that says of the rest.                          *)
MainInv ==
  /\ mainPc = "start" => next = 0
  /\ mainPc = "single" => n = 1 /\ next = 1
  /\ mainPc = "first" => n > 1 /\ next = 1
  /\ mainPc \in {"spawn", "interval"} => next \in 1..(n - 1)
  /\ mainPc \in {"spawn", "interval", "final"} => firstConnected
  /\ mainPc = "returned" => allExited
  /\ mainPc \in {"drain", "returned"} <=> ret # "none"
  /\ firstConnected => ready

(* A connection is started once, holds an address only then, and the       *)
(* others only after the first was ready; it is on the address the pool    *)
(* has bound it to; and its result and its retries go together.            *)
ConnInvAt(c) ==
  /\ pc[c] # "idle" => c < next /\ (c # 0 => ready)
  /\ usedBy[c] # NoAddr => c < next
  /\ pc[c] \notin {"dial", "serve"} => dialled[c] = NoAddr
  /\ dialled[c] # NoAddr => dialled[c] = usedBy[c]
  /\ pc[c] \in {"first", "errch", "exited"} <=> result[c] # "none"
  /\ result[c] = "none" => attempts[c] <= MaxRetries
  /\ fuse[c] = "signal" \/ "signal" \in late[c] => ready

ConnInv == \A c \in Conns : ConnInvAt(c)

LEMMA FinishTypes ==
  ASSUME TypeOK, NEW c \in Conns, NEW r \in Results, finish(c, r)
  PROVE  /\ result' \in [Conns -> Results \cup {"none"}]
         /\ pc' \in [Conns -> {"idle", "resolve", "dial", "serve", "check", "rotate",
                               "backoff", "first", "errch", "exited"}]
BY DEF TypeOK, finish

LEMMA EndAttemptTypes ==
  ASSUME TypeOK, NEW c \in Conns, NEW e \in {"nil", "build", "edge", "ctx"},
         endAttempt(c, e)
  PROVE  /\ runErr' \in [Conns -> {"none", "nil", "build", "edge", "ctx"}]
         /\ pc' \in [Conns -> {"idle", "resolve", "dial", "serve", "check", "rotate",
                               "backoff", "first", "errch", "exited"}]
         /\ dialled' \in [Conns -> Addr \cup {NoAddr}]
         /\ streak' \in [Conns -> Nat]
         /\ registered' \in [Conns -> BOOLEAN]
<1>1. streak' \in [Conns -> Nat]
  BY DEF TypeOK, endAttempt
<1>2. registered' \in [Conns -> BOOLEAN]
  BY DEF TypeOK, endAttempt
<1>. QED
  BY <1>1, <1>2 DEF TypeOK, endAttempt

(* Main only moves to a step with its own index in range.                  *)
LEMMA MainTypes ==
  ASSUME TypeOK, MainInv, ConnInv, Main
  PROVE  TypeOK'
<1> USE DEF mainVars, chanVars, loopVars, fuseVars, Results
<1>1. CASE Run
  <2>1. pc' \in [Conns -> {"idle", "resolve", "dial", "serve", "check", "rotate",
                              "backoff", "first", "errch", "exited"}]
    BY <1>1 DEF Run, spawn, TypeOK
  <2>2. next' \in 0..n
    <3>1. n \in Nat /\ n >= 1 /\ next \in Nat
      BY BridgeAssumption DEF TypeOK
    <3>. QED
      BY <1>1, <3>1 DEF Run, MainInv
  <2>. QED
    BY <1>1, <2>1, <2>2 DEF Run, TypeOK
<1>2. CASE RunNoConnectorID \/ SingleReturn
  <2>1. ret' \in Results \cup {"none"}
    <3>1. 0 \in Conns
      BY BridgeAssumption DEF Conns
    <3>. QED
      BY <1>2, <3>1 DEF RunNoConnectorID, SingleReturn, TypeOK
  <2>. QED
    BY <1>2, <2>1 DEF RunNoConnectorID, SingleReturn, TypeOK
<1>3. CASE AwaitFirst
  <2>1. /\ cancelled' \in BOOLEAN /\ preferCtx' \in BOOLEAN
    BY <1>3, Zenon DEF AwaitFirst, drain, TypeOK
  <2>. QED
    BY <1>3, <2>1 DEF AwaitFirst, drain, TypeOK
<1>4. CASE StartConnection
  <2>1. pc' \in [Conns -> {"idle", "resolve", "dial", "serve", "check", "rotate",
                              "backoff", "first", "errch", "exited"}]
    BY <1>4 DEF StartConnection, spawn, TypeOK
  <2>2. next' \in 0..n
    <3>1. n \in Nat /\ n >= 1 /\ next \in Nat
      BY BridgeAssumption DEF TypeOK
    <3>. QED
      BY <1>4, <3>1 DEF StartConnection, MainInv
  <2>. QED
    BY <1>4, <2>1, <2>2 DEF StartConnection, TypeOK
<1>5. CASE WaitRegistrationInterval
  <2>1. /\ cancelled' \in BOOLEAN /\ preferCtx' \in BOOLEAN
    BY <1>5, Zenon DEF WaitRegistrationInterval, drain, TypeOK
  <2>. QED
    BY <1>5, <2>1 DEF WaitRegistrationInterval, drain, TypeOK
<1>6. CASE AwaitAll
  <2>1. /\ cancelled' \in BOOLEAN /\ preferCtx' \in BOOLEAN
    BY <1>6, Zenon DEF AwaitAll, drain, TypeOK
  <2>. QED
    BY <1>6, <2>1 DEF AwaitAll, drain, TypeOK
<1>7. CASE Drain
  BY <1>7 DEF Drain, TypeOK
<1>. QED
  BY <1>1, <1>2, <1>3, <1>4, <1>5, <1>6, <1>7 DEF Main

LEMMA ConnTypes ==
  ASSUME TypeOK, ConnInv, PoolInv', NEW c \in Conns, ConnStep(c)
  PROVE  TypeOK'
<1> USE DEF mainVars, chanVars, loopVars, fuseVars
<1>1. CASE Resolve(c)
  <2>1. usedBy'[c] \in Addr \cup {NoAddr}
    <3>1. (usedBy \in [Conns -> Addr \cup {NoAddr}])'
      BY PoolAddresses DEF PoolInv, PoolProofs!TypeOK, PoolProofs!Listed
    <3>. QED
      BY <3>1
  <2>. QED
    BY <1>1, <2>1 DEF Resolve, TypeOK
<1>2. CASE ResolveFails(c)
  <2>1. CASE Protocol = "http2"
    BY <1>2, <2>1 DEF ResolveFails, TypeOK
  <2>2. CASE Protocol # "http2"
    BY <1>2, <2>2, EndAttemptTypes DEF ResolveFails, TypeOK
  <2>. QED
    BY <2>1, <2>2
<1>3. CASE Dial(c)
  BY <1>3 DEF Dial, TypeOK
<1>4. CASE DialFails(c)
  BY <1>4, EndAttemptTypes DEF DialFails, TypeOK
<1>5. CASE ServeCancelled(c)
  BY <1>5, EndAttemptTypes DEF ServeCancelled, TypeOK
<1>6. CASE CheckAttempt(c)
  <2>1. result[c] = "none" /\ attempts[c] \in 0..MaxRetries
    BY <1>6 DEF CheckAttempt, ConnInv, ConnInvAt, TypeOK
  <2>2. /\ result' \in [Conns -> Results \cup {"none"}]
        /\ pc' \in [Conns -> {"idle", "resolve", "dial", "serve", "check", "rotate",
                              "backoff", "first", "errch", "exited"}]
    BY <1>6, FinishTypes DEF CheckAttempt, TypeOK, Results
  <2>3. attempts' \in [Conns -> 0..(MaxRetries + 1)]
    <3>1. countFailure(c) \in 0..(MaxRetries + 1)
      BY <2>1, BridgeAssumption DEF countFailure
    <3>. QED
      BY <1>6, <3>1 DEF CheckAttempt, TypeOK
  <2>4. runErr' \in [Conns -> {"none", "nil", "build", "edge", "ctx"}]
    BY <1>6 DEF CheckAttempt, TypeOK
  <2>5. tracker' \in [Conns -> BOOLEAN]
    BY <1>6 DEF CheckAttempt, TypeOK
  <2>6. late' \in [Conns -> SUBSET {"tracker", "delegate", "signal"}]
    BY <1>6 DEF CheckAttempt, TypeOK
  <2>7. fuse' \in [Conns -> {"none", "tracker", "delegate", "signal"}]
    BY <1>6 DEF CheckAttempt, TypeOK
  <2>. QED
    BY <1>6, <2>2, <2>3, <2>4, <2>5, <2>6, <2>7 DEF CheckAttempt, TypeOK
<1>7. CASE RotateEdgeAddress(c)
  BY <1>7 DEF RotateEdgeAddress, TypeOK
<1>8. CASE WaitBackoff(c)
  BY <1>8, FinishTypes DEF WaitBackoff, TypeOK, Results
<1>9. CASE SendFirstResult(c) \/ SendErr(c)
  <2>1. result[c] \in Results
    BY <1>9 DEF SendFirstResult, SendErr, ConnInv, ConnInvAt, TypeOK
  <2>. QED
    BY <1>9, <2>1 DEF SendFirstResult, SendErr, TypeOK
<1>10. CASE TrackerConnected(c)
  <2>1. tracker' \in [Conns -> BOOLEAN]
    BY <1>10 DEF TrackerConnected, TypeOK
  <2>2. fuse' \in [Conns -> {"none", "tracker", "delegate", "signal"}]
    BY <1>10 DEF TrackerConnected, TypeOK
  <2>. QED
    BY <1>10, <2>1, <2>2 DEF TrackerConnected, TypeOK
<1>11. CASE DelegateConnected(c) \/ SignalConnected(c)
  <2>1. ready' \in BOOLEAN /\ firstConnected' \in BOOLEAN
    BY <1>11, Zenon DEF DelegateConnected, SignalConnected, TypeOK
  <2>. QED
    BY <1>11, <2>1 DEF DelegateConnected, SignalConnected, TypeOK
<1>12. CASE Register(c)
  <2>1. registered' \in [Conns -> BOOLEAN]
    BY <1>12 DEF Register, TypeOK
  <2>. QED
    BY <1>12, <2>1 DEF Register, TypeOK
<1>13. CASE ServeReturns(c)
  <2>1. PICK e \in InstanceReturns : endAttempt(c, e)
    BY <1>13 DEF ServeReturns
  <2>2. e \in {"nil", "build", "edge", "ctx"}
    BY BridgeAssumption
  <2>. QED
    BY <1>13, <2>1, <2>2, EndAttemptTypes DEF ServeReturns, TypeOK
<1>14. CASE LateConnected(c)
  <2>1. ready' \in BOOLEAN /\ firstConnected' \in BOOLEAN
    BY <1>14, Zenon DEF LateConnected
  <2>2. PICK at \in late[c] :
          late' = [late EXCEPT ![c] = (late[c] \ {at}) \cup lateAfter(c, at)]
    BY <1>14 DEF LateConnected
  <2>3. lateAfter(c, at) \subseteq {"tracker", "delegate", "signal"}
    BY DEF lateAfter
  <2>4. late' \in [Conns -> SUBSET {"tracker", "delegate", "signal"}]
    BY <2>2, <2>3 DEF TypeOK
  <2>. QED
    BY <1>14, <2>1, <2>4 DEF LateConnected, TypeOK
<1>. QED
  BY <1>1, <1>2, <1>3, <1>4, <1>5, <1>6, <1>7, <1>8, <1>9, <1>10, <1>11,
     <1>12, <1>13, <1>14 DEF ConnStep, Loop, Fuse

(* A step of one connection leaves the others, and main, alone.            *)
LEMMA OtherConns ==
  ASSUME TypeOK, PoolInv, NEW c \in Conns, ConnStep(c)
  PROVE  /\ \A d \in Conns \ {c} :
              /\ pc'[d] = pc[d] /\ usedBy'[d] = usedBy[d] /\ dialled'[d] = dialled[d]
              /\ result'[d] = result[d] /\ attempts'[d] = attempts[d]
              /\ fuse'[d] = fuse[d] /\ late'[d] = late[d]
              /\ tracker'[d] = tracker[d] /\ registered'[d] = registered[d]
              /\ streak'[d] = streak[d] /\ runErr'[d] = runErr[d]
         /\ UNCHANGED <<n, ctxDone, mainPc, next, ret, preferCtx, cancelled>>
         /\ pc[c] \in {"idle", "exited"} => pc'[c] = pc[c]
<1> USE DEF mainVars, chanVars, loopVars, fuseVars, poolVars, TypeOK
<1>0. usedBy \in [Conns -> Addr \cup {NoAddr}]
  BY PoolAddresses DEF PoolInv
<1>1. CASE Resolve(c)
  BY <1>0, <1>1 DEF Resolve, Pool!addrFor
<1>2. CASE ResolveFails(c)
  BY <1>2 DEF ResolveFails, Pool!addrForFails, Pool!poolVars, endAttempt
<1>3. CASE Dial(c) \/ DialFails(c) \/ ServeCancelled(c)
  BY <1>3 DEF Dial, DialFails, ServeCancelled, endAttempt
<1>4. CASE CheckAttempt(c)
  BY <1>4 DEF CheckAttempt, finish
<1>5. CASE RotateEdgeAddress(c)
  BY <1>0, <1>5 DEF RotateEdgeAddress, Pool!rotate
<1>6. CASE WaitBackoff(c) \/ SendFirstResult(c) \/ SendErr(c)
  BY <1>6 DEF WaitBackoff, SendFirstResult, SendErr, finish
<1>7. CASE TrackerConnected(c) \/ DelegateConnected(c) \/ SignalConnected(c)
  BY <1>7 DEF TrackerConnected, DelegateConnected, SignalConnected
<1>8. CASE Register(c) \/ ServeReturns(c)
  BY <1>8 DEF Register, ServeReturns, endAttempt
<1>9. CASE LateConnected(c)
  BY <1>9 DEF LateConnected
<1>. QED
  BY <1>1, <1>2, <1>3, <1>4, <1>5, <1>6, <1>7, <1>8, <1>9 DEF ConnStep, Loop, Fuse

(* The signals only go from not set to set, the channel after the fuse.    *)
LEMMA SignalsStay ==
  ASSUME ConnInv, NEW c \in Conns, ConnStep(c)
  PROVE  /\ ready => ready'
         /\ firstConnected => firstConnected'
         /\ firstConnected' => firstConnected \/ ready
<1> USE DEF mainVars, chanVars, loopVars, fuseVars
<1>1. CASE SignalConnected(c)
  BY <1>1 DEF SignalConnected, ConnInv, ConnInvAt
<1>2. CASE DelegateConnected(c)
  BY <1>2 DEF DelegateConnected
<1>3. CASE LateConnected(c)
  BY <1>3 DEF LateConnected, ConnInv, ConnInvAt
<1>4. CASE ~ SignalConnected(c) /\ ~ DelegateConnected(c) /\ ~ LateConnected(c)
  BY <1>4 DEF ConnStep, Loop, Fuse, Resolve, ResolveFails, Dial, DialFails,
              ServeCancelled, CheckAttempt, RotateEdgeAddress, WaitBackoff,
              SendFirstResult, SendErr, TrackerConnected, Register, ServeReturns
<1>. QED
  BY <1>1, <1>2, <1>3, <1>4

(* The step of a connection keeps the invariant of that connection.        *)
LEMMA ConnInvStep ==
  ASSUME TypeOK, PoolInv, NEW c \in Conns, ConnInvAt(c), ConnStep(c)
  PROVE  ConnInvAt(c)'
<1> USE DEF mainVars, chanVars, loopVars, fuseVars, poolVars, TypeOK, ConnInvAt
<1>0. usedBy \in [Conns -> Addr \cup {NoAddr}]
  BY PoolAddresses DEF PoolInv
<1>1. CASE Resolve(c)
  BY <1>0, <1>1 DEF Resolve, Pool!addrFor
<1>2. CASE ResolveFails(c)
  BY <1>2 DEF ResolveFails, Pool!addrForFails, Pool!poolVars, endAttempt
<1>3. CASE Dial(c) \/ DialFails(c) \/ ServeCancelled(c)
  BY <1>3 DEF Dial, DialFails, ServeCancelled, endAttempt
<1>4. CASE CheckAttempt(c)
  <2>1. countFailure(c) \in Int
    BY BridgeAssumption DEF countFailure
  <2>2. ~ exhausted(countFailure(c)) => countFailure(c) <= MaxRetries
    BY <2>1, BridgeAssumption DEF exhausted
  <2>. QED
    BY <1>4, <2>2 DEF CheckAttempt, finish
<1>5. CASE RotateEdgeAddress(c)
  BY <1>0, <1>5 DEF RotateEdgeAddress, Pool!rotate
<1>6. CASE WaitBackoff(c) \/ SendFirstResult(c) \/ SendErr(c)
  BY <1>6 DEF WaitBackoff, SendFirstResult, SendErr, finish
<1>7. CASE TrackerConnected(c) \/ DelegateConnected(c) \/ SignalConnected(c)
  BY <1>7 DEF TrackerConnected, DelegateConnected, SignalConnected
<1>8. CASE Register(c) \/ ServeReturns(c)
  BY <1>8 DEF Register, ServeReturns, endAttempt
<1>9. CASE LateConnected(c)
  <2>1. PICK at \in late[c] :
          /\ late' = [late EXCEPT ![c] = (late[c] \ {at}) \cup lateAfter(c, at)]
          /\ ready' = (ready \/ at = "delegate")
    BY <1>9 DEF LateConnected
  <2>2. "signal" \in lateAfter(c, at) => at = "delegate"
    BY DEF lateAfter
  <2>3. "signal" \in late'[c] => ready'
    BY <2>1, <2>2
  <2>. QED
    BY <1>9, <2>1, <2>3 DEF LateConnected
<1>. QED
  BY <1>1, <1>2, <1>3, <1>4, <1>5, <1>6, <1>7, <1>8, <1>9 DEF ConnStep, Loop, Fuse

(* The steps of main: it starts connections in order, after the first was  *)
(* ready, and returns when all have exited.                                *)
LEMMA MainControl ==
  ASSUME TypeOK, MainInv, ConnInv, Main
  PROVE  MainInv' /\ ConnInv'
<1> USE DEF mainVars, chanVars, loopVars, fuseVars, poolVars
<1>0. n \in Nat /\ next \in Nat /\ 0 \in Conns /\ Conns \subseteq Nat
  BY BridgeAssumption DEF TypeOK, Conns
<1>1. CASE Run
  <2>1. MainInv'
    BY <1>0, <1>1 DEF Run, MainInv, TypeOK
  <2>2. ConnInv'
    BY <1>0, <1>1 DEF Run, spawn, MainInv, TypeOK, ConnInv, ConnInvAt
  <2>. QED
    BY <2>1, <2>2
<1>2. CASE StartConnection
  <2>1. MainInv'
    BY <1>0, <1>2 DEF StartConnection, MainInv, TypeOK
  <2>2. ConnInv'
    BY <1>0, <1>2 DEF StartConnection, spawn, MainInv, TypeOK, ConnInv, ConnInvAt
  <2>. QED
    BY <2>1, <2>2
<1>3. CASE RunNoConnectorID \/ SingleReturn
  <2>1. allExited
    BY <1>0, <1>3 DEF RunNoConnectorID, SingleReturn, MainInv, TypeOK, ConnInv,
                      ConnInvAt, allExited
  <2>2. result[0] # "none" \/ mainPc = "start"
    BY <1>0, <1>3 DEF RunNoConnectorID, SingleReturn, ConnInv, ConnInvAt
  <2>3. MainInv'
    BY <1>3, <2>1, <2>2 DEF RunNoConnectorID, SingleReturn, MainInv, allExited
  <2>. QED
    BY <1>3, <2>3 DEF RunNoConnectorID, SingleReturn, ConnInv, ConnInvAt
<1>4. CASE AwaitFirst
  <2>1. MainInv'
    BY <1>0, <1>4 DEF AwaitFirst, drain, MainInv, TypeOK, Results
  <2>. QED
    BY <1>4, <2>1 DEF AwaitFirst, ConnInv, ConnInvAt
<1>5. CASE WaitRegistrationInterval
  <2>1. MainInv'
    BY <1>0, <1>5 DEF WaitRegistrationInterval, drain, MainInv, TypeOK, Results
  <2>. QED
    BY <1>5, <2>1 DEF WaitRegistrationInterval, ConnInv, ConnInvAt
<1>6. CASE AwaitAll
  <2>1. MainInv'
    BY <1>0, <1>6 DEF AwaitAll, drain, MainInv, TypeOK, Results, allExited
  <2>. QED
    BY <1>6, <2>1 DEF AwaitAll, ConnInv, ConnInvAt
<1>7. CASE Drain
  <2>1. MainInv'
    BY <1>0, <1>7 DEF Drain, MainInv, TypeOK, allExited
  <2>. QED
    BY <1>7, <2>1 DEF Drain, ConnInv, ConnInvAt
<1>. QED
  BY <1>1, <1>2, <1>3, <1>4, <1>5, <1>6, <1>7 DEF Main

ControlInv == TypeOK /\ MainInv /\ ConnInv

LEMMA ControlStep ==
  ASSUME ControlInv, PoolInv, PoolInv', [Next]_vars
  PROVE  ControlInv'
<1> USE DEF ControlInv
<1>1. CASE UNCHANGED vars
  BY <1>1 DEF vars, mainVars, chanVars, loopVars, fuseVars, poolVars, TypeOK,
              MainInv, allExited, ConnInv, ConnInvAt
<1>2. CASE Main
  BY <1>2, MainTypes, MainControl
<1>3. CASE CancelCtx
  <2>1. ctxDone' \in BOOLEAN
    BY <1>3, Zenon DEF CancelCtx
  <2>. QED
    BY <1>3, <2>1 DEF CancelCtx, mainVars, chanVars, loopVars, fuseVars, poolVars,
                      TypeOK, MainInv, allExited, ConnInv, ConnInvAt
<1>4. ASSUME NEW c \in Conns, ConnStep(c)
      PROVE  ControlInv'
  <2>1. TypeOK'
    BY <1>4, ConnTypes
  <2>2. ASSUME NEW d \in Conns
        PROVE  ConnInvAt(d)'
    <3>1. ConnInvAt(d)
      BY DEF ConnInv
    <3>2. CASE d = c
      BY <1>4, <3>1, <3>2, ConnInvStep
    <3>3. CASE d # c
      BY <1>4, <3>1, <3>3, OtherConns, SignalsStay DEF ConnInvAt
    <3>. QED
      BY <3>2, <3>3
  <2>3. MainInv'
    <3>1. allExited => allExited'
      BY <1>4, OtherConns DEF allExited
    <3>. QED
      BY <1>4, <3>1, OtherConns, SignalsStay DEF MainInv
  <2>. QED
    BY <2>1, <2>2, <2>3 DEF ConnInv
<1>. QED
  BY <1>1, <1>2, <1>3, <1>4, NextCases, Zenon

LEMMA InitControl ==
  ASSUME Init
  PROVE  ControlInv
<1>1. /\ ctxDone \in BOOLEAN /\ cancelled \in BOOLEAN /\ preferCtx \in BOOLEAN
      /\ firstConnected \in BOOLEAN /\ ready \in BOOLEAN
      /\ tracker \in [Conns -> BOOLEAN]
      /\ registered \in [Conns -> BOOLEAN]
  BY Zenon DEF Init
<1>2. n \in 1..maxHAConnections
  <2>1. PICK h \in HAConnections : n = normalizeHAConnections(h)
    BY DEF Init
  <2>2. h \in Int /\ maxHAConnections \in Int /\ maxHAConnections >= 1
    BY BridgeAssumption
  <2>. QED
    BY <2>1, <2>2 DEF normalizeHAConnections
<1>3. TypeOK
  BY <1>1, <1>2, BridgeAssumption DEF Init, TypeOK, Results
<1>4. MainInv
  BY DEF Init, MainInv, allExited
<1>5. ConnInv
  BY BridgeAssumption DEF Init, Pool!Init, ConnInv, ConnInvAt
<1>. QED
  BY <1>3, <1>4, <1>5 DEF ControlInv

LEMMA ControlHolds == Spec => []ControlInv
<1>1. Init => ControlInv
  BY InitControl
<1>2. ControlInv /\ PoolInv /\ PoolInv' /\ [Next]_vars => ControlInv'
  BY ControlStep
<1>. QED
  BY <1>1, <1>2, PoolInvHolds, PTL DEF Spec

(* The state of Run keeps its types; that the retry counter and the index  *)
(* of the next connection stay in range is part of it (Run,                *)
(* runConnectionWithRetry).                                                *)
THEOREM BridgeTypeCorrect == Spec => []TypeOK
<1>1. ControlInv => TypeOK
  BY DEF ControlInv
<1>. QED
  BY <1>1, ControlHolds, PTL

-----------------------------------------------------------------------------
(* The address of a live connection                                        *)

(* Counting: when the connections of Run hold every listed address, and    *)
(* there are at least n of these, no address is held twice.                *)
LEMMA EnoughAddresses ==
  ASSUME TypeOK, ConnInv, PoolInv, Cardinality(Pool!Listed(addrs)) >= n
  PROVE  PoolProofs!Distinct
<1> DEFINE B == PoolProofs!Bound
           U == PoolProofs!InUse
           f == [c \in B |-> usedBy[c]]
<1>1. CASE PoolProofs!InUse # PoolProofs!Listed(addrs)
  BY <1>1 DEF PoolInv, PoolProofs!Spread
<1>2. CASE PoolProofs!InUse = PoolProofs!Listed(addrs)
  <2>1. n \in Nat /\ next \in 0..n /\ n >= 1
    BY BridgeAssumption DEF TypeOK
  <2>2. B \subseteq 0..(n - 1)
    BY <2>1, BridgeAssumption DEF PoolProofs!Bound, ConnInv, ConnInvAt, Conns
  <2>3. IsFiniteSet(0..(n - 1)) /\ Cardinality(0..(n - 1)) = n
    BY <2>1, FS_Interval
  <2>4. IsFiniteSet(B) /\ Cardinality(B) <= n
    BY <2>2, <2>3, FS_Subset
  <2>5. f \in Surjection(B, U)
    BY Fun_IsSurj DEF PoolProofs!InUse
  <2> HIDE DEF B, U, f
  <2>6. /\ IsFiniteSet(U)
        /\ Cardinality(U) <= Cardinality(B)
        /\ Cardinality(U) = Cardinality(B) => f \in Injection(B, U)
    BY <2>4, <2>5, FS_Surjection
  <2>7. Cardinality(U) >= n
    BY <1>2 DEF U, PoolProofs!Listed, Pool!Listed
  <2>8. Cardinality(U) = Cardinality(B)
    <3>1. Cardinality(U) \in Nat /\ Cardinality(B) \in Nat
      BY <2>4, <2>6, FS_CardinalityType
    <3>. QED
      BY <2>1, <2>4, <2>6, <2>7, <3>1
  <2>9. \A c, d \in B : f[c] = f[d] => c = d
    BY <2>6, <2>8, Fun_InjectionProperties
  <2>. QED
    BY <2>9 DEF PoolProofs!Distinct, B, f
<1>. QED
  BY <1>1, <1>2

(* For every number of connections and every list with enough servers: no  *)
(* two connections that are dialling or serving are on the same server     *)
(* (edgeAddressPool, runConnectionWithRetry).                              *)
THEOREM LiveConnectionsDiffer == Spec => []LiveConnectionsApart
<1>1. ControlInv /\ PoolInv => LiveConnectionsApart
  <2> SUFFICES ASSUME ControlInv, PoolInv, Cardinality(Pool!Listed(addrs)) >= n,
                      NEW c \in Conns, NEW d \in Conns, c # d, dialled[c] # NoAddr
               PROVE  dialled[c] # dialled[d]
    BY DEF LiveConnectionsApart
  <2>1. PoolProofs!Distinct
    BY EnoughAddresses DEF ControlInv
  <2>2. /\ dialled[c] = usedBy[c]
        /\ dialled[d] # NoAddr => dialled[d] = usedBy[d]
    BY DEF ControlInv, ConnInv, ConnInvAt
  <2>. QED
    BY <2>1, <2>2 DEF PoolProofs!Distinct, PoolProofs!Bound
<1>. QED
  BY <1>1, ControlHolds, PoolInvHolds, PTL

-----------------------------------------------------------------------------
(* Cancellation                                                            *)

(* An error that stems from a context stems from the group's, and until    *)
(* main has chosen what to return nobody but the caller has cancelled it.  *)
CancelInv ==
  /\ cancelled => mainPc \in {"drain", "returned"}
  /\ ret = "ctx" => ctxDone
  /\ firstResult = "ctx" \/ errCh = "ctx" => groupDone
  /\ \A c \in Conns : result[c] = "ctx" => groupDone

LEMMA CancelStep ==
  ASSUME ControlInv, CancelInv, PoolInv, [Next]_vars
  PROVE  CancelInv'
<1> USE DEF mainVars, chanVars, loopVars, CancelInv, groupDone
<1>1. CASE UNCHANGED vars \/ CancelCtx
  BY <1>1 DEF vars, CancelCtx
<1>2. CASE Run \/ RunNoConnectorID \/ StartConnection
  BY <1>2 DEF Run, RunNoConnectorID, StartConnection
<1>3. CASE SingleReturn
  <2>1. 0 \in Conns
    BY BridgeAssumption DEF Conns
  <2>. QED
    BY <1>3, <2>1 DEF SingleReturn
<1>4. CASE AwaitFirst
  BY <1>4 DEF AwaitFirst, drain
<1>5. CASE WaitRegistrationInterval
  BY <1>5 DEF WaitRegistrationInterval, drain
<1>6. CASE AwaitAll
  BY <1>6 DEF AwaitAll, drain
<1>7. CASE Drain
  BY <1>7 DEF Drain
<1>8. ASSUME NEW c \in Conns, ConnStep(c)
      PROVE  CancelInv'
  <2>1. /\ \A d \in Conns \ {c} : result'[d] = result[d]
        /\ UNCHANGED <<ctxDone, mainPc, ret, cancelled>>
    BY <1>8, OtherConns DEF ControlInv
  <2>2. result'[c] = "ctx" => groupDone
    BY <1>8 DEF ConnStep, Loop, Fuse, Resolve, ResolveFails, Dial, DialFails,
                ServeCancelled, CheckAttempt, RotateEdgeAddress, WaitBackoff,
                SendFirstResult, SendErr, TrackerConnected, DelegateConnected,
                SignalConnected, LateConnected, Register, ServeReturns, finish, ControlInv, TypeOK
  <2>3. firstResult' = "ctx" \/ errCh' = "ctx" => groupDone
    BY <1>8 DEF ConnStep, Loop, Fuse, Resolve, ResolveFails, Dial, DialFails,
                ServeCancelled, CheckAttempt, RotateEdgeAddress, WaitBackoff,
                SendFirstResult, SendErr, TrackerConnected, DelegateConnected,
                SignalConnected, LateConnected, Register, ServeReturns
  <2>. QED
    BY <2>1, <2>2, <2>3
<1>. QED
  BY <1>1, <1>2, <1>3, <1>4, <1>5, <1>6, <1>7, <1>8, NextCases, Zenon DEF Main

(* Run never returns ctx.Err() of a context that nobody cancelled: its own *)
(* cancel() does not mask the failure that caused it (Run).                *)
THEOREM CancelIsNeverSpurious == Spec => []NoSpuriousCancel
<1>1. Init => CancelInv
  BY DEF Init, CancelInv
<1>2. ControlInv /\ CancelInv /\ PoolInv /\ [Next]_vars => CancelInv'
  BY CancelStep
<1>3. CancelInv => NoSpuriousCancel
  BY DEF CancelInv, NoSpuriousCancel
<1>. QED
  BY <1>1, <1>2, <1>3, ControlHolds, PoolInvHolds, PTL DEF Spec

-----------------------------------------------------------------------------
(* The retry budget                                                        *)

(***************************************************************************)
(* The counter never runs ahead of the failures since a connection was     *)
(* accepted.  Over QUIC an accepted connection ends by itself only after   *)
(* its Connected() call, so that the tracker knows of it; one that ends    *)
(* with the context is not counted.                                        *)
(***************************************************************************)
StreakInvAt(c) ==
  /\ registered[c] => /\ pc[c] = "serve"
                      /\ tracker[c] \/ fuse[c] = "tracker"
  /\ pc[c] \in {"idle", "resolve", "dial", "serve", "rotate", "backoff"} =>
       attempts[c] <= streak[c] + 1
  /\ pc[c] = "check" /\ runErr[c] = "edge" => tracker[c] \/ attempts[c] <= streak[c]
  /\ result[c] = "exhausted" => streak[c] >= MaxRetries

StreakInv == \A c \in Conns : StreakInvAt(c)

LEMMA StreakConnStep ==
  ASSUME Protocol = "quic", TypeOK, NEW c \in Conns, ConnInvAt(c), StreakInvAt(c),
         ConnStep(c)
  PROVE  StreakInvAt(c)'
<1> USE DEF mainVars, chanVars, loopVars, fuseVars, poolVars, TypeOK, StreakInvAt
<1>0. attempts[c] \in Nat /\ streak[c] \in Nat /\ MaxRetries \in Nat
  BY BridgeAssumption
<1>1. CASE Resolve(c)
  BY <1>1 DEF Resolve
<1>2. CASE ResolveFails(c) \/ DialFails(c) \/ ServeCancelled(c)
  BY <1>0, <1>2 DEF ResolveFails, DialFails, ServeCancelled, endAttempt, ConnInvAt
<1>3. CASE Dial(c)
  BY <1>3 DEF Dial
<1>4. CASE CheckAttempt(c)
  BY <1>0, <1>4 DEF CheckAttempt, finish, countFailure, exhausted, ConnInvAt
<1>5. CASE RotateEdgeAddress(c) \/ WaitBackoff(c)
  BY <1>5 DEF RotateEdgeAddress, WaitBackoff, finish
<1>6. CASE SendFirstResult(c) \/ SendErr(c)
  BY <1>6 DEF SendFirstResult, SendErr
<1>7. CASE TrackerConnected(c)
  BY <1>7 DEF TrackerConnected
<1>8. CASE DelegateConnected(c) \/ SignalConnected(c) \/ LateConnected(c) \/ Register(c)
  BY <1>8 DEF DelegateConnected, SignalConnected, LateConnected, Register
<1>9. CASE ServeReturns(c)
  BY <1>0, <1>9 DEF ServeReturns, endAttempt, ConnInvAt
<1>. QED
  BY <1>1, <1>2, <1>3, <1>4, <1>5, <1>6, <1>7, <1>8, <1>9 DEF ConnStep, Loop, Fuse

LEMMA StreakMainStep ==
  ASSUME TypeOK, MainInv, ConnInv, StreakInv, Main \/ CancelCtx \/ UNCHANGED vars
  PROVE  StreakInv'
<1>1. CASE Run \/ StartConnection
  <2>1. \A c \in Conns : pc[c] # "idle" => c < next
    BY DEF ConnInv, ConnInvAt, TypeOK
  <2>2. \A c \in Conns : pc'[c] = pc[c] \/ (pc[c] = "idle" /\ pc'[c] = "resolve")
    <3>1. CASE Run
      BY <2>1, <3>1, BridgeAssumption DEF Run, spawn, TypeOK, MainInv, Conns
    <3>2. CASE StartConnection
      BY <2>1, <3>2, BridgeAssumption DEF StartConnection, spawn, TypeOK, MainInv, Conns
    <3>. QED
      BY <1>1, <3>1, <3>2
  <2>. QED
    BY <1>1, <2>2 DEF Run, StartConnection, loopVars, fuseVars, TypeOK, StreakInv, StreakInvAt
<1>2. CASE ~ Run /\ ~ StartConnection
  <2>1. UNCHANGED <<loopVars, fuseVars>>
    BY <1>2 DEF Main, RunNoConnectorID, SingleReturn, AwaitFirst,
                WaitRegistrationInterval, AwaitAll, Drain, CancelCtx, vars
  <2>. QED
    BY <2>1 DEF loopVars, fuseVars, StreakInv, StreakInvAt
<1>. QED
  BY <1>1, <1>2

(* Over QUIC, for every retry budget: a connection is given up only after  *)
(* MaxRetries consecutive failures without one that the edge accepted      *)
(* (runConnectionWithRetry, connectTrackingFuse).                          *)
THEOREM GivesUpLate ==
  ASSUME Protocol = "quic"
  PROVE  Spec => []GivesUpOnlyAfterMaxRetries
<1>1. Init => StreakInv
  BY BridgeAssumption DEF Init, StreakInv, StreakInvAt
<1>2. ControlInv /\ PoolInv /\ StreakInv /\ [Next]_vars => StreakInv'
  <2> SUFFICES ASSUME ControlInv, PoolInv, StreakInv, [Next]_vars
               PROVE  StreakInv'
    OBVIOUS
  <2>1. CASE UNCHANGED vars \/ Main \/ CancelCtx
    BY <2>1, StreakMainStep DEF ControlInv
  <2>2. ASSUME NEW c \in Conns, ConnStep(c), NEW d \in Conns
        PROVE  StreakInvAt(d)'
    <3>1. StreakInvAt(d) /\ ConnInvAt(d)
      BY DEF StreakInv, ControlInv, ConnInv
    <3>2. CASE d = c
      BY <2>2, <3>1, <3>2, StreakConnStep DEF ControlInv
    <3>3. CASE d # c
      BY <2>2, <3>1, <3>3, OtherConns DEF StreakInvAt, ControlInv
    <3>. QED
      BY <3>2, <3>3
  <2>. QED
    BY <2>1, <2>2, NextCases, Zenon DEF StreakInv
<1>3. StreakInv => GivesUpOnlyAfterMaxRetries
  BY DEF StreakInv, StreakInvAt, GivesUpOnlyAfterMaxRetries
<1>. QED
  BY <1>1, <1>2, <1>3, ControlHolds, PoolInvHolds, PTL DEF Spec

-----------------------------------------------------------------------------
(* Retries move on                                                         *)

(* rotate leaves the address when another one is free.                     *)
LEMMA RotateMoves ==
  ASSUME PoolInv, NEW c \in Conns, Pool!rotate(c), usedBy[c] # NoAddr,
         Pool!Listed(addrs) \ Pool!InUse # {}
  PROVE  usedBy'[c] # usedBy[c]
<1> DEFINE released == [usedBy EXCEPT ![c] = NoAddr]
           unused   == PoolProofs!unusedAddrLocked(addrs, released, usedBy[c])
<1>1. /\ usedBy \in [Conns -> Addr \cup {NoAddr}]
      /\ addrs \in Seq(Addr) /\ resolved
  BY PoolAddresses DEF PoolInv, PoolProofs!TypeOK, PoolProofs!Listed
<1>2. usedBy' = [usedBy EXCEPT ![c] = IF unused # NoAddr THEN unused ELSE usedBy[c]]
  BY <1>1, PoolOperations DEF PoolProofs!rotate
<1>3. released \in [Conns -> Addr \cup {NoAddr}]
  BY <1>1
<1>4. PICK x \in PoolProofs!Listed(addrs) : x \notin Pool!InUse
  BY DEF Pool!Listed, PoolProofs!Listed
<1>5. x # NoAddr
  BY <1>1, <1>4, BridgeAssumption DEF PoolProofs!Listed
<1>6. x # usedBy[c] /\ \A d \in Conns : released[d] # x
  BY <1>1, <1>4, <1>5 DEF Pool!InUse, Pool!Bound
<1> HIDE DEF released
<1>7. /\ unused = NoAddr =>
           \A y \in PoolProofs!Listed(addrs) :
             y = usedBy[c] \/ \E d \in Conns : released[d] = y
      /\ unused # NoAddr => unused # usedBy[c]
  BY <1>1, <1>3, PoolProofs!UnusedAddr, PoolAssumptionHolds
<1>8. unused # NoAddr /\ unused # usedBy[c]
  BY <1>4, <1>6, <1>7
<1>. QED
  BY <1>1, <1>2, <1>8

(* After a failure a connection leaves its address whenever another one is *)
(* free (rotateEdgeAddress, rotate).                                       *)
THEOREM RetriesMoveOn == Spec => RetryMovesOn
<1>1. ASSUME ControlInv, PoolInv, [Next]_vars, NEW c \in Conns,
             pc[c] = "rotate", pc'[c] = "backoff", usedBy[c] # NoAddr,
             Pool!Listed(addrs) \ Pool!InUse # {}
      PROVE  usedBy'[c] # usedBy[c]
  <2>1. RotateEdgeAddress(c)
    <3> USE <1>1 DEF loopVars, ControlInv, TypeOK
    <3>1. ~ UNCHANGED vars /\ ~ CancelCtx
      BY <1>1 DEF vars, CancelCtx
    <3>2. ~ Main
      BY <1>1 DEF Main, Run, RunNoConnectorID, SingleReturn, AwaitFirst,
                  StartConnection, WaitRegistrationInterval, AwaitAll, Drain, spawn
    <3>3. PICK d \in Conns : ConnStep(d)
      BY <1>1, <3>1, <3>2, NextCases
    <3>4. d = c
      BY <1>1, <3>3, OtherConns
    <3>. QED
      BY <1>1, <3>3, <3>4 DEF ConnStep, Loop, Fuse, Resolve, ResolveFails, Dial,
         DialFails, ServeCancelled, CheckAttempt, WaitBackoff, SendFirstResult,
         SendErr, TrackerConnected, DelegateConnected, SignalConnected, LateConnected,
         Register, ServeReturns
  <2>. QED
    BY <1>1, <2>1, RotateMoves DEF RotateEdgeAddress
<1>2. ControlInv /\ PoolInv /\ [Next]_vars =>
        [\A c \in Conns :
           /\ pc[c] = "rotate" /\ pc'[c] = "backoff"
           /\ usedBy[c] # NoAddr
           /\ Pool!Listed(addrs) \ Pool!InUse # {}
           => usedBy'[c] # usedBy[c]]_vars
  BY <1>1
<1>. QED
  BY <1>2, ControlHolds, PoolInvHolds, PTL DEF Spec, RetryMovesOn

-----------------------------------------------------------------------------
(* The contract                                                            *)

(* The connections that are being dialled or served.                       *)
Opened == {c \in Conns : dialled[c] # NoAddr}

(* A step of main opens and closes nothing; it returns once, and only when *)
(* no connection is open.                                                  *)
LEMMA MainContract ==
  ASSUME ControlInv, ControlInv', Main
  PROVE  [Contract!Next]_(Contract!vars)
<1> USE DEF mainVars, chanVars, loopVars, fuseVars
<1>1. Opened' = Opened /\ ready' = ready
  BY DEF Main, Run, RunNoConnectorID, SingleReturn, AwaitFirst, StartConnection,
         WaitRegistrationInterval, AwaitAll, Drain, Opened
<1>2. mainPc # "returned"
  BY DEF Main, Run, RunNoConnectorID, SingleReturn, AwaitFirst, StartConnection,
         WaitRegistrationInterval, AwaitAll, Drain
<1>3. CASE mainPc' = "returned"
  <2>1. allExited'
    BY <1>3 DEF ControlInv, MainInv
  <2>2. Opened' = {}
    BY <2>1 DEF allExited, Opened, ControlInv, ConnInv, ConnInvAt
  <2>3. ret' \in Results
    BY <1>3 DEF ControlInv, MainInv, TypeOK
  <2>4. Contract!Return(ret')
    BY <1>1, <1>2, <1>3, <2>2, <2>3 DEF Contract!Return, Opened
  <2>. QED
    BY <2>3, <2>4 DEF Contract!Next, Results
<1>4. CASE mainPc' # "returned"
  BY <1>1, <1>2, <1>4 DEF Contract!vars, Opened
<1>. QED
  BY <1>3, <1>4

(* A step of a connection opens it, closes it, reports it ready, or is     *)
(* invisible.                                                              *)
LEMMA ConnContract ==
  ASSUME ControlInv, PoolInv, NEW c \in Conns, ConnStep(c)
  PROVE  [Contract!Next]_(Contract!vars)
<1> USE DEF mainVars, chanVars, loopVars, fuseVars
<1>0. /\ UNCHANGED <<mainPc, ret>>
      /\ \A d \in Conns \ {c} : dialled'[d] = dialled[d]
  BY OtherConns DEF ControlInv
<1>1. CASE Resolve(c)
  <2>1. dialled[c] = NoAddr /\ ready' = ready
    BY <1>1 DEF Resolve, ControlInv, ConnInv, ConnInvAt
  <2>2. CASE dialled'[c] = NoAddr
    BY <1>0, <2>1, <2>2 DEF Contract!vars
  <2>3. CASE dialled'[c] # NoAddr
    <3>1. mainPc # "returned"
      BY <1>1 DEF Resolve, ControlInv, MainInv, allExited
    <3>2. c # 0 => ready
      BY <1>1 DEF Resolve, ControlInv, ConnInv, ConnInvAt
    <3>3. Opened' = Opened \cup {c} /\ c \notin Opened
      BY <1>0, <2>1, <2>3 DEF Opened
    <3>4. Contract!Open(c)
      BY <1>0, <2>1, <3>1, <3>2, <3>3 DEF Contract!Open, Opened
    <3>. QED
      BY <3>4 DEF Contract!Next
  <2>. QED
    BY <2>2, <2>3
<1>2. CASE DelegateConnected(c)
  <2>1. Contract!Connected
    BY <1>0, <1>2 DEF DelegateConnected, Contract!Connected
  <2>. QED
    BY <2>1 DEF Contract!Next
<1>3. CASE LateConnected(c)
  <2>1. PICK at \in late[c] : ready' = (ready \/ at = "delegate")
    BY <1>3 DEF LateConnected
  <2>2. UNCHANGED dialled
    BY <1>3 DEF LateConnected
  <2>3. ready \in BOOLEAN
    BY DEF ControlInv, TypeOK
  <2>4. CASE at = "delegate"
    <3>1. ready' = TRUE
      BY <2>1, <2>4, Zenon
    <3>2. Contract!Connected
      BY <1>0, <2>2, <3>1 DEF Contract!Connected
    <3>. QED
      BY <3>2 DEF Contract!Next
  <2>5. CASE at # "delegate"
    <3>1. ready' = ready
      BY <2>1, <2>3, <2>5
    <3>. QED
      BY <1>0, <2>2, <3>1 DEF Contract!vars
  <2>. QED
    BY <2>4, <2>5
<1>4. CASE ~ Resolve(c) /\ ~ DelegateConnected(c) /\ ~ LateConnected(c)
  <2>1. /\ ready' = ready
        /\ dialled'[c] = dialled[c] \/ dialled'[c] = NoAddr
    BY <1>4 DEF ConnStep, Loop, Fuse, ResolveFails, Dial, DialFails,
         ServeCancelled, CheckAttempt, RotateEdgeAddress, WaitBackoff, SendFirstResult,
         SendErr, TrackerConnected, SignalConnected, Register, ServeReturns,
         endAttempt, ControlInv, TypeOK
  <2>2. CASE dialled'[c] = dialled[c]
    BY <1>0, <2>1, <2>2 DEF Contract!vars
  <2>3. CASE dialled'[c] # dialled[c]
    <3>1. Opened' = Opened \ {c} /\ c \in Opened
      BY <1>0, <2>1, <2>3 DEF Opened
    <3>2. Contract!Close(c)
      BY <1>0, <2>1, <3>1 DEF Contract!Close, Opened
    <3>. QED
      BY <3>2 DEF Contract!Next
  <2>. QED
    BY <2>2, <2>3
<1>. QED
  BY <1>1, <1>2, <1>3, <1>4

(* Run implements BridgeContract for every number of connections: the      *)
(* others are opened after the first was ready, and Run returns once, with *)
(* every connection closed (Run, runConnectionWithRetry).                  *)
THEOREM RunImplementsContract == Spec => ImplementsContract
<1>1. Init => Contract!Init
  BY DEF Init, Contract!Init
<1>2. ControlInv /\ ControlInv' /\ PoolInv /\ [Next]_vars =>
        [Contract!Next]_(Contract!vars)
  <2> SUFFICES ASSUME ControlInv, ControlInv', PoolInv, [Next]_vars
               PROVE  [Contract!Next]_(Contract!vars)
    OBVIOUS
  <2>1. CASE UNCHANGED vars \/ CancelCtx
    BY <2>1 DEF vars, CancelCtx, mainVars, loopVars, fuseVars, Contract!vars
  <2>. QED
    BY <2>1, MainContract, ConnContract, NextCases
<1>. QED
  BY <1>1, <1>2, ControlHolds, PoolInvHolds, PTL
     DEF Spec, ImplementsContract, Contract!Spec

=============================================================================
