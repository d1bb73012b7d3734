----------------------- MODULE HTTP2ConnectionProofs -----------------------
(***************************************************************************)
(* What holds of one HTTP/2 connection whatever the number of its streams  *)
(* and whatever they carry.                                                *)
(***************************************************************************)
EXTENDS HTTP2Connection, TLAPS

(* The steps of a handler and of what it depends on.                       *)
StreamStep(s) ==
  \/ NewStream(s) \/ EdgeEndsBody(s) \/ EdgeResetsStream(s) \/ OriginCloses(s)
  \/ Handler(s) \/ Outcome(s) \/ UpEnds(s) \/ DownEnds(s)

(* Case split of a step.                                                   *)
LEMMA NextCases ==
  ASSUME [Next]_vars
  PROVE  \/ UNCHANGED vars
         \/ Running /\ (Cancel \/ EdgeCloses \/ EdgeStopsReading \/ ServeConnReturns
                          \/ ServeReturns \/ Close)
         \/ Running /\ \E s \in Streams : StreamStep(s)
BY DEF Next, Terminating, StreamStep

(* The part of the type invariant that Return and Fails establish.         *)
ReturnTyped ==
  /\ pc' \in [Streams -> Pcs]
  /\ out' \in [Streams -> {"none", "end", "reset", "lost"}]
  /\ origin' \in [Streams -> {"none", "open", "peerClosed", "closed"}]
  /\ up' \in [Streams -> Results] /\ down' \in [Streams -> Results]
  /\ closer' \in {"ctx", "wait", "woken", "closing", "done", "panicked"}
  /\ UNCHANGED <<ctxDone, conn, serveConn, result, edgeReads, early>>

LEMMA ReturnType ==
  ASSUME TypeOK, NEW s \in Streams, NEW how \in {"end", "reset"}, Return(s, how)
  PROVE  ReturnTyped
<1> USE DEF TypeOK, Results, ControlPcs, Pcs, Return, ReturnTyped
<1>1. out' \in [Streams -> {"none", "end", "reset", "lost"}]
  <2>1. CASE StreamGone(s)
    BY <2>1
  <2>2. CASE ~StreamGone(s)
    BY <2>2
  <2>. QED
    BY <2>1, <2>2
<1>2. closer' \in {"ctx", "wait", "woken", "closing", "done", "panicked"}
  BY DEF closerAfterDone
<1>. QED
  BY <1>1, <1>2

LEMMA FailsType ==
  ASSUME TypeOK, NEW s \in Streams, Fails(s)
  PROVE  /\ pc' \in [Streams -> Pcs]
         /\ requestErr' \in [Streams -> BOOLEAN]
BY DEF TypeOK, ControlPcs, Pcs, Fails

LEMMA HeadersType ==
  ASSUME TypeOK, NEW s \in Streams, NEW status \in {"ok", "101", "502"},
         WriteRespHeaders(s, status)
  PROVE  /\ hdr' \in [Streams -> {"none", "ok", "502"}]
         /\ statusWritten' \in [Streams -> BOOLEAN]
BY DEF TypeOK, WriteRespHeaders

(* Every step keeps the types.                                             *)
LEMMA TypeStep ==
  ASSUME TypeOK, [Next]_vars
  PROVE  TypeOK'
<1> USE HTTP2Assumption
<1> USE DEF connVars, ctlVars, respVars, copyVars
<1>1. CASE UNCHANGED vars
  BY <1>1 DEF vars, TypeOK
<1>2. CASE Cancel
  <2>1. early' \subseteq Streams
    BY <1>2 DEF Cancel, Active
  <2>2. ctxDone' \in BOOLEAN
    BY <1>2, Zenon DEF Cancel
  <2>3. UNCHANGED <<conn, serveConn, result, closer, edgeReads, ctlVars, respVars,
                    copyVars, pc, connType, body>>
    BY <1>2 DEF Cancel
  <2>. QED
    BY <2>1, <2>2, <2>3 DEF TypeOK
<1>3. CASE EdgeCloses \/ EdgeStopsReading
  <2>1. CASE EdgeCloses
    BY <2>1 DEF EdgeCloses, TypeOK
  <2>2. CASE EdgeStopsReading
    <3>1. edgeReads' \in BOOLEAN
      BY <2>2, Zenon DEF EdgeStopsReading
    <3>2. UNCHANGED <<ctxDone, conn, serveConn, result, closer, early, ctlVars,
                      respVars, copyVars, pc, connType, body>>
      BY <2>2 DEF EdgeStopsReading
    <3>. QED
      BY <3>1, <3>2 DEF TypeOK
  <2>. QED
    BY <1>3, <2>1, <2>2
<1>4. CASE ServeConnReturns
  BY <1>4 DEF ServeConnReturns, TypeOK
<1>5. CASE ServeReturns
  BY <1>5 DEF ServeReturns, serveResult, TypeOK
<1>6. CASE Close
  BY <1>6 DEF Close, closeWaits, closeResumes, TypeOK
<1>7. ASSUME NEW s \in Streams, StreamStep(s)
      PROVE  TypeOK'
  <2> USE <1>7
  <2>1. CASE NewStream(s)
    BY <2>1 DEF NewStream, determineHTTP2Type, TypeOK, Types, Pcs
  <2>2. CASE EdgeEndsBody(s) \/ EdgeResetsStream(s) \/ OriginCloses(s)
    BY <2>2 DEF EdgeEndsBody, EdgeResetsStream, OriginCloses, TypeOK
  <2>3. CASE ServeHTTP(s)
    <3>1. pc' \in [Streams -> Pcs]
      BY <2>3 DEF ServeHTTP, TypeOK, Pcs, ControlPcs
    <3>2. hdr' \in [Streams -> {"none", "ok", "502"}]
      BY <2>3 DEF ServeHTTP, TypeOK
    <3>. QED
      BY <2>3, <3>1, <3>2 DEF ServeHTTP, TypeOK
  <2>4. CASE \/ SendLocalConfiguration(s) \/ waitForUnregister(s)
             \/ RegisterConnection(s) \/ Connected(s)
    <3>1. pc' \in [Streams -> Pcs]
      BY <2>4 DEF SendLocalConfiguration, waitForUnregister, RegisterConnection,
                  Connected, TypeOK, Pcs, ControlPcs
    <3>2. connected' \in BOOLEAN
      BY <2>4 DEF SendLocalConfiguration, waitForUnregister, RegisterConnection,
                  Connected, TypeOK
    <3>. QED
      BY <2>4, <3>1, <3>2 DEF SendLocalConfiguration, waitForUnregister,
                  RegisterConnection, Connected, TypeOK
  <2>5. CASE WriteErrorResponse(s)
    <3>1. ReturnTyped
      BY <2>5, ReturnType DEF WriteErrorResponse
    <3>2. /\ hdr' \in [Streams -> {"none", "ok", "502"}]
          /\ statusWritten' \in [Streams -> BOOLEAN]
      BY <2>5 DEF WriteErrorResponse, TypeOK
    <3>. QED
      BY <2>5, <3>1, <3>2 DEF WriteErrorResponse, ReturnTyped, TypeOK
  <2>6. CASE RegisterFails(s) \/ Unregister(s) \/ ConfigFails(s) \/ TCPDialFails(s)
    <3>1. Fails(s) /\ controlStreamErr' \in BOOLEAN
      BY <2>6 DEF RegisterFails, Unregister, ConfigFails, TCPDialFails, TypeOK
    <3>. QED
      BY <2>6, <3>1, FailsType
      DEF RegisterFails, Unregister, ConfigFails, TCPDialFails, TypeOK
  <2>7. CASE ConfigDecoded(s) \/ BodyDone(s)
    BY <2>7, ReturnType DEF ConfigDecoded, BodyDone, ReturnTyped, TypeOK
  <2>8. CASE OriginAnswers(s) \/ TCPDialed(s)
    BY <2>8, HeadersType DEF OriginAnswers, TCPDialed, TypeOK, Pcs
  <2>9. CASE OriginFails(s)
    BY <2>9, HeadersType, ReturnType, FailsType DEF OriginFails, ReturnTyped, TypeOK
  <2>10. CASE BodyFails(s)
    <3>1. CASE connType[s] = "http"
      <4>1. ReturnTyped
        BY <2>10, <3>1, ReturnType DEF BodyFails
      <4>2. requestErr' \in [Streams -> BOOLEAN]
        BY <2>10, <3>1 DEF BodyFails, TypeOK
      <4>. QED
        BY <2>10, <4>1, <4>2 DEF BodyFails, ReturnTyped, TypeOK
    <3>2. CASE connType[s] # "http"
      <4>1. Fails(s) /\ UNCHANGED <<connVars, out, copyVars>>
        BY <2>10, <3>2 DEF BodyFails
      <4>. QED
        BY <2>10, <4>1, FailsType DEF BodyFails, TypeOK
    <3>. QED
      BY <3>1, <3>2
  <2>11. CASE WebsocketDone(s)
    BY <2>11, ReturnType, FailsType DEF WebsocketDone, ReturnTyped, TypeOK
  <2>12. CASE ProxyTCPReturns(s)
    BY <2>12, ReturnType, FailsType DEF ProxyTCPReturns, ReturnTyped, TypeOK
  <2>13. CASE UpEnds(s) \/ UpWriteFails(s)
    BY <2>13 DEF UpEnds, UpWriteFails, TypeOK, Results
  <2>14. CASE DownEnds(s) \/ DownWriteFails(s)
    BY <2>14 DEF DownEnds, DownWriteFails, TypeOK, Results
  <2>15. CASE ProxyTCPSelect(s)
    BY <2>15 DEF ProxyTCPSelect, stopReadWriteAckerRead, TypeOK, Pcs
  <2>. QED
    BY <2>1, <2>2, <2>3, <2>4, <2>5, <2>6, <2>7, <2>8, <2>9, <2>10,
       <2>11, <2>12, <2>13, <2>14, <2>15 DEF StreamStep, Handler, Outcome
<1>. QED
  BY <1>1, <1>2, <1>3, <1>4, <1>5, <1>6, <1>7, NextCases, Zenon

(* The fields of a served connection keep their types                      *)
(* (RuntimeHTTP2Connection, runtimeHTTP2RespWriter).                       *)
THEOREM HTTP2TypeCorrect == Spec => []TypeOK
<1>1. ASSUME Init PROVE TypeOK
  <2>1. /\ statusWritten \in [Streams -> BOOLEAN]
        /\ requestErr \in [Streams -> BOOLEAN]
    BY <1>1, Zenon DEF Init
  <2>2. /\ ctxDone \in BOOLEAN /\ edgeReads \in BOOLEAN /\ connected \in BOOLEAN
        /\ controlStreamErr \in BOOLEAN
    BY <1>1, Zenon DEF Init
  <2>3. /\ pc \in [Streams -> Pcs]
        /\ connType \in [Streams -> Types]
        /\ up \in [Streams -> Results] /\ down \in [Streams -> Results]
    BY <1>1 DEF Init, Pcs, Types, Results
  <2>. QED
    BY <1>1, <2>1, <2>2, <2>3 DEF Init, TypeOK
<1>2. TypeOK /\ [Next]_vars => TypeOK'
  BY TypeStep
<1>. QED
  BY <1>1, <1>2, PTL DEF Spec

-----------------------------------------------------------------------------
(* Shutdown *)

(* Inductive strengthening of LocalCloseSparesRequests and of              *)
(* PanicNeedsLateAdd: once Wait has been released or has returned, no      *)
(* early handler is left, and a handler that has ended does not come back. *)
ShutdownInv ==
  /\ ~ctxDone => closer = "ctx" /\ early = {}
  /\ conn = "local" => closer = "done"
  /\ closer \in {"woken", "closing", "done"} => early \cap Active = {}
  /\ \A s \in early : pc[s] \notin {"idle", "spawned"}
  /\ PanicNeedsLateAdd

(* A handler only moves forward, and only its end may release Wait.        *)
LEMMA StreamMoves ==
  ASSUME TypeOK, NEW s \in Streams, StreamStep(s)
  PROVE  /\ \A t \in Streams \ {s} : pc'[t] = pc[t]
         /\ pc[s] = "idle" => pc'[s] \in {"idle", "spawned"}
         /\ pc[s] \notin {"idle", "spawned"} => pc'[s] \notin {"idle", "spawned"}
         /\ pc[s] = "done" => pc'[s] = "done"
         /\ \/ closer' = closer
            \/ pc'[s] = "done" /\ closer' = closerAfterDone(s)
         /\ UNCHANGED <<ctxDone, conn, early>>
<1> USE DEF connVars, ctlVars, respVars, copyVars
<1>1. CASE NewStream(s)
  BY <1>1 DEF NewStream, TypeOK
<1>2. CASE EdgeEndsBody(s) \/ EdgeResetsStream(s) \/ OriginCloses(s)
  BY <1>2 DEF EdgeEndsBody, EdgeResetsStream, OriginCloses, TypeOK
<1>3. CASE ServeHTTP(s)
  BY <1>3 DEF ServeHTTP, TypeOK
<1>4. CASE SendLocalConfiguration(s) \/ waitForUnregister(s)
  BY <1>4 DEF SendLocalConfiguration, waitForUnregister, TypeOK
<1>5. CASE RegisterConnection(s) \/ Connected(s)
  BY <1>5 DEF RegisterConnection, Connected, TypeOK
<1>6. CASE WriteErrorResponse(s)
  BY <1>6 DEF WriteErrorResponse, Return, TypeOK
<1>7. CASE RegisterFails(s) \/ Unregister(s)
  BY <1>7 DEF RegisterFails, Unregister, Fails, TypeOK
<1>8. CASE ConfigFails(s) \/ TCPDialFails(s)
  BY <1>8 DEF ConfigFails, TCPDialFails, Fails, TypeOK
<1>9. CASE ConfigDecoded(s) \/ BodyDone(s)
  BY <1>9 DEF ConfigDecoded, BodyDone, Return, TypeOK
<1>10. CASE OriginAnswers(s) \/ TCPDialed(s)
  BY <1>10 DEF OriginAnswers, TCPDialed, TypeOK
<1>11. CASE OriginFails(s)
  BY <1>11 DEF OriginFails, Return, Fails, TypeOK
<1>12. CASE BodyFails(s)
  BY <1>12 DEF BodyFails, Return, Fails, TypeOK
<1>13. CASE WebsocketDone(s)
  BY <1>13 DEF WebsocketDone, Return, Fails, TypeOK
<1>14. CASE ProxyTCPReturns(s)
  BY <1>14 DEF ProxyTCPReturns, Return, Fails, TypeOK
<1>15. CASE UpEnds(s) \/ UpWriteFails(s) \/ DownEnds(s) \/ DownWriteFails(s)
  BY <1>15 DEF UpEnds, UpWriteFails, DownEnds, DownWriteFails, TypeOK
<1>16. CASE ProxyTCPSelect(s)
  BY <1>16 DEF ProxyTCPSelect, TypeOK
<1>. QED
  BY <1>1, <1>2, <1>3, <1>4, <1>5, <1>6, <1>7, <1>8, <1>9, <1>10, <1>11,
     <1>12, <1>13, <1>14, <1>15, <1>16 DEF StreamStep, Handler, Outcome

LEMMA ShutdownStep ==
  ASSUME TypeOK, ShutdownInv, [Next]_vars
  PROVE  ShutdownInv'
<1> USE DEF connVars, ctlVars, respVars, copyVars
<1>1. CASE UNCHANGED vars
  BY <1>1 DEF vars, ShutdownInv, PanicNeedsLateAdd, Active
<1>2. CASE Cancel
  BY <1>2 DEF Cancel, ShutdownInv, PanicNeedsLateAdd, Active
<1>3. CASE Running /\ (EdgeCloses \/ EdgeStopsReading \/ ServeConnReturns
                         \/ ServeReturns)
  BY <1>3 DEF EdgeCloses, EdgeStopsReading, ServeConnReturns, ServeReturns,
              ShutdownInv, PanicNeedsLateAdd, Active, Running
<1>4. CASE Running /\ Close
  BY <1>4 DEF Close, closeWaits, closeResumes, Running, ShutdownInv,
              PanicNeedsLateAdd, Active, TypeOK
<1>5. ASSUME Running, NEW s \in Streams, StreamStep(s)
      PROVE  ShutdownInv'
  <2>1. /\ \A t \in Streams \ {s} : pc'[t] = pc[t]
        /\ pc[s] = "idle" => pc'[s] \in {"idle", "spawned"}
        /\ pc[s] \notin {"idle", "spawned"} => pc'[s] \notin {"idle", "spawned"}
        /\ pc[s] = "done" => pc'[s] = "done"
        /\ \/ closer' = closer
           \/ pc'[s] = "done" /\ closer' = closerAfterDone(s)
        /\ UNCHANGED <<ctxDone, conn, early>>
    BY <1>5, StreamMoves
  <2>2. early \subseteq Streams
    BY DEF TypeOK
  <2>3. early \cap Active' \subseteq early \cap Active
    BY <2>1, <2>2 DEF ShutdownInv, Active
  <2>4. CASE closer' = closer
    BY <1>5, <2>1, <2>2, <2>3, <2>4 DEF ShutdownInv, PanicNeedsLateAdd, Running
  <2>5. CASE pc'[s] = "done" /\ closer' = closerAfterDone(s) /\ closer' # closer
    <3>1. closer = "wait" /\ Active = {s} /\ closer' = "woken"
      BY <2>5 DEF closerAfterDone
    <3>2. Active' = {}
      BY <2>1, <2>5, <3>1 DEF Active
    <3>. QED
      BY <2>1, <2>2, <3>1, <3>2 DEF ShutdownInv, PanicNeedsLateAdd
  <2>. QED
    BY <2>1, <2>4, <2>5
<1>. QED
  BY <1>1, <1>2, <1>3, <1>4, <1>5, NextCases, Zenon

(* For every number of streams: a local close never cuts off a handler     *)
(* that was at work when the context was done (close).                     *)
THEOREM LocalCloseIsGraceful == Spec => []LocalCloseSparesRequests
<1>1. Init => ShutdownInv
  BY DEF Init, ShutdownInv, PanicNeedsLateAdd
<1>2. TypeOK /\ ShutdownInv /\ [Next]_vars => ShutdownInv'
  BY ShutdownStep
<1>3. ShutdownInv => LocalCloseSparesRequests
  BY DEF ShutdownInv, LocalCloseSparesRequests
<1>. QED
  BY <1>1, <1>2, <1>3, HTTP2TypeCorrect, PTL DEF Spec

(* For every number of streams: the WaitGroup panics only when none of the *)
(* handlers that had counted themselves by the cancellation is left and    *)
(* one that counted itself afterwards is at work (close, ServeHTTP).       *)
THEOREM PanicIsLate == Spec => []PanicNeedsLateAdd
<1>1. Init => ShutdownInv
  BY DEF Init, ShutdownInv, PanicNeedsLateAdd
<1>2. TypeOK /\ ShutdownInv /\ [Next]_vars => ShutdownInv'
  BY ShutdownStep
<1>3. ShutdownInv => PanicNeedsLateAdd
  BY DEF ShutdownInv
<1>. QED
  BY <1>1, <1>2, <1>3, HTTP2TypeCorrect, PTL DEF Spec

-----------------------------------------------------------------------------
(* Failures are visible *)

(* Inductive strengthening of FailureIsVisible: while a data stream is     *)
(* being handled, statusWritten knows of every header the edge has.        *)
VisibleAt(s) ==
  /\ pc[s] \in {"idle", "spawned"} => hdr[s] = "none"
  /\ pc[s] # "done" => out[s] = "none"
  /\ requestErr[s] => pc[s] \in {"fail", "done"}
  /\ pc[s] \in ControlPcs => connType[s] = "control"
  /\ (pc[s] # "done" /\ connType[s] # "control" /\ hdr[s] # "none") => statusWritten[s]
  /\ (requestErr[s] /\ out[s] = "end" /\ connType[s] # "control") => hdr[s] = "502"

VisibleInv == \A s \in Streams : VisibleAt(s)

(* A step of one stream leaves the others alone.                           *)
LEMMA OtherStreams ==
  ASSUME TypeOK, NEW s \in Streams, StreamStep(s), NEW t \in Streams, t # s
  PROVE  /\ pc'[t] = pc[t] /\ connType'[t] = connType[t] /\ hdr'[t] = hdr[t]
         /\ out'[t] = out[t] /\ requestErr'[t] = requestErr[t]
         /\ statusWritten'[t] = statusWritten[t]
<1> USE DEF connVars, ctlVars, respVars, copyVars
<1>1. CASE NewStream(s) \/ ServeHTTP(s)
  BY <1>1 DEF NewStream, ServeHTTP, TypeOK
<1>2. CASE EdgeEndsBody(s) \/ EdgeResetsStream(s) \/ OriginCloses(s)
  BY <1>2 DEF EdgeEndsBody, EdgeResetsStream, OriginCloses
<1>3. CASE \/ SendLocalConfiguration(s) \/ waitForUnregister(s)
           \/ RegisterConnection(s) \/ Connected(s)
  BY <1>3 DEF SendLocalConfiguration, waitForUnregister, RegisterConnection, Connected,
              TypeOK
<1>4. CASE WriteErrorResponse(s)
  BY <1>4 DEF WriteErrorResponse, Return, TypeOK
<1>5. CASE RegisterFails(s) \/ Unregister(s) \/ ConfigFails(s) \/ TCPDialFails(s)
  BY <1>5 DEF RegisterFails, Unregister, ConfigFails, TCPDialFails, Fails, TypeOK
<1>6. CASE ConfigDecoded(s) \/ BodyDone(s)
  BY <1>6 DEF ConfigDecoded, BodyDone, Return, TypeOK
<1>7. CASE OriginAnswers(s) \/ TCPDialed(s)
  BY <1>7 DEF OriginAnswers, TCPDialed, WriteRespHeaders, TypeOK
<1>8. CASE OriginFails(s)
  BY <1>8 DEF OriginFails, WriteRespHeaders, Return, Fails, TypeOK
<1>9. CASE BodyFails(s)
  BY <1>9 DEF BodyFails, Return, Fails, TypeOK
<1>10. CASE WebsocketDone(s) \/ ProxyTCPReturns(s)
  BY <1>10 DEF WebsocketDone, ProxyTCPReturns, Return, Fails, TypeOK
<1>11. CASE UpEnds(s) \/ UpWriteFails(s) \/ DownEnds(s) \/ DownWriteFails(s)
  BY <1>11 DEF UpEnds, UpWriteFails, DownEnds, DownWriteFails
<1>12. CASE ProxyTCPSelect(s)
  BY <1>12 DEF ProxyTCPSelect, TypeOK
<1>. QED
  BY <1>1, <1>2, <1>3, <1>4, <1>5, <1>6, <1>7, <1>8, <1>9, <1>10, <1>11,
     <1>12 DEF StreamStep, Handler, Outcome

(* The step of a stream keeps the invariant of that stream.                *)
LEMMA VisibleStreamStep ==
  ASSUME TypeOK, NEW s \in Streams, VisibleAt(s), StreamStep(s)
  PROVE  VisibleAt(s)'
<1> USE DEF connVars, ctlVars, respVars, copyVars, ControlPcs, VisibleAt
<1>1. CASE NewStream(s)
  BY <1>1 DEF NewStream, TypeOK
<1>2. CASE ServeHTTP(s)
  BY <1>2 DEF ServeHTTP, TypeOK
<1>3. CASE EdgeEndsBody(s) \/ EdgeResetsStream(s) \/ OriginCloses(s)
  BY <1>3 DEF EdgeEndsBody, EdgeResetsStream, OriginCloses
<1>4. CASE SendLocalConfiguration(s) \/ waitForUnregister(s)
  BY <1>4 DEF SendLocalConfiguration, waitForUnregister, TypeOK
<1>5. CASE RegisterConnection(s) \/ Connected(s)
  BY <1>5 DEF RegisterConnection, Connected, TypeOK
<1>6. CASE WriteErrorResponse(s)
  BY <1>6 DEF WriteErrorResponse, Return, TypeOK
<1>7. CASE RegisterFails(s) \/ Unregister(s)
  BY <1>7 DEF RegisterFails, Unregister, Fails, TypeOK
<1>8. CASE ConfigFails(s) \/ TCPDialFails(s)
  BY <1>8 DEF ConfigFails, TCPDialFails, Fails, TypeOK
<1>9. CASE ConfigDecoded(s) \/ BodyDone(s)
  BY <1>9 DEF ConfigDecoded, BodyDone, Return, TypeOK
<1>10. CASE OriginAnswers(s) \/ TCPDialed(s)
  BY <1>10 DEF OriginAnswers, TCPDialed, WriteRespHeaders, TypeOK
<1>11. CASE OriginFails(s)
  BY <1>11 DEF OriginFails, WriteRespHeaders, Return, Fails, TypeOK
<1>12. CASE BodyFails(s)
  BY <1>12 DEF BodyFails, Return, Fails, TypeOK
<1>13. CASE WebsocketDone(s)
  BY <1>13 DEF WebsocketDone, Return, Fails, TypeOK
<1>14. CASE ProxyTCPReturns(s)
  BY <1>14 DEF ProxyTCPReturns, Return, Fails, TypeOK
<1>15. CASE UpEnds(s) \/ UpWriteFails(s) \/ DownEnds(s) \/ DownWriteFails(s)
  BY <1>15 DEF UpEnds, UpWriteFails, DownEnds, DownWriteFails
<1>16. CASE ProxyTCPSelect(s)
  BY <1>16 DEF ProxyTCPSelect, TypeOK
<1>. QED
  BY <1>1, <1>2, <1>3, <1>4, <1>5, <1>6, <1>7, <1>8, <1>9, <1>10, <1>11,
     <1>12, <1>13, <1>14, <1>15, <1>16 DEF StreamStep, Handler, Outcome

(* For every number of streams: a request that failed is never taken for a *)
(* complete answer by the edge (ServeHTTP, WriteErrorResponse).            *)
THEOREM FailuresAreVisible == Spec => []FailureIsVisible
<1>1. Init => VisibleInv
  BY DEF Init, VisibleInv, VisibleAt, ControlPcs
<1>2. TypeOK /\ VisibleInv /\ [Next]_vars => VisibleInv'
  <2> SUFFICES ASSUME TypeOK, VisibleInv, [Next]_vars, NEW t \in Streams
               PROVE  VisibleAt(t)'
    BY DEF VisibleInv
  <2>1. VisibleAt(t)
    BY DEF VisibleInv
  <2>2. CASE UNCHANGED vars
    BY <2>1, <2>2 DEF vars, respVars, VisibleAt
  <2>3. CASE \/ Cancel \/ EdgeCloses \/ EdgeStopsReading \/ ServeConnReturns
             \/ ServeReturns \/ Close
    BY <2>1, <2>3 DEF Cancel, EdgeCloses, EdgeStopsReading, ServeConnReturns,
                      ServeReturns, Close, respVars, VisibleAt
  <2>4. ASSUME NEW s \in Streams, StreamStep(s)
        PROVE  VisibleAt(t)'
    <3>1. CASE s = t
      BY <2>1, <2>4, <3>1, VisibleStreamStep
    <3>2. CASE s # t
      BY <2>1, <2>4, <3>2, OtherStreams DEF VisibleAt
    <3>. QED
      BY <3>1, <3>2
  <2>. QED
    BY <2>2, <2>3, <2>4, NextCases, Zenon
<1>3. VisibleInv => FailureIsVisible
  BY DEF VisibleInv, VisibleAt, FailureIsVisible
<1>. QED
  BY <1>1, <1>2, <1>3, HTTP2TypeCorrect, PTL DEF Spec
=============================================================================
