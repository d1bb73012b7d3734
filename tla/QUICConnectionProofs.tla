------------------------ MODULE QUICConnectionProofs ------------------------
(***************************************************************************)
(* What holds of one QUIC connection whatever the number of streams that   *)
(* the edge opens and whatever they carry.                                 *)
(***************************************************************************)
EXTENDS QUICConnection, TLAPS

(* The steps of a stream and of what it depends on.                        *)
StreamStep(s) ==
  \/ NewStream(s) \/ EdgeEndsStream(s) \/ EdgeStopsReading(s)
  \/ OriginCloses(s) \/ Handler(s) \/ Outcome(s)

(* The steps of the connection: no stream moves.                           *)
ConnStep == Cancel \/ EdgeCloses \/ Server \/ RegisterConnection

(* Case split of a step.                                                   *)
LEMMA NextCases ==
  ASSUME [Next]_vars
  PROVE  UNCHANGED vars \/ ConnStep \/ \E s \in Streams : StreamStep(s)
BY DEF Next, Terminating, StreamStep, ConnStep

(***************************************************************************)
(* Inductive strengthening of the properties of a stream.  A request has   *)
(* been answered at most once, and only the flag connectResponseSent tells *)
(* handleDataStream so; only ReverseProxy, of a request that it upgraded   *)
(* without a response, leaves a copy running; and a sending half that is still whole when a failed     *)
(* handler has returned carries the error.                                 *)
(***************************************************************************)
StreamInvAt(s) ==
  /\ responses[s] \in {<<>>, <<"ok">>, <<"error">>}
  /\ pc[s] \in {"idle", "signature", "request", "rpc", "origin"} =>
       responses[s] = <<>>
  /\ pc[s] = "fail" /\ ~connectResponseSent[s] => responses[s] = <<>>
  /\ pc[s] \in {"body", "drain", "drainCtx"} => connectResponseSent[s]
  /\ pc[s] = "copy" => connectResponseSent[s] \/ kind[s] = "http"
  /\ "run" \in {up[s], down[s]} =>
       \/ pc[s] \in {"copy", "drain", "drainCtx"}
       \/ pc[s] \in {"closing", "done"} /\ kind[s] = "http" /\ ~connectResponseSent[s]
  /\ failed[s] => pc[s] \in {"fail", "closing", "done"}
  /\ send[s] = "fin" => pc[s] = "done"
  /\ send[s] = "reset" => pc[s] \in {"closing", "done"}
  /\ failed[s] /\ pc[s] = "closing" /\ send[s] = "open" => responses[s] = <<"error">>
  /\ failed[s] /\ send[s] = "fin" => responses[s] = <<"error">>

StreamInv == \A s \in Streams : StreamInvAt(s)

(* The sequences of responses, as the provers need them.                   *)
LEMMA Responses ==
  /\ Append(<<>>, "ok") = <<"ok">> /\ Append(<<>>, "error") = <<"error">>
  /\ <<"ok">> # <<>> /\ <<"error">> # <<>> /\ <<"ok">> # <<"error">>
  /\ Len(<<>>) <= 1 /\ Len(<<"ok">>) <= 1 /\ Len(<<"error">>) <= 1
OBVIOUS

(* A step of the connection leaves the streams alone and keeps the types   *)
(* of the connection's own state.                                          *)
LEMMA ConnSteps ==
  ASSUME TypeOK, ConnStep
  PROVE  TypeOK' /\ UNCHANGED streamVars
<1> USE DEF groupVars
<1>1. CASE Cancel \/ EdgeCloses
  <2>1. UNCHANGED streamVars
    BY <1>1 DEF Cancel, EdgeCloses
  <2>2. ctxDone' \in BOOLEAN
    BY <1>1, Zenon DEF Cancel, EdgeCloses, TypeOK
  <2>. QED
    BY <1>1, <2>1, <2>2 DEF Cancel, EdgeCloses, TypeOK, streamVars, replyVars, copyVars
<1>2. CASE ListenUDP \/ dialQUIC \/ Setup \/ Run
  <2>1. UNCHANGED streamVars
    BY <1>2 DEF ListenUDP, dialQUIC, Setup, Run
  <2>. QED
    BY <1>2, <2>1 DEF ListenUDP, dialQUIC, Setup, Run, CloseWithError, TypeOK,
                      streamVars, replyVars, copyVars
<1>3. CASE ServeOpens \/ ServeReturns
  <2>1. UNCHANGED streamVars
    BY <1>3 DEF ServeOpens, ServeReturns
  <2>. QED
    BY <1>3, <2>1 DEF ServeOpens, ServeReturns, CloseWithError, TypeOK,
                      streamVars, replyVars, copyVars
<1>4. CASE Connected
  <2>1. UNCHANGED streamVars
    BY <1>4 DEF Connected
  <2>2. connected' \in BOOLEAN
    BY <1>4, Zenon DEF Connected
  <2>3. control' \in {"localConfig", "wait"}
    BY <1>4 DEF Connected
  <2>. QED
    BY <1>4, <2>1, <2>2, <2>3 DEF Connected, TypeOK, streamVars, replyVars, copyVars
<1>5. CASE \/ RegisterConnection \/ RegisterFails \/ ControlStep \/ acceptStream
           \/ datagramServe
  <2>1. UNCHANGED streamVars
    BY <1>5 DEF RegisterConnection, RegisterFails, ControlStep, acceptStream,
                datagramServe
  <2>. QED
    BY <1>5, <2>1 DEF RegisterConnection, RegisterFails, ControlStep, acceptStream,
                      datagramServe, TypeOK, streamVars, replyVars, copyVars
<1>. QED
  BY <1>1, <1>2, <1>3, <1>4, <1>5 DEF ConnStep, Server

-----------------------------------------------------------------------------
(* The part of the type invariant that a step of a stream can disturb.     *)
StreamTypes ==
  /\ pc \in [Streams -> Pcs] /\ kind \in [Streams -> Kinds]
  /\ recv \in [Streams -> {"open", "ended", "reset"}]
  /\ send \in [Streams -> {"open", "fin", "reset", "stopped"}]
  /\ responses \in [Streams -> {<<>>, <<"ok">>, <<"error">>, <<"ok", "error">>}]
  /\ connectResponseSent \in [Streams -> BOOLEAN]
  /\ failed \in [Streams -> BOOLEAN]
  /\ origin \in [Streams -> {"none", "open", "peerClosed", "closed"}]
  /\ up \in [Streams -> Results] /\ down \in [Streams -> Results]

LEMMA ReturnTypes ==
  ASSUME StreamTypes, NEW s \in Streams, Return(s)
  PROVE  /\ pc' \in [Streams -> Pcs]
         /\ origin' \in [Streams -> {"none", "open", "peerClosed", "closed"}]
BY DEF StreamTypes, Return, Pcs

LEMMA FailsTypes ==
  ASSUME StreamTypes, NEW s \in Streams, Fails(s)
  PROVE  /\ pc' \in [Streams -> Pcs]
         /\ failed' \in [Streams -> BOOLEAN]
<1>1. pc' \in [Streams -> Pcs]
  BY DEF StreamTypes, Fails, Pcs
<1>2. failed' \in [Streams -> BOOLEAN]
  BY DEF StreamTypes, Fails
<1>. QED
  BY <1>1, <1>2

LEMMA CancelWriteTypes ==
  ASSUME StreamTypes, NEW s \in Streams, CancelWrite(s)
  PROVE  send' \in [Streams -> {"open", "fin", "reset", "stopped"}]
BY DEF StreamTypes, CancelWrite

LEMMA RejectedTypes ==
  ASSUME StreamTypes, NEW s \in Streams, Rejected(s)
  PROVE  StreamTypes'
<1>1. failed' \in [Streams -> BOOLEAN]
  BY DEF StreamTypes, Rejected
<1>. QED
  BY <1>1, ReturnTypes, CancelWriteTypes DEF StreamTypes, Rejected

(* The first, and only, response of a stream.                              *)
LEMMA FirstResponse ==
  ASSUME StreamTypes, NEW s \in Streams, responses[s] = <<>>, NEW r \in {"ok", "error"},
         responses' = [responses EXCEPT ![s] = Append(@, r)]
  PROVE  /\ responses' \in [Streams -> {<<>>, <<"ok">>, <<"error">>, <<"ok", "error">>}]
         /\ responses'[s] = <<r>>
         /\ \A t \in Streams \ {s} : responses'[t] = responses[t]
<1>1. Append(responses[s], r) = <<r>>
  BY Responses
<1>2. responses' = [responses EXCEPT ![s] = <<r>>]
  BY <1>1
<1>. QED
  BY <1>2 DEF StreamTypes

LEMMA WriteTypes ==
  ASSUME StreamTypes, NEW s \in Streams, responses[s] = <<>>, WriteConnectResponse(s)
  PROVE  /\ responses' \in [Streams -> {<<>>, <<"ok">>, <<"error">>, <<"ok", "error">>}]
         /\ connectResponseSent' \in [Streams -> BOOLEAN]
<1>1. connectResponseSent' \in [Streams -> BOOLEAN]
  BY DEF WriteConnectResponse, StreamTypes
<1>. QED
  BY <1>1, FirstResponse DEF WriteConnectResponse

(* Every step of a stream keeps the types; that a response is written but  *)
(* once is what it needs the invariant for.                                *)
LEMMA StreamTypeStep ==
  ASSUME StreamTypes, NEW s \in Streams, StreamInvAt(s), StreamStep(s)
  PROVE  StreamTypes'
<1> USE DEF replyVars, copyVars
<1>1. CASE NewStream(s) \/ EdgeEndsStream(s) \/ EdgeStopsReading(s) \/ OriginCloses(s)
  BY <1>1 DEF NewStream, EdgeEndsStream, EdgeStopsReading, OriginCloses,
              StreamTypes, Pcs
<1>2. CASE ReadFails(s)
  BY <1>2, RejectedTypes DEF ReadFails
<1>3. CASE ReadSignature(s)
  <2>1. PICK k \in Offers[s] :
          \/ k = "unknown" /\ Rejected(s)
          \/ /\ k # "unknown"
             /\ kind' = [kind EXCEPT ![s] = k]
             /\ pc' = [pc EXCEPT ![s] = IF k = "rpc" THEN "rpc" ELSE "request"]
             /\ UNCHANGED <<connVars, recv, send, replyVars, copyVars>>
    BY <1>3, Zenon DEF ReadSignature
  <2>2. k \in Kinds
    BY QUICAssumption
  <2>3. CASE Rejected(s)
    BY <2>3, RejectedTypes
  <2>4. CASE ~Rejected(s)
    BY <2>1, <2>2, <2>4 DEF StreamTypes, Pcs
  <2>. QED
    BY <2>3, <2>4
<1>4. CASE handleDataStream(s)
  <2>1. CASE /\ ~connectResponseSent[s]
             /\ responses' = [responses EXCEPT ![s] = Append(@, "error")]
             /\ UNCHANGED send
    <3>1. responses[s] = <<>>
      BY <1>4, <2>1 DEF handleDataStream, StreamInvAt
    <3>. QED
      BY <1>4, <2>1, <3>1, FirstResponse, ReturnTypes DEF handleDataStream, StreamTypes
  <2>2. CASE CancelWrite(s) /\ UNCHANGED responses
    BY <1>4, <2>2, CancelWriteTypes, ReturnTypes DEF handleDataStream, StreamTypes
  <2>. QED
    BY <1>4, <2>1, <2>2 DEF handleDataStream
<1>5. CASE CloseStream(s)
  BY <1>5 DEF CloseStream, StreamTypes, Pcs
<1>6. CASE handleRPC(s)
  BY <1>6, ReturnTypes DEF handleRPC, StreamTypes
<1>7. CASE dispatchRequest(s)
  <2>1. CASE Fails(s)
    BY <1>7, <2>1, FailsTypes DEF dispatchRequest, StreamTypes
  <2>2. CASE ~Fails(s)
    BY <1>7, <2>2 DEF dispatchRequest, StreamTypes, Pcs
  <2>. QED
    BY <2>1, <2>2
<1>8. CASE OriginAnswers(s)
  <2>1. responses[s] = <<>>
    BY <1>8 DEF OriginAnswers, StreamInvAt
  <2>2. /\ responses' \in [Streams -> {<<>>, <<"ok">>, <<"error">>, <<"ok", "error">>}]
        /\ connectResponseSent' \in [Streams -> BOOLEAN]
    BY <1>8, <2>1, WriteTypes DEF OriginAnswers
  <2>3. /\ pc' \in [Streams -> Pcs]
        /\ up' \in [Streams -> Results] /\ down' \in [Streams -> Results]
        /\ origin' \in [Streams -> {"none", "open", "peerClosed", "closed"}]
    BY <1>8 DEF OriginAnswers, StreamTypes, Pcs, Results
  <2>. QED
    BY <1>8, <2>2, <2>3 DEF OriginAnswers, StreamTypes
<1>9. CASE AnswerFails(s)
  <2>1. connectResponseSent' \in [Streams -> BOOLEAN]
    BY <1>9 DEF AnswerFails, StreamTypes
  <2>. QED
    BY <1>9, <2>1, FailsTypes DEF AnswerFails, StreamTypes
<1>10. CASE OriginFails(s)
  <2>1. responses[s] = <<>>
    BY <1>10 DEF OriginFails, StreamInvAt
  <2>2. /\ responses' \in [Streams -> {<<>>, <<"ok">>, <<"error">>, <<"ok", "error">>}]
        /\ connectResponseSent' \in [Streams -> BOOLEAN]
    BY <1>10, <2>1, WriteTypes DEF OriginFails, StreamTypes
  <2>. QED
    BY <1>10, <2>2, ReturnTypes, FailsTypes DEF OriginFails, StreamTypes
<1>11. CASE BodyEnds(s)
  BY <1>11, ReturnTypes, FailsTypes DEF BodyEnds, StreamTypes
<1>17. CASE OriginUpgrades(s)
  <2>1. CASE WriteFails(s)
    BY <1>17, <2>1, ReturnTypes DEF OriginUpgrades, StreamTypes
  <2>2. CASE ~WriteFails(s)
    <3>1. responses[s] = <<>>
      BY <1>17 DEF OriginUpgrades, StreamInvAt
    <3>2. /\ responses' \in [Streams -> {<<>>, <<"ok">>, <<"error">>, <<"ok", "error">>}]
          /\ connectResponseSent' \in [Streams -> BOOLEAN]
      <4>1. CASE WriteConnectResponse(s)
        BY <3>1, <4>1, WriteTypes
      <4>2. CASE UNCHANGED <<responses, connectResponseSent>>
        BY <4>2 DEF StreamTypes
      <4>. QED
        BY <1>17, <2>2, <4>1, <4>2 DEF OriginUpgrades
    <3>3. /\ pc' \in [Streams -> Pcs]
          /\ up' \in [Streams -> Results] /\ down' \in [Streams -> Results]
          /\ origin' \in [Streams -> {"none", "open", "peerClosed", "closed"}]
      BY <1>17, <2>2 DEF OriginUpgrades, StreamTypes, Pcs, Results
    <3>. QED
      BY <1>17, <3>2, <3>3 DEF OriginUpgrades, StreamTypes
  <2>. QED
    BY <2>1, <2>2
<1>18. CASE UpgradeDone(s)
  BY <1>18, ReturnTypes DEF UpgradeDone, StreamTypes
<1>19. CASE UpgradeCancelled(s)
  BY <1>19 DEF UpgradeCancelled, StreamTypes
<1>12. CASE WebsocketDone(s)
  BY <1>12, ReturnTypes, FailsTypes DEF WebsocketDone, StreamTypes
<1>13. CASE ProxyTCPReturns(s)
  BY <1>13, ReturnTypes, FailsTypes DEF ProxyTCPReturns, StreamTypes
<1>14. CASE ProxyTCPSelect(s)
  BY <1>14 DEF ProxyTCPSelect, stopReadWriteAckerRead, StreamTypes, Pcs
<1>15. CASE UpEnds(s) \/ UpWriteFails(s)
  BY <1>15 DEF UpEnds, UpWriteFails, StreamTypes, Results
<1>16. CASE DownEnds(s) \/ DownWriteFails(s)
  BY <1>16 DEF DownEnds, DownWriteFails, StreamTypes, Results
<1>. QED
  BY <1>1, <1>2, <1>3, <1>4, <1>5, <1>6, <1>7, <1>8, <1>9, <1>10, <1>11,
     <1>12, <1>13, <1>14, <1>15, <1>16, <1>17, <1>18, <1>19
     DEF StreamStep, Handler, Outcome

-----------------------------------------------------------------------------
(* The invariant of the streams                                            *)

(* A step of one stream leaves the others alone.                           *)
LEMMA OtherStreams ==
  ASSUME StreamTypes, NEW s \in Streams, StreamStep(s), NEW t \in Streams, t # s
  PROVE  /\ pc'[t] = pc[t] /\ send'[t] = send[t] /\ responses'[t] = responses[t]
         /\ connectResponseSent'[t] = connectResponseSent[t]
         /\ failed'[t] = failed[t] /\ up'[t] = up[t] /\ down'[t] = down[t]
         /\ kind'[t] = kind[t]
<1> USE DEF replyVars, copyVars, StreamTypes
<1>1. CASE NewStream(s) \/ EdgeEndsStream(s) \/ EdgeStopsReading(s) \/ OriginCloses(s)
  BY <1>1 DEF NewStream, EdgeEndsStream, EdgeStopsReading, OriginCloses
<1>2. CASE ReadFails(s) \/ ReadSignature(s)
  BY <1>2 DEF ReadFails, ReadSignature, Rejected, Return, CancelWrite
<1>3. CASE handleDataStream(s)
  BY <1>3 DEF handleDataStream, Return, CancelWrite
<1>4. CASE CloseStream(s) \/ handleRPC(s)
  BY <1>4 DEF CloseStream, handleRPC, Return
<1>5. CASE dispatchRequest(s) \/ AnswerFails(s)
  BY <1>5 DEF dispatchRequest, AnswerFails, Fails
<1>6. CASE OriginAnswers(s)
  BY <1>6 DEF OriginAnswers, WriteConnectResponse
<1>7. CASE OriginFails(s)
  BY <1>7 DEF OriginFails, WriteConnectResponse, Return, Fails
<1>8. CASE BodyEnds(s) \/ WebsocketDone(s)
  BY <1>8 DEF BodyEnds, WebsocketDone, Return, Fails
<1>11. CASE OriginUpgrades(s)
  BY <1>11 DEF OriginUpgrades, WriteConnectResponse, Return
<1>12. CASE UpgradeDone(s) \/ UpgradeCancelled(s)
  BY <1>12 DEF UpgradeDone, UpgradeCancelled, Return
<1>9. CASE ProxyTCPSelect(s) \/ ProxyTCPReturns(s)
  BY <1>9 DEF ProxyTCPSelect, ProxyTCPReturns, Return, Fails
<1>10. CASE UpEnds(s) \/ UpWriteFails(s) \/ DownEnds(s) \/ DownWriteFails(s)
  BY <1>10 DEF UpEnds, UpWriteFails, DownEnds, DownWriteFails
<1>. QED
  BY <1>1, <1>2, <1>3, <1>4, <1>5, <1>6, <1>7, <1>8, <1>9, <1>10, <1>11, <1>12
     DEF StreamStep, Handler, Outcome

(* The step of a stream keeps the invariant of that stream.                *)
LEMMA StreamInvStep ==
  ASSUME StreamTypes, NEW s \in Streams, StreamInvAt(s), StreamStep(s)
  PROVE  StreamInvAt(s)'
<1> USE Responses DEF replyVars, copyVars, StreamTypes, StreamInvAt
<1>1. CASE NewStream(s) \/ EdgeEndsStream(s) \/ EdgeStopsReading(s) \/ OriginCloses(s)
  BY <1>1 DEF NewStream, EdgeEndsStream, EdgeStopsReading, OriginCloses, Live
<1>2. CASE ReadFails(s)
  BY <1>2 DEF ReadFails, Rejected, Return, CancelWrite
<1>3. CASE ReadSignature(s)
  BY <1>3 DEF ReadSignature, Rejected, Return, CancelWrite
<1>4. CASE handleDataStream(s)
  <2>1. pc'[s] = "closing" /\ connectResponseSent'[s] = connectResponseSent[s]
    BY <1>4 DEF handleDataStream, Return
  <2>2. CASE ~connectResponseSent[s] /\ ~WriteFails(s)
    BY <1>4, <2>1, <2>2 DEF handleDataStream, WriteFails
  <2>3. CASE connectResponseSent[s] \/ WriteFails(s)
    <3>1. send'[s] # "open" /\ send'[s] # "fin" /\ responses' = responses
      BY <1>4, <2>3 DEF handleDataStream, CancelWrite
    <3>. QED
      BY <1>4, <2>1, <3>1 DEF handleDataStream
  <2>. QED
    BY <2>2, <2>3
<1>5. CASE CloseStream(s)
  BY <1>5 DEF CloseStream
<1>6. CASE handleRPC(s)
  BY <1>6 DEF handleRPC, Return
<1>7. CASE dispatchRequest(s)
  BY <1>7 DEF dispatchRequest, Fails
<1>8. CASE AnswerFails(s)
  BY <1>8 DEF AnswerFails, Fails
<1>9. CASE OriginAnswers(s)
  BY <1>9 DEF OriginAnswers, WriteConnectResponse
<1>10. CASE OriginFails(s)
  BY <1>10 DEF OriginFails, WriteConnectResponse, Return, Fails
<1>11. CASE BodyEnds(s)
  BY <1>11 DEF BodyEnds, Return, Fails
<1>12. CASE WebsocketDone(s)
  BY <1>12 DEF WebsocketDone, Return, Fails
<1>17. CASE OriginUpgrades(s)
  <2>1. CASE WriteFails(s)
    BY <1>17, <2>1 DEF OriginUpgrades, Return
  <2>2. CASE ~WriteFails(s) /\ WriteConnectResponse(s)
    BY <1>17, <2>2 DEF OriginUpgrades, WriteConnectResponse
  <2>3. CASE ~WriteFails(s) /\ UNCHANGED <<responses, connectResponseSent>>
    BY <1>17, <2>3 DEF OriginUpgrades
  <2>. QED
    BY <1>17, <2>1, <2>2, <2>3 DEF OriginUpgrades
<1>18. CASE UpgradeDone(s)
  BY <1>18 DEF UpgradeDone, Return
<1>19. CASE UpgradeCancelled(s)
  BY <1>19 DEF UpgradeCancelled
<1>13. CASE ProxyTCPSelect(s)
  BY <1>13 DEF ProxyTCPSelect
<1>14. CASE ProxyTCPReturns(s)
  BY <1>14 DEF ProxyTCPReturns, Return, Fails
<1>15. CASE UpEnds(s) \/ UpWriteFails(s)
  BY <1>15 DEF UpEnds, UpWriteFails
<1>16. CASE DownEnds(s) \/ DownWriteFails(s)
  BY <1>16 DEF DownEnds, DownWriteFails
<1>. QED
  BY <1>1, <1>2, <1>3, <1>4, <1>5, <1>6, <1>7, <1>8, <1>9, <1>10, <1>11,
     <1>12, <1>13, <1>14, <1>15, <1>16, <1>17, <1>18, <1>19
     DEF StreamStep, Handler, Outcome

(* The connection's own state is typed, and a step of a stream keeps it.   *)
LEMMA StreamKeepsConnection ==
  ASSUME NEW s \in Streams, StreamStep(s)
  PROVE  UNCHANGED connVars
BY DEF StreamStep, Handler, Outcome, NewStream, EdgeEndsStream, EdgeStopsReading,
       OriginCloses, ReadFails, ReadSignature, Rejected, handleDataStream,
       CloseStream, handleRPC, dispatchRequest, AnswerFails, OriginAnswers,
       OriginFails, OriginUpgrades, UpgradeDone, UpgradeCancelled, BodyEnds,
       WebsocketDone, ProxyTCPSelect, ProxyTCPReturns,
       UpEnds, UpWriteFails, DownEnds, DownWriteFails

LEMMA InvStep ==
  ASSUME TypeOK, StreamInv, [Next]_vars
  PROVE  TypeOK' /\ StreamInv'
<1>1. CASE UNCHANGED vars
  BY <1>1 DEF vars, connVars, groupVars, streamVars, replyVars, copyVars, TypeOK,
              StreamInv, StreamInvAt
<1>2. CASE ConnStep
  BY <1>2, ConnSteps DEF streamVars, replyVars, copyVars, StreamInv, StreamInvAt
<1>3. ASSUME NEW s \in Streams, StreamStep(s)
      PROVE  TypeOK' /\ StreamInv'
  <2>1. StreamTypes /\ StreamInvAt(s)
    BY <1>3 DEF TypeOK, StreamTypes, StreamInv
  <2>2. StreamTypes'
    BY <1>3, <2>1, StreamTypeStep
  <2>3. UNCHANGED connVars
    BY <1>3, StreamKeepsConnection
  <2>4. ASSUME NEW t \in Streams
        PROVE  StreamInvAt(t)'
    <3>1. CASE t = s
      BY <1>3, <2>1, <3>1, StreamInvStep
    <3>2. CASE t # s
      <4>1. StreamInvAt(t)
        BY DEF StreamInv
      <4>. QED
        BY <1>3, <2>1, <3>2, <4>1, OtherStreams DEF StreamInvAt
    <3>. QED
      BY <3>1, <3>2
  <2>5. TypeOK'
    BY <2>2, <2>3 DEF TypeOK, StreamTypes, connVars, groupVars
  <2>. QED
    BY <2>4, <2>5 DEF StreamInv
<1>. QED
  BY <1>1, <1>2, <1>3, NextCases, Zenon

LEMMA InitInv ==
  ASSUME Init
  PROVE  TypeOK /\ StreamInv
<1>1. /\ connectResponseSent \in [Streams -> BOOLEAN]
      /\ failed \in [Streams -> BOOLEAN]
      /\ ctxDone \in BOOLEAN /\ connected \in BOOLEAN
  BY Zenon DEF Init
<1>2. /\ pc \in [Streams -> Pcs] /\ kind \in [Streams -> Kinds]
      /\ up \in [Streams -> Results] /\ down \in [Streams -> Results]
  BY DEF Init, Pcs, Kinds, Results
<1>3. TypeOK
  BY <1>1, <1>2 DEF Init, TypeOK
<1>4. StreamInv
  BY DEF Init, StreamInv, StreamInvAt
<1>. QED
  BY <1>3, <1>4

LEMMA InvHolds == Spec => [](TypeOK /\ StreamInv)
<1>1. Init => TypeOK /\ StreamInv
  BY InitInv
<1>2. TypeOK /\ StreamInv /\ [Next]_vars => (TypeOK /\ StreamInv)'
  BY InvStep
<1>. QED
  BY <1>1, <1>2, PTL DEF Spec

-----------------------------------------------------------------------------
(* The fields of a connection and of its streams keep their types; that a  *)
(* stream never carries more than its one response is part of it           *)
(* (runStream, requestServerStream).                                       *)
THEOREM QUICTypeCorrect == Spec => []TypeOK
<1>1. TypeOK /\ StreamInv => TypeOK
  OBVIOUS
<1>. QED
  BY <1>1, InvHolds, PTL

(* For every number of streams: a stream carries at most one response, and *)
(* a failed request never ends as a complete answer                        *)
(* (handleDataStream, connectResponseSent, runStream).                     *)
THEOREM QUICFailuresVisible == Spec => []FailureIsVisible
<1>1. TypeOK /\ StreamInv => FailureIsVisible
  BY Responses DEF StreamInv, StreamInvAt, FailureIsVisible
<1>. QED
  BY <1>1, InvHolds, PTL

(* For every number of streams: no copy outlives its handler, so that      *)
(* Close of a stream never meets a Write, except a copy of ReverseProxy    *)
(* after an upgrade (waitForCopies, proxyWebsocketStreams).                *)
THEOREM ClosesAreUncontended == Spec => []CloseIsUncontended
<1>1. TypeOK /\ StreamInv => CloseIsUncontended
  BY DEF StreamInv, StreamInvAt, CloseIsUncontended
<1>. QED
  BY <1>1, InvHolds, PTL

-----------------------------------------------------------------------------
(* Inductive strengthening of NoSocketLeak: before ListenUDP there is no   *)
(* socket, and Serve, whose end closes it, runs only once Run has started. *)
SocketInv ==
  /\ run = "listen" => udp = "none"
  /\ run \in {"listen", "dial", "setup"} => serve = "none"
  /\ NoSocketLeak

(* However the connection ends, its UDP socket has been closed or was      *)
(* never opened (dialQUIC, CloseWithError, Close).                         *)
THEOREM SocketsAreClosed == Spec => []NoSocketLeak
<1> USE DEF SocketInv, NoSocketLeak, Ended
<1>1. Init => SocketInv
  BY DEF Init
<1>2. SocketInv /\ [Next]_vars => SocketInv'
  <2> SUFFICES ASSUME SocketInv, [Next]_vars PROVE SocketInv'
    OBVIOUS
  <2>1. CASE UNCHANGED vars
    BY <2>1 DEF vars, connVars
  <2>2. CASE Cancel \/ EdgeCloses \/ RegisterConnection \/ Connected
    BY <2>2 DEF Cancel, EdgeCloses, RegisterConnection, Connected
  <2>3. CASE ListenUDP \/ dialQUIC \/ Setup \/ Run
    BY <2>3 DEF ListenUDP, dialQUIC, Setup, Run, CloseWithError
  <2>4. CASE ServeOpens \/ RegisterFails \/ ControlStep \/ acceptStream \/ datagramServe
    BY <2>4 DEF ServeOpens, RegisterFails, ControlStep, acceptStream, datagramServe
  <2>5. CASE ServeReturns
    BY <2>5 DEF ServeReturns, CloseWithError
  <2>6. ASSUME NEW s \in Streams, StreamStep(s)
        PROVE  SocketInv'
    BY <2>6, StreamKeepsConnection DEF connVars
  <2>7. ConnStep => SocketInv'
    BY <2>2, <2>3, <2>4, <2>5 DEF ConnStep, Server
  <2>. QED
    BY <2>1, <2>6, <2>7, NextCases, Zenon
<1>3. SocketInv => NoSocketLeak
  OBVIOUS
<1>. QED
  BY <1>1, <1>2, <1>3, PTL DEF Spec
=============================================================================
