--------------------------- MODULE QUICConnection ---------------------------
(***************************************************************************)
(* One QUIC connection to the edge, from its dial to its end: the          *)
(* construction of a QUICRuntime (a UDP socket, the dial, the set-up),     *)
(* QUICRuntime.Run, RuntimeQUICConnection.Serve with its three goroutines  *)
(* (control stream, accept loop, datagram handler), and one goroutine per  *)
(* stream that the edge opens (runStream): RPC streams, HTTP requests,     *)
(* WebSockets and TCP streams.                                             *)
(*                                                                         *)
(* External, modelled from how the code uses it: quic-go (a stream has two *)
(* halves; its context ends with its sending half or with the connection;  *)
(* closing the connection ends every read, write and accept), errgroup     *)
(* (its context ends with the first goroutine that returns), ReverseProxy  *)
(* (outside an http.Server it swallows an error while it copies a body),   *)
(* the edge and the origin.                                                *)
(***************************************************************************)
EXTENDS Integers, FiniteSets, Sequences

CONSTANTS
  Streams,           \* the streams the edge may open
  Offers,            \* the kinds of request each may carry, to bound the instance
  ConnIndex          \* index of this connection in the tunnel

Kinds == {"unknown", "rpc", "http", "websocket", "tcp", "other"}

ASSUME QUICAssumption ==
  /\ IsFiniteSet(Streams)
  /\ Offers \in [Streams -> SUBSET Kinds]
  /\ ConnIndex \in Nat

VARIABLES
  ctxDone,           \* the context given to Run is done
  udp,               \* the UDP socket: "none", "open", "closed"
  conn,              \* the QUIC connection: "none", "open", "closed"
  run,               \* construction and Run: its step
  serve,             \* goroutine of Run: "none", "open", "wait", "returned"
  control,           \* errgroup goroutine serving the control stream
  accept, datagram,  \* the two others: "none", "run", "done"
  connected,         \* ConnectedFuse.Connected() has been called
  pc,                \* step of the goroutine of each stream
  kind,              \* what it carries
  recv,              \* the edge's half: "open", "ended", "reset"
  send,              \* our half: "open", "fin", "reset", "stopped" by the edge
  responses,         \* ConnectResponses written, in order: "ok", "error"
  connectResponseSent,
  failed,            \* the handler returned an error
  origin,            \* connection to the origin
  up, down           \* copies edge -> origin and origin -> edge

groupVars  == <<control, accept, datagram, connected>>
connVars   == <<ctxDone, udp, conn, run, serve, groupVars>>
replyVars  == <<responses, connectResponseSent, failed>>
copyVars   == <<origin, up, down>>
streamVars == <<pc, kind, recv, send, replyVars, copyVars>>
vars == <<connVars, streamVars>>

Results == {"none", "run", "nil", "err", "benign"}
Pcs == {"idle", "signature", "request", "rpc", "origin", "body", "copy",
        "drain", "drainCtx", "fail", "closing", "done"}

TypeOK ==
  /\ ctxDone \in BOOLEAN /\ connected \in BOOLEAN
  /\ udp \in {"none", "open", "closed"}
  /\ conn \in {"none", "open", "closed"}
  /\ run \in {"listen", "dial", "setup", "select", "failed", "err", "ctxErr"}
  /\ serve \in {"none", "open", "wait", "returned"}
  /\ control \in {"none", "register", "accepted", "localConfig", "wait",
                  "unregister", "done"}
  /\ accept \in {"none", "run", "done"} /\ datagram \in {"none", "run", "done"}
  /\ pc \in [Streams -> Pcs] /\ kind \in [Streams -> Kinds]
  /\ recv \in [Streams -> {"open", "ended", "reset"}]
  /\ send \in [Streams -> {"open", "fin", "reset", "stopped"}]
  /\ responses \in [Streams -> {<<>>, <<"ok">>, <<"error">>,
                                <<"ok", "error">>}]
  /\ connectResponseSent \in [Streams -> BOOLEAN]
  /\ failed \in [Streams -> BOOLEAN]
  /\ origin \in [Streams -> {"none", "open", "peerClosed", "closed"}]
  /\ up \in [Streams -> Results] /\ down \in [Streams -> Results]

Init ==
  /\ ctxDone = FALSE /\ connected = FALSE
  /\ udp = "none" /\ conn = "none" /\ run = "listen" /\ serve = "none"
  /\ control = "none" /\ accept = "none" /\ datagram = "none"
  /\ pc = [s \in Streams |-> "idle"] /\ kind = [s \in Streams |-> "unknown"]
  /\ recv = [s \in Streams |-> "open"] /\ send = [s \in Streams |-> "open"]
  /\ responses = [s \in Streams |-> <<>>]
  /\ connectResponseSent = [s \in Streams |-> FALSE]
  /\ failed = [s \in Streams |-> FALSE]
  /\ origin = [s \in Streams |-> "none"]
  /\ up = [s \in Streams |-> "none"] /\ down = [s \in Streams |-> "none"]

Ended == run \in {"failed", "err", "ctxErr"}

-----------------------------------------------------------------------------
(* The environment: the owner of the context, the edge, the origin.        *)

Cancel ==
  /\ ~ctxDone
  /\ ctxDone' = TRUE
  /\ UNCHANGED <<udp, conn, run, serve, groupVars, streamVars>>

(* The edge closes the connection, or it is idle for too long.             *)
EdgeCloses ==
  /\ conn = "open"
  /\ conn' = "closed"
  /\ UNCHANGED <<ctxDone, udp, run, serve, groupVars, streamVars>>

Live(s) == conn = "open" /\ pc[s] \notin {"idle", "done"}

EdgeEndsStream(s) ==
  /\ Live(s) /\ recv[s] = "open"
  /\ \E how \in {"ended", "reset"} : recv' = [recv EXCEPT ![s] = how]
  /\ UNCHANGED <<connVars, pc, kind, send, replyVars, copyVars>>

EdgeStopsReading(s) ==
  /\ Live(s) /\ send[s] = "open"
  /\ send' = [send EXCEPT ![s] = "stopped"]
  /\ UNCHANGED <<connVars, pc, kind, recv, replyVars, copyVars>>

OriginCloses(s) ==
  /\ origin[s] = "open"
  /\ origin' = [origin EXCEPT ![s] = "peerClosed"]
  /\ UNCHANGED <<connVars, pc, kind, recv, send, replyVars, up, down>>

-----------------------------------------------------------------------------
(* newQUICRuntimeWithEdgeDialConfig.  The context of the dial is not the   *)
(* caller's: a cancellation does not interrupt it, its timeout does.       *)

(* The configuration is refused, or the socket cannot be opened.           *)
ListenUDP ==
  /\ run = "listen"
  /\ \/ udp' = "open" /\ run' = "dial"
     \/ UNCHANGED udp /\ run' = "failed"
  /\ UNCHANGED <<ctxDone, conn, serve, groupVars, streamVars>>

dialQUIC_Leak ==
  /\ run = "dial"
  /\ \/ conn' = "open" /\ run' = "setup" /\ UNCHANGED udp
     \/ run' = "failed" /\ UNCHANGED <<conn, udp>>
  /\ UNCHANGED <<ctxDone, serve, groupVars, streamVars>>

(* A dial that fails closes the socket.                                    *)
dialQUIC ==
  /\ run = "dial"
  /\ \/ conn' = "open" /\ run' = "setup" /\ UNCHANGED udp
     \/ run' = "failed" /\ udp' = "closed" /\ UNCHANGED conn
  /\ UNCHANGED <<ctxDone, serve, groupVars, streamVars>>

(* CloseWithError of the wrapped connection: the connection, the socket.   *)
CloseWithError == conn' = "closed" /\ udp' = "closed"

(* Connection options and binding; Run then starts Serve and waits.        *)
Setup ==
  /\ run = "setup"
  /\ \/ run' = "select" /\ serve' = "open" /\ UNCHANGED <<conn, udp>>
     \/ run' = "failed" /\ CloseWithError /\ UNCHANGED serve
  /\ UNCHANGED <<ctxDone, groupVars, streamVars>>

(* select in Run: Serve has returned, or the context is done, in which     *)
(* case Run does not wait for Serve.                                       *)
Run ==
  /\ run = "select"
  /\ \/ serve = "returned" /\ run' = "err"
     \/ ctxDone /\ run' = "ctxErr"
  /\ CloseWithError
  /\ UNCHANGED <<ctxDone, serve, groupVars, streamVars>>

-----------------------------------------------------------------------------
(* Serve                                                                   *)

(* OpenStream fails once the connection is closed.                         *)
ServeOpens ==
  /\ serve = "open"
  /\ \/ /\ conn = "open"
        /\ serve' = "wait"
        /\ control' = "register" /\ accept' = "run" /\ datagram' = "run"
     \/ /\ conn = "closed"
        /\ serve' = "returned" /\ UNCHANGED <<control, accept, datagram>>
  /\ UNCHANGED <<ctxDone, udp, conn, run, connected, streamVars>>

(* The context of the errgroup.                                            *)
GroupDone == ctxDone \/ "done" \in {control, accept, datagram}

(* errGroup.Wait, then the deferred Close.                                 *)
ServeReturns ==
  /\ serve = "wait" /\ {control, accept, datagram} = {"done"}
  /\ serve' = "returned"
  /\ CloseWithError
  /\ UNCHANGED <<ctxDone, run, groupVars, streamVars>>

(* The edge accepts the registration.                                      *)
RegisterConnection ==
  /\ control = "register" /\ conn = "open"
  /\ control' = "accepted"
  /\ UNCHANGED <<ctxDone, udp, conn, run, serve, accept, datagram, connected,
                 streamVars>>

(* connectedFuse.Connected(): by now the connection may be closed, and Run *)
(* may have returned.                                                      *)
Connected ==
  /\ control = "accepted"
  /\ connected' = TRUE
  /\ \E managed \in BOOLEAN :
       control' = IF ConnIndex = 0 /\ ~managed THEN "localConfig" ELSE "wait"
  /\ UNCHANGED <<ctxDone, udp, conn, run, serve, accept, datagram, streamVars>>

(* The edge refuses, the request times out, or it is cancelled.            *)
RegisterFails ==
  /\ control = "register"
  /\ control' = "done"
  /\ UNCHANGED <<ctxDone, udp, conn, run, serve, accept, datagram, connected,
                 streamVars>>

(* The steps after the registration.  Only the context of the group ends   *)
(* the wait (gracefulShutdownC is nil), and the result is never nil: the   *)
(* grace period that would follow a nil never starts.                      *)
ControlStep ==
  /\ \/ control = "localConfig" /\ control' = "wait"
     \/ control = "wait" /\ GroupDone /\ control' = "unregister"
     \/ control = "unregister" /\ control' = "done"
  /\ UNCHANGED <<ctxDone, udp, conn, run, serve, accept, datagram, connected,
                 streamVars>>

acceptStream_ConnOnly ==
  /\ accept = "run" /\ conn = "closed"
  /\ accept' = "done"
  /\ UNCHANGED <<ctxDone, udp, conn, run, serve, control, datagram, connected,
                 streamVars>>

(* AcceptStream fails with the context or with the connection.             *)
acceptStream ==
  /\ accept = "run" /\ (GroupDone \/ conn = "closed")
  /\ accept' = "done"
  /\ UNCHANGED <<ctxDone, udp, conn, run, serve, control, datagram, connected,
                 streamVars>>

datagramServe ==
  /\ datagram = "run" /\ GroupDone
  /\ datagram' = "done"
  /\ UNCHANGED <<ctxDone, udp, conn, run, serve, control, accept, connected,
                 streamVars>>

-----------------------------------------------------------------------------
(* runStream: what every stream does first and last.                       *)

NewStream(s) ==
  /\ pc[s] = "idle" /\ accept = "run" /\ conn = "open"
  /\ pc' = [pc EXCEPT ![s] = "signature"]
  /\ UNCHANGED <<connVars, kind, recv, send, replyVars, copyVars>>

(* A read of the stream does not block.                                    *)
ReadReturns(s) == recv[s] # "open" \/ conn = "closed"

(* A write to the stream fails.                                            *)
WriteFails(s) == send[s] # "open" \/ conn = "closed"

StreamCtxDone(s) == send[s] # "open" \/ conn = "closed"

CancelWrite(s) == send' = [send EXCEPT ![s] = IF @ = "open" THEN "reset" ELSE @]

(* Serve of the stream returns: nil, or an error that runStream answers    *)
(* with CancelWrite.  Locals, and the origin connection, are gone.         *)
Return(s) ==
  /\ pc' = [pc EXCEPT ![s] = "closing"]
  /\ origin' = [origin EXCEPT ![s] = "none"]

(* Unreadable or unknown signature, or an unreadable request: no answer.   *)
Rejected(s) ==
  /\ Return(s) /\ CancelWrite(s)
  /\ failed' = [failed EXCEPT ![s] = TRUE]
  /\ UNCHANGED <<connVars, kind, recv, responses, connectResponseSent, up, down>>

(* determineProtocol.                                                      *)
ReadSignature(s) ==
  /\ pc[s] = "signature" /\ conn = "open" /\ recv[s] # "reset"
  /\ \E k \in Offers[s] :
       \/ k = "unknown" /\ Rejected(s)
       \/ /\ k # "unknown"
          /\ kind' = [kind EXCEPT ![s] = k]
          /\ pc' = [pc EXCEPT ![s] = IF k = "rpc" THEN "rpc" ELSE "request"]
          /\ UNCHANGED <<connVars, recv, send, replyVars, copyVars>>

ReadFails(s) ==
  /\ pc[s] \in {"signature", "request"} /\ ReadReturns(s)
  /\ Rejected(s)

(* The handler has an error; handleDataStream reports it in its own step.  *)
Fails(s) ==
  /\ pc' = [pc EXCEPT ![s] = "fail"]
  /\ failed' = [failed EXCEPT ![s] = TRUE]

(* ReadConnectRequestData and dispatchRequest; a request of another type,  *)
(* or an HTTP request that cannot be built, is an error.                   *)
dispatchRequest(s) ==
  /\ pc[s] = "request" /\ conn = "open" /\ recv[s] # "reset"
  /\ \/ /\ kind[s] \in {"http", "websocket", "tcp"}
        /\ pc' = [pc EXCEPT ![s] = "origin"] /\ UNCHANGED failed
     \/ kind[s] # "tcp" /\ Fails(s)
  /\ UNCHANGED <<connVars, kind, recv, send, responses, connectResponseSent,
                 copyVars>>

handleDataStream_AlwaysAnswers(s) ==
  /\ pc[s] = "fail"
  /\ Return(s)
  /\ \/ /\ ~WriteFails(s)
        /\ responses' = [responses EXCEPT ![s] = Append(@, "error")]
        /\ UNCHANGED send
     \/ WriteFails(s) /\ CancelWrite(s) /\ UNCHANGED responses
  /\ UNCHANGED <<connVars, kind, recv, connectResponseSent, failed, up, down>>

(* The error goes to the edge as a response of its own, unless one was     *)
(* sent already or cannot be written: then runStream resets the stream.    *)
handleDataStream(s) ==
  /\ pc[s] = "fail"
  /\ Return(s)
  /\ \/ /\ ~connectResponseSent[s] /\ ~WriteFails(s)
        /\ responses' = [responses EXCEPT ![s] = Append(@, "error")]
        /\ UNCHANGED send
     \/ /\ connectResponseSent[s] \/ WriteFails(s)
        /\ CancelWrite(s) /\ UNCHANGED responses
  /\ UNCHANGED <<connVars, kind, recv, connectResponseSent, failed, up, down>>

(* The deferred Close of the safe stream: the read side is cancelled, the  *)
(* write side ends with FIN unless it was reset.                           *)
CloseStream(s) ==
  /\ pc[s] = "closing"
  /\ pc' = [pc EXCEPT ![s] = "done"]
  /\ send' = [send EXCEPT ![s] = IF @ = "open" THEN "fin" ELSE @]
  /\ UNCHANGED <<connVars, kind, recv, replyVars, copyVars>>

(* handleRPC: the edge closes the RPC, the context ends, or it times out.  *)
(* The calls it serves change no state: sessions are refused, and a        *)
(* configuration is acknowledged and dropped.                              *)
handleRPC(s) ==
  /\ pc[s] = "rpc"
  /\ Return(s)
  /\ UNCHANGED <<connVars, kind, recv, send, replyVars, up, down>>

-----------------------------------------------------------------------------
WriteConnectResponse_EachWrite(s) ==
  /\ connectResponseSent' = [connectResponseSent EXCEPT ![s] = TRUE]
  /\ responses' = [responses EXCEPT ![s] = @ \o <<"ok", "ok">>]

(* WriteConnectResponseData(nil) by WriteRespHeaders and AckConnection:    *)
(* the flag is set whether or not the write succeeds.                      *)
WriteConnectResponse(s) ==
  /\ connectResponseSent' = [connectResponseSent EXCEPT ![s] = TRUE]
  /\ responses' = [responses EXCEPT ![s] = Append(@, "ok")]

(* ProxyHTTP, ProxyWebsocket, ProxyTCP: the origin answers or is reached,  *)
(* and the edge is told.  An HTTP response, or a WebSocket that was not    *)
(* upgraded, has a body to forward; the others start two copies.           *)
OriginAnswers(s) ==
  /\ pc[s] = "origin" /\ ~WriteFails(s)
  /\ origin' = [origin EXCEPT ![s] = "open"]
  /\ WriteConnectResponse(s)
  /\ \/ /\ kind[s] \in {"http", "websocket"}
        /\ pc' = [pc EXCEPT ![s] = "body"] /\ UNCHANGED <<up, down>>
     \/ /\ kind[s] \in {"websocket", "tcp"}
        /\ pc' = [pc EXCEPT ![s] = "copy"]
        /\ up' = [up EXCEPT ![s] = "run"] /\ down' = [down EXCEPT ![s] = "run"]
  /\ UNCHANGED <<connVars, kind, recv, send, failed>>

(* The origin answers, but the response cannot be written: the flag is     *)
(* set and the handler fails.                                              *)
AnswerFails(s) ==
  /\ pc[s] = "origin" /\ WriteFails(s)
  /\ connectResponseSent' = [connectResponseSent EXCEPT ![s] = TRUE]
  /\ Fails(s)
  /\ UNCHANGED <<connVars, kind, recv, send, responses, copyVars>>

(* The origin cannot be reached.  ReverseProxy answers 502 and returns;    *)
(* ProxyWebsocket answers 502 and fails; ProxyTCP fails.                   *)
OriginFails(s) ==
  /\ pc[s] = "origin"
  /\ \/ /\ kind[s] # "tcp" /\ ~WriteFails(s)
        /\ WriteConnectResponse(s)
        /\ \/ kind[s] = "http" /\ Return(s) /\ UNCHANGED failed
           \/ kind[s] = "websocket" /\ Fails(s) /\ UNCHANGED origin
     \/ /\ kind[s] = "tcp" /\ Fails(s)
        /\ UNCHANGED <<responses, connectResponseSent, origin>>
  /\ UNCHANGED <<connVars, kind, recv, send, up, down>>

(* An HTTP request whose upgrade the origin accepts starts two copies as   *)
(* well.  The proxy of a WebSocket target answers 101 and takes the stream *)
(* over (Hijack); ReverseProxy takes it over and writes the answer of the  *)
(* origin to it as it is, without a ConnectResponse.                       *)
OriginUpgrades(s) ==
  /\ pc[s] = "origin" /\ kind[s] = "http"
  /\ \/ /\ ~WriteFails(s)
        /\ WriteConnectResponse(s) \/ UNCHANGED <<responses, connectResponseSent>>
        /\ origin' = [origin EXCEPT ![s] = "open"]
        /\ pc' = [pc EXCEPT ![s] = "copy"]
        /\ up' = [up EXCEPT ![s] = "run"] /\ down' = [down EXCEPT ![s] = "run"]
     \/ WriteFails(s) /\ Return(s) /\ UNCHANGED <<responses, connectResponseSent, up, down>>
  /\ UNCHANGED <<connVars, kind, recv, send, failed>>

(* ReverseProxy returns when one copy has ended, the other proxy when both *)
(* have; neither reports an error.                                         *)
UpgradeDone(s) ==
  /\ pc[s] = "copy" /\ kind[s] = "http"
  /\ up[s] # "run" \/ down[s] # "run"
  /\ connectResponseSent[s] => up[s] # "run" /\ down[s] # "run"
  /\ Return(s)
  /\ UNCHANGED <<connVars, kind, recv, send, replyVars, up, down>>

(* ReverseProxy closes its connection to the origin when the context of    *)
(* the request is done.                                                    *)
UpgradeCancelled(s) ==
  /\ pc[s] = "copy" /\ kind[s] = "http" /\ ~connectResponseSent[s]
  /\ StreamCtxDone(s) /\ origin[s] # "closed"
  /\ origin' = [origin EXCEPT ![s] = "closed"]
  /\ UNCHANGED <<connVars, pc, kind, recv, send, replyVars, up, down>>

(* The body has been forwarded, or it breaks off: ProxyWebsocket reports   *)
(* that, ReverseProxy swallows it.                                         *)
BodyEnds(s) ==
  /\ pc[s] = "body"
  /\ \/ Return(s) /\ UNCHANGED failed
     \/ kind[s] = "websocket" /\ Fails(s) /\ UNCHANGED origin
  /\ UNCHANGED <<connVars, kind, recv, send, responses, connectResponseSent,
                 up, down>>

(* proxyWebsocketStreams waits for both copies.                            *)
WebsocketDone(s) ==
  /\ pc[s] = "copy" /\ kind[s] = "websocket"
  /\ up[s] # "run" /\ down[s] # "run"
  /\ \/ "err" \in {up[s], down[s]} /\ Fails(s) /\ UNCHANGED origin
     \/ "err" \notin {up[s], down[s]} /\ Return(s) /\ UNCHANGED failed
  /\ UNCHANGED <<connVars, kind, recv, send, responses, connectResponseSent,
                 up, down>>

-----------------------------------------------------------------------------
(* The two copies of a WebSocket, a TCP stream or an upgraded request      *)

(* CloseStream ends a read, and the return of a handler has closed its     *)
(* connection to the origin: for a copy that ReverseProxy left behind.     *)
UpEnds(s) ==
  /\ up[s] = "run" /\ (ReadReturns(s) \/ pc[s] = "done")
  /\ up' = [up EXCEPT ![s] = IF recv[s] = "ended" THEN "nil" ELSE "err"]
  /\ UNCHANGED <<connVars, pc, kind, recv, send, replyVars, origin, down>>

(* The edge sends data that the origin connection no longer takes.         *)
UpWriteFails(s) ==
  /\ up[s] = "run" /\ ~ReadReturns(s) /\ origin[s] # "open"
  /\ up' = [up EXCEPT ![s] = IF origin[s] = "peerClosed" THEN "err" ELSE "benign"]
  /\ UNCHANGED <<connVars, pc, kind, recv, send, replyVars, origin, down>>

(* A read of the origin returns once either side has closed it.            *)
DownEnds(s) ==
  /\ down[s] = "run"
  /\ \/ /\ origin[s] = "peerClosed"
        /\ \E r \in {"nil", "err"} : down' = [down EXCEPT ![s] = r]
     \/ /\ origin[s] \in {"closed", "none"}
        /\ down' = [down EXCEPT ![s] = "benign"]
  /\ UNCHANGED <<connVars, pc, kind, recv, send, replyVars, origin, up>>

(* The origin sends data that the stream no longer takes.                  *)
DownWriteFails(s) ==
  /\ down[s] = "run" /\ origin[s] = "open" /\ WriteFails(s)
  /\ down' = [down EXCEPT ![s] = "err"]
  /\ UNCHANGED <<connVars, pc, kind, recv, send, replyVars, origin, up>>

(* The acker of a QUIC stream has no CloseRead, and its Close is that of   *)
(* nopCloserReadWriter: the pending read goes on.                          *)
stopReadWriteAckerRead(s) == UNCHANGED recv

ProxyTCPSelect_KeepOrigin(s) ==
  /\ pc[s] = "copy" /\ kind[s] = "tcp"
  /\ \/ StreamCtxDone(s) /\ pc' = [pc EXCEPT ![s] = "drainCtx"]
     \/ /\ up[s] # "run" \/ down[s] # "run"
        /\ pc' = [pc EXCEPT ![s] = "drain"]
  /\ stopReadWriteAckerRead(s)
  /\ UNCHANGED <<connVars, kind, send, replyVars, copyVars>>

(* select in ProxyTCP: the context is done, or one of the copies has ended. *)
ProxyTCPSelect(s) ==
  /\ pc[s] = "copy" /\ kind[s] = "tcp"
  /\ \/ StreamCtxDone(s) /\ pc' = [pc EXCEPT ![s] = "drainCtx"]
     \/ /\ up[s] # "run" \/ down[s] # "run"
        /\ pc' = [pc EXCEPT ![s] = "drain"]
  /\ origin' = [origin EXCEPT ![s] = "closed"]
  /\ stopReadWriteAckerRead(s)
  /\ UNCHANGED <<connVars, kind, send, replyVars, up, down>>

ProxyTCPReturns_NoWait(s) ==
  /\ pc[s] \in {"drain", "drainCtx"}
  /\ \/ pc[s] = "drainCtx" /\ Fails(s) /\ UNCHANGED origin
     \/ pc[s] = "drain" /\ Return(s) /\ UNCHANGED failed
  /\ UNCHANGED <<connVars, kind, recv, send, responses, connectResponseSent,
                 up, down>>

(* waitForCopies; the result is the context's error, an error that is not  *)
(* benign, or nil.                                                         *)
ProxyTCPReturns(s) ==
  /\ pc[s] \in {"drain", "drainCtx"} /\ up[s] # "run" /\ down[s] # "run"
  /\ LET error == pc[s] = "drainCtx" \/ "err" \in {up[s], down[s]} IN
       \/ error /\ Fails(s) /\ UNCHANGED origin
       \/ ~error /\ Return(s) /\ UNCHANGED failed
  /\ UNCHANGED <<connVars, kind, recv, send, responses, connectResponseSent,
                 up, down>>

-----------------------------------------------------------------------------
Server ==
  \/ ListenUDP \/ dialQUIC \/ Setup \/ Run
  \/ ServeOpens \/ ServeReturns
  \/ RegisterFails \/ Connected \/ ControlStep \/ acceptStream \/ datagramServe

Handler(s) ==
  \/ ReadFails(s) \/ handleDataStream(s) \/ CloseStream(s) \/ handleRPC(s)
  \/ OriginFails(s) \/ AnswerFails(s)
  \/ WebsocketDone(s) \/ UpgradeDone(s) \/ UpgradeCancelled(s)
  \/ ProxyTCPSelect(s) \/ ProxyTCPReturns(s)
  \/ UpEnds(s) \/ DownEnds(s)

Outcome(s) ==      \* what the edge or the origin may or may not bring about
  \/ ReadSignature(s) \/ dispatchRequest(s)
  \/ OriginAnswers(s) \/ OriginUpgrades(s) \/ BodyEnds(s)
  \/ UpWriteFails(s) \/ DownWriteFails(s)

Terminating ==
  /\ Ended /\ serve \in {"none", "returned"}
  /\ \A s \in Streams : pc[s] \in {"idle", "done"}
  /\ UNCHANGED vars

Next ==
  \/ Cancel \/ EdgeCloses \/ Server \/ RegisterConnection
  \/ \E s \in Streams :
       \/ NewStream(s) \/ EdgeEndsStream(s) \/ EdgeStopsReading(s)
       \/ OriginCloses(s) \/ Handler(s) \/ Outcome(s)
  \/ Terminating

(***************************************************************************)
(* Goroutines run; the dial, registration and unregistration, an RPC       *)
(* stream and the way to the origin end by a timeout or the operating      *)
(* system.  Waiting for the edge to send, or for the origin to send or     *)
(* close, may last for ever; forwarding a body is broken off once the      *)
(* context of the stream is done.                                          *)
(***************************************************************************)
Fairness ==
  /\ WF_vars(Server)
  /\ \A s \in Streams :
       WF_vars(Handler(s) \/ (StreamCtxDone(s) /\ BodyEnds(s)))

Spec == Init /\ [][Next]_vars
FairSpec == Spec /\ Fairness

-----------------------------------------------------------------------------
(* Properties                                                              *)

(* What a reader of the stream makes of its end: after FIN, a single       *)
(* response; a failed request never looks complete, so that response is    *)
(* the error, or there is a reset instead of FIN.  The exception, a body   *)
(* broken off under ReverseProxy, is no failure for the handler.           *)
(* (handleDataStream, connectResponseSent, runStream.)                     *)
FailureIsVisible ==
  \A s \in Streams :
    /\ Len(responses[s]) <= 1
    /\ failed[s] /\ send[s] = "fin" => responses[s] = <<"error">>

(* No copy outlives its handler: when a stream is closed nothing reads     *)
(* from it or writes to it any more, so that Close of the safe stream      *)
(* never has to interrupt a Write.  An HTTP request that ReverseProxy      *)
(* upgraded is excepted: it may leave a copy behind.  (waitForCopies,      *)
(* proxyWebsocketStreams, runtimeSafeStreamCloser.Close.)                  *)
CloseIsUncontended ==
  \A s \in Streams :
    pc[s] \in {"closing", "done"} /\ "run" \in {up[s], down[s]} =>
      kind[s] = "http" /\ ~connectResponseSent[s]

(* No UDP socket outlives its connection, whether the dial, the set-up,    *)
(* Serve or the context ended it.  (dialQUIC, CloseWithError, Close.)      *)
NoSocketLeak == Ended => udp # "open"

(* The parts end together: once the context is done (even during the dial) *)
(* or the connection is lost or one of the goroutines of Serve has ended,  *)
(* Run and Serve return.  (errgroup in Serve, select in Run.)              *)
PartsEndTogether ==
  (conn = "closed" \/ GroupDone) ~> (Ended /\ serve \in {"none", "returned"})

(* Streams outlive Serve, which does not wait for them, but each one ends, *)
(* and so do its copies, those left behind included; except a WebSocket    *)
(* whose origin neither sends nor closes.  (runStream, ProxyTCP.)          *)
StreamsEnd ==
  \A s \in Streams :
    (conn = "closed" /\ pc[s] # "idle") ~>
      \/ pc[s] = "done" /\ "run" \notin {up[s], down[s]}
      \/ /\ pc[s] = "copy" /\ origin[s] = "open"
         /\ kind[s] \in {"websocket", "http"} /\ connectResponseSent[s]
=============================================================================
