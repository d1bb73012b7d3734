-------------------------- MODULE HTTP2Connection --------------------------
(***************************************************************************)
(* One HTTP/2 connection to the edge while it is served:                   *)
(* RuntimeHTTP2Connection.Serve, the goroutine it starts to close the      *)
(* connection, and one handler goroutine per stream that the edge opens    *)
(* (ServeHTTP): the control stream, configuration updates, HTTP requests,  *)
(* WebSockets and TCP streams.                                             *)
(*                                                                         *)
(* External, modelled from how the code uses it: http2.Server.ServeConn    *)
(* (it returns when the connection is closed, does not watch the context   *)
(* and does not wait for its handlers; the context of a request ends with  *)
(* the stream, with ServeConn and with the context given to Serve),        *)
(* sync.WaitGroup, the edge, and the origin.                               *)
(***************************************************************************)
EXTENDS Integers, FiniteSets

CONSTANTS
  Streams,           \* the streams the edge may open
  Offers,            \* the request types each may carry, to bound the instance
  ConnIndex          \* index of this connection in the tunnel

ASSUME HTTP2Assumption ==
  /\ IsFiniteSet(Streams)
  /\ Offers \in [Streams -> SUBSET {"config", "websocket", "tcp", "control", "http"}]
  /\ ConnIndex \in Nat

VARIABLES
  ctxDone,           \* the context given to Serve is done
  conn,              \* "open", or closed by the "edge" or by "local" close()
  serveConn,         \* http2.Server.ServeConn: "serving", "returned"
  result,            \* what Serve returned
  closer,            \* goroutine of Serve that calls close()
  connected,         \* ConnectedFuse.Connected() has been called
  controlStreamErr,  \* the field is set
  pc,                \* step of the handler of each stream
  connType,          \* its request type
  body,              \* the edge's half: "open", "ended", "reset"
  hdr,               \* the response header that the edge has: "none", "ok", "502"
  statusWritten,     \* field of the response writer
  requestErr,        \* the handler has an error to report
  out,               \* how the response ended for the edge
  origin,            \* connection to the origin
  up, down,          \* copies edge -> origin and origin -> edge
  edgeReads,         \* the edge takes what the handlers write
  early              \* history: handlers counted (Add) when ctx was done

connVars == <<ctxDone, conn, serveConn, result, closer, edgeReads, early>>
ctlVars  == <<connected, controlStreamErr>>
respVars == <<hdr, statusWritten, requestErr, out>>
copyVars == <<origin, up, down>>
vars == <<connVars, ctlVars, respVars, copyVars, pc, connType, body>>

Types == {"config", "websocket", "tcp", "control", "http"}
Results == {"run", "nil", "err", "benign"}
ControlPcs == {"register", "accepted", "localConfig", "wait", "unregister"}
Pcs == {"idle", "spawned", "done", "fail", "decode", "origin", "body",
        "copy", "drain", "drainCtx"} \union ControlPcs

TypeOK ==
  /\ ctxDone \in BOOLEAN
  /\ conn \in {"open", "edge", "local"}
  /\ serveConn \in {"serving", "returned"}
  /\ result \in {"none", "controlErr", "edgeClosed"}
  /\ closer \in {"ctx", "wait", "woken", "closing", "done", "panicked"}
  /\ connected \in BOOLEAN /\ controlStreamErr \in BOOLEAN
  /\ pc \in [Streams -> Pcs]
  /\ connType \in [Streams -> Types]
  /\ body \in [Streams -> {"open", "ended", "reset"}]
  /\ hdr \in [Streams -> {"none", "ok", "502"}]
  /\ statusWritten \in [Streams -> BOOLEAN]
  /\ requestErr \in [Streams -> BOOLEAN]
  /\ out \in [Streams -> {"none", "end", "reset", "lost"}]
  /\ origin \in [Streams -> {"none", "open", "peerClosed", "closed"}]
  /\ up \in [Streams -> Results] /\ down \in [Streams -> Results]
  /\ edgeReads \in BOOLEAN /\ early \subseteq Streams

Init ==
  /\ ctxDone = FALSE
  /\ conn = "open" /\ serveConn = "serving" /\ result = "none"
  /\ closer = "ctx" /\ edgeReads = TRUE /\ early = {}
  /\ connected = FALSE /\ controlStreamErr = FALSE
  /\ pc = [s \in Streams |-> "idle"]
  /\ connType = [s \in Streams |-> "http"]
  /\ body = [s \in Streams |-> "open"]
  /\ hdr = [s \in Streams |-> "none"]
  /\ statusWritten = [s \in Streams |-> FALSE]
  /\ requestErr = [s \in Streams |-> FALSE]
  /\ out = [s \in Streams |-> "none"]
  /\ origin = [s \in Streams |-> "none"]
  /\ up = [s \in Streams |-> "run"] /\ down = [s \in Streams |-> "run"]

(***************************************************************************)
(* activeRequestsWG.  A handler counts itself, so a stream whose goroutine *)
(* has not run yet is not counted.  The Done that brings the count to zero *)
(* releases Wait; Wait panics when it finds the count positive again as it *)
(* resumes ("WaitGroup is reused before previous Wait has returned"), and  *)
(* nothing recovers in that goroutine: the process ends.                   *)
(***************************************************************************)
Active == {s \in Streams : pc[s] \notin {"idle", "spawned", "done"}}

closerAfterDone_Any(s) == IF closer = "wait" THEN "woken" ELSE closer

closerAfterDone(s) ==
  IF closer = "wait" /\ Active = {s} THEN "woken" ELSE closer

Running == closer # "panicked"

(* The request's stream no longer exists for its handler; its context.     *)
StreamGone(s) == body[s] = "reset" \/ serveConn = "returned"
StreamCtxDone(s) == ctxDone \/ StreamGone(s)

(* The handler is in a step, or its copy of what the origin sends writes,  *)
(* which ends only when a Write to the response returns: the edge takes    *)
(* it, or the stream is gone.  The context of the request does not end it. *)
Copying(s) == pc[s] \in {"copy", "drain", "drainCtx"}
StepWrites(s) == pc[s] \in {"register", "localConfig", "unregister", "origin", "body"}
Writing(s) == StepWrites(s) \/ (Copying(s) /\ down[s] = "run")
WriteReturns(s) == edgeReads \/ StreamGone(s)

-----------------------------------------------------------------------------
(* The environment: the owner of the context, the edge, the origin.        *)

Cancel ==
  /\ ~ctxDone
  /\ ctxDone' = TRUE
  /\ early' = Active
  /\ UNCHANGED <<conn, serveConn, result, closer, edgeReads, ctlVars, respVars,
                 copyVars, pc, connType, body>>

EdgeCloses ==
  /\ conn = "open"
  /\ conn' = "edge"
  /\ UNCHANGED <<ctxDone, serveConn, result, closer, edgeReads, early,
                 ctlVars, respVars, copyVars, pc, connType, body>>

(* The edge takes no more of what a handler writes to it: the window of a  *)
(* stream, or the send buffer of the connection, is full and stays so.  A  *)
(* flag for fairness, which matters only once the context is done: the     *)
(* handlers' steps do not depend on it.                                    *)
EdgeStopsReading ==
  /\ edgeReads /\ ctxDone /\ serveConn = "serving"
  /\ \E s \in Streams : Writing(s) /\ ~StreamGone(s)
  /\ edgeReads' = FALSE
  /\ UNCHANGED <<ctxDone, conn, serveConn, result, closer, early, ctlVars,
                 respVars, copyVars, pc, connType, body>>

(* Only a handler that reads the body to its end can tell.                 *)
EdgeEndsBody(s) ==
  /\ pc[s] \notin {"idle", "done"} /\ body[s] = "open" /\ serveConn = "serving"
  /\ connType[s] \in {"config", "websocket", "tcp"}
  /\ body' = [body EXCEPT ![s] = "ended"]
  /\ UNCHANGED <<connVars, ctlVars, respVars, copyVars, pc, connType>>

EdgeResetsStream(s) ==
  /\ pc[s] \notin {"idle", "done"} /\ body[s] # "reset" /\ serveConn = "serving"
  /\ body' = [body EXCEPT ![s] = "reset"]
  /\ UNCHANGED <<connVars, ctlVars, respVars, copyVars, pc, connType>>

OriginCloses(s) ==
  /\ origin[s] = "open"
  /\ origin' = [origin EXCEPT ![s] = "peerClosed"]
  /\ UNCHANGED <<connVars, ctlVars, respVars, up, down, pc, connType, body>>

-----------------------------------------------------------------------------
(* Serve                                                                   *)

(* ServeConn reads frames until the connection is closed; it then closes   *)
(* the streams and cancels the context of their requests.                  *)
ServeConnReturns ==
  /\ serveConn = "serving" /\ conn # "open"
  /\ serveConn' = "returned"
  /\ UNCHANGED <<ctxDone, conn, result, closer, edgeReads, early,
                 ctlVars, respVars, copyVars, pc, connType, body>>

(* IsStopped() is FALSE: nobody sets GracefulShutdownC, so the control     *)
(* stream never stops gracefully and Serve never returns nil.              *)
serveResult == IF controlStreamErr THEN "controlErr" ELSE "edgeClosed"

ServeReturns ==
  /\ serveConn = "returned" /\ result = "none"
  /\ result' = serveResult
  /\ UNCHANGED <<ctxDone, conn, serveConn, closer, edgeReads, early,
                 ctlVars, respVars, copyVars, pc, connType, body>>

closeWaits_NoWait == closer = "ctx" /\ ctxDone /\ closer' = "closing"

(* close(): activeRequestsWG.Wait() returns at once or registers a waiter. *)
closeWaits ==
  /\ closer = "ctx" /\ ctxDone
  /\ closer' = IF Active = {} THEN "closing" ELSE "wait"

closeResumes ==
  /\ closer = "woken"
  /\ closer' = IF Active = {} THEN "closing" ELSE "panicked"

Close ==
  /\ \/ (closeWaits \/ closeResumes) /\ UNCHANGED conn
     \/ /\ closer = "closing"
        /\ conn' = IF conn = "open" THEN "local" ELSE conn
        /\ closer' = "done"
  /\ UNCHANGED <<ctxDone, serveConn, result, edgeReads, early, ctlVars,
                 respVars, copyVars, pc, connType, body>>

-----------------------------------------------------------------------------
(* ServeHTTP: what every handler does first and last.                      *)

determineHTTP2Type(upgrade, tcpSrc) ==
  CASE upgrade = "config" -> "config"
    [] upgrade = "websocket" -> "websocket"
    [] upgrade \notin {"config", "websocket"} /\ tcpSrc -> "tcp"
    [] upgrade = "control" /\ ~tcpSrc -> "control"
    [] OTHER -> "http"

(* The edge opens a stream; ServeConn starts a goroutine for it.           *)
NewStream(s) ==
  /\ pc[s] = "idle" /\ conn = "open" /\ serveConn = "serving"
  /\ pc' = [pc EXCEPT ![s] = "spawned"]
  /\ \E upgrade \in {"none", "control", "websocket", "config"} :
       \E tcpSrc \in BOOLEAN :
         LET t == determineHTTP2Type(upgrade, tcpSrc) IN
           t \in Offers[s] /\ connType' = [connType EXCEPT ![s] = t]
  /\ UNCHANGED <<connVars, ctlVars, respVars, copyVars, body>>

(* activeRequestsWG.Add(1) and the switch on the type.  A control stream's *)
(* RPC writes to the response at once, which sends an implicit 200 without *)
(* setting statusWritten.                                                  *)
ServeHTTP(s) ==
  /\ pc[s] = "spawned"
  /\ LET t == connType[s] IN
       /\ pc' = [pc EXCEPT ![s] = CASE t = "control" -> "register"
                                    [] t = "config" -> "decode"
                                    [] OTHER -> "origin"]
       /\ hdr' = IF t = "control" THEN [hdr EXCEPT ![s] = "ok"] ELSE hdr
  /\ UNCHANGED <<connVars, ctlVars, statusWritten, requestErr, out, copyVars,
                 connType, body>>

(* The handler returns (how = "end") or panics with ErrAbortHandler (how = *)
(* "reset"); the deferred Done and, in the proxies, the deferred close of  *)
(* the origin connection run either way, and the locals are gone.          *)
Return(s, how) ==
  /\ pc' = [pc EXCEPT ![s] = "done"]
  /\ out' = [out EXCEPT ![s] = IF StreamGone(s) THEN "lost" ELSE how]
  /\ origin' = [origin EXCEPT ![s] = "none"]
  /\ up' = [up EXCEPT ![s] = "run"] /\ down' = [down EXCEPT ![s] = "run"]
  /\ closer' = closerAfterDone(s)
  /\ UNCHANGED <<ctxDone, conn, serveConn, result, edgeReads, early>>

(* The switch leaves an error behind: reported in a step of its own.       *)
Fails(s) ==
  /\ pc' = [pc EXCEPT ![s] = "fail"]
  /\ requestErr' = [requestErr EXCEPT ![s] = TRUE]

(* WriteErrorResponse answers 502 unless a status was written before.      *)
WriteErrorResponse_Unchecked(s) ==
  /\ pc[s] = "fail"
  /\ statusWritten' = [statusWritten EXCEPT ![s] = TRUE]
  /\ hdr' = [hdr EXCEPT ![s] = IF @ = "none" THEN "502" ELSE @]
  /\ Return(s, "end")
  /\ UNCHANGED <<ctlVars, requestErr, connType, body>>

WriteErrorResponse(s) ==
  /\ pc[s] = "fail"
  /\ IF statusWritten[s]
     THEN Return(s, "reset") /\ UNCHANGED <<hdr, statusWritten>>
     ELSE /\ statusWritten' = [statusWritten EXCEPT ![s] = TRUE]
          /\ hdr' = [hdr EXCEPT ![s] = IF @ = "none" THEN "502" ELSE @]
          /\ Return(s, "end")
  /\ UNCHANGED <<ctlVars, requestErr, connType, body>>

WriteRespHeaders_Keep101(s, status) ==
  /\ hdr' = [hdr EXCEPT ![s] = status]
  /\ statusWritten' = [statusWritten EXCEPT ![s] = TRUE]

(* WriteRespHeaders: HTTP/2 has no 101, 200 takes its place.               *)
WriteRespHeaders(s, status) ==
  /\ hdr' = [hdr EXCEPT ![s] = IF status = "101" THEN "ok" ELSE status]
  /\ statusWritten' = [statusWritten EXCEPT ![s] = TRUE]

-----------------------------------------------------------------------------
(* Control stream: ServeControlStream and waitForUnregister                *)

(* The edge accepts the registration.                                      *)
RegisterConnection(s) ==
  /\ pc[s] = "register" /\ ~StreamGone(s)
  /\ pc' = [pc EXCEPT ![s] = "accepted"]
  /\ UNCHANGED <<connVars, ctlVars, respVars, copyVars, connType, body>>

(* connectedFuse.Connected(): by now the stream may be gone, and Serve may *)
(* have returned.                                                          *)
Connected(s) ==
  /\ pc[s] = "accepted"
  /\ connected' = TRUE
  /\ \E managed \in BOOLEAN :
       pc' = [pc EXCEPT ![s] = IF ConnIndex = 0 /\ ~managed THEN "localConfig"
                                                            ELSE "wait"]
  /\ UNCHANGED <<connVars, controlStreamErr, respVars,
                 copyVars, connType, body>>

(* The edge refuses, or the request times out or is cancelled.             *)
RegisterFails(s) ==
  /\ pc[s] = "register"
  /\ controlStreamErr' = TRUE
  /\ Fails(s)
  /\ UNCHANGED <<connVars, connected, hdr, statusWritten,
                 out, copyVars, connType, body>>

(* The result of SendLocalConfiguration is ignored.                        *)
SendLocalConfiguration(s) ==
  /\ pc[s] = "localConfig"
  /\ pc' = [pc EXCEPT ![s] = "wait"]
  /\ UNCHANGED <<connVars, ctlVars, respVars, copyVars, connType, body>>

waitForUnregister_StreamOnly(s) ==
  /\ pc[s] = "wait" /\ StreamGone(s)
  /\ pc' = [pc EXCEPT ![s] = "unregister"]
  /\ UNCHANGED <<connVars, ctlVars, respVars, copyVars, connType, body>>

(* gracefulShutdownC is nil: only the context ends the wait.               *)
waitForUnregister(s) ==
  /\ pc[s] = "wait" /\ StreamCtxDone(s)
  /\ pc' = [pc EXCEPT ![s] = "unregister"]
  /\ UNCHANGED <<connVars, ctlVars, respVars, copyVars, connType, body>>

(* UnregisterConnection under the finished context: its error, or that of  *)
(* the context, is the result of the control stream.                       *)
Unregister(s) ==
  /\ pc[s] = "unregister"
  /\ controlStreamErr' = TRUE
  /\ Fails(s)
  /\ UNCHANGED <<connVars, connected, hdr, statusWritten, out, copyVars,
                 connType, body>>

-----------------------------------------------------------------------------
(* handleConfigurationUpdate: decode the body, write the answer (which     *)
(* does not set statusWritten).                                            *)

ConfigDecoded(s) ==
  /\ pc[s] = "decode" /\ ~StreamGone(s)
  /\ hdr' = [hdr EXCEPT ![s] = "ok"]
  /\ Return(s, "end")
  /\ UNCHANGED <<ctlVars, statusWritten, requestErr, connType, body>>

ConfigFails(s) ==
  /\ pc[s] = "decode"
  /\ Fails(s)
  /\ UNCHANGED <<connVars, ctlVars, hdr, statusWritten, out, copyVars, connType, body>>

-----------------------------------------------------------------------------
(* ProxyHTTP and ProxyWebsocket                                            *)

(* The origin answers.  An HTTP response, or a WebSocket request that was  *)
(* not upgraded, has a body to forward; 101 starts the two copies.         *)
OriginAnswers(s) ==
  /\ pc[s] = "origin" /\ connType[s] \in {"http", "websocket"}
  /\ origin' = [origin EXCEPT ![s] = "open"]
  /\ \/ WriteRespHeaders(s, "ok") /\ pc' = [pc EXCEPT ![s] = "body"]
     \/ /\ connType[s] = "websocket"
        /\ WriteRespHeaders(s, "101") /\ pc' = [pc EXCEPT ![s] = "copy"]
  /\ UNCHANGED <<connVars, ctlVars, requestErr, out, up, down, connType, body>>

(* No answer.  ReverseProxy writes 502 itself and returns; ProxyWebsocket  *)
(* writes 502 and returns an error as well.                                *)
OriginFails(s) ==
  /\ pc[s] = "origin" /\ connType[s] \in {"http", "websocket"}
  /\ WriteRespHeaders(s, "502")
  /\ \/ connType[s] = "http" /\ Return(s, "end") /\ UNCHANGED requestErr
     \/ connType[s] = "websocket" /\ Fails(s) /\ UNCHANGED <<connVars, out, copyVars>>
  /\ UNCHANGED <<ctlVars, connType, body>>

BodyDone(s) ==
  /\ pc[s] = "body"
  /\ Return(s, "end")
  /\ UNCHANGED <<ctlVars, hdr, statusWritten, requestErr, connType, body>>

(* The origin or the edge breaks off in the middle of the body, or the     *)
(* context of the request is done: ReverseProxy panics, ProxyWebsocket     *)
(* returns the error.                                                      *)
BodyFails(s) ==
  /\ pc[s] = "body"
  /\ \/ /\ connType[s] = "http"
        /\ Return(s, "reset")
        /\ requestErr' = [requestErr EXCEPT ![s] = TRUE]
     \/ connType[s] = "websocket" /\ Fails(s) /\ UNCHANGED <<connVars, out, copyVars>>
  /\ UNCHANGED <<ctlVars, hdr, statusWritten, connType, body>>

(* proxyWebsocketStreams waits for both copies.                            *)
WebsocketDone(s) ==
  /\ pc[s] = "copy" /\ connType[s] = "websocket"
  /\ up[s] # "run" /\ down[s] # "run"
  /\ \/ /\ "err" \in {up[s], down[s]}
        /\ Fails(s) /\ UNCHANGED <<connVars, out, copyVars>>
     \/ /\ "err" \notin {up[s], down[s]}
        /\ Return(s, "end") /\ UNCHANGED requestErr
  /\ UNCHANGED <<ctlVars, hdr, statusWritten, connType, body>>

-----------------------------------------------------------------------------
(* The two copies of a WebSocket or TCP stream                             *)

(* A read of the request body returns once the edge has ended or reset the *)
(* stream or ServeConn has returned.                                       *)
ReadReturns(s) == body[s] = "ended" \/ StreamGone(s)

UpEnds(s) ==
  /\ Copying(s) /\ up[s] = "run"
  /\ ReadReturns(s)
  /\ up' = [up EXCEPT ![s] = IF StreamGone(s) THEN "err" ELSE "nil"]
  /\ UNCHANGED <<connVars, ctlVars, respVars, origin, down, pc, connType, body>>

(* Data of the edge that the origin connection no longer takes.            *)
UpWriteFails(s) ==
  /\ Copying(s) /\ up[s] = "run"
  /\ origin[s] # "open"
  /\ up' = [up EXCEPT ![s] = IF origin[s] = "closed" THEN "benign" ELSE "err"]
  /\ UNCHANGED <<connVars, ctlVars, respVars, origin, down, pc, connType, body>>

(* A read of the origin returns once either side has closed it.            *)
DownEnds(s) ==
  /\ Copying(s) /\ down[s] = "run"
  /\ \/ /\ origin[s] = "peerClosed"
        /\ \E r \in {"nil", "err"} : down' = [down EXCEPT ![s] = r]
     \/ origin[s] = "closed" /\ down' = [down EXCEPT ![s] = "benign"]
  /\ UNCHANGED <<connVars, ctlVars, respVars, origin, up, pc, connType, body>>

(* The origin sends data when the stream is gone.                          *)
DownWriteFails(s) ==
  /\ Copying(s) /\ down[s] = "run"
  /\ origin[s] = "open" /\ StreamGone(s)
  /\ down' = [down EXCEPT ![s] = "err"]
  /\ UNCHANGED <<connVars, ctlVars, respVars, origin, up, pc, connType, body>>

-----------------------------------------------------------------------------
(* ProxyTCP                                                                *)

TCPDialed(s) ==
  /\ pc[s] = "origin" /\ connType[s] = "tcp"
  /\ origin' = [origin EXCEPT ![s] = "open"]
  /\ WriteRespHeaders(s, "101")                          \* AckConnection
  /\ pc' = [pc EXCEPT ![s] = "copy"]
  /\ UNCHANGED <<connVars, ctlVars, requestErr, out, up, down, connType, body>>

(* No host, no destination, or the dial fails or is cancelled.             *)
TCPDialFails(s) ==
  /\ pc[s] = "origin" /\ connType[s] = "tcp"
  /\ Fails(s)
  /\ UNCHANGED <<connVars, ctlVars, hdr, statusWritten, out, copyVars, connType, body>>

(* HTTPResponseReadWriteAcker has neither CloseRead nor Close: nothing.    *)
stopReadWriteAckerRead == UNCHANGED body

ProxyTCPSelect_KeepOrigin(s) ==
  /\ pc[s] = "copy" /\ connType[s] = "tcp"
  /\ \/ StreamCtxDone(s) /\ pc' = [pc EXCEPT ![s] = "drainCtx"]
     \/ /\ up[s] # "run" \/ down[s] # "run"
        /\ pc' = [pc EXCEPT ![s] = "drain"]
  /\ stopReadWriteAckerRead
  /\ UNCHANGED <<connVars, ctlVars, respVars, origin, up, down, connType>>

(* select: the context is done, or one of the copies has ended.            *)
ProxyTCPSelect(s) ==
  /\ pc[s] = "copy" /\ connType[s] = "tcp"
  /\ \/ StreamCtxDone(s) /\ pc' = [pc EXCEPT ![s] = "drainCtx"]
     \/ /\ up[s] # "run" \/ down[s] # "run"
        /\ pc' = [pc EXCEPT ![s] = "drain"]
  /\ origin' = [origin EXCEPT ![s] = "closed"]
  /\ stopReadWriteAckerRead
  /\ UNCHANGED <<connVars, ctlVars, respVars, up, down, connType>>

(* waitForCopies: an error that is not benign, or that of the context.     *)
ProxyTCPReturns(s) ==
  /\ pc[s] \in {"drain", "drainCtx"} /\ up[s] # "run" /\ down[s] # "run"
  /\ LET failed == pc[s] = "drainCtx" \/ "err" \in {up[s], down[s]} IN
       \/ failed /\ Fails(s) /\ UNCHANGED <<connVars, out, copyVars>>
       \/ ~failed /\ Return(s, "end") /\ UNCHANGED requestErr
  /\ UNCHANGED <<ctlVars, hdr, statusWritten, connType, body>>

-----------------------------------------------------------------------------
Handler(s) ==
  \/ ServeHTTP(s) \/ WriteErrorResponse(s)
  \/ RegisterFails(s) \/ Connected(s) \/ SendLocalConfiguration(s)
  \/ waitForUnregister(s)
  \/ Unregister(s)
  \/ OriginFails(s) \/ TCPDialFails(s)
  \/ WebsocketDone(s) \/ ProxyTCPSelect(s) \/ ProxyTCPReturns(s)

Outcome(s) ==      \* what the edge or the origin may or may not bring about
  \/ RegisterConnection(s)
  \/ ConfigDecoded(s) \/ ConfigFails(s)
  \/ OriginAnswers(s) \/ TCPDialed(s) \/ BodyDone(s) \/ BodyFails(s)
  \/ UpWriteFails(s) \/ DownWriteFails(s)

Terminating ==
  /\ \/ closer = "panicked"
     \/ result # "none" /\ closer = "done" /\ Active = {}
  /\ UNCHANGED vars

Next ==
  \/ /\ Running
     /\ \/ Cancel \/ EdgeCloses \/ EdgeStopsReading
        \/ ServeConnReturns \/ ServeReturns \/ Close
        \/ \E s \in Streams :
             \/ NewStream(s) \/ EdgeEndsBody(s) \/ EdgeResetsStream(s)
             \/ OriginCloses(s)
             \/ Handler(s) \/ Outcome(s) \/ UpEnds(s) \/ DownEnds(s)
  \/ Terminating

(***************************************************************************)
(* Goroutines run; registration, unregistration, the round trip to the     *)
(* origin and its dial end by a timeout or the operating system, so each   *)
(* has a fair way out (failing), unless it must first get something        *)
(* written to an edge that takes nothing.  Reading a request body or a     *)
(* response body, and what the edge and the origin do, may last for ever,  *)
(* except that a body is broken off once the context of its request is     *)
(* done, if the handler is not held up writing it.  Likewise a copy ends   *)
(* only if the peer it writes to does not hold it up: of an open origin    *)
(* we do not know.  A stream has finitely many steps, so one condition for *)
(* its handler and its two copies is enough; likewise for Serve and its    *)
(* closer.                                                                 *)
(***************************************************************************)
StreamRuns(s) ==
  \/ (StepWrites(s) => WriteReturns(s)) /\ Handler(s)
  \/ origin[s] # "open" /\ UpEnds(s)
  \/ WriteReturns(s) /\ DownEnds(s)
  \/ WriteReturns(s) /\ StreamCtxDone(s) /\ (BodyFails(s) \/ BodyDone(s))
  \/ ReadReturns(s) /\ (ConfigFails(s) \/ ConfigDecoded(s))

Fairness ==
  /\ WF_vars(Running /\ (ServeConnReturns \/ ServeReturns \/ Close))
  /\ \A s \in Streams : WF_vars(Running /\ StreamRuns(s))

Spec == Init /\ [][Next]_vars
FairSpec == Spec /\ Fairness

-----------------------------------------------------------------------------
(* Properties                                                              *)

(* close() is to let requests in progress finish: when this side has       *)
(* closed the connection, no handler that was at work when the context was *)
(* done is still at work.  (close, http2_runtime_connection.go.)           *)
LocalCloseSparesRequests == conn = "local" => early \cap Active = {}

(* A request that failed never looks complete to the edge: its stream ends *)
(* with 502 or is reset, whatever the handler had written before.  The     *)
(* control stream is excepted: its RPC reports the failure.                *)
(* (ServeHTTP, WriteErrorResponse.)                                        *)
FailureIsVisible ==
  \A s \in Streams :
    requestErr[s] /\ out[s] = "end" /\ connType[s] # "control" => hdr[s] = "502"

(* WaitGroup.Wait panics only if a handler counts itself after the context *)
(* was done and is at work when none that was counted by then is left: its *)
(* request may have arrived before the shutdown.  When every request has   *)
(* been counted by then and no other arrives, the shutdown is safe.        *)
(* (close, ServeHTTP.)                                                     *)
PanicNeedsLateAdd ==
  closer = "panicked" => ctxDone /\ Active # {} /\ Active \cap early = {}

(* The handler waits for an edge that sends nothing or takes nothing, or   *)
(* for an origin.  (A TCP stream closes its origin; ProxyTCP.)             *)
WaitsForEdge(s) ==
  \/ ~ReadReturns(s) /\ (pc[s] = "decode" \/ (Copying(s) /\ up[s] = "run"))
  \/ ~WriteReturns(s) /\ Writing(s)
WaitsForOrigin(s) ==
  pc[s] = "copy" /\ connType[s] = "websocket" /\ origin[s] = "open" /\ "run" \in {up[s], down[s]}
Ended == result # "none" \/ closer = "panicked"

(* After a cancellation Serve returns, unless from some point on a handler *)
(* always waits for an edge that sends or takes nothing or, on a           *)
(* WebSocket, for an origin that stays open.  (Serve and close.)           *)
CancelEndsServe ==
  <>ctxDone => \/ <>Ended
               \/ <>[](\E s \in Streams : WaitsForEdge(s) \/ WaitsForOrigin(s))

(* Handlers outlive ServeConn, which does not wait for them, but each one  *)
(* ends, except a WebSocket whose origin stays open.                       *)
HandlersEnd ==
  \A s \in Streams :
    (serveConn = "returned" /\ pc[s] # "idle") ~>
      (pc[s] = "done" \/ WaitsForOrigin(s) \/ closer = "panicked")

(* TestInstanceRunReturnsOnContextCancel: cancelling the context ends Run. *)
CancelStopsServe == ctxDone ~> Ended
=============================================================================
