--------------------------------- MODULE RpcHttp ---------------------------------
(***************************************************************************)
(* The RPC server as the handler of HttpServer (rpc/server.go ServeHTTP):  *)
(* a request becomes a websocket, which RpcServer takes over, or it is a   *)
(* call over plain HTTP, worked off in the goroutine of its connection     *)
(* (handler.go handleReader and handle) while Close and                    *)
(* CloseClientConnections go on. A panic of the handler is recovered by    *)
(* net/http, which closes the connection.                                  *)
(***************************************************************************)
EXTENDS HttpServer

VARIABLE srv    \* the last request of each connection, and how far it is
httpVars == <<vars, srv>>

\* A request asks for an upgrade, is refused before its method runs (it does not
\* decode; an unknown method; a wrong number of parameters; a channel, for which
\* chOut is nil here; a parameter that does not decode), or reaches its method.
Requests == [kind : {"refused", "call"}, id : BOOLEAN] \cup [kind : {"upgrade"}, id : {FALSE}]
Serving(r) == [kind |-> r.kind, id |-> r.id, ran |-> "no", answer |-> "none"]
NoRequest == [kind |-> "none", id |-> FALSE, ran |-> "no", answer |-> "none"]

HttpInit == Init /\ srv = [c \in Conns |-> NoRequest]

At(c, kind, ran) ==
  net[c] = "active" /\ srv[c].kind = kind /\ srv[c].ran = ran /\ srv[c].answer = "none"

\* The handler returns with answer a, which a closed connection does not carry.
Answer(c, a) ==
  srv' = [srv EXCEPT ![c].answer = IF a # "abort" /\ c \in cut THEN "lost" ELSE a]

\* Status 500, and a body unless the request has no ID.
rpcError(c) == Answer(c, IF srv[c].id THEN "error" ELSE "status")

\* ServeHTTP with an upgrade that fails: handleWS sets the status.
handleWS(c) == At(c, "upgrade", "no") /\ Answer(c, "status")

\* handleReader, and the early returns of handle.
handleReader(c) == At(c, "refused", "no") /\ rpcError(c)

\* doCall: the method returns, or its panic becomes an error; its result may
\* not encode.
doCall(c) ==
  /\ At(c, "call", "no")
  /\ \E r \in {"value", "panic", "bad"} : srv' = [srv EXCEPT ![c].ran = r]

\* Mutant: a request without ID is answered like any other.
respondM(c) ==
  \/ At(c, "call", "panic") /\ rpcError(c)
  \/ At(c, "call", "value") /\ Answer(c, "result")
  \/ At(c, "call", "bad") /\ Answer(c, "status")

\* The end of handle: *req.ID is read after the method has run, and panics when
\* there is none; a result that does not encode leaves the body empty.
respond(c) ==
  \/ At(c, "call", "panic") /\ rpcError(c)
  \/ At(c, "call", "value") /\ Answer(c, IF srv[c].id THEN "result" ELSE "abort")
  \/ At(c, "call", "bad") /\ Answer(c, IF srv[c].id THEN "status" ELSE "abort")

Serve(c) == (handleWS(c) \/ handleReader(c) \/ doCall(c) \/ respond(c)) /\ UNCHANGED vars

\* net/http (external) around the handler: the request is there when the
\* connection becomes active; the connection is idle, or done with, when the
\* handler has returned, and it is closed after a panic.
\* (What is over is forgotten: the idle connection keeps its last request.)
Forget(c) == srv' = [srv EXCEPT ![c] = NoRequest]
NetFrame == UNCHANGED <<url, serve, waiter, ends, client>>
HttpRequest(c) ==
  /\ reportActive(c) /\ NetFrame
  /\ \E r \in Requests : srv' = [srv EXCEPT ![c] = Serving(r)]
HttpReturns(c) ==
  /\ \/ srv[c].answer \notin {"none", "abort"} /\ reportIdle(c) /\ UNCHANGED srv
     \/ srv[c].answer # "none" /\ net[c] = "active" /\ connEnds(c) /\ Forget(c)
     \/ At(c, "upgrade", "no") /\ hijack(c) /\ Forget(c)
  /\ NetFrame
HttpIdle(c) ==
  /\ \/ accept(c) \/ reportNew(c) \/ readRequest(c)
     \/ net[c] # "active" /\ connEnds(c)
  /\ NetFrame /\ Forget(c)

HttpNext ==
  /\ crashed = "no"
  /\ \/ \E c \in Conns : Serve(c) \/ HttpRequest(c) \/ HttpReturns(c) \/ HttpIdle(c)
     \/ /\ UNCHANGED srv
        /\ \/ Start \/ goServe \/ serveFails
           \/ \E c \in Conns : closeConnChan(c)
           \/ \E k \in Closers : Close(k)
           \/ \E p \in Waiters : waitReturns(p)
           \/ CloseClientConnections \/ cccReturns

HttpSpec == HttpInit /\ [][HttpNext]_httpVars

\* The fairness of HttpServer, with the handler at work between two reports.
HttpFairSpec ==
  /\ HttpSpec
  /\ WF_httpVars(Live(goServe /\ UNCHANGED srv)) /\ WF_httpVars(Live(serveFails /\ UNCHANGED srv))
  /\ \A p \in Waiters : WF_httpVars(Live(waitReturns(p) /\ UNCHANGED srv))
  /\ \A c \in Conns :
       /\ WF_httpVars(Live(Serve(c) \/ HttpRequest(c) \/ HttpReturns(c)
                           \/ (net[c] = "accepted" /\ HttpIdle(c))))
       /\ WF_httpVars(Live(HttpIdle(c) /\ MustEnd(c) /\ net'[c] = "ended"))

\* A connection is only used for another request when the sender of the last
\* one knows what became of it: whoever gave an ID has a result or an error, a
\* method that has run without an ID to answer costs the connection (the panic
\* at handler.go:161), and an answer is only lost over a connection that
\* Close or CloseClientConnections closed.
ReusedWhenAnswered ==
  \A c \in Conns : LET s == srv[c] IN
    /\ net[c] = "idle" /\ s.ran \in {"value", "bad"} => s.id
    /\ net[c] = "idle" /\ s.id =>
         s.answer \in {"result", "error"} \/ s.ran = "bad" \/ c \in cut
    /\ s.answer = "result" => s.ran = "value" /\ s.id
=============================================================================
