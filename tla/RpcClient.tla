------------------------------- MODULE RpcClient -------------------------------
(***************************************************************************)
(* The client half of a JSON-RPC websocket connection: the goroutines that *)
(* call (client.go handleRpcCall and sendRequest), the connection loop     *)
(* (websocket.go handleWsConn with `requests` and `stop` set), the reader  *)
(* goroutine nextMessage, the handleCtxAsync goroutines of channel-valued  *)
(* calls, the writer lock writeLK, and the closer NewMergeClient returns.  *)
(* The peer and the network are external and may answer in any order,      *)
(* twice, with a result that does not fit, call the client, or go away.    *)
(*                                                                         *)
(* The mutexes writeLK and handlingLK are Booleans, as in Go: they have no *)
(* owner, anybody may unlock them, and unlocking one that is free ends the *)
(* process. A panic of the loop runs its deferred functions first and ends *)
(* the process when they have returned.                                    *)
(***************************************************************************)
EXTENDS Naturals, Sequences, FiniteSets

CONSTANTS
  Callers,      \* goroutines that call the functions of the handler struct
  ChanCallers,  \* those whose function returns a channel (rpcFunc.retCh)
  MaxCalls,     \* bound on the calls of a behaviour: the ids are 1..MaxCalls
  ReqCap,       \* capacity of client.requests (100 in the code)
  MaxFrames,    \* bound on the frames the peer sends
  OwnFrames,    \* it sends what is no answer only among the first so many
  Faults        \* what the environment may do, a subset of FaultKinds

FaultKinds == {"cancel", "stop", "drop", "close", "frames", "calls"}

ASSUME ClientAssumption ==
  /\ ChanCallers \subseteq Callers
  /\ {MaxCalls, MaxFrames, OwnFrames} \subseteq Nat
  /\ ReqCap \in Nat \ {0}
  /\ Faults \subseteq FaultKinds

Ids == 1..MaxCalls
NoID == 0                    \* a request or a frame whose ID is nil
Loop == 0                    \* the connection loop, as a writer
Senders == {Loop} \cup Ids   \* the loop, and handleCtxAsync of call i
Handler == MaxCalls + 1      \* a goroutine that handles a call of the peer
Writers == Senders \cup {Handler}

Bodies == {"value", "error", "unfit"}
Frames == [id : Ids \cup {NoID}, body : Bodies \cup {"garbage", "call", "notify"}]
NoFrame == [id |-> NoID, body |-> "garbage"]
NoReply == [id |-> NoID, body |-> "none"]
Replies == [id : Ids, body : Bodies \cup {"closed"}]

VARIABLES
  idCtr,      \* client.idCtr: the last id given out
  pc, call,   \* control state of each caller, and the id of its call
  ctxDone,    \* ids whose context has been cancelled
  nilDone,    \* ids whose wait has set ctxDone to nil (client.go:208)
  retCh,      \* ids whose clientRequest carries a sink
  requests,   \* client.requests: buffered, NoID stands for a cancel request
  inflight,   \* keys of wsConn.inflight
  ready,      \* clientRequest.ready of each call: room for one reply
  loop,       \* control state of handleWsConn
  frame,      \* the frame handleWsConn is working on
  closeId,    \* the variable `id` that the deferred loop shares with replies
  toClose,    \* inflight keys the deferred loop has not told so far
  panicking,  \* "no", or the panic of the loop, whose deferred functions run
  handlingLK, \* the lock of wsConn.handling
  w, writeLK, \* control state of each writer, and the writer lock
  reader,     \* the nextMessage goroutine
  held,       \* the message it offers on `incoming`
  conn,       \* what has become of the connection
  fromPeer,   \* frames on their way to the reader
  sent,       \* ids whose request frame reached the network
  nFrames,    \* frames the peer has sent so far
  writeErr,   \* the connection has failed a write, and fails all later ones
  stop, exiting, closer,
  crashed,    \* "no", or why the process has died
  delivered,  \* history: replies put into ready, per call
  outcome     \* history: what each call returned

callerVars == <<idCtr, pc, call, ctxDone, nilDone, retCh, outcome>>
replyVars  == <<ready, delivered>>
loopVars   == <<inflight, loop, frame, closeId, toClose>>
panicVars  == <<panicking, handlingLK>>
lockVars   == <<w, writeLK>>
readVars   == <<reader, held>>
connVars   == <<conn, sent, writeErr>>
peerVars   == <<fromPeer, nFrames>>
endVars    == <<stop, exiting, closer>>
vars == <<callerVars, requests, replyVars, loopVars, panicVars, lockVars,
          readVars, connVars, peerVars, endVars, crashed>>

\* Failures that processError turns into the zero value and a nil error: it
\* builds the error value and leaves it nil (client.go:92 is commented out).
Swallowed == {"exiting", "mismatch", "unmarshal"}
Outcomes == {"none", "value", "error", "closed"} \cup Swallowed

Init ==
  /\ idCtr = 0
  /\ pc = [c \in Callers |-> "idle"] /\ call = [c \in Callers |-> NoID]
  /\ ctxDone = {} /\ nilDone = {} /\ retCh = {}
  /\ requests = <<>> /\ inflight = {}
  /\ ready = [i \in Ids |-> NoReply]
  /\ loop = "select" /\ frame = NoFrame
  /\ closeId = NoID /\ toClose = {}
  /\ panicking = "no" /\ handlingLK = FALSE
  /\ w = [p \in Writers |-> "none"] /\ writeLK = FALSE
  /\ reader = "read" /\ held = NoFrame
  /\ conn = "open" /\ fromPeer = <<>> /\ sent = {} /\ nFrames = 0
  /\ writeErr = FALSE
  /\ stop = FALSE /\ exiting = FALSE /\ closer = "idle"
  /\ crashed = "no"
  /\ delivered = [i \in Ids |-> 0]
  /\ outcome = [i \in Ids |-> "none"]

-----------------------------------------------------------------------------
(* The callers: handleRpcCall and client.sendRequest.                      *)

\* handleRpcCall up to its call of sendRequest: take an id, build the request,
\* and a sink if the function returns a channel.
handleRpcCall(c) ==
  /\ pc[c] = "idle" /\ idCtr < MaxCalls
  /\ idCtr' = idCtr + 1
  /\ call' = [call EXCEPT ![c] = idCtr + 1]
  /\ pc' = [pc EXCEPT ![c] = "enqueue"]
  /\ retCh' = IF c \in ChanCallers THEN retCh \cup {idCtr + 1} ELSE retCh
  /\ UNCHANGED <<nilDone, outcome, requests, ready>>

\* The call of c returns with outcome o.
Return(c, o) ==
  /\ pc' = [pc EXCEPT ![c] = "idle"]
  /\ outcome' = [outcome EXCEPT ![call[c]] = o]
  /\ call' = [call EXCEPT ![c] = NoID]

\* First select of sendRequest, `c.requests <- creq`.
sendRequest(c) ==
  /\ pc[c] = "enqueue" /\ Len(requests) < ReqCap
  /\ requests' = Append(requests, call[c])
  /\ pc' = [pc EXCEPT ![c] = "wait"]
  /\ UNCHANGED <<idCtr, call, nilDone, retCh, outcome, ready>>

\* Mutant: the select listens on the wrong channel, `stop`.
sendRequestExitingM(c) ==
  /\ pc[c] = "enqueue" /\ stop
  /\ Return(c, "exiting")
  /\ UNCHANGED <<idCtr, nilDone, retCh, requests, ready>>

\* First select of sendRequest, `<-c.exiting`.
sendRequestExiting(c) ==
  /\ pc[c] = "enqueue" /\ exiting
  /\ Return(c, "exiting")
  /\ UNCHANGED <<idCtr, nilDone, retCh, requests, ready>>

\* What *resp.ID is when the caller looks at it. A reply of handleResponse
\* points to its own frame. A reply of the deferred loop points to the one
\* variable `id` of that loop (go 1.13 scoping), which the loop goes on
\* assigning: an unsynchronised read sees the caller's id or the current one.
SeenID(r) == IF r.body = "closed" THEN {r.id, closeId} ELSE {r.id}

\* The value and error of the call, from a reply whose id was read as seen.
OutcomeOf(i, r, seen) ==
  CASE seen # i           -> "mismatch"
    [] r.body = "unfit"   -> "unmarshal"
    [] OTHER              -> r.body

\* Second select, `resp = <-rchan`, the id check and processResponse.
receive(c) ==
  LET i == call[c] r == ready[i] IN
  /\ pc[c] = "wait" /\ r # NoReply
  /\ \E seen \in SeenID(r) : Return(c, OutcomeOf(i, r, seen))
  /\ ready' = [ready EXCEPT ![i] = NoReply]
  /\ UNCHANGED <<idCtr, nilDone, retCh, requests>>

\* Mutant: the caller returns as soon as its context is done.
ctxDoneSeenM(c) ==
  /\ pc[c] = "wait" /\ call[c] \in ctxDone \ nilDone
  /\ Return(c, "error")
  /\ UNCHANGED <<idCtr, nilDone, retCh, requests, ready>>

\* Second select, `<-ctxDone`.
ctxDoneSeen(c) ==
  /\ pc[c] = "wait" /\ call[c] \in ctxDone \ nilDone
  /\ nilDone' = nilDone \cup {call[c]}
  /\ pc' = [pc EXCEPT ![c] = "cancel"]
  /\ UNCHANGED <<idCtr, call, retCh, outcome, requests, ready>>

\* The inner select: the cancel request carries no ID; it is dropped with a
\* warning once the connection loop has exited.
sendCancel(c) ==
  /\ pc[c] = "cancel"
  /\ \/ /\ Len(requests) < ReqCap
        /\ requests' = Append(requests, NoID)
     \/ exiting /\ UNCHANGED requests
  /\ pc' = [pc EXCEPT ![c] = "wait"]
  /\ UNCHANGED <<idCtr, call, nilDone, retCh, outcome, ready>>

-----------------------------------------------------------------------------
(* Writers: wsConn.sendRequest, called by the loop and by handleCtxAsync.  *)

\* writeLK.Unlock(): fatal when the mutex is not locked.
Unlock ==
  /\ writeLK' = FALSE
  /\ crashed' = IF writeLK THEN crashed ELSE "unlock of unlocked mutex"

Lock(p) ==
  /\ w[p] = "lock" /\ ~writeLK
  /\ writeLK' = TRUE
  /\ w' = [w EXCEPT ![p] = "write"]
  /\ UNCHANGED <<loop, frame, sent, writeErr, crashed>>

\* A write can fail once the connection is not open any more; it must fail
\* after conn.Close, and after the close frame of the peer has been answered.
CanFail  == conn # "open"
MustFail == writeErr \/ conn = "local" \/ (conn = "closed" /\ reader = "closed")

\* wsConn.sendRequest returns: the loop goes on, a handleCtxAsync ends.
EndSend(p) ==
  /\ w' = [w EXCEPT ![p] = "none"]
  /\ loop' = IF p = Loop THEN "select" ELSE loop
  /\ frame' = IF p = Loop THEN NoFrame ELSE frame

\* WriteJSON succeeds and the lock is released.
WriteOK(p) ==
  /\ w[p] = "write" /\ (p = Loop => loop = "send") /\ ~MustFail
  /\ Unlock
  /\ EndSend(p)
  /\ sent' = IF p = Loop THEN sent \cup {frame.id} ELSE sent
  /\ UNCHANGED writeErr

\* Mutant: the error branch returns without unlocking.
WriteFailM(p) ==
  /\ w[p] = "write" /\ (p = Loop => loop = "send") /\ CanFail
  /\ writeErr' = TRUE
  /\ EndSend(p)
  /\ UNCHANGED <<writeLK, sent, crashed>>

\* WriteJSON fails: Unlock inside the error branch (websocket.go:241) ...
WriteFail(p) ==
  /\ w[p] = "write" /\ (p = Loop => loop = "send") /\ CanFail
  /\ writeErr' = TRUE
  /\ Unlock
  /\ w' = [w EXCEPT ![p] = "unlock"]
  /\ UNCHANGED <<loop, frame, sent>>

\* ... and once more behind it (websocket.go:243).
UnlockAgain(p) ==
  /\ w[p] = "unlock"
  /\ Unlock
  /\ EndSend(p)
  /\ UNCHANGED <<sent, writeErr>>

\* The answer to a call of the peer, an error from handle: nextWriter unlocks
\* once, whichever of its steps fails ...
nextWriter ==
  /\ w[Handler] = "write"
  /\ \/ ~MustFail /\ UNCHANGED writeErr
     \/ CanFail /\ writeErr' = TRUE
  /\ Unlock
  /\ w' = [w EXCEPT ![Handler] = "done"]
  /\ UNCHANGED <<loop, frame, sent>>

\* ... and done takes the entry of the call out of handling.
done ==
  /\ w[Handler] = "done" /\ ~handlingLK
  /\ w' = [w EXCEPT ![Handler] = "none"]
  /\ UNCHANGED <<loop, frame, writeLK, sent, writeErr, crashed>>

\* handleCtxAsync of channel call i: its context ends, it sends wsCancel.
handleCtxAsync(i) ==
  /\ w[i] = "ctx" /\ i \in ctxDone
  /\ w' = [w EXCEPT ![i] = "lock"]
  /\ UNCHANGED <<loop, frame, writeLK, sent, writeErr, crashed>>

-----------------------------------------------------------------------------
(* The connection loop: handleWsConn.                                      *)

\* `case r, ok := <-c.incoming` with a message.
loopIncoming ==
  /\ loop = "select" /\ reader = "offer"
  /\ loop' = "handle" /\ frame' = held
  /\ reader' = "none" /\ held' = NoFrame
  /\ UNCHANGED <<requests, replyVars, inflight, closeId, toClose, lockVars,
                 conn, exiting, crashed>>

\* Mutant: the deferred loop tells nobody.
StartClosingM == loop' = "closing" /\ toClose' = {} /\ frame' = NoFrame

\* The deferred functions start: every inflight call is still to be told.
StartClosing == loop' = "closing" /\ toClose' = inflight /\ frame' = NoFrame

\* `case r, ok := <-c.incoming` on the closed channel.
loopIncomingClosed ==
  /\ loop = "select" /\ reader = "closed"
  /\ StartClosing
  /\ UNCHANGED <<requests, replyVars, inflight, closeId, lockVars,
                 readVars, conn, exiting, crashed>>

\* The frame does not decode: the loop returns.
decodeError ==
  /\ loop = "handle" /\ frame.body = "garbage"
  /\ StartClosing
  /\ UNCHANGED <<requests, replyVars, inflight, closeId, lockVars,
                 readVars, conn, exiting, crashed>>

\* Mutant: the next reader is not started.
NextRoundM == loop' = "select" /\ frame' = NoFrame /\ UNCHANGED readVars

\* After handleFrame: `go c.nextMessage()` and back to the select.
NextRound == loop' = "select" /\ frame' = NoFrame /\ reader' = "read" /\ UNCHANGED held

\* handleResponse returns early: no ID, an unknown ID, or a result that is no
\* channel id although the call wants a channel (the call stays in inflight).
Ignored(f) ==
  \/ f.id = NoID
  \/ f.id \notin inflight
  \/ f.id \in retCh /\ f.body = "unfit"

handleResponseIgnored ==
  /\ loop = "handle" /\ frame.body \in Bodies /\ Ignored(frame)
  /\ NextRound
  /\ UNCHANGED <<requests, replyVars, inflight, closeId, toClose,
                 lockVars, conn, exiting, crashed>>

\* Mutant: the answered call stays in inflight.
handleResponseM ==
  LET i == frame.id IN
  /\ loop = "handle" /\ frame.body \in Bodies /\ ~Ignored(frame)
  /\ ready[i] = NoReply
  /\ ready' = [ready EXCEPT ![i] = [id |-> i, body |-> frame.body]]
  /\ delivered' = [delivered EXCEPT ![i] = @ + 1]
  /\ NextRound
  /\ UNCHANGED <<inflight, w, requests, closeId, toClose, writeLK, conn,
                 exiting, crashed>>

\* handleResponse answers the call: sink and handleCtxAsync for a channel
\* value, then the reply into ready (which blocks while ready is full), then
\* the entry leaves inflight.
handleResponse ==
  LET i == frame.id IN
  /\ loop = "handle" /\ frame.body \in Bodies /\ ~Ignored(frame)
  /\ ready[i] = NoReply
  /\ ready' = [ready EXCEPT ![i] = [id |-> i, body |-> frame.body]]
  /\ delivered' = [delivered EXCEPT ![i] = @ + 1]
  /\ inflight' = inflight \ {i}
  /\ w' = IF i \in retCh /\ frame.body = "value"
          THEN [w EXCEPT ![i] = "ctx"] ELSE w
  /\ NextRound
  /\ UNCHANGED <<requests, closeId, toClose, writeLK, conn, exiting,
                 crashed>>

\* Mutant: handlingLK is not unlocked behind the assignment.
handleCallM ==
  /\ loop = "handle" /\ frame.body = "call" /\ ~handlingLK
  /\ handlingLK' = TRUE /\ UNCHANGED panicking
  /\ w' = [w EXCEPT ![Handler] = "lock"]
  /\ NextRound
  /\ UNCHANGED <<requests, replyVars, inflight, closeId, toClose, writeLK, conn,
                 exiting, crashed>>

\* handleCall with an ID: its cancel function goes into handling, and a
\* goroutine is started, whose handle finds no method.
handleCall ==
  /\ loop = "handle" /\ frame.body = "call" /\ ~handlingLK
  /\ w' = [w EXCEPT ![Handler] = "lock"]
  /\ NextRound
  /\ UNCHANGED <<requests, replyVars, inflight, closeId, toClose, panicVars, writeLK,
                 conn, exiting, crashed>>

\* handleCall without one: `&frame.ID != nil` is always true, and *frame.ID
\* panics between Lock and Unlock of handlingLK: nobody unlocks it again.
handleCallNoID ==
  /\ loop = "handle" /\ frame.body = "notify" /\ ~handlingLK
  /\ handlingLK' = TRUE
  /\ panicking' = "nil frame ID" /\ StartClosing
  /\ UNCHANGED <<requests, replyVars, inflight, closeId, lockVars, readVars, conn,
                 exiting, crashed>>

\* `case req := <-c.requests`. The test `&req.req.ID != nil` is always true:
\* a cancel request, whose ID is nil, panics at *req.req.ID.
loopRequest ==
  LET i == Head(requests) IN
  /\ loop = "select" /\ requests # <<>>
  /\ requests' = Tail(requests)
  /\ IF i = NoID
     THEN panicking' = "nil ID" /\ StartClosing /\ UNCHANGED <<inflight, w>>
     ELSE /\ inflight' = inflight \cup {i}
          /\ loop' = "send" /\ frame' = [id |-> i, body |-> "value"]
          /\ w' = [w EXCEPT ![Loop] = "lock"]
          /\ UNCHANGED <<toClose, panicking>>
  /\ UNCHANGED <<replyVars, closeId, handlingLK, writeLK, readVars, conn, exiting, crashed>>

\* Mutant: the close message is written without the lock.
loopStopM ==
  /\ loop = "select" /\ stop
  /\ loop' = "stop" /\ w' = [w EXCEPT ![Loop] = "write"]
  /\ UNCHANGED <<requests, replyVars, inflight, frame, closeId, toClose,
                 writeLK, readVars, conn, exiting, crashed>>

\* `case <-c.stop`: wait for the lock ...
loopStop ==
  /\ loop = "select" /\ stop
  /\ loop' = "stop" /\ w' = [w EXCEPT ![Loop] = "lock"]
  /\ UNCHANGED <<requests, replyVars, inflight, frame, closeId, toClose,
                 writeLK, readVars, conn, exiting, crashed>>

\* ... write the close message (its error is only logged), close, unlock, return.
writeClose ==
  /\ loop = "stop" /\ w[Loop] = "write"
  /\ conn' = "local"
  /\ Unlock
  /\ w' = [w EXCEPT ![Loop] = "none"]
  /\ StartClosing
  /\ UNCHANGED <<requests, replyVars, inflight, closeId, readVars,
                 exiting>>

\* The deferred loop over inflight, in the map's random order: its variable `id`
\* is assigned, where the replies it has given out so far point to ...
rangeInflight ==
  /\ loop = "closing" /\ closeId' \in toClose /\ loop' = "tell"
  /\ UNCHANGED <<requests, replyVars, inflight, frame, toClose, lockVars, readVars,
                 conn, exiting, crashed>>

\* ... the call is told ...
closeInflight ==
  LET i == closeId IN
  /\ loop = "tell" /\ ready[i] = NoReply
  /\ ready' = [ready EXCEPT ![i] = [id |-> i, body |-> "closed"]]
  /\ delivered' = [delivered EXCEPT ![i] = @ + 1]
  /\ toClose' = toClose \ {i} /\ loop' = "cancelAll"
  /\ UNCHANGED <<requests, inflight, frame, closeId, lockVars, readVars, conn, exiting,
                 crashed>>

\* ... and, under handlingLK, the contexts of the peer's calls are cancelled.
cancelAll ==
  /\ loop = "cancelAll" /\ ~handlingLK
  /\ loop' = "closing"
  /\ UNCHANGED <<requests, replyVars, inflight, frame, closeId, toClose, lockVars,
                 readVars, conn, exiting, crashed>>

\* `defer close(c.exiting)` and the end of the loop's goroutine.
closeExiting ==
  /\ loop = "closing" /\ toClose = {}
  /\ exiting' = TRUE /\ loop' = "exited"
  /\ UNCHANGED <<requests, replyVars, inflight, frame, closeId, toClose,
                 lockVars, readVars, conn, crashed>>

\* The deferred functions of a loop that panicked have returned.
panicEnds ==
  /\ loop = "exited" /\ panicking # "no"
  /\ crashed' = panicking
  /\ UNCHANGED <<requests, replyVars, loopVars, lockVars, readVars, conn, exiting>>

-----------------------------------------------------------------------------
(* The reader goroutine: nextMessage.                                      *)

nextMessage ==
  /\ reader = "read" /\ fromPeer # <<>> /\ conn # "local"
  /\ reader' = "offer" /\ held' = Head(fromPeer)
  /\ fromPeer' = Tail(fromPeer)

\* NextReader fails: incomingErr is set and `incoming` closed. After a close
\* frame the frames before it have been read; a broken connection may lose some.
nextMessageErr ==
  /\ reader = "read"
  /\ \/ conn \in {"local", "broken"}
     \/ conn = "closed" /\ fromPeer = <<>>
  /\ reader' = "closed"
  /\ UNCHANGED <<held, fromPeer>>

-----------------------------------------------------------------------------
(* The closer returned by NewMergeClient.                                  *)

closeStop ==
  /\ "stop" \in Faults /\ closer = "idle"
  /\ stop' = TRUE /\ closer' = "waiting"
  /\ UNCHANGED <<ctxDone, conn, peerVars>>

closerReturn ==
  /\ closer = "waiting" /\ exiting
  /\ closer' = "returned"
  /\ UNCHANGED <<ctxDone, conn, peerVars, stop>>

-----------------------------------------------------------------------------
(* The environment: contexts, the peer and the network (external).         *)

cancelContext(i) ==
  /\ "cancel" \in Faults /\ i <= idCtr /\ i \notin ctxDone
  /\ ctxDone' = ctxDone \cup {i}
  /\ UNCHANGED <<conn, peerVars, stop, closer>>

PeerSends(f) ==
  /\ conn = "open" /\ nFrames < MaxFrames
  /\ fromPeer' = Append(fromPeer, f) /\ nFrames' = nFrames + 1
  /\ UNCHANGED <<ctxDone, conn, stop, closer>>

Answered(i) == \/ \E k \in 1..Len(fromPeer) : fromPeer[k].id = i
               \/ reader = "offer" /\ held.id = i
               \/ loop = "handle" /\ frame.id = i
               \/ delivered[i] > 0

\* An answer to a request that arrived, given once.
peerAnswers(i) ==
  /\ i \in sent /\ ~Answered(i)
  /\ \E b \in {"value", "error"} : PeerSends([id |-> i, body |-> b])

\* Any other frame: a second answer, a result that does not fit the call, an
\* answer without an id, or bytes that are not a frame at all.
peerSendsAny ==
  /\ "frames" \in Faults /\ nFrames < OwnFrames
  /\ \/ \E i \in sent, b \in Bodies : PeerSends([id |-> i, body |-> b])
     \/ \E b \in {"value", "garbage"} : PeerSends([id |-> NoID, body |-> b])

\* A call of the peer, with or without an ID (its ids are not the client's, and
\* only a nil one matters). The bound: one at a time has an ID.
Calling == \/ \E k \in 1..Len(fromPeer) : fromPeer[k].body = "call"
           \/ "call" \in {held.body, frame.body} \/ w[Handler] # "none"
peerCalls ==
  /\ "calls" \in Faults /\ nFrames < OwnFrames
  /\ \E b \in (IF Calling THEN {} ELSE {"call"}) \cup {"notify"} :
       PeerSends([id |-> NoID, body |-> b])

connLost ==
  /\ conn = "open"
  /\ \/ "drop" \in Faults /\ conn' = "broken"
     \/ "close" \in Faults /\ conn' = "closed"
  /\ UNCHANGED <<ctxDone, peerVars, stop, closer>>

-----------------------------------------------------------------------------
\* Each group of steps with the variables none of its steps touches.
CallerFrame ==
  UNCHANGED <<ctxDone, delivered, loopVars, panicVars, lockVars, readVars, connVars,
              peerVars, endVars, crashed>>
WriterFrame ==
  UNCHANGED <<callerVars, requests, replyVars, inflight, closeId, toClose, panicVars,
              readVars, conn, peerVars, endVars>>
LoopFrame ==
  UNCHANGED <<callerVars, sent, writeErr, peerVars, stop, closer>>
ReaderFrame ==
  UNCHANGED <<callerVars, requests, replyVars, loopVars, panicVars, lockVars, connVars,
              nFrames, endVars, crashed>>
EnvFrame ==
  UNCHANGED <<idCtr, pc, call, nilDone, retCh, outcome, requests, replyVars,
              loopVars, panicVars, lockVars, readVars, sent, writeErr, exiting, crashed>>

Begin(c) == handleRpcCall(c) /\ CallerFrame
Continue(c) ==
  /\ sendRequest(c) \/ sendRequestExiting(c) \/ receive(c) \/ ctxDoneSeen(c)
     \/ sendCancel(c)
  /\ CallerFrame
Acquire(p) == Lock(p) /\ WriterFrame
Write(p) == (WriteOK(p) \/ WriteFail(p) \/ UnlockAgain(p)) /\ WriterFrame
AsyncCancel(i) == handleCtxAsync(i) /\ WriterFrame
Incoming == (loopIncoming \/ loopIncomingClosed) /\ LoopFrame /\ UNCHANGED panicVars
Answer == (nextWriter \/ done) /\ WriterFrame
Handle ==
  /\ \/ (decodeError \/ handleResponseIgnored \/ handleResponse) /\ UNCHANGED panicVars
     \/ handleCall \/ handleCallNoID
  /\ LoopFrame
Request == loopRequest /\ LoopFrame
Stop == loopStop /\ LoopFrame /\ UNCHANGED panicVars
Exit ==
  /\ writeClose \/ rangeInflight \/ closeInflight \/ cancelAll \/ closeExiting
     \/ panicEnds
  /\ LoopFrame /\ UNCHANGED panicVars
Read == (nextMessage \/ nextMessageErr) /\ ReaderFrame
CloserEnds == closerReturn /\ EnvFrame
PeerAnswers(i) == peerAnswers(i) /\ EnvFrame
Environment ==
  /\ closeStop \/ (\E i \in Ids : cancelContext(i)) \/ peerSendsAny \/ peerCalls
     \/ connLost
  /\ EnvFrame

Next ==
  /\ crashed = "no"
  /\ \/ \E c \in Callers : Begin(c) \/ Continue(c)
     \/ \E p \in Writers : Acquire(p)
     \/ \E p \in Senders : Write(p)
     \/ \E i \in Ids : AsyncCancel(i) \/ PeerAnswers(i)
     \/ Answer
     \/ Incoming \/ Handle \/ Request \/ Stop \/ Exit
     \/ Read \/ CloserEnds \/ Environment

Spec == Init /\ [][Next]_vars

\* A goroutine that is under way takes a step, or the peer gives an answer it
\* owes: everything but what nobody has to do, which is to call, to cancel, to
\* stop, to send something else, or to fail.
UnderWay ==
  \/ \E c \in Callers : Continue(c)
  \/ \E p \in Writers : Acquire(p)
  \/ \E p \in Senders : Write(p)
  \/ \E i \in Ids : AsyncCancel(i) \/ PeerAnswers(i)
  \/ Answer
  \/ Incoming \/ Handle \/ Request \/ Stop \/ Exit
  \/ Read \/ CloserEnds

\* As long as something under way can go on, something does. Calls and frames are
\* bounded, so every behaviour runs out of steps, and a step that stays possible
\* is taken before it does: weak or strong fairness of each single goroutine would
\* say no more.
Fairness == WF_vars(crashed = "no" /\ UnderWay)

FairSpec == Spec /\ Fairness

-----------------------------------------------------------------------------
(* Properties.                                                             *)

\* The values the variables of the client can take.
CallerType ==
  /\ idCtr \in 0..MaxCalls
  /\ pc \in [Callers -> {"idle", "enqueue", "wait", "cancel"}]
  /\ call \in [Callers -> Ids \cup {NoID}]
  /\ ctxDone \subseteq Ids /\ nilDone \subseteq Ids /\ retCh \subseteq Ids
  /\ requests \in Seq(Ids \cup {NoID}) /\ Len(requests) <= ReqCap
  /\ ready \in [Ids -> Replies \cup {NoReply}]
  /\ delivered \in [Ids -> 0..1]
  /\ outcome \in [Ids -> Outcomes]
LoopType ==
  /\ inflight \subseteq Ids /\ toClose \subseteq inflight
  /\ loop \in {"select", "handle", "send", "stop", "closing", "tell", "cancelAll", "exited"}
  /\ panicking \in {"no", "nil ID", "nil frame ID"}
  /\ frame \in Frames
  /\ closeId \in Ids \cup {NoID}
  /\ loop = "send" => frame.id \in Ids
ConnType ==
  /\ w \in [Writers -> {"none", "ctx", "lock", "write", "unlock", "done"}]
  /\ reader \in {"read", "offer", "none", "closed"} /\ held \in Frames
  /\ conn \in {"open", "closed", "broken", "local"}
  /\ fromPeer \in Seq(Frames) /\ nFrames \in Nat
  /\ sent \subseteq Ids
  /\ closer \in {"idle", "waiting", "returned"}
  /\ crashed \in {"no", "nil ID", "nil frame ID", "unlock of unlocked mutex"}
FlagType == {writeLK, handlingLK, writeErr, stop, exiting} \subseteq BOOLEAN
TypeOK == CallerType /\ LoopType /\ ConnType /\ FlagType

Waiting(i) == \E c \in Callers : call[c] = i /\ pc[c] \in {"wait", "cancel"}
Exiting == loop \in {"closing", "tell", "cancelAll", "exited"}

\* A reply is put into the one-place channel `ready` of a call at most once,
\* and there is room for it: the loop, which every call of the connection
\* depends on, never blocks on a caller (websocket.go:276 and :112).
LoopNeverBlocks ==
  /\ \A i \in inflight : ~Exiting => delivered[i] = 0 /\ ready[i] = NoReply
  /\ \A i \in toClose : delivered[i] = 0 /\ ready[i] = NoReply

\* A call that waits in sendRequest is in exactly one place: its request in
\* the buffer of `requests` (once), in inflight without a reply so far, or its
\* reply in `ready`; and nothing is in one of these places that no caller
\* waits for. So no reply is orphaned and none overtakes its registration.
Queued(i)  == \E k \in 1..Len(requests) : requests[k] = i
Pending(i) == i \in inflight /\ delivered[i] = 0
Replied(i) == ready[i] # NoReply

EachCallInOnePlace ==
  /\ \A i \in Ids : Waiting(i) <=> Queued(i) \/ Pending(i) \/ Replied(i)
  /\ \A i \in Ids : Queued(i) => i \notin inflight /\ delivered[i] = 0
  /\ \A i \in Ids : Replied(i) => delivered[i] = 1
  /\ \A j, k \in 1..Len(requests) :
       requests[j] = requests[k] /\ requests[j] # NoID => j = k

\* When the loop has exited, a call that still waits without a reply is one
\* whose request was left in the buffer of `requests`: the deferred loop has
\* told every call that was inflight.
OnlyQueuedCallsAreLost ==
  loop = "exited" =>
    \A i \in Ids : Waiting(i) /\ ready[i] = NoReply => Queued(i)

\* What the two properties above rest on. Callers: ids are given out once,
\* and a call that is not enqueued yet has left no trace. Loop: only a loop
\* that runs writes, and an inflight call without a reply is still to be told.
\* Panic: only a call without an ID leaves handlingLK locked, and then the
\* deferred loop tells one call at most.
CallerInv ==
  /\ \A c \in Callers : (pc[c] = "idle" <=> call[c] = NoID) /\ call[c] <= idCtr
  /\ \A c, d \in Callers : call[c] = call[d] /\ call[c] # NoID => c = d
  /\ \A i \in Ids : i > idCtr \/ (\E c \in Callers : call[c] = i /\ pc[c] = "enqueue")
       => ~Queued(i) /\ i \notin inflight /\ ~Replied(i) /\ delivered[i] = 0
LoopInv ==
  /\ \A i \in inflight : ~Exiting => delivered[i] = 0
  /\ Exiting => toClose = {i \in inflight : delivered[i] = 0}
  /\ ~Exiting => toClose = {}
  /\ loop = "exited" => toClose = {}
  /\ w[Loop] # "none" => loop \in {"send", "stop"}
  /\ w[Loop] = "unlock" => loop = "send"
PanicInv ==
  /\ panicking # "no" => Exiting
  /\ handlingLK <=> panicking = "nil frame ID"
  /\ loop = "tell" => closeId \in toClose
  /\ handlingLK /\ loop \in {"closing", "tell"} => toClose = inflight
  /\ handlingLK /\ loop = "exited" => inflight = {}
IndInv == TypeOK /\ EachCallInOnePlace /\ CallerInv /\ LoopInv /\ PanicInv

\* Unless the peer sends results that do not fit, a local failure that is
\* reported as a zero value with a nil error only happens while or after the
\* connection loop exits (client.go:84-96); and a call that the deferred loop
\* told takes its reply for another's only if the loop has got to that other
\* one: it was told as well, or its turn has come (websocket.go:111 and 114).
Visited(j) == j \in inflight /\ (delivered[j] = 1 \/ (loop = "tell" /\ closeId = j))

SwallowedOnlyAtExit ==
  \A i \in Ids :
    /\ outcome[i] \in Swallowed =>
         Exiting \/ (outcome[i] = "unmarshal" /\ "frames" \in Faults)
    /\ outcome[i] = "mismatch" => Visited(i) /\ \E j \in Ids \ {i} : Visited(j)

\* As long as no write has failed, writeLK is held exactly while one writer is
\* between Lock and Unlock, and nobody unlocks it twice.
LockHeldByOneWriter ==
  ~writeErr => /\ \A p, q \in Writers : w[p] = "write" /\ w[q] = "write" => p = q
               /\ writeLK <=> \E p \in Writers : w[p] = "write"
               /\ crashed # "unlock of unlocked mutex"

\* Where the process may die: the cancel request of a call whose context was
\* cancelled has no ID (websocket.go:173); the peer sent a call without one
\* (websocket.go:459) while no call was in flight; or a write failed and
\* unlocks twice.
Died ==
  \/ crashed = "nil ID" /\ nilDone # {} /\ nilDone \subseteq ctxDone
  \/ crashed = "nil frame ID" /\ handlingLK /\ inflight = {}
  \/ crashed = "unlock of unlocked mutex" /\ writeErr

\* The peer sent a call without an ID while calls were in flight: the panic left
\* handlingLK locked, and the deferred loop, which has told one of them, waits
\* for it (websocket.go:120). Nobody but the loop could unlock it: the process
\* lives, `exiting` stays open, and nothing on the connection moves any more.
StuckOnHandlingLK == loop = "cancelAll" /\ handlingLK /\ panicking = "nil frame ID"

\* websocket.go:108 "closing has to make sure that the values of all calls have
\* been received": a call that is made returns.
CallsReturn == \A c \in Callers : pc[c] # "idle" ~> pc[c] = "idle"

\* The loop has exited over the request of c in the buffer.
LeftInBuffer(c) == loop = "exited" /\ pc[c] \in {"wait", "cancel"} /\ Queued(call[c])

\* A call returns, with the closer, the loss of the connection and calls of the
\* peer racing it, unless the process dies, the loop exits over its request in
\* the buffer, or the loop is stuck on handlingLK.
OnlyQueuedCallsHang ==
  \A c \in Callers :
    pc[c] # "idle" ~> pc[c] = "idle" \/ Died \/ LeftInBuffer(c) \/ StuckOnHandlingLK

\* The closer returns, whatever the peer and the connection do meanwhile,
\* unless the process dies or the loop is stuck on handlingLK.
CloserReturns == stop ~> closer = "returned" \/ Died \/ StuckOnHandlingLK
=============================================================================
