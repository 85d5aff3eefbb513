---------------------------- MODULE RpcSystemProofs ----------------------------
(***************************************************************************)
(* Proofs about RpcSystem, for every number of callers, calls, values and  *)
(* faults: client and server together implement RpcSpec, the invariants of *)
(* the client and of the server hold in the composition, and the built-in  *)
(* messages between the two never have an effect.                          *)
(***************************************************************************)
EXTENDS RpcSystem, RpcClientProofs

SP == INSTANCE RpcServerProofs WITH
  Kinds <- {"plain", "chan"}, Faults <- {"cancel"},
  loop <- sLoop, handlingLK <- sHandlingLK, ctxDone <- sCtxDone, writeLK <- sWriteLK,
  writeErr <- sWriteErr, conn <- sConn, crashed <- sCrashed

\* What the method of call i gave, as RpcSpec has it.
Result(i) == IF reply[i] \in {"chan", "bad"} THEN "value" ELSE reply[i]

\* A call whose request has been written is not in the buffer, nor still to be
\* enqueued; the request that the loop is about to write has not been written.
SentInv ==
  /\ \A i \in sent :
       i <= idCtr /\ ~Queued(i) /\ \A c \in Callers : call[c] = i => pc[c] # "enqueue"
  /\ loop = "send" => frame.id \in inflight \ sent

\* A request is on its way once, and then the server does not know its call yet.
Requests == [t : {"call", "cancel"}, id : Ids]
WireInv ==
  /\ toServer \in Seq(Requests)
  /\ \A k \in 1..Len(toServer) :
       toServer[k].t = "call" => toServer[k].id \in sent /\ h[toServer[k].id] = "none"
  /\ \A j, k \in 1..Len(toServer) : toServer[j] = toServer[k] /\ toServer[j].t = "call" => j = k
  /\ \A i \in Ids : h[i] # "none" => i \in sent

\* The server's end of the connection, and its loop, go with the client's end.
LinkInv ==
  /\ conn = "open" => sConn = "open"
  /\ sLoop # "select" => sConn # "open"

\* A response, wherever it is, carries the result of its own call.
Right(f) == f.id # NoID => f.body = Result(f.id)
ResultInv ==
  /\ \A k \in 1..Len(fromPeer) : Right(fromPeer[k])
  /\ Right(held)
  /\ loop = "handle" => Right(frame)
  /\ \A i \in Ids : ready[i] # NoReply => ready[i].body \in {Result(i), "closed"}

\* A call that has not returned has no outcome.
OutcomeInv ==
  \A i \in Ids : i > idCtr \/ (\E c \in Callers : call[c] = i) => outcome[i] = "none"

SysInv ==
  /\ IndInv /\ SP!ServerInv
  /\ SentInv /\ WireInv /\ LinkInv /\ ResultInv /\ OutcomeInv

-----------------------------------------------------------------------------
(* The server's side in terms of RpcServerProofs.                          *)

\* The constants of the server are as it assumes.
LEMMA ServerConstants == SP!ServerAssumption
BY ClientAssumption, SystemAssumption
   DEF ClientAssumption, SystemAssumption, SP!ServerAssumption, SP!CallKinds, SP!FaultKinds

\* The steps of the instance in RpcSystem are those of RpcServerProofs.
LEMMA SameSteps ==
  /\ \A i : S!Handler(i) => SP!Handler(i)
  /\ S!OutChans => SP!OutChans
  /\ S!Return => (SP!loopReturn \/ SP!serveReturn) /\ SP!LoopFrame
  /\ \A i, k : S!handleCall(i, k) => SP!handleCall(i, k)
  /\ \A d : S!cancelCtx(d) => SP!cancelCtx(d)
  /\ \A i : S!closeChan(i) /\ S!EnvFrame => SP!closeChan(i) /\ SP!EnvFrame
  /\ S!LoopFrame => SP!LoopFrame
<1>1. \A i : S!Handler(i) => SP!Handler(i)
  BY DEF S!Handler, SP!Handler, S!doCall, SP!doCall, S!lock, SP!lock, S!nextWriterErr,
     SP!nextWriterErr, S!handleChanOut, SP!handleChanOut, S!register, SP!register,
     S!registerClosed, SP!registerClosed, S!respond, SP!respond, S!done, SP!done,
     S!Unlock, SP!Unlock, S!MayFail, SP!MayFail, S!MustFail, SP!MustFail, S!Response,
     SP!Response, S!lockVars, SP!lockVars, S!chanVars, SP!chanVars, S!ocVars, SP!ocVars,
     S!None, SP!None
<1>2. S!OutChans => SP!OutChans
  BY DEF S!OutChans, SP!OutChans, S!forward, SP!forward, S!outChanClosed, SP!outChanClosed,
     S!registerChClosed, SP!registerChClosed, S!ocLock, SP!ocLock, S!ocWrite, SP!ocWrite,
     S!ocWriteFail, SP!ocWriteFail, S!ocUnlockAgain, SP!ocUnlockAgain, S!Unlock, SP!Unlock,
     S!MayFail, SP!MayFail, S!MustFail, SP!MustFail, S!Notification, SP!Notification,
     S!MoveLast, SP!MoveLast, S!callVars, SP!callVars, S!lockVars, SP!lockVars, S!Ids, SP!Ids
<1>3. S!Return => (SP!loopReturn \/ SP!serveReturn) /\ SP!LoopFrame
  BY DEF S!Return, S!loopReturn, SP!loopReturn, S!serveReturn, SP!serveReturn, S!LoopFrame,
     SP!LoopFrame, S!callVars, SP!callVars, S!lockVars, SP!lockVars, S!chanVars, SP!chanVars,
     S!ocVars, SP!ocVars, S!Ids, SP!Ids
<1>4. \A i, k : S!handleCall(i, k) => SP!handleCall(i, k)
  BY DEF S!handleCall, SP!handleCall, S!lockVars, SP!lockVars, S!Ids, SP!Ids
<1>5. \A d : S!cancelCtx(d) => SP!cancelCtx(d)
  BY DEF S!cancelCtx, SP!cancelCtx, S!lockVars, SP!lockVars, S!None, SP!None
<1>6. \A i : S!closeChan(i) /\ S!EnvFrame => SP!closeChan(i) /\ SP!EnvFrame
  BY DEF S!closeChan, SP!closeChan, S!EnvFrame, SP!EnvFrame, S!callVars, SP!callVars,
     S!lockVars, SP!lockVars, S!ocVars, SP!ocVars
<1>7. S!LoopFrame => SP!LoopFrame
  BY DEF S!LoopFrame, SP!LoopFrame, S!chanVars, SP!chanVars, S!ocVars, SP!ocVars
<1> QED
  BY <1>1, <1>2, <1>3, <1>4, <1>5, <1>6, <1>7

\* The ids and the absent one are the same on both sides.
LEMMA SameIds == SP!Ids = Ids /\ S!Ids = Ids /\ SP!None = NoID /\ NoID \notin Ids
BY DEF SP!Ids, S!Ids, Ids, SP!None, NoID

\* The parameter of an xrpc.cancel does not decode.
LEMMA CancelDecodes == \A x : Decode(Wire(BuiltinParam(x)), NoID) = NoID
BY DEF Decode, Wire, BuiltinParam, Param

\* The elements of a sequence of requests.
LEMMA RequestAt ==
  ASSUME NEW s \in Seq(Requests), NEW k \in 1..Len(s)
  PROVE  s[k] \in Requests /\ s[k].id \in Ids
<1>1. s[k] \in Requests
  OBVIOUS
<1> QED
  BY <1>1 DEF Requests

\* The first frame on its way to the server.
LEMMA FirstRequest ==
  ASSUME WireInv, toServer # <<>>
  PROVE  /\ Head(toServer) \in Requests /\ Tail(toServer) \in Seq(Requests)
         /\ Len(toServer) \in Nat \ {0} /\ 1 \in 1..Len(toServer) /\ Head(toServer) = toServer[1]
         /\ Len(Tail(toServer)) = Len(toServer) - 1
         /\ \A k \in 1..Len(Tail(toServer)) :
              /\ k + 1 \in 1..Len(toServer) /\ k + 1 # 1
              /\ Tail(toServer)[k] = toServer[k + 1]
<1>1. toServer \in Seq(Requests)
  BY DEF WireInv
<1>2. /\ Tail(toServer) \in Seq(Requests) /\ Len(toServer) \in Nat \ {0}
      /\ Len(Tail(toServer)) = Len(toServer) - 1
      /\ Head(toServer) = toServer[1] /\ toServer[1] \in Requests
      /\ \A k \in 1..(Len(toServer) - 1) : Tail(toServer)[k] = toServer[k + 1]
  BY <1>1, TailFacts
<1> QED
  BY <1>2

\* What arrives at the server is a call with a new id, or a cancel.
LEMMA ArrivalCases ==
  ASSUME WireInv, SysReceive
  PROVE  /\ toServer # <<>> /\ SP!LoopFrame /\ toServer' = Tail(toServer) /\ UNCHANGED peerVars
         /\ \/ \E k \in {"plain", "chan"} :
                 /\ Head(toServer).t = "call" /\ k = (IF Head(toServer).id \in retCh THEN "chan" ELSE "plain")
                 /\ SP!Arrives(Head(toServer).id, k)
            \/ SP!cancelCtx(NoID)
<1>0. /\ toServer # <<>> /\ SP!LoopFrame /\ toServer' = Tail(toServer) /\ UNCHANGED peerVars
  BY SameSteps DEF SysReceive
<1>1. CASE Head(toServer).t = "call"
  <2> DEFINE k == IF Head(toServer).id \in retCh THEN "chan" ELSE "plain"
  <2>1. S!handleCall(Head(toServer).id, k)
    BY <1>1 DEF SysReceive
  <2>2. h[Head(toServer).id] = "none"
    BY <1>0, <1>1, FirstRequest DEF WireInv
  <2>3. SP!handleCall(Head(toServer).id, k)
    <3> HIDE DEF k
    <3> QED
      BY <2>1, SameSteps
  <2>4. SP!Arrives(Head(toServer).id, k) /\ k \in {"plain", "chan"}
    BY <2>2, <2>3 DEF SP!Arrives
  <2> QED
    BY <1>0, <1>1, <2>4
<1>2. CASE Head(toServer).t # "call"
  <2>1. S!cancelCtx(NoID)
    BY <1>2, CancelDecodes DEF SysReceive
  <2> QED
    BY <1>0, <2>1, SameSteps
<1> QED
  BY <1>1, <1>2

\* Every step on the server's side is one that RpcServerProofs knows.
LEMMA ServerSide ==
  ASSUME SysInv, sCrashed = "no", ServerGoes \/ MethodSends
  PROVE  SP!AnyNext
<1> USE SameIds DEF SP!AnyNext
<1>1. CASE SysReceive
  <2>1. WireInv
    BY DEF SysInv
  <2>2. Head(toServer).id \in Ids
    BY <1>1, <2>1, FirstRequest DEF SysReceive, Requests
  <2>3. {"plain", "chan"} \subseteq SP!CallKinds
    BY DEF SP!CallKinds
  <2> QED
    BY <1>1, <2>1, <2>2, <2>3, ArrivalCases
<1>2. CASE SysReturn
  BY <1>2, SameSteps DEF SysReturn
<1>3. CASE S!OutChans \/ \E i \in Ids : S!Handler(i)
  BY <1>3, SameSteps
<1>4. CASE S!EnvFrame /\ \E i \in Ids : S!closeChan(i)
  BY <1>4, SameSteps DEF SP!Environment
<1> QED
  BY <1>1, <1>2, <1>3, <1>4 DEF ServerGoes, MethodSends

\* What the method of a call gave does not change, so a right response stays so.
LEMMA RightStays ==
  ASSUME SysInv, SP!AnyNext
  PROVE  /\ \A i \in Ids : Result(i) # "none" => Result(i)' = Result(i)
         /\ \A f \in Frames : f.id # NoID /\ f.body = Result(f.id) => f.body = Result(f.id)'
<1>1. SP!ServerInv
  BY DEF SysInv
<1>2. \/ reply' = reply
      \/ \E i \in Ids, r \in {"value", "error", "bad", "chan"} :
           reply[i] = "none" /\ reply' = [reply EXCEPT ![i] = r]
  BY <1>1, ServerConstants, SP!ReplyMoves, SameIds
<1>3. reply \in [Ids -> {"none", "value", "error", "bad", "chan"}]
  BY <1>1, SameIds DEF SP!ServerInv, SP!TypeOK, SP!CallType
<1>4. \A i \in Ids : Result(i) # "none" => Result(i)' = Result(i)
  <2>1. CASE reply' = reply
    BY <2>1 DEF Result
  <2>2. ASSUME NEW j \in Ids, NEW r \in {"value", "error", "bad", "chan"}, reply[j] = "none",
               reply' = [reply EXCEPT ![j] = r], NEW i \in Ids, Result(i) # "none"
        PROVE  Result(i)' = Result(i)
    <3>1. i # j
      BY <2>2 DEF Result
    <3>2. reply'[i] = reply[i]
      BY <1>3, <2>2, <3>1
    <3> QED
      BY <3>2 DEF Result
  <2> QED
    BY <1>2, <2>1, <2>2
<1>5. \A f \in Frames : f.id # NoID /\ f.body = Result(f.id) => f.id \in Ids /\ Result(f.id) # "none"
  BY DEF Frames, Bodies
<1> QED
  BY <1>4, <1>5

\* A message of the server decodes to a frame, and a response to a right one.
LEMMA MessageRight ==
  ASSUME SP!ServerInv, NEW m \in SP!Messages,
         m.t = "resp" => m.src \in Ids /\ reply[m.src] \in {"value", "error", "chan"}
  PROVE  FrameOf(m) \in Frames /\ Right(FrameOf(m))
<1>1. /\ FrameOf(m).id = IF m.t = "resp" THEN m.src ELSE NoID
      /\ FrameOf(m).body = CASE m.t = "empty" -> "garbage"
                             [] m.t = "resp" /\ reply[m.src] = "error" -> "error"
                             [] OTHER -> "value"
  BY DEF FrameOf
<1>2. FrameOf(m) = [id |-> FrameOf(m).id, body |-> FrameOf(m).body]
  BY DEF FrameOf
<1>3. CASE m.t = "resp"
  BY <1>1, <1>2, <1>3 DEF Frames, Bodies, Right, Result
<1>4. CASE m.t # "resp"
  BY <1>1, <1>2, <1>4 DEF Frames, Bodies, Right
<1> QED
  BY <1>3, <1>4

\* What a step of the server puts on the wire is a frame, and a right one.
LEMMA Transmitted ==
  ASSUME SysInv, SP!AnyNext, Transmit
  PROVE  \/ UNCHANGED peerVars
         \/ \E f \in Frames : /\ Right(f) /\ fromPeer' = Append(fromPeer, f)
                              /\ nFrames' = nFrames + 1
<1>0. SP!ServerInv /\ out \in Seq(SP!Messages)
  BY DEF SysInv, SP!ServerInv, SP!TypeOK, SP!OutType
<1>1. SUFFICES ASSUME out' # out
               PROVE  \E m \in SP!Messages :
                        /\ FrameOf(m) \in Frames /\ Right(FrameOf(m)) /\ out' = Append(out, m)
  <2>1. CASE ~(out' # out /\ conn = "open")
    BY <2>1 DEF Transmit
  <2>2. CASE out' # out /\ conn = "open"
    <3>1. PICK m \in SP!Messages :
            FrameOf(m) \in Frames /\ Right(FrameOf(m)) /\ out' = Append(out, m)
      BY <1>1, <2>2
    <3>2. out'[Len(out')] = m
      BY <1>0, <3>1
    <3>3. fromPeer' = Append(fromPeer, FrameOf(out'[Len(out')])) /\ nFrames' = nFrames + 1
      BY <2>2 DEF Transmit
    <3> QED
      BY <3>1, <3>2, <3>3
  <2> QED
    BY <2>1, <2>2
<1>2. \/ \E i \in Ids : SP!respond(i) /\ out' = Append(out, SP!Response(i)) /\ ~sWriteErr
      \/ SP!ocWrite /\ out' = Append(out, msg) /\ ~sWriteErr
  BY <1>0, <1>1, ServerConstants, SameIds, SP!OutStep
<1>3. ASSUME NEW i \in Ids, SP!respond(i), out' = Append(out, SP!Response(i))
      PROVE  \E m \in SP!Messages :
               /\ FrameOf(m) \in Frames /\ Right(FrameOf(m)) /\ out' = Append(out, m)
  <2>1. SP!Response(i) \in SP!Messages
    BY <1>0, ServerConstants, SameIds, SP!ResponseType
  <2>2. SP!Response(i).src = i /\ (SP!Response(i).t = "resp" => reply[i] # "bad")
    BY DEF SP!Response
  <2>3. h[i] \in {"write", "answer"}
    BY <1>3 DEF SP!respond
  <2>4. reply[i] \in {"value", "error", "chan", "bad"}
    BY <1>0, <2>3, SameIds DEF SP!ServerInv, SP!TypeOK, SP!CallType, SP!CallInv
  <2> HIDE DEF SP!Response
  <2> QED
    BY <1>0, <1>3, <2>1, <2>2, <2>4, MessageRight
<1>4. CASE SP!ocWrite /\ out' = Append(out, msg)
  <2>1. msg \in SP!Messages /\ msg.t \in {"val", "close"}
    BY <1>0, <1>4 DEF SP!ServerInv, SP!TypeOK, SP!OutType, SP!AnnounceInv, SP!Sending, SP!ocWrite
  <2> QED
    BY <1>0, <1>4, <2>1, MessageRight
<1> QED
  BY <1>2, <1>3, <1>4

-----------------------------------------------------------------------------
(* Steps of the server's side keep the invariant.                          *)

\* A step of the server's side, as far as the client sees it.
LEMMA ServerSees ==
  ASSUME SysInv, sCrashed = "no", ServerGoes \/ MethodSends
  PROVE  /\ UNCHANGED <<callerVars, requests, replyVars, loopVars, panicVars, lockVars, readVars,
                        connVars, endVars, crashed, sinkVars>>
         /\ fromPeer' \in Seq(Frames) /\ nFrames' \in Nat
         /\ \/ UNCHANGED peerVars
            \/ \E f \in Frames : Right(f) /\ fromPeer' = Append(fromPeer, f)
<1>1. UNCHANGED <<callerVars, requests, replyVars, loopVars, panicVars, lockVars, readVars,
                  connVars, endVars, crashed, sinkVars>>
  BY DEF ServerGoes, MethodSends, ServerFrame
<1>2. UNCHANGED peerVars \/ Transmit
  BY DEF ServerGoes, MethodSends, SysReceive, SysReturn
<1>3. \/ UNCHANGED peerVars
      \/ \E f \in Frames : /\ Right(f) /\ fromPeer' = Append(fromPeer, f)
                           /\ nFrames' = nFrames + 1
  BY <1>2, ServerSide, Transmitted
<1>4. fromPeer \in Seq(Frames) /\ nFrames \in Nat
  BY DEF SysInv, IndInv, TypeOK, ConnType
<1>5. fromPeer' \in Seq(Frames) /\ nFrames' \in Nat
  BY <1>3, <1>4, AppendFacts DEF peerVars
<1> QED
  BY <1>1, <1>3, <1>5

\* The server's loop leaves, and closes its end, only after the loss.
LEMMA ServerLink ==
  ASSUME SysInv, ServerGoes \/ MethodSends
  PROVE  LinkInv'
<1>1. LinkInv /\ conn' = conn
  BY DEF SysInv, ServerGoes, MethodSends, ServerFrame, connVars
<1>2. CASE S!loopReturn
  <2>1. sConn # "open" /\ sConn' = sConn
    BY <1>2 DEF S!loopReturn
  <2> QED
    BY <1>1, <2>1 DEF LinkInv
<1>3. CASE S!serveReturn
  <2>1. sLoop = "returned" /\ sConn' = "local"
    BY <1>3 DEF S!serveReturn
  <2> QED
    BY <1>1, <2>1 DEF LinkInv
<1>4. CASE UNCHANGED <<sLoop, sConn>>
  BY <1>1, <1>4 DEF LinkInv
<1>5. UNCHANGED <<sLoop, sConn>> \/ S!loopReturn \/ S!serveReturn
  <2>1. CASE SysReceive
    BY <2>1 DEF SysReceive, S!handleCall, S!cancelCtx
  <2>2. CASE SysReturn
    BY <2>2 DEF SysReturn, S!Return
  <2>3. CASE S!OutChans \/ \E i \in Ids : S!Handler(i)
    BY <2>3 DEF S!OutChans, S!Handler
  <2>4. CASE S!EnvFrame /\ \E i \in Ids : S!closeChan(i)
    BY <2>4 DEF S!EnvFrame, S!closeChan
  <2> QED
    BY <2>1, <2>2, <2>3, <2>4 DEF ServerGoes, MethodSends
<1> QED
  BY <1>2, <1>3, <1>4, <1>5

\* A request that arrives leaves the wire and makes its call known; no other
\* step of the server does either.
LEMMA ServerWire ==
  ASSUME SysInv, sCrashed = "no", ServerGoes \/ MethodSends
  PROVE  WireInv'
<1>0. WireInv /\ SP!ServerInv /\ sent' = sent
  BY DEF SysInv, ServerGoes, MethodSends, ServerFrame, connVars
<1>h. h \in [Ids -> {"none", "call", "lock", "write", "register", "answer", "done", "end"}]
  BY <1>0, SameIds DEF SP!ServerInv, SP!TypeOK, SP!CallType
<1>1. ASSUME toServer' = toServer, \A j \in Ids : h'[j] = "none" <=> h[j] = "none"
      PROVE  WireInv'
  <2>1. \A k \in 1..Len(toServer) : toServer[k] \in Requests /\ toServer[k].id \in Ids
    BY <1>0, RequestAt DEF WireInv
  <2> QED
    BY <1>0, <1>1, <2>1 DEF WireInv
<1>2. CASE SysReceive
  <2>1. /\ toServer # <<>> /\ toServer' = Tail(toServer)
        /\ \/ /\ Head(toServer).t = "call"
              /\ \E k \in {"plain", "chan"} : SP!Arrives(Head(toServer).id, k)
           \/ SP!cancelCtx(NoID)
    BY <1>0, <1>2, ArrivalCases
  <2>2. /\ Head(toServer) \in Requests /\ Tail(toServer) \in Seq(Requests)
        /\ 1 \in 1..Len(toServer) /\ Head(toServer) = toServer[1]
        /\ \A k \in 1..Len(Tail(toServer)) :
             /\ k + 1 \in 1..Len(toServer) /\ k + 1 # 1
             /\ Tail(toServer)[k] = toServer[k + 1]
    BY <1>0, <2>1, FirstRequest
  <2>3. \A k \in 1..Len(Tail(toServer)) : Tail(toServer)[k].t = "call" =>
          /\ Tail(toServer)[k].id \in sent /\ h[Tail(toServer)[k].id] = "none"
          /\ Head(toServer).t = "call" => Tail(toServer)[k].id # Head(toServer).id
    <3>1. SUFFICES ASSUME NEW k \in 1..Len(Tail(toServer)), Tail(toServer)[k].t = "call"
                   PROVE  /\ Tail(toServer)[k].id \in sent /\ h[Tail(toServer)[k].id] = "none"
                          /\ Head(toServer).t = "call" => Tail(toServer)[k].id # Head(toServer).id
      OBVIOUS
    <3>2. /\ k + 1 \in 1..Len(toServer) /\ k + 1 # 1 /\ Tail(toServer)[k] = toServer[k + 1]
      BY <2>2
    <3>3. toServer[k + 1] \in Requests
      BY <1>0, <3>2 DEF WireInv
    <3>4. CASE Head(toServer).t = "call" /\ toServer[k + 1].id = Head(toServer).id
      <4>1. toServer[k + 1] = toServer[1]
        BY <2>2, <3>1, <3>2, <3>3, <3>4 DEF Requests
      <4> QED
        BY <1>0, <2>2, <3>2, <3>4, <4>1 DEF WireInv
    <3>5. toServer[k + 1].id \in sent /\ h[toServer[k + 1].id] = "none"
      BY <1>0, <3>1, <3>2 DEF WireInv
    <3> QED
      BY <3>2, <3>4, <3>5
  <2>4. \A j, k \in 1..Len(Tail(toServer)) :
          Tail(toServer)[j] = Tail(toServer)[k] /\ Tail(toServer)[j].t = "call" => j = k
    <3>1. SUFFICES ASSUME NEW j \in 1..Len(Tail(toServer)), NEW k \in 1..Len(Tail(toServer)),
                          Tail(toServer)[j] = Tail(toServer)[k], Tail(toServer)[j].t = "call"
                   PROVE  j = k
      OBVIOUS
    <3>2. /\ toServer[j + 1] = toServer[k + 1] /\ toServer[j + 1].t = "call"
          /\ j + 1 \in 1..Len(toServer) /\ k + 1 \in 1..Len(toServer)
      BY <2>2, <3>1
    <3>3. j + 1 = k + 1
      BY <1>0, <3>2 DEF WireInv
    <3> QED
      BY <3>1, <3>3
  <2>5. CASE SP!cancelCtx(NoID)
    <3>1. h' = h
      BY <2>5 DEF SP!cancelCtx
    <3> QED
      BY <1>0, <2>1, <2>2, <2>3, <2>4, <3>1 DEF WireInv
  <2>6. ASSUME Head(toServer).t = "call", NEW k \in {"plain", "chan"},
               SP!Arrives(Head(toServer).id, k)
        PROVE  WireInv'
    <3> DEFINE i == Head(toServer).id
    <3>1. i \in Ids /\ i \in sent /\ h' = [h EXCEPT ![i] = "call"]
      BY <1>0, <2>2, <2>6 DEF Requests, SP!Arrives, SP!handleCall, WireInv
    <3>2. \A j \in Ids : h'[j] = IF j = i THEN "call" ELSE h[j]
      BY <1>h, <3>1
    <3>3. \A n \in 1..Len(Tail(toServer)) : Tail(toServer)[n].t = "call" =>
            Tail(toServer)[n].id \in sent /\ h'[Tail(toServer)[n].id] = "none"
      <4>1. \A n \in 1..Len(Tail(toServer)) : Tail(toServer)[n].id \in Ids
        BY <2>2, RequestAt
      <4> QED
        BY <2>3, <2>6, <3>2, <4>1
    <3>4. \A j \in Ids : h'[j] # "none" => j \in sent
      BY <1>0, <3>1, <3>2 DEF WireInv
    <3> QED
      BY <1>0, <2>1, <2>2, <2>4, <3>3, <3>4 DEF WireInv
  <2> QED
    BY <2>1, <2>5, <2>6
<1>3. CASE SysReturn
  <2>1. h' = h /\ toServer' = toServer
    BY <1>3 DEF SysReturn, S!Return, S!loopReturn, S!serveReturn, S!callVars
  <2> QED
    BY <1>1, <2>1
<1>4. ASSUME NEW i \in Ids, S!Handler(i), toServer' = toServer
      PROVE  WireInv'
  <2>1. \A j \in Ids : h'[j] = "none" <=> h[j] = "none"
    BY <1>0, <1>4, ServerConstants, SameSteps, SameIds, SP!NoneStays
  <2> QED
    BY <1>1, <1>4, <2>1
<1>5. CASE S!OutChans /\ toServer' = toServer
  BY <1>1, <1>5 DEF S!OutChans, S!callVars
<1>6. CASE S!EnvFrame /\ toServer' = toServer
  BY <1>1, <1>6 DEF S!EnvFrame, S!callVars
<1> QED
  BY <1>2, <1>3, <1>4, <1>5, <1>6 DEF ServerGoes, MethodSends

\* Every response on its way stays right, and a new one is.
LEMMA ServerResult ==
  ASSUME SysInv, sCrashed = "no", ServerGoes \/ MethodSends
  PROVE  ResultInv'
<1>0. /\ ResultInv /\ fromPeer \in Seq(Frames) /\ held \in Frames /\ frame \in Frames
      /\ ready \in [Ids -> Replies \cup {NoReply}]
  BY DEF SysInv, IndInv, TypeOK, ConnType, LoopType, CallerType
<1>1. UNCHANGED <<ready, loop, frame, held>>
  BY ServerSees DEF replyVars, loopVars, readVars
<1>2. /\ \A i \in Ids : Result(i) # "none" => Result(i)' = Result(i)
      /\ \A f \in Frames : Right(f) => (f.id # NoID => f.body = Result(f.id)')
  BY ServerSide, RightStays DEF Right
<1>3. Right(held)' /\ (loop' = "handle" => Right(frame)')
  BY <1>0, <1>1, <1>2 DEF ResultInv, Right
<1>4. \A k \in 1..Len(fromPeer') : Right(fromPeer[k])'
  <2>1. \A k \in 1..Len(fromPeer) : Right(fromPeer[k]) /\ fromPeer[k] \in Frames
    BY <1>0 DEF ResultInv
  <2>2. CASE UNCHANGED peerVars
    BY <1>2, <2>1, <2>2 DEF peerVars, Right
  <2>3. ASSUME NEW f \in Frames, Right(f), fromPeer' = Append(fromPeer, f)
        PROVE  \A k \in 1..Len(fromPeer') : Right(fromPeer[k])'
    <3>1. \A k \in 1..Len(fromPeer') : fromPeer'[k] \in Frames /\ Right(fromPeer'[k])
      BY <1>0, <2>1, <2>3, AppendFacts
    <3> QED
      BY <1>2, <3>1 DEF Right
  <2> QED
    BY <2>2, <2>3, ServerSees
<1>5. \A i \in Ids : ready'[i] # NoReply => ready'[i].body \in {Result(i)', "closed"}
  BY <1>0, <1>1, <1>2 DEF ResultInv, Replies, Bodies
<1> QED
  BY <1>3, <1>4, <1>5 DEF ResultInv

\* The server's side as a whole.
LEMMA ServerKeeps ==
  ASSUME SysInv, sCrashed = "no", ServerGoes \/ MethodSends
  PROVE  SysInv'
<1>1. IndInv'
  <2>1. IndInv /\ conn' = conn /\ conn \in {"open", "closed", "broken", "local"}
    BY ServerSees DEF SysInv, IndInv, TypeOK, ConnType, connVars
  <2> QED
    BY <2>1, ServerSees, AnyPeerStep DEF connVars
<1>2. SP!ServerInv'
  BY ServerConstants, ServerSide, SP!ServerStep DEF SysInv
<1>3. SentInv' /\ OutcomeInv'
  BY ServerSees DEF SysInv, SentInv, OutcomeInv, Queued, callerVars, connVars, loopVars
<1> QED
  BY <1>1, <1>2, <1>3, ServerLink, ServerWire, ServerResult DEF SysInv

-----------------------------------------------------------------------------
(* Steps of the client's side keep the invariant.                          *)

\* The client's own steps in the composition.
ClientMoves ==
  \/ \E c \in Callers : Begin(c) \/ Continue(c)
  \/ \E p \in Writers : Acquire(p)
  \/ \E p \in Senders : Write(p)
  \/ \E i \in Ids : AsyncCancel(i)
  \/ Incoming \/ Handle \/ Request \/ Stop \/ Exit \/ Read \/ CloserEnds
  \/ EnvFrame /\ (closeStop \/ \E i \in Ids : cancelContext(i))

\* They are steps of RpcClient, and change nothing of the server but its end of
\* the connection, when the client closes it.
LEMMA ClientSide ==
  ASSUME crashed = "no", ClientGoes \/ ClientBegins
  PROVE  /\ ClientMoves /\ Next
         /\ UNCHANGED sRest
         /\ UNCHANGED sConn \/ (conn' = "local" /\ sConn = "open" /\ sConn' = "closed")
<1>1. ClientMoves
  BY DEF ClientMoves, ClientGoes, ClientBegins, SysWrite, SysHandle, SysExit
<1>2. Next
  BY <1>1 DEF ClientMoves, Next, Environment
<1>3. /\ UNCHANGED sRest
      /\ UNCHANGED sConn \/ (conn' = "local" /\ sConn = "open" /\ sConn' = "closed")
  BY DEF ClientGoes, ClientBegins, SysWrite, SysHandle, SysExit, sVars
<1> QED
  BY <1>1, <1>2, <1>3

\* The client's end of the connection changes when the client closes it.
LEMMA ClientConn ==
  ASSUME ClientMoves
  PROVE  (conn' = conn \/ conn' = "local") /\ nFrames' = nFrames
<1> USE DEF connVars, peerVars
<1>1. CASE \/ (\E c \in Callers : Begin(c) \/ Continue(c))
           \/ (\E p \in Writers : Acquire(p)) \/ (\E p \in Senders : Write(p))
           \/ (\E i \in Ids : AsyncCancel(i)) \/ Read
  BY <1>1 DEF Begin, Continue, CallerFrame, Acquire, AsyncCancel, Write, WriterFrame, Read, ReaderFrame
<1>2. CASE Incoming \/ Request \/ Stop \/ Exit \/ Handle
  BY <1>2 DEF Incoming, loopIncoming, loopIncomingClosed, Request, loopRequest, Stop, loopStop,
     Exit, writeClose, rangeInflight, closeInflight, cancelAll, closeExiting,
     panicEnds, Handle, decodeError, handleResponseIgnored,
     handleResponse, handleCall, handleCallNoID, LoopFrame
<1>3. CASE CloserEnds \/ (EnvFrame /\ (closeStop \/ \E i \in Ids : cancelContext(i)))
  BY <1>3 DEF CloserEnds, closerReturn, closeStop, cancelContext
<1> QED
  BY <1>1, <1>2, <1>3 DEF ClientMoves

\* Who writes requests: the loop, from "send", and then goes back to its select.
LEMMA SendMoves ==
  ASSUME ClientMoves
  PROVE  \/ sent' = sent
         \/ /\ WriteOK(Loop) /\ WriterFrame /\ loop = "send" /\ loop' = "select"
            /\ sent' = sent \cup {frame.id} /\ UNCHANGED <<idCtr, pc, call, requests, inflight>>
<1> USE DEF connVars
<1>1. CASE \/ (\E c \in Callers : Begin(c) \/ Continue(c)) \/ Read
           \/ (\E p \in Writers : Acquire(p)) \/ (\E i \in Ids : AsyncCancel(i))
  BY <1>1 DEF Begin, Continue, CallerFrame, Acquire, Lock, AsyncCancel, handleCtxAsync, Read,
     ReaderFrame
<1>2. CASE Incoming \/ Request \/ Stop \/ Exit \/ Handle
  BY <1>2 DEF Incoming, Request, Stop, Exit, Handle, LoopFrame
<1>3. CASE CloserEnds \/ (EnvFrame /\ (closeStop \/ \E i \in Ids : cancelContext(i)))
  BY <1>3 DEF CloserEnds, EnvFrame
<1>4. ASSUME NEW p \in Senders, Write(p)
      PROVE  \/ sent' = sent
             \/ /\ WriteOK(Loop) /\ WriterFrame /\ loop = "send" /\ loop' = "select"
                /\ sent' = sent \cup {frame.id} /\ UNCHANGED <<idCtr, pc, call, requests, inflight>>
  BY <1>4 DEF Write, WriteOK, WriteFail, UnlockAgain, EndSend, WriterFrame, callerVars
<1> QED
  BY <1>1, <1>2, <1>3, <1>4 DEF ClientMoves

\* The loop comes to "send" from its select, with a request from the buffer.
LEMMA SendLoop ==
  ASSUME ClientMoves, loop' = "send"
  PROVE  \/ loop = "send" /\ UNCHANGED <<frame, inflight, sent>>
         \/ /\ requests # <<>> /\ Head(requests) # NoID /\ sent' = sent
            /\ frame'.id = Head(requests) /\ inflight' = inflight \cup {Head(requests)}
<1> USE DEF connVars, loopVars
<1>1. CASE \/ (\E c \in Callers : Begin(c) \/ Continue(c)) \/ Read
           \/ (\E p \in Writers : Acquire(p)) \/ (\E i \in Ids : AsyncCancel(i))
  BY <1>1 DEF Begin, Continue, CallerFrame, Acquire, Lock, AsyncCancel, handleCtxAsync, Read,
     ReaderFrame, WriterFrame
<1>2. CASE Incoming \/ Stop \/ Exit \/ Handle
  <2>1. loop' # "send"
    BY <1>2 DEF Incoming, loopIncoming, loopIncomingClosed, Stop, loopStop, Exit, writeClose,
       rangeInflight, closeInflight, cancelAll, closeExiting, panicEnds,
       Handle, decodeError, handleResponseIgnored, handleResponse, handleCall,
       handleCallNoID, NextRound, StartClosing
  <2> QED
    BY <2>1
<1>3. CASE CloserEnds \/ (EnvFrame /\ (closeStop \/ \E i \in Ids : cancelContext(i)))
  BY <1>3 DEF CloserEnds, EnvFrame
<1>4. ASSUME NEW p \in Senders, Write(p)
      PROVE  loop = "send" /\ UNCHANGED <<frame, inflight, sent>>
  BY <1>4 DEF Write, WriteOK, WriteFail, UnlockAgain, EndSend, WriterFrame
<1>5. CASE Request
  BY <1>5 DEF Request, loopRequest, StartClosing, LoopFrame
<1> QED
  BY <1>1, <1>2, <1>3, <1>4, <1>5 DEF ClientMoves

\* What a step of the client does to the numbering and the buffer.
LEMMA CallMoves ==
  ASSUME IndInv, ClientMoves
  PROVE  \/ UNCHANGED <<idCtr, pc, call, requests, outcome>>
         \/ \E c \in Callers : Begin(c) \/ Continue(c)
         \/ /\ requests # <<>> /\ requests' = Tail(requests)
            /\ UNCHANGED <<idCtr, pc, call, outcome>>
<1> USE DEF callerVars
<1>1. CASE \/ Read \/ (\E p \in Writers : Acquire(p)) \/ (\E p \in Senders : Write(p))
           \/ (\E i \in Ids : AsyncCancel(i))
  BY <1>1 DEF Acquire, AsyncCancel, Write, Read, ReaderFrame, WriterFrame
<1>2. CASE Incoming \/ Stop \/ Exit \/ Handle
  BY <1>2 DEF Incoming, loopIncoming, loopIncomingClosed, Stop, loopStop, Exit, writeClose,
     rangeInflight, closeInflight, cancelAll, closeExiting,
     panicEnds, Handle, decodeError, handleResponseIgnored, handleResponse,
     handleCall, handleCallNoID, LoopFrame
<1>3. CASE CloserEnds \/ (EnvFrame /\ (closeStop \/ \E i \in Ids : cancelContext(i)))
  BY <1>3 DEF CloserEnds, EnvFrame
<1>4. CASE Request
  BY <1>4 DEF Request, loopRequest, LoopFrame
<1> QED
  BY <1>1, <1>2, <1>3, <1>4 DEF ClientMoves

\* The four things a step of a caller does.
BeginsAs(c) ==
  /\ idCtr' = idCtr + 1 /\ idCtr + 1 \in Ids
  /\ call' = [call EXCEPT ![c] = idCtr + 1] /\ pc' = [pc EXCEPT ![c] = "enqueue"]
  /\ UNCHANGED <<requests, outcome>>
EnqueuesAs(c) ==
  /\ pc[c] = "enqueue" /\ pc' = [pc EXCEPT ![c] = "wait"]
  /\ requests' = Append(requests, call[c]) /\ UNCHANGED <<idCtr, call, outcome>>
ReturnsAs(c) ==
  /\ call[c] \in Ids /\ call' = [call EXCEPT ![c] = NoID] /\ pc' = [pc EXCEPT ![c] = "idle"]
  /\ \E o \in {"closed"} \cup Swallowed \cup ({Result(call[c])} \ {"none"}) :
       /\ outcome' = [outcome EXCEPT ![call[c]] = o]
       /\ o = "value" => ready[call[c]].body = "value"
  /\ UNCHANGED <<idCtr, requests>>
CancelsAs(c) ==
  /\ pc' = [pc EXCEPT ![c] = "cancel"] \/ pc' = [pc EXCEPT ![c] = "wait"]
  /\ requests' = requests \/ requests' = Append(requests, NoID)
  /\ UNCHANGED <<idCtr, call, outcome>>

\* A caller's step begins a call, enqueues its request, returns, or goes about
\* its cancellation.
LEMMA CallerCases ==
  ASSUME IndInv, ResultInv, NEW c \in Callers, Begin(c) \/ Continue(c)
  PROVE  BeginsAs(c) \/ EnqueuesAs(c) \/ ReturnsAs(c) \/ CancelsAs(c)
<1>0. /\ idCtr \in 0..MaxCalls /\ MaxCalls \in Nat /\ NoID \notin Ids
      /\ pc[c] # "idle" => call[c] \in Ids
      /\ ready \in [Ids -> Replies \cup {NoReply}]
  BY ClientAssumption, SameIds DEF ClientAssumption, IndInv, TypeOK, CallerType, CallerInv
<1>1. CASE handleRpcCall(c)
  BY <1>0, <1>1 DEF handleRpcCall, BeginsAs, Ids
<1>2. CASE sendRequest(c)
  BY <1>2 DEF sendRequest, EnqueuesAs
<1>3. CASE sendRequestExiting(c)
  <2>1. /\ call' = [call EXCEPT ![c] = NoID] /\ pc' = [pc EXCEPT ![c] = "idle"]
        /\ outcome' = [outcome EXCEPT ![call[c]] = "exiting"] /\ call[c] \in Ids
        /\ UNCHANGED <<idCtr, requests>>
    BY <1>0, <1>3 DEF sendRequestExiting, Return
  <2>2. "exiting" \in Swallowed /\ "exiting" # "value"
    BY DEF Swallowed
  <2> QED
    BY <2>1, <2>2 DEF ReturnsAs
<1>4. CASE receive(c)
  <2> DEFINE i == call[c]
  <2>1. /\ i \in Ids /\ ready[i] # NoReply /\ UNCHANGED <<idCtr, requests>>
        /\ \E seen \in SeenID(ready[i]) : Return(c, OutcomeOf(i, ready[i], seen))
    BY <1>0, <1>4 DEF receive
  <2>2. PICK seen : Return(c, OutcomeOf(i, ready[i], seen))
    BY <2>1
  <2>3. ready[i].body \in {Result(i), "closed"} /\ ready[i].body \in Bodies \cup {"closed"}
    BY <1>0, <2>1 DEF ResultInv, Replies
  <2>4. /\ OutcomeOf(i, ready[i], seen) \in {"closed"} \cup Swallowed \cup ({Result(i)} \ {"none"})
        /\ OutcomeOf(i, ready[i], seen) = "value" => ready[i].body = "value"
    BY <2>3 DEF OutcomeOf, Swallowed, Bodies
  <2>5. /\ call' = [call EXCEPT ![c] = NoID] /\ pc' = [pc EXCEPT ![c] = "idle"]
        /\ outcome' = [outcome EXCEPT ![i] = OutcomeOf(i, ready[i], seen)]
    BY <2>2 DEF Return
  <2> QED
    BY <2>1, <2>4, <2>5 DEF ReturnsAs
<1>5. CASE ctxDoneSeen(c) \/ sendCancel(c)
  BY <1>5 DEF ctxDoneSeen, sendCancel, CancelsAs
<1> QED
  BY <1>1, <1>2, <1>3, <1>4, <1>5 DEF Begin, Continue

\* A request is written once, by the time its call is neither to be enqueued
\* nor in the buffer.
LEMMA ClientSent ==
  ASSUME SysInv, ClientMoves
  PROVE  SentInv'
<1> DEFINE Gone(i) == i <= idCtr /\ ~Queued(i) /\ \A c \in Callers : call[c] = i => pc[c] # "enqueue"
<1>a. IndInv /\ ResultInv /\ SentInv /\ TypeOK
  BY DEF SysInv, IndInv
<1>b. /\ sent \subseteq Ids /\ idCtr \in Nat /\ requests \in Seq(Ids \cup {NoID})
      /\ call \in [Callers -> Ids \cup {NoID}]
      /\ pc \in [Callers -> {"idle", "enqueue", "wait", "cancel"}] /\ inflight \subseteq Ids
  <2>1. CallerType /\ ConnType /\ LoopType
    BY <1>a DEF TypeOK
  <2>2. idCtr \in Nat /\ requests \in Seq(Ids \cup {NoID})
    BY <2>1 DEF CallerType
  <2> QED
    BY <2>1, <2>2 DEF CallerType, ConnType, LoopType
<1>0. Ids \subseteq Nat /\ NoID \notin Ids
  BY SameIds DEF Ids
<1>1. \A i \in inflight : Gone(i)
  BY <1>a, <1>b, <1>0 DEF IndInv, CallerInv, EachCallInOnePlace
<1>2. \A i \in sent' : i \in Ids /\ Gone(i)
  <2>1. \A i \in sent : i \in Ids /\ Gone(i)
    BY <1>a, <1>b DEF SentInv
  <2>2. CASE sent' = sent
    BY <2>1, <2>2
  <2>3. CASE loop = "send" /\ sent' = sent \cup {frame.id}
    BY <1>a, <1>b, <1>1, <2>1, <2>3 DEF SentInv
  <2> QED
    BY <2>2, <2>3, SendMoves
<1>3. \A i \in sent' : Gone(i)'
  <2>1. SUFFICES ASSUME NEW i \in sent' PROVE Gone(i)'
    OBVIOUS
  <2>2. i \in Ids /\ Gone(i) /\ i \in Nat /\ i # NoID
    BY <1>0, <1>2
  <2>3. CASE UNCHANGED <<idCtr, pc, call, requests>>
    BY <2>2, <2>3 DEF Queued
  <2>4. CASE requests # <<>> /\ requests' = Tail(requests) /\ UNCHANGED <<idCtr, pc, call>>
    <3>1. ~Queued(i)'
      BY <1>b, <2>2, <2>4, TailFacts DEF Queued
    <3> QED
      BY <2>2, <2>4, <3>1
  <2>5. ASSUME NEW c \in Callers, Begin(c) \/ Continue(c)
        PROVE  Gone(i)'
    <3>1. CASE BeginsAs(c)
      <4>1. ~Queued(i)'
        BY <2>2, <3>1 DEF BeginsAs, Queued
      <4>2. \A d \in Callers : call'[d] = i => pc'[d] # "enqueue"
        <5>1. i # idCtr + 1
          BY <1>b, <2>2
        <5> QED
          BY <1>b, <2>2, <3>1, <5>1 DEF BeginsAs
      <4>3. i <= idCtr'
        BY <1>b, <2>2, <3>1 DEF BeginsAs
      <4> QED
        BY <4>1, <4>2, <4>3
    <3>2. CASE EnqueuesAs(c)
      <4>1. call[c] # i /\ call[c] \in Ids \cup {NoID}
        BY <1>b, <2>2, <3>2 DEF EnqueuesAs
      <4>2. ~Queued(i)'
        BY <1>b, <2>2, <3>2, <4>1, AppendFacts DEF EnqueuesAs, Queued
      <4>3. \A d \in Callers : call'[d] = i => pc'[d] # "enqueue"
        BY <1>b, <2>2, <3>2 DEF EnqueuesAs
      <4> QED
        BY <2>2, <3>2, <4>2, <4>3 DEF EnqueuesAs
    <3>3. CASE ReturnsAs(c)
      <4>1. ~Queued(i)'
        BY <2>2, <3>3 DEF ReturnsAs, Queued
      <4>2. \A d \in Callers : call'[d] = i => pc'[d] # "enqueue"
        BY <1>b, <2>2, <3>3 DEF ReturnsAs
      <4> QED
        BY <2>2, <3>3, <4>1, <4>2 DEF ReturnsAs
    <3>4. CASE CancelsAs(c)
      <4>1. ~Queued(i)'
        <5>1. CASE requests' = requests
          BY <2>2, <5>1 DEF Queued
        <5>2. CASE requests' = Append(requests, NoID)
          BY <1>b, <2>2, <5>2, AppendFacts DEF Queued
        <5> QED
          BY <3>4, <5>1, <5>2 DEF CancelsAs
      <4>2. \A d \in Callers : call'[d] = i => pc'[d] # "enqueue"
        BY <1>b, <2>2, <3>4 DEF CancelsAs
      <4> QED
        BY <2>2, <3>4, <4>1, <4>2 DEF CancelsAs
    <3> QED
      BY <1>a, <2>5, <3>1, <3>2, <3>3, <3>4, CallerCases
  <2> QED
    BY <1>a, <2>3, <2>4, <2>5, CallMoves
<1>4. loop' = "send" => frame'.id \in inflight' \ sent'
  <2>1. SUFFICES ASSUME loop' = "send" PROVE frame'.id \in inflight' \ sent'
    OBVIOUS
  <2>2. CASE loop = "send" /\ UNCHANGED <<frame, inflight, sent>>
    BY <1>a, <2>2 DEF SentInv
  <2>3. CASE /\ requests # <<>> /\ Head(requests) # NoID /\ sent' = sent
             /\ frame'.id = Head(requests) /\ inflight' = inflight \cup {Head(requests)}
    <3>1. Queued(Head(requests))
      BY <1>b, <2>3, TailFacts DEF Queued
    <3> QED
      BY <1>a, <2>3, <3>1 DEF SentInv
  <2> QED
    BY <2>1, <2>2, <2>3, SendLoop
<1> QED
  BY <1>3, <1>4 DEF SentInv

\* A call has no outcome before it returns.
LEMMA ClientOutcome ==
  ASSUME SysInv, ClientMoves
  PROVE  OutcomeInv'
<1>1. /\ IndInv /\ ResultInv /\ OutcomeInv /\ idCtr \in Nat /\ call \in [Callers -> Ids \cup {NoID}]
      /\ outcome \in [Ids -> Outcomes]
  BY DEF SysInv, IndInv, TypeOK, CallerType
<1>2. CASE UNCHANGED <<idCtr, call, outcome>>
  BY <1>1, <1>2 DEF OutcomeInv
<1>3. ASSUME NEW c \in Callers, Begin(c) \/ Continue(c)
      PROVE  OutcomeInv'
  <2>1. CASE BeginsAs(c)
    <3>1. \A i \in Ids : i > idCtr' \/ (\E d \in Callers : call'[d] = i) =>
            i > idCtr \/ (\E d \in Callers : call[d] = i)
      BY <1>1, <2>1 DEF BeginsAs, Ids
    <3> QED
      BY <1>1, <2>1, <3>1 DEF BeginsAs, OutcomeInv
  <2>2. CASE ReturnsAs(c)
    <3> DEFINE i == call[c]
    <3>1. PICK o : outcome' = [outcome EXCEPT ![i] = o]
      BY <2>2 DEF ReturnsAs
    <3>2. /\ i \in Ids /\ i <= idCtr /\ idCtr' = idCtr /\ call' = [call EXCEPT ![c] = NoID]
      BY <1>1, <2>2 DEF ReturnsAs, IndInv, CallerInv
    <3>3. \A d \in Callers : call'[d] # i
      BY <1>1, <3>2, SameIds DEF IndInv, CallerInv
    <3>4. \A j \in Ids : j # i => outcome'[j] = outcome[j]
      BY <1>1, <3>1, <3>2
    <3>5. \A j \in Ids : (\E d \in Callers : call'[d] = j) => \E d \in Callers : call[d] = j
      BY <1>1, <3>2, SameIds
    <3>6. ~(i > idCtr')
      BY <1>1, <3>2 DEF Ids
    <3> HIDE DEF i
    <3> QED
      BY <1>1, <3>2, <3>3, <3>4, <3>5, <3>6 DEF OutcomeInv
  <2>3. CASE EnqueuesAs(c) \/ CancelsAs(c)
    BY <1>2, <2>3 DEF EnqueuesAs, CancelsAs
  <2> QED
    BY <1>1, <1>3, <2>1, <2>2, <2>3, CallerCases
<1> QED
  BY <1>1, <1>2, <1>3, CallMoves

\* Where the responses are: the reader takes them off the wire, the loop takes
\* them from the reader.
LEMMA ResponseMoves ==
  ASSUME IndInv, ClientMoves
  PROVE  /\ held' \in {held, NoFrame} \/ (fromPeer # <<>> /\ held' = Head(fromPeer))
         /\ fromPeer' = fromPeer \/ (fromPeer # <<>> /\ fromPeer' = Tail(fromPeer))
         /\ loop' = "handle" => (loop = "handle" /\ frame' = frame) \/ frame' = held
<1> USE DEF readVars, peerVars, loopVars
<1>1. CASE \/ (\E c \in Callers : Begin(c) \/ Continue(c)) \/ CloserEnds
           \/ (EnvFrame /\ (closeStop \/ \E i \in Ids : cancelContext(i)))
  BY <1>1 DEF Begin, Continue, CallerFrame, CloserEnds, closerReturn, EnvFrame, closeStop,
     cancelContext
<1>2. CASE Read
  BY <1>2 DEF Read, nextMessage, nextMessageErr, ReaderFrame
<1>3. CASE \/ (\E p \in Writers : Acquire(p)) \/ (\E i \in Ids : AsyncCancel(i))
  BY <1>3 DEF Acquire, Lock, AsyncCancel, handleCtxAsync, WriterFrame
<1>4. ASSUME NEW p \in Senders, Write(p)
      PROVE  /\ held' = held /\ fromPeer' = fromPeer
             /\ loop' = "handle" => loop = "handle" /\ frame' = frame
  BY <1>4 DEF Write, WriteOK, WriteFail, UnlockAgain, EndSend, WriterFrame
<1>5. CASE Incoming \/ Request \/ Stop \/ Exit
  BY <1>5 DEF Incoming, loopIncoming, loopIncomingClosed, Request, loopRequest, Stop, loopStop,
     Exit, writeClose, rangeInflight, closeInflight, cancelAll, closeExiting,
     panicEnds, StartClosing, LoopFrame
<1>6. CASE Handle
  BY <1>6 DEF Handle, decodeError, handleResponseIgnored, handleResponse, handleCall,
     handleCallNoID, NextRound, StartClosing, LoopFrame
<1> QED
  BY <1>1, <1>2, <1>3, <1>4, <1>5, <1>6 DEF ClientMoves

\* So a reply is a right response, or that of the deferred loop.
LEMMA ClientResult ==
  ASSUME SysInv, ClientMoves, Next, reply' = reply
  PROVE  ResultInv'
<1>0. /\ IndInv /\ ResultInv /\ fromPeer \in Seq(Frames)
      /\ ready \in [Ids -> Replies \cup {NoReply}]
  BY DEF SysInv, IndInv, TypeOK, ConnType, CallerType
<1>1. \A f : Right(f) => (f.id # NoID => f.body = Result(f.id)')
  BY DEF Right, Result
<1>2. Right(NoFrame) /\ \A k \in 1..Len(fromPeer) : Right(fromPeer[k])
  BY <1>0 DEF ResultInv, Right, NoFrame
<1>3. fromPeer # <<>> => /\ Right(Head(fromPeer))
                         /\ \A k \in 1..Len(Tail(fromPeer)) : Right(Tail(fromPeer)[k])
  <2>1. SUFFICES ASSUME fromPeer # <<>>
                 PROVE  /\ Right(Head(fromPeer))
                        /\ \A k \in 1..Len(Tail(fromPeer)) : Right(Tail(fromPeer)[k])
    OBVIOUS
  <2>2. /\ Len(fromPeer) \in Nat \ {0} /\ Len(Tail(fromPeer)) = Len(fromPeer) - 1
        /\ Head(fromPeer) = fromPeer[1]
        /\ \A k \in 1..(Len(fromPeer) - 1) : Tail(fromPeer)[k] = fromPeer[k + 1]
    BY <1>0, <2>1, TailFacts
  <2>3. 1 \in 1..Len(fromPeer) /\ \A k \in 1..(Len(fromPeer) - 1) : k + 1 \in 1..Len(fromPeer)
    BY <2>2
  <2> QED
    BY <1>2, <2>2, <2>3
<1>4. /\ Right(held') /\ (loop' = "handle" => Right(frame'))
      /\ \A k \in 1..Len(fromPeer') : Right(fromPeer'[k])
  BY <1>0, <1>2, <1>3, ResponseMoves DEF ResultInv
<1>5. ASSUME NEW j \in Ids, ready'[j] # NoReply
      PROVE  ready'[j].body \in {Result(j)', "closed"}
  <2>1. Result(j)' = Result(j)
    BY DEF Result
  <2>2. CASE ready' = ready
    BY <1>0, <1>5, <2>1, <2>2 DEF ResultInv
  <2>3. CASE \E i \in Ids : ready' = [ready EXCEPT ![i] = NoReply]
    BY <1>0, <1>5, <2>1, <2>3 DEF ResultInv
  <2>4. ASSUME NEW i \in Ids, loop = "handle", i = frame.id, frame.body \in Bodies,
               ready' = [ready EXCEPT ![i] = [id |-> i, body |-> frame.body]]
        PROVE  ready'[j].body \in {Result(j)', "closed"}
    <3>1. frame.body = Result(i)
      BY <1>0, <2>4, SameIds DEF ResultInv, Right
    <3>2. CASE j = i
      BY <1>0, <2>1, <2>4, <3>1, <3>2
    <3>3. CASE j # i
      BY <1>0, <1>5, <2>1, <2>4, <3>3 DEF ResultInv
    <3> QED
      BY <3>2, <3>3
  <2>5. ASSUME NEW i \in Ids, ready' = [ready EXCEPT ![i] = [id |-> i, body |-> "closed"]]
        PROVE  ready'[j].body \in {Result(j)', "closed"}
    BY <1>0, <1>5, <2>1, <2>5 DEF ResultInv
  <2> QED
    BY <1>0, <2>2, <2>3, <2>4, <2>5, ReadyStep
<1>6. Right(held)' /\ (loop' = "handle" => Right(frame)') /\ \A k \in 1..Len(fromPeer') : Right(fromPeer[k])'
  BY <1>1, <1>4 DEF Right
<1> QED
  BY <1>5, <1>6 DEF ResultInv

\* What a step of the client's side puts on the wire: nothing, the request of a
\* call that it records as sent, or a cancel.
LEMMA ClientSends ==
  ASSUME SysInv, crashed = "no", ClientGoes \/ ClientBegins
  PROVE  \/ toServer' = toServer /\ sent \subseteq sent'
         \/ \E i \in Ids : /\ i \notin sent /\ sent' = sent \cup {i}
                           /\ toServer' = Append(toServer, [t |-> "call", id |-> i])
         \/ \E i \in Ids : /\ sent' = sent /\ toServer' = Append(toServer, [t |-> "cancel", id |-> i])
<1>1. ASSUME NEW p \in Senders, SysWrite(p), toServer' # toServer
      PROVE  \/ \E i \in Ids : /\ i \notin sent /\ sent' = sent \cup {i}
                               /\ toServer' = Append(toServer, [t |-> "call", id |-> i])
             \/ \E i \in Ids : /\ sent' = sent /\ toServer' = Append(toServer, [t |-> "cancel", id |-> i])
  <2>1. w[p] = "write" /\ w'[p] = "none" /\ toServer' = Append(toServer, RequestOf(p)) /\ Write(p)
    BY <1>1 DEF SysWrite
  <2>2. w \in [Writers -> {"none", "ctx", "lock", "write", "unlock", "done"}] /\ p \in Writers
    BY DEF SysInv, IndInv, TypeOK, ConnType, Writers
  <2>3. WriteOK(p)
    BY <2>1, <2>2 DEF Write, WriteFail, UnlockAgain
  <2>4. CASE p = Loop
    <3>1. loop = "send" /\ sent' = sent \cup {frame.id} /\ RequestOf(p) = [t |-> "call", id |-> frame.id]
      BY <2>3, <2>4 DEF WriteOK, RequestOf
    <3>2. frame.id \in Ids /\ frame.id \notin sent
      BY <3>1 DEF SysInv, SentInv, IndInv, TypeOK, LoopType
    <3> QED
      BY <2>1, <3>1, <3>2
  <2>5. CASE p # Loop
    <3>1. p \in Ids /\ sent' = sent /\ RequestOf(p) = [t |-> "cancel", id |-> p]
      BY <2>3, <2>5 DEF WriteOK, RequestOf, Senders
    <3> QED
      BY <2>1, <3>1
  <2> QED
    BY <2>4, <2>5
<1>2. sent \subseteq sent'
  BY ClientSide, SendMoves
<1> QED
  BY <1>1, <1>2 DEF ClientGoes, ClientBegins, SysHandle, SysExit

\* What a step of the client writes keeps requests on their way once.
LEMMA ClientWire ==
  ASSUME SysInv, crashed = "no", ClientGoes \/ ClientBegins
  PROVE  WireInv'
<1>0. WireInv /\ h' = h
  BY ClientSide DEF SysInv, sRest
<1>1. CASE toServer' = toServer /\ sent \subseteq sent'
  BY <1>0, <1>1 DEF WireInv
<1>2. ASSUME NEW r \in Requests, sent \subseteq sent', toServer' = Append(toServer, r),
             r.t = "call" => r.id \in sent' \ sent
      PROVE  WireInv'
  <2>1. /\ toServer' \in Seq(Requests) /\ Len(toServer') = Len(toServer) + 1 /\ Len(toServer) \in Nat
        /\ \A k \in 1..Len(toServer) : toServer'[k] = toServer[k]
        /\ toServer'[Len(toServer) + 1] = r
    BY <1>0, <1>2, AppendFacts DEF WireInv
  <2>2. \A k \in 1..Len(toServer') : k \in 1..Len(toServer) \/ k = Len(toServer) + 1
    BY <2>1
  <2>3. r.id \in Ids
    BY DEF Requests
  <2>4. \A k \in 1..Len(toServer') : toServer'[k].t = "call" =>
          toServer'[k].id \in sent' /\ h'[toServer'[k].id] = "none"
    BY <1>0, <1>2, <2>1, <2>2, <2>3 DEF WireInv
  <2>5. \A k \in 1..Len(toServer) : r.t = "call" => toServer[k] # r
    BY <1>0, <1>2 DEF WireInv
  <2>6. \A j, k \in 1..Len(toServer') :
          toServer'[j] = toServer'[k] /\ toServer'[j].t = "call" => j = k
    BY <1>0, <2>1, <2>2, <2>5 DEF WireInv
  <2>7. \A i \in Ids : h'[i] # "none" => i \in sent'
    BY <1>0, <1>2 DEF WireInv
  <2> QED
    BY <2>1, <2>4, <2>6, <2>7 DEF WireInv
<1>3. \A i \in Ids : [t |-> "call", id |-> i] \in Requests /\ [t |-> "cancel", id |-> i] \in Requests
  BY DEF Requests
<1>4. ASSUME NEW i \in Ids, i \notin sent, sent' = sent \cup {i},
             toServer' = Append(toServer, [t |-> "call", id |-> i])
      PROVE  WireInv'
  BY <1>2, <1>3, <1>4
<1>5. ASSUME NEW i \in Ids, sent' = sent, toServer' = Append(toServer, [t |-> "cancel", id |-> i])
      PROVE  WireInv'
  BY <1>2, <1>3, <1>5
<1> QED
  BY <1>1, <1>4, <1>5, ClientSends

\* The client's side as a whole.
LEMMA ClientKeeps ==
  ASSUME SysInv, crashed = "no", ClientGoes \/ ClientBegins
  PROVE  SysInv'
<1>1. ClientMoves /\ Next /\ UNCHANGED sRest
  BY ClientSide
<1>2. IndInv'
  BY <1>1, ClientStep DEF SysInv
<1>3. SP!ServerInv'
  <2>1. CASE UNCHANGED sConn
    BY <1>1, <2>1, ServerConstants, SP!StutterServer
       DEF SysInv, sRest, SP!vars, SP!callVars, SP!lockVars, SP!chanVars, SP!ocVars
  <2>2. CASE sConn = "open" /\ sConn' = "closed"
    BY <1>1, <2>2, ServerConstants, SP!LossStep
       DEF SysInv, sRest, SP!callVars, SP!lockVars, SP!chanVars, SP!ocVars
  <2> QED
    BY <2>1, <2>2, ClientSide
<1>4. LinkInv'
  <2>1. LinkInv /\ sLoop' = sLoop /\ (conn' = conn \/ conn' = "local")
    BY <1>1, ClientConn DEF SysInv, sRest
  <2> QED
    BY <2>1, ClientSide DEF LinkInv
<1>5. ResultInv'
  BY <1>1, ClientResult DEF sRest
<1> QED
  BY <1>1, <1>2, <1>3, <1>4, <1>5, ClientSent, ClientOutcome, ClientWire DEF SysInv

\* The loss of the connection.
LEMMA LossKeeps ==
  ASSUME SysInv, SysConnLost
  PROVE  SysInv'
<1>1. /\ conn = "open" /\ sConn = "open" /\ conn' = "broken" /\ sConn' = "broken"
      /\ UNCHANGED <<ctxDone, peerVars, stop, closer, toServer, sinkVars, sRest>> /\ EnvFrame
  BY DEF SysInv, LinkInv, SysConnLost
<1>2. IndInv'
  <2>1. IndInv /\ fromPeer' \in Seq(Frames) /\ nFrames' \in Nat
    BY <1>1 DEF SysInv, IndInv, TypeOK, ConnType, peerVars
  <2> QED
    BY <1>1, <2>1, AnyPeerStep DEF EnvFrame, callerVars, endVars
<1>3. SP!ServerInv'
  BY <1>1, ServerConstants, SP!LossStep
     DEF SysInv, sRest, SP!callVars, SP!lockVars, SP!chanVars, SP!ocVars
<1>4. SentInv' /\ OutcomeInv'
  BY <1>1 DEF SysInv, SentInv, OutcomeInv, Queued, EnvFrame, loopVars
<1>5. WireInv' /\ LinkInv'
  BY <1>1 DEF SysInv, WireInv, LinkInv, EnvFrame, sRest
<1>6. ResultInv'
  BY <1>1 DEF SysInv, ResultInv, Right, Result, EnvFrame, loopVars, replyVars, readVars, peerVars, sRest
<1> QED
  BY <1>2, <1>3, <1>4, <1>5, <1>6 DEF SysInv

-----------------------------------------------------------------------------
(* The theorems.                                                           *)

\* The invariant holds initially.
LEMMA SysInitInv == SysInit => SysInv
<1> SUFFICES ASSUME SysInit PROVE SysInv
  OBVIOUS
<1>1. IndInv
  BY InitInd DEF SysInit
<1>2. SP!ServerInv
  <2>1. SP!Init
    BY DEF SysInit, S!Init, SP!Init, S!Ids, SP!Ids, S!None, SP!None, S!NoMsg, SP!NoMsg
  <2> QED
    BY <2>1, ServerConstants, SP!InitServer
<1>3. /\ sent = {} /\ loop = "select" /\ conn = "open" /\ fromPeer = <<>> /\ held = NoFrame
      /\ ready = [i \in Ids |-> NoReply] /\ outcome = [i \in Ids |-> "none"]
  BY DEF SysInit, Init
<1>4. toServer = <<>> /\ h = [i \in Ids |-> "none"] /\ sConn = "open" /\ sLoop = "select"
  BY SameIds DEF SysInit, S!Init
<1>5. SentInv /\ OutcomeInv /\ LinkInv
  BY <1>3, <1>4 DEF SentInv, OutcomeInv, LinkInv
<1>6. WireInv
  BY <1>4 DEF WireInv
<1>7. ResultInv
  BY <1>3 DEF ResultInv, Right, NoFrame
<1> QED
  BY <1>1, <1>2, <1>5, <1>6, <1>7 DEF SysInv

\* A step of either process, or of the network, preserves the invariant.
LEMMA SysStep == SysInv /\ [SysNext]_sysVars => SysInv'
<1> SUFFICES ASSUME SysInv, [SysNext]_sysVars PROVE SysInv'
  OBVIOUS
<1>1. CASE UNCHANGED sysVars
  <2> USE <1>1 DEF sysVars, sVars, sRest, sinkVars
  <2>1. IndInv'
    BY ClientStep DEF SysInv
  <2>2. SP!ServerInv'
    BY ServerConstants, SP!StutterServer
       DEF SysInv, SP!vars, SP!callVars, SP!lockVars, SP!chanVars, SP!ocVars
  <2> USE DEF vars, callerVars, replyVars, loopVars, readVars, connVars, peerVars
  <2>3. SentInv' /\ OutcomeInv' /\ WireInv' /\ LinkInv'
    BY DEF SysInv, SentInv, OutcomeInv, Queued, WireInv, LinkInv
  <2>4. ResultInv'
    BY DEF SysInv, ResultInv, Right, Result
  <2> QED
    BY <2>1, <2>2, <2>3, <2>4 DEF SysInv
<1>2. CASE SysNext
  BY <1>2, ClientKeeps, ServerKeeps, LossKeeps DEF SysNext, Goes
<1> QED
  BY <1>1, <1>2

\* The invariant of client, server and wire holds in every state of the system.
THEOREM SysInductive == SysSpec => []SysInv
BY SysInitInv, SysStep, PTL DEF SysSpec

\* The initial states are those of RpcSpec.
LEMMA InitRefines == SysInit => R!RpcInit
<1> SUFFICES ASSUME SysInit PROVE R!RpcInit
  OBVIOUS
<1>1. idCtr = 0 /\ outcome = [i \in Ids |-> "none"] /\ reply = [i \in Ids |-> "none"]
  BY SameIds DEF SysInit, Init, S!Init
<1>2. 1..idCtr = {}
  BY <1>1
<1>3. [i \in Ids |-> IF reply[i] \in {"chan", "bad"} THEN "value" ELSE reply[i]] = [i \in Ids |-> "none"]
  BY <1>1
<1> QED
  BY <1>1, <1>2, <1>3 DEF R!RpcInit

\* A step of the server runs one method, or none.
LEMMA ServerRefines ==
  ASSUME SysInv, sCrashed = "no", ServerGoes \/ MethodSends
  PROVE  [R!RpcNext]_(R!rpcVars)
<1> DEFINE res == [i \in Ids |-> IF reply[i] \in {"chan", "bad"} THEN "value" ELSE reply[i]]
<1>0. UNCHANGED <<idCtr, outcome>>
  BY ServerSees DEF callerVars
<1>1. CASE reply' = reply
  BY <1>0, <1>1 DEF R!rpcVars
<1>2. ASSUME NEW i \in Ids, NEW r \in {"value", "error", "bad", "chan"}, h[i] = "call",
             reply[i] = "none", reply' = [reply EXCEPT ![i] = r]
      PROVE  R!RpcNext
  <2>1. reply \in [Ids -> {"none", "value", "error", "bad", "chan"}]
    BY SameIds DEF SysInv, SP!ServerInv, SP!TypeOK, SP!CallType
  <2>2. i \in 1..idCtr
    <3>1. i \in sent /\ i <= idCtr /\ idCtr \in 0..MaxCalls
      BY <1>2 DEF SysInv, WireInv, SentInv, IndInv, TypeOK, CallerType
    <3> QED
      BY <3>1, ClientAssumption DEF Ids, ClientAssumption
  <2> DEFINE g == IF r \in {"chan", "bad"} THEN "value" ELSE r
  <2>3. res[i] = "none" /\ res' = [res EXCEPT ![i] = g] /\ g \in {"value", "error"}
    BY <1>2, <2>1
  <2> HIDE DEF res, g
  <2>4. \E x \in R!Given : res' = [res EXCEPT ![i] = x]
    BY <2>3 DEF R!Given
  <2>5. R!Run(i)
    BY <1>0, <2>2, <2>3, <2>4 DEF R!Run, res
  <2> QED
    BY <2>5 DEF R!RpcNext
<1>3. \/ reply' = reply
      \/ \E i \in Ids, r \in {"value", "error", "bad", "chan"} :
           h[i] = "call" /\ reply[i] = "none" /\ reply' = [reply EXCEPT ![i] = r]
  BY ServerSide, ServerConstants, SameIds, SP!ReplyMoves DEF SysInv
<1> QED
  BY <1>1, <1>2, <1>3

\* A step of the client makes a call, returns from one, or neither.
LEMMA ClientRefines ==
  ASSUME SysInv, crashed = "no", ClientGoes \/ ClientBegins
  PROVE  [R!RpcNext]_(R!rpcVars)
<1>0. reply' = reply /\ IndInv /\ ResultInv /\ OutcomeInv
  BY ClientSide DEF sRest, SysInv
<1>t. idCtr \in Nat
  BY <1>0 DEF IndInv, TypeOK, CallerType
<1>1. CASE UNCHANGED <<idCtr, outcome>>
  BY <1>0, <1>1 DEF R!rpcVars
<1>2. ASSUME NEW c \in Callers, BeginsAs(c)
      PROVE  R!RpcNext
  <2>1. idCtr + 1 \in Ids /\ idCtr' = idCtr + 1 /\ outcome' = outcome
    BY <1>2 DEF BeginsAs
  <2>2. idCtr + 1 \notin 1..idCtr /\ 1..idCtr' = (1..idCtr) \cup {idCtr + 1}
    BY <1>t, <2>1
  <2>3. R!Call(idCtr + 1)
    BY <1>0, <2>1, <2>2 DEF R!Call
  <2> QED
    BY <2>1, <2>3 DEF R!RpcNext
<1>3. ASSUME NEW c \in Callers, ReturnsAs(c)
      PROVE  R!RpcNext
  <2> DEFINE i == call[c]
  <2>1. i \in Ids /\ i \in 1..idCtr /\ outcome[i] = "none" /\ idCtr' = idCtr
    BY <1>0, <1>t, <1>3 DEF ReturnsAs, IndInv, CallerInv, OutcomeInv, Ids
  <2>2. PICK o \in {"closed"} \cup Swallowed \cup ({Result(i)} \ {"none"}) :
          outcome' = [outcome EXCEPT ![i] = o]
    BY <1>3 DEF ReturnsAs
  <2> HIDE DEF i
  <2>3. [j \in Ids |-> IF reply[j] \in {"chan", "bad"} THEN "value" ELSE reply[j]][i] = Result(i)
    BY <2>1 DEF Result
  <2>4. R!Return(i)
    BY <1>0, <2>1, <2>2, <2>3 DEF R!Return
  <2> QED
    BY <2>1, <2>4 DEF R!RpcNext
<1>4. ASSUME NEW c \in Callers, EnqueuesAs(c) \/ CancelsAs(c)
      PROVE  UNCHANGED <<idCtr, outcome>>
  BY <1>4 DEF EnqueuesAs, CancelsAs
<1>5. \/ UNCHANGED <<idCtr, outcome>>
      \/ \E c \in Callers : Begin(c) \/ Continue(c)
  BY <1>0, ClientSide, CallMoves
<1> QED
  BY <1>0, <1>1, <1>2, <1>3, <1>4, <1>5, CallerCases

\* Client and server implement RpcSpec (client.go sendRequest and handleRpcCall,
\* handler.go handle, websocket.go handleResponse and handleCall): for every
\* number of callers and calls, a method runs at most once, and a call returns
\* at most once, with the result of its own method or a failure of the
\* connection, whatever is cancelled, closed, lost, or dies.
THEOREM SysImplementsRpc == SysSpec => ImplementsRpc
<1>1. SysInv /\ [SysNext]_sysVars => [R!RpcNext]_(R!rpcVars)
  <2> SUFFICES ASSUME SysInv, [SysNext]_sysVars PROVE [R!RpcNext]_(R!rpcVars)
    OBVIOUS
  <2>1. CASE UNCHANGED sysVars \/ SysConnLost
    <3>1. UNCHANGED <<idCtr, outcome, reply>>
      BY <2>1 DEF sysVars, sVars, sRest, vars, callerVars, SysConnLost, EnvFrame
    <3> QED
      BY <3>1 DEF R!rpcVars
  <2> QED
    BY <2>1, ServerRefines, ClientRefines DEF SysNext, Goes
<1> QED
  BY <1>1, SysInductive, InitRefines, PTL DEF SysSpec, ImplementsRpc, R!Rpc

-----------------------------------------------------------------------------
(* The built-in messages. What the client's loop has at hand is the frame  *)
(* that the server wrote at the same place (AlignInv), so that the sink of *)
(* a channel is registered under the id the server gave it (SinkInv); and  *)
(* the server's contexts end with their calls only (CtxInv).               *)

\* FrameOf, for given replies.
FrameBy(m, rep) ==
  [id |-> IF m.t = "resp" THEN m.src ELSE NoID,
   body |-> CASE m.t = "empty" -> "garbage"
              [] m.t = "resp" /\ rep[m.src] = "error" -> "error"
              [] OTHER -> "value"]

AlignInv ==
  /\ Len(fromPeer) <= nFrames /\ nFrames <= Len(out)
  /\ conn = "open" => nFrames = Len(out)
  /\ \A k \in 1..Len(fromPeer) : fromPeer[k] = FrameBy(out[nFrames - Len(fromPeer) + k], reply)
  /\ reader = "offer" => /\ nFrames > Len(fromPeer)
                         /\ held = FrameBy(out[nFrames - Len(fromPeer)], reply)
  /\ loop = "handle" => /\ nFrames > Len(fromPeer) /\ reader = "none"
                        /\ frame = FrameBy(out[nFrames - Len(fromPeer)], reply)

\* The server takes a call for channel-valued if the client does.
KindInv == \A i \in Ids : h[i] # "none" => (kind[i] = "chan" <=> i \in retCh)

CtxInv == sLoop # "exited" => sCtxDone = {i \in Ids : h[i] = "end" /\ kind[i] # "chan"}

\* A channel-valued call that returned, or is about to return, a value has its
\* sink; and every sink is registered under the id of its call's channel.
Valued(i) == ready[i].body = "value" \/ outcome[i] = "value"
SinkInv ==
  /\ \A s \in chanHandlers : \E i \in Ids : s = <<chanOf[i], i>> /\ chanOf[i] # NoID
  /\ sinkGot = {}
  /\ \A i \in retCh : Valued(i) => <<chanOf[i], i>> \in chanHandlers

BuiltinInv == AsyncInv /\ SP!NamesInv /\ AlignInv /\ KindInv /\ CtxInv /\ SinkInv

\* A frame depends on the reply of the call that it answers.
LEMMA FrameSame ==
  \A m, r, q : (m.t = "resp" => r[m.src] = q[m.src]) => FrameBy(m, r) = FrameBy(m, q)
BY DEF FrameBy

\* FrameOf is FrameBy for the present replies.
LEMMA FrameOfBy == \A m : FrameOf(m) = FrameBy(m, reply)
BY DEF FrameOf, FrameBy

\* What a step of the server writes, and what the client gets of it.
LEMMA ServerWrites ==
  ASSUME SysInv, sCrashed = "no", ServerGoes \/ MethodSends
  PROVE  \/ UNCHANGED <<out, peerVars>>
         \/ \E m \in SP!Messages :
              /\ out' = Append(out, m) /\ reply' = reply
              /\ IF conn = "open" THEN /\ fromPeer' = Append(fromPeer, FrameBy(m, reply))
                                       /\ nFrames' = nFrames + 1
                 ELSE UNCHANGED peerVars
<1>0. SP!ServerInv /\ SP!AnyNext /\ out \in Seq(SP!Messages) /\ msg \in SP!Messages
  BY ServerSide DEF SysInv, SP!ServerInv, SP!TypeOK, SP!OutType
<1>1. UNCHANGED <<out, peerVars>> \/ Transmit
  <2>1. CASE SysReceive
    BY <2>1 DEF SysReceive, S!LoopFrame
  <2>2. CASE SysReturn
    BY <2>2 DEF SysReturn, S!Return, S!LoopFrame
  <2>3. CASE S!OutChans /\ taken' # taken /\ UNCHANGED peerVars
    BY <2>3 DEF S!OutChans, S!forward, S!outChanClosed, S!registerChClosed, S!ocLock, S!ocWrite,
       S!ocWriteFail, S!ocUnlockAgain
  <2>4. CASE S!EnvFrame /\ UNCHANGED peerVars
    BY <2>4 DEF S!EnvFrame
  <2> QED
    BY <2>1, <2>2, <2>3, <2>4 DEF ServerGoes, MethodSends
<1>2. \/ out' = out
      \/ \E m \in SP!Messages : out' = Append(out, m) /\ reply' = reply
  <2>1. ASSUME NEW i \in Ids, SP!respond(i), out' = Append(out, SP!Response(i))
        PROVE  \E m \in SP!Messages : out' = Append(out, m) /\ reply' = reply
    <3>1. SP!Response(i) \in SP!Messages
      BY <1>0, ServerConstants, SameIds, SP!ResponseType
    <3>2. reply' = reply
      BY <2>1 DEF SP!respond
    <3> QED
      BY <2>1, <3>1, <3>2
  <2>2. ASSUME SP!OutChans, out' = Append(out, msg)
        PROVE  \E m \in SP!Messages : out' = Append(out, m) /\ reply' = reply
    <3>1. reply' = reply
      BY <2>2 DEF SP!OutChans, SP!callVars
    <3> QED
      BY <1>0, <2>2, <3>1
  <2> QED
    BY <1>0, <2>1, <2>2, ServerConstants, SameIds, SP!OutStep
<1>3. ASSUME NEW m \in SP!Messages, out' = Append(out, m), Transmit
      PROVE  IF conn = "open" THEN /\ fromPeer' = Append(fromPeer, FrameBy(m, reply))
                                   /\ nFrames' = nFrames + 1
             ELSE UNCHANGED peerVars
  <2>1. out'[Len(out')] = m /\ out' # out
    BY <1>0, <1>3
  <2> QED
    BY <1>3, <2>1, FrameOfBy DEF Transmit
<1>4. CASE out' = out
  BY <1>1, <1>4 DEF Transmit
<1>5. ASSUME NEW m \in SP!Messages, out' = Append(out, m), reply' = reply
      PROVE  Transmit
  <2>1. out' # out
    BY <1>0, <1>5
  <2> QED
    BY <1>1, <2>1
<1> QED
  BY <1>2, <1>3, <1>4, <1>5

\* What is written is written: the server does not change it.
LEMMA WrittenStays ==
  ASSUME SysInv, BuiltinInv, sCrashed = "no", ServerGoes \/ MethodSends
  PROVE  \A k \in 1..Len(out) : FrameBy(out[k], reply') = FrameBy(out[k], reply)
<1>1. SP!ServerInv /\ SP!AnyNext
  BY ServerSide DEF SysInv
<1>2. SUFFICES ASSUME NEW k \in 1..Len(out), out[k].t = "resp"
               PROVE  reply'[out[k].src] = reply[out[k].src]
  BY FrameSame
<1>3. out[k].src \in Ids /\ h[out[k].src] \in {"done", "end"}
  BY <1>2, SameIds DEF BuiltinInv, SP!NamesInv
<1> QED
  BY <1>1, <1>3, ServerConstants, SameIds, SP!CallMoves

\* Client and server stay aligned over a step of the server.
LEMMA ServerAlign ==
  ASSUME SysInv, BuiltinInv, sCrashed = "no", ServerGoes \/ MethodSends
  PROVE  AlignInv'
<1>0. /\ AlignInv /\ fromPeer \in Seq(Frames) /\ Len(fromPeer) \in Nat /\ nFrames \in Nat
      /\ out \in Seq(SP!Messages) /\ Len(out) \in Nat
  <2>1. AlignInv /\ fromPeer \in Seq(Frames) /\ nFrames \in Nat
    BY DEF BuiltinInv, SysInv, IndInv, TypeOK, ConnType
  <2>2. out \in Seq(SP!Messages)
    BY DEF SysInv, SP!ServerInv, SP!TypeOK, SP!OutType
  <2> QED
    BY <2>1, <2>2
<1>1. UNCHANGED <<conn, reader, held, loop, frame>>
  BY ServerSees DEF connVars, readVars, loopVars
<1>2. \A k \in 1..Len(out) : FrameBy(out[k], reply') = FrameBy(out[k], reply)
  BY WrittenStays
<1>3. /\ \A k \in 1..Len(fromPeer) : nFrames - Len(fromPeer) + k \in 1..Len(out)
      /\ nFrames > Len(fromPeer) => nFrames - Len(fromPeer) \in 1..Len(out)
  BY <1>0 DEF AlignInv
<1>4. CASE UNCHANGED <<out, peerVars>>
  BY <1>0, <1>1, <1>2, <1>3, <1>4 DEF AlignInv, peerVars
<1>5. ASSUME NEW m \in SP!Messages, out' = Append(out, m), reply' = reply
      PROVE  /\ Len(out') = Len(out) + 1 /\ out'[Len(out) + 1] = m
             /\ \A k \in 1..Len(out) : out'[k] = out[k]
  BY <1>0, <1>5
<1>6. ASSUME NEW m \in SP!Messages, out' = Append(out, m), reply' = reply, conn # "open",
             UNCHANGED peerVars
      PROVE  AlignInv'
  <2>1. /\ Len(out') = Len(out) + 1
        /\ \A k \in 1..Len(out) : out'[k] = out[k]
    BY <1>5, <1>6
  <2>2. /\ \A k \in 1..Len(fromPeer) : out'[nFrames - Len(fromPeer) + k] = out[nFrames - Len(fromPeer) + k]
        /\ nFrames > Len(fromPeer) => out'[nFrames - Len(fromPeer)] = out[nFrames - Len(fromPeer)]
    BY <1>3, <2>1
  <2>3. fromPeer' = fromPeer /\ nFrames' = nFrames /\ conn' # "open" /\ nFrames <= Len(out')
    BY <1>0, <1>1, <1>6, <2>1 DEF AlignInv, peerVars
  <2> QED
    BY <1>0, <1>1, <1>6, <2>2, <2>3 DEF AlignInv
<1>7. ASSUME NEW m \in SP!Messages, out' = Append(out, m), reply' = reply, conn = "open",
             fromPeer' = Append(fromPeer, FrameBy(m, reply)), nFrames' = nFrames + 1
      PROVE  AlignInv'
  <2>1. /\ Len(out') = Len(out) + 1 /\ out'[Len(out) + 1] = m
        /\ \A k \in 1..Len(out) : out'[k] = out[k]
    BY <1>5, <1>7
  <2>2. fromPeer' \in Seq(Frames)
    BY ServerSees
  <2>3. /\ Len(fromPeer') = Len(fromPeer) + 1 /\ fromPeer'[Len(fromPeer) + 1] = FrameBy(m, reply)
        /\ \A k \in 1..Len(fromPeer) : fromPeer'[k] = fromPeer[k]
    BY <1>0, <1>7, <2>2
  <2>4. nFrames = Len(out) /\ nFrames' - Len(fromPeer') = nFrames - Len(fromPeer)
    BY <1>0, <1>7, <2>3 DEF AlignInv
  <2>5. \A k \in 1..Len(fromPeer') :
          fromPeer'[k] = FrameBy(out'[nFrames' - Len(fromPeer') + k], reply')
    <3>1. SUFFICES ASSUME NEW k \in 1..Len(fromPeer')
                   PROVE  fromPeer'[k] = FrameBy(out'[nFrames - Len(fromPeer) + k], reply)
      BY <1>7, <2>4
    <3>2. CASE k \in 1..Len(fromPeer)
      BY <1>0, <1>3, <2>1, <2>3, <3>2 DEF AlignInv
    <3>3. CASE k = Len(fromPeer) + 1
      <4>1. nFrames - Len(fromPeer) + k = Len(out) + 1
        BY <1>0, <2>4, <3>3
      <4> QED
        BY <2>1, <2>3, <3>3, <4>1
    <3> QED
      BY <1>0, <2>3, <3>1, <3>2, <3>3
  <2>6. nFrames > Len(fromPeer) =>
          FrameBy(out'[nFrames' - Len(fromPeer')], reply') = FrameBy(out[nFrames - Len(fromPeer)], reply)
    BY <1>3, <1>7, <2>1, <2>4
  <2>7. Len(fromPeer') <= nFrames' /\ nFrames' = Len(out') /\ (nFrames > Len(fromPeer) => nFrames' > Len(fromPeer'))
    BY <1>0, <1>7, <2>1, <2>3, <2>4 DEF AlignInv
  <2> QED
    BY <1>0, <1>1, <2>5, <2>6, <2>7 DEF AlignInv
<1> QED
  BY <1>4, <1>6, <1>7, ServerWrites

\* The server's sides of the other parts: what is called does not change while
\* its call is known, a context ends with its call, a channel keeps its id.
LEMMA ServerKind ==
  ASSUME SysInv, BuiltinInv, sCrashed = "no", ServerGoes \/ MethodSends
  PROVE  KindInv' /\ CtxInv'
<1>0. /\ KindInv /\ CtxInv /\ WireInv /\ SP!ServerInv /\ retCh' = retCh
      /\ h \in [Ids -> {"none", "call", "lock", "write", "register", "answer", "done", "end"}]
      /\ kind \in [Ids -> SP!CallKinds \cup {"none"}]
  BY ServerSees, SameIds DEF BuiltinInv, SysInv, SP!ServerInv, SP!TypeOK, SP!CallType, callerVars
<1>1. ASSUME UNCHANGED <<h, kind, sCtxDone>>, sLoop' = sLoop \/ sLoop' = "exited" \/ sLoop # "exited"
      PROVE  KindInv' /\ CtxInv'
  BY <1>0, <1>1 DEF KindInv, CtxInv
<1>2. CASE SysReceive
  <2>1. CASE SP!cancelCtx(NoID)
    <3>1. NoID \notin handling
      BY <1>0, SameIds DEF SP!ServerInv, SP!HandlingTracksCalls
    <3>2. UNCHANGED <<h, kind, sCtxDone, sLoop>>
      BY <2>1, <3>1 DEF SP!cancelCtx
    <3> QED
      BY <1>1, <3>2
  <2>2. ASSUME NEW k \in {"plain", "chan"}, SP!Arrives(Head(toServer).id, k),
               k = (IF Head(toServer).id \in retCh THEN "chan" ELSE "plain")
        PROVE  KindInv' /\ CtxInv'
    <3> DEFINE i == Head(toServer).id
    <3>1. i \in Ids
      BY <1>0, <1>2, FirstRequest DEF SysReceive, Requests
    <3>2. /\ h[i] = "none" /\ h' = [h EXCEPT ![i] = "call"] /\ kind' = [kind EXCEPT ![i] = k]
          /\ UNCHANGED <<sLoop, sCtxDone>> /\ (k = "chan" <=> i \in retCh)
      BY <2>2 DEF SP!Arrives, SP!handleCall
    <3>3. KindInv'
      BY <1>0, <3>1, <3>2 DEF KindInv
    <3>4. \A j \in Ids : (h'[j] = "end" /\ kind'[j] # "chan") <=> (h[j] = "end" /\ kind[j] # "chan")
      BY <1>0, <3>1, <3>2
    <3>5. CtxInv'
      BY <1>0, <3>2, <3>4 DEF CtxInv
    <3> QED
      BY <3>3, <3>5
  <2> QED
    BY <1>0, <1>2, <2>1, <2>2, ArrivalCases
<1>3. CASE SysReturn
  <2>1. CASE S!loopReturn
    BY <1>1, <2>1 DEF S!loopReturn, S!callVars
  <2>2. CASE S!serveReturn
    <3>1. UNCHANGED <<h, kind>> /\ sLoop' = "exited"
      BY <2>2 DEF S!serveReturn
    <3> QED
      BY <1>0, <3>1 DEF KindInv, CtxInv
  <2> QED
    BY <1>3, <2>1, <2>2 DEF SysReturn, S!Return
<1>4. CASE S!OutChans \/ S!EnvFrame
  BY <1>1, <1>4 DEF S!OutChans, S!EnvFrame, S!callVars
<1>5. ASSUME NEW i \in Ids, S!Handler(i)
      PROVE  KindInv' /\ CtxInv'
  <2>1. kind' = kind /\ sLoop' = sLoop
    BY <1>5 DEF S!Handler
  <2>2. KindInv'
    <3>1. \A j \in Ids : h'[j] = "none" <=> h[j] = "none"
      BY <1>0, <1>5, ServerConstants, SameSteps, SameIds, SP!NoneStays
    <3> QED
      BY <1>0, <2>1, <3>1 DEF KindInv
  <2>3. CASE S!done(i)
    <3>1. /\ h[i] = "done" /\ h' = [h EXCEPT ![i] = "end"]
          /\ sCtxDone' = IF kind[i] = "chan" THEN sCtxDone ELSE sCtxDone \cup {i}
      BY <2>3 DEF S!done
    <3>2. \A j \in Ids : h'[j] = IF j = i THEN "end" ELSE h[j]
      BY <1>0, <3>1
    <3>3. CtxInv'
      BY <1>0, <2>1, <3>1, <3>2 DEF CtxInv
    <3> QED
      BY <2>2, <3>3
  <2>4. CASE ~S!done(i)
    <3>1. /\ sCtxDone' = sCtxDone
          /\ h' = h \/ \E p \in {"lock", "write", "register", "answer", "done"} :
                         h[i] # "end" /\ h' = [h EXCEPT ![i] = p]
      BY <1>5, <2>4 DEF S!Handler, S!doCall, S!lock, S!nextWriterErr, S!handleChanOut, S!register,
         S!registerClosed, S!respond
    <3>2. \A j \in Ids : h'[j] = "end" <=> h[j] = "end"
      BY <1>0, <3>1
    <3>3. CtxInv'
      BY <1>0, <2>1, <3>1, <3>2 DEF CtxInv
    <3> QED
      BY <2>2, <3>3
  <2> QED
    BY <2>3, <2>4
<1> QED
  BY <1>2, <1>3, <1>4, <1>5 DEF ServerGoes, MethodSends

\* A step of the server leaves the sinks of the client as they should be.
LEMMA ServerSinks ==
  ASSUME SysInv, BuiltinInv, sCrashed = "no", ServerGoes \/ MethodSends
  PROVE  SinkInv'
<1>0. SinkInv /\ UNCHANGED <<retCh, outcome, ready, chanHandlers, sinkGot>>
  BY ServerSees DEF BuiltinInv, callerVars, replyVars, sinkVars
<1>1. chanOf \in [Ids -> 0..MaxCalls] /\ SP!ServerInv /\ SP!AnyNext
  BY ServerSide, SameIds DEF SysInv, SP!ServerInv, SP!TypeOK, SP!ChanType
<1>2. \A i \in Ids : chanOf[i] # NoID => chanOf'[i] = chanOf[i]
  <2>1. \/ UNCHANGED chanOf
        \/ \E i \in Ids : /\ chanOf[i] = NoID /\ chanOf' = [chanOf EXCEPT ![i] = chanCtr + 1]
    BY <1>1, ServerConstants, SameIds, SP!ChanMoves
  <2> QED
    BY <1>1, <2>1
<1>3. \A i \in Ids : <<chanOf[i], i>> \in chanHandlers => chanOf[i] # NoID
  BY <1>0 DEF SinkInv
<1>4. retCh \subseteq Ids
  BY DEF SysInv, IndInv, TypeOK, CallerType
<1>5. \A s \in chanHandlers : \E i \in Ids : s = <<chanOf'[i], i>> /\ chanOf'[i] # NoID
  BY <1>0, <1>2 DEF SinkInv
<1>6. \A i \in retCh : Valued(i) => <<chanOf'[i], i>> \in chanHandlers
  BY <1>0, <1>2, <1>3, <1>4 DEF SinkInv
<1> QED
  BY <1>0, <1>5, <1>6 DEF SinkInv, Valued

\* A step of the server's side keeps all of it.
LEMMA ServerBuiltins ==
  ASSUME SysInv, BuiltinInv, sCrashed = "no", ServerGoes \/ MethodSends
  PROVE  BuiltinInv'
<1>1. AsyncInv'
  BY ServerSees DEF BuiltinInv, AsyncInv, lockVars, replyVars
<1>2. SP!NamesInv'
  BY ServerSide, ServerConstants, SP!NamesStep DEF BuiltinInv, SysInv
<1> QED
  BY <1>1, <1>2, ServerAlign, ServerKind, ServerSinks DEF BuiltinInv

\* The reader and the loop hand the frames on one at a time.
LEMMA ReaderMoves ==
  ASSUME ClientMoves
  PROVE  \/ /\ fromPeer' = fromPeer
            /\ reader' = "offer" => reader = "offer" /\ held' = held
            /\ loop' = "handle" => loop = "handle" /\ frame' = frame /\ reader' = reader
         \/ /\ fromPeer' = fromPeer /\ loop = "select" /\ reader = "offer"
            /\ frame' = held /\ reader' = "none"
         \/ /\ reader = "read" /\ fromPeer # <<>> /\ fromPeer' = Tail(fromPeer)
            /\ held' = Head(fromPeer) /\ UNCHANGED <<loop, frame>>
         \/ /\ reader = "read" /\ reader' = "closed" /\ UNCHANGED <<fromPeer, loop, frame>>
<1> USE DEF readVars, peerVars, loopVars
<1>1. CASE \/ (\E c \in Callers : Begin(c) \/ Continue(c)) \/ CloserEnds
           \/ (EnvFrame /\ (closeStop \/ \E i \in Ids : cancelContext(i)))
  BY <1>1 DEF Begin, Continue, CallerFrame, CloserEnds, closerReturn, EnvFrame, closeStop,
     cancelContext
<1>2. CASE Read
  BY <1>2 DEF Read, nextMessage, nextMessageErr, ReaderFrame
<1>3. CASE \/ (\E p \in Writers : Acquire(p)) \/ (\E i \in Ids : AsyncCancel(i))
  BY <1>3 DEF Acquire, Lock, AsyncCancel, handleCtxAsync, WriterFrame
<1>4. ASSUME NEW p \in Senders, Write(p)
      PROVE  /\ UNCHANGED <<fromPeer, reader, held>>
             /\ loop' = "handle" => loop = "handle" /\ frame' = frame
  BY <1>4 DEF Write, WriteOK, WriteFail, UnlockAgain, EndSend, WriterFrame
<1>5. CASE Incoming \/ Request \/ Stop \/ Exit
  BY <1>5 DEF Incoming, loopIncoming, loopIncomingClosed, Request, loopRequest, Stop, loopStop,
     Exit, writeClose, rangeInflight, closeInflight, cancelAll, closeExiting,
     panicEnds, StartClosing, LoopFrame
<1>6. CASE Handle
  BY <1>6 DEF Handle, decodeError, handleResponseIgnored, handleResponse, handleCall,
     handleCallNoID, NextRound, StartClosing, LoopFrame
<1> QED
  BY <1>1, <1>2, <1>3, <1>4, <1>5, <1>6 DEF ClientMoves

\* A step of the client keeps its frames aligned with what the server wrote.
LEMMA ClientAlign ==
  ASSUME SysInv, BuiltinInv, ClientMoves, UNCHANGED <<out, reply>>
  PROVE  AlignInv'
<1>0. AlignInv /\ fromPeer \in Seq(Frames) /\ nFrames \in Nat
  BY DEF BuiltinInv, SysInv, IndInv, TypeOK, ConnType
<1>1. nFrames' = nFrames /\ (conn' = "open" => conn = "open")
  BY ClientConn
<1>2. CASE /\ fromPeer' = fromPeer
           /\ reader' = "offer" => reader = "offer" /\ held' = held
           /\ loop' = "handle" => loop = "handle" /\ frame' = frame /\ reader' = reader
  BY <1>0, <1>1, <1>2 DEF AlignInv
<1>3. CASE /\ fromPeer' = fromPeer /\ loop = "select" /\ reader = "offer"
           /\ frame' = held /\ reader' = "none"
  BY <1>0, <1>1, <1>3 DEF AlignInv
<1>4. CASE /\ reader = "read" /\ fromPeer # <<>> /\ fromPeer' = Tail(fromPeer)
           /\ held' = Head(fromPeer) /\ UNCHANGED <<loop, frame>>
  <2>1. /\ Len(fromPeer) \in Nat \ {0} /\ Len(fromPeer') = Len(fromPeer) - 1
        /\ held' = fromPeer[1] /\ \A k \in 1..Len(fromPeer') : fromPeer'[k] = fromPeer[k + 1]
    BY <1>0, <1>4, TailFacts
  <2>2. loop' # "handle" /\ Len(fromPeer') <= nFrames' /\ nFrames' > Len(fromPeer') /\ nFrames' <= Len(out')
    BY <1>0, <1>1, <1>4, <2>1 DEF AlignInv
  <2>3. \A k \in 1..Len(fromPeer') :
          k + 1 \in 1..Len(fromPeer) /\ nFrames' - Len(fromPeer') + k = nFrames - Len(fromPeer) + (k + 1)
    BY <1>0, <1>1, <2>1
  <2>4. 1 \in 1..Len(fromPeer) /\ nFrames' - Len(fromPeer') = nFrames - Len(fromPeer) + 1
    BY <1>0, <1>1, <2>1
  <2>5. \A k \in 1..Len(fromPeer') : fromPeer'[k] = FrameBy(out[nFrames' - Len(fromPeer') + k], reply)
    BY <1>0, <2>1, <2>3 DEF AlignInv
  <2>6. held' = FrameBy(out[nFrames' - Len(fromPeer')], reply)
    BY <1>0, <2>1, <2>4 DEF AlignInv
  <2> QED
    BY <1>0, <1>1, <2>2, <2>5, <2>6 DEF AlignInv
<1>5. CASE reader = "read" /\ reader' = "closed" /\ UNCHANGED <<fromPeer, loop, frame>>
  BY <1>0, <1>1, <1>5 DEF AlignInv
<1> QED
  BY <1>2, <1>3, <1>4, <1>5, ReaderMoves

\* A call that is made now is not known to the server and has no value.
LEMMA RetChMoves ==
  ASSUME SysInv, ClientMoves
  PROVE  retCh' = retCh \/ (retCh' = retCh \cup {idCtr + 1} /\ UNCHANGED <<ready, outcome>>)
<1> USE DEF callerVars, replyVars
<1>1. CASE \/ Read \/ (\E p \in Writers : Acquire(p)) \/ (\E p \in Senders : Write(p))
           \/ (\E i \in Ids : AsyncCancel(i))
  BY <1>1 DEF Acquire, AsyncCancel, Write, Read, ReaderFrame, WriterFrame
<1>2. CASE Incoming \/ Stop \/ Exit \/ Handle \/ Request
  BY <1>2 DEF Incoming, Stop, Exit, Handle, Request, LoopFrame
<1>3. CASE CloserEnds \/ (EnvFrame /\ (closeStop \/ \E i \in Ids : cancelContext(i)))
  BY <1>3 DEF CloserEnds, EnvFrame
<1>4. CASE \E c \in Callers : Begin(c) \/ Continue(c)
  BY <1>4 DEF Begin, Continue, handleRpcCall, sendRequest, sendRequestExiting, receive,
     ctxDoneSeen, sendCancel
<1> QED
  BY <1>1, <1>2, <1>3, <1>4 DEF ClientMoves

\* The call that is made next.
LEMMA NextCall ==
  ASSUME SysInv, idCtr + 1 \in Ids
  PROVE  h[idCtr + 1] = "none" /\ ~Valued(idCtr + 1)
<1>1. idCtr \in Nat
  BY DEF SysInv, IndInv, TypeOK, CallerType
<1>2. idCtr + 1 > idCtr /\ ~(idCtr + 1 <= idCtr)
  BY <1>1
<1>3. ready[idCtr + 1] = NoReply /\ outcome[idCtr + 1] = "none"
  BY <1>2 DEF SysInv, IndInv, CallerInv, Replied, OutcomeInv
<1>4. h[idCtr + 1] = "none"
  BY <1>2 DEF SysInv, SentInv, WireInv
<1> QED
  BY <1>3, <1>4 DEF Valued, NoReply

\* A step of the client that starts no call at the server changes no kind.
LEMMA ClientKind ==
  ASSUME SysInv, BuiltinInv, ClientMoves, UNCHANGED <<h, kind, sLoop, sCtxDone>>
  PROVE  KindInv' /\ CtxInv'
<1>1. CASE retCh' = retCh
  BY <1>1 DEF BuiltinInv, KindInv, CtxInv
<1>2. CASE retCh' = retCh \cup {idCtr + 1}
  BY <1>2, NextCall DEF BuiltinInv, KindInv, CtxInv
<1> QED
  BY <1>1, <1>2, RetChMoves

\* How a call comes to have a value: handleResponse puts it into ready.
LEMMA ValueMoves ==
  ASSUME SysInv, ClientMoves, Next, NEW i \in Ids, Valued(i)'
  PROVE  Valued(i) \/ (handleResponse /\ frame.id = i /\ frame.body = "value")
<1>0. /\ IndInv /\ ResultInv /\ ready \in [Ids -> Replies \cup {NoReply}]
      /\ outcome \in [Ids -> Outcomes]
  BY DEF SysInv, IndInv, TypeOK, CallerType
<1>1. CASE ready'[i].body = "value"
  <2>1. CASE ready' = ready
    BY <1>1, <2>1 DEF Valued
  <2>2. ASSUME NEW j \in Ids, ready' = [ready EXCEPT ![j] = NoReply]
        PROVE  Valued(i)
    BY <1>0, <1>1, <2>2 DEF Valued, NoReply
  <2>3. ASSUME NEW j \in Ids, j = frame.id,
               ready' = [ready EXCEPT ![j] = [id |-> j, body |-> frame.body]]
        PROVE  Valued(i) \/ (frame.id = i /\ frame.body = "value")
    BY <1>0, <1>1, <2>3 DEF Valued
  <2>4. ASSUME NEW j \in Ids, ready' = [ready EXCEPT ![j] = [id |-> j, body |-> "closed"]]
        PROVE  Valued(i)
    BY <1>0, <1>1, <2>4 DEF Valued
  <2> QED
    BY <1>0, <2>1, <2>2, <2>3, <2>4, ReadyStep
<1>2. CASE outcome'[i] = "value"
  <2>1. CASE outcome' = outcome
    BY <1>2, <2>1 DEF Valued
  <2>2. ASSUME NEW c \in Callers, ReturnsAs(c)
        PROVE  Valued(i)
    <3>1. PICK o : outcome' = [outcome EXCEPT ![call[c]] = o] /\ (o = "value" => ready[call[c]].body = "value")
      BY <2>2 DEF ReturnsAs
    <3> QED
      BY <1>0, <1>2, <2>2, <3>1 DEF Valued, ReturnsAs
  <2>3. ASSUME NEW c \in Callers, BeginsAs(c) \/ EnqueuesAs(c) \/ CancelsAs(c)
        PROVE  outcome' = outcome
    BY <2>3 DEF BeginsAs, EnqueuesAs, CancelsAs
  <2> QED
    BY <1>0, <2>1, <2>2, <2>3, CallMoves, CallerCases
<1> QED
  BY <1>1, <1>2 DEF Valued

\* Only handleFrame answers a call with a response.
LEMMA OtherMoves ==
  ASSUME SysInv, ClientGoes \/ ClientBegins, ~SysHandle
  PROVE  ~handleResponse
<1> USE DEF replyVars, loopVars
<1>1. SUFFICES ASSUME handleResponse PROVE FALSE
  OBVIOUS
<1>2. loop = "handle" /\ loop' = "select" /\ ready' # ready
  <2>1. frame.id \in Ids /\ frame.body \in Bodies /\ ready \in [Ids -> Replies \cup {NoReply}]
    BY <1>1 DEF handleResponse, Ignored, SysInv, IndInv, TypeOK, CallerType, LoopType, Frames
  <2>2. /\ ready[frame.id] = NoReply
        /\ ready' = [ready EXCEPT ![frame.id] = [id |-> frame.id, body |-> frame.body]]
    BY <1>1 DEF handleResponse
  <2>3. ready'[frame.id].body = frame.body /\ NoReply.body \notin Bodies
    BY <2>1, <2>2 DEF NoReply, Bodies
  <2>4. ready' # ready
    BY <2>1, <2>2, <2>3
  <2> QED
    BY <1>1, <2>4 DEF handleResponse, NextRound
<1>3. CASE \/ (\E c \in Callers : Begin(c) \/ Continue(c)) \/ CloserEnds \/ Read
           \/ (EnvFrame /\ (closeStop \/ \E i \in Ids : cancelContext(i)))
  BY <1>2, <1>3 DEF Begin, Continue, CallerFrame, CloserEnds, EnvFrame, Read, ReaderFrame
<1>4. CASE \/ (\E p \in Writers : Acquire(p)) \/ (\E i \in Ids : AsyncCancel(i))
           \/ (\E p \in Senders : Write(p))
  BY <1>2, <1>4 DEF Acquire, AsyncCancel, Write, WriterFrame
<1>5. CASE Incoming \/ Request \/ Stop \/ Exit
  BY <1>2, <1>5 DEF Incoming, loopIncoming, loopIncomingClosed, Request, loopRequest, Stop, loopStop,
     Exit, writeClose, rangeInflight, closeInflight, cancelAll, closeExiting,
     panicEnds
<1> QED
  BY <1>3, <1>4, <1>5 DEF ClientGoes, ClientBegins, SysWrite, SysExit

\* The sinks stay as they are, and no call gets a value that wants one.
LEMMA SinksSame ==
  ASSUME SysInv, BuiltinInv, UNCHANGED <<sinkVars, chanOf>>,
         retCh' = retCh \/ (retCh' = retCh \cup {idCtr + 1} /\ UNCHANGED <<ready, outcome>>),
         retCh' \subseteq Ids, \A i \in retCh : Valued(i)' => Valued(i)
  PROVE  SinkInv'
<1>1. SinkInv
  BY DEF BuiltinInv
<1>2. \A i \in retCh' : Valued(i)' => i \in retCh /\ Valued(i)
  <2>1. CASE retCh' = retCh
    BY <2>1
  <2>2. CASE retCh' = retCh \cup {idCtr + 1} /\ UNCHANGED <<ready, outcome>>
    BY <2>2, NextCall DEF Valued
  <2> QED
    BY <2>1, <2>2
<1> QED
  BY <1>1, <1>2 DEF SinkInv, sinkVars

\* The message at hand is the one that the frame was decoded from.
LEMMA HandMatches ==
  ASSUME SysInv, BuiltinInv, loop = "handle"
  PROVE  /\ frame = FrameBy(AtHand, reply) /\ AtHand.t \in {"resp", "empty", "val", "close"}
         /\ AtHand.t # "resp" => frame.id = NoID
         /\ AtHand.t = "resp" =>
              /\ AtHand.src \in Ids /\ frame.id = AtHand.src /\ AtHand.ch = chanOf[AtHand.src]
              /\ AtHand.src \in retCh /\ frame.body = "value" => chanOf[AtHand.src] # NoID
<1> DEFINE k == nFrames - Len(fromPeer)
<1>1. k \in 1..Len(out) /\ AtHand = out[k] /\ frame = FrameBy(AtHand, reply)
  <2>1. AlignInv /\ fromPeer \in Seq(Frames) /\ nFrames \in Nat
    BY DEF BuiltinInv, SysInv, IndInv, TypeOK, ConnType
  <2>2. out \in Seq(SP!Messages)
    BY DEF SysInv, SP!ServerInv, SP!TypeOK, SP!OutType
  <2>3. Len(fromPeer) \in Nat /\ Len(out) \in Nat
    BY <2>1, <2>2
  <2>4. nFrames > Len(fromPeer) /\ nFrames <= Len(out) /\ frame = FrameBy(out[k], reply)
    BY <2>1 DEF AlignInv
  <2> QED
    BY <2>1, <2>3, <2>4 DEF AtHand
<1> HIDE DEF k
<1> DEFINE m == AtHand
<1>2. /\ m \in SP!Messages /\ m.t # "none"
      /\ m.t = "resp" => /\ m.src \in Ids /\ h[m.src] \in {"done", "end"} /\ m.ch = chanOf[m.src]
                         /\ reply[m.src] = "chan" => chanOf[m.src] # NoID
  <2>1. out \in Seq(SP!Messages)
    BY DEF SysInv, SP!ServerInv, SP!TypeOK, SP!OutType
  <2> QED
    BY <1>1, <2>1, SameIds DEF BuiltinInv, SP!NamesInv
<1>3. m.t \in {"resp", "empty", "val", "close"}
  BY <1>2 DEF SP!Messages
<1>4. m.t # "resp" => frame.id = NoID
  BY <1>1 DEF FrameBy
<1>5. ASSUME m.t = "resp"
      PROVE  /\ frame.id = m.src
             /\ m.src \in retCh /\ frame.body = "value" => chanOf[m.src] # NoID
  <2>1. frame.id = m.src /\ (frame.body = "value" => reply[m.src] # "error")
    BY <1>1, <1>5 DEF FrameBy
  <2>2. m.src \in retCh => reply[m.src] \in {"none", "chan", "error"}
    BY <1>2, <1>5, SameIds DEF BuiltinInv, KindInv, SP!NamesInv
  <2>3. reply[m.src] # "none"
    BY <1>2, <1>5, SameIds DEF SysInv, SP!ServerInv, SP!CallInv
  <2> QED
    BY <1>2, <1>5, <2>1, <2>2, <2>3
<1> QED
  BY <1>1, <1>2, <1>3, <1>4, <1>5

\* handleFrame: a response registers the sink of its call under the id of its
\* call's channel; the built-in messages find no sink.
LEMMA HandleSinks ==
  ASSUME SysInv, BuiltinInv, SysHandle, ClientMoves, Next, chanOf' = chanOf
  PROVE  SinkInv'
<1>0. Handle /\ loop = "handle" /\ retCh' = retCh /\ retCh \subseteq Ids /\ SinkInv
  BY DEF SysHandle, Handle, decodeError, handleResponseIgnored, handleResponse, handleCall,
     handleCallNoID, LoopFrame, callerVars, BuiltinInv, SysInv, IndInv, TypeOK, CallerType
<1>1. SinkOf(NoID) = {}
  BY <1>0 DEF SinkInv, SinkOf
<1>2. ChanID = NoID
  BY CancelDecodes DEF ChanID
<1>3. CASE AtHand.t # "resp"
  <2>1. UNCHANGED sinkVars
    <3>1. \/ UNCHANGED sinkVars
          \/ /\ sinkGot' = sinkGot \cup {<<s[2], AtHand.val>> : s \in SinkOf(ChanID)}
             /\ UNCHANGED chanHandlers
          \/ chanHandlers' = chanHandlers \ SinkOf(ChanID) /\ UNCHANGED sinkGot
      BY <1>0, <1>3, HandMatches DEF SysHandle
    <3>2. /\ {<<s[2], AtHand.val>> : s \in SinkOf(ChanID)} = {}
          /\ chanHandlers \ SinkOf(ChanID) = chanHandlers
      BY <1>1, <1>2
    <3> QED
      BY <3>1, <3>2 DEF sinkVars
  <2>2. ~handleResponse
    BY <1>0, <1>3, HandMatches DEF handleResponse, Ignored
  <2> QED
    BY <1>0, <2>1, <2>2, ValueMoves, SinksSame
<1>4. CASE AtHand.t = "resp"
  <2> DEFINE s == AtHand.src
  <2>1. /\ s \in Ids /\ frame.id = s /\ AtHand.ch = chanOf[s] /\ s # Handler /\ s \in Writers
        /\ s \in retCh /\ frame.body = "value" => chanOf[s] # NoID
    BY <1>0, <1>4, HandMatches, LockTypes DEF SysInv
  <2>2. /\ sinkGot' = sinkGot
        /\ chanHandlers' = IF w'[s] = "ctx" /\ w[s] = "none"
                           THEN (chanHandlers \ SinkOf(AtHand.ch)) \cup {<<AtHand.ch, s>>}
                           ELSE chanHandlers
    BY <1>4 DEF SysHandle
  <2> HIDE DEF s
  <2>3. w \in [Writers -> {"none", "ctx", "lock", "write", "unlock", "done"}]
    BY LockTypes DEF SysInv
  <2>4. CASE handleResponse /\ s \in retCh /\ frame.body = "value"
    <3>1. w'[s] = "ctx"
      BY <2>1, <2>3, <2>4 DEF handleResponse
    <3>2. w[s] = "none"
      <4>1. s \in inflight /\ delivered[s] = 0
        BY <1>0, <2>1, <2>4 DEF handleResponse, Ignored, SysInv, IndInv, LoopInv, Exiting
      <4> QED
        BY <2>1, <4>1 DEF BuiltinInv, AsyncInv
    <3>3. chanHandlers' = (chanHandlers \ SinkOf(chanOf[s])) \cup {<<chanOf[s], s>>} /\ chanOf[s] # NoID
      BY <2>1, <2>2, <2>4, <3>1, <3>2
    <3>4. \A i \in retCh : Valued(i)' => i = s \/ Valued(i)
      BY <1>0, <2>1, ValueMoves
    <3>5. ASSUME NEW i \in retCh, Valued(i)'
          PROVE  <<chanOf[i], i>> \in chanHandlers'
      <4>1. CASE i = s
        BY <3>3, <4>1
      <4>2. CASE i # s
        <5>1. <<chanOf[i], i>> \in chanHandlers
          BY <1>0, <3>4, <3>5, <4>2 DEF SinkInv
        <5>2. chanOf[i] # chanOf[s]
          BY <1>0, <2>1, <3>3, <4>2, SameIds DEF BuiltinInv, SP!NamesInv
        <5> QED
          BY <3>3, <5>1, <5>2 DEF SinkOf
      <4> QED
        BY <4>1, <4>2
    <3>6. \A e \in chanHandlers' : \E i \in Ids : e = <<chanOf[i], i>> /\ chanOf[i] # NoID
      BY <1>0, <2>1, <3>3 DEF SinkInv
    <3> QED
      BY <1>0, <2>2, <3>5, <3>6 DEF SinkInv
  <2>5. CASE ~(handleResponse /\ s \in retCh /\ frame.body = "value")
    <3>1. w'[s] = w[s]
      BY <1>0, <2>1, <2>3, <2>5 DEF Handle, decodeError, handleResponseIgnored, handleResponse,
         handleCall, handleCallNoID, lockVars
    <3>2. UNCHANGED sinkVars
      BY <2>2, <3>1 DEF sinkVars
    <3>3. \A i \in retCh : Valued(i)' => Valued(i)
      BY <1>0, <2>1, <2>5, ValueMoves
    <3> QED
      BY <1>0, <3>2, <3>3, SinksSame
  <2> QED
    BY <2>4, <2>5
<1> QED
  BY <1>3, <1>4

\* A step of the client's side keeps all of it.
LEMMA ClientBuiltins ==
  ASSUME SysInv, BuiltinInv, crashed = "no", ClientGoes \/ ClientBegins
  PROVE  BuiltinInv'
<1>1. ClientMoves /\ Next /\ UNCHANGED sRest
  BY ClientSide
<1>2. AsyncInv'
  BY <1>1, AsyncInvStep DEF SysInv, BuiltinInv
<1>3. SP!NamesInv'
  BY <1>1 DEF sRest, BuiltinInv, SP!NamesInv
<1>4. AlignInv' /\ KindInv' /\ CtxInv'
  BY <1>1, ClientAlign, ClientKind DEF sRest
<1>5. SinkInv'
  <2>1. CASE SysHandle
    BY <1>1, <2>1, HandleSinks DEF sRest
  <2>2. CASE ~SysHandle
    <3>1. UNCHANGED sinkVars
      BY <2>2 DEF ClientGoes, ClientBegins, SysWrite, SysExit
    <3>2. retCh \subseteq Ids /\ retCh' \subseteq Ids
      <4>1. IndInv /\ IndInv'
        BY <1>1, ClientStep DEF SysInv
      <4> QED
        BY <4>1 DEF IndInv, TypeOK, CallerType
    <3>3. \A i \in retCh : Valued(i)' => Valued(i)
      BY <1>1, <2>2, <3>2, OtherMoves, ValueMoves
    <3>4. chanOf' = chanOf
      BY <1>1 DEF sRest
    <3> QED
      BY <1>1, <3>1, <3>2, <3>3, <3>4, RetChMoves, SinksSame
  <2> QED
    BY <2>1, <2>2
<1> QED
  BY <1>2, <1>3, <1>4, <1>5 DEF BuiltinInv

\* The strengthening for the built-in messages holds initially.
LEMMA BuiltinsInit == SysInit => BuiltinInv
<1> SUFFICES ASSUME SysInit PROVE BuiltinInv
  OBVIOUS
<1>1. /\ fromPeer = <<>> /\ nFrames = 0 /\ reader = "read" /\ loop = "select" /\ retCh = {}
      /\ w = [p \in Writers |-> "none"] /\ chanHandlers = {} /\ sinkGot = {}
  BY DEF SysInit, Init
<1>2. /\ out = <<>> /\ h = [i \in Ids |-> "none"] /\ kind = [i \in Ids |-> "none"]
      /\ chanOf = [i \in Ids |-> NoID] /\ chanCtr = 0 /\ sCtxDone = {}
  BY SameIds DEF SysInit, S!Init, S!None, NoID
<1>3. AsyncInv
  BY <1>1 DEF AsyncInv, Writers, Senders
<1>4. SP!NamesInv
  BY <1>2, SameIds DEF SP!NamesInv, NoID
<1>5. AlignInv
  BY <1>1, <1>2 DEF AlignInv
<1>6. KindInv /\ CtxInv /\ SinkInv
  BY <1>1, <1>2 DEF KindInv, CtxInv, SinkInv
<1> QED
  BY <1>3, <1>4, <1>5, <1>6 DEF BuiltinInv

\* A step of either process, or of the network, preserves it.
LEMMA BuiltinsStep == SysInv /\ BuiltinInv /\ [SysNext]_sysVars => BuiltinInv'
<1> SUFFICES ASSUME SysInv, BuiltinInv, [SysNext]_sysVars PROVE BuiltinInv'
  OBVIOUS
<1>1. CASE UNCHANGED sysVars \/ SysConnLost
  <2>1. UNCHANGED <<w, delivered, retCh, ready, outcome, fromPeer, nFrames, reader, held, loop, frame,
                    sRest, sinkVars>> /\ (conn' = "open" => conn = "open")
    BY <1>1 DEF sysVars, sVars, vars, callerVars, replyVars, loopVars, lockVars, readVars, connVars,
       peerVars, SysConnLost, EnvFrame
  <2>2. AsyncInv' /\ SP!NamesInv' /\ KindInv' /\ CtxInv'
    BY <2>1 DEF BuiltinInv, AsyncInv, SP!NamesInv, KindInv, CtxInv, sRest
  <2>3. AlignInv'
    BY <2>1 DEF BuiltinInv, AlignInv, sRest
  <2>4. SinkInv'
    BY <2>1 DEF BuiltinInv, SinkInv, Valued, sRest, sinkVars
  <2> QED
    BY <2>2, <2>3, <2>4 DEF BuiltinInv
<1>2. CASE SysNext /\ ~SysConnLost
  BY <1>2, ClientBuiltins, ServerBuiltins DEF SysNext, Goes
<1> QED
  BY <1>1, <1>2

\* The parameters of xrpc.cancel, xrpc.ch.val and xrpc.ch.close do not survive
\* the wire (util.go Param, websocket.go cancelCtx, handleChanMessage and
\* handleChanClose): in every state, no cancel has ended a context, and no sink
\* has been handed a value or been closed.
THEOREM SysBuiltinsChangeNothing == SysSpec => []BuiltinsChangeNothing
<1>1. SysInv /\ BuiltinInv => BuiltinsChangeNothing
  BY DEF BuiltinInv, CtxInv, SinkInv, Valued, BuiltinsChangeNothing
<1> QED
  BY <1>1, SysInitInv, SysStep, BuiltinsInit, BuiltinsStep, PTL DEF SysSpec
=============================================================================
