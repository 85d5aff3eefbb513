---------------------------- MODULE RpcClientProofs ----------------------------
(***************************************************************************)
(* Proofs about RpcClient, for every number of callers, calls and frames,  *)
(* every capacity of `requests` and every set of faults: the inductive     *)
(* invariant IndInv, and from it the safety of the reply path.             *)
(***************************************************************************)
EXTENDS RpcClient, TLAPS

\* Append leaves the old elements and puts the new one last.
LEMMA AppendFacts ==
  ASSUME NEW S, NEW s \in Seq(S), NEW x \in S
  PROVE  /\ Append(s, x) \in Seq(S)
         /\ Len(Append(s, x)) = Len(s) + 1
         /\ \A k \in 1..Len(s) : Append(s, x)[k] = s[k]
         /\ Append(s, x)[Len(s) + 1] = x
OBVIOUS

\* Head and Tail of a sequence that is not empty.
LEMMA TailFacts ==
  ASSUME NEW S, NEW s \in Seq(S), s # <<>>
  PROVE  /\ Tail(s) \in Seq(S) /\ Len(s) \in Nat \ {0}
         /\ Len(Tail(s)) = Len(s) - 1
         /\ Head(s) = s[1] /\ s[1] \in S
         /\ \A k \in 1..(Len(s) - 1) : Tail(s)[k] = s[k + 1]
OBVIOUS

\* The frame at rest is a frame.
LEMMA NoFrameType == NoFrame \in Frames
BY DEF NoFrame, Frames

\* The goroutine that handles a call of the peer is not the loop.
LEMMA HandlerFacts == Handler \in Writers /\ Loop \in Writers /\ Handler # Loop
BY ClientAssumption DEF ClientAssumption, Handler, Loop, Writers, Senders

\* The initial states satisfy the inductive invariant.
LEMMA InitInd == Init => IndInv
<1> SUFFICES ASSUME Init PROVE IndInv
  OBVIOUS
<1> USE ClientAssumption DEF ClientAssumption, Init, Ids, NoID, Loop, Writers, Senders
<1>1. TypeOK
  <2>1. CallerType
    BY DEF CallerType, Outcomes
  <2>2. LoopType
    BY NoFrameType DEF LoopType
  <2>3. ConnType
    BY NoFrameType DEF ConnType
  <2>4. FlagType
    BY DEF FlagType
  <2> QED
    BY <2>1, <2>2, <2>3, <2>4 DEF TypeOK
<1>2. EachCallInOnePlace
  BY DEF EachCallInOnePlace, Waiting, Queued, Pending, Replied
<1>3. CallerInv
  BY DEF CallerInv, Queued, Replied
<1>4. LoopInv
  BY DEF LoopInv, Exiting
<1>5. PanicInv
  BY DEF PanicInv
<1> QED
  BY <1>1, <1>2, <1>3, <1>4, <1>5 DEF IndInv

-----------------------------------------------------------------------------
(* The steps that leave the places of the calls alone.                     *)

\* The places of the calls depend on the seven variables named here only.
LEMMA SamePlaces ==
  ASSUME EachCallInOnePlace, CallerInv,
         UNCHANGED <<idCtr, pc, call, requests, inflight, replyVars>>
  PROVE  EachCallInOnePlace' /\ CallerInv'
BY DEF EachCallInOnePlace, CallerInv, Waiting, Queued, Pending, Replied,
       replyVars

\* The panic of the loop is nobody else's business.
LEMMA SamePanic ==
  ASSUME PanicInv, UNCHANGED <<panicVars, loop, inflight, closeId, toClose>>
  PROVE  PanicInv'
BY DEF PanicInv, Exiting, panicVars

\* Taking, using and releasing the writer lock.
LEMMA WriterStep ==
  ASSUME IndInv, NEW p \in Writers, Acquire(p) \/ Write(p)
  PROVE  IndInv'
<1> USE DEF WriterFrame, callerVars, replyVars, readVars, connVars, peerVars,
            endVars, Acquire, Write, Lock, WriteOK, WriteFail, UnlockAgain,
            EndSend
<1>1. TypeOK'
  <2>1. CallerType'
    BY DEF IndInv, TypeOK, CallerType
  <2>2. LoopType'
    BY NoFrameType DEF IndInv, TypeOK, LoopType, panicVars
  <2>3. ConnType'
    BY DEF IndInv, TypeOK, ConnType, LoopType, Unlock
  <2>4. FlagType'
    BY DEF IndInv, TypeOK, FlagType, Unlock, panicVars
  <2> QED
    BY <2>1, <2>2, <2>3, <2>4 DEF TypeOK
<1>2. EachCallInOnePlace' /\ CallerInv'
  BY SamePlaces DEF IndInv
<1>3. LoopInv'
  BY DEF IndInv, LoopInv, Exiting, TypeOK, ConnType, Writers, Senders
<1>4. PanicInv'
  <2>1. \/ UNCHANGED loop
        \/ loop = "send" /\ loop' = "select"
    BY DEF IndInv, LoopInv
  <2>2. CASE UNCHANGED loop
    BY <2>2, SamePanic DEF IndInv
  <2>3. CASE loop = "send" /\ loop' = "select"
    <3>1. panicking' = panicking /\ handlingLK' = handlingLK
      BY DEF panicVars
    <3>2. panicking = "no"
      BY <2>3 DEF IndInv, PanicInv, Exiting
    <3>3. ~handlingLK
      BY <3>2 DEF IndInv, PanicInv
    <3> QED
      BY <2>3, <3>1, <3>2, <3>3 DEF PanicInv
  <2> QED
    BY <2>1, <2>2, <2>3
<1> QED
  BY <1>1, <1>2, <1>3, <1>4 DEF IndInv

\* The end of a context wakes handleCtxAsync.
LEMMA AsyncStep ==
  ASSUME IndInv, NEW i \in Ids, AsyncCancel(i)
  PROVE  IndInv'
<1> USE DEF AsyncCancel, handleCtxAsync, WriterFrame, callerVars, replyVars,
            readVars, connVars, peerVars, endVars, panicVars
<1>1. TypeOK'
  <2>1. CallerType' /\ LoopType'
    BY DEF IndInv, TypeOK, CallerType, LoopType
  <2>2. ConnType'
    BY DEF IndInv, TypeOK, ConnType, Writers, Senders
  <2>3. FlagType'
    BY DEF IndInv, TypeOK, FlagType
  <2> QED
    BY <2>1, <2>2, <2>3 DEF TypeOK
<1>2. EachCallInOnePlace' /\ CallerInv'
  BY SamePlaces DEF IndInv
<1>3. LoopInv'
  BY DEF IndInv, LoopInv, Exiting, TypeOK, ConnType, Writers, Senders, Loop, Ids
<1>4. PanicInv'
  BY SamePanic DEF IndInv
<1> QED
  BY <1>1, <1>2, <1>3, <1>4 DEF IndInv

\* The answer to a call of the peer.
LEMMA AnswerStep ==
  ASSUME IndInv, Answer
  PROVE  IndInv'
<1> USE DEF Answer, nextWriter, done, WriterFrame, callerVars, replyVars, readVars,
            connVars, peerVars, endVars, panicVars
<1>1. TypeOK'
  <2>1. CallerType' /\ LoopType'
    BY DEF IndInv, TypeOK, CallerType, LoopType
  <2>2. ConnType'
    BY HandlerFacts DEF IndInv, TypeOK, ConnType, Unlock
  <2>3. FlagType'
    BY DEF IndInv, TypeOK, FlagType, Unlock
  <2> QED
    BY <2>1, <2>2, <2>3 DEF TypeOK
<1>2. EachCallInOnePlace' /\ CallerInv'
  BY SamePlaces DEF IndInv
<1>3. LoopInv'
  BY HandlerFacts DEF IndInv, LoopInv, Exiting, TypeOK, ConnType
<1>4. PanicInv'
  BY SamePanic DEF IndInv
<1> QED
  BY <1>1, <1>2, <1>3, <1>4 DEF IndInv

\* The reader goroutine.
LEMMA ReaderStep ==
  ASSUME IndInv, Read
  PROVE  IndInv'
<1> USE DEF Read, nextMessage, nextMessageErr, ReaderFrame, callerVars,
            replyVars, loopVars, panicVars, lockVars, connVars, endVars
<1>1. TypeOK'
  <2>1. fromPeer # <<>> => Head(fromPeer) \in Frames /\ Tail(fromPeer) \in Seq(Frames)
    BY TailFacts DEF IndInv, TypeOK, ConnType
  <2>2. CallerType'
    BY DEF IndInv, TypeOK, CallerType
  <2>3. LoopType'
    BY DEF IndInv, TypeOK, LoopType
  <2>4. ConnType'
    BY <2>1 DEF IndInv, TypeOK, ConnType
  <2>5. FlagType'
    BY DEF IndInv, TypeOK, FlagType
  <2> QED
    BY <2>2, <2>3, <2>4, <2>5 DEF TypeOK
<1>2. EachCallInOnePlace' /\ CallerInv'
  BY SamePlaces DEF IndInv
<1>3. LoopInv' /\ PanicInv'
  BY SamePanic DEF IndInv, LoopInv, Exiting
<1> QED
  BY <1>1, <1>2, <1>3 DEF IndInv

\* The closer, the contexts, the peer and the network.
LEMMA EnvStep ==
  ASSUME IndInv, CloserEnds \/ Environment \/ \E i \in Ids : PeerAnswers(i)
  PROVE  IndInv'
<1> USE DEF EnvFrame, replyVars, loopVars, panicVars, lockVars, readVars
<1>1. EachCallInOnePlace' /\ CallerInv' /\ LoopInv' /\ PanicInv'
  <2>1. UNCHANGED <<idCtr, pc, call, requests, inflight, replyVars, loop, toClose, w,
                    panicVars, closeId>>
    BY DEF CloserEnds, Environment, PeerAnswers
  <2> QED
    BY <2>1, SamePlaces, SamePanic DEF IndInv, LoopInv, Exiting
<1>2. LoopType'
  BY DEF IndInv, TypeOK, LoopType, CloserEnds, Environment, PeerAnswers
<1>3. FlagType'
  BY DEF IndInv, TypeOK, FlagType, CloserEnds, Environment, PeerAnswers, closerReturn,
         closeStop, cancelContext, connLost, peerAnswers, peerSendsAny, peerCalls,
         PeerSends
<1>4. CallerType' /\ ConnType'
  <2>5. nFrames \in Nat
    BY DEF IndInv, TypeOK, ConnType
  <2>6. nFrames + 1 \in Nat
    BY <2>5
  <2> USE DEF IndInv, TypeOK, CallerType, ConnType, peerVars
  <2>1. CASE CloserEnds
    BY <2>1 DEF CloserEnds, closerReturn
  <2>2. ASSUME NEW f \in Frames, PeerSends(f), EnvFrame
        PROVE  CallerType' /\ ConnType'
    <3>1. Append(fromPeer, f) \in Seq(Frames)
      BY AppendFacts
    <3>2. nFrames' \in Nat
      BY <2>2, <2>6 DEF PeerSends
    <3>3. CallerType'
      BY <2>2 DEF PeerSends
    <3>4. ConnType'
      BY <2>2, <3>1, <3>2 DEF PeerSends
    <3> QED
      BY <3>3, <3>4
  <2>3. CASE \E i \in Ids : PeerAnswers(i)
    <3>1. PICK i \in Ids, b \in {"value", "error"} : PeerSends([id |-> i, body |-> b])
      BY <2>3 DEF PeerAnswers, peerAnswers
    <3>2. [id |-> i, body |-> b] \in Frames
      BY DEF Frames, Bodies
    <3> QED
      BY <2>2, <2>3, <3>1, <3>2 DEF PeerAnswers
  <2>4. CASE Environment
    <3>1. CASE closeStop
      BY <2>4, <3>1 DEF Environment, closeStop
    <3>2. CASE \E i \in Ids : cancelContext(i)
      BY <2>4, <3>2 DEF Environment, cancelContext
    <3>3. CASE connLost
      BY <2>4, <3>3 DEF Environment, connLost
    <3>4. CASE peerSendsAny
      <4>1. PICK f \in Frames : PeerSends(f)
        BY <3>4 DEF peerSendsAny, Frames, Bodies
      <4> QED
        BY <2>2, <2>4, <4>1 DEF Environment
    <3>5. CASE peerCalls
      <4>1. PICK f \in Frames : PeerSends(f)
        BY <3>5 DEF peerCalls, Frames
      <4> QED
        BY <2>2, <2>4, <4>1 DEF Environment
    <3> QED
      BY <2>4, <3>1, <3>2, <3>3, <3>4, <3>5 DEF Environment
  <2> QED
    BY <2>1, <2>3, <2>4
<1> QED
  BY <1>1, <1>2, <1>3, <1>4 DEF IndInv, TypeOK

\* Whatever the peer sends and the network loses: the client's invariant is its
\* own.
LEMMA AnyPeerStep ==
  ASSUME IndInv, conn' \in {"open", "closed", "broken", "local"},
         fromPeer' \in Seq(Frames), nFrames' \in Nat,
         UNCHANGED <<callerVars, requests, replyVars, loopVars, panicVars, lockVars,
                     readVars, sent, writeErr, endVars, crashed>>
  PROVE  IndInv'
<1> USE DEF callerVars, replyVars, loopVars, panicVars, lockVars, readVars, endVars
<1>1. EachCallInOnePlace' /\ CallerInv' /\ LoopInv' /\ PanicInv'
  BY SamePlaces, SamePanic DEF IndInv, LoopInv, Exiting
<1>2. CallerType'
  BY DEF IndInv, TypeOK, CallerType
<1>3. LoopType'
  BY DEF IndInv, TypeOK, LoopType
<1>4. ConnType'
  BY DEF IndInv, TypeOK, ConnType
<1>5. FlagType'
  BY DEF IndInv, TypeOK, FlagType
<1> QED
  BY <1>1, <1>2, <1>3, <1>4, <1>5 DEF IndInv, TypeOK

-----------------------------------------------------------------------------
(* The connection loop.                                                    *)

\* Receiving, ignoring and stopping: nothing of a call moves.
LEMMA QuietLoopStep ==
  ASSUME IndInv, LoopFrame, UNCHANGED panicVars,
         \/ loopIncoming \/ loopIncomingClosed \/ decodeError
         \/ handleResponseIgnored \/ loopStop \/ writeClose
  PROVE  IndInv'
<1> USE DEF LoopFrame, callerVars, replyVars, panicVars, lockVars, readVars, connVars,
            peerVars, endVars
<1> USE DEF loopIncoming, loopIncomingClosed, decodeError, handleResponseIgnored,
            loopStop, writeClose, StartClosing, NextRound
<1>1. EachCallInOnePlace' /\ CallerInv'
  BY SamePlaces DEF IndInv
<1>2. CallerType'
  BY DEF IndInv, TypeOK, CallerType
<1>3. LoopType'
  BY NoFrameType DEF IndInv, TypeOK, LoopType, ConnType
<1>4. ConnType'
  BY NoFrameType DEF IndInv, TypeOK, ConnType, Unlock, Writers, Senders, Loop
<1>5. FlagType'
  BY DEF IndInv, TypeOK, FlagType, Unlock
<1>6. LoopInv'
  <2>1. Loop \in Writers /\ w \in [Writers -> {"none", "ctx", "lock", "write", "unlock", "done"}]
    BY DEF IndInv, TypeOK, ConnType, Writers, Senders
  <2>2. CASE loopIncoming \/ handleResponseIgnored
    BY <2>2 DEF IndInv, LoopInv, Exiting
  <2>3. CASE loopIncomingClosed \/ decodeError
    BY <2>3 DEF IndInv, LoopInv, Exiting
  <2>4. CASE loopStop
    BY <2>1, <2>4 DEF IndInv, LoopInv, Exiting
  <2>5. CASE writeClose
    BY <2>1, <2>5 DEF IndInv, LoopInv, Exiting
  <2> QED
    BY <2>2, <2>3, <2>4, <2>5
<1>7. PanicInv'
  <2>1. loop \in {"select", "handle", "stop"} /\ loop' \in {"handle", "select", "closing", "stop"}
    OBVIOUS
  <2>2. panicking' = "no" /\ ~handlingLK'
    BY <2>1 DEF IndInv, PanicInv, Exiting, TypeOK, FlagType
  <2> QED
    BY <2>1, <2>2 DEF PanicInv
<1> QED
  BY <1>1, <1>2, <1>3, <1>4, <1>5, <1>6, <1>7 DEF IndInv, TypeOK

\* The deferred functions, but for the telling: nothing of a call moves.
LEMMA DeferredStep ==
  ASSUME IndInv, LoopFrame, UNCHANGED panicVars,
         rangeInflight \/ cancelAll \/ closeExiting \/ panicEnds
  PROVE  IndInv'
<1> USE DEF LoopFrame, callerVars, replyVars, loopVars, panicVars, lockVars, readVars,
            peerVars, rangeInflight, cancelAll, closeExiting, panicEnds
<1>1. EachCallInOnePlace' /\ CallerInv'
  BY SamePlaces DEF IndInv
<1>2. CallerType'
  BY DEF IndInv, TypeOK, CallerType
<1>3. LoopType'
  BY DEF IndInv, TypeOK, LoopType
<1>4. ConnType'
  BY DEF IndInv, TypeOK, ConnType, LoopType
<1>5. FlagType'
  BY DEF IndInv, TypeOK, FlagType
<1>6. LoopInv'
  BY DEF IndInv, LoopInv, Exiting
<1>7. PanicInv'
  BY DEF IndInv, PanicInv, LoopInv, Exiting, TypeOK, FlagType
<1> QED
  BY <1>1, <1>2, <1>3, <1>4, <1>5, <1>6, <1>7 DEF IndInv, TypeOK

\* A call of the peer starts a goroutine, or makes the loop panic.
LEMMA HandleCallStep ==
  ASSUME IndInv, LoopFrame, handleCall \/ handleCallNoID
  PROVE  IndInv'
<1> USE DEF LoopFrame, callerVars, replyVars, panicVars, lockVars, readVars, connVars,
            peerVars, endVars, handleCall, handleCallNoID, StartClosing, NextRound
<1>1. EachCallInOnePlace' /\ CallerInv'
  BY SamePlaces DEF IndInv
<1>2. CallerType'
  BY DEF IndInv, TypeOK, CallerType
<1>3. LoopType'
  BY NoFrameType DEF IndInv, TypeOK, LoopType
<1>4. ConnType'
  BY HandlerFacts DEF IndInv, TypeOK, ConnType
<1>5. FlagType'
  BY DEF IndInv, TypeOK, FlagType
<1>6. LoopInv'
  BY HandlerFacts DEF IndInv, LoopInv, Exiting, TypeOK, ConnType
<1>7. PanicInv'
  <2>1. CASE handleCall
    BY <2>1 DEF IndInv, PanicInv, Exiting, TypeOK, FlagType
  <2>2. CASE handleCallNoID
    BY <2>2 DEF IndInv, PanicInv, Exiting
  <2> QED
    BY <2>1, <2>2
<1> QED
  BY <1>1, <1>2, <1>3, <1>4, <1>5, <1>6, <1>7 DEF IndInv, TypeOK

\* A response answers its call: from Pending to Replied.
LEMMA ResponseStep ==
  ASSUME IndInv, LoopFrame, UNCHANGED panicVars, handleResponse
  PROVE  IndInv'
<1> DEFINE i == frame.id
<1> USE DEF LoopFrame, callerVars, panicVars, lockVars, readVars, connVars, peerVars, endVars
<1>0. /\ i \in Ids /\ i \in inflight /\ delivered[i] = 0 /\ ~Exiting /\ ~Exiting'
      /\ toClose = {} /\ frame.body \in Bodies /\ ready[i] = NoReply
  BY DEF IndInv, TypeOK, LoopType, LoopInv, handleResponse, Ignored, Exiting,
         Frames, Bodies, NextRound
<1>1. /\ ready' = [ready EXCEPT ![i] = [id |-> i, body |-> frame.body]]
      /\ delivered' = [delivered EXCEPT ![i] = 1]
      /\ inflight' = inflight \ {i}
      /\ [id |-> i, body |-> frame.body] \in Replies
      /\ UNCHANGED <<idCtr, pc, call, requests, toClose>>
  BY <1>0 DEF handleResponse, Replies, IndInv, TypeOK, CallerType
<1>2. CallerType'
  BY <1>0, <1>1 DEF IndInv, TypeOK, CallerType, handleResponse
<1>3. LoopType' /\ FlagType'
  <2>1. LoopType'
    BY <1>0, <1>1, NoFrameType DEF IndInv, TypeOK, LoopType, handleResponse, NextRound
  <2>2. FlagType'
    BY DEF IndInv, TypeOK, FlagType, handleResponse
  <2> QED
    BY <2>1, <2>2
<1>4. ConnType'
  BY <1>0 DEF IndInv, TypeOK, ConnType, handleResponse, NextRound, Writers, Senders
<1>5. [id |-> i, body |-> frame.body] # NoReply
  BY <1>0 DEF NoReply, Ids, NoID
<1>6. EachCallInOnePlace'
  <2>1. ASSUME NEW j \in Ids
        PROVE  /\ Waiting(j)' = Waiting(j) /\ Queued(j)' = Queued(j)
               /\ Pending(j)' <=> Pending(j) /\ j # i
               /\ Replied(j)' <=> Replied(j) \/ j = i
               /\ delivered'[j] = IF j = i THEN 1 ELSE delivered[j]
    <3>1. Waiting(j)' = Waiting(j) /\ Queued(j)' = Queued(j)
      BY <1>1 DEF Waiting, Queued
    <3>2. /\ delivered'[j] = IF j = i THEN 1 ELSE delivered[j]
          /\ ready'[j] = IF j = i THEN [id |-> i, body |-> frame.body] ELSE ready[j]
      BY <1>0, <1>1 DEF IndInv, TypeOK, CallerType
    <3>3. Pending(j)' <=> Pending(j) /\ j # i
      BY <1>1, <3>2 DEF Pending
    <3>4. Replied(j)' <=> Replied(j) \/ j = i
      BY <1>5, <3>2 DEF Replied
    <3> QED
      BY <3>1, <3>2, <3>3, <3>4
  <2>2. Pending(i) /\ ~Queued(i)
    BY <1>0 DEF IndInv, EachCallInOnePlace, Pending
  <2> HIDE DEF i
  <2>3. \A j \in Ids : Waiting(j)' <=> Queued(j)' \/ Pending(j)' \/ Replied(j)'
    BY <2>1, <2>2 DEF IndInv, EachCallInOnePlace
  <2>4. \A j \in Ids : Queued(j)' => j \notin inflight' /\ delivered'[j] = 0
    BY <1>1, <2>1, <2>2 DEF IndInv, EachCallInOnePlace
  <2>5. \A j \in Ids : Replied(j)' => delivered'[j] = 1
    BY <2>1 DEF IndInv, EachCallInOnePlace
  <2> QED
    BY <1>1, <2>3, <2>4, <2>5 DEF IndInv, EachCallInOnePlace
<1>7. CallerInv'
  BY <1>0, <1>1, <1>5 DEF IndInv, TypeOK, CallerType, CallerInv, Queued, Replied
<1>8. LoopInv'
  <2>1. w'[Loop] = w[Loop]
    <3>1. i # Loop /\ Loop \in Writers
      BY <1>0 DEF Ids, Loop, Writers, Senders
    <3> HIDE DEF i
    <3>2. w' = w \/ w' = [w EXCEPT ![i] = "ctx"]
      BY DEF handleResponse, i
    <3> QED
      BY <3>1, <3>2 DEF IndInv, TypeOK, ConnType
  <2>2. loop = "handle" /\ loop' = "select"
    BY DEF handleResponse, NextRound
  <2> QED
    BY <1>0, <1>1, <2>1, <2>2 DEF IndInv, TypeOK, CallerType, LoopType, LoopInv, Exiting
<1>9. PanicInv'
  <2>1. loop' = "select" /\ panicking' = "no" /\ ~handlingLK'
    BY <1>0 DEF handleResponse, NextRound, IndInv, PanicInv, TypeOK, FlagType
  <2> QED
    BY <2>1 DEF PanicInv
<1> QED
  BY <1>2, <1>3, <1>4, <1>6, <1>7, <1>8, <1>9 DEF IndInv, TypeOK

In(q, x) == \E k \in 1..Len(q) : q[k] = x
Once(q, none) == \A j, k \in 1..Len(q) : q[j] = q[k] /\ q[j] # none => j = k

\* Taking the head off a queue without repetitions (of elements other than
\* none) takes exactly that element out.
LEMMA DequeueFacts ==
  ASSUME NEW S, NEW q \in Seq(S), q # <<>>, NEW none, Once(q, none)
  PROVE  /\ \A x : In(Tail(q), x) => In(q, x)
         /\ \A x : In(q, x) => x = Head(q) \/ In(Tail(q), x)
         /\ In(q, Head(q))
         /\ Head(q) # none => ~In(Tail(q), Head(q))
         /\ Once(Tail(q), none)
<1> DEFINE t == Tail(q)
<1>1. /\ Len(q) \in Nat \ {0} /\ Len(t) = Len(q) - 1 /\ Head(q) = q[1]
      /\ \A k \in 1..(Len(q) - 1) : t[k] = q[k + 1]
  BY TailFacts
<1> HIDE DEF t
<1>2. 1 \in 1..Len(q)
  BY <1>1
<1>3. \A k \in 1..Len(t) : k + 1 \in 1..Len(q) /\ k + 1 # 1 /\ t[k] = q[k + 1]
  BY <1>1
<1>4. \A k \in 1..Len(q) : k # 1 => k - 1 \in 1..Len(t) /\ t[k - 1] = q[k]
  BY <1>1
<1>5. \A j, k \in 1..Len(t) : j + 1 = k + 1 => j = k
  BY <1>1
<1>6. \A x : In(t, x) => In(q, x)
  BY <1>3 DEF In
<1>7. \A x : In(q, x) => x = Head(q) \/ In(t, x)
  BY <1>1, <1>4 DEF In
<1>8. In(q, Head(q))
  BY <1>1, <1>2 DEF In
<1>9. Head(q) # none => ~In(t, Head(q))
  BY <1>1, <1>2, <1>3 DEF In, Once
<1>10. Once(t, none)
  BY <1>3, <1>5 DEF Once
<1> QED
  BY <1>6, <1>7, <1>8, <1>9, <1>10 DEF t

\* A request leaves the buffer: from Queued to Pending.
LEMMA RequestStep ==
  ASSUME IndInv, Request
  PROVE  IndInv'
<1> USE DEF LoopFrame, callerVars, replyVars, lockVars, readVars, connVars, peerVars,
            endVars, Request
<1>0. /\ requests \in Seq(Ids \cup {NoID}) /\ requests # <<>> /\ requests' = Tail(requests)
      /\ \A j, k \in 1..Len(requests) :
           requests[j] = requests[k] /\ requests[j] # NoID => j = k
  BY DEF IndInv, TypeOK, CallerType, EachCallInOnePlace, loopRequest
<1>10. PICK i \in Ids \cup {NoID} : i = Head(requests)
  BY <1>0, TailFacts
<1>1. /\ requests' \in Seq(Ids \cup {NoID})
      /\ Len(requests') = Len(requests) - 1 /\ Len(requests) \in Nat
  BY <1>0, TailFacts
<1>2. CallerType'
  <2>1. Len(requests') <= ReqCap
    <3>1. Len(requests) <= ReqCap
      BY DEF IndInv, TypeOK, CallerType
    <3> QED
      BY <1>1, <3>1, ClientAssumption DEF ClientAssumption
  <2> QED
    BY <1>1, <2>1 DEF IndInv, TypeOK, CallerType, loopRequest
<1>3. LoopType'
  <2>1. i # NoID => [id |-> i, body |-> "value"] \in Frames /\ i \in Ids
    BY DEF Frames, Bodies
  <2>2. \/ /\ toClose' = inflight /\ loop' = "closing" /\ frame' = NoFrame
           /\ panicking' = "nil ID" /\ UNCHANGED <<inflight, closeId>>
        \/ /\ i # NoID /\ inflight' = inflight \cup {i} /\ loop' = "send"
           /\ frame' = [id |-> i, body |-> "value"]
           /\ UNCHANGED <<toClose, closeId, panicking>>
    BY <1>10 DEF loopRequest, StartClosing
  <2>3. LoopType
    BY DEF IndInv, TypeOK
  <2>4. CASE toClose' = inflight /\ loop' = "closing" /\ frame' = NoFrame
             /\ panicking' = "nil ID" /\ UNCHANGED <<inflight, closeId>>
    BY <2>3, <2>4, NoFrameType DEF LoopType
  <2>5. CASE i # NoID /\ inflight' = inflight \cup {i} /\ loop' = "send"
             /\ frame' = [id |-> i, body |-> "value"] /\ UNCHANGED <<toClose, closeId, panicking>>
    BY <2>1, <2>3, <2>5 DEF LoopType
  <2> QED
    BY <2>2, <2>4, <2>5
<1>4. ConnType'
  BY DEF IndInv, TypeOK, ConnType, Writers, Senders, loopRequest
<1>5. FlagType'
  BY DEF IndInv, TypeOK, FlagType, loopRequest
<1>6. loop = "select" /\ UNCHANGED <<idCtr, pc, call, ready, delivered, handlingLK>>
  BY DEF loopRequest
<1>11. panicking = "no" /\ ~handlingLK
  BY <1>6 DEF IndInv, PanicInv, Exiting, TypeOK, FlagType
<1>7. /\ \A j \in Ids : Queued(j)' => Queued(j)
      /\ \A j \in Ids : Queued(j) => j = i \/ Queued(j)'
      /\ i # NoID => ~Queued(i)' /\ Queued(i) /\ i \in Ids
      /\ \A j, k \in 1..Len(requests') :
           requests'[j] = requests'[k] /\ requests'[j] # NoID => j = k
  <2>1. Once(requests, NoID)
    BY <1>0 DEF Once
  <2>2. /\ \A x : In(requests', x) => In(requests, x)
        /\ \A x : In(requests, x) => x = i \/ In(requests', x)
        /\ In(requests, i)
        /\ i # NoID => ~In(requests', i)
        /\ Once(requests', NoID)
    BY <1>0, <1>10, <2>1, DequeueFacts
  <2> QED
    BY <2>2 DEF Queued, In, Once
<1>8. CASE i = NoID
  <2>1. /\ UNCHANGED <<inflight, w>> /\ loop' = "closing" /\ toClose' = inflight
        /\ panicking' = "nil ID"
    BY <1>8, <1>10 DEF loopRequest, StartClosing
  <2>2. \A j \in Ids : Queued(j) <=> Queued(j)'
    <3>1. NoID \notin Ids
      BY DEF Ids, NoID
    <3> QED
      BY <1>7, <1>8, <3>1
  <2>3. EachCallInOnePlace'
    BY <1>6, <1>7, <2>1, <2>2 DEF IndInv, EachCallInOnePlace, Waiting, Pending, Replied
  <2>4. CallerInv'
    BY <1>6, <2>1, <2>2 DEF IndInv, CallerInv, Replied
  <2>5. LoopInv'
    BY <1>6, <2>1 DEF IndInv, LoopInv, Exiting
  <2>6. PanicInv'
    BY <1>6, <1>11, <2>1 DEF PanicInv, Exiting
  <2> QED
    BY <1>2, <1>3, <1>4, <1>5, <2>3, <2>4, <2>5, <2>6 DEF IndInv, TypeOK
<1>9. CASE i # NoID
  <2>1. /\ inflight' = inflight \cup {i} /\ loop' = "send" /\ i \in Ids
        /\ UNCHANGED <<toClose, panicking>>
    BY <1>7, <1>9, <1>10 DEF loopRequest
  <2>2. i \notin inflight /\ delivered[i] = 0 /\ Queued(i)
    BY <1>7, <1>9 DEF IndInv, EachCallInOnePlace
  <2>3. EachCallInOnePlace'
    <3>1. \A j \in Ids : Queued(j)' <=> Queued(j) /\ j # i
      BY <1>7, <1>9
    <3>2. \A j \in Ids : Waiting(j)' <=> Waiting(j)
      BY <1>6 DEF Waiting
    <3>3. \A j \in Ids : Pending(j)' <=> Pending(j) \/ j = i
      BY <1>6, <2>1, <2>2 DEF Pending
    <3>4. \A j \in Ids : Replied(j)' <=> Replied(j)
      BY <1>6 DEF Replied
    <3>5. \A j \in Ids : Queued(j)' => j \notin inflight' /\ delivered'[j] = 0
      BY <1>6, <2>1, <3>1 DEF IndInv, EachCallInOnePlace
    <3> QED
      BY <1>6, <1>7, <2>2, <3>1, <3>2, <3>3, <3>4, <3>5 DEF IndInv, EachCallInOnePlace
  <2>4. CallerInv'
    BY <1>6, <1>7, <1>9, <2>1, <2>2 DEF IndInv, CallerInv, Replied
  <2>5. LoopInv'
    BY <1>6, <2>1, <2>2 DEF IndInv, LoopInv, Exiting
  <2>6. PanicInv'
    BY <1>6, <1>11, <2>1 DEF PanicInv, Exiting
  <2> QED
    BY <1>2, <1>3, <1>4, <1>5, <2>3, <2>4, <2>5, <2>6 DEF IndInv, TypeOK
<1> QED
  BY <1>8, <1>9

\* The deferred loop tells one call: from Pending to Replied.
LEMMA CloseInflightStep ==
  ASSUME IndInv, LoopFrame, UNCHANGED panicVars, closeInflight
  PROVE  IndInv'
<1> USE DEF LoopFrame, callerVars, panicVars, lockVars, readVars, connVars, peerVars, endVars
<1>1. PICK i \in toClose :
        /\ loop = "tell" /\ loop' = "cancelAll" /\ ready[i] = NoReply
        /\ ready' = [ready EXCEPT ![i] = [id |-> i, body |-> "closed"]]
        /\ delivered' = [delivered EXCEPT ![i] = @ + 1]
        /\ toClose' = toClose \ {i}
        /\ UNCHANGED <<idCtr, pc, call, requests, inflight, closeId, frame, w, writeLK,
                       reader, held, conn, exiting, crashed>>
  BY DEF closeInflight, IndInv, PanicInv
<1>2. i \in inflight /\ i \in Ids /\ delivered[i] = 0 /\ Exiting
  BY <1>1 DEF IndInv, TypeOK, LoopType, LoopInv, Exiting
<1>3. [id |-> i, body |-> "closed"] \in Replies /\ [id |-> i, body |-> "closed"] # NoReply
  BY <1>2 DEF Replies, NoReply, Ids, NoID
<1>4. delivered' = [delivered EXCEPT ![i] = 1]
  BY <1>1, <1>2
<1>5. CallerType'
  BY <1>1, <1>2, <1>3, <1>4 DEF IndInv, TypeOK, CallerType
<1>6. LoopType' /\ ConnType'
  BY <1>1, <1>2 DEF IndInv, TypeOK, LoopType, ConnType
<1>7. FlagType'
  BY <1>1 DEF IndInv, TypeOK, FlagType
<1>12. \A j \in Ids : /\ delivered'[j] = IF j = i THEN 1 ELSE delivered[j]
                      /\ ready'[j] = IF j = i THEN [id |-> i, body |-> "closed"] ELSE ready[j]
  BY <1>1, <1>2, <1>4 DEF IndInv, TypeOK, CallerType
<1>8. EachCallInOnePlace'
  <2>1. \A j \in Ids : Waiting(j)' = Waiting(j) /\ Queued(j)' = Queued(j)
    BY <1>1 DEF Waiting, Queued
  <2>2. \A j \in Ids : /\ Pending(j)' <=> Pending(j) /\ j # i
                       /\ Replied(j)' <=> Replied(j) \/ j = i
    BY <1>1, <1>3, <1>12 DEF Pending, Replied
  <2>3. Pending(i) /\ ~Queued(i)
    BY <1>2 DEF IndInv, EachCallInOnePlace, Pending
  <2>4. \A j \in Ids : Waiting(j)' <=> Queued(j)' \/ Pending(j)' \/ Replied(j)'
    BY <1>2, <2>1, <2>2, <2>3 DEF IndInv, EachCallInOnePlace
  <2>5. \A j \in Ids : Queued(j)' => j \notin inflight' /\ delivered'[j] = 0
    BY <1>1, <1>12, <2>1, <2>3 DEF IndInv, EachCallInOnePlace
  <2>6. \A j \in Ids : Replied(j)' => delivered'[j] = 1
    BY <1>12, <2>2 DEF IndInv, EachCallInOnePlace
  <2> QED
    BY <1>1, <2>4, <2>5, <2>6 DEF IndInv, EachCallInOnePlace
<1>9. CallerInv'
  BY <1>1, <1>2, <1>3, <1>4 DEF IndInv, TypeOK, CallerType, CallerInv, Queued, Replied
<1>10. LoopInv'
  <2>1. toClose = {j \in inflight : delivered[j] = 0} /\ inflight \subseteq Ids
    BY <1>2 DEF IndInv, TypeOK, LoopType, LoopInv
  <2>2. toClose' = {j \in inflight' : delivered'[j] = 0}
    BY <1>1, <1>12, <2>1
  <2>3. w[Loop] # "none" => loop \in {"send", "stop"}
    BY DEF IndInv, LoopInv
  <2> QED
    BY <1>1, <2>2, <2>3 DEF LoopInv, Exiting
<1>11. PanicInv'
  BY <1>1 DEF IndInv, PanicInv, Exiting
<1> QED
  BY <1>5, <1>6, <1>7, <1>8, <1>9, <1>10, <1>11 DEF IndInv, TypeOK

-----------------------------------------------------------------------------
(* The callers.                                                            *)

\* What a caller's step leaves alone keeps its type and the loop's invariant.
LEMMA CallerKeepsRest ==
  ASSUME IndInv, CallerFrame
  PROVE  LoopType' /\ ConnType' /\ FlagType' /\ LoopInv' /\ PanicInv'
<1> USE DEF CallerFrame, loopVars, panicVars, lockVars, readVars, connVars, peerVars, endVars
<1>1. LoopType' /\ ConnType'
  <2>1. LoopType'
    BY DEF IndInv, TypeOK, LoopType
  <2>2. ConnType'
    BY DEF IndInv, TypeOK, ConnType
  <2> QED
    BY <2>1, <2>2
<1>2. FlagType'
  BY DEF IndInv, TypeOK, FlagType
<1>3. LoopInv' /\ PanicInv'
  BY SamePanic DEF IndInv, LoopInv, Exiting
<1> QED
  BY <1>1, <1>2, <1>3

\* A new id: nothing is known of it anywhere.
LEMMA BeginStep ==
  ASSUME IndInv, NEW c \in Callers, Begin(c)
  PROVE  IndInv'
<1> USE DEF Begin, CallerFrame, loopVars
<1>1. /\ pc[c] = "idle" /\ idCtr < MaxCalls /\ idCtr' = idCtr + 1
      /\ call' = [call EXCEPT ![c] = idCtr']
      /\ pc' = [pc EXCEPT ![c] = "enqueue"]
      /\ UNCHANGED <<requests, inflight, ready, delivered, nilDone, ctxDone, outcome>>
      /\ retCh' = retCh \/ retCh' = retCh \cup {idCtr'}
  BY DEF handleRpcCall
<1>2. idCtr \in Nat /\ idCtr' \in Ids /\ idCtr' > idCtr /\ idCtr' \in 0..MaxCalls
  BY <1>1, ClientAssumption DEF IndInv, TypeOK, CallerType, ClientAssumption, Ids
<1>3. CallerType'
  BY <1>1, <1>2 DEF IndInv, TypeOK, CallerType
<1>4. call[c] = NoID /\ \A d \in Callers : call[d] <= idCtr /\ call[d] # idCtr'
  <2>1. \A d \in Callers : call[d] <= idCtr /\ call[d] \in Nat
    BY DEF IndInv, CallerInv, TypeOK, CallerType, Ids, NoID
  <2> QED
    BY <1>1, <1>2, <2>1 DEF IndInv, CallerInv
<1>5. \A i \in Ids : Waiting(i)' <=> Waiting(i)
  BY <1>1, <1>4 DEF IndInv, TypeOK, CallerType, Waiting, Ids, NoID
<1>6. EachCallInOnePlace'
  BY <1>1, <1>5 DEF IndInv, EachCallInOnePlace, Queued, Pending, Replied
<1>7. CallerInv'
  <2>1. \A d \in Callers : (pc'[d] = "idle" <=> call'[d] = NoID) /\ call'[d] <= idCtr'
    <3>1. idCtr' # NoID
      BY <1>2 DEF NoID
    <3>2. \A d \in Callers : call[d] <= idCtr'
      BY <1>1, <1>2, <1>4 DEF IndInv, TypeOK, CallerType, Ids, NoID
    <3> QED
      BY <1>1, <1>2, <3>1, <3>2 DEF IndInv, CallerInv, TypeOK, CallerType
  <2>2. \A d, e \in Callers : call'[d] = call'[e] /\ call'[d] # NoID => d = e
    BY <1>1, <1>4 DEF IndInv, CallerInv, TypeOK, CallerType
  <2>3. ASSUME NEW i \in Ids,
               i > idCtr' \/ \E d \in Callers : call'[d] = i /\ pc'[d] = "enqueue"
        PROVE  i > idCtr \/ \E d \in Callers : call[d] = i /\ pc[d] = "enqueue"
    BY <1>1, <1>2, <2>3 DEF IndInv, TypeOK, CallerType, Ids
  <2>4. \A i \in Ids : i > idCtr' \/ (\E d \in Callers : call'[d] = i /\ pc'[d] = "enqueue")
          => ~Queued(i)' /\ i \notin inflight' /\ ~Replied(i)' /\ delivered'[i] = 0
    BY <1>1, <2>3 DEF IndInv, CallerInv, Queued, Replied
  <2> QED
    BY <2>1, <2>2, <2>4 DEF CallerInv
<1> QED
  BY <1>1, <1>3, <1>6, <1>7, CallerKeepsRest DEF IndInv, TypeOK

\* The request enters the buffer: Queued.
LEMMA EnqueueStep ==
  ASSUME IndInv, NEW c \in Callers, sendRequest(c), CallerFrame
  PROVE  IndInv'
<1> USE DEF CallerFrame, loopVars
<1>1. /\ pc[c] = "enqueue" /\ Len(requests) < ReqCap
      /\ requests' = Append(requests, call[c])
      /\ pc' = [pc EXCEPT ![c] = "wait"]
      /\ UNCHANGED <<idCtr, call, inflight, ready, delivered, nilDone, ctxDone, retCh,
                     outcome>>
  BY DEF sendRequest
<1>2. PICK i \in Ids : i = call[c]
  BY <1>1 DEF IndInv, TypeOK, CallerType, CallerInv
<1>3. ~Queued(i) /\ i \notin inflight /\ ~Replied(i) /\ delivered[i] = 0 /\ i # NoID
  BY <1>1, <1>2 DEF IndInv, CallerInv, Ids, NoID
<1>4. /\ requests' \in Seq(Ids \cup {NoID}) /\ Len(requests) \in Nat
      /\ Len(requests') = Len(requests) + 1
      /\ \A k \in 1..Len(requests) : requests'[k] = requests[k]
      /\ requests'[Len(requests) + 1] = i
  BY <1>1, <1>2, AppendFacts DEF IndInv, TypeOK, CallerType
<1>5. CallerType'
  <2>1. Len(requests') <= ReqCap
    BY <1>1, <1>4, ClientAssumption DEF ClientAssumption
  <2> QED
    BY <1>1, <1>4, <2>1 DEF IndInv, TypeOK, CallerType
<1>6. /\ \A k \in 1..Len(requests') : k \in 1..Len(requests) \/ k = Len(requests) + 1
      /\ \A k \in 1..Len(requests) : k \in 1..Len(requests')
      /\ Len(requests) + 1 \in 1..Len(requests')
  BY <1>4
<1>7. \A j \in Ids : Queued(j)' <=> Queued(j) \/ j = i
  BY <1>4, <1>6 DEF Queued
<1>8. \A j, k \in 1..Len(requests') :
        requests'[j] = requests'[k] /\ requests'[j] # NoID => j = k
  BY <1>3, <1>4, <1>6 DEF IndInv, EachCallInOnePlace, Queued
<1>9. \A j \in Ids : Waiting(j)' <=> Waiting(j) \/ j = i
  BY <1>1, <1>2 DEF IndInv, TypeOK, CallerType, CallerInv, Waiting
<1>10. EachCallInOnePlace'
  <2>1. \A j \in Ids : Waiting(j)' <=> Queued(j)' \/ Pending(j)' \/ Replied(j)'
    BY <1>1, <1>3, <1>7, <1>9 DEF IndInv, EachCallInOnePlace, Pending, Replied
  <2> QED
    BY <1>1, <1>3, <1>7, <1>8, <2>1 DEF IndInv, EachCallInOnePlace, Replied
<1>11. CallerInv'
  <2>1. \A j \in Ids : j > idCtr \/ (\E d \in Callers : call[d] = j /\ pc'[d] = "enqueue")
          => j # i
    BY <1>1, <1>2 DEF IndInv, TypeOK, CallerType, CallerInv, Ids, NoID
  <2>2. \A j \in Ids : j > idCtr \/ (\E d \in Callers : call[d] = j /\ pc'[d] = "enqueue")
          => ~Queued(j) /\ j \notin inflight /\ ~Replied(j) /\ delivered[j] = 0
    BY <1>1 DEF IndInv, TypeOK, CallerType, CallerInv
  <2>3. \A d \in Callers : pc'[d] = "idle" <=> call[d] = NoID
    BY <1>1, <1>2, <1>3 DEF IndInv, TypeOK, CallerType, CallerInv
  <2> QED
    BY <1>1, <1>7, <2>1, <2>2, <2>3 DEF IndInv, CallerInv, Replied
<1> QED
  BY <1>1, <1>5, <1>10, <1>11, CallerKeepsRest DEF IndInv, TypeOK

\* The select takes `exiting`: the call was nowhere, and stays so.
LEMMA RefusedStep ==
  ASSUME IndInv, NEW c \in Callers, sendRequestExiting(c), CallerFrame
  PROVE  IndInv'
<1> USE DEF CallerFrame, loopVars
<1>1. /\ pc[c] = "enqueue"
      /\ pc' = [pc EXCEPT ![c] = "idle"] /\ call' = [call EXCEPT ![c] = NoID]
      /\ outcome' = [outcome EXCEPT ![call[c]] = "exiting"]
      /\ UNCHANGED <<idCtr, requests, inflight, ready, delivered, nilDone, ctxDone, retCh>>
  BY DEF sendRequestExiting, Return
<1>2. PICK i \in Ids : i = call[c]
  BY <1>1 DEF IndInv, TypeOK, CallerType, CallerInv
<1>3. CallerType'
  BY <1>1, <1>2 DEF IndInv, TypeOK, CallerType, Outcomes, Swallowed
<1>4. \A j \in Ids : Waiting(j)' <=> Waiting(j)
  BY <1>1 DEF IndInv, TypeOK, CallerType, Waiting
<1>5. EachCallInOnePlace'
  BY <1>1, <1>4 DEF IndInv, EachCallInOnePlace, Queued, Pending, Replied
<1>6. CallerInv'
  <2>1. \A d \in Callers : (pc'[d] = "idle" <=> call'[d] = NoID) /\ call'[d] <= idCtr
    BY <1>1 DEF IndInv, TypeOK, CallerType, CallerInv, NoID
  <2>2. \A d, e \in Callers : call'[d] = call'[e] /\ call'[d] # NoID => d = e
    BY <1>1 DEF IndInv, TypeOK, CallerType, CallerInv
  <2>3. \A j \in Ids : (\E d \in Callers : call'[d] = j /\ pc'[d] = "enqueue")
          => \E d \in Callers : call[d] = j /\ pc[d] = "enqueue"
    BY <1>1 DEF IndInv, TypeOK, CallerType, Ids, NoID
  <2> QED
    BY <1>1, <2>1, <2>2, <2>3 DEF IndInv, CallerInv, Queued, Replied
<1> QED
  BY <1>1, <1>3, <1>5, <1>6, CallerKeepsRest DEF IndInv, TypeOK

\* The caller takes its reply and returns: Replied, and then nowhere.
LEMMA ReceiveStep ==
  ASSUME IndInv, NEW c \in Callers, receive(c), CallerFrame
  PROVE  IndInv'
<1> USE DEF CallerFrame, loopVars
<1>1. PICK i \in Ids : i = call[c]
  BY DEF IndInv, TypeOK, CallerType, CallerInv, receive
<1>2. PICK seen \in SeenID(ready[i]) :
        /\ pc[c] = "wait" /\ ready[i] # NoReply
        /\ pc' = [pc EXCEPT ![c] = "idle"] /\ call' = [call EXCEPT ![c] = NoID]
        /\ outcome' = [outcome EXCEPT ![i] = OutcomeOf(i, ready[i], seen)]
        /\ ready' = [ready EXCEPT ![i] = NoReply]
        /\ UNCHANGED <<idCtr, requests, inflight, delivered, nilDone, ctxDone, retCh>>
  BY <1>1 DEF receive, Return
<1>3. OutcomeOf(i, ready[i], seen) \in Outcomes
  <2>1. ready[i].body \in Bodies \cup {"closed"}
    BY <1>2 DEF IndInv, TypeOK, CallerType, Replies
  <2> QED
    BY <2>1 DEF OutcomeOf, Outcomes, Swallowed, Bodies
<1>4. CallerType'
  BY <1>2, <1>3 DEF IndInv, TypeOK, CallerType
<1>5. ~Queued(i) /\ ~Pending(i) /\ delivered[i] = 1
  BY <1>2 DEF IndInv, EachCallInOnePlace, Replied, Pending
<1>6. \A j \in Ids : Waiting(j)' <=> Waiting(j) /\ j # i
  BY <1>1, <1>2 DEF IndInv, TypeOK, CallerType, CallerInv, Waiting, Ids, NoID
<1>7. \A j \in Ids : Replied(j)' <=> Replied(j) /\ j # i
  BY <1>2 DEF IndInv, TypeOK, CallerType, Replied
<1>8. EachCallInOnePlace'
  <2>1. \A j \in Ids : (Queued(j)' <=> Queued(j)) /\ (Pending(j)' <=> Pending(j))
    BY <1>2 DEF Queued, Pending
  <2>2. \A j \in Ids : Waiting(j)' <=> Queued(j)' \/ Pending(j)' \/ Replied(j)'
    BY <1>5, <1>6, <1>7, <2>1 DEF IndInv, EachCallInOnePlace
  <2> QED
    BY <1>2, <1>7, <2>1, <2>2 DEF IndInv, EachCallInOnePlace
<1>9. CallerInv'
  <2>1. \A d \in Callers : (pc'[d] = "idle" <=> call'[d] = NoID) /\ call'[d] <= idCtr
    BY <1>2 DEF IndInv, TypeOK, CallerType, CallerInv, NoID
  <2>2. \A d, e \in Callers : call'[d] = call'[e] /\ call'[d] # NoID => d = e
    BY <1>2 DEF IndInv, TypeOK, CallerType, CallerInv
  <2>3. \A j \in Ids : (\E d \in Callers : call'[d] = j /\ pc'[d] = "enqueue")
          => \E d \in Callers : call[d] = j /\ pc[d] = "enqueue"
    BY <1>2 DEF IndInv, TypeOK, CallerType, Ids, NoID
  <2> QED
    BY <1>2, <1>7, <2>1, <2>2, <2>3 DEF IndInv, CallerInv, Queued
<1> QED
  BY <1>4, <1>8, <1>9, CallerKeepsRest DEF IndInv, TypeOK

\* A caller that sees its context done, or queues a cancel request, still waits.
LEMMA CancelStep ==
  ASSUME IndInv, NEW c \in Callers, ctxDoneSeen(c) \/ sendCancel(c), CallerFrame
  PROVE  IndInv'
<1> USE DEF CallerFrame, loopVars
<1>1. /\ pc[c] \in {"wait", "cancel"}
      /\ pc' = [pc EXCEPT ![c] = "cancel"] \/ pc' = [pc EXCEPT ![c] = "wait"]
      /\ UNCHANGED <<idCtr, call, inflight, ready, delivered, ctxDone, retCh, outcome>>
      /\ UNCHANGED requests \/ (Len(requests) < ReqCap /\ requests' = Append(requests, NoID))
  BY DEF ctxDoneSeen, sendCancel
<1>2. call[c] \in Ids /\ nilDone' \subseteq Ids
  BY <1>1 DEF IndInv, TypeOK, CallerType, CallerInv, ctxDoneSeen, sendCancel
<1>3. /\ requests' \in Seq(Ids \cup {NoID}) /\ Len(requests') <= ReqCap
      /\ \A j \in Ids : Queued(j)' <=> Queued(j)
      /\ \A j, k \in 1..Len(requests') :
           requests'[j] = requests'[k] /\ requests'[j] # NoID => j = k
  <2>1. CASE UNCHANGED requests
    BY <2>1 DEF IndInv, TypeOK, CallerType, EachCallInOnePlace, Queued
  <2>2. CASE Len(requests) < ReqCap /\ requests' = Append(requests, NoID)
    <3>1. /\ requests' \in Seq(Ids \cup {NoID}) /\ Len(requests) \in Nat
          /\ Len(requests') = Len(requests) + 1
          /\ \A k \in 1..Len(requests) : requests'[k] = requests[k]
          /\ requests'[Len(requests) + 1] = NoID
      BY <2>2, AppendFacts DEF IndInv, TypeOK, CallerType
    <3>2. Len(requests') <= ReqCap
      BY <2>2, <3>1, ClientAssumption DEF ClientAssumption
    <3>3. /\ \A k \in 1..Len(requests') : k \in 1..Len(requests) \/ k = Len(requests) + 1
          /\ \A k \in 1..Len(requests) : k \in 1..Len(requests')
      BY <3>1
    <3>4. NoID \notin Ids
      BY DEF NoID, Ids
    <3>5. \A j \in Ids : Queued(j)' <=> Queued(j)
      BY <3>1, <3>3, <3>4 DEF Queued
    <3>6. \A j, k \in 1..Len(requests') :
            requests'[j] = requests'[k] /\ requests'[j] # NoID => j = k
      BY <3>1, <3>3 DEF IndInv, EachCallInOnePlace
    <3> QED
      BY <3>1, <3>2, <3>5, <3>6
  <2> QED
    BY <1>1, <2>1, <2>2
<1>4. CallerType'
  BY <1>1, <1>2, <1>3 DEF IndInv, TypeOK, CallerType
<1>5. \A j \in Ids : Waiting(j)' <=> Waiting(j)
  BY <1>1 DEF IndInv, TypeOK, CallerType, Waiting
<1>6. EachCallInOnePlace'
  BY <1>1, <1>3, <1>5 DEF IndInv, EachCallInOnePlace, Pending, Replied
<1>7. CallerInv'
  <2>1. \A d \in Callers : pc'[d] = "idle" <=> call[d] = NoID
    BY <1>1 DEF IndInv, TypeOK, CallerType, CallerInv
  <2>2. \A d \in Callers : pc'[d] = "enqueue" => pc[d] = "enqueue"
    BY <1>1 DEF IndInv, TypeOK, CallerType
  <2> QED
    BY <1>1, <1>3, <2>1, <2>2 DEF IndInv, CallerInv, Replied
<1> QED
  BY <1>4, <1>6, <1>7, CallerKeepsRest DEF IndInv, TypeOK

-----------------------------------------------------------------------------
(* The theorems.                                                           *)

\* Every step of the client, and stuttering, keeps the inductive invariant.
LEMMA ClientStep == IndInv /\ [Next]_vars => IndInv'
<1> SUFFICES ASSUME IndInv, [Next]_vars PROVE IndInv'
  OBVIOUS
<1>1. CASE UNCHANGED vars
  <2> USE DEF vars, callerVars, replyVars, loopVars, panicVars, lockVars, readVars,
              connVars, peerVars, endVars
  <2>1. CallerType'
    BY <1>1 DEF IndInv, TypeOK, CallerType
  <2>5. LoopType'
    BY <1>1 DEF IndInv, TypeOK, LoopType
  <2>6. ConnType'
    BY <1>1 DEF IndInv, TypeOK, ConnType
  <2>2. FlagType'
    BY <1>1 DEF IndInv, TypeOK, FlagType
  <2>3. EachCallInOnePlace' /\ CallerInv'
    BY <1>1, SamePlaces DEF IndInv
  <2>4. LoopInv' /\ PanicInv'
    BY <1>1, SamePanic DEF IndInv, LoopInv, Exiting
  <2> QED
    BY <2>1, <2>2, <2>3, <2>4, <2>5, <2>6 DEF IndInv, TypeOK
<1>2. ASSUME NEW c \in Callers, Begin(c) \/ Continue(c) PROVE IndInv'
  BY <1>2, BeginStep, EnqueueStep, RefusedStep, ReceiveStep, CancelStep DEF Continue
<1>3. CASE Incoming \/ Handle \/ Stop \/ Exit
  BY <1>3, QuietLoopStep, DeferredStep, ResponseStep, HandleCallStep, CloseInflightStep
     DEF Incoming, Handle, Stop, Exit
<1> QED
  BY <1>1, <1>2, <1>3, WriterStep, AnswerStep, AsyncStep, RequestStep, ReaderStep,
     EnvStep DEF Next, Writers

\* The inductive invariant is one: it holds in every state of the client.
THEOREM ClientInvariant == Spec => []IndInv
BY ClientStep, InitInd, PTL DEF Spec

\* Type correctness of the client.
THEOREM ClientTypeCorrect == Spec => []TypeOK
BY ClientInvariant, PTL DEF IndInv

\* Every waiting call is in exactly one place.
THEOREM ClientPlaces == Spec => []EachCallInOnePlace
BY ClientInvariant, PTL DEF IndInv

\* The loop never blocks on the reply channel of a call.
THEOREM ClientLoopNeverBlocks == Spec => []LoopNeverBlocks
<1>1. IndInv => LoopNeverBlocks
  <2> SUFFICES ASSUME IndInv PROVE LoopNeverBlocks
    OBVIOUS
  <2>1. toClose \subseteq inflight /\ inflight \subseteq Ids
    BY DEF IndInv, TypeOK, LoopType
  <2>2. \A i \in Ids : delivered[i] = 0 => ready[i] = NoReply
    BY DEF IndInv, EachCallInOnePlace, Replied
  <2>3. /\ \A i \in inflight : ~Exiting => delivered[i] = 0
        /\ \A i \in toClose : delivered[i] = 0
    BY DEF IndInv, LoopInv
  <2> QED
    BY <2>1, <2>2, <2>3 DEF LoopNeverBlocks
<1> QED
  BY <1>1, ClientInvariant, PTL

\* After the exit of the loop, only calls left in the buffer wait in vain.
THEOREM ClientLosesOnlyQueued == Spec => []OnlyQueuedCallsAreLost
<1>1. IndInv => OnlyQueuedCallsAreLost
  BY DEF IndInv, LoopInv, OnlyQueuedCallsAreLost, EachCallInOnePlace, Replied, Pending,
         Exiting
<1> QED
  BY <1>1, ClientInvariant, PTL

-----------------------------------------------------------------------------
(* The writer lock. A writer that holds it must not be restarted: the      *)
(* handleCtxAsync of a call starts with its reply, of which there is one;  *)
(* the loop writes one thing at a time; and so does the goroutine of the   *)
(* peer's call, the bound of peerCalls.                                    *)

\* Only a failed write leads to the second Unlock.
LockInv == LockHeldByOneWriter /\ \A p \in Writers : w[p] = "unlock" => writeErr

\* handleCtxAsync runs for calls that have their reply.
AsyncInv == \A i \in Ids : w[i] # "none" => delivered[i] = 1

\* At most one call of the peer is on its way, at hand or being answered.
Coming == \E k \in 1..Len(fromPeer) : fromPeer[k].body = "call"
OneCall ==
  /\ \A j, k \in 1..Len(fromPeer) :
       fromPeer[j].body = "call" /\ fromPeer[k].body = "call" => j = k
  /\ Coming => held.body # "call"
  /\ Coming \/ held.body = "call" => frame.body # "call"
  /\ Coming \/ held.body = "call" \/ frame.body = "call" => w[Handler] = "none"

\* The types that the lock's proofs need.
LEMMA LockTypes ==
  ASSUME IndInv
  PROVE  /\ w \in [Writers -> {"none", "ctx", "lock", "write", "unlock", "done"}]
         /\ writeLK \in BOOLEAN /\ writeErr \in BOOLEAN
         /\ Ids \subseteq Writers /\ Loop \in Writers /\ Handler \in Writers
         /\ Loop \notin Ids /\ Handler \notin Ids /\ Loop # Handler
<1>1. writeLK \in BOOLEAN /\ writeErr \in BOOLEAN
  BY DEF IndInv, TypeOK, FlagType
<1>2. /\ Ids \subseteq Writers /\ Loop \in Writers /\ Handler \in Writers
      /\ Loop \notin Ids /\ Handler \notin Ids /\ Loop # Handler
  BY ClientAssumption DEF ClientAssumption, Writers, Senders, Ids, Loop, Handler
<1> QED
  BY <1>1, <1>2 DEF IndInv, TypeOK, ConnType

\* A writer starts to wait, or nothing happens.
LEMMA LockKept ==
  ASSUME IndInv, LockInv, NEW p \in Writers, NEW s \in {"none", "ctx", "lock"}, w[p] # "write",
         w' = w \/ w' = [w EXCEPT ![p] = s], UNCHANGED <<writeLK, writeErr>>,
         crashed' = crashed \/ crashed' # "unlock of unlocked mutex"
  PROVE  LockInv'
<1>1. /\ \A q \in Writers : (w'[q] = "write" <=> w[q] = "write") /\ (w'[q] = "unlock" => w[q] = "unlock")
      /\ writeErr \in BOOLEAN /\ writeLK \in BOOLEAN
  BY LockTypes
<1> QED
  BY <1>1 DEF LockInv, LockHeldByOneWriter

\* The lock is taken when it is free.
LEMMA LockTaken ==
  ASSUME IndInv, LockInv, NEW p \in Writers, Acquire(p)
  PROVE  LockInv'
<1>1. /\ w[p] = "lock" /\ ~writeLK /\ writeLK' = TRUE /\ w' = [w EXCEPT ![p] = "write"]
      /\ UNCHANGED <<writeErr, crashed>>
  BY DEF Acquire, Lock
<1>2. /\ \A q \in Writers : w'[q] = "write" <=> w[q] = "write" \/ q = p
      /\ \A q \in Writers : w'[q] = "unlock" => w[q] = "unlock"
      /\ writeErr \in BOOLEAN
  BY <1>1, LockTypes
<1>3. CASE writeErr
  BY <1>1, <1>2, <1>3 DEF LockInv, LockHeldByOneWriter
<1>4. CASE ~writeErr
  BY <1>1, <1>2, <1>4 DEF LockInv, LockHeldByOneWriter
<1> QED
  BY <1>3, <1>4

\* It is given back by the one who has it; a second Unlock needs a failed write.
LEMMA LockReleased ==
  ASSUME IndInv, LockInv, NEW p \in Writers, NEW s \in {"none", "unlock", "done"},
         w' = [w EXCEPT ![p] = s], Unlock, writeErr' = TRUE \/ writeErr' = writeErr,
         w[p] = "write" \/ w[p] = "unlock", s = "unlock" => writeErr' = TRUE
  PROVE  LockInv'
<1>1. /\ \A q \in Writers : w'[q] = "write" => w[q] = "write" /\ q # p
      /\ \A q \in Writers : w'[q] = "unlock" => w[q] = "unlock" \/ (q = p /\ s = "unlock")
      /\ writeErr \in BOOLEAN /\ writeLK \in BOOLEAN
  BY LockTypes
<1>2. CASE writeErr'
  BY <1>1, <1>2 DEF LockInv, LockHeldByOneWriter
<1>3. CASE ~writeErr'
  <2>1. ~writeErr /\ w[p] = "write"
    BY <1>1, <1>3 DEF LockInv
  <2>2. /\ writeLK /\ crashed # "unlock of unlocked mutex"
        /\ \A q \in Writers : w[q] = "write" => q = p
    BY <2>1 DEF LockInv, LockHeldByOneWriter
  <2>3. writeLK' = FALSE /\ crashed' = crashed /\ \A q \in Writers : w'[q] # "write"
    BY <1>1, <2>2 DEF Unlock
  <2>4. \A q \in Writers : w'[q] = "unlock" => writeErr'
    BY <1>1, <1>3, <2>1 DEF LockInv
  <2> QED
    BY <2>2, <2>3, <2>4 DEF LockInv, LockHeldByOneWriter
<1> QED
  BY <1>2, <1>3

\* Everybody else's steps.
LEMMA LockStep ==
  ASSUME IndInv, LockInv, AsyncInv, OneCall, Next
  PROVE  LockInv'
<1> USE DEF lockVars, connVars
<1>0. Loop \in Writers /\ Handler \in Writers /\ Ids \subseteq Writers /\ Senders \subseteq Writers
  BY LockTypes DEF Writers
<1>1. ASSUME UNCHANGED <<w, writeLK, writeErr, crashed>> PROVE LockInv'
  <2>1. writeErr \in BOOLEAN /\ writeLK \in BOOLEAN
    BY LockTypes
  <2> QED
    BY <1>1, <2>1 DEF LockInv, LockHeldByOneWriter
<1>2. CASE \E c \in Callers : Begin(c) \/ Continue(c)
  BY <1>1, <1>2 DEF Begin, Continue, CallerFrame
<1>3. CASE \E p \in Writers : Acquire(p)
  BY <1>3, LockTaken
<1>4. ASSUME NEW p \in Senders, Write(p) PROVE LockInv'
  BY <1>0, <1>4, LockReleased DEF Write, WriteOK, WriteFail, UnlockAgain, EndSend, LockInv
<1>5. ASSUME NEW i \in Ids, AsyncCancel(i) PROVE LockInv'
  BY <1>0, <1>5, LockKept DEF AsyncCancel, handleCtxAsync
<1>6. CASE Answer
  <2>1. CASE nextWriter
    BY <1>0, <2>1, LockReleased DEF nextWriter
  <2>2. CASE done
    BY <1>0, <2>2, LockKept DEF done
  <2> QED
    BY <1>6, <2>1, <2>2 DEF Answer
<1>7. CASE Incoming
  BY <1>1, <1>7 DEF Incoming, loopIncoming, loopIncomingClosed, LoopFrame
<1>8. CASE Handle
  <2>1. CASE decodeError \/ handleResponseIgnored
    BY <1>1, <1>8, <2>1 DEF Handle, decodeError, handleResponseIgnored, LoopFrame
  <2>2. CASE handleResponse
    <3>1. PICK i \in Ids : i = frame.id /\ delivered[i] = 0
      BY <2>2 DEF IndInv, TypeOK, LoopType, LoopInv, handleResponse, Ignored, Exiting
    <3>2. /\ w' = w \/ w' = [w EXCEPT ![i] = "ctx"]
          /\ UNCHANGED <<writeLK, writeErr, crashed>>
      BY <1>8, <2>2, <3>1 DEF Handle, handleResponse, LoopFrame
    <3>3. w[i] = "none"
      BY <3>1 DEF AsyncInv
    <3> QED
      BY <1>0, <3>2, <3>3, LockKept
  <2>3. CASE handleCall
    <3>1. frame.body = "call" /\ w' = [w EXCEPT ![Handler] = "lock"] /\ UNCHANGED <<writeLK, writeErr, crashed>>
      BY <1>8, <2>3 DEF Handle, handleCall, LoopFrame
    <3>2. w[Handler] = "none"
      BY <3>1 DEF OneCall
    <3> QED
      BY <1>0, <3>1, <3>2, LockKept
  <2>4. CASE handleCallNoID
    BY <1>1, <1>8, <2>4 DEF Handle, handleCallNoID, LoopFrame
  <2> QED
    BY <1>8, <2>1, <2>2, <2>3, <2>4 DEF Handle
<1>9. CASE Request \/ Stop
  <2>1. /\ loop = "select" /\ (w' = w \/ w' = [w EXCEPT ![Loop] = "lock"])
        /\ UNCHANGED <<writeLK, writeErr, crashed>>
    BY <1>9 DEF Request, Stop, loopRequest, loopStop, LoopFrame
  <2>2. w[Loop] = "none"
    BY <2>1 DEF IndInv, LoopInv
  <2> QED
    BY <1>0, <2>1, <2>2, LockKept
<1>10. CASE Exit
  <2>1. CASE writeClose
    BY <1>0, <1>10, <2>1, LockReleased DEF Exit, writeClose, LoopFrame
  <2>2. CASE rangeInflight \/ closeInflight \/ cancelAll \/ closeExiting
    BY <1>1, <1>10, <2>2 DEF Exit, rangeInflight, closeInflight, cancelAll, closeExiting,
       LoopFrame
  <2>3. CASE panicEnds
    <3>1. UNCHANGED <<w, writeLK, writeErr>> /\ crashed' = panicking
      BY <1>10, <2>3 DEF Exit, panicEnds, LoopFrame
    <3>2. panicking \in {"no", "nil ID", "nil frame ID"}
      BY DEF IndInv, TypeOK, LoopType
    <3>3. w[Loop] # "write"
      BY <2>3 DEF panicEnds, IndInv, LoopInv
    <3> QED
      BY <1>0, <3>1, <3>2, <3>3, LockKept
  <2> QED
    BY <1>10, <2>1, <2>2, <2>3 DEF Exit
<1>11. CASE Read
  BY <1>1, <1>11 DEF Read, ReaderFrame
<1>12. CASE CloserEnds \/ Environment \/ \E i \in Ids : PeerAnswers(i)
  BY <1>1, <1>12 DEF CloserEnds, Environment, PeerAnswers, EnvFrame
<1> QED
  BY <1>2, <1>3, <1>4, <1>5, <1>6, <1>7, <1>8, <1>9, <1>10, <1>11, <1>12 DEF Next

\* The goroutine of a call's context begins with its reply.
LEMMA AsyncInvStep ==
  ASSUME IndInv, AsyncInv, Next
  PROVE  AsyncInv'
<1> USE DEF lockVars, replyVars
<1>0. /\ w \in [Writers -> {"none", "ctx", "lock", "write", "unlock", "done"}] /\ Ids \subseteq Writers
      /\ Loop \notin Ids /\ Handler \notin Ids /\ delivered \in [Ids -> 0..1]
      /\ Loop \in Writers /\ Handler \in Writers
  BY LockTypes DEF IndInv, TypeOK, CallerType
<1>1. ASSUME delivered' = delivered, NEW p \in Writers, NEW s, w' = [w EXCEPT ![p] = s],
             p \in Ids => w[p] # "none"
      PROVE  AsyncInv'
  BY <1>0, <1>1 DEF AsyncInv
<1>2. ASSUME UNCHANGED <<w, delivered>> PROVE AsyncInv'
  BY <1>2 DEF AsyncInv
<1>3. CASE \/ (\E c \in Callers : Begin(c) \/ Continue(c)) \/ Read \/ CloserEnds
           \/ Environment \/ Incoming \/ \E i \in Ids : PeerAnswers(i)
  BY <1>2, <1>3 DEF Begin, Continue, CallerFrame, Read, ReaderFrame, CloserEnds, Environment,
     PeerAnswers, EnvFrame, Incoming, loopIncoming, loopIncomingClosed
<1>4. ASSUME NEW p \in Writers, Acquire(p) \/ Write(p) PROVE AsyncInv'
  <2>1. /\ delivered' = delivered /\ w[p] # "none"
        /\ \E s \in {"none", "write", "unlock"} : w' = [w EXCEPT ![p] = s]
    BY <1>4 DEF Acquire, Lock, Write, WriteOK, WriteFail, UnlockAgain, EndSend, WriterFrame
  <2> QED
    BY <1>1, <2>1
<1>5. ASSUME NEW i \in Ids, AsyncCancel(i) PROVE AsyncInv'
  <2>1. delivered' = delivered /\ w[i] # "none" /\ w' = [w EXCEPT ![i] = "lock"]
    BY <1>5 DEF AsyncCancel, handleCtxAsync, WriterFrame
  <2> QED
    BY <1>0, <1>1, <2>1
<1>6. CASE Answer
  BY <1>0, <1>1, <1>6 DEF Answer, nextWriter, done, WriterFrame
<1>7. CASE Handle
  <2>1. CASE decodeError \/ handleResponseIgnored \/ handleCallNoID
    BY <1>2, <1>7, <2>1 DEF decodeError, handleResponseIgnored, handleCallNoID
  <2>2. CASE handleCall
    BY <1>0, <1>1, <2>2 DEF handleCall
  <2>3. CASE handleResponse
    <3>1. PICK i \in Ids : i = frame.id /\ delivered[i] = 0
      BY <2>3 DEF IndInv, TypeOK, LoopType, LoopInv, handleResponse, Ignored, Exiting
    <3>2. /\ w' = w \/ w' = [w EXCEPT ![i] = "ctx"]
          /\ delivered' = [delivered EXCEPT ![i] = delivered[i] + 1]
      BY <2>3, <3>1 DEF handleResponse
    <3>3. \A j \in Ids : delivered'[j] = IF j = i THEN 1 ELSE delivered[j]
      BY <1>0, <3>1, <3>2
    <3>4. \A j \in Ids : j # i => w'[j] = w[j]
      BY <1>0, <3>2
    <3> QED
      BY <3>3, <3>4 DEF AsyncInv
  <2> QED
    BY <1>7, <2>1, <2>2, <2>3 DEF Handle
<1>8. CASE Request \/ Stop
  <2>1. delivered' = delivered /\ (w' = w \/ w' = [w EXCEPT ![Loop] = "lock"])
    BY <1>8 DEF Request, Stop, loopRequest, loopStop
  <2> QED
    BY <1>0, <1>1, <1>2, <2>1
<1>9. CASE Exit
  <2>1. CASE writeClose
    BY <1>0, <1>1, <2>1 DEF writeClose
  <2>2. CASE rangeInflight \/ cancelAll \/ closeExiting \/ panicEnds
    BY <1>2, <2>2 DEF rangeInflight, cancelAll, closeExiting, panicEnds
  <2>3. CASE closeInflight
    <3>1. w' = w /\ \A j \in Ids : delivered[j] = 1 => delivered'[j] = 1
      <4>1. PICK i \in toClose : w' = w /\ delivered' = [delivered EXCEPT ![i] = delivered[i] + 1]
        BY <2>3 DEF closeInflight, IndInv, PanicInv
      <4>2. i \in Ids /\ delivered[i] = 0
        BY <4>1 DEF IndInv, TypeOK, LoopType, LoopInv
      <4> QED
        BY <1>0, <4>1, <4>2
    <3> QED
      BY <3>1 DEF AsyncInv
  <2> QED
    BY <1>9, <2>1, <2>2, <2>3 DEF Exit
<1> QED
  BY <1>3, <1>4, <1>5, <1>6, <1>7, <1>8, <1>9 DEF Next, Writers

\* The calls of the peer move on one by one.
LEMMA OneCallStep ==
  ASSUME IndInv, OneCall, Next
  PROVE  OneCall'
<1> USE DEF lockVars, readVars, peerVars, loopVars, connVars
<1>0. /\ w \in [Writers -> {"none", "ctx", "lock", "write", "unlock", "done"}]
      /\ Handler \in Writers /\ Loop \in Writers /\ Loop # Handler /\ Handler \notin Ids
      /\ Ids \subseteq Writers /\ Handler \notin Senders /\ Senders \subseteq Writers
      /\ fromPeer \in Seq(Frames) /\ Len(fromPeer) \in Nat
      /\ NoFrame.body # "call"
  <2>1. Handler \notin Senders /\ Senders \subseteq Writers
    BY LockTypes DEF Senders, Writers
  <2>2. fromPeer \in Seq(Frames)
    BY DEF IndInv, TypeOK, ConnType
  <2>3. NoFrame.body # "call"
    BY DEF NoFrame
  <2>4. Len(fromPeer) \in Nat
    BY <2>2
  <2> QED
    BY <2>1, <2>2, <2>3, <2>4, LockTypes
<1>1. ASSUME UNCHANGED <<fromPeer, held>>, frame'.body = "call" => frame.body = "call",
             w[Handler] = "none" => w'[Handler] = "none"
      PROVE  OneCall'
  BY <1>1 DEF OneCall, Coming
<1>2. CASE (\E c \in Callers : Begin(c) \/ Continue(c)) \/ CloserEnds
  BY <1>1, <1>2 DEF Begin, Continue, CallerFrame, CloserEnds, closerReturn, EnvFrame
<1>3. ASSUME NEW p \in Writers, Acquire(p) \/ (p \in Senders /\ Write(p)) PROVE OneCall'
  <2>1. UNCHANGED <<fromPeer, held>> /\ (frame' = frame \/ frame' = NoFrame)
    BY <1>3 DEF Acquire, Lock, Write, WriteOK, WriteFail, UnlockAgain, EndSend, WriterFrame
  <2>2. w[Handler] = "none" => w'[Handler] = "none"
    BY <1>0, <1>3 DEF Acquire, Lock, Write, WriteOK, WriteFail, UnlockAgain, EndSend
  <2> QED
    BY <1>0, <1>1, <2>1, <2>2
<1>4. CASE Answer \/ \E i \in Ids : AsyncCancel(i)
  <2>1. UNCHANGED <<fromPeer, held, frame>> /\ (w[Handler] = "none" => w'[Handler] = "none")
    BY <1>0, <1>4 DEF Answer, nextWriter, done, AsyncCancel, handleCtxAsync, WriterFrame
  <2> QED
    BY <1>1, <2>1
<1>5. CASE Incoming
  <2>1. CASE loopIncoming
    <3>1. frame' = held /\ held' = NoFrame /\ UNCHANGED <<fromPeer, w>>
      BY <1>5, <2>1 DEF Incoming, loopIncoming, LoopFrame
    <3> QED
      BY <1>0, <3>1 DEF OneCall, Coming
  <2>2. CASE loopIncomingClosed
    BY <1>0, <1>1, <1>5, <2>2 DEF Incoming, loopIncomingClosed, StartClosing, LoopFrame
  <2> QED
    BY <1>5, <2>1, <2>2 DEF Incoming
<1>6. CASE Handle
  <2>1. CASE decodeError \/ handleResponseIgnored \/ handleCallNoID
    BY <1>0, <1>1, <1>6, <2>1 DEF Handle, decodeError, handleResponseIgnored, handleCallNoID,
       StartClosing, NextRound, LoopFrame
  <2>2. CASE handleResponse
    <3>1. frame.id \in Ids \cup {NoID} /\ Handler # NoID
      <4>1. frame.id \in Ids \cup {NoID}
        BY DEF IndInv, TypeOK, LoopType, Frames
      <4>2. Handler # NoID
        BY ClientAssumption DEF Handler, NoID, ClientAssumption
      <4> QED
        BY <4>1, <4>2
    <3>2. w' = w \/ w' = [w EXCEPT ![frame.id] = "ctx"]
      BY <2>2 DEF handleResponse
    <3>3. w'[Handler] = w[Handler]
      BY <1>0, <3>1, <3>2
    <3> QED
      BY <1>0, <1>1, <1>6, <2>2, <3>3 DEF Handle, handleResponse, NextRound, LoopFrame
  <2>3. CASE handleCall
    <3>1. frame.body = "call" /\ frame' = NoFrame /\ UNCHANGED <<fromPeer, held>>
      BY <1>6, <2>3 DEF Handle, handleCall, NextRound, LoopFrame
    <3>2. ~Coming /\ held.body # "call"
      BY <3>1 DEF OneCall
    <3> QED
      BY <1>0, <3>1, <3>2 DEF OneCall, Coming
  <2> QED
    BY <1>6, <2>1, <2>2, <2>3 DEF Handle
<1>7. CASE Request \/ Stop
  <2>1. /\ UNCHANGED <<fromPeer, held>> /\ (w' = w \/ w' = [w EXCEPT ![Loop] = "lock"])
        /\ frame' \in {frame, NoFrame} \/ frame' = [id |-> Head(requests), body |-> "value"]
    BY <1>7 DEF Request, Stop, loopRequest, StartClosing, loopStop, LoopFrame
  <2> QED
    BY <1>0, <1>1, <2>1
<1>8. CASE Exit
  <2>1. /\ UNCHANGED <<fromPeer, held>> /\ (w' = w \/ w' = [w EXCEPT ![Loop] = "none"])
        /\ frame' = frame \/ frame' = NoFrame
    BY <1>8 DEF Exit, writeClose, StartClosing, rangeInflight, closeInflight, cancelAll,
       closeExiting, panicEnds, LoopFrame
  <2> QED
    BY <1>0, <1>1, <2>1
<1>9. CASE Read
  <2>1. CASE nextMessageErr
    BY <1>1, <1>9, <2>1 DEF Read, nextMessageErr, ReaderFrame
  <2>2. CASE nextMessage
    <3>1. /\ fromPeer # <<>> /\ held' = Head(fromPeer) /\ fromPeer' = Tail(fromPeer)
          /\ UNCHANGED <<frame, w>>
      BY <1>9, <2>2 DEF Read, nextMessage, ReaderFrame
    <3>2. /\ Len(fromPeer) \in Nat \ {0} /\ Len(fromPeer') = Len(fromPeer) - 1
          /\ held' = fromPeer[1] /\ \A k \in 1..(Len(fromPeer) - 1) : fromPeer'[k] = fromPeer[k + 1]
      BY <1>0, <3>1, TailFacts
    <3>3. /\ 1 \in 1..Len(fromPeer)
          /\ \A k \in 1..Len(fromPeer') :
               k + 1 \in 1..Len(fromPeer) /\ k + 1 # 1 /\ fromPeer'[k] = fromPeer[k + 1] /\ k \in Nat
      BY <3>2
    <3>4. Coming' \/ held'.body = "call" => Coming
      BY <3>2, <3>3 DEF Coming
    <3>5. ~(Coming' /\ held'.body = "call")
      BY <3>2, <3>3 DEF Coming, OneCall
    <3>6. \A j, k \in 1..Len(fromPeer') :
            fromPeer'[j].body = "call" /\ fromPeer'[k].body = "call" => j = k
      <4>1. \A j, k \in 1..Len(fromPeer') :
              fromPeer'[j].body = "call" /\ fromPeer'[k].body = "call" => j + 1 = k + 1
        BY <3>3 DEF OneCall
      <4> QED
        BY <3>3, <4>1
    <3> QED
      BY <3>1, <3>4, <3>5, <3>6 DEF OneCall
  <2> QED
    BY <1>9, <2>1, <2>2 DEF Read
<1>10. CASE Environment \/ \E i \in Ids : PeerAnswers(i)
  <2>1. UNCHANGED <<held, frame, w>>
    BY <1>10 DEF Environment, PeerAnswers, EnvFrame
  <2>2. ASSUME NEW f \in Frames, PeerSends(f), f.body = "call" => ~Calling PROVE OneCall'
    <3>1. fromPeer' = Append(fromPeer, f)
      BY <2>2 DEF PeerSends
    <3>2. /\ Len(fromPeer') = Len(fromPeer) + 1 /\ fromPeer'[Len(fromPeer) + 1] = f
          /\ \A k \in 1..Len(fromPeer) : fromPeer'[k] = fromPeer[k]
      BY <1>0, <3>1, AppendFacts
    <3>3. CASE f.body = "call"
      <4>1. ~Coming /\ held.body # "call" /\ frame.body # "call" /\ w[Handler] = "none"
        BY <2>2, <3>3 DEF Calling, Coming
      <4>2. \A k \in 1..Len(fromPeer) : fromPeer[k].body # "call"
        BY <4>1 DEF Coming
      <4> QED
        BY <1>0, <2>1, <3>2, <4>1, <4>2 DEF OneCall
    <3>4. CASE f.body # "call"
      <4>1. Coming' => Coming
        BY <1>0, <3>2, <3>4 DEF Coming
      <4>2. \A j, k \in 1..Len(fromPeer') :
              fromPeer'[j].body = "call" /\ fromPeer'[k].body = "call" => j = k
        BY <1>0, <3>2, <3>4 DEF OneCall
      <4> QED
        BY <2>1, <4>1, <4>2 DEF OneCall
    <3> QED
      BY <3>3, <3>4
  <2>3. ASSUME NEW i \in Ids, peerAnswers(i) PROVE OneCall'
    <3>1. PICK b \in {"value", "error"} : PeerSends([id |-> i, body |-> b])
      BY <2>3 DEF peerAnswers
    <3>2. [id |-> i, body |-> b] \in Frames
      BY DEF Frames, Bodies
    <3> QED
      BY <2>2, <3>1, <3>2
  <2>4. CASE peerSendsAny
    <3>1. PICK f \in Frames : PeerSends(f) /\ f.body # "call"
      <4>1. CASE \E i \in sent, b \in Bodies : PeerSends([id |-> i, body |-> b])
        <5>1. PICK i \in sent, b \in Bodies : PeerSends([id |-> i, body |-> b])
          BY <4>1
        <5>2. [id |-> i, body |-> b] \in Frames /\ [id |-> i, body |-> b].body # "call"
          BY DEF Frames, Bodies, IndInv, TypeOK, ConnType
        <5> QED
          BY <5>1, <5>2
      <4>2. CASE \E b \in {"value", "garbage"} : PeerSends([id |-> NoID, body |-> b])
        <5>1. PICK b \in {"value", "garbage"} : PeerSends([id |-> NoID, body |-> b])
          BY <4>2
        <5>2. [id |-> NoID, body |-> b] \in Frames /\ [id |-> NoID, body |-> b].body # "call"
          BY DEF Frames, Bodies
        <5> QED
          BY <5>1, <5>2
      <4> QED
        BY <2>4, <4>1, <4>2 DEF peerSendsAny
    <3> QED
      BY <2>2, <3>1
  <2>5. CASE peerCalls
    <3>1. PICK f \in Frames : PeerSends(f) /\ (f.body = "call" => ~Calling)
      <4>1. PICK b \in (IF Calling THEN {} ELSE {"call"}) \cup {"notify"} : PeerSends([id |-> NoID, body |-> b])
        BY <2>5 DEF peerCalls
      <4>2. [id |-> NoID, body |-> b] \in Frames
        BY DEF Frames
      <4> QED
        BY <4>1, <4>2
    <3> QED
      BY <2>2, <3>1
  <2>6. CASE closeStop \/ connLost \/ \E i \in Ids : cancelContext(i)
    <3>1. UNCHANGED fromPeer
      BY <2>6 DEF closeStop, connLost, cancelContext
    <3> QED
      BY <1>1, <2>1, <3>1
  <2> QED
    BY <1>10, <2>3, <2>4, <2>5, <2>6 DEF Environment, PeerAnswers
<1> QED
  BY <1>2, <1>3, <1>4, <1>5, <1>6, <1>7, <1>8, <1>9, <1>10 DEF Next, Writers

\* wsConn.sendRequest, nextWriter and the close message: until a write fails,
\* writeLK is held exactly while one of their goroutines is between Lock and
\* Unlock, and no Unlock hits an unlocked mutex.
THEOREM ClientLockHeldByOneWriter == Spec => []LockHeldByOneWriter
<1> DEFINE WriterInv == LockInv /\ AsyncInv /\ OneCall
<1>1. Init => WriterInv
  <2> SUFFICES ASSUME Init PROVE WriterInv
    OBVIOUS
  <2>1. /\ \A p \in Writers : w[p] = "none"
        /\ writeLK = FALSE /\ crashed = "no" /\ Len(fromPeer) = 0
        /\ held.body = "garbage" /\ frame.body = "garbage"
        /\ Ids \subseteq Writers
    BY LockTypes, InitInd DEF Init, NoFrame
  <2> QED
    BY <2>1 DEF LockInv, LockHeldByOneWriter, AsyncInv, OneCall, Coming
<1>2. IndInv /\ WriterInv /\ [Next]_vars => WriterInv'
  <2>1. CASE Next
    BY <2>1, LockStep, AsyncInvStep, OneCallStep
  <2>2. ASSUME IndInv, WriterInv, UNCHANGED vars PROVE WriterInv'
    <3>1. UNCHANGED <<w, writeLK, writeErr, crashed, delivered, fromPeer, held, frame>>
      BY <2>2 DEF vars, lockVars, connVars, replyVars, peerVars, readVars, loopVars
    <3>2. writeLK \in BOOLEAN /\ writeErr \in BOOLEAN
      BY <2>2, LockTypes
    <3>3. LockInv'
      BY <2>2, <3>1, <3>2 DEF LockInv, LockHeldByOneWriter
    <3> QED
      BY <2>2, <3>1, <3>3 DEF AsyncInv, OneCall, Coming
  <2> QED
    BY <2>1, <2>2
<1>3. WriterInv => LockHeldByOneWriter
  BY DEF LockInv
<1> QED
  BY <1>1, <1>2, <1>3, ClientInvariant, PTL DEF Spec

-----------------------------------------------------------------------------
(* The exit of the loop and the failures that nobody is told of.           *)

\* The variable `id` of the deferred loop names a call the loop has got to, a
\* reply is for its own call, and one from the deferred loop comes after it ran.
ExitInv ==
  /\ exiting => loop = "exited"
  /\ closeId # NoID => Exiting /\ Visited(closeId)
  /\ \A i \in Ids : ready[i] # NoReply => ready[i].id = i
  /\ \A i \in Ids : ready[i].body = "closed" => closeId # NoID /\ i \in inflight

\* No result that does not fit is anywhere between the peer and a caller.
Fitting ==
  /\ \A k \in 1..Len(fromPeer) : fromPeer[k].body # "unfit"
  /\ held.body # "unfit" /\ frame.body # "unfit"
  /\ \A i \in Ids : ready[i].body # "unfit"
FitInv == "frames" \notin Faults => Fitting

\* The loop does not come back from its exit, and what it told it told.
LEMMA ExitStable ==
  ASSUME IndInv, Next, Exiting
  PROVE  /\ Exiting' /\ inflight' = inflight
         /\ \A j \in Ids : delivered[j] = 1 => delivered'[j] = 1
         /\ \A j \in Ids : Visited(j) => Visited(j)'
<1> USE DEF loopVars, replyVars, Exiting, Visited
<1>1. CASE \/ (\E c \in Callers : Begin(c) \/ Continue(c)) \/ Read \/ CloserEnds \/ Environment
           \/ Answer \/ (\E p \in Writers : Acquire(p)) \/ \E i \in Ids : AsyncCancel(i) \/ PeerAnswers(i)
  <2>1. UNCHANGED <<loop, inflight, delivered, closeId>>
    BY <1>1 DEF Begin, Continue, CallerFrame, Read, ReaderFrame, CloserEnds, Environment,
       PeerAnswers, EnvFrame, Answer, nextWriter, done, Acquire, Lock, AsyncCancel,
       handleCtxAsync, WriterFrame
  <2> QED
    BY <2>1
<1>2. ASSUME NEW p \in Senders, Write(p) PROVE UNCHANGED <<loop, inflight, delivered, closeId>>
  <2>1. p # Loop
    BY <1>2 DEF Write, WriteOK, WriteFail, UnlockAgain, IndInv, LoopInv
  <2> QED
    BY <1>2, <2>1 DEF Write, WriteOK, WriteFail, UnlockAgain, EndSend, WriterFrame
<1>3. ~Incoming /\ ~Handle /\ ~Request /\ ~Stop /\ ~writeClose
  BY DEF Incoming, loopIncoming, loopIncomingClosed, Handle, decodeError, handleResponseIgnored,
     handleResponse, handleCall, handleCallNoID, Request, loopRequest, Stop, loopStop, writeClose
<1>4. CASE rangeInflight \/ cancelAll \/ closeExiting \/ panicEnds
  BY <1>4 DEF rangeInflight, cancelAll, closeExiting, panicEnds
<1>5. CASE closeInflight
  <2>1. PICK i \in toClose : /\ i = closeId /\ loop' = "cancelAll" /\ UNCHANGED inflight
                             /\ delivered' = [delivered EXCEPT ![i] = delivered[i] + 1]
    BY <1>5 DEF closeInflight, IndInv, PanicInv
  <2>2. i \in Ids /\ delivered[i] = 0 /\ delivered \in [Ids -> 0..1]
    BY <2>1 DEF IndInv, TypeOK, LoopType, CallerType, LoopInv
  <2>3. \A j \in Ids : delivered'[j] = IF j = i THEN 1 ELSE delivered[j]
    BY <2>1, <2>2
  <2> QED
    BY <2>1, <2>2, <2>3
<1> QED
  BY <1>1, <1>2, <1>3, <1>4, <1>5 DEF Next, Exit

\* What a step does to a reply channel: a caller empties it, the loop fills it
\* from its frame, the deferred loop fills it.
LEMMA ReadyStep ==
  ASSUME IndInv, Next
  PROVE  \/ ready' = ready
         \/ \E i \in Ids : ready' = [ready EXCEPT ![i] = NoReply]
         \/ \E i \in Ids : /\ handleResponse
                           /\ loop = "handle" /\ i = frame.id /\ frame.body \in Bodies
                           /\ ready' = [ready EXCEPT ![i] = [id |-> i, body |-> frame.body]]
         \/ \E i \in Ids : /\ closeId' = i /\ i \in inflight'
                           /\ ready' = [ready EXCEPT ![i] = [id |-> i, body |-> "closed"]]
<1> USE DEF replyVars
<1>1. ASSUME NEW c \in Callers, Begin(c) \/ Continue(c)
      PROVE  ready' = ready \/ \E i \in Ids : ready' = [ready EXCEPT ![i] = NoReply]
  <2>1. CASE receive(c)
    <3>1. call[c] \in Ids /\ ready' = [ready EXCEPT ![call[c]] = NoReply]
      BY <2>1 DEF receive, IndInv, TypeOK, CallerType, CallerInv
    <3> QED
      BY <3>1
  <2>2. CASE ~receive(c)
    BY <1>1, <2>2 DEF Begin, Continue, handleRpcCall, sendRequest, sendRequestExiting, ctxDoneSeen,
       sendCancel
  <2> QED
    BY <2>1, <2>2
<1>2. CASE \/ Read \/ CloserEnds \/ Environment \/ Answer \/ (\E p \in Writers : Acquire(p))
           \/ (\E p \in Senders : Write(p)) \/ (\E i \in Ids : AsyncCancel(i) \/ PeerAnswers(i))
  BY <1>2 DEF Read, ReaderFrame, CloserEnds, Environment, PeerAnswers, EnvFrame, Answer, Acquire,
     AsyncCancel, Write, WriterFrame
<1>3. CASE handleResponse
  <2>1. PICK i \in Ids : i = frame.id
    BY <1>3 DEF IndInv, TypeOK, LoopType, handleResponse, Ignored
  <2> QED
    BY <1>3, <2>1 DEF handleResponse
<1>4. CASE closeInflight
  <2>1. PICK i \in toClose : /\ closeId' = i /\ UNCHANGED inflight
                             /\ ready' = [ready EXCEPT ![i] = [id |-> i, body |-> "closed"]]
    BY <1>4 DEF closeInflight, IndInv, PanicInv
  <2>2. i \in Ids /\ i \in inflight
    BY <2>1 DEF IndInv, TypeOK, LoopType
  <2> QED
    BY <2>1, <2>2
<1>5. CASE \/ Incoming \/ Request \/ Stop \/ decodeError \/ handleResponseIgnored \/ handleCall
           \/ handleCallNoID \/ writeClose \/ rangeInflight \/ cancelAll \/ closeExiting
           \/ panicEnds
  BY <1>5 DEF Incoming, loopIncoming, loopIncomingClosed, Request, loopRequest, Stop, loopStop,
     decodeError, handleResponseIgnored, handleCall, handleCallNoID, writeClose, rangeInflight,
     cancelAll, closeExiting, panicEnds
<1> QED
  BY <1>1, <1>2, <1>3, <1>4, <1>5 DEF Next, Handle, Exit

\* Who closes exiting, and who assigns `id`.
LEMMA ExitFlags ==
  ASSUME IndInv, Next
  PROVE  /\ exiting' = exiting \/ loop' = "exited"
         /\ \/ closeId' = closeId
            \/ closeId' \in inflight' /\ loop' = "tell" /\ closeId' # NoID
<1> USE DEF loopVars, endVars
<1>1. CASE \/ (\E c \in Callers : Begin(c) \/ Continue(c)) \/ Read \/ CloserEnds \/ Environment
           \/ Answer \/ (\E p \in Writers : Acquire(p)) \/ (\E p \in Senders : Write(p))
           \/ \E i \in Ids : AsyncCancel(i) \/ PeerAnswers(i)
  BY <1>1 DEF Begin, Continue, CallerFrame, Read, ReaderFrame, CloserEnds, Environment,
     PeerAnswers, EnvFrame, Answer, Acquire, Write, AsyncCancel, WriterFrame
<1>2. CASE Incoming \/ Handle \/ Request \/ Stop \/ writeClose
  BY <1>2 DEF Incoming, loopIncoming, loopIncomingClosed, Handle, decodeError, handleResponseIgnored,
     handleResponse, handleCall, handleCallNoID, Request, loopRequest, Stop, loopStop, writeClose
<1>3. CASE closeInflight \/ cancelAll \/ closeExiting \/ panicEnds
  BY <1>3 DEF closeInflight, cancelAll, closeExiting, panicEnds
<1>4. CASE rangeInflight
  <2>1. PICK i \in toClose : closeId' = i /\ loop' = "tell" /\ UNCHANGED <<inflight, exiting>>
    BY <1>4 DEF rangeInflight
  <2>2. i \in inflight /\ i # NoID
    <3>1. i \in inflight /\ i \in Ids
      BY <2>1 DEF IndInv, TypeOK, LoopType
    <3> QED
      BY <3>1 DEF Ids, NoID
  <2> QED
    BY <2>1, <2>2
<1> QED
  BY <1>1, <1>2, <1>3, <1>4 DEF Next, Exit

\* A step preserves ExitInv: only the deferred loop tells a call that the
\* connection is closed, and it does not stop to be at it.
LEMMA ExitInvStep ==
  ASSUME IndInv, ExitInv, Next
  PROVE  ExitInv'
<1>0. /\ ready \in [Ids -> Replies \cup {NoReply}] /\ exiting \in BOOLEAN
      /\ closeId \in Ids \cup {NoID} /\ NoID \notin Ids /\ inflight \subseteq Ids
  <2>1. ready \in [Ids -> Replies \cup {NoReply}]
    BY DEF IndInv, TypeOK, CallerType
  <2>2. exiting \in BOOLEAN
    BY DEF IndInv, TypeOK, FlagType
  <2>3. closeId \in Ids \cup {NoID} /\ inflight \subseteq Ids
    BY DEF IndInv, TypeOK, LoopType
  <2>4. NoID \notin Ids
    BY DEF NoID, Ids
  <2> QED
    BY <2>1, <2>2, <2>3, <2>4
<1>1. exiting' => loop' = "exited"
  <2>1. CASE exiting' = exiting
    <3>1. loop = "exited" => loop' = "exited"
      <4> SUFFICES ASSUME loop = "exited" PROVE loop' = "exited"
        OBVIOUS
      <4>2. ASSUME NEW p \in Senders, Write(p) PROVE p # Loop
        BY <4>2 DEF Write, WriteOK, WriteFail, UnlockAgain, IndInv, LoopInv
      <4>3. loop' = loop \/ Exit
        BY <4>2 DEF Next, Begin, Continue, CallerFrame, Read, ReaderFrame, CloserEnds, Environment,
           PeerAnswers, EnvFrame, Answer, nextWriter, done, Acquire, Lock, AsyncCancel,
           handleCtxAsync, Write, WriteOK, WriteFail, UnlockAgain, EndSend, Incoming, loopIncoming,
           loopIncomingClosed, Handle, decodeError, handleResponseIgnored,
           handleResponse, handleCall, handleCallNoID, Request, loopRequest, Stop, loopStop, loopVars
      <4>4. Exit => loop' = loop
        BY DEF Exit, writeClose, rangeInflight, closeInflight, cancelAll, closeExiting, panicEnds,
           loopVars
      <4> QED
        BY <4>3, <4>4
    <3> QED
      BY <1>0, <2>1, <3>1 DEF ExitInv
  <2> QED
    BY <2>1, ExitFlags
<1>2. closeId' # NoID => Exiting' /\ Visited(closeId)'
  <2>1. CASE closeId' = closeId
    <3> SUFFICES ASSUME closeId \in Ids PROVE Exiting' /\ Visited(closeId)'
      BY <1>0, <2>1
    <3>1. PICK j \in Ids : j = closeId
      OBVIOUS
    <3>2. Exiting' /\ Visited(j)'
      BY <1>0, <3>1, ExitStable DEF ExitInv
    <3> QED
      BY <2>1, <3>1, <3>2 DEF Visited
  <2>2. CASE closeId' \in inflight' /\ loop' = "tell" /\ closeId' # NoID
    BY <2>2 DEF Visited, Exiting
  <2> QED
    BY <2>1, <2>2, ExitFlags
<1>3. closeId # NoID => closeId' # NoID
  BY ExitFlags
<1>6. \A j \in Ids : ready[j].body = "closed" => closeId' # NoID /\ j \in inflight'
  BY <1>3, ExitStable DEF ExitInv
<1> DEFINE Good == /\ \A j \in Ids : ready'[j] # NoReply => ready'[j].id = j
                   /\ \A j \in Ids : ready'[j].body = "closed" => closeId' # NoID /\ j \in inflight'
<1>4. ASSUME NEW i \in Ids, NEW r \in Replies \cup {NoReply}, ready' = [ready EXCEPT ![i] = r],
             r # NoReply => r.id = i, r.body = "closed" => closeId' # NoID /\ i \in inflight'
      PROVE  Good
  BY <1>0, <1>4, <1>6 DEF ExitInv
<1>5. Good
  <2>1. CASE ready' = ready
    BY <1>6, <2>1 DEF ExitInv
  <2> HIDE DEF Good
  <2>2. ASSUME NEW i \in Ids, ready' = [ready EXCEPT ![i] = NoReply]
        PROVE  Good
    <3>1. NoReply.body # "closed"
      BY DEF NoReply
    <3> QED
      BY <1>4, <2>2, <3>1
  <2>3. ASSUME NEW i \in Ids, frame.body \in Bodies,
               ready' = [ready EXCEPT ![i] = [id |-> i, body |-> frame.body]]
        PROVE  Good
    <3>1. [id |-> i, body |-> frame.body] \in Replies /\ frame.body # "closed"
      BY <2>3 DEF Replies, Bodies
    <3> QED
      BY <1>4, <2>3, <3>1
  <2>4. ASSUME NEW i \in Ids, closeId' = i, i \in inflight',
               ready' = [ready EXCEPT ![i] = [id |-> i, body |-> "closed"]]
        PROVE  Good
    <3>1. [id |-> i, body |-> "closed"] \in Replies
      BY DEF Replies
    <3> QED
      BY <1>0, <1>4, <2>4, <3>1
  <2> QED
    BY <2>1, <2>2, <2>3, <2>4, ReadyStep
<1> QED
  BY <1>1, <1>2, <1>5 DEF ExitInv

\* A frame is at hand because it was, because the reader held it, or because
\* the loop made it.
LEMMA FrameStep ==
  ASSUME IndInv, Next
  PROVE  frame' \in {frame, held, NoFrame} \/ frame' = [id |-> Head(requests), body |-> "value"]
<1> USE DEF loopVars
<1>1. CASE \/ (\E c \in Callers : Begin(c) \/ Continue(c)) \/ Read \/ CloserEnds \/ Environment
           \/ Answer \/ (\E p \in Writers : Acquire(p)) \/ (\E p \in Senders : Write(p))
           \/ \E i \in Ids : AsyncCancel(i) \/ PeerAnswers(i)
  BY <1>1 DEF Begin, Continue, CallerFrame, Read, ReaderFrame, CloserEnds, Environment,
     PeerAnswers, EnvFrame, Answer, nextWriter, done, Acquire, Lock, AsyncCancel,
     handleCtxAsync, Write, WriteOK, WriteFail, UnlockAgain, EndSend
<1>2. CASE Incoming \/ Request \/ Stop \/ Exit
  BY <1>2 DEF Incoming, loopIncoming, loopIncomingClosed, Request, loopRequest, Stop, loopStop,
     Exit, writeClose, rangeInflight, closeInflight, cancelAll, closeExiting, panicEnds,
     StartClosing
<1>3. CASE Handle
  BY <1>3 DEF Handle, decodeError, handleResponseIgnored, handleResponse, handleCall,
     handleCallNoID, NextRound, StartClosing
<1> QED
  BY <1>1, <1>2, <1>3 DEF Next

\* What the reader holds and what is on its way: the peer adds, the reader takes.
LEMMA PeerStep ==
  ASSUME IndInv, Next
  PROVE  /\ \/ held' \in {held, NoFrame}
            \/ fromPeer # <<>> /\ held' = Head(fromPeer)
         /\ \/ fromPeer' = fromPeer
            \/ fromPeer # <<>> /\ fromPeer' = Tail(fromPeer)
            \/ \E f \in Frames : /\ fromPeer' = Append(fromPeer, f)
                                 /\ f.body = "unfit" => "frames" \in Faults
<1> USE DEF readVars, peerVars
<1>1. CASE \/ (\E c \in Callers : Begin(c) \/ Continue(c)) \/ CloserEnds
           \/ Answer \/ (\E p \in Writers : Acquire(p)) \/ (\E p \in Senders : Write(p))
           \/ (\E i \in Ids : AsyncCancel(i))
  BY <1>1 DEF Begin, Continue, CallerFrame, CloserEnds, closerReturn, EnvFrame, Answer,
     Acquire, AsyncCancel, Write, WriterFrame
<1>2. CASE Incoming \/ Request \/ Stop \/ Exit
  BY <1>2 DEF Incoming, loopIncoming, loopIncomingClosed, Request, loopRequest, Stop, loopStop,
     Exit, writeClose, rangeInflight, closeInflight, cancelAll, closeExiting, panicEnds,
     LoopFrame
<1>3. CASE Handle
  BY <1>3 DEF Handle, decodeError, handleResponseIgnored, handleResponse, handleCall,
     handleCallNoID, NextRound, LoopFrame
<1>4. CASE Read
  BY <1>4 DEF Read, nextMessage, nextMessageErr
<1>5. ASSUME NEW i \in Ids, PeerAnswers(i)
      PROVE  held' = held /\ \E f \in Frames : fromPeer' = Append(fromPeer, f) /\ f.body # "unfit"
  <2>1. PICK b \in {"value", "error"} : PeerSends([id |-> i, body |-> b])
    BY <1>5 DEF PeerAnswers, peerAnswers
  <2>2. [id |-> i, body |-> b] \in Frames /\ [id |-> i, body |-> b].body # "unfit"
    BY DEF Frames, Bodies
  <2>3. fromPeer' = Append(fromPeer, [id |-> i, body |-> b])
    BY <2>1 DEF PeerSends
  <2> QED
    BY <1>5, <2>2, <2>3 DEF PeerAnswers, EnvFrame
<1>6. CASE Environment
  <2>1. held' = held
    BY <1>6 DEF Environment, EnvFrame
  <2>2. CASE closeStop \/ connLost \/ \E i \in Ids : cancelContext(i)
    BY <2>1, <2>2 DEF closeStop, connLost, cancelContext
  <2>3. CASE peerSendsAny
    <3>1. "frames" \in Faults
      BY <2>3 DEF peerSendsAny
    <3>2. PICK f \in Frames : PeerSends(f)
      BY <2>3 DEF peerSendsAny, Frames, Bodies, IndInv, TypeOK, ConnType
    <3>3. fromPeer' = Append(fromPeer, f)
      BY <3>2 DEF PeerSends
    <3> QED
      BY <2>1, <3>1, <3>3
  <2>4. CASE peerCalls
    <3>1. PICK b \in {"call", "notify"} : PeerSends([id |-> NoID, body |-> b])
      BY <2>4 DEF peerCalls
    <3>2. [id |-> NoID, body |-> b] \in Frames /\ [id |-> NoID, body |-> b].body # "unfit"
      BY DEF Frames
    <3>3. fromPeer' = Append(fromPeer, [id |-> NoID, body |-> b])
      BY <3>1 DEF PeerSends
    <3> QED
      BY <2>1, <3>2, <3>3
  <2> QED
    BY <1>6, <2>2, <2>3, <2>4 DEF Environment
<1> QED
  BY <1>1, <1>2, <1>3, <1>4, <1>5, <1>6 DEF Next

\* A peer that sends no results that do not fit makes no call fail to decode.
LEMMA FitStep ==
  ASSUME IndInv, FitInv, Next
  PROVE  FitInv'
<1> SUFFICES ASSUME "frames" \notin Faults, Fitting PROVE Fitting'
  BY DEF FitInv
<1>0. /\ fromPeer \in Seq(Frames) /\ ready \in [Ids -> Replies \cup {NoReply}]
      /\ NoFrame.body # "unfit" /\ NoReply.body # "unfit"
  BY DEF IndInv, TypeOK, ConnType, CallerType, NoFrame, NoReply
<1>1. Len(fromPeer) \in Nat
  BY <1>0
<1>2. frame'.body # "unfit"
  BY <1>0, FrameStep DEF Fitting
<1>3. held'.body # "unfit" /\ \A k \in 1..Len(fromPeer') : fromPeer'[k].body # "unfit"
  <2>1. ASSUME fromPeer # <<>>
        PROVE  /\ Head(fromPeer).body # "unfit"
               /\ \A k \in 1..Len(Tail(fromPeer)) : Tail(fromPeer)[k].body # "unfit"
    <3>1. /\ Len(fromPeer) \in Nat \ {0} /\ Len(Tail(fromPeer)) = Len(fromPeer) - 1
          /\ Head(fromPeer) = fromPeer[1]
          /\ \A k \in 1..(Len(fromPeer) - 1) : Tail(fromPeer)[k] = fromPeer[k + 1]
      BY <1>0, <2>1, TailFacts
    <3>2. 1 \in 1..Len(fromPeer) /\ \A k \in 1..(Len(fromPeer) - 1) : k + 1 \in 1..Len(fromPeer)
      BY <3>1
    <3> QED
      BY <3>1, <3>2 DEF Fitting
  <2>2. ASSUME NEW f \in Frames, f.body # "unfit"
        PROVE  \A k \in 1..Len(Append(fromPeer, f)) : Append(fromPeer, f)[k].body # "unfit"
    <3>1. /\ Len(Append(fromPeer, f)) = Len(fromPeer) + 1
          /\ \A k \in 1..Len(fromPeer) : Append(fromPeer, f)[k] = fromPeer[k]
          /\ Append(fromPeer, f)[Len(fromPeer) + 1] = f
      BY <1>0, AppendFacts
    <3>2. \A k \in 1..Len(Append(fromPeer, f)) : k \in 1..Len(fromPeer) \/ k = Len(fromPeer) + 1
      BY <1>1, <3>1
    <3> QED
      BY <2>2, <3>1, <3>2 DEF Fitting
  <2> QED
    BY <1>0, <2>1, <2>2, PeerStep DEF Fitting
<1>4. \A i \in Ids : ready'[i].body # "unfit"
  <2>1. ASSUME NEW i \in Ids, NEW r, r.body # "unfit", ready' = [ready EXCEPT ![i] = r]
        PROVE  \A j \in Ids : ready'[j].body # "unfit"
    BY <1>0, <2>1 DEF Fitting
  <2>2. frame.body # "unfit" /\ \A i \in Ids : ready[i].body # "unfit"
    BY DEF Fitting
  <2>3. \A i \in Ids : [id |-> i, body |-> frame.body].body # "unfit" /\ [id |-> i, body |-> "closed"].body # "unfit"
    BY <2>2
  <2> QED
    BY <1>0, <2>1, <2>2, <2>3, ReadyStep
<1> QED
  BY <1>2, <1>3, <1>4 DEF Fitting

\* A call returns with a failure that is not reported only as the exit, or a
\* result that does not fit, explains.
LEMMA SwallowedStep ==
  ASSUME IndInv, ExitInv, FitInv, SwallowedOnlyAtExit, Next
  PROVE  SwallowedOnlyAtExit'
<1>0. outcome \in [Ids -> Outcomes] /\ NoID \notin Ids
  BY DEF IndInv, TypeOK, CallerType, NoID, Ids
<1> DEFINE Told(i) == Visited(i) /\ \E j \in Ids \ {i} : Visited(j)
           Fine(i, o) ==
             /\ o \in Swallowed => Exiting' \/ (o = "unmarshal" /\ "frames" \in Faults)
             /\ o = "mismatch" => Told(i)'
<1>1. \A i \in Ids : Fine(i, outcome[i])
  <2> SUFFICES ASSUME NEW i \in Ids PROVE Fine(i, outcome[i])
    OBVIOUS
  <2>1. /\ outcome[i] \in Swallowed => Exiting \/ (outcome[i] = "unmarshal" /\ "frames" \in Faults)
        /\ outcome[i] = "mismatch" => Told(i)
    BY DEF SwallowedOnlyAtExit
  <2>2. "mismatch" \in Swallowed
    BY DEF Swallowed
  <2>3. Exiting => Exiting' /\ (Told(i) => Told(i)')
    BY ExitStable
  <2> HIDE DEF Told
  <2> QED
    BY <2>1, <2>2, <2>3
<1>2. ASSUME NEW i \in Ids, NEW o, outcome' = [outcome EXCEPT ![i] = o], Fine(i, o)
      PROVE  SwallowedOnlyAtExit'
  BY <1>0, <1>1, <1>2 DEF SwallowedOnlyAtExit
<1>3. CASE outcome' = outcome
  BY <1>1, <1>3 DEF SwallowedOnlyAtExit
<1>4. ASSUME NEW c \in Callers, Continue(c) PROVE SwallowedOnlyAtExit'
  <2>1. CASE sendRequest(c) \/ ctxDoneSeen(c) \/ sendCancel(c)
    BY <1>3, <2>1 DEF sendRequest, ctxDoneSeen, sendCancel
  <2>2. CASE sendRequestExiting(c)
    <3>1. PICK i \in Ids : i = call[c]
      BY <2>2 DEF sendRequestExiting, IndInv, TypeOK, CallerType, CallerInv
    <3>2. outcome' = [outcome EXCEPT ![i] = "exiting"]
      BY <2>2, <3>1 DEF sendRequestExiting, Return
    <3>3. Exiting
      BY <2>2 DEF sendRequestExiting, ExitInv, Exiting
    <3>4. Exiting'
      BY <3>3, ExitStable
    <3> QED
      BY <1>2, <3>2, <3>4
  <2>3. CASE receive(c)
    <3>1. PICK i \in Ids : i = call[c]
      BY <2>3 DEF receive, IndInv, TypeOK, CallerType, CallerInv
    <3>2. PICK seen \in SeenID(ready[i]) :
            outcome' = [outcome EXCEPT ![i] = OutcomeOf(i, ready[i], seen)] /\ ready[i] # NoReply
      BY <2>3, <3>1 DEF receive, Return
    <3>3. ready[i].id = i /\ ready[i].body \in {"value", "error", "unfit", "closed"}
      BY <3>2 DEF ExitInv, IndInv, TypeOK, CallerType, Replies, Bodies
    <3>4. CASE seen # i
      <4>1. ready[i].body = "closed" /\ seen = closeId
        BY <3>2, <3>3, <3>4 DEF SeenID
      <4>5. closeId # NoID /\ i \in inflight /\ delivered[i] = 1
        BY <3>2, <4>1 DEF ExitInv, IndInv, EachCallInOnePlace, Replied
      <4>2. Exiting /\ Visited(closeId) /\ closeId \in Ids \ {i} /\ Visited(i)
        BY <3>4, <4>1, <4>5 DEF ExitInv, IndInv, TypeOK, LoopType, Visited
      <4>6. PICK j \in Ids \ {i} : j = closeId
        BY <4>2
      <4>3. Exiting' /\ Told(i)'
        BY <4>2, <4>6, ExitStable
      <4>4. OutcomeOf(i, ready[i], seen) = "mismatch"
        BY <3>4, <4>1 DEF OutcomeOf
      <4> QED
        BY <1>2, <3>2, <4>3, <4>4
    <3>5. CASE seen = i /\ ready[i].body = "unfit"
      <4>1. OutcomeOf(i, ready[i], seen) = "unmarshal" /\ "frames" \in Faults
        BY <3>5 DEF OutcomeOf, FitInv, Fitting
      <4> QED
        BY <1>2, <3>2, <4>1
    <3>6. CASE seen = i /\ ready[i].body # "unfit"
      <4>1. OutcomeOf(i, ready[i], seen) = ready[i].body /\ ready[i].body \notin Swallowed
        BY <3>3, <3>6 DEF OutcomeOf, Swallowed
      <4>2. "mismatch" \in Swallowed
        BY DEF Swallowed
      <4>3. Fine(i, OutcomeOf(i, ready[i], seen))
        BY <4>1, <4>2
      <4> QED
        BY <1>2, <3>2, <4>3
    <3> QED
      BY <3>4, <3>5, <3>6
  <2> QED
    BY <1>4, <2>1, <2>2, <2>3 DEF Continue
<1>5. CASE ~\E c \in Callers : Continue(c)
  <2>1. outcome' = outcome
    BY <1>5 DEF Next, callerVars, Begin, handleRpcCall, Read, ReaderFrame, CloserEnds, Environment,
       PeerAnswers, EnvFrame, Answer, Acquire, AsyncCancel, Write, WriterFrame,
       Incoming, Handle, Request, Stop, Exit, LoopFrame
  <2> QED
    BY <1>3, <2>1
<1> QED
  BY <1>4, <1>5

\* client.go:84-96: a failure that the caller is not told of happens only while
\* or after the connection loop exits, or because a result does not fit; and a
\* reply is taken for another's only if the deferred loop has got to both.
THEOREM ClientSwallowedOnlyAtExit == Spec => []SwallowedOnlyAtExit
<1> DEFINE FailInv == ExitInv /\ FitInv /\ SwallowedOnlyAtExit
<1>1. Init => FailInv
  <2> SUFFICES ASSUME Init PROVE FailInv
    OBVIOUS
  <2>1. /\ \A i \in Ids : ready[i] = NoReply /\ outcome[i] = "none"
        /\ exiting = FALSE /\ closeId = NoID /\ Len(fromPeer) = 0
        /\ held = NoFrame /\ frame = NoFrame
    BY DEF Init
  <2>2. NoFrame.body # "unfit" /\ NoReply.body # "unfit" /\ NoReply.body # "closed"
    BY DEF NoFrame, NoReply
  <2>3. "none" \notin Swallowed /\ "none" # "mismatch"
    BY DEF Swallowed
  <2>4. ExitInv
    BY <2>1, <2>2 DEF ExitInv
  <2>5. FitInv
    BY <2>1, <2>2 DEF FitInv, Fitting
  <2>6. SwallowedOnlyAtExit
    BY <2>1, <2>3 DEF SwallowedOnlyAtExit
  <2> QED
    BY <2>4, <2>5, <2>6
<1>2. IndInv /\ FailInv /\ [Next]_vars => FailInv'
  <2>1. CASE Next
    BY <2>1, ExitInvStep, FitStep, SwallowedStep
  <2>2. ASSUME FailInv, UNCHANGED vars PROVE FailInv'
    <3>1. UNCHANGED <<loop, exiting, closeId, inflight, delivered, ready, fromPeer, held, frame, outcome>>
      BY <2>2 DEF vars, connVars, replyVars, peerVars, readVars, loopVars, callerVars, endVars
    <3> QED
      BY <2>2, <3>1 DEF ExitInv, FitInv, Fitting, SwallowedOnlyAtExit, Exiting, Visited
  <2> QED
    BY <2>1, <2>2
<1>3. FailInv => SwallowedOnlyAtExit
  OBVIOUS
<1> QED
  BY <1>1, <1>2, <1>3, ClientInvariant, PTL DEF Spec

-----------------------------------------------------------------------------
(* Where the process may die.                                              *)

\* Behind a cancel request, queued or about to be, is a context that ended.
CancelInv ==
  /\ nilDone \subseteq ctxDone
  /\ In(requests, NoID) \/ (\E c \in Callers : pc[c] = "cancel") => nilDone # {}
DeathInv ==
  /\ CancelInv
  /\ panicking = "nil ID" => nilDone # {}
  /\ crashed # "no" => Died

\* Only a caller whose context ended queues a cancel request.
LEMMA CancelInvStep ==
  ASSUME IndInv, CancelInv, Next
  PROVE  CancelInv'
<1>0. /\ requests \in Seq(Ids \cup {NoID}) /\ NoID \notin Ids
      /\ pc \in [Callers -> {"idle", "enqueue", "wait", "cancel"}]
  BY DEF IndInv, TypeOK, CallerType, NoID, Ids
<1>1. ASSUME NEW x \in Ids \cup {NoID}
      PROVE  In(Append(requests, x), NoID) => In(requests, NoID) \/ x = NoID
  <2>1. /\ Len(Append(requests, x)) = Len(requests) + 1
        /\ \A k \in 1..Len(requests) : Append(requests, x)[k] = requests[k]
        /\ Append(requests, x)[Len(requests) + 1] = x
    BY <1>0, AppendFacts
  <2>2. \A k \in 1..(Len(requests) + 1) : k \in 1..Len(requests) \/ k = Len(requests) + 1
    BY <1>0
  <2> QED
    BY <2>1, <2>2 DEF In
<1>2. CASE UNCHANGED <<pc, nilDone, requests>> /\ ctxDone \subseteq ctxDone'
  BY <1>2 DEF CancelInv
<1>3. ASSUME NEW c \in Callers, Begin(c) PROVE CancelInv'
  BY <1>0, <1>3 DEF Begin, handleRpcCall, CallerFrame, CancelInv
<1>4. ASSUME NEW c \in Callers, Continue(c) PROVE CancelInv'
  <2> USE <1>4 DEF Continue, CallerFrame
  <2>1. CASE sendRequest(c)
    <3>1. call[c] \in Ids
      BY <2>1 DEF sendRequest, IndInv, TypeOK, CallerType, CallerInv
    <3>2. In(requests', NoID) => In(requests, NoID)
      BY <1>0, <1>1, <2>1, <3>1 DEF sendRequest
    <3> QED
      BY <1>0, <2>1, <3>2 DEF sendRequest, CancelInv
  <2>2. CASE sendRequestExiting(c)
    BY <1>0, <2>2 DEF sendRequestExiting, Return, CancelInv
  <2>3. CASE receive(c)
    <3>1. UNCHANGED <<nilDone, ctxDone, requests>> /\ pc' = [pc EXCEPT ![c] = "idle"]
      BY <2>3 DEF receive, Return
    <3> QED
      BY <1>0, <3>1 DEF CancelInv
  <2>4. CASE ctxDoneSeen(c)
    BY <1>0, <2>4 DEF ctxDoneSeen, CancelInv
  <2>5. CASE sendCancel(c)
    BY <1>0, <2>5 DEF sendCancel, CancelInv
  <2> QED
    BY <2>1, <2>2, <2>3, <2>4, <2>5
<1>5. CASE Request
  <2>1. requests # <<>> /\ requests' = Tail(requests) /\ UNCHANGED <<pc, nilDone, ctxDone>>
    BY <1>5 DEF Request, loopRequest, LoopFrame, callerVars
  <2>2. /\ Len(requests) \in Nat \ {0} /\ Len(Tail(requests)) = Len(requests) - 1
        /\ \A k \in 1..(Len(requests) - 1) : Tail(requests)[k] = requests[k + 1]
    BY <1>0, <2>1, TailFacts
  <2>3. \A k \in 1..(Len(requests) - 1) : k + 1 \in 1..Len(requests)
    BY <2>2
  <2>4. In(requests', NoID) => In(requests, NoID)
    BY <2>1, <2>2, <2>3 DEF In
  <2> QED
    BY <2>1, <2>4 DEF CancelInv
<1>6. CASE \/ \E p \in Writers : Acquire(p)
           \/ \E p \in Senders : Write(p)
           \/ \E i \in Ids : AsyncCancel(i) \/ PeerAnswers(i)
           \/ Answer \/ Read \/ CloserEnds \/ Environment
  <2>1. UNCHANGED <<pc, nilDone, requests>>
    BY <1>6 DEF Acquire, Write, AsyncCancel, PeerAnswers, Answer, Read, CloserEnds, Environment,
       WriterFrame, ReaderFrame, EnvFrame, callerVars
  <2>2. ctxDone \subseteq ctxDone'
    BY <1>6 DEF Acquire, Write, AsyncCancel, PeerAnswers, Answer, Read, CloserEnds, Environment,
       WriterFrame, ReaderFrame, callerVars, closeStop, cancelContext, peerSendsAny, peerCalls,
       connLost, closerReturn, peerAnswers, PeerSends
  <2> QED
    BY <1>2, <2>1, <2>2
<1>7. CASE Incoming \/ Handle \/ Stop \/ Exit
  <2>1. UNCHANGED <<pc, nilDone, ctxDone, requests>>
    BY <1>7 DEF Incoming, Handle, Stop, Exit, LoopFrame, callerVars, loopIncoming,
       loopIncomingClosed, decodeError, handleResponseIgnored, handleResponse, handleCall,
       handleCallNoID, loopStop, writeClose, rangeInflight, closeInflight, cancelAll,
       closeExiting, panicEnds
  <2> QED
    BY <1>2, <2>1
<1> QED
  BY <1>3, <1>4, <1>5, <1>6, <1>7 DEF Next

\* The head of a queue is in it.
LEMMA HeadIn ==
  ASSUME NEW S, NEW q \in Seq(S), q # <<>>
  PROVE  In(q, Head(q))
<1>1. Len(q) \in Nat \ {0} /\ Head(q) = q[1]
  BY TailFacts
<1>2. 1 \in 1..Len(q)
  BY <1>1
<1> QED
  BY <1>1, <1>2 DEF In

\* A panic of the loop for a nil ID has a cancel request behind it.
LEMMA PanicStep ==
  ASSUME IndInv, CancelInv, panicking = "nil ID" => nilDone # {}, Next
  PROVE  panicking' = "nil ID" => nilDone' # {}
<1>1. nilDone # {} => nilDone' # {}
  BY DEF Next, Begin, handleRpcCall, Continue, sendRequest, sendRequestExiting, receive, Return,
     ctxDoneSeen, sendCancel, Acquire, Write, AsyncCancel, PeerAnswers, Answer, Read,
     CloserEnds, Environment, WriterFrame, ReaderFrame, EnvFrame, Incoming, Handle, Request,
     Stop, Exit, LoopFrame, callerVars
<1>2. CASE Request
  <2>1. CASE Head(requests) = NoID
    <3>1. requests \in Seq(Ids \cup {NoID}) /\ requests # <<>>
      BY <1>2 DEF Request, loopRequest, IndInv, TypeOK, CallerType
    <3>2. In(requests, NoID)
      BY <2>1, <3>1, HeadIn
    <3> QED
      BY <1>1, <3>2 DEF CancelInv
  <2>2. CASE Head(requests) # NoID
    BY <1>1, <1>2, <2>2 DEF Request, loopRequest
  <2> QED
    BY <2>1, <2>2
<1>3. CASE Handle
  <2>1. panicking' = panicking \/ panicking' = "nil frame ID"
    BY <1>3 DEF Handle, panicVars, handleCall, handleCallNoID
  <2> QED
    BY <1>1, <2>1
<1>4. CASE ~Request /\ ~Handle
  <2>1. panicking' = panicking
    BY <1>4 DEF Next, Begin, Continue, CallerFrame, Acquire, Write, AsyncCancel, PeerAnswers,
       Answer, Read, CloserEnds, Environment, WriterFrame, ReaderFrame, EnvFrame, Incoming,
       Stop, Exit, panicVars
  <2> QED
    BY <1>1, <2>1
<1> QED
  BY <1>2, <1>3, <1>4

\* The step that ends the process has one of the three reasons.
LEMMA DeathStep ==
  ASSUME IndInv, CancelInv, panicking = "nil ID" => nilDone # {}, LockHeldByOneWriter', Next
  PROVE  crashed' # "no" => Died'
<1>0. crashed = "no" /\ writeErr' \in BOOLEAN
  BY ClientStep DEF Next, IndInv, TypeOK, FlagType
<1>1. CASE crashed' = crashed
  BY <1>0, <1>1
<1>2. CASE crashed' = "unlock of unlocked mutex"
  BY <1>0, <1>2 DEF LockHeldByOneWriter, Died
<1>3. CASE panicEnds /\ LoopFrame /\ UNCHANGED panicVars
  <2>1. /\ loop = "exited" /\ panicking \in {"nil ID", "nil frame ID"} /\ crashed' = panicking
        /\ UNCHANGED <<nilDone, ctxDone, handlingLK, inflight>>
    BY <1>3 DEF panicEnds, LoopFrame, callerVars, loopVars, panicVars, IndInv, TypeOK, LoopType
  <2>2. panicking = "nil frame ID" => handlingLK /\ inflight = {}
    BY <2>1 DEF IndInv, PanicInv
  <2> QED
    BY <2>1, <2>2 DEF CancelInv, Died
<1>4. CASE Request \/ Handle
  BY <1>1, <1>4 DEF Request, loopRequest, Handle, handleCallNoID, decodeError,
     handleResponseIgnored, handleResponse, handleCall
<1>5. CASE \/ \E c \in Callers : Begin(c) \/ Continue(c)
           \/ \E p \in Writers : Acquire(p)
           \/ \E i \in Ids : AsyncCancel(i) \/ PeerAnswers(i)
           \/ Incoming \/ Stop \/ Read \/ CloserEnds \/ Environment
  BY <1>1, <1>5 DEF Begin, Continue, CallerFrame, Acquire, Lock, AsyncCancel, handleCtxAsync,
     PeerAnswers, EnvFrame, Incoming, loopIncoming, loopIncomingClosed, Stop, loopStop, Read,
     ReaderFrame, CloserEnds, Environment
<1>6. CASE (\E p \in Senders : Write(p)) \/ Answer \/ Exit
  BY <1>1, <1>2, <1>3, <1>6 DEF Write, WriteOK, WriteFail, UnlockAgain, Unlock, Answer,
     nextWriter, done, Exit, writeClose, rangeInflight, closeInflight, cancelAll, closeExiting
<1> QED
  BY <1>4, <1>5, <1>6 DEF Next

\* The process dies for no other reason than the three the code has: the cancel
\* request of a call whose context ended (websocket.go:173), a call of the peer
\* without an ID (websocket.go:459) while no call is in flight, and a write that
\* failed and unlocks twice (websocket.go:241). With a call in flight, a call of
\* the peer without an ID does not end the process: the deferred loop waits for
\* handlingLK for ever.
THEOREM ClientDiesOnlyThere == Spec => [](crashed # "no" => Died)
<1>1. Init => DeathInv
  BY DEF Init, DeathInv, CancelInv, In
<1>2. IndInv /\ DeathInv /\ LockHeldByOneWriter' /\ [Next]_vars => DeathInv'
  <2>1. CASE Next
    BY <2>1, CancelInvStep, PanicStep, DeathStep DEF DeathInv
  <2>2. ASSUME DeathInv, UNCHANGED vars PROVE DeathInv'
    <3>1. UNCHANGED <<crashed, nilDone, ctxDone, requests, pc, inflight, panicking, handlingLK,
                      writeErr>>
      BY <2>2 DEF vars, connVars, loopVars, callerVars, panicVars
    <3> QED
      BY <2>2, <3>1 DEF DeathInv, CancelInv, Died
  <2> QED
    BY <2>1, <2>2
<1>3. DeathInv => (crashed # "no" => Died)
  BY DEF DeathInv
<1> QED
  BY <1>1, <1>2, <1>3, ClientInvariant, ClientLockHeldByOneWriter, PTL DEF Spec
=============================================================================
