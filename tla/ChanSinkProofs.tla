----------------------------- MODULE ChanSinkProofs -----------------------------
(***************************************************************************)
(* Proofs about ChanSink, for every number of values and every set of      *)
(* faults: the handover of bufLk, what the buffer holds, when the process  *)
(* may die, and that the sink implements ChanSpec.                         *)
(***************************************************************************)
EXTENDS ChanSink, SequenceTheorems, TLAPS

Vals == 1..MaxVals

\* There is room for the value at hand: it has arrived and was not counted yet.
RoomInv == Len(accepted) + (IF sink \in {"lock", "push"} THEN 1 ELSE 0) <= arrived

\* Between its looks at the buffer the forwarder has left a value in it.
FrontInv == fwd \in {"select", "parked", "sent", "done"} => buf # <<>>

\* Why nothing is pushed behind values that were dropped: they were dropped
\* because chCtx ended, so either the caller's context is cancelled, and the
\* sink will see that, or the sink was taken out of chanHandlers.
EndInv ==
  /\ fwd = "done" \/ dropped => chDone
  /\ chDone => ctxDone \/ ~registered
  /\ sink = "close" \/ chClosed => ~registered
  /\ ~registered => sink \notin {"lock", "push"}

SinkInv ==
  /\ TypeOK /\ OneForwarder /\ NothingLostBefore /\ CrashNeedsClose
  /\ RoomInv /\ FrontInv /\ EndInv

-----------------------------------------------------------------------------
\* The value read is the next one accepted, and moves from buf to got.
LEMMA FrontToGot ==
  ASSUME NEW S, NEW g \in Seq(S), NEW s \in Seq(S), s # <<>>
  PROVE  /\ Append(g, Head(s)) \in Seq(S)
         /\ Append(g, Head(s)) \o Tail(s) = g \o s
         /\ Len(g) < Len(g \o s)
         /\ Head(s) = (g \o s)[Len(g) + 1]
<1>1. Head(s) \in S /\ Head(s) = s[1] /\ Tail(s) \in Seq(S) /\ Len(s) \in Nat \ {0}
  BY HeadTailProperties, EmptySeq
<1>2. Append(g, Head(s)) = g \o <<Head(s)>>
  BY <1>1, AppendIsConcat
<1>3. <<Head(s)>> \o Tail(s) = s
  BY <1>1
<1>4. (g \o <<Head(s)>>) \o Tail(s) = g \o (<<Head(s)>> \o Tail(s))
  BY <1>1, ConcatAssociative
<1>5. Append(g, Head(s)) \in Seq(S)
  BY <1>1, AppendProperties
<1>6. Len(g) < Len(g \o s) /\ Head(s) = (g \o s)[Len(g) + 1]
  BY <1>1, ConcatProperties, LenProperties
<1> QED
  BY <1>2, <1>3, <1>4, <1>5, <1>6

\* A value pushed at the end of buf is the last one accepted.
LEMMA PushedIsLast ==
  ASSUME NEW S, NEW g \in Seq(S), NEW s \in Seq(S), NEW x \in S
  PROVE  g \o Append(s, x) = Append(g \o s, x)
<1>1. Append(s, x) = s \o <<x>> /\ <<x>> \in Seq(S) /\ g \o s \in Seq(S)
  BY AppendIsConcat, ConcatProperties
<1>2. Append(g \o s, x) = (g \o s) \o <<x>>
  BY <1>1, AppendIsConcat
<1> QED
  BY <1>1, <1>2, ConcatAssociative

\* The initial state satisfies the invariant.
LEMMA InitSink == Init => SinkInv
<1> SUFFICES ASSUME Init PROVE SinkInv
  OBVIOUS
<1>1. TypeOK
  <2>1. FlagType
    BY DEF Init, FlagType
  <2>2. ValueType
    BY SinkAssumption, EmptySeq DEF SinkAssumption, Init, ValueType
  <2> QED
    BY <2>1, <2>2 DEF TypeOK
<1>2. NothingLostBefore
  BY ConcatEmptySeq, EmptySeq DEF Init, NothingLostBefore, Undelivered
<1> QED
  BY <1>1, <1>2 DEF Init, SinkInv, OneForwarder, CrashNeedsClose, RoomInv, FrontInv, EndInv

\* A value arrives.
LEMMA MessageStep ==
  ASSUME SinkInv, ~crashed, handleChanMessage
  PROVE  SinkInv'
<1> USE DEF SinkInv, handleChanMessage, Wake, ctxVars, histVars
<1>1. FlagType'
  BY DEF TypeOK, FlagType
<1>2. ValueType'
  BY SinkAssumption DEF SinkAssumption, TypeOK, ValueType, RoomInv
<1>3. OneForwarder'
  BY DEF TypeOK, FlagType, ValueType, OneForwarder, FrontInv
<1>4. NothingLostBefore'
  BY DEF NothingLostBefore, Undelivered, EndInv
<1>5. CrashNeedsClose'
  BY DEF CrashNeedsClose, EndInv, FrontInv
<1>6. RoomInv'
  BY DEF RoomInv, TypeOK, ValueType
<1>7. FrontInv'
  BY DEF FrontInv, OneForwarder
<1>8. EndInv'
  BY DEF EndInv, TypeOK, FlagType, ValueType
<1> QED
  BY <1>1, <1>2, <1>3, <1>4, <1>5, <1>6, <1>7, <1>8 DEF TypeOK

\* The sink takes the lock, unless the context is cancelled.
LEMMA CheckStep ==
  ASSUME SinkInv, ~crashed, checkCtx
  PROVE  SinkInv'
<1> USE DEF SinkInv, checkCtx, Wake, ctxVars, histVars
<1>1. FlagType'
  BY DEF TypeOK, FlagType
<1>2. ValueType'
  BY SinkAssumption DEF SinkAssumption, TypeOK, ValueType, RoomInv
<1>3. OneForwarder'
  BY DEF TypeOK, FlagType, ValueType, OneForwarder, FrontInv
<1>4. NothingLostBefore'
  BY DEF NothingLostBefore, Undelivered, EndInv
<1>5. CrashNeedsClose'
  BY DEF CrashNeedsClose, EndInv, FrontInv
<1>6. RoomInv'
  BY DEF RoomInv, TypeOK, ValueType
<1>7. FrontInv'
  BY DEF FrontInv, OneForwarder
<1>8. EndInv'
  BY DEF EndInv, TypeOK, FlagType, ValueType
<1> QED
  BY <1>1, <1>2, <1>3, <1>4, <1>5, <1>6, <1>7, <1>8 DEF TypeOK

\* The peer ends the stream.
LEMMA CloseStep ==
  ASSUME SinkInv, ~crashed, handleChanClose
  PROVE  SinkInv'
<1> USE DEF SinkInv, handleChanClose, Wake, ctxVars, histVars
<1>1. FlagType'
  BY DEF TypeOK, FlagType
<1>2. ValueType'
  BY SinkAssumption DEF SinkAssumption, TypeOK, ValueType, RoomInv
<1>3. OneForwarder'
  BY DEF TypeOK, FlagType, ValueType, OneForwarder, FrontInv
<1>4. NothingLostBefore'
  BY DEF NothingLostBefore, Undelivered, EndInv
<1>5. CrashNeedsClose'
  BY DEF CrashNeedsClose, EndInv, FrontInv
<1>6. RoomInv'
  BY DEF RoomInv, TypeOK, ValueType
<1>7. FrontInv'
  BY DEF FrontInv, OneForwarder
<1>8. EndInv'
  BY DEF EndInv, TypeOK, FlagType, ValueType
<1> QED
  BY <1>1, <1>2, <1>3, <1>4, <1>5, <1>6, <1>7, <1>8 DEF TypeOK

\* The sink closes ch.
LEMMA CloseChStep ==
  ASSUME SinkInv, ~crashed, closeCh
  PROVE  SinkInv'
<1> USE DEF SinkInv, closeCh, Wake, ctxVars, histVars
<1>1. FlagType'
  BY DEF TypeOK, FlagType
<1>2. ValueType'
  BY SinkAssumption DEF SinkAssumption, TypeOK, ValueType, RoomInv
<1>3. OneForwarder'
  BY DEF TypeOK, FlagType, ValueType, OneForwarder, FrontInv
<1>4. NothingLostBefore'
  BY DEF NothingLostBefore, Undelivered, EndInv
<1>5. CrashNeedsClose'
  BY DEF CrashNeedsClose, EndInv, FrontInv
<1>6. RoomInv'
  BY DEF RoomInv, TypeOK, ValueType
<1>7. FrontInv'
  BY DEF FrontInv, OneForwarder
<1>8. EndInv'
  BY DEF EndInv, TypeOK, FlagType, ValueType
<1> QED
  BY <1>1, <1>2, <1>3, <1>4, <1>5, <1>6, <1>7, <1>8 DEF TypeOK

\* The forwarder gives the lock back.
LEMMA TopStep ==
  ASSUME SinkInv, ~crashed, loopTop
  PROVE  SinkInv'
<1> USE DEF SinkInv, loopTop, Wake, ctxVars, histVars
<1>1. FlagType'
  BY DEF TypeOK, FlagType
<1>2. ValueType'
  BY SinkAssumption DEF SinkAssumption, TypeOK, ValueType, RoomInv
<1>3. OneForwarder'
  BY DEF TypeOK, FlagType, ValueType, OneForwarder, FrontInv
<1>4. NothingLostBefore'
  BY DEF NothingLostBefore, Undelivered, EndInv
<1>5. CrashNeedsClose'
  BY DEF CrashNeedsClose, EndInv, FrontInv
<1>6. RoomInv'
  BY DEF RoomInv, TypeOK, ValueType
<1>7. FrontInv'
  BY DEF FrontInv, OneForwarder
<1>8. EndInv'
  BY DEF EndInv, TypeOK, FlagType, ValueType
<1> QED
  BY <1>1, <1>2, <1>3, <1>4, <1>5, <1>6, <1>7, <1>8 DEF TypeOK

\* The forwarder parks.
LEMMA ParkStep ==
  ASSUME SinkInv, ~crashed, park
  PROVE  SinkInv'
<1> USE DEF SinkInv, park, Wake, ctxVars, histVars
<1>1. FlagType'
  BY DEF TypeOK, FlagType
<1>2. ValueType'
  BY SinkAssumption DEF SinkAssumption, TypeOK, ValueType, RoomInv
<1>3. OneForwarder'
  BY DEF TypeOK, FlagType, ValueType, OneForwarder, FrontInv
<1>4. NothingLostBefore'
  BY DEF NothingLostBefore, Undelivered, EndInv
<1>5. CrashNeedsClose'
  BY DEF CrashNeedsClose, EndInv, FrontInv
<1>6. RoomInv'
  BY DEF RoomInv, TypeOK, ValueType
<1>7. FrontInv'
  BY DEF FrontInv, OneForwarder
<1>8. EndInv'
  BY DEF EndInv, TypeOK, FlagType, ValueType
<1> QED
  BY <1>1, <1>2, <1>3, <1>4, <1>5, <1>6, <1>7, <1>8 DEF TypeOK

\* The forwarder sees the end of chCtx.
LEMMA DoneStep ==
  ASSUME SinkInv, ~crashed, selectDone
  PROVE  SinkInv'
<1> USE DEF SinkInv, selectDone, Wake, ctxVars, histVars
<1>1. FlagType'
  BY DEF TypeOK, FlagType
<1>2. ValueType'
  BY SinkAssumption DEF SinkAssumption, TypeOK, ValueType, RoomInv
<1>3. OneForwarder'
  BY DEF TypeOK, FlagType, ValueType, OneForwarder, FrontInv
<1>4. NothingLostBefore'
  BY DEF NothingLostBefore, Undelivered, EndInv
<1>5. CrashNeedsClose'
  BY DEF CrashNeedsClose, EndInv, FrontInv
<1>6. RoomInv'
  BY DEF RoomInv, TypeOK, ValueType
<1>7. FrontInv'
  BY DEF FrontInv, OneForwarder
<1>8. EndInv'
  BY DEF EndInv, TypeOK, FlagType, ValueType
<1> QED
  BY <1>1, <1>2, <1>3, <1>4, <1>5, <1>6, <1>7, <1>8 DEF TypeOK

\* The forwarder sends on the closed ch.
LEMMA ClosedStep ==
  ASSUME SinkInv, ~crashed, selectClosed
  PROVE  SinkInv'
<1> USE DEF SinkInv, selectClosed, Wake, ctxVars, histVars
<1>1. FlagType'
  BY DEF TypeOK, FlagType
<1>2. ValueType'
  BY SinkAssumption DEF SinkAssumption, TypeOK, ValueType, RoomInv
<1>3. OneForwarder'
  BY DEF TypeOK, FlagType, ValueType, OneForwarder, FrontInv
<1>4. NothingLostBefore'
  BY DEF NothingLostBefore, Undelivered, EndInv
<1>5. CrashNeedsClose'
  BY DEF CrashNeedsClose, EndInv, FrontInv
<1>6. RoomInv'
  BY DEF RoomInv, TypeOK, ValueType
<1>7. FrontInv'
  BY DEF FrontInv, OneForwarder
<1>8. EndInv'
  BY DEF EndInv, TypeOK, FlagType, ValueType
<1> QED
  BY <1>1, <1>2, <1>3, <1>4, <1>5, <1>6, <1>7, <1>8 DEF TypeOK

\* The caller cancels its context.
LEMMA CancelStep ==
  ASSUME SinkInv, ~crashed, cancel
  PROVE  SinkInv'
<1> USE DEF SinkInv, cancel, Wake, ctxVars, histVars
<1>1. FlagType'
  BY DEF TypeOK, FlagType
<1>2. ValueType'
  BY SinkAssumption DEF SinkAssumption, TypeOK, ValueType, RoomInv
<1>3. OneForwarder'
  BY DEF TypeOK, FlagType, ValueType, OneForwarder, FrontInv
<1>4. NothingLostBefore'
  BY DEF NothingLostBefore, Undelivered, EndInv
<1>5. CrashNeedsClose'
  BY DEF CrashNeedsClose, EndInv, FrontInv
<1>6. RoomInv'
  BY DEF RoomInv, TypeOK, ValueType
<1>7. FrontInv'
  BY DEF FrontInv, OneForwarder
<1>8. EndInv'
  BY DEF EndInv, TypeOK, FlagType, ValueType
<1> QED
  BY <1>1, <1>2, <1>3, <1>4, <1>5, <1>6, <1>7, <1>8 DEF TypeOK

\* A value is pushed.
LEMMA PushStep ==
  ASSUME SinkInv, ~crashed, pushBack
  PROVE  SinkInv'
<1> USE DEF SinkInv, pushBack, Wake, ctxVars, histVars
<1>1. FlagType'
  BY DEF TypeOK, FlagType
<1>2. ValueType'
  BY SinkAssumption DEF SinkAssumption, TypeOK, ValueType, RoomInv
<1>3. OneForwarder'
  BY DEF TypeOK, FlagType, ValueType, OneForwarder, FrontInv
<1>4. NothingLostBefore'
  <2> DEFINE x == Len(accepted) + 1
  <2>1. x \in Vals
    BY SinkAssumption DEF SinkAssumption, RoomInv, TypeOK, ValueType, Vals
  <2>2. ~dropped /\ ~dropped' /\ got \o Undelivered = accepted
    BY DEF NothingLostBefore
  <2>3. /\ buf \in Seq(Vals) /\ got \in Seq(Vals)
        /\ accepted' = Append(accepted, x) /\ buf' = Append(buf, x) /\ got' = got
    BY DEF TypeOK, ValueType, Vals
  <2> HIDE DEF x
  <2>4. Undelivered \in Seq(Vals) /\ Undelivered' = Append(Undelivered, x)
    <3>1. CASE fwd = "sent"
      <4>1. fwd' = "sent" /\ buf # <<>>
        BY <3>1 DEF FrontInv
      <4>2. Tail(buf) \in Seq(Vals) /\ Tail(buf') = Append(Tail(buf), x)
        BY <2>1, <2>3, <4>1, HeadTailAppend, HeadTailProperties
      <4> QED
        BY <3>1, <4>1, <4>2 DEF Undelivered
    <3>2. CASE fwd # "sent"
      <4>1. fwd' # "sent"
        BY <3>2
      <4> QED
        BY <2>3, <3>2, <4>1 DEF Undelivered
    <3> QED
      BY <3>1, <3>2
  <2>5. got \o Append(Undelivered, x) = Append(got \o Undelivered, x)
    <3>1. \A g, s \in Seq(Vals), v \in Vals : g \o Append(s, v) = Append(g \o s, v)
      BY PushedIsLast
    <3> HIDE DEF SinkInv, pushBack, Wake, ctxVars, histVars
    <3> QED
      BY <2>1, <2>3, <2>4, <3>1
  <2> QED
    BY <2>2, <2>3, <2>4, <2>5 DEF NothingLostBefore
<1>5. CrashNeedsClose'
  BY DEF CrashNeedsClose, EndInv, FrontInv
<1>6. RoomInv'
  BY DEF RoomInv, TypeOK, ValueType
<1>7. FrontInv'
  BY DEF FrontInv, OneForwarder
<1>8. EndInv'
  BY DEF EndInv, TypeOK, FlagType, ValueType
<1> QED
  BY <1>1, <1>2, <1>3, <1>4, <1>5, <1>6, <1>7, <1>8 DEF TypeOK

\* The caller reads a value.
LEMMA SendStep ==
  ASSUME SinkInv, ~crashed, selectSend
  PROVE  SinkInv'
<1> USE DEF SinkInv, selectSend, Wake, ctxVars, histVars
<1>0. /\ buf \in Seq(Vals) /\ buf # <<>> /\ got \in Seq(Vals) /\ accepted \in Seq(Vals)
      /\ ~dropped /\ ~dropped' /\ got \o buf = accepted
      /\ UNCHANGED <<accepted, buf>>
      /\ got' = Append(got, Head(buf)) /\ fwd' = "sent"
  BY DEF TypeOK, ValueType, Vals, FrontInv, NothingLostBefore, Undelivered
<1>a. /\ got' \in Seq(Vals) /\ got' \o Tail(buf) = accepted
      /\ Len(got) < Len(accepted) /\ Head(buf) = accepted[Len(got) + 1]
  BY <1>0, FrontToGot
<1>b. Len(got') = Len(got) + 1 /\ Len(got) \in Nat /\ Len(accepted) \in Nat
  BY <1>0, HeadTailProperties, AppendProperties, LenProperties
<1>1. FlagType'
  BY DEF TypeOK, FlagType
<1>2. ValueType'
  BY <1>0, <1>a, <1>b DEF TypeOK, ValueType, Vals
<1>3. OneForwarder'
  BY DEF TypeOK, FlagType, ValueType, OneForwarder, FrontInv
<1>4. NothingLostBefore'
  BY <1>0, <1>a DEF NothingLostBefore, Undelivered
<1>5. CrashNeedsClose'
  BY DEF CrashNeedsClose, EndInv, FrontInv
<1>6. RoomInv'
  BY DEF RoomInv, TypeOK, ValueType
<1>7. FrontInv'
  BY DEF FrontInv, OneForwarder
<1>8. EndInv'
  BY DEF EndInv, TypeOK, FlagType, ValueType
<1> QED
  BY <1>1, <1>2, <1>3, <1>4, <1>5, <1>6, <1>7, <1>8 DEF TypeOK

\* The forwarder takes the lock again.
LEMMA RelockStep ==
  ASSUME SinkInv, ~crashed, relock
  PROVE  SinkInv'
<1> USE DEF SinkInv, relock, Wake, ctxVars, histVars
<1>0. /\ buf \in Seq(Vals) /\ buf # <<>> /\ ~dropped /\ got \o Undelivered = accepted
      /\ UNCHANGED <<accepted, got>> /\ fwd' = "top" /\ sink # "push" /\ sink' = sink
  BY DEF TypeOK, FlagType, ValueType, Vals, FrontInv, NothingLostBefore, OneForwarder
<1>a. buf' \in Seq(Vals)
  BY <1>0, HeadTailProperties, EmptySeq
<1>1. FlagType'
  BY DEF TypeOK, FlagType
<1>2. ValueType'
  BY <1>0, <1>a DEF TypeOK, ValueType, Vals
<1>3. OneForwarder'
  BY DEF TypeOK, FlagType, ValueType, OneForwarder, FrontInv
<1>4. NothingLostBefore'
  <2>1. CASE fwd = "done"
    <3>1. dropped' = TRUE /\ buf' = <<>>
      BY <2>1
    <3> QED
      BY <1>0, <3>1 DEF NothingLostBefore
  <2>2. CASE fwd = "sent"
    <3>1. Undelivered' = Undelivered
      BY <1>0, <2>2 DEF Undelivered
    <3>2. ~dropped'
      BY <1>0, <2>2
    <3> QED
      BY <1>0, <3>1, <3>2 DEF NothingLostBefore
  <2> QED
    BY <2>1, <2>2
<1>5. CrashNeedsClose'
  BY DEF CrashNeedsClose, EndInv, FrontInv
<1>6. RoomInv'
  BY DEF RoomInv, TypeOK, ValueType
<1>7. FrontInv'
  BY DEF FrontInv, OneForwarder
<1>8. EndInv'
  BY DEF EndInv, TypeOK, FlagType, ValueType
<1> QED
  BY <1>1, <1>2, <1>3, <1>4, <1>5, <1>6, <1>7, <1>8 DEF TypeOK

\* Every step preserves the invariant.
LEMMA NextSink == SinkInv /\ [Next]_vars => SinkInv'
<1> SUFFICES ASSUME SinkInv, [Next]_vars PROVE SinkInv'
  OBVIOUS
<1>1. CASE Next
  <2>1. ~crashed
    BY <1>1 DEF Next
  <2> QED
    BY <1>1, <2>1, MessageStep, CheckStep, CloseStep, CloseChStep, TopStep, ParkStep, DoneStep,
       ClosedStep, CancelStep, PushStep, SendStep, RelockStep
    DEF Next, SinkStep, Forwarder
<1>2. CASE UNCHANGED vars
  BY <1>2 DEF vars, ctxVars, histVars, SinkInv, TypeOK, FlagType, ValueType, OneForwarder,
     NothingLostBefore, Undelivered, CrashNeedsClose, RoomInv, FrontInv, EndInv
<1> QED
  BY <1>1, <1>2

\* SinkInv holds in every reachable state.
THEOREM SinkInductive == Spec => []SinkInv
  BY InitSink, NextSink, PTL DEF Spec

\* The variables of the sink have the values TypeOK says (makeOutChan).
THEOREM SinkTypeCorrect == Spec => []TypeOK
<1>1. SinkInv => TypeOK
  BY DEF SinkInv
<1> QED
  BY <1>1, SinkInductive, PTL

\* bufLk is handed from the sink to the one forwarder and back (client.go,
\* makeOutChan): no second forwarder is started.
THEOREM SinkOneForwarder == Spec => []OneForwarder
<1>1. SinkInv => OneForwarder
  BY DEF SinkInv
<1> QED
  BY <1>1, SinkInductive, PTL

\* The buffer holds what was accepted and not read, until buf.Init drops all
\* of it at the end of the stream.
THEOREM SinkLosesNothingBefore == Spec => []NothingLostBefore
<1>1. SinkInv => NothingLostBefore
  BY DEF SinkInv
<1> QED
  BY <1>1, SinkInductive, PTL

\* A send on the closed ch needs a close by the peer over a buffer with values.
THEOREM SinkCrashNeedsClose == Spec => []CrashNeedsClose
<1>1. SinkInv => CrashNeedsClose
  BY DEF SinkInv
<1> QED
  BY <1>1, SinkInductive, PTL

-----------------------------------------------------------------------------
(* The sink implements ChanSpec.                                           *)

\* A push is an Accept of the abstract channel.
LEMMA PushAccepts ==
  ASSUME SinkInv, pushBack
  PROVE  Chan!Accept
BY DEF SinkInv, NothingLostBefore, pushBack, Chan!Accept

\* A read is a Deliver.
LEMMA SendDelivers ==
  ASSUME SinkInv, selectSend
  PROVE  Chan!Deliver
<1>1. /\ buf \in Seq(Vals) /\ buf # <<>> /\ got \in Seq(Vals) /\ ~dropped
      /\ got \o buf = accepted
  BY DEF SinkInv, TypeOK, ValueType, Vals, FrontInv, NothingLostBefore, Undelivered,
         selectSend
<1>2. Len(got) < Len(accepted) /\ Head(buf) = accepted[Len(got) + 1]
  BY <1>1, FrontToGot
<1> QED
  BY <1>1, <1>2 DEF selectSend, Chan!Deliver

\* A lock taken again ends the stream or changes nothing that a reader sees.
LEMMA RelockEnds ==
  ASSUME SinkInv, relock
  PROVE  Chan!End \/ UNCHANGED Chan!specVars
<1>1. CASE fwd = "done"
  BY <1>1 DEF relock, Chan!End
<1>2. CASE fwd = "sent"
  <2>1. dropped' = dropped
    BY <1>2 DEF relock, SinkInv, TypeOK, FlagType
  <2> QED
    BY <2>1 DEF relock, Chan!specVars
<1> QED
  BY <1>1, <1>2 DEF relock

\* The values of a channel that came over the connection reach the caller in
\* order, without gap or repetition, and nothing comes after the end: the
\* sink of makeOutChan implements the abstract channel.
THEOREM SinkImplementsChan == Spec => ImplementsChan
<1>1. Init => Chan!SpecInit
  BY DEF Init, Chan!SpecInit
<1>2. ASSUME SinkInv, [Next]_vars
      PROVE  [Chan!SpecNext]_(Chan!specVars)
  <2>1. CASE pushBack
    BY <1>2, <2>1, PushAccepts DEF Chan!SpecNext
  <2>2. CASE selectSend
    BY <1>2, <2>2, SendDelivers DEF Chan!SpecNext
  <2>3. CASE relock
    BY <1>2, <2>3, RelockEnds DEF Chan!SpecNext
  <2>4. CASE \/ handleChanMessage \/ handleChanClose \/ checkCtx \/ closeCh \/ loopTop
             \/ park \/ selectDone \/ selectClosed \/ cancel
    BY <2>4 DEF handleChanMessage, handleChanClose, checkCtx, closeCh, loopTop, park,
       selectDone, selectClosed, cancel, histVars, Chan!specVars
  <2>5. CASE UNCHANGED vars
    BY <2>5 DEF vars, histVars, Chan!specVars
  <2> QED
    BY <1>2, <2>1, <2>2, <2>3, <2>4, <2>5 DEF Next, SinkStep, Forwarder
<1> QED
  BY <1>1, <1>2, SinkInductive, PTL DEF Spec, ImplementsChan, Chan!ChanFIFO
=============================================================================
