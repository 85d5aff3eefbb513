---------------------------- MODULE RpcServerProofs ----------------------------
(***************************************************************************)
(* Proofs about RpcServer, for every number of calls and values, all kinds *)
(* of calls and every set of faults: the writer lock, the answers, and the *)
(* channels that handleOutChans forwards. Each part of the invariant has a *)
(* lemma of its own, with a step for each action that can disturb it.      *)
(***************************************************************************)
EXTENDS RpcServer, SequenceTheorems, FiniteSetTheorems, TLAPS

\* A call has a reply once its method has run; only one that has a channel
\* registers it, and it has no channel id before.
CallInv ==
  /\ \A i \in Ids : h[i] \in {"none", "call"} <=> reply[i] = "none"
  /\ \A i \in Ids : h[i] \in {"register", "answer"} => reply[i] = "chan"
  /\ \A i \in Ids : h[i] \in {"none", "call", "lock", "write"} => chanOf[i] = None

\* Ids of channels are given out once, at most one to a call.
Numbered == {i \in Ids : chanOf[i] # None}
CountInv == chanCtr = Cardinality(Numbered)

\* The lock, without cardinalities. Only a failed write leads to "unlock".
LockInv ==
  /\ ~writeErr => /\ \A i, j \in Holders : i = j
                  /\ oc = "write" => Holders = {}
                  /\ writeLK <=> Holders # {} \/ oc = "write"
                  /\ crashed # "unlock of unlocked mutex"
  /\ oc = "unlock" => writeErr

\* Why the process may have died.
EndInv ==
  /\ regClosed => loop # "select"
  /\ writeErr => conn # "open"
  /\ crashed = "send on closed channel" => loop # "select"

\* Before its goroutine is done a call has no answer, afterwards at most one.
ReplyInv ==
  \A i \in Ids :
    /\ h[i] \notin {"done", "end"} => Responses(i) = {}
    /\ \A j, k \in Responses(i) : j = k
    /\ h[i] \in {"done", "end"} /\ ~writeErr /\ reply[i] # "bad" => Responses(i) # {}

\* A call whose channel is registered.
Registered == {i \in Ids : h[i] \in {"answer", "done", "end"}}
Sending == oc \in {"lock", "write"}

\* The select cases and their ids, and where they come from.
CaseInv ==
  /\ Len(cases) = Len(caseToID)
  /\ \A k \in 1..Len(cases) : cases[k] \in Registered /\ caseToID[k] = chanOf[cases[k]]

\* The values that were sent, and the one on its way.
ValueInv ==
  /\ \A k \in 1..Len(out) : out[k].t = "val" =>
       /\ out[k].src \in Registered /\ out[k].ch = chanOf[out[k].src]
       /\ out[k].val <= taken[out[k].src]
  /\ Sending /\ msg.t = "val" =>
       /\ msg.src \in Registered /\ msg.ch = chanOf[msg.src] /\ msg.val = taken[msg.src]
       /\ \A k \in 1..Len(out) : out[k].t = "val" /\ out[k].src = msg.src => out[k].val < msg.val
  /\ \A j, k \in 1..Len(out) :
       j < k /\ out[j].t = "val" /\ out[k].t = "val" /\ out[j].src = out[k].src
       => out[j].val < out[k].val

\* The id of a channel that may be written about has been announced, or its
\* handler is about to do so and holds the lock; or nothing is written any more.
Announced(ch) == \E j \in 1..Len(out) : out[j].t = "resp" /\ out[j].ch = ch
Expected(ch) == writeErr \/ Announced(ch) \/ \E i \in Ids : h[i] = "answer" /\ chanOf[i] = ch
AnnounceInv ==
  /\ \A k \in 1..Len(caseToID) : Expected(caseToID[k])
  /\ Sending => msg.t \in {"val", "close"} /\ Expected(msg.ch)
  /\ AnnouncedFirst

ServerInv ==
  /\ TypeOK /\ CallInv /\ CountInv /\ HandlingTracksCalls /\ LockInv /\ EndInv
  /\ ReplyInv /\ CaseInv /\ ValueInv /\ AnnounceInv

\* What the proofs need of a call that arrives is that its id is not in use. A
\* peer that numbers its calls in the order of arrival, as in RpcServer, is one
\* case; the client of RpcSystem, whose requests overtake each other, another.
Arrives(i, k) == h[i] = "none" /\ handleCall(i, k)
AnyNext ==
  /\ crashed = "no"
  /\ \/ (\E n \in Ids, k \in CallKinds : Arrives(n, k)) /\ LoopFrame
     \/ handleNotification /\ LoopFrame
     \/ (\E d \in Ids \cup {None} : cancelCtx(d)) /\ LoopFrame
     \/ (loopReturn \/ serveReturn) /\ LoopFrame
     \/ \E i \in Ids : Handler(i)
     \/ OutChans \/ Environment

\* The ids behind the number of calls that have arrived are not in use.
OrderInv == \A i \in Ids : i > nCalls => h[i] = "none"

-----------------------------------------------------------------------------
(* Sequences and small facts.                                              *)

\* Append leaves the old elements and puts the new one last.
LEMMA AppendFacts ==
  ASSUME NEW S, NEW s \in Seq(S), NEW x \in S
  PROVE  /\ Append(s, x) \in Seq(S)
         /\ Len(Append(s, x)) = Len(s) + 1 /\ Len(s) \in Nat
         /\ \A k \in 1..Len(s) : Append(s, x)[k] = s[k]
         /\ Append(s, x)[Len(s) + 1] = x
BY AppendProperties, LenProperties

\* MoveLast fills the gap at k with the last element.
LEMMA MoveLastFacts ==
  ASSUME NEW S, NEW s \in Seq(S), NEW k \in 1..Len(s)
  PROVE  /\ MoveLast(s, k) \in Seq(S) /\ Len(MoveLast(s, k)) = Len(s) - 1
         /\ Len(s) \in Nat \ {0}
         /\ \A j \in 1..(Len(s) - 1) : MoveLast(s, k)[j] = IF j = k THEN s[Len(s)] ELSE s[j]
<1> DEFINE e == [s EXCEPT ![k] = s[Len(s)]]
<1>1. Len(s) \in Nat \ {0} /\ s[Len(s)] \in S
  BY LenProperties
<1>2. /\ e \in Seq(S) /\ Len(e) = Len(s)
      /\ \A j \in 1..Len(s) : e[j] = IF j = k THEN s[Len(s)] ELSE s[j]
  BY <1>1, ExceptSeq
<1> DEFINE n == Len(s) - 1
<1>3. n \in Nat /\ n \in Int /\ 1 \in Int /\ \A j \in 1..n : e[j] \in S
  BY <1>1, <1>2, ElementOfSeq
<1> HIDE DEF e, n
<1>4. /\ SubSeq(e, 1, n) \in Seq(S)
      /\ Len(SubSeq(e, 1, n)) = IF 1 <= n THEN n - 1 + 1 ELSE 0
      /\ \A j \in 1..(n - 1 + 1) : SubSeq(e, 1, n)[j] = e[1 + j - 1]
  BY <1>3, SubSeqProperties
<1>5. Len(SubSeq(e, 1, n)) = n /\ \A j \in 1..n : SubSeq(e, 1, n)[j] = e[j]
  BY <1>3, <1>4
<1>6. MoveLast(s, k) = SubSeq(e, 1, n)
  BY DEF MoveLast, e, n
<1>7. n = Len(s) - 1 /\ \A j \in 1..n : j \in 1..Len(s)
  BY <1>1 DEF n
<1> QED
  BY <1>1, <1>2, <1>4, <1>5, <1>6, <1>7

\* The ids, and what is written, have their types.
LEMMA IdFacts ==
  /\ Ids \subseteq Nat \ {0} /\ None \notin Ids
  /\ IsFiniteSet(Ids) /\ Cardinality(Ids) = MaxCalls
BY ServerAssumption, FS_Interval DEF ServerAssumption, Ids, None

-----------------------------------------------------------------------------
(* The lock.                                                               *)

\* A step that touches neither the lock nor the writers.
LEMMA LockSame ==
  ASSUME LockInv, writeErr \in BOOLEAN, writeLK \in BOOLEAN,
         Holders' = Holders, UNCHANGED <<writeLK, writeErr, oc, crashed>>
  PROVE  LockInv'
BY DEF LockInv

\* A handler takes, keeps or gives back the lock.
LEMMA LockHandler ==
  ASSUME ServerInv, NEW i \in Ids, Handler(i), crashed = "no"
  PROVE  LockInv'
<1> USE DEF Handler, lockVars, ocVars, chanVars
<1>0. /\ h \in [Ids -> {"none", "call", "lock", "write", "register", "answer", "done", "end"}]
      /\ writeLK \in BOOLEAN /\ writeErr \in BOOLEAN /\ LockInv /\ (i \in Holders <=> h[i] \in {"write", "register", "answer"})
  BY DEF ServerInv, TypeOK, CallType, FlagType, Holders
<1>1. CASE doCall(i) \/ done(i)
  <2>1. Holders' = Holders /\ UNCHANGED <<lockVars, oc, crashed>>
    BY <1>0, <1>1 DEF doCall, done, Holders
  <2> QED
    BY <1>0, <2>1 DEF LockInv
<1>2. CASE lock(i)
  <2>1. Holders' = Holders \cup {i} /\ ~writeLK /\ writeLK' /\ UNCHANGED <<writeErr, oc, crashed>>
    BY <1>0, <1>2 DEF lock, Holders
  <2> QED
    BY <1>0, <2>1 DEF LockInv
<1>3. CASE nextWriterErr(i)
  <2>1. writeErr /\ writeErr' = writeErr
    BY <1>3 DEF nextWriterErr
  <2> QED
    BY <2>1 DEF LockInv
<1>4. CASE handleChanOut(i)
  <2>1. Holders' = Holders /\ UNCHANGED <<lockVars, crashed>>
    BY <1>0, <1>4 DEF handleChanOut, Holders
  <2>2. (oc' = "write" <=> oc = "write") /\ (oc' = "unlock" <=> oc = "unlock")
    BY <1>4 DEF handleChanOut
  <2> QED
    BY <1>0, <2>1, <2>2 DEF LockInv
<1>5. CASE register(i)
  <2>1. Holders' = Holders /\ UNCHANGED <<lockVars, oc, crashed>>
    BY <1>0, <1>5 DEF register, Holders
  <2> QED
    BY <1>0, <2>1 DEF LockInv
<1>6. CASE registerClosed(i)
  <2>1. /\ Holders' = Holders /\ UNCHANGED <<lockVars, oc>>
        /\ crashed' = "send on closed channel"
    BY <1>6 DEF registerClosed, Holders
  <2> QED
    BY <1>0, <2>1 DEF LockInv
<1>7. CASE respond(i)
  <2>1. /\ Holders' = Holders \ {i} /\ i \in Holders /\ oc' = oc
        /\ Unlock /\ (writeErr' = writeErr \/ writeErr')
    BY <1>0, <1>7 DEF respond, Holders
  <2>2. CASE writeErr'
    BY <2>2 DEF LockInv
  <2>3. CASE ~writeErr'
    <3>1. ~writeErr
      BY <2>1, <2>3
    <3> QED
      BY <1>0, <2>1, <2>3, <3>1 DEF LockInv, Unlock
  <2> QED
    BY <2>2, <2>3
<1> QED
  BY <1>1, <1>2, <1>3, <1>4, <1>5, <1>6, <1>7

\* handleOutChans does.
LEMMA LockOutChans ==
  ASSUME ServerInv, OutChans, crashed = "no"
  PROVE  LockInv'
<1> USE DEF OutChans, lockVars, callVars
<1>0. LockInv /\ writeLK \in BOOLEAN /\ writeErr \in BOOLEAN /\ Holders' = Holders
  BY DEF ServerInv, TypeOK, FlagType, Holders
<1>1. CASE (\E k \in Ids : forward(k) \/ outChanClosed(k)) \/ registerChClosed
  <2>1. /\ UNCHANGED <<lockVars, crashed>> /\ oc \notin {"write", "unlock"}
        /\ oc' \notin {"write", "unlock"}
    BY <1>1 DEF forward, outChanClosed, registerChClosed
  <2> QED
    BY <1>0, <2>1 DEF LockInv
<1>2. CASE ocLock
  BY <1>0, <1>2 DEF ocLock, LockInv
<1>3. CASE ocWrite
  BY <1>0, <1>3 DEF ocWrite, LockInv, Unlock
<1>4. CASE ocWriteFail
  BY <1>0, <1>4 DEF ocWriteFail, LockInv
<1>5. CASE ocUnlockAgain
  BY <1>0, <1>5 DEF ocUnlockAgain, LockInv
<1> QED
  BY <1>1, <1>2, <1>3, <1>4, <1>5

\* Nobody else does.
LEMMA LockStep ==
  ASSUME ServerInv, AnyNext
  PROVE  LockInv'
<1> USE DEF callVars, lockVars, ocVars, chanVars, LoopFrame
<1>0. LockInv /\ writeErr \in BOOLEAN /\ crashed = "no" /\ h \in [Ids -> {"none", "call", "lock", "write", "register", "answer", "done", "end"}]
  BY DEF AnyNext, ServerInv, TypeOK, CallType, FlagType
<1>1. CASE (\E n \in Ids, k \in CallKinds : Arrives(n, k)) /\ LoopFrame
  <2>1. PICK n \in Ids, k \in CallKinds : Arrives(n, k)
    BY <1>1
  <2>2. Holders' = Holders
    BY <1>0, <2>1 DEF Arrives, handleCall, Holders
  <2> QED
    BY <1>0, <1>1, <2>1, <2>2 DEF Arrives, handleCall, LockInv
<1>2. CASE /\ handleNotification \/ (\E d \in Ids \cup {None} : cancelCtx(d)) \/ serveReturn
           /\ LoopFrame
  <2>1. Holders' = Holders /\ UNCHANGED <<lockVars, oc, crashed>>
    BY <1>2 DEF handleNotification, cancelCtx, serveReturn, Holders
  <2> QED
    BY <1>0, <2>1 DEF LockInv
<1>3. CASE loopReturn /\ LoopFrame
  <2>1. Holders' = Holders /\ UNCHANGED <<writeLK, oc, crashed>> /\ (writeErr => writeErr')
    BY <1>0, <1>3 DEF loopReturn, Holders
  <2> QED
    BY <1>0, <2>1 DEF LockInv
<1>4. CASE Environment
  <2>1. Holders' = Holders /\ UNCHANGED <<lockVars, oc, crashed>>
    BY <1>4 DEF Environment, EnvFrame, Holders
  <2> QED
    BY <1>0, <2>1 DEF LockInv
<1> QED
  BY <1>0, <1>1, <1>2, <1>3, <1>4, LockHandler, LockOutChans DEF AnyNext

-----------------------------------------------------------------------------
(* Types and the calls.                                                    *)

\* A method that returned has its answer and, perhaps, its channel.
LEMMA CallDone ==
  ASSUME ServerInv, NEW i \in Ids, doCall(i)
  PROVE  \E r \in {"value", "error", "bad", "chan"}, p \in {"none", "open", "nil"} :
           /\ reply' = [reply EXCEPT ![i] = r] /\ prod' = [prod EXCEPT ![i] = p]
           /\ h' = [h EXCEPT ![i] = "lock"]
<1>1. PICK r \in IF kind[i] = "plain" THEN {"value", "error", "bad"}
              ELSE IF kind[i] = "chan" THEN {"chan", "error"} ELSE {"error"} :
       /\ reply' = [reply EXCEPT ![i] = r]
       /\ \E p \in IF r = "chan" THEN {"open", "nil"} ELSE {"none"} :
            prod' = [prod EXCEPT ![i] = p]
  BY DEF doCall
<1>2. PICK p \in IF r = "chan" THEN {"open", "nil"} ELSE {"none"} :
            prod' = [prod EXCEPT ![i] = p]
  BY <1>1
<1>3. r \in {"value", "error", "bad", "chan"} /\ p \in {"none", "open", "nil"}
  BY <1>1, <1>2
<1>4. h' = [h EXCEPT ![i] = "lock"]
  BY DEF doCall
<1> QED
  BY <1>1, <1>2, <1>3, <1>4, Zenon

\* A channel id is the next one, and there are never more ids than calls.
LEMMA GiveId ==
  ASSUME ServerInv, NEW i \in Ids, handleChanOut(i)
  PROVE  /\ chanCtr' = Cardinality(Numbered') /\ chanCtr' \in 0..MaxCalls
         /\ chanOf' = [chanOf EXCEPT ![i] = chanCtr'] /\ chanCtr' # None
<1>1. /\ chanCtr' = chanCtr + 1 /\ chanOf' = [chanOf EXCEPT ![i] = chanCtr + 1]
      /\ chanOf \in [Ids -> 0..MaxCalls] /\ chanCtr \in Nat /\ chanOf[i] = None
  BY ServerAssumption DEF ServerAssumption, handleChanOut, ServerInv, TypeOK, ChanType, CallInv
<1>2. Numbered' = Numbered \cup {i} /\ i \notin Numbered /\ Numbered \in SUBSET Ids
  BY <1>1 DEF Numbered, None
<1>3. IsFiniteSet(Numbered) /\ chanCtr = Cardinality(Numbered)
  BY <1>2, IdFacts, FS_Subset DEF ServerInv, CountInv
<1>4. Cardinality(Numbered') = Cardinality(Numbered) + 1
  BY <1>2, <1>3, FS_AddElement
<1>5. Numbered' \in SUBSET Ids
  BY <1>2
<1>6. Cardinality(Numbered') <= MaxCalls
  BY <1>5, IdFacts, FS_Subset
<1> QED
  BY <1>1, <1>3, <1>4, <1>6, ServerAssumption DEF None, ServerAssumption

\* The types of the calls' variables.
LEMMA CallTypeStep ==
  ASSUME ServerInv, AnyNext
  PROVE  CallType'
<1> USE DEF LoopFrame, CallType
<1>0. CallType /\ crashed = "no"
  BY DEF AnyNext, ServerInv, TypeOK
<1>1. CASE (\E n \in Ids, k \in CallKinds : Arrives(n, k)) /\ LoopFrame
  <2>1. PICK n \in Ids, k \in CallKinds : Arrives(n, k)
    BY <1>1
  <2> QED
    BY <1>0, <2>1, ServerAssumption DEF Arrives, handleCall, ServerAssumption, Ids
<1>2. CASE /\ \/ handleNotification \/ (\E d \in Ids \cup {None} : cancelCtx(d))
              \/ loopReturn \/ serveReturn
           /\ LoopFrame
  BY <1>0, <1>2, IdFacts DEF handleNotification, cancelCtx, loopReturn, serveReturn, callVars
<1>3. ASSUME NEW i \in Ids, Handler(i) PROVE CallType'
  <2> USE DEF Handler
  <2>1. CASE doCall(i)
    <3>1. UNCHANGED <<handling, ctxDone>>
      BY <2>1 DEF doCall
    <3>2. PICK r \in {"value", "error", "bad", "chan"} :
            reply' = [reply EXCEPT ![i] = r] /\ h' = [h EXCEPT ![i] = "lock"]
      BY <2>1, CallDone
    <3> QED
      BY <1>0, <1>3, <3>1, <3>2
  <2>2. CASE lock(i) \/ nextWriterErr(i) \/ handleChanOut(i) \/ register(i) \/ registerClosed(i) \/ respond(i)
    BY <1>0, <1>3, <2>2 DEF lock, nextWriterErr, handleChanOut, register, registerClosed, respond
  <2>3. CASE done(i)
    BY <1>0, <1>3, <2>3 DEF done
  <2> QED
    BY <1>3, <2>1, <2>2, <2>3
<1>4. CASE OutChans \/ Environment
  BY <1>0, <1>4 DEF OutChans, Environment, EnvFrame, callVars
<1> QED
  BY <1>1, <1>2, <1>3, <1>4 DEF AnyNext

\* The connection and the reasons of a crash.
LEMMA ConnTypeStep ==
  ASSUME ServerInv, AnyNext
  PROVE  ConnType'
<1> USE DEF LoopFrame, ConnType
<1>0. ConnType
  BY DEF ServerInv, TypeOK
<1>1. CASE /\ LoopFrame
           /\ \/ (\E n \in Ids, k \in CallKinds : Arrives(n, k)) \/ handleNotification
              \/ (\E d \in Ids \cup {None} : cancelCtx(d)) \/ loopReturn \/ serveReturn
  <2>1. crashed' = crashed
    BY <1>1
  <2>2. conn' = conn \/ conn' = "local"
    BY <1>1 DEF Arrives, handleCall, handleNotification, cancelCtx, loopReturn, serveReturn
  <2> QED
    BY <1>0, <2>1, <2>2
<1>2. ASSUME NEW i \in Ids, Handler(i) PROVE ConnType'
  BY <1>0, <1>2 DEF Handler, doCall, lock, nextWriterErr, handleChanOut, register,
                    registerClosed, respond, done, Unlock
<1>3. CASE OutChans
  BY <1>0, <1>3 DEF OutChans, forward, outChanClosed, registerChClosed, ocLock, ocWrite,
                    ocWriteFail, ocUnlockAgain, Unlock
<1>4. CASE Environment
  BY <1>0, <1>4 DEF Environment, EnvFrame, connLost, closeChan
<1> QED
  BY <1>1, <1>2, <1>3, <1>4 DEF AnyNext

\* The flags.
LEMMA FlagTypeStep ==
  ASSUME ServerInv, AnyNext
  PROVE  FlagType'
<1> USE DEF LoopFrame, lockVars, callVars
<1>0. /\ handlingLK \in BOOLEAN /\ writeLK \in BOOLEAN /\ writeErr \in BOOLEAN
      /\ regClosed \in BOOLEAN
  BY DEF ServerInv, TypeOK, FlagType
<1> DEFINE Flags == /\ handlingLK' \in BOOLEAN /\ writeLK' \in BOOLEAN /\ writeErr' \in BOOLEAN
                    /\ regClosed' \in BOOLEAN
<1>1. ASSUME LoopFrame,
             \/ (\E n \in Ids, k \in CallKinds : Arrives(n, k)) \/ handleNotification
             \/ (\E d \in Ids \cup {None} : cancelCtx(d)) \/ loopReturn \/ serveReturn
      PROVE  Flags
  BY <1>0, <1>1 DEF Arrives, handleCall, handleNotification, cancelCtx, loopReturn, serveReturn
<1>2. ASSUME NEW i \in Ids, Handler(i) PROVE Flags
  BY <1>0, <1>2 DEF Handler, doCall, lock, nextWriterErr, handleChanOut, register,
                    registerClosed, respond, done, Unlock
<1>3. ASSUME OutChans PROVE Flags
  BY <1>0, <1>3 DEF OutChans, forward, outChanClosed, registerChClosed, ocLock, ocWrite,
                    ocWriteFail, ocUnlockAgain, Unlock
<1>4. ASSUME Environment PROVE Flags
  BY <1>0, <1>4 DEF Environment, EnvFrame
<1>5. Flags
  <2> HIDE DEF Flags
  <2> QED
    BY <1>1, <1>2, <1>3, <1>4 DEF AnyNext
<1> QED
  BY <1>5 DEF FlagType

\* The channels: their ids are counted.
LEMMA ChanTypeStep ==
  ASSUME ServerInv, AnyNext
  PROVE  ChanType' /\ CountInv'
<1> USE DEF LoopFrame, chanVars
<1>0. ChanType /\ CountInv
  BY DEF ServerInv, TypeOK
<1>1. ASSUME UNCHANGED <<chanCtr, chanOf>> PROVE CountInv'
  BY <1>0, <1>1 DEF CountInv, Numbered
<1>2. CASE LoopFrame
  BY <1>0, <1>1, <1>2 DEF ChanType
<1>3. ASSUME NEW i \in Ids, Handler(i) PROVE ChanType' /\ CountInv'
  <2> USE DEF Handler
  <2>1. CASE doCall(i)
    BY <1>0, <1>1, <1>3, <2>1, CallDone DEF doCall, ChanType
  <2>2. CASE lock(i) \/ nextWriterErr(i) \/ register(i) \/ registerClosed(i) \/ respond(i) \/ done(i)
    BY <1>0, <1>1, <1>3, <2>2 DEF lock, nextWriterErr, register, registerClosed, respond, done, ChanType
  <2>3. CASE handleChanOut(i)
    <3>1. UNCHANGED <<prod, taken>>
      BY <2>3 DEF handleChanOut
    <3> QED
      BY <1>0, <2>3, <3>1, GiveId DEF ChanType, CountInv
  <2> QED
    BY <1>3, <2>1, <2>2, <2>3
<1>4. CASE OutChans
  <2>1. taken' \in [Ids -> 0..MaxVals]
    <3>1. ASSUME NEW k \in Ids, forward(k) PROVE taken' \in [Ids -> 0..MaxVals]
      <4>1. cases[k] \in Ids
        BY <3>1, ElementOfSeq DEF forward, ServerInv, TypeOK, OutType
      <4>2. taken[cases[k]] < MaxVals /\ taken' = [taken EXCEPT ![cases[k]] = taken[cases[k]] + 1]
        BY <3>1 DEF forward
      <4>3. taken[cases[k]] + 1 \in 0..MaxVals
        BY <1>0, <4>1, <4>2, ServerAssumption DEF ChanType, ServerAssumption
      <4> QED
        BY <1>0, <4>1, <4>2, <4>3 DEF ChanType
    <3> QED
      BY <1>0, <1>4, <3>1 DEF OutChans, outChanClosed, registerChClosed, ocLock, ocWrite,
                              ocWriteFail, ocUnlockAgain, ChanType
  <2> QED
    BY <1>0, <1>1, <1>4, <2>1 DEF OutChans, ChanType
<1>5. CASE Environment
  BY <1>0, <1>1, <1>5 DEF Environment, EnvFrame, connLost, closeChan, ChanType
<1> QED
  BY <1>2, <1>3, <1>4, <1>5 DEF AnyNext

\* What a select case refers to.
LEMMA CaseFacts ==
  ASSUME ServerInv, NEW k \in 1..Len(cases)
  PROVE  /\ Len(cases) = Len(caseToID) /\ Len(cases) \in Nat \ {0}
         /\ cases[k] \in Ids /\ caseToID[k] \in 0..MaxCalls
         /\ caseToID[Len(caseToID)] \in 0..MaxCalls
<1>1. /\ cases \in Seq(Ids) /\ caseToID \in Seq(0..MaxCalls)
      /\ Len(cases) = Len(caseToID)
  BY DEF ServerInv, TypeOK, OutType, CaseInv
<1>2. Len(cases) \in Nat \ {0} /\ Len(caseToID) \in 1..Len(caseToID)
  BY <1>1, LenProperties
<1> QED
  BY <1>1, <1>2, ElementOfSeq

\* A response is a message.
LEMMA ResponseType ==
  ASSUME ServerInv, NEW i \in Ids
  PROVE  Response(i) \in Messages
BY ServerAssumption DEF ServerAssumption, ServerInv, TypeOK, ChanType, Response, Messages, None

\* And so is what handleOutChans sends.
LEMMA NotificationType ==
  ASSUME ServerInv, NEW k \in 1..Len(cases), NEW t \in {"val", "close"}
  PROVE  /\ Notification(k, t) \in Messages
         /\ [Notification(k, t) EXCEPT !.ch = caseToID[Len(caseToID)]] \in Messages
<1>1. taken[cases[k]] + 1 \in 0..(MaxVals + 1)
  BY CaseFacts, ServerAssumption DEF ServerAssumption, ServerInv, TypeOK, ChanType
<1>2. Notification(k, t) \in Messages
  BY <1>1, CaseFacts DEF Notification, Messages
<1> QED
  BY <1>2, CaseFacts DEF Messages

\* What outChanClosed sends is named after the case that took the place.
LEMMA CloseMsg ==
  ASSUME ServerInv, NEW k \in Ids, outChanClosed(k)
  PROVE  /\ msg' = [Notification(k, "close") EXCEPT !.ch = caseToID[Len(caseToID)]]
         /\ k \in 1..Len(cases) /\ k \in 1..Len(caseToID)
<1>1. k \in 1..Len(cases)
  BY DEF outChanClosed
<1>2. caseToID \in Seq(0..MaxCalls) /\ k \in 1..Len(caseToID) /\ caseToID[Len(caseToID)] \in 0..MaxCalls
  BY <1>1, CaseFacts DEF ServerInv, TypeOK, OutType
<1>3. [caseToID EXCEPT ![k] = caseToID[Len(caseToID)]][k] = caseToID[Len(caseToID)]
  BY <1>2, ExceptSeq
<1> QED
  BY <1>1, <1>2, <1>3 DEF outChanClosed

\* The types of handleOutChans and of what is written.
LEMMA OutTypeStep ==
  ASSUME ServerInv, AnyNext
  PROVE  OutType'
<1> USE DEF LoopFrame, ocVars
<1>0. OutType
  BY DEF ServerInv, TypeOK
<1>1. CASE LoopFrame \/ Environment
  BY <1>0, <1>1 DEF Environment, EnvFrame, OutType
<1>2. ASSUME NEW i \in Ids, Handler(i) PROVE OutType'
  <2> USE DEF Handler
  <2>1. CASE doCall(i) \/ lock(i) \/ nextWriterErr(i) \/ handleChanOut(i) \/ registerClosed(i) \/ done(i)
    BY <1>0, <1>2, <2>1 DEF doCall, lock, nextWriterErr, handleChanOut, registerClosed, done, OutType
  <2>2. CASE register(i)
    <3>1. Append(cases, i) \in Seq(Ids) /\ Append(caseToID, chanOf[i]) \in Seq(0..MaxCalls)
      BY <1>0, AppendFacts DEF OutType, ServerInv, TypeOK, ChanType
    <3> QED
      BY <1>0, <2>2, <3>1 DEF register, OutType
  <2>3. CASE respond(i)
    <3>1. Append(out, Response(i)) \in Seq(Messages)
      BY <1>0, ResponseType, AppendFacts DEF OutType
    <3> QED
      BY <1>0, <2>3, <3>1 DEF respond, OutType
  <2> QED
    BY <1>2, <2>1, <2>2, <2>3
<1>3. CASE OutChans
  <2> USE DEF OutChans
  <2>1. ASSUME NEW k \in Ids, forward(k) PROVE OutType'
    <3>1. Notification(k, "val") \in Messages
      BY <2>1, NotificationType DEF forward
    <3> QED
      BY <1>0, <2>1, <3>1 DEF forward, OutType
  <2>2. ASSUME NEW k \in Ids, outChanClosed(k) PROVE OutType'
    <3>1. msg' \in Messages
      BY <2>2, CloseMsg, NotificationType
    <3>2. MoveLast(cases, k) \in Seq(Ids) /\ MoveLast(caseToID, k) \in Seq(0..MaxCalls)
      BY <1>0, <2>2, CloseMsg, MoveLastFacts DEF OutType
    <3> QED
      BY <1>0, <2>2, <3>1, <3>2 DEF outChanClosed, OutType
  <2>3. CASE ocWrite
    <3>1. Append(out, msg) \in Seq(Messages)
      BY <1>0, AppendFacts DEF OutType
    <3> QED
      BY <1>0, <2>3, <3>1 DEF ocWrite, OutType
  <2>4. CASE registerChClosed \/ ocLock \/ ocWriteFail \/ ocUnlockAgain
    BY <1>0, <2>4 DEF registerChClosed, ocLock, ocWriteFail, ocUnlockAgain, OutType
  <2> QED
    BY <1>3, <2>1, <2>2, <2>3, <2>4
<1> QED
  BY <1>1, <1>2, <1>3 DEF AnyNext

\* Calls arrive one after the other, and only their goroutines change them.
LEMMA CallStep ==
  ASSUME ServerInv, AnyNext
  PROVE  CallInv'
<1> USE DEF LoopFrame, callVars, chanVars
<1>0. CallInv /\ CallType /\ ChanType
  BY DEF ServerInv, TypeOK
<1>1. CASE (\E n \in Ids, k \in CallKinds : Arrives(n, k)) /\ LoopFrame
  <2>1. PICK n \in Ids, k \in CallKinds : Arrives(n, k)
    BY <1>1
  <2>2. h[n] = "none"
    BY <2>1 DEF Arrives
  <2>3. /\ h' = [h EXCEPT ![n] = "call"]
        /\ UNCHANGED <<reply, chanOf>>
    BY <1>1, <2>1 DEF Arrives, handleCall
  <2> QED
    BY <1>0, <2>2, <2>3, IdFacts DEF CallInv, CallType
<1>2. CASE /\ \/ handleNotification \/ (\E d \in Ids \cup {None} : cancelCtx(d))
              \/ loopReturn \/ serveReturn
           /\ LoopFrame
  <2>1. UNCHANGED <<nCalls, h, reply, chanOf>>
    BY <1>2 DEF handleNotification, cancelCtx, loopReturn, serveReturn
  <2> QED
    BY <1>0, <2>1 DEF CallInv
<1>3. ASSUME NEW i \in Ids, Handler(i) PROVE CallInv'
  <2> USE DEF Handler
  <2>0. nCalls' = nCalls
    BY <1>3
  <2>1. CASE doCall(i)
    <3>1. PICK r \in {"value", "error", "bad", "chan"} :
            reply' = [reply EXCEPT ![i] = r] /\ h' = [h EXCEPT ![i] = "lock"]
      BY <2>1, CallDone
    <3>2. chanOf' = chanOf /\ h[i] = "call"
      BY <2>1 DEF doCall
    <3> QED
      BY <1>0, <2>0, <3>1, <3>2 DEF CallInv, CallType
  <2>2. CASE lock(i) \/ nextWriterErr(i) \/ register(i) \/ registerClosed(i) \/ respond(i) \/ done(i)
    <3>1. /\ UNCHANGED <<reply, chanOf>>
          /\ \/ h' = h
             \/ h[i] = "lock" /\ h' = [h EXCEPT ![i] = "write"]
             \/ h[i] = "register" /\ h' = [h EXCEPT ![i] = "answer"]
             \/ h[i] \notin {"none", "call"} /\ h' = [h EXCEPT ![i] = "done"]
             \/ h[i] \notin {"none", "call"} /\ h' = [h EXCEPT ![i] = "end"]
      BY <2>2 DEF lock, nextWriterErr, register, registerClosed, respond, done
    <3> QED
      BY <1>0, <2>0, <3>1 DEF CallInv, CallType
  <2>3. CASE handleChanOut(i)
    <3>1. /\ h[i] = "write" /\ reply[i] = "chan" /\ h' = [h EXCEPT ![i] = "register"] /\ reply' = reply
          /\ chanOf' = [chanOf EXCEPT ![i] = chanCtr + 1]
      BY <2>3 DEF handleChanOut
    <3> QED
      BY <1>0, <2>0, <3>1 DEF CallInv, CallType, ChanType
  <2> QED
    BY <1>3, <2>1, <2>2, <2>3
<1>4. CASE OutChans \/ Environment
  <2>1. UNCHANGED <<nCalls, h, reply, chanOf>>
    BY <1>4 DEF OutChans, Environment, EnvFrame
  <2> QED
    BY <1>0, <2>1 DEF CallInv
<1> QED
  BY <1>1, <1>2, <1>3, <1>4 DEF AnyNext

\* Only a notification leaves handlingLK locked.
LEMMA HandlingLKStep ==
  ASSUME ServerInv, AnyNext
  PROVE  handlingLK' <=> loop' = "panicked"
<1>0. handlingLK \in BOOLEAN /\ (handlingLK <=> loop = "panicked")
  BY DEF ServerInv, TypeOK, FlagType, HandlingTracksCalls
<1>1. CASE handleNotification
  BY <1>1 DEF handleNotification
<1>2. CASE \/ (\E n \in Ids, k \in CallKinds : Arrives(n, k))
           \/ \E d \in Ids \cup {None} : cancelCtx(d)
  BY <1>0, <1>2 DEF Arrives, handleCall, cancelCtx
<1>3. CASE loopReturn \/ serveReturn
  BY <1>0, <1>3 DEF loopReturn, serveReturn, callVars
<1>4. CASE OutChans \/ Environment \/ \E i \in Ids : Handler(i)
  BY <1>0, <1>4 DEF OutChans, Environment, EnvFrame, Handler, callVars
<1> QED
  BY <1>1, <1>2, <1>3, <1>4 DEF AnyNext

\* handling follows the calls.
LEMMA HandlingStep ==
  ASSUME ServerInv, AnyNext
  PROVE  HandlingTracksCalls'
<1> DEFINE Entries == {i \in Ids : h[i] # "none" /\ (h[i] # "end" \/ kind[i] = "chan")}
<1> USE DEF LoopFrame, callVars
<1>0. handling = Entries /\ CallType
  BY DEF ServerInv, TypeOK, HandlingTracksCalls
<1>1. ASSUME (\E n \in Ids, k \in CallKinds : Arrives(n, k)) /\ LoopFrame
      PROVE  handling' = Entries'
  <2>1. PICK n \in Ids, k \in CallKinds : Arrives(n, k)
    BY <1>1
  <2>2. h[n] = "none"
    BY <2>1 DEF Arrives
  <2>3. /\ handling' = handling \cup {n} /\ h' = [h EXCEPT ![n] = "call"]
        /\ kind' = [kind EXCEPT ![n] = k]
    BY <2>1 DEF Arrives, handleCall
  <2> QED
    BY <1>0, <2>2, <2>3 DEF CallType
<1>2. ASSUME LoopFrame,
             \/ handleNotification \/ (\E d \in Ids \cup {None} : cancelCtx(d))
             \/ loopReturn \/ serveReturn
      PROVE  handling' = Entries'
  <2>1. UNCHANGED <<handling, h, kind>>
    BY <1>2 DEF handleNotification, cancelCtx, loopReturn, serveReturn
  <2> QED
    BY <1>0, <2>1
<1>3. ASSUME NEW i \in Ids, Handler(i) PROVE handling' = Entries'
  <2> USE DEF Handler
  <2>1. CASE done(i)
    <3>1. /\ h[i] = "done" /\ h' = [h EXCEPT ![i] = "end"] /\ kind' = kind
          /\ handling' = IF kind[i] = "chan" THEN handling ELSE handling \ {i}
      BY <1>3, <2>1 DEF done
    <3> QED
      BY <1>0, <3>1 DEF CallType
  <2>2. CASE ~done(i)
    <3>1. /\ UNCHANGED <<handling, kind>>
          /\ h' = h \/ \E p \in {"lock", "write", "register", "answer", "done"} :
               h' = [h EXCEPT ![i] = p] /\ h[i] \notin {"none", "end"}
      BY <1>3, <2>2 DEF doCall, lock, nextWriterErr, handleChanOut, register, registerClosed, respond
    <3>2. CASE h' = h
      BY <1>0, <3>1, <3>2
    <3>3. ASSUME NEW p \in {"lock", "write", "register", "answer", "done"},
                 h' = [h EXCEPT ![i] = p], h[i] \notin {"none", "end"}
          PROVE  handling' = Entries'
      BY <1>0, <3>1, <3>3 DEF CallType
    <3> QED
      BY <3>1, <3>2, <3>3
  <2> QED
    BY <2>1, <2>2
<1>4. ASSUME OutChans \/ Environment PROVE handling' = Entries'
  <2>1. UNCHANGED <<handling, h, kind>>
    BY <1>4 DEF OutChans, Environment, EnvFrame
  <2> QED
    BY <1>0, <2>1
<1>5. handlingLK' <=> loop' = "panicked"
  BY HandlingLKStep
<1>6. handling' = Entries'
  <2> HIDE DEF Entries
  <2> QED
    BY <1>1, <1>2, <1>3, <1>4 DEF AnyNext
<1> QED
  BY <1>5, <1>6 DEF HandlingTracksCalls

\* Writes fail, and registerCh closes, only when something ended.
LEMMA EndStep ==
  ASSUME ServerInv, AnyNext
  PROVE  EndInv'
<1> USE DEF LoopFrame, lockVars, EndInv
<1>0. /\ EndInv /\ writeErr \in BOOLEAN /\ regClosed \in BOOLEAN
      /\ writeErr' \in BOOLEAN /\ regClosed' \in BOOLEAN
  BY FlagTypeStep DEF ServerInv, TypeOK, FlagType
<1>1. CASE /\ LoopFrame
           /\ \/ (\E n \in Ids, k \in CallKinds : Arrives(n, k)) \/ handleNotification
              \/ (\E d \in Ids \cup {None} : cancelCtx(d))
  BY <1>0, <1>1 DEF Arrives, handleCall, handleNotification, cancelCtx
<1>2. CASE (loopReturn \/ serveReturn) /\ LoopFrame
  BY <1>0, <1>2 DEF loopReturn, serveReturn
<1>3. ASSUME NEW i \in Ids, Handler(i) PROVE EndInv'
  BY <1>0, <1>3 DEF Handler, doCall, lock, nextWriterErr, handleChanOut, register,
                    registerClosed, respond, done, Unlock, MayFail
<1>4. CASE OutChans
  BY <1>0, <1>4 DEF OutChans, forward, outChanClosed, registerChClosed, ocLock, ocWrite,
                    ocWriteFail, ocUnlockAgain, Unlock, MayFail
<1>5. CASE Environment
  BY <1>0, <1>5 DEF Environment, EnvFrame, connLost, closeChan
<1> QED
  BY <1>1, <1>2, <1>3, <1>4, <1>5 DEF AnyNext

-----------------------------------------------------------------------------
(* What is written.                                                        *)

\* Only a handler that answers and handleOutChans write, one message at the end.
LEMMA OutStep ==
  ASSUME ServerInv, AnyNext
  PROVE  /\ \/ out' = out
            \/ \E i \in Ids : Handler(i) /\ respond(i) /\ out' = Append(out, Response(i)) /\ ~writeErr
            \/ OutChans /\ ocWrite /\ out' = Append(out, msg) /\ ~writeErr
         /\ writeErr => writeErr'
<1> USE DEF LoopFrame, lockVars
<1>0. writeErr \in BOOLEAN /\ writeErr' \in BOOLEAN
  BY FlagTypeStep DEF ServerInv, TypeOK, FlagType
<1>1. CASE /\ LoopFrame
           /\ \/ (\E n \in Ids, k \in CallKinds : Arrives(n, k)) \/ handleNotification
              \/ (\E d \in Ids \cup {None} : cancelCtx(d)) \/ loopReturn \/ serveReturn
  BY <1>0, <1>1 DEF Arrives, handleCall, handleNotification, cancelCtx, loopReturn, serveReturn
<1>2. ASSUME NEW i \in Ids, Handler(i)
      PROVE  /\ \/ out' = out
                \/ respond(i) /\ out' = Append(out, Response(i)) /\ ~writeErr
             /\ writeErr => writeErr'
  <2>1. CASE respond(i)
    <3>1. \/ ~MustFail /\ out' = Append(out, Response(i)) /\ UNCHANGED writeErr
          \/ MayFail /\ writeErr' = TRUE /\ UNCHANGED out
      BY <2>1 DEF respond
    <3>2. CASE ~MustFail /\ out' = Append(out, Response(i)) /\ UNCHANGED writeErr
      BY <1>0, <2>1, <3>2 DEF MustFail
    <3>3. CASE writeErr' = TRUE /\ UNCHANGED out
      BY <3>3
    <3> QED
      BY <3>1, <3>2, <3>3
  <2>2. CASE ~respond(i)
    <3>1. UNCHANGED <<out, writeErr>>
      BY <1>2, <2>2 DEF Handler, doCall, lock, nextWriterErr, handleChanOut, register,
                        registerClosed, done
    <3> QED
      BY <1>0, <3>1
  <2> QED
    BY <2>1, <2>2
<1>3. CASE OutChans
  BY <1>0, <1>3 DEF OutChans, forward, outChanClosed, registerChClosed, ocLock, ocWrite,
                    ocWriteFail, ocUnlockAgain, MustFail
<1>4. CASE Environment
  BY <1>4 DEF Environment, EnvFrame
<1> QED
  BY <1>1, <1>2, <1>3, <1>4 DEF AnyNext

\* The answers to a call after one more message.
LEMMA ResponsesAppend ==
  ASSUME NEW m \in Messages, out \in Seq(Messages), out' = Append(out, m), NEW i \in Ids
  PROVE  Responses(i)' = Responses(i) \cup
                         (IF m.t = "resp" /\ m.src = i THEN {Len(out) + 1} ELSE {})
BY AppendFacts DEF Responses

\* What a call's goroutine does to the state of the calls.
LEMMA CallMoves ==
  ASSUME ServerInv, AnyNext, NEW i \in Ids
  PROVE  /\ h[i] \in {"done", "end"} => h'[i] \in {"done", "end"} /\ reply'[i] = reply[i]
         /\ h[i] \notin {"done", "end"} /\ h'[i] \in {"done", "end"} =>
              Handler(i) /\ (nextWriterErr(i) \/ respond(i))
<1> USE DEF LoopFrame, callVars
<1>0. CallType
  BY DEF ServerInv, TypeOK
<1>1. CASE (\E n \in Ids, k \in CallKinds : Arrives(n, k)) /\ LoopFrame
  <2>1. PICK n \in Ids, k \in CallKinds : Arrives(n, k)
    BY <1>1
  <2>2. h[n] = "none"
    BY <2>1 DEF Arrives
  <2>3. h' = [h EXCEPT ![n] = "call"] /\ reply' = reply
    BY <2>1 DEF Arrives, handleCall
  <2> QED
    BY <1>0, <2>2, <2>3 DEF CallType
<1>2. CASE /\ \/ handleNotification \/ (\E d \in Ids \cup {None} : cancelCtx(d))
              \/ loopReturn \/ serveReturn
           /\ LoopFrame
  BY <1>2 DEF handleNotification, cancelCtx, loopReturn, serveReturn
<1>3. ASSUME NEW j \in Ids, Handler(j)
      PROVE  /\ h[i] \in {"done", "end"} => h'[i] \in {"done", "end"} /\ reply'[i] = reply[i]
             /\ h[i] \notin {"done", "end"} /\ h'[i] \in {"done", "end"} =>
                  i = j /\ (nextWriterErr(i) \/ respond(i))
  <2> USE DEF Handler
  <2>1. CASE doCall(j)
    <3>1. PICK r \in {"value", "error", "bad", "chan"} :
            reply' = [reply EXCEPT ![j] = r] /\ h' = [h EXCEPT ![j] = "lock"]
      BY <2>1, CallDone
    <3>2. h[j] = "call"
      BY <2>1 DEF doCall
    <3> QED
      BY <1>0, <3>1, <3>2 DEF CallType
  <2>2. CASE lock(j) \/ handleChanOut(j) \/ register(j) \/ registerClosed(j) \/ done(j)
    BY <1>0, <2>2 DEF lock, handleChanOut, register, registerClosed, done, CallType
  <2>3. CASE nextWriterErr(j) \/ respond(j)
    <3>1. h' = [h EXCEPT ![j] = "done"] /\ reply' = reply
      BY <2>3 DEF nextWriterErr, respond
    <3>2. i # j => h'[i] = h[i]
      BY <1>0, <3>1 DEF CallType
    <3>3. i = j => h'[i] = "done"
      BY <1>0, <3>1 DEF CallType
    <3> QED
      BY <2>3, <3>1, <3>2, <3>3
  <2> QED
    BY <1>3, <2>1, <2>2, <2>3
<1>4. CASE OutChans \/ Environment
  BY <1>4 DEF OutChans, Environment, EnvFrame
<1> QED
  BY <1>1, <1>2, <1>3, <1>4 DEF AnyNext

\* A call has its reply from its method, once.
LEMMA ReplyMoves ==
  ASSUME ServerInv, AnyNext
  PROVE  \/ reply' = reply
         \/ \E i \in Ids, r \in {"value", "error", "bad", "chan"} :
              h[i] = "call" /\ reply[i] = "none" /\ reply' = [reply EXCEPT ![i] = r]
<1>1. ASSUME NEW i \in Ids, Handler(i)
      PROVE  \/ reply' = reply
             \/ \E r \in {"value", "error", "bad", "chan"} :
                  h[i] = "call" /\ reply[i] = "none" /\ reply' = [reply EXCEPT ![i] = r]
  <2>1. CASE doCall(i)
    <3>1. h[i] = "call" /\ reply[i] = "none"
      BY <2>1 DEF doCall, ServerInv, CallInv
    <3> QED
      BY <2>1, <3>1, CallDone
  <2>2. CASE ~doCall(i)
    BY <1>1, <2>2 DEF Handler, lock, nextWriterErr, handleChanOut, register, registerClosed,
       respond, done
  <2> QED
    BY <2>1, <2>2
<1>2. CASE OutChans \/ Environment
  BY <1>2 DEF OutChans, Environment, EnvFrame, callVars
<1>3. CASE /\ LoopFrame
           /\ \/ (\E n \in Ids, k \in CallKinds : Arrives(n, k)) \/ handleNotification
              \/ (\E d \in Ids \cup {None} : cancelCtx(d)) \/ loopReturn \/ serveReturn
  BY <1>3 DEF Arrives, handleCall, handleNotification, cancelCtx, loopReturn, serveReturn, callVars
<1> QED
  BY <1>1, <1>2, <1>3 DEF AnyNext

\* The goroutine of a call makes no call known.
LEMMA NoneStays ==
  ASSUME ServerInv, NEW i \in Ids, Handler(i), NEW j \in Ids
  PROVE  h'[j] = "none" <=> h[j] = "none"
<1>1. h \in [Ids -> {"none", "call", "lock", "write", "register", "answer", "done", "end"}]
  BY DEF ServerInv, TypeOK, CallType
<1>2. \/ h' = h
      \/ \E p \in {"lock", "write", "register", "answer", "done", "end"} :
           h[i] # "none" /\ h' = [h EXCEPT ![i] = p]
  BY DEF Handler, doCall, lock, nextWriterErr, handleChanOut, register, registerClosed, respond, done
<1> QED
  BY <1>1, <1>2

\* A call is answered once.
LEMMA ReplyStep ==
  ASSUME ServerInv, AnyNext
  PROVE  ReplyInv'
<1>0. /\ ReplyInv /\ out \in Seq(Messages) /\ msg \in Messages /\ FlagType /\ CallType
      /\ Len(out) \in Nat
  BY LenProperties DEF ServerInv, TypeOK, OutType
<1> SUFFICES ASSUME NEW i \in Ids
             PROVE  /\ h'[i] \notin {"done", "end"} => Responses(i)' = {}
                    /\ \A j, k \in Responses(i)' : j = k
                    /\ h'[i] \in {"done", "end"} /\ ~writeErr' /\ reply'[i] # "bad"
                         => Responses(i)' # {}
  BY DEF ReplyInv
<1>1. /\ h[i] \notin {"done", "end"} => Responses(i) = {}
      /\ \A j, k \in Responses(i) : j = k
      /\ h[i] \in {"done", "end"} /\ ~writeErr /\ reply[i] # "bad" => Responses(i) # {}
  BY <1>0 DEF ReplyInv
<1>2. CASE Handler(i) /\ respond(i)
  <2>1. h[i] \notin {"done", "end"} /\ h'[i] = "done" /\ reply' = reply
    BY <1>0, <1>2 DEF respond, CallType
  <2>2. CASE out' = out
    <3>1. writeErr' \/ out' # out
      BY <1>0, <1>2, AppendFacts, ResponseType DEF respond
    <3> QED
      BY <1>1, <2>1, <2>2, <3>1 DEF Responses
  <2>3. CASE out' = Append(out, Response(i))
    <3>1. Responses(i)' = Responses(i) \cup
                         (IF Response(i).t = "resp" /\ Response(i).src = i THEN {Len(out) + 1} ELSE {})
      BY <1>0, <2>3, ResponseType, ResponsesAppend
    <3>2. Response(i).src = i /\ (reply[i] # "bad" => Response(i).t = "resp")
      BY DEF Response
    <3> QED
      BY <1>1, <2>1, <3>1, <3>2
  <2> QED
    BY <1>2, <2>2, <2>3 DEF respond
<1>3. CASE ~(Handler(i) /\ respond(i))
  <2>1. Responses(i)' = Responses(i)
    <3>1. CASE out' = out
      BY <3>1 DEF Responses
    <3>2. ASSUME NEW j \in Ids, Handler(j), respond(j), out' = Append(out, Response(j))
          PROVE  Responses(i)' = Responses(i)
      <4>1. Response(j).src # i
        BY <1>3, <3>2 DEF Response
      <4> QED
        BY <1>0, <3>2, <4>1, ResponseType, ResponsesAppend
    <3>3. CASE ocWrite /\ out' = Append(out, msg)
      <4>1. msg.t # "resp"
        BY <3>3 DEF ocWrite, ServerInv, AnnounceInv, Sending
      <4> QED
        BY <1>0, <3>3, <4>1, ResponsesAppend
    <3> QED
      BY <3>1, <3>2, <3>3, OutStep
  <2>2. writeErr => writeErr'
    BY OutStep
  <2>3. CASE h[i] \in {"done", "end"}
    BY <1>0, <1>1, <2>1, <2>2, <2>3, CallMoves DEF FlagType
  <2>4. CASE h[i] \notin {"done", "end"}
    <3>1. h'[i] \in {"done", "end"} => writeErr
      BY <1>3, <2>4, CallMoves DEF nextWriterErr
    <3> QED
      BY <1>0, <1>1, <2>1, <2>2, <2>4, <3>1 DEF FlagType
  <2> QED
    BY <2>3, <2>4
<1> QED
  BY <1>2, <1>3

-----------------------------------------------------------------------------
(* The channels.                                                           *)

\* A call whose channel is registered stays so and keeps the id of its channel;
\* a call that is about to be answered stays so until it answers.
LEMMA RegisteredKeeps ==
  ASSUME ServerInv, AnyNext, NEW i \in Registered
  PROVE  /\ i \in Registered' /\ chanOf'[i] = chanOf[i]
         /\ h[i] = "answer" => h'[i] = "answer" \/ (Handler(i) /\ respond(i))
<1> USE DEF LoopFrame, callVars, chanVars
<1>0. CallType /\ ChanType /\ i \in Ids /\ h[i] \in {"answer", "done", "end"}
  BY DEF ServerInv, TypeOK, Registered
<1>1. CASE (\E n \in Ids, k \in CallKinds : Arrives(n, k)) /\ LoopFrame
  <2>1. PICK n \in Ids, k \in CallKinds : Arrives(n, k)
    BY <1>1
  <2>2. h[n] = "none"
    BY <2>1 DEF Arrives
  <2>3. h' = [h EXCEPT ![n] = "call"] /\ chanOf' = chanOf
    BY <1>1, <2>1 DEF Arrives, handleCall
  <2> QED
    BY <1>0, <2>2, <2>3 DEF CallType, Registered
<1>2. CASE /\ \/ handleNotification \/ (\E d \in Ids \cup {None} : cancelCtx(d))
              \/ loopReturn \/ serveReturn
           /\ LoopFrame
  <2>1. UNCHANGED <<h, chanOf>>
    BY <1>2 DEF handleNotification, cancelCtx, loopReturn, serveReturn
  <2> QED
    BY <1>0, <2>1 DEF Registered
<1>3. ASSUME NEW j \in Ids, Handler(j)
      PROVE  /\ i \in Registered' /\ chanOf'[i] = chanOf[i]
             /\ h[i] = "answer" => h'[i] = "answer" \/ (i = j /\ respond(j))
  <2>1. CASE i # j
    <3>1. h'[i] = h[i] /\ chanOf'[i] = chanOf[i]
      BY <1>0, <1>3, <2>1 DEF Handler, doCall, lock, nextWriterErr, handleChanOut, register,
                              registerClosed, respond, done, CallType, ChanType
    <3> QED
      BY <1>0, <3>1 DEF Registered
  <2>2. CASE i = j
    <3>1. respond(j) \/ done(j)
      BY <1>0, <1>3, <2>2 DEF Handler, doCall, lock, nextWriterErr, handleChanOut, register,
                              registerClosed
    <3>2. chanOf' = chanOf /\ h'[i] \in {"done", "end"}
      BY <1>0, <2>2, <3>1 DEF respond, done, CallType
    <3>3. h[i] = "answer" => respond(j)
      BY <2>2, <3>1 DEF done
    <3> QED
      BY <1>0, <2>2, <3>2, <3>3 DEF Registered
  <2> QED
    BY <2>1, <2>2
<1>4. CASE OutChans \/ Environment
  <2>1. UNCHANGED <<h, chanOf>>
    BY <1>4 DEF OutChans, Environment, EnvFrame
  <2> QED
    BY <1>0, <2>1 DEF Registered
<1> QED
  BY <1>1, <1>2, <1>3, <1>4 DEF AnyNext

\* The select cases change by a registration and by the end of a channel.
LEMMA CasesStep ==
  ASSUME ServerInv, AnyNext
  PROVE  \/ UNCHANGED <<cases, caseToID>>
         \/ \E i \in Ids : Handler(i) /\ register(i)
         \/ \E k \in Ids : OutChans /\ outChanClosed(k)
<1> USE DEF LoopFrame, ocVars
<1>1. ASSUME NEW i \in Ids, Handler(i) PROVE UNCHANGED <<cases, caseToID>> \/ register(i)
  BY <1>1 DEF Handler, doCall, lock, nextWriterErr, handleChanOut, registerClosed, respond, done
<1>2. CASE OutChans
  BY <1>2 DEF OutChans, forward, registerChClosed, ocLock, ocWrite, ocWriteFail, ocUnlockAgain
<1>3. CASE LoopFrame \/ Environment
  BY <1>3 DEF Environment, EnvFrame
<1> QED
  BY <1>1, <1>2, <1>3 DEF AnyNext

\* A registration adds a case and its id, ...
LEMMA RegisterFacts ==
  ASSUME ServerInv, NEW i \in Ids, register(i)
  PROVE  /\ Len(cases') = Len(cases) + 1 /\ Len(caseToID') = Len(caseToID) + 1
         /\ Len(cases) = Len(caseToID) /\ Len(cases) \in Nat
         /\ \A k \in 1..Len(cases) : cases'[k] = cases[k] /\ caseToID'[k] = caseToID[k]
         /\ cases'[Len(cases) + 1] = i /\ caseToID'[Len(cases) + 1] = chanOf[i]
<1>1. /\ cases \in Seq(Ids) /\ caseToID \in Seq(0..MaxCalls) /\ chanOf[i] \in 0..MaxCalls
      /\ Len(cases) = Len(caseToID)
  BY DEF ServerInv, TypeOK, OutType, ChanType, CaseInv
<1>2. cases' = Append(cases, i) /\ caseToID' = Append(caseToID, chanOf[i])
  BY DEF register
<1>3. /\ Len(Append(cases, i)) = Len(cases) + 1 /\ Len(cases) \in Nat
      /\ \A k \in 1..Len(cases) : Append(cases, i)[k] = cases[k]
      /\ Append(cases, i)[Len(cases) + 1] = i
  BY <1>1, AppendFacts
<1>4. /\ Len(Append(caseToID, chanOf[i])) = Len(caseToID) + 1
      /\ \A k \in 1..Len(caseToID) : Append(caseToID, chanOf[i])[k] = caseToID[k]
      /\ Append(caseToID, chanOf[i])[Len(caseToID) + 1] = chanOf[i]
  BY <1>1, AppendFacts
<1> QED
  BY <1>1, <1>2, <1>3, <1>4

\* ... the end of a channel takes both away, and every case that stays was one.
LEMMA ClosedFacts ==
  ASSUME ServerInv, NEW k \in Ids, outChanClosed(k)
  PROVE  /\ Len(cases') = Len(cases) - 1 /\ Len(caseToID') = Len(cases) - 1
         /\ Len(cases) = Len(caseToID) /\ Len(cases) \in Nat \ {0}
         /\ \A j \in 1..Len(cases') : \E l \in 1..Len(cases) :
              cases'[j] = cases[l] /\ caseToID'[j] = caseToID[l]
<1>1. /\ cases \in Seq(Ids) /\ caseToID \in Seq(0..MaxCalls) /\ Len(cases) = Len(caseToID)
      /\ k \in 1..Len(cases) /\ k \in 1..Len(caseToID)
      /\ cases' = MoveLast(cases, k) /\ caseToID' = MoveLast(caseToID, k)
  BY CloseMsg DEF ServerInv, TypeOK, OutType, CaseInv, outChanClosed
<1>2. /\ Len(cases') = Len(cases) - 1 /\ Len(cases) \in Nat \ {0}
      /\ \A j \in 1..(Len(cases) - 1) : cases'[j] = IF j = k THEN cases[Len(cases)] ELSE cases[j]
  BY <1>1, MoveLastFacts
<1>3. /\ Len(caseToID') = Len(caseToID) - 1
      /\ \A j \in 1..(Len(caseToID) - 1) :
           caseToID'[j] = IF j = k THEN caseToID[Len(caseToID)] ELSE caseToID[j]
  BY <1>1, MoveLastFacts
<1>4. ASSUME NEW j \in 1..Len(cases')
      PROVE  \E l \in 1..Len(cases) : cases'[j] = cases[l] /\ caseToID'[j] = caseToID[l]
  <2>1. CASE j = k
    <3>1. Len(cases) \in 1..Len(cases) /\ cases'[j] = cases[Len(cases)] /\ caseToID'[j] = caseToID[Len(cases)]
      BY <1>1, <1>2, <1>3, <1>4, <2>1
    <3> QED
      BY <3>1
  <2>2. CASE j # k
    <3>1. j \in 1..Len(cases) /\ cases'[j] = cases[j] /\ caseToID'[j] = caseToID[j]
      BY <1>1, <1>2, <1>3, <1>4, <2>2
    <3> QED
      BY <3>1
  <2> QED
    BY <2>1, <2>2
<1> QED
  BY <1>1, <1>2, <1>3, <1>4

\* The two slices stay aligned.
LEMMA CaseStep ==
  ASSUME ServerInv, AnyNext
  PROVE  CaseInv'
<1>0. CaseInv /\ \A i \in Registered : i \in Registered' /\ chanOf'[i] = chanOf[i]
  BY RegisteredKeeps DEF ServerInv
<1>1. CASE UNCHANGED <<cases, caseToID>>
  BY <1>0, <1>1 DEF CaseInv
<1>2. ASSUME NEW i \in Ids, Handler(i), register(i) PROVE CaseInv'
  <2>1. i \in Registered' /\ chanOf' = chanOf
    BY <1>2 DEF register, chanVars, Registered, ServerInv, TypeOK, CallType
  <2> QED
    BY <1>0, <1>2, <2>1, RegisterFacts DEF CaseInv
<1>3. ASSUME NEW k \in Ids, outChanClosed(k) PROVE CaseInv'
  BY <1>0, <1>3, ClosedFacts DEF CaseInv
<1> QED
  BY <1>1, <1>2, <1>3, CasesStep

\* A notification is on its way because it was, or because a channel had
\* something; only then is a value taken from a channel.
LEMMA MsgStep ==
  ASSUME ServerInv, AnyNext
  PROVE  \/ UNCHANGED <<msg, taken>> /\ (Sending' => Sending /\ ~(OutChans /\ ocWrite))
         \/ \E k \in Ids : OutChans /\ forward(k)
         \/ \E k \in Ids : OutChans /\ outChanClosed(k)
<1> USE DEF LoopFrame, ocVars, chanVars, Sending
<1>1. ASSUME NEW i \in Ids, Handler(i)
      PROVE  UNCHANGED <<msg, taken>> /\ (Sending' => Sending) /\ (oc = "write" => oc' = oc)
  BY <1>1 DEF Handler, doCall, lock, nextWriterErr, handleChanOut, register, registerClosed, respond, done
<1>2. CASE OutChans
  <2>1. CASE registerChClosed \/ ocLock \/ ocWrite \/ ocWriteFail \/ ocUnlockAgain
    BY <2>1 DEF registerChClosed, ocLock, ocWrite, ocWriteFail, ocUnlockAgain
  <2> QED
    BY <1>2, <2>1 DEF OutChans
<1>3. CASE LoopFrame \/ Environment
  BY <1>3 DEF Environment, EnvFrame, ocWrite
<1>4. ASSUME ocWrite PROVE oc = "write" /\ oc' = "select"
  BY <1>4 DEF ocWrite
<1> QED
  BY <1>1, <1>2, <1>3, <1>4 DEF AnyNext

\* What forward does to the channel and to the message.
LEMMA ForwardFacts ==
  ASSUME ServerInv, NEW k \in Ids, forward(k)
  PROVE  /\ k \in 1..Len(cases) /\ cases[k] \in Registered /\ cases[k] \in Ids
         /\ msg'.t = "val" /\ msg'.src = cases[k] /\ msg'.ch = caseToID[k]
         /\ caseToID[k] = chanOf[cases[k]]
         /\ taken[cases[k]] \in Nat /\ msg'.val = taken[cases[k]] + 1
         /\ taken' = [taken EXCEPT ![cases[k]] = taken[cases[k]] + 1]
         /\ out' = out /\ oc = "select"
<1>1. k \in 1..Len(cases) /\ out' = out /\ oc = "select"
  BY DEF forward
<1>2. cases[k] \in Registered /\ caseToID[k] = chanOf[cases[k]]
  BY <1>1 DEF ServerInv, CaseInv
<1>3. cases[k] \in Ids
  BY <1>2 DEF Registered
<1>4. taken \in [Ids -> Nat]
  BY ServerAssumption DEF ServerInv, TypeOK, ChanType, ServerAssumption
<1>5. taken[cases[k]] \in Nat
  BY <1>3, <1>4
<1>6. taken' = [taken EXCEPT ![cases[k]] = taken[cases[k]] + 1] /\ msg' = Notification(k, "val")
  BY DEF forward
<1> QED
  BY <1>1, <1>2, <1>3, <1>5, <1>6 DEF Notification

\* Values are taken one by one.
LEMMA TakenStep ==
  ASSUME ServerInv, AnyNext, NEW i \in Ids
  PROVE  taken'[i] >= taken[i] /\ taken[i] \in Nat /\ taken'[i] \in Nat
<1>0. taken \in [Ids -> Nat] /\ taken[i] \in Nat
  BY ServerAssumption DEF ServerInv, TypeOK, ChanType, ServerAssumption
<1>1. CASE taken' = taken
  BY <1>0, <1>1
<1>2. ASSUME NEW k \in Ids, forward(k) PROVE taken'[i] >= taken[i] /\ taken'[i] \in Nat
  BY <1>0, <1>2, ForwardFacts
<1>3. ASSUME NEW k \in Ids, outChanClosed(k) PROVE taken' = taken
  BY <1>3 DEF outChanClosed
<1> QED
  BY <1>0, <1>1, <1>2, <1>3, MsgStep

\* Every value goes out under the id of its channel, in the order it was taken.
LEMMA ValueStep ==
  ASSUME ServerInv, AnyNext
  PROVE  ValueInv'
<1>0. /\ ValueInv /\ CaseInv /\ out \in Seq(Messages) /\ msg \in Messages /\ Len(out) \in Nat
      /\ \A k \in 1..Len(out) : out[k] \in Messages
  BY LenProperties, ElementOfSeq DEF ServerInv, TypeOK, OutType
<1>1. \A i \in Registered : i \in Registered' /\ chanOf'[i] = chanOf[i] /\ i \in Ids
  BY RegisteredKeeps DEF Registered
<1>2. \A i \in Ids : taken'[i] >= taken[i] /\ taken[i] \in Nat /\ taken'[i] \in Nat
  BY TakenStep
<1>3. \A m \in Messages : m.val \in Nat
  BY ServerAssumption DEF Messages, ServerAssumption
<1>4. \A k \in 1..Len(out) : out[k].t = "val" =>
         /\ out[k].src \in Registered' /\ out[k].ch = chanOf'[out[k].src]
         /\ out[k].val <= taken'[out[k].src]
  <2> SUFFICES ASSUME NEW k \in 1..Len(out), out[k].t = "val"
               PROVE  /\ out[k].src \in Registered' /\ out[k].ch = chanOf'[out[k].src]
                      /\ out[k].val <= taken'[out[k].src]
    OBVIOUS
  <2>1. out[k].src \in Registered /\ out[k].ch = chanOf[out[k].src] /\ out[k].val <= taken[out[k].src]
    BY <1>0 DEF ValueInv
  <2>2. out[k].val \in Nat
    BY <1>0, <1>3
  <2> QED
    BY <1>1, <1>2, <2>1, <2>2
<1>5. ASSUME \A k \in 1..Len(out') : out'[k].t = "val" => k \in 1..Len(out) /\ out'[k] = out[k],
             ~(OutChans /\ ocWrite)
      PROVE  ValueInv'
  <2>1. Sending' /\ msg'.t = "val" =>
       /\ msg'.src \in Registered' /\ msg'.ch = chanOf'[msg'.src] /\ msg'.val = taken'[msg'.src]
       /\ \A k \in 1..Len(out') : out'[k].t = "val" /\ out'[k].src = msg'.src => out'[k].val < msg'.val
    <3>1. CASE UNCHANGED <<msg, taken>> /\ (Sending' => Sending)
      BY <1>0, <1>1, <1>5, <3>1 DEF ValueInv
    <3>2. ASSUME NEW k \in Ids, forward(k)
          PROVE  /\ msg'.src \in Registered' /\ msg'.ch = chanOf'[msg'.src]
                 /\ msg'.val = taken'[msg'.src]
                 /\ \A j \in 1..Len(out') : out'[j].t = "val" /\ out'[j].src = msg'.src
                                            => out'[j].val < msg'.val
      <4>1. /\ cases[k] \in Registered /\ cases[k] \in Ids
            /\ msg'.src = cases[k] /\ msg'.ch = chanOf[cases[k]]
            /\ taken[cases[k]] \in Nat /\ msg'.val = taken[cases[k]] + 1
            /\ taken' = [taken EXCEPT ![cases[k]] = taken[cases[k]] + 1] /\ out' = out
        BY <3>2, ForwardFacts
      <4>2. taken'[cases[k]] = taken[cases[k]] + 1
        BY <4>1 DEF ServerInv, TypeOK, ChanType
      <4>3. ASSUME NEW j \in 1..Len(out), out[j].t = "val", out[j].src = cases[k]
            PROVE  out[j].val < taken[cases[k]] + 1
        <5>1. out[j].val <= taken[cases[k]] /\ out[j].val \in Nat
          BY <1>0, <1>3, <4>3 DEF ValueInv
        <5> QED
          BY <4>1, <5>1
      <4> QED
        BY <1>1, <4>1, <4>2, <4>3
    <3>3. ASSUME NEW k \in Ids, outChanClosed(k) PROVE msg'.t = "close"
      BY <3>3, CloseMsg DEF Notification
    <3> QED
      BY <3>1, <3>2, <3>3, MsgStep
  <2>2. \A j, k \in 1..Len(out') :
       j < k /\ out'[j].t = "val" /\ out'[k].t = "val" /\ out'[j].src = out'[k].src
       => out'[j].val < out'[k].val
    BY <1>0, <1>5 DEF ValueInv
  <2> QED
    BY <1>4, <1>5, <2>1, <2>2 DEF ValueInv
<1>6. CASE out' = out /\ ~(OutChans /\ ocWrite)
  BY <1>5, <1>6
<1>7. ASSUME NEW i \in Ids, respond(i), out' = Append(out, Response(i)), ~(OutChans /\ ocWrite)
      PROVE  ValueInv'
  <2>1. Response(i).t # "val"
    BY DEF Response
  <2>2. /\ Len(out') = Len(out) + 1 /\ out'[Len(out) + 1] = Response(i)
        /\ \A k \in 1..Len(out) : out'[k] = out[k]
    BY <1>0, <1>7, ResponseType, AppendFacts
  <2> QED
    BY <1>0, <1>5, <1>7, <2>1, <2>2
<1>8. CASE OutChans /\ ocWrite
  <2>1. oc = "write" /\ oc' = "select" /\ out' = Append(out, msg)
    BY <1>8 DEF ocWrite
  <2>2. /\ Len(out') = Len(out) + 1 /\ out'[Len(out) + 1] = msg
        /\ \A k \in 1..Len(out) : out'[k] = out[k]
    BY <1>0, <2>1, AppendFacts
  <2>3. Sending /\ ~Sending'
    BY <2>1 DEF Sending
  <2>4. msg.t = "val" => /\ msg.src \in Registered' /\ msg.ch = chanOf'[msg.src]
                         /\ msg.val <= taken'[msg.src]
    BY <1>0, <1>1, <1>2, <1>3, <2>3 DEF ValueInv
  <2>5. \A k \in 1..Len(out') : out'[k].t = "val" =>
         /\ out'[k].src \in Registered' /\ out'[k].ch = chanOf'[out'[k].src]
         /\ out'[k].val <= taken'[out'[k].src]
    BY <1>0, <1>4, <2>2, <2>4
  <2>6. ASSUME NEW j \in 1..Len(out'), NEW k \in 1..Len(out'),
               j < k, out'[j].t = "val", out'[k].t = "val", out'[j].src = out'[k].src
        PROVE  out'[j].val < out'[k].val
    <3>1. j \in 1..Len(out) /\ out'[j] = out[j]
      BY <1>0, <2>2, <2>6
    <3>2. CASE k = Len(out) + 1
      BY <1>0, <2>2, <2>3, <2>6, <3>1, <3>2 DEF ValueInv
    <3>3. CASE k \in 1..Len(out)
      BY <1>0, <2>2, <2>6, <3>1, <3>3 DEF ValueInv
    <3> QED
      BY <1>0, <2>2, <3>2, <3>3
  <2> QED
    BY <2>3, <2>5, <2>6 DEF ValueInv
<1> QED
  BY <1>6, <1>7, <1>8, OutStep

\* What was announced or is about to be stays so: the handler that has
\* registered answers, or its write fails and nothing is written any more.
LEMMA ExpectedKeeps ==
  ASSUME ServerInv, AnyNext, NEW ch, Expected(ch)
  PROVE  Expected(ch)'
<1>0. out \in Seq(Messages) /\ msg \in Messages /\ Len(out) \in Nat /\ CallInv
  BY LenProperties DEF ServerInv, TypeOK, OutType
<1>1. Announced(ch) => Announced(ch)'
  <2>1. ASSUME NEW m \in Messages, out' = Append(out, m), Announced(ch) PROVE Announced(ch)'
    <3>1. /\ Len(out') = Len(out) + 1 /\ \A k \in 1..Len(out) : out'[k] = out[k]
      BY <1>0, <2>1, AppendFacts
    <3> QED
      BY <1>0, <2>1, <3>1 DEF Announced
  <2> QED
    BY <1>0, <2>1, OutStep, ResponseType DEF Announced
<1>2. writeErr => writeErr'
  BY OutStep
<1>3. ASSUME NEW i \in Ids, h[i] = "answer", chanOf[i] = ch PROVE Expected(ch)'
  <2>1. /\ chanOf'[i] = ch
        /\ h'[i] = "answer" \/ (Handler(i) /\ respond(i))
    BY <1>3, RegisteredKeeps DEF Registered
  <2>2. CASE h'[i] = "answer"
    BY <2>1, <2>2 DEF Expected
  <2>3. CASE respond(i) /\ writeErr'
    BY <2>3 DEF Expected
  <2>4. CASE respond(i) /\ out' = Append(out, Response(i))
    <3>1. Response(i).t = "resp" /\ Response(i).ch = ch
      BY <1>0, <1>3 DEF Response, CallInv
    <3>2. /\ Len(out') = Len(out) + 1 /\ out'[Len(out) + 1] = Response(i)
      BY <1>0, <2>4, ResponseType, AppendFacts
    <3>3. Len(out) + 1 \in 1..Len(out')
      BY <1>0, <3>2
    <3>4. Announced(ch)'
      BY <3>1, <3>2, <3>3 DEF Announced
    <3> QED
      BY <3>4 DEF Expected
  <2> QED
    BY <2>1, <2>2, <2>3, <2>4 DEF respond
<1> QED
  BY <1>1, <1>2, <1>3 DEF Expected

\* Nothing is written about a channel before the response that announces it:
\* handleOutChans writes with the lock, which a handler that has registered and
\* not yet answered would hold.
LEMMA AnnounceStep ==
  ASSUME ServerInv, AnyNext
  PROVE  AnnounceInv'
<1>0. /\ AnnounceInv /\ CaseInv /\ LockInv /\ out \in Seq(Messages) /\ msg \in Messages
      /\ Len(out) \in Nat
  BY LenProperties DEF ServerInv, TypeOK, OutType
<1> DEFINE Next1(c) == \/ writeErr'
                       \/ \E j \in 1..Len(out') : out'[j].t = "resp" /\ out'[j].ch = c
                       \/ \E i \in Ids : h'[i] = "answer" /\ chanOf'[i] = c
<1>1. \A c : Expected(c) => Next1(c)
  BY ExpectedKeeps DEF Expected, Announced
<1>2. ASSUME \A k \in 1..Len(caseToID') : Next1(caseToID'[k]),
             Sending' => msg'.t \in {"val", "close"} /\ Next1(msg'.ch),
             AnnouncedFirst'
      PROVE  AnnounceInv'
  BY <1>2 DEF AnnounceInv, Expected, Announced
<1> HIDE DEF Next1
<1>3. \A k \in 1..Len(caseToID) : Next1(caseToID[k])
  BY <1>0, <1>1 DEF AnnounceInv
<1>4. \A k \in 1..Len(caseToID') : Next1(caseToID'[k])
  <2>1. CASE UNCHANGED <<cases, caseToID>>
    BY <1>3, <2>1
  <2>2. ASSUME NEW i \in Ids, Handler(i), register(i) PROVE \A k \in 1..Len(caseToID') : Next1(caseToID'[k])
    <3>1. h'[i] = "answer" /\ chanOf'[i] = chanOf[i]
      BY <2>2 DEF register, chanVars, ServerInv, TypeOK, CallType
    <3>2. Next1(chanOf[i])
      BY <3>1 DEF Next1
    <3> QED
      BY <1>3, <2>2, <3>2, RegisterFacts
  <2>3. ASSUME NEW k \in Ids, outChanClosed(k) PROVE \A j \in 1..Len(caseToID') : Next1(caseToID'[j])
    BY <1>3, <2>3, ClosedFacts
  <2> QED
    BY <2>1, <2>2, <2>3, CasesStep
<1>5. Sending' => msg'.t \in {"val", "close"} /\ Next1(msg'.ch)
  <2>1. CASE msg' = msg /\ (Sending' => Sending)
    BY <1>0, <1>1, <2>1 DEF AnnounceInv
  <2>2. ASSUME NEW k \in Ids, forward(k) PROVE msg'.t = "val" /\ Next1(msg'.ch)
    BY <1>0, <1>3, <2>2, ForwardFacts DEF CaseInv
  <2>3. ASSUME NEW k \in Ids, outChanClosed(k) PROVE msg'.t = "close" /\ Next1(msg'.ch)
    <3>1. Len(caseToID) \in 1..Len(caseToID)
      BY <2>3, ClosedFacts
    <3>2. msg'.t = "close" /\ msg'.ch = caseToID[Len(caseToID)]
      BY <2>3, CloseMsg DEF Notification
    <3> QED
      BY <1>3, <3>1, <3>2
  <2> QED
    BY <2>1, <2>2, <2>3, MsgStep
<1>6. AnnouncedFirst'
  <2>0. AnnouncedFirst
    BY <1>0 DEF AnnounceInv
  <2>1. CASE out' = out
    BY <2>0, <2>1 DEF AnnouncedFirst
  <2>2. ASSUME NEW m \in Messages, out' = Append(out, m),
               m.t \in {"val", "close"} => Announced(m.ch)
        PROVE  AnnouncedFirst'
    <3>1. /\ Len(out') = Len(out) + 1 /\ out'[Len(out) + 1] = m
          /\ \A k \in 1..Len(out) : out'[k] = out[k]
      BY <1>0, <2>2, AppendFacts
    <3> SUFFICES ASSUME NEW k \in 1..Len(out'), out'[k].t \in {"val", "close"}
                 PROVE  \E j \in 1..(k - 1) : out'[j].t = "resp" /\ out'[j].ch = out'[k].ch
      BY DEF AnnouncedFirst
    <3>2. CASE k \in 1..Len(out)
      <4>1. PICK j \in 1..(k - 1) : out[j].t = "resp" /\ out[j].ch = out[k].ch
        BY <2>0, <3>1, <3>2 DEF AnnouncedFirst
      <4>2. j \in 1..Len(out)
        BY <1>0, <3>2
      <4> QED
        BY <3>1, <3>2, <4>1, <4>2
    <3>3. CASE k = Len(out) + 1
      <4>1. PICK j \in 1..Len(out) : out[j].t = "resp" /\ out[j].ch = m.ch
        BY <2>2, <3>1, <3>3 DEF Announced
      <4>2. j \in 1..(k - 1)
        BY <1>0, <3>3
      <4> QED
        BY <3>1, <3>3, <4>1, <4>2
    <3> QED
      BY <1>0, <3>1, <3>2, <3>3
  <2>3. ASSUME NEW i \in Ids, out' = Append(out, Response(i)) PROVE AnnouncedFirst'
    BY <2>2, <2>3, ResponseType DEF Response
  <2>4. CASE ocWrite /\ out' = Append(out, msg) /\ ~writeErr
    <3>1. oc = "write" /\ Holders = {}
      BY <1>0, <2>4 DEF ocWrite, LockInv
    <3>2. Announced(msg.ch)
      BY <1>0, <2>4, <3>1 DEF AnnounceInv, Sending, Expected, Holders
    <3> QED
      BY <1>0, <2>2, <2>4, <3>2
  <2> QED
    BY <2>1, <2>3, <2>4, OutStep
<1> QED
  BY <1>2, <1>4, <1>5, <1>6

-----------------------------------------------------------------------------
(* The names of the channels, for the composition with a client.           *)

\* The ids of two channels differ, and the response to a channel-valued call
\* carries the id of its own channel.
NamesInv ==
  /\ \A i \in Ids : chanOf[i] <= chanCtr
  /\ \A i, j \in Ids : chanOf[i] = chanOf[j] /\ chanOf[i] # None => i = j
  /\ \A i \in Ids : h[i] \in {"register", "answer"} => chanOf[i] # None
  /\ \A i \in Ids : kind[i] = "chan" => reply[i] \in {"none", "chan", "error"}
  /\ \A k \in 1..Len(out) :
       /\ out[k].t # "none"
       /\ out[k].t = "resp" =>
            /\ out[k].src \in Ids /\ h[out[k].src] \in {"done", "end"}
            /\ out[k].ch = chanOf[out[k].src]
            /\ reply[out[k].src] = "chan" => chanOf[out[k].src] # None

\* A channel gets its id in handleChanOut and nowhere else.
LEMMA ChanMoves ==
  ASSUME ServerInv, AnyNext
  PROVE  \/ /\ UNCHANGED <<chanOf, chanCtr>>
            /\ \A i \in Ids : h'[i] \in {"register", "answer"} => h[i] \in {"register", "answer"}
         \/ \E i \in Ids : /\ chanOf[i] = None /\ h' = [h EXCEPT ![i] = "register"]
                           /\ chanCtr' = chanCtr + 1 /\ chanOf' = [chanOf EXCEPT ![i] = chanCtr + 1]
<1> USE DEF LoopFrame, callVars, chanVars
<1>0. h \in [Ids -> {"none", "call", "lock", "write", "register", "answer", "done", "end"}]
  BY DEF ServerInv, TypeOK, CallType
<1>1. CASE (\E n \in Ids, k \in CallKinds : Arrives(n, k)) /\ LoopFrame
  <2>1. PICK n \in Ids : h' = [h EXCEPT ![n] = "call"]
    BY <1>1 DEF Arrives, handleCall
  <2> QED
    BY <1>0, <1>1, <2>1
<1>2. CASE /\ LoopFrame
           /\ \/ handleNotification \/ (\E d \in Ids \cup {None} : cancelCtx(d))
              \/ loopReturn \/ serveReturn
  BY <1>2 DEF handleNotification, cancelCtx, loopReturn, serveReturn
<1>3. ASSUME NEW i \in Ids, Handler(i), ~handleChanOut(i)
      PROVE  /\ UNCHANGED <<chanOf, chanCtr>>
             /\ \A j \in Ids : h'[j] \in {"register", "answer"} => h[j] \in {"register", "answer"}
  <2>1. UNCHANGED <<chanOf, chanCtr>>
    BY <1>3 DEF Handler, doCall, lock, nextWriterErr, register, registerClosed, respond, done
  <2>2. \/ h' = h
        \/ h[i] = "register" /\ h' = [h EXCEPT ![i] = "answer"]
        \/ \E p \in {"lock", "write", "done", "end"} : h' = [h EXCEPT ![i] = p]
    BY <1>3 DEF Handler, doCall, lock, nextWriterErr, register, registerClosed, respond, done
  <2> QED
    BY <1>0, <2>1, <2>2
<1>4. ASSUME NEW i \in Ids, Handler(i), handleChanOut(i)
      PROVE  /\ chanOf[i] = None /\ h' = [h EXCEPT ![i] = "register"]
             /\ chanCtr' = chanCtr + 1 /\ chanOf' = [chanOf EXCEPT ![i] = chanCtr + 1]
  BY <1>4 DEF handleChanOut, ServerInv, CallInv
<1>5. CASE OutChans \/ Environment
  BY <1>5 DEF OutChans, Environment, EnvFrame
<1> QED
  BY <1>1, <1>2, <1>3, <1>4, <1>5 DEF AnyNext

\* What a call is asked for, and what its method can give.
LEMMA KindStep ==
  ASSUME ServerInv, AnyNext, NEW j \in Ids, kind[j] = "chan" => reply[j] \in {"none", "chan", "error"}
  PROVE  kind'[j] = "chan" => reply'[j] \in {"none", "chan", "error"}
<1> USE DEF LoopFrame, callVars
<1>0. /\ kind \in [Ids -> CallKinds \cup {"none"}]
      /\ reply \in [Ids -> {"none", "value", "error", "bad", "chan"}]
  BY DEF ServerInv, TypeOK, CallType
<1>1. CASE (\E n \in Ids, k \in CallKinds : Arrives(n, k)) /\ LoopFrame
  <2>1. PICK n \in Ids, k \in CallKinds : kind' = [kind EXCEPT ![n] = k] /\ reply' = reply /\ h[n] = "none"
    BY <1>1 DEF Arrives, handleCall
  <2>2. reply[n] = "none"
    BY <2>1 DEF ServerInv, CallInv
  <2> QED
    BY <1>0, <2>1, <2>2
<1>2. CASE \/ OutChans \/ Environment
           \/ /\ LoopFrame
              /\ \/ handleNotification \/ (\E d \in Ids \cup {None} : cancelCtx(d))
                 \/ loopReturn \/ serveReturn
  BY <1>2 DEF handleNotification, cancelCtx, loopReturn, serveReturn, OutChans, Environment, EnvFrame
<1>3. ASSUME NEW i \in Ids, Handler(i), ~doCall(i)
      PROVE  UNCHANGED <<kind, reply>>
  BY <1>3 DEF Handler, lock, nextWriterErr, handleChanOut, register, registerClosed, respond, done
<1>4. ASSUME NEW i \in Ids, Handler(i), doCall(i)
      PROVE  kind'[j] = "chan" => reply'[j] \in {"none", "chan", "error"}
  <2>1. kind' = kind
    BY <1>4 DEF Handler
  <2>2. PICK r \in IF kind[i] = "plain" THEN {"value", "error", "bad"}
                   ELSE IF kind[i] = "chan" THEN {"chan", "error"} ELSE {"error"} :
          reply' = [reply EXCEPT ![i] = r]
    BY <1>4 DEF doCall
  <2> QED
    BY <1>0, <2>1, <2>2
<1> QED
  BY <1>1, <1>2, <1>3, <1>4 DEF AnyNext

\* Every step keeps the names apart.
LEMMA NamesStep ==
  ASSUME ServerInv, NamesInv, AnyNext
  PROVE  NamesInv'
<1>0. /\ chanOf \in [Ids -> 0..MaxCalls] /\ chanCtr \in Nat /\ out \in Seq(Messages)
      /\ h \in [Ids -> {"none", "call", "lock", "write", "register", "answer", "done", "end"}]
  BY ServerAssumption DEF ServerAssumption, ServerInv, TypeOK, CallType, ChanType, OutType
<1>1. /\ \A i \in Ids : chanOf'[i] <= chanCtr'
      /\ \A i, j \in Ids : chanOf'[i] = chanOf'[j] /\ chanOf'[i] # None => i = j
      /\ \A i \in Ids : h'[i] \in {"register", "answer"} => chanOf'[i] # None
  <2>1. CASE /\ UNCHANGED <<chanOf, chanCtr>>
             /\ \A i \in Ids : h'[i] \in {"register", "answer"} => h[i] \in {"register", "answer"}
    BY <2>1 DEF NamesInv
  <2>2. ASSUME NEW n \in Ids, h' = [h EXCEPT ![n] = "register"],
               chanCtr' = chanCtr + 1, chanOf' = [chanOf EXCEPT ![n] = chanCtr + 1]
        PROVE  /\ \A i \in Ids : chanOf'[i] <= chanCtr'
               /\ \A i, j \in Ids : chanOf'[i] = chanOf'[j] /\ chanOf'[i] # None => i = j
               /\ \A i \in Ids : h'[i] \in {"register", "answer"} => chanOf'[i] # None
    <3>1. \A i \in Ids : /\ chanOf'[i] = IF i = n THEN chanCtr + 1 ELSE chanOf[i]
                         /\ chanOf[i] \in Nat /\ chanOf[i] <= chanCtr
                         /\ h'[i] = IF i = n THEN "register" ELSE h[i]
      BY <1>0, <2>2, ServerAssumption DEF ServerAssumption, NamesInv
    <3>2. \A i \in Ids : chanOf'[i] <= chanCtr'
      BY <1>0, <2>2, <3>1
    <3>3. \A i, j \in Ids : chanOf'[i] = chanOf'[j] /\ chanOf'[i] # None => i = j
      BY <1>0, <3>1 DEF NamesInv
    <3>4. \A i \in Ids : h'[i] \in {"register", "answer"} => chanOf'[i] # None
      BY <1>0, <3>1 DEF NamesInv, None
    <3> QED
      BY <3>2, <3>3, <3>4
  <2> QED
    BY <2>1, <2>2, ChanMoves
<1>2. \A i \in Ids : kind'[i] = "chan" => reply'[i] \in {"none", "chan", "error"}
  BY KindStep DEF NamesInv
<1> DEFINE Named(m) ==
      /\ m.t # "none"
      /\ m.t = "resp" => /\ m.src \in Ids /\ h'[m.src] \in {"done", "end"}
                         /\ m.ch = chanOf'[m.src]
                         /\ reply'[m.src] = "chan" => chanOf'[m.src] # None
<1>3. \A k \in 1..Len(out) : Named(out[k])
  <2>1. SUFFICES ASSUME NEW k \in 1..Len(out) PROVE Named(out[k])
    OBVIOUS
  <2>2. CASE out[k].t # "resp"
    BY <2>2 DEF NamesInv
  <2>3. CASE out[k].t = "resp"
    <3> DEFINE i == out[k].src
    <3>1. /\ i \in Ids /\ h[i] \in {"done", "end"} /\ out[k].ch = chanOf[i]
          /\ reply[i] = "chan" => chanOf[i] # None
      BY <2>3 DEF NamesInv
    <3> HIDE DEF i
    <3>2. i \in Registered
      BY <3>1 DEF Registered
    <3>3. chanOf'[i] = chanOf[i] /\ h'[i] \in {"done", "end"} /\ reply'[i] = reply[i]
      BY <3>1, <3>2, RegisteredKeeps, CallMoves
    <3> QED
      BY <2>3, <3>1, <3>3 DEF i
  <2> QED
    BY <2>2, <2>3
<1>4. \A k \in 1..Len(out') : Named(out'[k])
  <2>1. CASE out' = out
    BY <1>3, <2>1
  <2>2. ASSUME NEW m \in Messages, out' = Append(out, m), Named(m)
        PROVE  \A k \in 1..Len(out') : Named(out'[k])
    <3>1. /\ Len(out') = Len(out) + 1 /\ Len(out) \in Nat
          /\ \A k \in 1..Len(out) : out'[k] = out[k]
          /\ out'[Len(out) + 1] = m
      BY <1>0, <2>2, AppendFacts
    <3>2. \A k \in 1..Len(out') : k \in 1..Len(out) \/ k = Len(out) + 1
      BY <3>1
    <3> HIDE DEF Named
    <3> QED
      BY <1>3, <2>2, <3>1, <3>2
  <2>3. ASSUME NEW i \in Ids, respond(i), out' = Append(out, Response(i))
        PROVE  \A k \in 1..Len(out') : Named(out'[k])
    <3>1. /\ h' = [h EXCEPT ![i] = "done"] /\ UNCHANGED <<reply, chanOf>>
          /\ h[i] = "answer" \/ (h[i] = "write" /\ reply[i] # "chan")
      BY <2>3 DEF respond, chanVars
    <3>2. h'[i] = "done" /\ (reply[i] = "chan" => chanOf[i] # None)
      BY <1>0, <3>1 DEF NamesInv
    <3>3. Named(Response(i))
      BY <3>1, <3>2 DEF Response
    <3> HIDE DEF Named
    <3> QED
      BY <2>2, <2>3, <3>3, ResponseType
  <2>4. CASE ocWrite /\ out' = Append(out, msg)
    <3>1. msg \in Messages /\ msg.t \in {"val", "close"}
      BY <2>4 DEF ServerInv, TypeOK, OutType, AnnounceInv, Sending, ocWrite
    <3>2. Named(msg)
      BY <3>1
    <3> HIDE DEF Named
    <3> QED
      BY <2>2, <2>4, <3>1, <3>2
  <2> HIDE DEF Named
  <2> QED
    BY <2>1, <2>3, <2>4, OutStep
<1> QED
  BY <1>1, <1>2, <1>4 DEF NamesInv

-----------------------------------------------------------------------------
(* The invariant and what follows from it.                                 *)

\* The invariant holds before the first frame arrives.
LEMMA InitServer ==
  ASSUME Init
  PROVE  ServerInv
<1> USE ServerAssumption, IdFacts DEF ServerAssumption, Init
<1>1. TypeOK
  <2>1. CallType /\ ConnType /\ ChanType
    BY DEF CallType, ConnType, ChanType, None
  <2>2. FlagType
    BY DEF FlagType
  <2>3. OutType
    BY DEF OutType, Messages, NoMsg, None
  <2> QED
    BY <2>1, <2>2, <2>3 DEF TypeOK
<1>2. CallInv /\ EndInv /\ HandlingTracksCalls
  BY DEF CallInv, EndInv, HandlingTracksCalls, None
<1>3. CountInv
  <2>1. Numbered = {}
    BY DEF Numbered
  <2> QED
    BY <2>1, FS_EmptySet DEF CountInv
<1>4. LockInv
  BY DEF LockInv, Holders
<1>5. Len(out) = 0 /\ Len(cases) = 0 /\ Len(caseToID) = 0
  BY EmptySeq
<1>6. ReplyInv /\ CaseInv
  BY <1>5 DEF ReplyInv, CaseInv, Responses
<1>7. ValueInv /\ AnnounceInv
  BY <1>5 DEF ValueInv, AnnounceInv, AnnouncedFirst, Sending
<1> QED
  BY <1>1, <1>2, <1>3, <1>4, <1>6, <1>7 DEF ServerInv

\* A stuttering step preserves the invariant.
LEMMA StutterServer ==
  ASSUME ServerInv, UNCHANGED vars
  PROVE  ServerInv'
<1> USE DEF vars, callVars, lockVars, chanVars, ocVars
<1>1. TypeOK'
  BY DEF ServerInv, TypeOK, CallType, ConnType, FlagType, ChanType, OutType
<1>2. CallInv' /\ CountInv' /\ HandlingTracksCalls' /\ EndInv'
  BY DEF ServerInv, CallInv, CountInv, Numbered, HandlingTracksCalls, EndInv
<1>3. /\ Holders' = Holders /\ UNCHANGED <<writeLK, writeErr, oc, crashed>> /\ LockInv
      /\ writeErr \in BOOLEAN /\ writeLK \in BOOLEAN
  BY DEF Holders, ServerInv, TypeOK, FlagType
<1>4. LockInv'
  BY <1>3, LockSame
<1>5. ReplyInv' /\ CaseInv'
  BY DEF ServerInv, ReplyInv, Responses, CaseInv, Registered
<1>6. ValueInv' /\ AnnounceInv'
  BY DEF ServerInv, ValueInv, Registered, Sending, AnnounceInv, AnnouncedFirst, Expected, Announced
<1> QED
  BY <1>1, <1>2, <1>4, <1>5, <1>6 DEF ServerInv

\* Every step keeps the invariant, whichever ids the peer gives to its calls.
LEMMA ServerStep ==
  ASSUME ServerInv, AnyNext
  PROVE  ServerInv'
<1>1. TypeOK'
  BY CallTypeStep, ConnTypeStep, FlagTypeStep, ChanTypeStep, OutTypeStep DEF TypeOK
<1> QED
  BY <1>1, CallStep, ChanTypeStep, HandlingStep, LockStep, EndStep, ReplyStep, CaseStep,
     ValueStep, AnnounceStep DEF ServerInv

\* The loss of the connection keeps it, also after the process has died.
LEMMA LossStep ==
  ASSUME ServerInv, conn = "open", conn' \in {"broken", "closed"},
         UNCHANGED <<loop, callVars, lockVars, chanVars, regClosed, ocVars, out, crashed>>
  PROVE  ServerInv'
<1> USE DEF callVars, lockVars, chanVars, ocVars
<1>1. TypeOK'
  BY DEF ServerInv, TypeOK, CallType, ConnType, FlagType, ChanType, OutType
<1>2. CallInv' /\ CountInv' /\ HandlingTracksCalls' /\ EndInv'
  BY DEF ServerInv, CallInv, CountInv, Numbered, HandlingTracksCalls, EndInv
<1>3. /\ Holders' = Holders /\ UNCHANGED <<writeLK, writeErr, oc, crashed>> /\ LockInv
      /\ writeErr \in BOOLEAN /\ writeLK \in BOOLEAN
  BY DEF Holders, ServerInv, TypeOK, FlagType
<1>4. LockInv'
  BY <1>3, LockSame
<1>5. ReplyInv' /\ CaseInv'
  BY DEF ServerInv, ReplyInv, Responses, CaseInv, Registered
<1>6. ValueInv' /\ AnnounceInv'
  BY DEF ServerInv, ValueInv, Registered, Sending, AnnounceInv, AnnouncedFirst, Expected, Announced
<1> QED
  BY <1>1, <1>2, <1>4, <1>5, <1>6 DEF ServerInv

\* A peer that numbers its calls uses an id once.
LEMMA OrderStep ==
  ASSUME ServerInv, OrderInv, Next
  PROVE  AnyNext /\ OrderInv'
<1>0. /\ nCalls \in Nat /\ nCalls <= MaxCalls /\ Kinds \subseteq CallKinds
      /\ h \in [Ids -> {"none", "call", "lock", "write", "register", "answer", "done", "end"}]
  BY ServerAssumption DEF ServerAssumption, ServerInv, TypeOK, CallType
<1>1. ASSUME NEW k \in Kinds, handleCall(nCalls + 1, k), LoopFrame
      PROVE  AnyNext /\ OrderInv'
  <2>1. nCalls + 1 \in Ids /\ nCalls + 1 > nCalls
    BY <1>0, <1>1, ServerAssumption DEF handleCall, Ids, ServerAssumption
  <2>2. Arrives(nCalls + 1, k)
    BY <1>1, <2>1 DEF OrderInv, Arrives
  <2>3. OrderInv'
    <3>1. nCalls' = nCalls + 1 /\ h' = [h EXCEPT ![nCalls + 1] = "call"]
      BY <1>1 DEF handleCall
    <3>2. \A i \in Ids : i > nCalls + 1 => i > nCalls /\ i # nCalls + 1
      BY <1>0, IdFacts
    <3> QED
      BY <1>0, <3>1, <3>2 DEF OrderInv
  <2>4. crashed = "no"
    BY DEF Next
  <2> QED
    BY <1>0, <1>1, <2>1, <2>2, <2>3, <2>4 DEF AnyNext
<1>2. ASSUME NEW i \in Ids, Handler(i) PROVE OrderInv'
  <2>1. /\ nCalls' = nCalls
        /\ \A j \in Ids : h[j] = "none" => h'[j] = "none"
    BY <1>0, <1>2 DEF Handler, doCall, lock, nextWriterErr, handleChanOut, register,
                      registerClosed, respond, done
  <2> QED
    BY <2>1 DEF OrderInv
<1>3. CASE \/ handleNotification /\ LoopFrame
           \/ (\E d \in Ids \cup {None} : cancelCtx(d)) /\ LoopFrame
           \/ (loopReturn \/ serveReturn) /\ LoopFrame
           \/ OutChans \/ Environment
  <2>1. UNCHANGED <<nCalls, h>>
    BY <1>3 DEF handleNotification, cancelCtx, loopReturn, serveReturn, OutChans, Environment,
                EnvFrame, callVars
  <2>2. AnyNext
    BY <1>3 DEF Next, AnyNext
  <2> QED
    BY <2>1, <2>2 DEF OrderInv
<1> QED
  BY <1>1, <1>2, <1>3 DEF Next, AnyNext, Receive, Return

\* The invariant of the server is inductive: every interleaving of the loop,
\* the calls' goroutines, handleOutChans, the methods and the network keeps it.
THEOREM ServerInductive == Spec => []ServerInv
<1>1. Init => ServerInv /\ OrderInv
  BY InitServer DEF Init, OrderInv
<1>2. ServerInv /\ OrderInv /\ [Next]_vars => ServerInv' /\ OrderInv'
  <2>1. CASE UNCHANGED vars
    BY <2>1, StutterServer DEF vars, callVars, OrderInv
  <2> QED
    BY <2>1, ServerStep, OrderStep
<1> QED
  BY <1>1, <1>2, PTL DEF Spec

\* Type correctness: the ids of channels never outnumber the calls.
THEOREM ServerTypeCorrect == Spec => []TypeOK
<1>1. ServerInv => TypeOK
  BY DEF ServerInv
<1> QED
  BY <1>1, ServerInductive, PTL

\* writeLK (nextWriter, sendRequest): until a write fails, at most one goroutine
\* is between Lock and Unlock, the lock is held exactly then, and no Unlock hits
\* an unlocked mutex.
THEOREM ServerLockHeldByOneWriter == Spec => []LockHeldByOneWriter
<1>1. ServerInv => LockHeldByOneWriter
  <2> SUFFICES ASSUME ServerInv, ~writeErr
               PROVE  /\ Cardinality(Holders) + (IF oc = "write" THEN 1 ELSE 0) <= 1
                      /\ writeLK <=> Holders # {} \/ oc = "write"
                      /\ crashed # "unlock of unlocked mutex"
    BY DEF LockHeldByOneWriter
  <2>1. /\ writeLK <=> Holders # {} \/ oc = "write"
        /\ crashed # "unlock of unlocked mutex"
    BY DEF ServerInv, LockInv
  <2>2. (\A i, j \in Holders : i = j) /\ (oc = "write" => Holders = {})
    BY DEF ServerInv, LockInv
  <2>3. Cardinality(Holders) + (IF oc = "write" THEN 1 ELSE 0) <= 1
    <3>1. CASE Holders = {}
      BY <3>1, FS_EmptySet
    <3>2. CASE Holders # {}
      <4>1. PICK i \in Holders : Holders = {i}
        BY <2>2, <3>2
      <4>2. Cardinality(Holders) = 1
        BY <4>1, FS_Singleton
      <4> QED
        BY <2>2, <3>2, <4>2
    <3> QED
      BY <3>1, <3>2
  <2> QED
    BY <2>1, <2>3, Zenon
<1> QED
  BY <1>1, ServerInductive, PTL

\* handlers.handle: at most one answer to a call, and exactly one when its
\* goroutine is done, as long as writes succeed and the result can be encoded.
THEOREM ServerAnsweredOnce == Spec => []AnsweredOnce
<1>1. ServerInv => AnsweredOnce
  <2> SUFFICES ASSUME ServerInv, NEW i \in Ids
               PROVE  /\ Cardinality(Responses(i)) <= 1
                      /\ h[i] \in {"done", "end"} /\ ~writeErr /\ reply[i] # "bad"
                           => Responses(i) # {}
    BY DEF AnsweredOnce
  <2>1. /\ \A j, k \in Responses(i) : j = k
        /\ h[i] \in {"done", "end"} /\ ~writeErr /\ reply[i] # "bad" => Responses(i) # {}
    BY DEF ServerInv, ReplyInv
  <2>2. Cardinality({}) = 0
    BY FS_EmptySet
  <2>3. CASE Responses(i) # {}
    <3>1. PICK j \in Responses(i) : Responses(i) = {j}
      BY <2>1, <2>3
    <3>2. Cardinality(Responses(i)) = 1
      BY <3>1, FS_Singleton
    <3> QED
      BY <2>1, <3>2
  <2>4. CASE Responses(i) = {}
    BY <2>1, <2>2, <2>4
  <2> QED
    BY <2>3, <2>4
<1> QED
  BY <1>1, ServerInductive, PTL

\* handling holds exactly the running calls and the channel-valued ones.
THEOREM ServerHandlingTracksCalls == Spec => []HandlingTracksCalls
<1>1. ServerInv => HandlingTracksCalls
  BY DEF ServerInv
<1> QED
  BY <1>1, ServerInductive, PTL

\* handleOutChans: cases and caseToID stay aligned, every value goes out under
\* the id of its own channel, and a channel's values go out in order.
THEOREM ServerValuesRouted == Spec => []ValuesRouted
<1>1. ServerInv => ValuesRouted
  BY DEF ServerInv, CaseInv, ValueInv, ValuesRouted
<1> QED
  BY <1>1, ServerInductive, PTL

\* No value and no close of a channel is written before the response with its id.
THEOREM ServerAnnouncedFirst == Spec => []AnnouncedFirst
<1>1. ServerInv => AnnouncedFirst
  BY DEF ServerInv, AnnounceInv
<1> QED
  BY <1>1, ServerInductive, PTL

\* The process dies of a send on registerCh only after the loop has left, and of
\* a second Unlock only after a write failed over a lost connection: the two
\* causes that the liveness properties of the server except.
THEOREM ServerDiesOnlyAfterLoss == Spec => [](crashed # "no" => Died)
<1>1. ServerInv => (crashed # "no" => Died)
  BY DEF ServerInv, TypeOK, ConnType, LockInv, EndInv, Died
<1> QED
  BY <1>1, ServerInductive, PTL

\* handleChanOut: no two channels of a connection have the same id, and the
\* response that announces a channel carries the id of its own call's channel.
THEOREM ServerChannelsApart == Spec => []NamesInv
<1>1. Init => ServerInv /\ OrderInv /\ NamesInv
  <2> SUFFICES ASSUME Init PROVE ServerInv /\ OrderInv /\ NamesInv
    OBVIOUS
  <2>1. ServerInv /\ OrderInv
    BY InitServer DEF Init, OrderInv
  <2>2. NamesInv
    BY DEF Init, NamesInv, None
  <2> QED
    BY <2>1, <2>2
<1>2. ServerInv /\ OrderInv /\ NamesInv /\ [Next]_vars => ServerInv' /\ OrderInv' /\ NamesInv'
  <2>1. CASE UNCHANGED vars
    <3>1. NamesInv => NamesInv'
      BY <2>1 DEF vars, callVars, chanVars, NamesInv
    <3> QED
      BY <2>1, <3>1, StutterServer DEF vars, callVars, OrderInv
  <2> QED
    BY <2>1, ServerStep, OrderStep, NamesStep
<1> QED
  BY <1>1, <1>2, PTL DEF Spec
=============================================================================
