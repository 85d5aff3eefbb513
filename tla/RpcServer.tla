------------------------------- MODULE RpcServer -------------------------------
(***************************************************************************)
(* The server half of a JSON-RPC websocket connection: the connection loop *)
(* (websocket.go handleWsConn under server.go handleWS), one goroutine per *)
(* call (handler.go handle), the goroutine handleOutChans that forwards    *)
(* the channels methods return, and the writer lock they share. The methods*)
(* themselves, their channels, the peer and the network are external.      *)
(*                                                                         *)
(* Here calls are numbered in the order they arrive; in RpcSystem they     *)
(* have the ids the client gave them. A channel is named by the call whose *)
(* method returned it.                                                     *)
(***************************************************************************)
EXTENDS Naturals, Sequences, FiniteSets

CONSTANTS
  MaxCalls,  \* bound on the calls that arrive: the ids are 1..MaxCalls
  MaxVals,   \* bound on the values a method sends into its channel
  Kinds,     \* what is called, a subset of CallKinds
  Faults     \* what the environment may do, a subset of FaultKinds

CallKinds == {"plain", "chan", "unknown"}
FaultKinds == {"cancel", "notify", "garbage", "drop", "close"}

ASSUME ServerAssumption ==
  /\ MaxCalls \in Nat /\ MaxVals \in Nat
  /\ Kinds \subseteq CallKinds /\ Faults \subseteq FaultKinds

Ids == 1..MaxCalls
None == 0

VARIABLES
  loop,      \* control state of handleWsConn
  nCalls,    \* calls that have arrived
  kind,      \* what call i asks for
  h,         \* control state of the goroutine of call i
  reply,     \* what it is going to write
  handling,  \* keys of wsConn.handling
  handlingLK,\* its lock, held over a step only by a loop that panicked
  ctxDone,   \* calls whose context is cancelled
  writeLK,   \* the writer lock, without an owner
  writeErr,  \* the connection has failed a write, and fails all later ones
  conn,      \* what has become of the connection
  chanCtr,   \* wsConn.chanCtr
  chanOf,    \* history: the channel id given to call i
  regClosed, \* registerCh is closed
  prod,      \* the channel of call i: "none", "nil", "open" or "closed"
  taken,     \* values received from the channel of call i
  oc,        \* control state of handleOutChans
  cases,     \* its select cases after the first: whose channel
  caseToID,  \* and the id of each
  msg,       \* the notification it is sending
  out,       \* frames written to the network, in order
  crashed    \* "no", or why the process has died

callVars == <<nCalls, kind, h, reply, handling, handlingLK, ctxDone>>
lockVars == <<writeLK, writeErr>>
chanVars == <<chanCtr, chanOf, prod, taken>>
ocVars   == <<oc, cases, caseToID, msg>>
vars == <<loop, callVars, lockVars, conn, chanVars, regClosed, ocVars, out, crashed>>

NoMsg == [t |-> "none", ch |-> None, src |-> None, val |-> None]

Init ==
  /\ loop = "select" /\ nCalls = 0
  /\ kind = [i \in Ids |-> "none"] /\ h = [i \in Ids |-> "none"]
  /\ reply = [i \in Ids |-> "none"]
  /\ handling = {} /\ handlingLK = FALSE /\ ctxDone = {}
  /\ writeLK = FALSE /\ writeErr = FALSE /\ conn = "open"
  /\ chanCtr = 0 /\ chanOf = [i \in Ids |-> None] /\ regClosed = FALSE
  /\ prod = [i \in Ids |-> "none"] /\ taken = [i \in Ids |-> 0]
  /\ oc = "unspawned" /\ cases = <<>> /\ caseToID = <<>> /\ msg = NoMsg
  /\ out = <<>> /\ crashed = "no"

-----------------------------------------------------------------------------
(* The connection loop.                                                    *)

\* handleCall: the cancel function is registered and the goroutine started.
handleCall(i, k) ==
  /\ loop = "select" /\ nCalls < MaxCalls /\ ~handlingLK
  /\ nCalls' = nCalls + 1 /\ kind' = [kind EXCEPT ![i] = k]
  /\ handling' = handling \cup {i}
  /\ h' = [h EXCEPT ![i] = "call"]
  /\ UNCHANGED <<loop, reply, handlingLK, ctxDone, lockVars, conn, regClosed>>

\* A call without ID: `&frame.ID != nil` is always true and *frame.ID panics
\* between Lock and Unlock of handlingLK. The deferred functions run (with
\* inflight empty they do not want the lock) and net/http recovers: the context
\* of the request ends, but handleWS does not reach its c.Close(), and nobody
\* unlocks handlingLK.
handleNotification ==
  /\ "notify" \in Faults /\ loop = "select" /\ ~handlingLK
  /\ handlingLK' = TRUE
  /\ loop' = "panicked" /\ regClosed' = TRUE /\ ctxDone' = Ids
  /\ UNCHANGED <<nCalls, kind, h, reply, handling, lockVars, conn>>

\* cancelCtx: a parameter that does not decode (d = None) changes nothing.
cancelCtx(d) ==
  /\ "cancel" \in Faults /\ loop = "select" /\ (d # None => ~handlingLK)
  /\ ctxDone' = IF d \in handling THEN ctxDone \cup {d} ELSE ctxDone
  /\ UNCHANGED <<loop, nCalls, kind, h, reply, handling, handlingLK, lockVars, conn,
                 regClosed>>

\* The loop returns: NextReader failed, or a frame did not decode. inflight is
\* empty on a server, so the first deferred function cancels nothing; the last
\* one closes registerCh. Reading a close frame answers it, and gorilla
\* refuses every later write.
loopReturn ==
  /\ loop = "select" /\ (conn # "open" \/ "garbage" \in Faults)
  /\ loop' = "returned" /\ regClosed' = TRUE
  /\ writeErr' = (writeErr \/ conn = "closed")
  /\ UNCHANGED <<callVars, writeLK, conn>>

\* Mutant: the contexts are left to the deferred function of the loop.
serveReturnM ==
  /\ loop = "returned"
  /\ loop' = "exited" /\ conn' = "local"
  /\ UNCHANGED <<callVars, lockVars, regClosed>>

\* handleWS closes the connection and ServeHTTP returns: net/http cancels the
\* context of the request, from which every call's context is derived.
serveReturn ==
  /\ loop = "returned"
  /\ loop' = "exited" /\ conn' = "local" /\ ctxDone' = Ids
  /\ UNCHANGED <<nCalls, kind, h, reply, handling, handlingLK, lockVars, regClosed>>

-----------------------------------------------------------------------------
(* The goroutine of a call: handlers.handle.                               *)

\* writeLK.Unlock(): fatal when the mutex is not locked.
Unlock ==
  /\ writeLK' = FALSE
  /\ crashed' = IF writeLK THEN crashed ELSE "unlock of unlocked mutex"

\* A write may fail when the connection is gone, and must after conn.Close or
\* an earlier failure.
MayFail == conn # "open"
MustFail == writeErr \/ conn = "local"

\* Everything up to the answer: the lookup, the parameters, the method itself.
\* An unknown method or a bad parameter is an error, as is a panic in the
\* method; a channel-valued method may return an error with a nil channel; a
\* value may be "bad", one that encoding/json refuses.
doCall(i) ==
  /\ h[i] = "call"
  /\ \E r \in IF kind[i] = "plain" THEN {"value", "error", "bad"}
              ELSE IF kind[i] = "chan" THEN {"chan", "error"} ELSE {"error"} :
       /\ reply' = [reply EXCEPT ![i] = r]
       /\ \E p \in IF r = "chan" THEN {"open", "nil"} ELSE {"none"} :
            prod' = [prod EXCEPT ![i] = p]
  /\ h' = [h EXCEPT ![i] = "lock"]
  /\ UNCHANGED <<handling, ctxDone, lockVars, chanCtr, chanOf, ocVars, out, crashed>>

\* nextWriter takes the lock ...
lock(i) ==
  /\ h[i] = "lock" /\ ~writeLK
  /\ writeLK' = TRUE /\ h' = [h EXCEPT ![i] = "write"]
  /\ UNCHANGED <<reply, handling, ctxDone, writeErr, chanVars, ocVars, out, crashed>>

\* ... and gives it back without calling cb if NextWriter fails.
nextWriterErr(i) ==
  /\ h[i] = "write" /\ writeErr
  /\ Unlock /\ h' = [h EXCEPT ![i] = "done"]
  /\ UNCHANGED <<reply, handling, ctxDone, writeErr, chanVars, ocVars, out>>

\* Mutant: one id is taken for the registration and another for the response.
handleChanOutM(i) ==
  /\ h[i] = "write" /\ ~writeErr /\ reply[i] = "chan"
  /\ oc' = IF oc = "unspawned" THEN "select" ELSE oc
  /\ chanCtr' = chanCtr + 2 /\ chanOf' = [chanOf EXCEPT ![i] = chanCtr + 1]
  /\ h' = [h EXCEPT ![i] = "register"]
  /\ UNCHANGED <<reply, handling, ctxDone, lockVars, prod, taken, cases, caseToID, msg,
                 out, crashed>>

\* handleChanOut, called from cb with the lock held: handleOutChans is started
\* once, a channel id is taken ...
handleChanOut(i) ==
  /\ h[i] = "write" /\ ~writeErr /\ reply[i] = "chan"
  /\ oc' = IF oc = "unspawned" THEN "select" ELSE oc
  /\ chanCtr' = chanCtr + 1 /\ chanOf' = [chanOf EXCEPT ![i] = chanCtr + 1]
  /\ h' = [h EXCEPT ![i] = "register"]
  /\ UNCHANGED <<reply, handling, ctxDone, lockVars, prod, taken, cases, caseToID, msg,
                 out, crashed>>

\* Mutant: the lock is given back before the response is written.
registerM(i) ==
  /\ h[i] = "register" /\ oc = "select" /\ ~regClosed
  /\ cases' = Append(cases, i) /\ caseToID' = Append(caseToID, chanOf[i])
  /\ h' = [h EXCEPT ![i] = "answer"] /\ writeLK' = FALSE
  /\ UNCHANGED <<reply, handling, ctxDone, writeErr, chanVars, oc, msg, out, crashed>>

\* ... and the registration handed over when handleOutChans receives it.
register(i) ==
  /\ h[i] = "register" /\ oc = "select" /\ ~regClosed
  /\ cases' = Append(cases, i) /\ caseToID' = Append(caseToID, chanOf[i])
  /\ h' = [h EXCEPT ![i] = "answer"]
  /\ UNCHANGED <<reply, handling, ctxDone, lockVars, chanVars, oc, msg, out, crashed>>

\* A send on the closed registerCh: an unrecovered panic.
registerClosed(i) ==
  /\ h[i] = "register" /\ regClosed
  /\ crashed' = "send on closed channel"
  /\ UNCHANGED <<h, reply, handling, ctxDone, lockVars, chanVars, ocVars, out>>

\* The message of cb: the response, or nothing at all if it does not encode.
Response(i) == [t |-> IF reply[i] = "bad" THEN "empty" ELSE "resp",
                ch |-> chanOf[i], src |-> i, val |-> None]

\* Mutant: the error path of the method answers nothing.
respondM(i) ==
  /\ \/ h[i] = "answer"
     \/ h[i] = "write" /\ ~writeErr /\ reply[i] # "chan"
  /\ out' = IF reply[i] = "error" THEN out ELSE Append(out, Response(i))
  /\ Unlock /\ h' = [h EXCEPT ![i] = "done"]
  /\ UNCHANGED <<reply, handling, ctxDone, writeErr, chanVars, ocVars>>

\* Mutant: a result that does not encode returns from nextWriter, still locked.
respondLockedM(i) ==
  /\ \/ h[i] = "answer"
     \/ h[i] = "write" /\ ~writeErr /\ reply[i] # "chan"
  /\ \/ ~MustFail /\ out' = Append(out, Response(i)) /\ UNCHANGED writeErr
     \/ MayFail /\ writeErr' = TRUE /\ UNCHANGED out
  /\ IF reply[i] = "bad" THEN UNCHANGED <<writeLK, crashed>> ELSE Unlock
  /\ h' = [h EXCEPT ![i] = "done"]
  /\ UNCHANGED <<reply, handling, ctxDone, chanVars, ocVars>>

\* cb encodes the response and nextWriter closes the writer (an error of either
\* is only logged), and unlocks.
respond(i) ==
  /\ \/ h[i] = "answer"
     \/ h[i] = "write" /\ ~writeErr /\ reply[i] # "chan"
  /\ \/ ~MustFail /\ out' = Append(out, Response(i)) /\ UNCHANGED writeErr
     \/ MayFail /\ writeErr' = TRUE /\ UNCHANGED out
  /\ Unlock /\ h' = [h EXCEPT ![i] = "done"]
  /\ UNCHANGED <<reply, handling, ctxDone, chanVars, ocVars>>

\* Mutant: done cancels the context but leaves the entry behind.
doneM(i) ==
  /\ h[i] = "done" /\ ~handlingLK
  /\ h' = [h EXCEPT ![i] = "end"]
  /\ ctxDone' = IF kind[i] = "chan" THEN ctxDone ELSE ctxDone \cup {i}
  /\ UNCHANGED <<handling, reply, lockVars, chanVars, ocVars, out, crashed>>

\* done(keepCtx), under handlingLK: the context of a channel-valued call is kept,
\* and so is its entry in handling.
done(i) ==
  /\ h[i] = "done" /\ ~handlingLK
  /\ h' = [h EXCEPT ![i] = "end"]
  /\ IF kind[i] = "chan" THEN UNCHANGED <<handling, ctxDone>>
     ELSE handling' = handling \ {i} /\ ctxDone' = ctxDone \cup {i}
  /\ UNCHANGED <<reply, lockVars, chanVars, ocVars, out, crashed>>

-----------------------------------------------------------------------------
(* handleOutChans.                                                         *)

Notification(k, t) ==
  [t |-> t, ch |-> caseToID[k], src |-> cases[k], val |-> taken[cases[k]] + 1]

\* A value from the channel of case k: it becomes a notification.
forward(k) ==
  /\ oc = "select" /\ k \in 1..Len(cases)
  /\ prod[cases[k]] = "open" /\ taken[cases[k]] < MaxVals
  /\ taken' = [taken EXCEPT ![cases[k]] = @ + 1]
  /\ msg' = Notification(k, "val") /\ oc' = "lock"
  /\ UNCHANGED <<cases, caseToID, lockVars, out, crashed>>

\* The sequence s with its last element moved to position k and cut off.
MoveLast(s, k) == SubSeq([s EXCEPT ![k] = s[Len(s)]], 1, Len(s) - 1)

\* Mutant: caseToID is cut without moving its last element.
outChanClosedM(k) ==
  /\ oc = "select" /\ k \in 1..Len(cases)
  /\ prod[cases[k]] = "closed"
  /\ cases' = MoveLast(cases, k) /\ caseToID' = SubSeq(caseToID, 1, Len(caseToID) - 1)
  /\ msg' = Notification(k, "close")
  /\ oc' = "lock"
  /\ UNCHANGED <<taken, lockVars, out, crashed>>

\* The channel of case k is closed: the last case takes its place, the id for
\* the notification is read from that place afterwards, and both are cut.
outChanClosed(k) ==
  LET moved == [caseToID EXCEPT ![k] = caseToID[Len(caseToID)]] IN
  /\ oc = "select" /\ k \in 1..Len(cases)
  /\ prod[cases[k]] = "closed"
  /\ cases' = MoveLast(cases, k) /\ caseToID' = MoveLast(caseToID, k)
  /\ msg' = [Notification(k, "close") EXCEPT !.ch = moved[k]]
  /\ oc' = "lock"
  /\ UNCHANGED <<taken, lockVars, out, crashed>>

\* registerCh is closed: the goroutine ends.
registerChClosed ==
  /\ oc = "select" /\ regClosed
  /\ oc' = "ended"
  /\ UNCHANGED <<cases, caseToID, msg, taken, lockVars, out, crashed>>

\* Mutant: the notification is written without the lock.
ocLockM ==
  /\ oc = "lock"
  /\ writeLK' = TRUE /\ oc' = "write"
  /\ UNCHANGED <<cases, caseToID, msg, taken, writeErr, out, crashed>>

\* sendRequest: lock, write, unlock; after a failed write unlock twice.
ocLock ==
  /\ oc = "lock" /\ ~writeLK
  /\ writeLK' = TRUE /\ oc' = "write"
  /\ UNCHANGED <<cases, caseToID, msg, taken, writeErr, out, crashed>>

ocWrite ==
  /\ oc = "write" /\ ~MustFail
  /\ out' = Append(out, msg)
  /\ Unlock /\ oc' = "select"
  /\ UNCHANGED <<cases, caseToID, msg, taken, writeErr>>

ocWriteFail ==
  /\ oc = "write" /\ MayFail
  /\ writeErr' = TRUE
  /\ Unlock /\ oc' = "unlock"
  /\ UNCHANGED <<cases, caseToID, msg, taken, out>>

ocUnlockAgain ==
  /\ oc = "unlock"
  /\ Unlock /\ oc' = "select"
  /\ UNCHANGED <<cases, caseToID, msg, taken, writeErr, out>>

-----------------------------------------------------------------------------
(* The environment: the methods' channels, the network (external).         *)

closeChan(i) ==
  /\ prod[i] = "open"
  /\ prod' = [prod EXCEPT ![i] = "closed"] /\ UNCHANGED conn

connLost ==
  /\ conn = "open"
  /\ \/ "drop" \in Faults /\ conn' = "broken"
     \/ "close" \in Faults /\ conn' = "closed"
  /\ UNCHANGED prod

-----------------------------------------------------------------------------
LoopFrame == UNCHANGED <<chanVars, ocVars, out, crashed>>
EnvFrame ==
  UNCHANGED <<loop, callVars, lockVars, chanCtr, chanOf, taken, regClosed, ocVars,
              out, crashed>>
Return == (loopReturn \/ serveReturn) /\ LoopFrame
Receive ==
  /\ \/ \E k \in Kinds : handleCall(nCalls + 1, k)
     \/ handleNotification
     \/ \E d \in Ids \cup {None} : cancelCtx(d)
  /\ LoopFrame
Handler(i) ==
  /\ \/ doCall(i) \/ lock(i) \/ nextWriterErr(i) \/ handleChanOut(i) \/ register(i)
     \/ registerClosed(i) \/ respond(i) \/ done(i)
  /\ UNCHANGED <<loop, nCalls, kind, handlingLK, conn, regClosed, taken>>
OutChans ==
  /\ \/ \E k \in Ids : forward(k) \/ outChanClosed(k)
     \/ registerChClosed \/ ocLock \/ ocWrite \/ ocWriteFail \/ ocUnlockAgain
  /\ UNCHANGED <<loop, callVars, conn, chanCtr, chanOf, prod, regClosed>>
Environment == (connLost \/ \E i \in Ids : closeChan(i)) /\ EnvFrame

Next ==
  /\ crashed = "no"
  /\ \/ Receive \/ Return \/ OutChans \/ Environment
     \/ \E i \in Ids : Handler(i)

Spec == Init /\ [][Next]_vars

Live(A) == crashed = "no" /\ A

\* Every goroutine that can run does. The lock goes to a waiter in the end, and
\* a select does not pass over a ready case for ever: strong fairness where a
\* goroutine competes. NextReader reports a lost connection. Nobody has to
\* call, cancel, close or fail, and a method's channel may stay silent.
Fairness ==
  /\ \A i \in Ids : SF_vars(Live(Handler(i)))
  /\ SF_vars(Live(OutChans))
  /\ WF_vars(Live(conn # "open" /\ Return))

FairSpec == Spec /\ Fairness

-----------------------------------------------------------------------------
(* Properties.                                                             *)

Messages == [t : {"none", "resp", "empty", "val", "close"}, ch : 0..MaxCalls,
             src : Ids \cup {None}, val : 0..(MaxVals + 1)]

\* The values the variables of the server can take.
CallType ==
  /\ loop \in {"select", "returned", "exited", "panicked"} /\ nCalls \in 0..MaxCalls
  /\ kind \in [Ids -> CallKinds \cup {"none"}]
  /\ h \in [Ids -> {"none", "call", "lock", "write", "register", "answer", "done", "end"}]
  /\ reply \in [Ids -> {"none", "value", "error", "bad", "chan"}]
  /\ handling \subseteq Ids /\ ctxDone \subseteq Ids
ConnType ==
  /\ conn \in {"open", "broken", "closed", "local"}
  /\ crashed \in {"no", "send on closed channel", "unlock of unlocked mutex"}
FlagType == {handlingLK, writeLK, writeErr, regClosed} \subseteq BOOLEAN
ChanType ==
  /\ chanCtr \in 0..MaxCalls /\ chanOf \in [Ids -> 0..MaxCalls]
  /\ prod \in [Ids -> {"none", "nil", "open", "closed"}]
  /\ taken \in [Ids -> 0..MaxVals]
OutType ==
  /\ oc \in {"unspawned", "select", "lock", "write", "unlock", "ended"}
  /\ cases \in Seq(Ids) /\ caseToID \in Seq(0..MaxCalls) /\ msg \in Messages
  /\ out \in Seq(Messages)
TypeOK == CallType /\ ConnType /\ FlagType /\ ChanType /\ OutType

\* The peer learns the id of a channel from the response to its call: nothing
\* about a channel is written before that response, although the values come
\* from another goroutine (the registration happens inside nextWriter's cb).
AnnouncedFirst ==
  \A k \in 1..Len(out) : out[k].t \in {"val", "close"} =>
    \E j \in 1..(k - 1) : out[j].t = "resp" /\ out[j].ch = out[k].ch

\* The parallel slices cases and caseToID stay aligned through registrations
\* and removals, so that every value is sent under the id of its own channel,
\* and the values of a channel are sent in the order they were received.
ValuesRouted ==
  /\ Len(cases) = Len(caseToID)
  /\ \A k \in 1..Len(cases) : caseToID[k] = chanOf[cases[k]]
  /\ \A k \in 1..Len(out) : out[k].t = "val" => out[k].ch = chanOf[out[k].src]
  /\ \A j, k \in 1..Len(out) :
       j < k /\ out[j].t = "val" /\ out[k].t = "val" /\ out[j].src = out[k].src
       => out[j].val < out[k].val

Responses(i) == {k \in 1..Len(out) : out[k].t = "resp" /\ out[k].src = i}

\* A call is answered at most once, and, if no write has failed and its result
\* can be encoded, exactly once by the time its goroutine is done, whichever way
\* handle left.
AnsweredOnce ==
  \A i \in Ids : /\ Cardinality(Responses(i)) <= 1
                  /\ h[i] \in {"done", "end"} /\ ~writeErr /\ reply[i] # "bad"
                       => Responses(i) # {}

\* handling holds the running calls and the channel-valued ones: a call whose
\* goroutine ended without a channel can be cancelled no more. handlingLK is left
\* locked by a notification alone (websocket.go:458-459), and from then on no
\* entry leaves: a call whose result is on the wire stays in its done.
HandlingTracksCalls ==
  /\ handling = {i \in Ids : h[i] # "none" /\ (h[i] # "end" \/ kind[i] = "chan")}
  /\ handlingLK <=> loop = "panicked"

Holders == {i \in Ids : h[i] \in {"write", "register", "answer"}}

\* As long as no write has failed, writeLK is held exactly while one handler
\* or handleOutChans is between Lock and Unlock, and nobody unlocks it twice.
LockHeldByOneWriter ==
  ~writeErr => /\ Cardinality(Holders) + (IF oc = "write" THEN 1 ELSE 0) <= 1
               /\ writeLK <=> Holders # {} \/ oc = "write"
               /\ crashed # "unlock of unlocked mutex"

\* Where the process may die: a send on the closed registerCh once the loop has
\* left (websocket.go:396), or the second Unlock after a write failed over a
\* lost connection (websocket.go:243).
Died ==
  \/ crashed = "send on closed channel" /\ loop # "select"
  \/ crashed = "unlock of unlocked mutex" /\ writeErr /\ conn # "open"

\* A registration, which holds writeLK, faces a handleOutChans that waits for
\* writeLK (see RegistrationCompletes).
Deadlocked == oc = "lock" /\ \E i \in Ids : h[i] = "register"

\* A call that arrived is worked off, channel registration and answer included,
\* unless its connection is deadlocked, the process died over a lost one, or a
\* notification has left handlingLK locked before its done.
CallsEnd ==
  \A i \in Ids : h[i] = "call" ~>
    h[i] = "end" \/ Deadlocked \/ Died \/ (h[i] = "done" /\ handlingLK)

\* When the connection is lost, every context is cancelled in the end: no
\* method goes on for a peer that is gone (websocket.go:339).
ContextsEnd == conn # "open" ~> ctxDone = Ids \/ Died

\* websocket.go:387 handleChanOut "registers the output channel to forward it
\* to the client": a registration that has begun completes.
RegistrationCompletes ==
  \A i \in Ids : h[i] = "register" ~> h[i] # "register" \/ crashed # "no"
=============================================================================
