-------------------------------- MODULE ChanSink --------------------------------
(***************************************************************************)
(* The sink of a channel-valued call on the client (client.go makeOutChan):*)
(* the connection loop hands it the values and the end of the stream       *)
(* (websocket.go handleChanMessage, handleChanClose); it buffers them in   *)
(* buf under bufLk, and a forwarder goroutine, started whenever buf stops  *)
(* being empty, sends them into the channel ch that the caller reads.      *)
(* The goroutine takes bufLk over, locked, from the sink that starts it.   *)
(* ctx is the caller's context, chCtx its child; a forwarder that is       *)
(* parked in its select is woken by the end of chCtx, one that has not     *)
(* reached it may find both of its cases ready.                            *)
(***************************************************************************)
EXTENDS Naturals, Sequences

CONSTANTS
  MaxVals,  \* bound on the values the peer sends
  Faults    \* what the environment may do, a subset of FaultKinds

FaultKinds == {"cancel", "close", "bad"}

ASSUME SinkAssumption == MaxVals \in Nat /\ Faults \subseteq FaultKinds

VARIABLES
  registered, \* the sink is in wsConn.chanHandlers
  sink,       \* control state of the loop's goroutine inside the sink
  arrived,    \* values that have arrived, 1, 2, 3 ...
  buf, bufLk, \* the buffer, and whether its lock is held
  fwd,        \* control state of the forwarder goroutine
  ctxDone,    \* ctx is cancelled
  chDone,     \* chCtx is cancelled
  chClosed,   \* ch is closed
  accepted,   \* history: the values pushed into buf, numbered
  got,        \* history: the values the caller has read from ch
  dropped,    \* history: buf.Init has been called
  crashed     \* a send on the closed ch has ended the process

ctxVars  == <<ctxDone, chDone, chClosed>>
histVars == <<accepted, got, dropped, crashed>>
vars == <<registered, sink, arrived, buf, bufLk, fwd, ctxVars, histVars>>

Init ==
  /\ registered = TRUE /\ sink = "idle" /\ arrived = 0
  /\ buf = <<>> /\ bufLk = FALSE /\ fwd = "none"
  /\ ctxDone = FALSE /\ chDone = FALSE /\ chClosed = FALSE
  /\ accepted = <<>> /\ got = <<>> /\ dropped = FALSE /\ crashed = FALSE

-----------------------------------------------------------------------------
(* The connection loop in the sink.                                        *)

\* A xrpc.ch.val frame. A channel id that does not decode is logged and read as
\* 0; an id without handler, or a value that does not decode, is dropped.
handleChanMessage ==
  /\ sink = "idle" /\ arrived < MaxVals
  /\ \/ registered /\ sink' = "lock" /\ arrived' = arrived + 1
     \/ ("bad" \in Faults \/ ~registered) /\ arrived' = arrived + 1 /\ UNCHANGED sink
  /\ UNCHANGED <<registered, buf, bufLk, fwd, ctxVars, histVars>>

\* bufLk.Lock() and the test of ctx.Err(): a cancelled context drops the value.
checkCtx ==
  /\ sink = "lock" /\ ~bufLk
  /\ IF ctxDone THEN sink' = "idle" /\ UNCHANGED bufLk
                ELSE sink' = "push" /\ bufLk' = TRUE
  /\ UNCHANGED <<registered, arrived, buf, fwd, ctxVars, histVars>>

\* Mutant: the test is buf.Len() > 0, and no forwarder is ever started.
pushBackM ==
  /\ sink = "push" /\ sink' = "idle"
  /\ accepted' = Append(accepted, Len(accepted) + 1)
  /\ buf' = Append(buf, Len(accepted) + 1)
  /\ bufLk' = FALSE
  /\ UNCHANGED <<fwd, registered, arrived, ctxVars, got, dropped, crashed>>

\* buf.PushBack; if the buffer was empty a forwarder starts and keeps the lock.
pushBack ==
  /\ sink = "push" /\ sink' = "idle"
  /\ accepted' = Append(accepted, Len(accepted) + 1)
  /\ buf' = Append(buf, Len(accepted) + 1)
  /\ IF buf = <<>> THEN fwd' = "top" /\ UNCHANGED bufLk
                   ELSE bufLk' = FALSE /\ UNCHANGED fwd
  /\ UNCHANGED <<registered, arrived, ctxVars, got, dropped, crashed>>

\* The end of chCtx wakes a forwarder parked in its select.
Wake == fwd' = IF fwd = "parked" THEN "done" ELSE fwd

\* Mutant: the handler stays in chanHandlers.
handleChanCloseM ==
  /\ "close" \in Faults /\ sink = "idle" /\ registered
  /\ sink' = "close"
  /\ chDone' = TRUE /\ Wake
  /\ UNCHANGED <<registered, arrived, buf, bufLk, ctxDone, chClosed, histVars>>

\* A xrpc.ch.close frame: handleChanClose takes the handler out and the sink
\* cancels chCtx ...
handleChanClose ==
  /\ "close" \in Faults /\ sink = "idle" /\ registered
  /\ registered' = FALSE /\ sink' = "close"
  /\ chDone' = TRUE /\ Wake
  /\ UNCHANGED <<arrived, buf, bufLk, ctxDone, chClosed, histVars>>

\* ... and closes ch, without bufLk.
closeCh ==
  /\ sink = "close" /\ sink' = "idle"
  /\ chClosed' = TRUE
  /\ UNCHANGED <<registered, arrived, buf, bufLk, fwd, ctxDone, chDone, histVars>>

-----------------------------------------------------------------------------
(* The forwarder goroutine.                                                *)

\* Mutant: the goroutine stops one value early.
loopTopM ==
  /\ fwd = "top"
  /\ fwd' = IF Len(buf) <= 1 THEN "none" ELSE "select"
  /\ bufLk' = FALSE
  /\ UNCHANGED <<registered, sink, arrived, buf, ctxVars, histVars>>

\* The head of its loop, with the lock held: stop, or unlock and go on.
loopTop ==
  /\ fwd = "top"
  /\ fwd' = IF buf = <<>> THEN "none" ELSE "select"
  /\ bufLk' = FALSE
  /\ UNCHANGED <<registered, sink, arrived, buf, ctxVars, histVars>>

\* reflect.Select finds no case ready and parks.
park ==
  /\ fwd = "select" /\ ~chDone /\ ~chClosed
  /\ fwd' = "parked"
  /\ UNCHANGED <<registered, sink, arrived, buf, bufLk, ctxVars, histVars>>

\* Case 0: chCtx is done.
selectDone ==
  /\ fwd = "select" /\ chDone
  /\ fwd' = "done"
  /\ UNCHANGED <<registered, sink, arrived, buf, bufLk, ctxVars, histVars>>

\* Mutant: the newest value is sent first (Back for Front).
selectSendM ==
  /\ fwd \in {"select", "parked"} /\ ~chClosed
  /\ got' = Append(got, buf[Len(buf)])
  /\ fwd' = "sent"
  /\ UNCHANGED <<registered, sink, arrived, buf, bufLk, ctxVars, accepted, dropped, crashed>>

\* Case 1: the caller reads the front of the buffer from ch.
selectSend ==
  /\ fwd \in {"select", "parked"} /\ ~chClosed
  /\ got' = Append(got, Head(buf))
  /\ fwd' = "sent"
  /\ UNCHANGED <<registered, sink, arrived, buf, bufLk, ctxVars, accepted, dropped, crashed>>

\* Case 1 on the closed channel: a panic.
selectClosed ==
  /\ fwd = "select" /\ chClosed
  /\ crashed' = TRUE
  /\ UNCHANGED <<registered, sink, arrived, buf, bufLk, fwd, ctxVars, accepted, got, dropped>>

\* Mutant: the value that was sent is not removed.
relockKeepM ==
  /\ fwd \in {"done", "sent"} /\ ~bufLk
  /\ bufLk' = TRUE /\ fwd' = "top"
  /\ buf' = IF fwd = "done" THEN <<>> ELSE buf
  /\ dropped' = (dropped \/ fwd = "done")
  /\ UNCHANGED <<registered, sink, arrived, ctxVars, accepted, got, crashed>>

\* Mutant: the two cases of the switch are swapped.
relockSwapM ==
  /\ fwd \in {"done", "sent"} /\ ~bufLk
  /\ bufLk' = TRUE /\ fwd' = "top"
  /\ buf' = IF fwd = "sent" THEN <<>> ELSE Tail(buf)
  /\ dropped' = (dropped \/ fwd = "done")
  /\ UNCHANGED <<registered, sink, arrived, ctxVars, accepted, got, crashed>>

\* Lock again; buf.Init() after case 0, buf.Remove(front) after case 1.
relock ==
  /\ fwd \in {"done", "sent"} /\ ~bufLk
  /\ bufLk' = TRUE /\ fwd' = "top"
  /\ buf' = IF fwd = "done" THEN <<>> ELSE Tail(buf)
  /\ dropped' = (dropped \/ fwd = "done")
  /\ UNCHANGED <<registered, sink, arrived, ctxVars, accepted, got, crashed>>

-----------------------------------------------------------------------------
\* The caller cancels its context, and chCtx with it.
cancel ==
  /\ "cancel" \in Faults /\ ~ctxDone
  /\ ctxDone' = TRUE /\ chDone' = TRUE /\ Wake
  /\ UNCHANGED <<registered, sink, arrived, buf, bufLk, chClosed, histVars>>

SinkStep == checkCtx \/ pushBack \/ closeCh
Forwarder == loopTop \/ park \/ selectDone \/ selectSend \/ selectClosed \/ relock
Next ==
  /\ ~crashed
  /\ \/ handleChanMessage \/ handleChanClose \/ SinkStep
     \/ Forwarder \/ cancel

Spec == Init /\ [][Next]_vars

\* The goroutines run, and the caller goes on reading from ch. sync.Mutex does
\* not starve a waiter: strong fairness where bufLk is taken. A parked
\* forwarder does not park again, so weak fairness covers the rest.
FairSpec ==
  /\ Spec
  /\ SF_vars(~crashed /\ SinkStep)
  /\ SF_vars(~crashed /\ relock)
  /\ WF_vars(~crashed /\ (loopTop \/ selectDone \/ selectSend \/ selectClosed))

-----------------------------------------------------------------------------
(* Properties.                                                             *)

\* The values the variables of the sink can take; no more is read than was
\* accepted, and no more accepted than arrived.
FlagType == {registered, bufLk, ctxDone, chDone, chClosed, dropped, crashed} \subseteq BOOLEAN
ValueType ==
  /\ sink \in {"idle", "lock", "push", "close"} /\ arrived \in 0..MaxVals
  /\ fwd \in {"none", "top", "select", "parked", "done", "sent"}
  /\ buf \in Seq(1..MaxVals) /\ accepted \in Seq(1..MaxVals) /\ got \in Seq(1..MaxVals)
  /\ Len(got) <= Len(accepted) /\ Len(accepted) <= arrived
TypeOK == FlagType /\ ValueType

\* bufLk is held by exactly one of the sink and the forwarder it was handed to,
\* and no second forwarder is ever started: one runs exactly while the buffer
\* is not empty, or is about to be looked at.
OneForwarder ==
  /\ bufLk <=> sink = "push" \/ fwd = "top"
  /\ ~(sink = "push" /\ fwd = "top")
  /\ buf # <<>> => fwd # "none"
  /\ sink = "push" /\ buf = <<>> => fwd = "none"

\* The sent value is still the front of the buffer when it is removed.
Undelivered == IF fwd = "sent" THEN Tail(buf) ELSE buf

\* What the buffer holds is what was accepted and not read, until a cancelled
\* context empties it; a context that is cancelled after the test in the sink
\* and before the push cannot leave a gap.
NothingLostBefore ==
  /\ ~dropped => got \o Undelivered = accepted
  /\ dropped => buf = <<>> /\ fwd \in {"none", "top"} /\ sink # "push"

\* The sink implements the abstract channel.
Chan == INSTANCE ChanSpec WITH ended <- dropped
ImplementsChan == Chan!ChanFIFO

\* Without cancellation or close, what is accepted is read in the end.
AcceptedIsRead == \A n \in 1..MaxVals : Len(accepted) = n ~> Len(got) >= n \/ chDone

\* The process dies only if the peer closed the channel while values were left
\* in the buffer (client.go:157): without values, or by cancelling alone, the
\* end of a stream is harmless.
CrashNeedsClose == crashed => ~registered /\ buf # <<>>
=============================================================================
