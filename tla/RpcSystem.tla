-------------------------------- MODULE RpcSystem --------------------------------
(***************************************************************************)
(* A client and a server of this library on one connection: RpcClient,     *)
(* with its external peer replaced by RpcServer, and the network between   *)
(* them. What the server writes is what the client reads; requests and     *)
(* built-in messages travel the other way, and their parameters are        *)
(* encoded as RpcTypes says. The two processes die separately, and the     *)
(* connection is lost with the first of them.                              *)
(*                                                                         *)
(* Variables of the server that share a name with the client's begin with  *)
(* an s. A call has the id that the client gave it on both sides.          *)
(***************************************************************************)
EXTENDS RpcClient, RpcTypes

CONSTANTS
  MaxVals,    \* bound on the values a method sends into its channel
  MaxFaults,  \* bound on the faults of a behaviour
  FaultCalls  \* bound on the calls of a behaviour with a fault

ASSUME SystemAssumption == {MaxVals, MaxFaults, FaultCalls} \subseteq Nat

VARIABLES
  sLoop, nCalls, kind, h, reply, handling, sHandlingLK, sCtxDone, sWriteLK, sWriteErr,
  sConn, chanCtr, chanOf, regClosed, prod, taken, oc, cases, caseToID, msg, out, sCrashed,
  toServer,     \* frames on their way to the server
  chanHandlers, \* wsConn.chanHandlers of the client: <<channel id, call>>
  sinkGot       \* history: what the sinks were handed, <<call, value>>

S == INSTANCE RpcServer WITH
  Kinds <- {"plain", "chan"}, Faults <- {"cancel"},
  loop <- sLoop, handlingLK <- sHandlingLK, ctxDone <- sCtxDone, writeLK <- sWriteLK,
  writeErr <- sWriteErr, conn <- sConn, crashed <- sCrashed

sinkVars == <<chanHandlers, sinkGot>>
sRest == <<sLoop, nCalls, kind, h, reply, handling, sHandlingLK, sCtxDone, sWriteLK,
           sWriteErr, chanCtr, chanOf, regClosed, prod, taken, oc, cases, caseToID, msg, out,
           sCrashed>>
sVars == <<sRest, sConn>>
sysVars == <<vars, sVars, toServer, sinkVars>>

SysInit == Init /\ S!Init /\ toServer = <<>> /\ chanHandlers = {} /\ sinkGot = {}

-----------------------------------------------------------------------------
(* The client's side.                                                      *)

\* The frame a write of p puts on the wire: a request, or a wsCancel.
RequestOf(p) == IF p = Loop THEN [t |-> "call", id |-> frame.id]
                            ELSE [t |-> "cancel", id |-> p]

\* A write that succeeded has reached the network if there still is one.
SysWrite(p) ==
  /\ Write(p)
  /\ toServer' = IF w[p] = "write" /\ w'[p] = "none" /\ conn = "open"
                 THEN Append(toServer, RequestOf(p)) ELSE toServer
  /\ UNCHANGED <<sVars, sinkVars>>

\* The server's frame that the client's loop is working on.
AtHand == out[nFrames - Len(fromPeer)]
SinkOf(ch) == {s \in chanHandlers : s[1] = ch}
ChanID == Decode(Wire(BuiltinParam(AtHand.ch)), NoID)

\* handleFrame: a response, with the sink it registers for a channel (whose id
\* is a result and not a parameter); or handleChanMessage and handleChanClose,
\* which find their sink by a parameter. handleChanMessage goes on with id 0
\* when the parameter does not decode; there is no such sink.
SysHandle ==
  /\ Handle
  /\ CASE AtHand.t = "resp" ->
            /\ chanHandlers' =
                 IF w'[AtHand.src] = "ctx" /\ w[AtHand.src] = "none"
                 THEN (chanHandlers \ SinkOf(AtHand.ch)) \cup {<<AtHand.ch, AtHand.src>>}
                 ELSE chanHandlers
            /\ UNCHANGED sinkGot
       [] AtHand.t = "val" ->
            /\ sinkGot' = sinkGot \cup {<<s[2], AtHand.val>> : s \in SinkOf(ChanID)}
            /\ UNCHANGED chanHandlers
       [] AtHand.t = "close" ->
            /\ chanHandlers' = chanHandlers \ SinkOf(ChanID)
            /\ UNCHANGED sinkGot
       [] AtHand.t = "empty" -> UNCHANGED sinkVars
  /\ UNCHANGED <<sVars, toServer>>

\* Closing the connection sends a close frame behind what was written before.
SysExit ==
  /\ Exit
  /\ sConn' = IF conn' = "local" /\ sConn = "open" THEN "closed" ELSE sConn
  /\ UNCHANGED <<sRest, toServer, sinkVars>>

ClientGoes ==
  \/ /\ \/ \E c \in Callers : Continue(c)
        \/ \E p \in Writers : Acquire(p)
        \/ \E i \in Ids : AsyncCancel(i)
        \/ Incoming \/ Request \/ Stop \/ Read \/ CloserEnds
     /\ UNCHANGED <<sVars, toServer, sinkVars>>
  \/ \E p \in Senders : SysWrite(p)
  \/ SysHandle \/ SysExit

-----------------------------------------------------------------------------
(* The server's side.                                                      *)

\* A frame of the server as the client decodes it. A response has the id of its
\* call; one that names a channel counts as a value even if it carries an error.
\* An empty message does not decode.
FrameOf(m) == [id |-> IF m.t = "resp" THEN m.src ELSE NoID,
               body |-> CASE m.t = "empty" -> "garbage"
                          [] m.t = "resp" /\ reply[m.src] = "error" -> "error"
                          [] OTHER -> "value"]

\* Mutant: every response carries the id of the call that arrived last.
TransmitM ==
  IF out' # out /\ conn = "open"
  THEN /\ fromPeer' = Append(fromPeer, [FrameOf(out'[Len(out')]) EXCEPT !.id =
                                          IF @ = NoID THEN NoID ELSE nCalls])
       /\ nFrames' = nFrames + 1
  ELSE UNCHANGED peerVars

\* What a server's step wrote is on its way to the client, if it is connected.
Transmit ==
  IF out' # out /\ conn = "open"
  THEN /\ fromPeer' = Append(fromPeer, FrameOf(out'[Len(out')]))
       /\ nFrames' = nFrames + 1
  ELSE UNCHANGED peerVars

\* handleFrame of the server: the kind of a call is that of the method, which
\* is the client's function on the other side; an xrpc.cancel carries its id as
\* a parameter.
SysReceive ==
  /\ toServer # <<>> /\ sConn # "local"
  /\ LET f == Head(toServer) IN
     IF f.t = "call"
     THEN S!handleCall(f.id, IF f.id \in retCh THEN "chan" ELSE "plain")
     ELSE S!cancelCtx(Decode(Wire(BuiltinParam(f.id)), NoID))
  /\ toServer' = Tail(toServer)
  /\ S!LoopFrame /\ UNCHANGED peerVars

\* The loop meets the close frame after what the client wrote before it.
SysReturn ==
  /\ S!Return /\ (sConn = "closed" => toServer = <<>>)
  /\ UNCHANGED <<toServer, peerVars>>

ServerFrame ==
  UNCHANGED <<callerVars, requests, replyVars, loopVars, panicVars, lockVars, readVars,
              connVars, endVars, crashed, sinkVars>>
ServerGoes ==
  /\ \/ SysReceive \/ SysReturn
     \/ /\ (S!OutChans /\ taken' = taken) \/ \E i \in Ids : S!Handler(i)
        /\ Transmit /\ UNCHANGED toServer
  /\ ServerFrame

-----------------------------------------------------------------------------
(* The environment.                                                        *)

\* A method sends a value into its channel, or closes it.
MethodSends ==
  /\ \/ S!OutChans /\ taken' # taken
     \/ S!EnvFrame /\ \E i \in Ids : S!closeChan(i)
  /\ ServerFrame /\ UNCHANGED <<peerVars, toServer>>

ProcessDied == crashed # "no" \/ sCrashed # "no"
nFaults == Cardinality(ctxDone) + If(stop) + If(conn = "broken" \/ sConn = "broken")
MayFault == nFaults < MaxFaults /\ idCtr <= FaultCalls

\* The connection breaks: by itself, or because a process has died.
SysConnLost ==
  /\ conn = "open" /\ conn' = "broken" /\ sConn' = "broken"
  /\ UNCHANGED <<ctxDone, peerVars, stop, closer, toServer, sinkVars, sRest>>
  /\ EnvFrame

ClientBegins ==
  /\ \/ (nFaults > 0 => idCtr < FaultCalls) /\ \E c \in Callers : Begin(c)
     \/ MayFault /\ EnvFrame /\ (closeStop \/ \E i \in Ids : cancelContext(i))
  /\ UNCHANGED <<sVars, toServer, sinkVars>>

Goes ==
  \/ crashed = "no" /\ ClientGoes
  \/ sCrashed = "no" /\ ServerGoes
  \/ ProcessDied /\ SysConnLost

SysNext ==
  \/ Goes
  \/ crashed = "no" /\ ClientBegins
  \/ sCrashed = "no" /\ MethodSends
  \/ "drop" \in Faults /\ MayFault /\ SysConnLost

SysSpec == SysInit /\ [][SysNext]_sysVars

\* As long as some goroutine of either process can go on, one does. In a bounded
\* instance every behaviour runs out of steps, so this is all the fairness
\* there is; nobody has to call, cancel, stop, fail or send a value.
SysFairSpec == SysSpec /\ WF_sysVars(Goes)

-----------------------------------------------------------------------------
(* Properties.                                                             *)

\* Client and server together implement the RPC specification, whatever the
\* order of requests, answers, cancellation, closing and loss: no method runs
\* twice, and no call returns the result of another one's method.
R == INSTANCE RpcSpec WITH
  Failures <- {"closed"} \cup Swallowed,
  called <- 1..idCtr,
  result <- [i \in Ids |-> IF reply[i] \in {"chan", "bad"} THEN "value" ELSE reply[i]],
  returned <- outcome
ImplementsRpc == R!Rpc

\* A call returns through a real server, whichever of the processes dies and
\* whenever the connection is lost, unless its own process dies, its request
\* is left in the buffer, or the server's connection is deadlocked.
CallsReturnThroughServer ==
  \A c \in Callers : pc[c] # "idle" ~>
    pc[c] = "idle" \/ Died \/ LeftInBuffer(c) \/ S!Deadlocked

\* The server works off what arrived, and ends every context with the
\* connection, when its peer is a real client that stops, cancels or dies.
ServerCallsEnd == S!CallsEnd
ServerContextsEnd == S!ContextsEnd

\* What excuses a message of a side from having its effect on the other one.
Disturbed == ProcessDied \/ conn # "open" \/ S!Deadlocked

\* websocket.go:297 "cancelCtx is a built-in rpc, it cancels the context through
\* the rpc's handling": an xrpc.cancel on its way to the server ends the context
\* of its call there.
CancelEndsContext ==
  \A i \in Ids : (\E k \in 1..Len(toServer) : toServer[k] = [t |-> "cancel", id |-> i])
                 ~> i \in sCtxDone \/ Disturbed

\* Why it does not hold. The parameters of the built-in messages do not survive the
\* wire (util.go:23-34): a context on the server outlives an xrpc.cancel and only
\* ends with its call or the connection; and the sink of a channel-valued call,
\* registered under the id of its own channel, is never handed a value nor
\* closed, so the caller's channel stays open and silent.
BuiltinsChangeNothing ==
  /\ sLoop # "exited" => sCtxDone = {i \in Ids : h[i] = "end" /\ kind[i] # "chan"}
  /\ sinkGot = {}
  /\ \A i \in retCh : outcome[i] = "value" => <<chanOf[i], i>> \in chanHandlers
=============================================================================
