---------------------------- MODULE HttpServerProofs ----------------------------
(***************************************************************************)
(* Proofs about HttpServer and RpcHttp, for every finite set of            *)
(* connections and every set of closers: what wg counts, that the map      *)
(* follows net/http, and that Close reaches every connection. RpcHttp is   *)
(* shown to implement HttpServer, so that all of this holds with the RPC   *)
(* handler at work, too.                                                   *)
(***************************************************************************)
EXTENDS RpcHttp, FiniteSetTheorems, TLAPS

\* Main only waits in the goServe of a Start, which wg counts: wg is not 0 then,
\* and the deferred Done cannot make it negative.
MainInv == waiter[Main] # "idle" \/ serve # "none" => url

HttpInv == TypeOK /\ WgCounts /\ MapFollowsNet /\ IdleCutAfterClose /\ MainInv

-----------------------------------------------------------------------------
\* What wg counts is a natural number.
LEMMA TrackedFinite ==
  /\ IsFiniteSet(Tracked) /\ Cardinality(Tracked) \in Nat
<1>1. Tracked \in SUBSET Conns
  BY DEF Tracked
<1> QED
  BY <1>1, HttpAssumption, FS_Subset, FS_CardinalityType DEF HttpAssumption

\* A connection that enters the map.
LEMMA TrackedAdd ==
  ASSUME NEW c \in Conns, NEW s, s # "none", conns \in [Conns -> {"none", "new", "active", "idle"}],
         conns[c] = "none", conns' = [conns EXCEPT ![c] = s]
  PROVE  Cardinality(Tracked') = Cardinality(Tracked) + 1
<1>1. Tracked' = Tracked \cup {c} /\ c \notin Tracked
  BY DEF Tracked
<1> QED
  BY <1>1, TrackedFinite, FS_AddElement

\* One that leaves it.
LEMMA TrackedRemove ==
  ASSUME NEW c \in Conns, conns \in [Conns -> {"none", "new", "active", "idle"}],
         conns[c] # "none", conns' = [conns EXCEPT ![c] = "none"]
  PROVE  Cardinality(Tracked') = Cardinality(Tracked) - 1 /\ Cardinality(Tracked) \in Nat \ {0}
<1>1. Tracked' = Tracked \ {c} /\ c \in Tracked
  BY DEF Tracked
<1>2. Cardinality(Tracked) # 0
  BY <1>1, TrackedFinite, FS_EmptySet
<1> QED
  BY <1>1, <1>2, TrackedFinite, FS_RemoveElement

\* One that stays.
LEMMA TrackedSame ==
  ASSUME NEW c \in Conns, NEW s, s # "none", conns \in [Conns -> {"none", "new", "active", "idle"}],
         conns[c] # "none", conns' = [conns EXCEPT ![c] = s]
  PROVE  Tracked' = Tracked
BY DEF Tracked

\* Start.
LEMMA StartStep ==
  ASSUME HttpInv, crashed = "no", Start
  PROVE  HttpInv'
<1> USE DEF HttpInv, Start, tracked, ends, client
<1>1. FlagType' /\ ValueType'
  <2>1. FlagType'
    BY DEF TypeOK, FlagType
  <2>2. ValueType'
    <3>1. CASE listener = "nil"
      BY <3>1 DEF TypeOK, ValueType
    <3>2. CASE listener # "nil"
      <4>1. waiter' \in [Waiters -> {"idle", "waiting", "returned"}]
        BY <3>2 DEF TypeOK, ValueType
      <4> QED
        BY <3>2, <4>1 DEF TypeOK, ValueType
    <3> QED
      BY <3>1, <3>2
  <2> QED
    BY <2>1, <2>2
<1>2. WgCounts'
  <2>1. Tracked' = Tracked
    BY DEF Tracked
  <2>2. CASE listener = "nil"
    BY <2>1, <2>2 DEF WgCounts
  <2>3. CASE listener # "nil"
    <3>1. serve' # "failed" /\ serve # "failed"
      BY <2>3 DEF MainInv, TypeOK, FlagType
    <3> QED
      BY <2>1, <2>3, <3>1, TrackedFinite DEF WgCounts
  <2> QED
    BY <2>2, <2>3
<1>3. MapFollowsNet'
  BY DEF MapFollowsNet, TypeOK, ValueType
<1>4. IdleCutAfterClose' /\ MainInv'
  BY HttpAssumption DEF HttpAssumption, TypeOK, ValueType, Waiters, IdleCutAfterClose, MainInv
<1> QED
  BY <1>1, <1>2, <1>3, <1>4 DEF TypeOK

\* goServe.
LEMMA ServeStep ==
  ASSUME HttpInv, crashed = "no", goServe
  PROVE  HttpInv'
<1> USE DEF HttpInv, goServe, tracked, ends, client
<1>1. FlagType' /\ ValueType'
  BY HttpAssumption DEF HttpAssumption, TypeOK, FlagType, ValueType, Waiters
<1>2. WgCounts'
  BY TrackedFinite DEF TypeOK, FlagType, ValueType, WgCounts, Tracked
<1>3. MapFollowsNet'
  BY DEF MapFollowsNet, TypeOK, ValueType
<1>4. IdleCutAfterClose' /\ MainInv'
  BY HttpAssumption DEF HttpAssumption, TypeOK, ValueType, Waiters, IdleCutAfterClose, MainInv
<1> QED
  BY <1>1, <1>2, <1>3, <1>4 DEF TypeOK

\* Serve fails and is counted.
LEMMA FailStep ==
  ASSUME HttpInv, crashed = "no", serveFails
  PROVE  HttpInv'
<1> USE DEF HttpInv, serveFails, tracked, ends, client
<1>1. FlagType' /\ ValueType'
  BY HttpAssumption DEF HttpAssumption, TypeOK, FlagType, ValueType, Waiters
<1>2. WgCounts'
  BY TrackedFinite DEF TypeOK, FlagType, ValueType, WgCounts, Tracked
<1>3. MapFollowsNet'
  BY DEF MapFollowsNet, TypeOK, ValueType
<1>4. IdleCutAfterClose' /\ MainInv'
  BY HttpAssumption DEF HttpAssumption, TypeOK, ValueType, Waiters, IdleCutAfterClose, MainInv
<1> QED
  BY <1>1, <1>2, <1>3, <1>4 DEF TypeOK

\* Close stops the listener and closes what is new or idle.
LEMMA CloseStep ==
  ASSUME HttpInv, crashed = "no", NEW k \in Closers, Close(k)
  PROVE  HttpInv'
<1> USE DEF HttpInv, Close, tracked, ends, client
<1>1. FlagType' /\ ValueType'
  BY HttpAssumption DEF HttpAssumption, TypeOK, FlagType, ValueType, Waiters
<1>2. WgCounts'
  BY TrackedFinite DEF TypeOK, FlagType, ValueType, WgCounts, Tracked
<1>3. MapFollowsNet'
  BY DEF MapFollowsNet, TypeOK, ValueType
<1>4. IdleCutAfterClose' /\ MainInv'
  BY HttpAssumption DEF HttpAssumption, TypeOK, ValueType, Waiters, IdleCutAfterClose, MainInv
<1> QED
  BY <1>1, <1>2, <1>3, <1>4 DEF TypeOK

\* wg.Wait returns, in a closer only.
LEMMA WaitStep ==
  ASSUME HttpInv, crashed = "no", NEW p \in Waiters, waitReturns(p)
  PROVE  HttpInv'
<1> USE DEF HttpInv, waitReturns, tracked, ends, client
<1>0. p # Main /\ wg' = wg
  BY TrackedFinite DEF WgCounts, MainInv, TypeOK, FlagType
<1>1. FlagType' /\ ValueType'
  <2>1. FlagType'
    BY DEF TypeOK, FlagType
  <2>2. ValueType'
    BY <1>0 DEF TypeOK, ValueType
  <2> QED
    BY <2>1, <2>2
<1>2. WgCounts'
  <2>1. Tracked' = Tracked /\ UNCHANGED <<wg, url, serve>>
    BY <1>0 DEF Tracked
  <2> QED
    BY <2>1 DEF WgCounts
<1>3. MapFollowsNet'
  BY DEF MapFollowsNet, TypeOK, ValueType
<1>4. IdleCutAfterClose' /\ MainInv'
  BY HttpAssumption DEF HttpAssumption, TypeOK, ValueType, Waiters, IdleCutAfterClose, MainInv
<1> QED
  BY <1>1, <1>2, <1>3, <1>4 DEF TypeOK

\* A connection is closed for CloseClientConnections.
LEMMA CutStep ==
  ASSUME HttpInv, crashed = "no", NEW c \in Conns, closeConnChan(c)
  PROVE  HttpInv'
<1> USE DEF HttpInv, closeConnChan, closeConn, tracked, ends, client
<1>1. FlagType' /\ ValueType'
  BY HttpAssumption DEF HttpAssumption, TypeOK, FlagType, ValueType, Waiters
<1>2. WgCounts'
  BY TrackedFinite DEF TypeOK, FlagType, ValueType, WgCounts, Tracked
<1>3. MapFollowsNet'
  BY DEF MapFollowsNet, TypeOK, ValueType
<1>4. IdleCutAfterClose' /\ MainInv'
  BY HttpAssumption DEF HttpAssumption, TypeOK, ValueType, Waiters, IdleCutAfterClose, MainInv
<1> QED
  BY <1>1, <1>2, <1>3, <1>4 DEF TypeOK

\* CloseClientConnections begins or returns.
LEMMA ClientStep ==
  ASSUME HttpInv, crashed = "no", CloseClientConnections \/ cccReturns
  PROVE  HttpInv'
<1> USE DEF HttpInv, CloseClientConnections, cccReturns, tracked, ends, client
<1>1. FlagType' /\ ValueType'
  BY HttpAssumption DEF HttpAssumption, TypeOK, FlagType, ValueType, Waiters
<1>2. WgCounts'
  <2>1. Tracked' = Tracked /\ UNCHANGED <<wg, url, serve>>
    BY DEF Tracked
  <2> QED
    BY <2>1 DEF WgCounts
<1>3. MapFollowsNet'
  BY DEF MapFollowsNet, TypeOK, ValueType
<1>4. IdleCutAfterClose' /\ MainInv'
  BY HttpAssumption DEF HttpAssumption, TypeOK, ValueType, Waiters, IdleCutAfterClose, MainInv
<1> QED
  BY <1>1, <1>2, <1>3, <1>4 DEF TypeOK

\* What the hook does with connection c, given that the map follows net/http:
\* it never crashes, and it finds the connection in the map or not as it should.
LEMMA HookFacts ==
  ASSUME HttpInv, crashed = "no", NEW c \in Conns, NetHttp(c)
  PROVE  /\ crashed' = crashed /\ UNCHANGED <<url, serve, waiter, ends, client>>
         /\ \/ /\ accept(c) \/ readRequest(c)
               /\ UNCHANGED tracked
            \/ /\ net[c] = "accepted" /\ net' = [net EXCEPT ![c] = "new"]
               /\ conns[c] = "none" /\ conns' = [conns EXCEPT ![c] = "new"]
               /\ wg' = wg + 1 /\ cut' = IF closed THEN cut \cup {c} ELSE cut
            \/ /\ net[c] = "read" /\ net' = [net EXCEPT ![c] = "active"]
               /\ conns[c] # "none" /\ conns' = [conns EXCEPT ![c] = "active"]
               /\ wg' = wg /\ cut' = cut
            \/ /\ net[c] = "active" /\ net' = [net EXCEPT ![c] = "idle"]
               /\ conns[c] # "none" /\ conns' = [conns EXCEPT ![c] = "idle"]
               /\ wg' = wg /\ cut' = IF closed THEN cut \cup {c} ELSE cut
            \/ /\ net' = [net EXCEPT ![c] = "ended"] \/ net' = [net EXCEPT ![c] = "hijacked"]
               /\ conns[c] # "none" /\ conns' = [conns EXCEPT ![c] = "none"]
               /\ wg' = wg - 1 /\ cut' = cut
<1> USE DEF HttpInv, MapFollowsNet
<1>1. CASE accept(c) \/ readRequest(c)
  BY <1>1 DEF NetHttp, accept, readRequest
<1>2. CASE reportNew(c)
  BY <1>2 DEF NetHttp, reportNew, stateNew, closeConn
<1>3. CASE reportActive(c)
  BY <1>3 DEF NetHttp, reportActive, stateActive, stateChange
<1>4. CASE reportIdle(c)
  BY <1>4 DEF NetHttp, reportIdle, stateIdle, stateChange, closeConn
<1>5. CASE hijack(c) \/ connEnds(c)
  BY <1>5 DEF NetHttp, hijack, connEnds, forgetConn
<1> QED
  BY <1>1, <1>2, <1>3, <1>4, <1>5 DEF NetHttp

\* net/http and the hook.
LEMMA NetStep ==
  ASSUME HttpInv, crashed = "no", NEW c \in Conns, NetHttp(c)
  PROVE  HttpInv'
<1> USE DEF HttpInv, ends, client
<1>1. /\ crashed' = crashed /\ UNCHANGED <<url, serve, waiter, ends, client>>
      /\ conns \in [Conns -> {"none", "new", "active", "idle"}] /\ wg \in Nat
      /\ net \in [Conns -> {"unborn", "accepted", "new", "read", "active", "idle",
                            "hijacked", "ended"}]
      /\ cut \subseteq Conns
  BY HookFacts DEF TypeOK, ValueType
<1>2. FlagType' /\ MainInv'
  BY <1>1 DEF TypeOK, FlagType, MainInv
<1>3. CASE (accept(c) \/ readRequest(c)) /\ UNCHANGED tracked
  <2>1. /\ UNCHANGED tracked /\ net[c] \in {"unborn", "new", "idle"}
        /\ net' = [net EXCEPT ![c] = IF net[c] = "unborn" THEN "accepted" ELSE "read"]
    BY <1>1, <1>3 DEF accept, readRequest
  <2>2. ValueType'
    BY <1>1, <2>1 DEF TypeOK, ValueType, tracked
  <2>3. Tracked' = Tracked
    BY <2>1 DEF Tracked, tracked
  <2>4. WgCounts' /\ IdleCutAfterClose'
    BY <1>1, <2>1, <2>3 DEF WgCounts, IdleCutAfterClose, tracked
  <2>5. MapFollowsNet'
    BY <1>1, <2>1 DEF MapFollowsNet, tracked
  <2> QED
    BY <1>2, <2>2, <2>4, <2>5 DEF TypeOK
<1>4. CASE /\ net[c] = "accepted" /\ net' = [net EXCEPT ![c] = "new"]
           /\ conns[c] = "none" /\ conns' = [conns EXCEPT ![c] = "new"]
           /\ wg' = wg + 1 /\ cut' = IF closed THEN cut \cup {c} ELSE cut
  <2>1. ValueType'
    BY <1>1, <1>4 DEF TypeOK, ValueType
  <2>2. WgCounts'
    <3>1. Cardinality(Tracked') = Cardinality(Tracked) + 1
      BY <1>1, <1>4, TrackedAdd
    <3> QED
      BY <1>1, <1>4, <3>1, TrackedFinite DEF WgCounts
  <2>3. MapFollowsNet' /\ IdleCutAfterClose'
    BY <1>1, <1>4 DEF MapFollowsNet, IdleCutAfterClose
  <2> QED
    BY <1>2, <2>1, <2>2, <2>3 DEF TypeOK
<1>5. CASE /\ net[c] = "read" /\ net' = [net EXCEPT ![c] = "active"]
           /\ conns[c] # "none" /\ conns' = [conns EXCEPT ![c] = "active"]
           /\ wg' = wg /\ cut' = cut
  <2>1. ValueType'
    BY <1>1, <1>5 DEF TypeOK, ValueType
  <2>2. WgCounts'
    BY <1>1, <1>5, TrackedSame DEF WgCounts
  <2>3. MapFollowsNet' /\ IdleCutAfterClose'
    BY <1>1, <1>5 DEF MapFollowsNet, IdleCutAfterClose
  <2> QED
    BY <1>2, <2>1, <2>2, <2>3 DEF TypeOK
<1>6. CASE /\ net[c] = "active" /\ net' = [net EXCEPT ![c] = "idle"]
           /\ conns[c] # "none" /\ conns' = [conns EXCEPT ![c] = "idle"]
           /\ wg' = wg /\ cut' = IF closed THEN cut \cup {c} ELSE cut
  <2>1. ValueType'
    BY <1>1, <1>6 DEF TypeOK, ValueType
  <2>2. WgCounts'
    BY <1>1, <1>6, TrackedSame DEF WgCounts
  <2>3. MapFollowsNet' /\ IdleCutAfterClose'
    BY <1>1, <1>6 DEF MapFollowsNet, IdleCutAfterClose
  <2> QED
    BY <1>2, <2>1, <2>2, <2>3 DEF TypeOK
<1>7. CASE /\ net' = [net EXCEPT ![c] = "ended"] \/ net' = [net EXCEPT ![c] = "hijacked"]
           /\ conns[c] # "none" /\ conns' = [conns EXCEPT ![c] = "none"]
           /\ wg' = wg - 1 /\ cut' = cut
  <2>1. /\ Cardinality(Tracked') = Cardinality(Tracked) - 1
        /\ Cardinality(Tracked) \in Nat \ {0}
    BY <1>1, <1>7, TrackedRemove
  <2>2. WgCounts' /\ wg' \in Nat
    BY <1>1, <1>7, <2>1 DEF WgCounts
  <2>3. ValueType'
    BY <1>1, <1>7, <2>2 DEF TypeOK, ValueType
  <2>4. MapFollowsNet' /\ IdleCutAfterClose'
    BY <1>1, <1>7 DEF MapFollowsNet, IdleCutAfterClose
  <2> QED
    BY <1>2, <2>2, <2>3, <2>4 DEF TypeOK
<1> QED
  BY <1>3, <1>4, <1>5, <1>6, <1>7, HookFacts

\* Every step preserves the invariant.
LEMMA NextHttpInv == HttpInv /\ [Next]_vars => HttpInv'
<1> SUFFICES ASSUME HttpInv, [Next]_vars PROVE HttpInv'
  OBVIOUS
<1>1. CASE Next
  <2>1. crashed = "no"
    BY <1>1 DEF Next
  <2> QED
    BY <1>1, <2>1, StartStep, ServeStep, FailStep, CloseStep, WaitStep, CutStep, ClientStep, NetStep
    DEF Next
<1>2. CASE UNCHANGED vars
  BY <1>2 DEF vars, tracked, ends, client, HttpInv, TypeOK, FlagType, ValueType, WgCounts,
     Tracked, MapFollowsNet, IdleCutAfterClose, MainInv
<1> QED
  BY <1>1, <1>2

\* The initial states satisfy it.
LEMMA InitHttpInv == Init => HttpInv
<1> SUFFICES ASSUME Init PROVE HttpInv
  OBVIOUS
<1>1. TypeOK
  BY DEF Init, TypeOK, FlagType, ValueType
<1>2. WgCounts
  <2>1. Tracked = {}
    BY DEF Init, Tracked
  <2> QED
    BY <2>1, FS_EmptySet DEF Init, WgCounts
<1> QED
  BY <1>1, <1>2 DEF Init, HttpInv, MapFollowsNet, IdleCutAfterClose, MainInv, Waiters

\* HttpInv holds in every reachable state of the HTTP server.
THEOREM HttpInductive == Spec => []HttpInv
  BY InitHttpInv, NextHttpInv, PTL DEF Spec

-----------------------------------------------------------------------------
(* The RPC server as the handler.                                          *)

\* A step of the handler, or one of net/http around it, is a step of
\* HttpServer or leaves its variables alone.
LEMMA HttpNextSimulates == [HttpNext]_httpVars => [Next]_vars
<1> SUFFICES ASSUME [HttpNext]_httpVars PROVE [Next]_vars
  OBVIOUS
<1>1. CASE UNCHANGED httpVars
  BY <1>1 DEF httpVars
<1>2. ASSUME crashed = "no", NEW c \in Conns, Serve(c) \/ HttpRequest(c) \/ HttpReturns(c) \/ HttpIdle(c)
      PROVE  [Next]_vars
  <2>1. CASE Serve(c)
    BY <2>1 DEF Serve
  <2>2. CASE HttpRequest(c) \/ HttpReturns(c) \/ HttpIdle(c)
    <3>1. NetHttp(c)
      BY <2>2 DEF HttpRequest, HttpReturns, HttpIdle, NetFrame, NetHttp
    <3> QED
      BY <1>2, <3>1 DEF Next
  <2> QED
    BY <1>2, <2>1, <2>2
<1>3. CASE HttpNext
  BY <1>2, <1>3 DEF HttpNext, Next
<1> QED
  BY <1>1, <1>3

\* The server with the RPC handler (rpc/server.go ServeHTTP) implements the
\* HTTP server, whatever the handler does with a request.
THEOREM HttpImplementsServer == HttpSpec => Spec
<1>1. HttpInit => Init
  BY DEF HttpInit
<1> QED
  BY <1>1, HttpNextSimulates, PTL DEF HttpSpec, Spec

\* The variables have the values TypeOK says; in particular wg, which goServe,
\* the hook and Serve move up and down, is never negative (sync.WaitGroup
\* panics when it is).
THEOREM HttpTypeCorrect == HttpSpec => []TypeOK
<1>1. HttpInv => TypeOK
  BY DEF HttpInv
<1> QED
  BY <1>1, HttpInductive, HttpImplementsServer, PTL

\* wg counts the connections in the map, goServe and a Serve that failed.
THEOREM HttpWgCounts == HttpSpec => []WgCounts
<1>1. HttpInv => WgCounts
  BY DEF HttpInv
<1> QED
  BY <1>1, HttpInductive, HttpImplementsServer, PTL

\* The hook of wrap never meets an invalid state transition.
THEOREM HttpMapFollowsNet == HttpSpec => []MapFollowsNet
<1>1. HttpInv => MapFollowsNet
  BY DEF HttpInv
<1> QED
  BY <1>1, HttpInductive, HttpImplementsServer, PTL

\* After Close, whatever is new or idle has been closed.
THEOREM HttpIdleCutAfterClose == HttpSpec => []IdleCutAfterClose
<1>1. HttpInv => IdleCutAfterClose
  BY DEF HttpInv
<1> QED
  BY <1>1, HttpInductive, HttpImplementsServer, PTL

-----------------------------------------------------------------------------
(* What is known of the last request of a connection.                      *)

SrvRecords ==
  [kind : {"none", "upgrade", "refused", "call"}, id : BOOLEAN,
   ran : {"no", "value", "panic", "bad"},
   answer : {"none", "result", "error", "status", "lost", "abort"}]

\* The handler only sends a result that the method gave, a bare status only if
\* nothing else can be sent; it aborts over a missing ID; and an idle
\* connection is one whose handler has returned without a panic.
AnswerInv(c) ==
  LET s == srv[c] IN
  /\ s.answer = "result" => s.ran = "value" /\ s.id
  /\ s.ran \in {"value", "bad"} /\ ~s.id => s.answer \in {"none", "abort"}
  /\ s.answer = "status" => ~s.id \/ s.ran = "bad"
  /\ s.answer = "lost" => c \in cut
  /\ s.kind = "upgrade" => ~s.id
  /\ net[c] = "idle" => s.answer \notin {"none", "abort"}

SrvInv == srv \in [Conns -> SrvRecords] /\ \A c \in Conns : AnswerInv(c)


\* A step of the handler of c, which is active, touches the request of c only.
LEMMA ServeKeepsSrv ==
  ASSUME SrvInv, NEW c \in Conns, Serve(c)
  PROVE  SrvInv'
<1>0. /\ UNCHANGED <<net, cut>> /\ net[c] = "active"
      /\ srv \in [Conns -> SrvRecords] /\ \A d \in Conns : AnswerInv(d)
  BY DEF Serve, vars, tracked, SrvInv, At, handleWS, handleReader, doCall, respond
<1> DEFINE s == srv[c]
           Sent(a) == IF a # "abort" /\ c \in cut THEN "lost" ELSE a
<1>1. ASSUME NEW a \in {"result", "error", "status", "abort"}, Answer(c, a),
             a = "result" => s.ran = "value" /\ s.id,
             s.ran \in {"value", "bad"} /\ ~s.id => a = "abort",
             a = "status" => ~s.id \/ s.ran = "bad"
      PROVE  SrvInv'
  <2>1. /\ srv' \in [Conns -> SrvRecords] /\ srv'[c] = [s EXCEPT !.answer = Sent(a)]
        /\ \A d \in Conns \ {c} : srv'[d] = srv[d]
    BY <1>0, <1>1 DEF Answer, SrvRecords
  <2>2. AnswerInv(c)'
    <3>1. /\ srv'[c].answer = Sent(a) /\ srv'[c].ran = s.ran /\ srv'[c].id = s.id
          /\ srv'[c].kind = s.kind /\ (s.kind = "upgrade" => ~s.id)
      BY <1>0, <2>1 DEF SrvRecords, AnswerInv
    <3> QED
      BY <1>0, <1>1, <3>1 DEF AnswerInv
  <2> QED
    BY <1>0, <2>1, <2>2 DEF SrvInv, AnswerInv
<1>2. s \in SrvRecords /\ AnswerInv(c)
  BY <1>0
<1>3. CASE handleWS(c)
  <2>1. s.ran = "no" /\ ~s.id /\ Answer(c, "status")
    BY <1>2, <1>3 DEF handleWS, At, AnswerInv
  <2> QED
    BY <1>1, <2>1
<1>4. ASSUME s.ran \in {"no", "panic"}, rpcError(c)
      PROVE  SrvInv'
  <2>1. CASE s.id
    BY <1>1, <1>4, <2>1 DEF rpcError
  <2>2. CASE ~s.id
    BY <1>1, <1>4, <2>2 DEF rpcError
  <2> QED
    BY <2>1, <2>2
<1>5. CASE handleReader(c)
  BY <1>4, <1>5 DEF handleReader, At
<1>6. CASE doCall(c)
  <2>1. PICK r \in {"value", "panic", "bad"} : srv' = [srv EXCEPT ![c].ran = r]
    BY <1>6 DEF doCall
  <2>2. /\ srv' \in [Conns -> SrvRecords] /\ srv'[c] = [s EXCEPT !.ran = r]
        /\ s.answer = "none" /\ s.kind = "call" /\ \A d \in Conns \ {c} : srv'[d] = srv[d]
    BY <1>0, <1>6, <2>1 DEF doCall, At, SrvRecords
  <2>3. AnswerInv(c)'
    BY <1>0, <1>2, <2>2 DEF AnswerInv, SrvRecords
  <2> QED
    BY <1>0, <2>2, <2>3 DEF SrvInv, AnswerInv
<1>7. CASE respond(c)
  <2>1. CASE At(c, "call", "panic") /\ rpcError(c)
    BY <1>4, <2>1 DEF At
  <2>2. CASE At(c, "call", "value") /\ Answer(c, IF srv[c].id THEN "result" ELSE "abort")
    <3>1. CASE s.id
      BY <1>1, <2>2, <3>1 DEF At
    <3>2. CASE ~s.id
      BY <1>1, <2>2, <3>2 DEF At
    <3> QED
      BY <3>1, <3>2
  <2>3. CASE At(c, "call", "bad") /\ Answer(c, IF srv[c].id THEN "status" ELSE "abort")
    <3>1. CASE s.id
      BY <1>1, <2>3, <3>1 DEF At
    <3>2. CASE ~s.id
      BY <1>1, <2>3, <3>2 DEF At
    <3> QED
      BY <3>1, <3>2
  <2> QED
    BY <1>7, <2>1, <2>2, <2>3 DEF respond
<1> QED
  BY <1>3, <1>5, <1>6, <1>7 DEF Serve

\* Where the request of c is replaced by a fresh one, or by none, c is not idle.
LEMMA ResetKeepsSrv ==
  ASSUME SrvInv, NEW c \in Conns, NEW r \in SrvRecords, srv' = [srv EXCEPT ![c] = r],
         r.answer = "none", r.kind = "upgrade" => ~r.id, r.ran = "no",
         cut \subseteq cut', net'[c] # "idle", \A d \in Conns \ {c} : net'[d] = net[d]
  PROVE  SrvInv'
<1>1. /\ srv' \in [Conns -> SrvRecords] /\ srv'[c] = r
      /\ \A d \in Conns \ {c} : srv'[d] = srv[d]
  BY DEF SrvInv
<1>2. AnswerInv(c)'
  BY <1>1 DEF AnswerInv
<1>3. ASSUME NEW d \in Conns \ {c} PROVE AnswerInv(d)'
  BY <1>1 DEF SrvInv, AnswerInv
<1> QED
  BY <1>1, <1>2, <1>3 DEF SrvInv

\* Where the requests stay, a connection becomes idle only behind its handler.
LEMMA SameKeepsSrv ==
  ASSUME SrvInv, UNCHANGED srv, cut \subseteq cut',
         \A d \in Conns : net'[d] = "idle" /\ net[d] # "idle" =>
                            srv[d].answer \notin {"none", "abort"}
  PROVE  SrvInv'
BY DEF SrvInv, AnswerInv

\* Every step preserves SrvInv.
LEMMA NextSrv == HttpInv /\ SrvInv /\ [HttpNext]_httpVars => SrvInv'
<1> SUFFICES ASSUME HttpInv, SrvInv, [HttpNext]_httpVars PROVE SrvInv'
  OBVIOUS
<1>0. net \in [Conns -> {"unborn", "accepted", "new", "read", "active", "idle", "hijacked", "ended"}]
  BY DEF HttpInv, TypeOK, ValueType
<1>1. CASE UNCHANGED httpVars
  BY <1>1, SameKeepsSrv DEF httpVars, vars, tracked
<1>2. ASSUME crashed = "no", NEW c \in Conns, HttpRequest(c)
      PROVE  SrvInv'
  <2>1. PICK r \in Requests : srv' = [srv EXCEPT ![c] = Serving(r)]
    BY <1>2 DEF HttpRequest
  <2>2. /\ Serving(r) \in SrvRecords /\ Serving(r).answer = "none" /\ Serving(r).ran = "no"
        /\ Serving(r).kind = "upgrade" => ~Serving(r).id
    BY <2>1 DEF Requests, Serving, SrvRecords
  <2>3. net' = [net EXCEPT ![c] = "active"] /\ cut' = cut
    BY <1>2 DEF HttpRequest, reportActive, stateActive
  <2> QED
    BY <1>0, <2>1, <2>2, <2>3, ResetKeepsSrv
<1>3. ASSUME NEW c \in Conns, Forget(c), cut \subseteq cut',
             NEW n \in {"accepted", "new", "read", "ended", "hijacked"},
             net' = [net EXCEPT ![c] = n]
      PROVE  SrvInv'
  <2>1. /\ NoRequest \in SrvRecords /\ NoRequest.answer = "none" /\ NoRequest.ran = "no"
        /\ NoRequest.kind # "upgrade"
    BY DEF NoRequest, SrvRecords
  <2> QED
    BY <1>0, <1>3, <2>1, ResetKeepsSrv DEF Forget
<1>4. ASSUME crashed = "no", NEW c \in Conns, HttpReturns(c)
      PROVE  SrvInv'
  <2>1. CASE srv[c].answer \notin {"none", "abort"} /\ reportIdle(c) /\ UNCHANGED srv
    <3>1. net' = [net EXCEPT ![c] = "idle"] /\ cut \subseteq cut'
      BY <2>1 DEF reportIdle, stateIdle, closeConn
    <3> QED
      BY <1>0, <2>1, <3>1, SameKeepsSrv
  <2>2. CASE connEnds(c) /\ Forget(c)
    BY <1>3, <2>2 DEF connEnds
  <2>3. CASE hijack(c) /\ Forget(c)
    BY <1>3, <2>3 DEF hijack
  <2> QED
    BY <1>4, <2>1, <2>2, <2>3 DEF HttpReturns
<1>5. ASSUME crashed = "no", NEW c \in Conns, HttpIdle(c)
      PROVE  SrvInv'
  <2>1. Forget(c)
    BY <1>5 DEF HttpIdle
  <2>2. CASE accept(c)
    BY <1>3, <2>1, <2>2 DEF accept, tracked
  <2>3. CASE reportNew(c)
    BY <1>3, <2>1, <2>3 DEF reportNew, stateNew, closeConn
  <2>4. CASE readRequest(c)
    BY <1>3, <2>1, <2>4 DEF readRequest, tracked
  <2>5. CASE connEnds(c)
    BY <1>3, <2>1, <2>5 DEF connEnds
  <2> QED
    BY <1>5, <2>2, <2>3, <2>4, <2>5 DEF HttpIdle
<1>6. ASSUME UNCHANGED srv,
             \/ Start \/ goServe \/ serveFails \/ CloseClientConnections \/ cccReturns
             \/ (\E c \in Conns : closeConnChan(c)) \/ (\E k \in Closers : Close(k))
             \/ (\E p \in Waiters : waitReturns(p))
      PROVE  SrvInv'
  <2>1. net' = net /\ cut \subseteq cut'
    BY <1>6 DEF Start, goServe, serveFails, CloseClientConnections, cccReturns, closeConnChan,
       closeConn, Close, waitReturns, tracked
  <2> QED
    BY <1>6, <2>1, SameKeepsSrv
<1> QED
  BY <1>1, <1>2, <1>4, <1>5, <1>6, ServeKeepsSrv DEF HttpNext

\* A connection is used again only when the sender of its last request knows
\* what became of it (handler.go handle, and net/http around it).
THEOREM HttpReusedWhenAnswered == HttpSpec => []ReusedWhenAnswered
<1>1. HttpInit => SrvInv
  BY DEF HttpInit, Init, SrvInv, SrvRecords, NoRequest, AnswerInv
<1>2. SrvInv => ReusedWhenAnswered
  <2> SUFFICES ASSUME SrvInv, NEW c \in Conns
               PROVE  /\ net[c] = "idle" /\ srv[c].ran \in {"value", "bad"} => srv[c].id
                      /\ net[c] = "idle" /\ srv[c].id =>
                           \/ srv[c].answer \in {"result", "error"} \/ srv[c].ran = "bad"
                           \/ c \in cut
                      /\ srv[c].answer = "result" => srv[c].ran = "value" /\ srv[c].id
    BY DEF ReusedWhenAnswered
  <2>1. AnswerInv(c) /\ srv[c] \in SrvRecords
    BY DEF SrvInv
  <2> QED
    BY <2>1 DEF AnswerInv, SrvRecords
<1>3. HttpSpec => []HttpInv
  BY HttpInductive, HttpImplementsServer, PTL
<1> QED
  BY <1>1, <1>2, <1>3, NextSrv, PTL DEF HttpSpec
=============================================================================
