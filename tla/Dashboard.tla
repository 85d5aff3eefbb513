------------------------------- MODULE Dashboard -------------------------------
(***************************************************************************)
(* The dashboard (clientrpc.go main, server/server.go NewTransmitClient)   *)
(* against the node it polls (localserver.go): once a minute it opens a    *)
(* client for each of eight RPC functions, which NewMergeClient calls at   *)
(* once, puts the results into one record, closes the clients and posts    *)
(* the record. A result is "value"; "short", a list of fewer than two      *)
(* addresses; "zero", the zero value of its type (a failure that           *)
(* client.go processError hid); "error", an error answer of the method, or *)
(* "misfit", that of handle to a request that does not fit its method.     *)
(* NewMergeClient only logs an error and hands main a nil. A call or a     *)
(* closer need not return at all, and the goroutines of a client may end   *)
(* the process: RpcClient shows when.                                      *)
(***************************************************************************)
EXTENDS RpcTypes, FiniteSets

CONSTANTS
  Actors,    \* miner addresses, each with the string that it is parsed from
  NoActor,   \* address.Undef, and the empty string
  Unparsed   \* any other string that is no address
ASSUME DashboardAssumption == {NoActor, Unparsed} \cap Actors = {} /\ Unparsed # NoActor

\* address.NewFromString, whose error main drops: then the address is Undef.
NewFromString(s) == IF s \in Actors THEN s ELSE NoActor

Calls == <<"addrs", "id", "head", "actor", "power", "balance", "size", "count">>
CloseOrder == <<"power", "balance", "size", "count", "addrs", "id", "head", "actor">>
Fields == {"addrs", "id", "head", "miner", "power", "balance", "size"}

\* The functions of main's eight handler structs, by the call they are for.
clientFunc ==
  [addrs   |-> Func(<<"ctx">>, <<"peer.AddrInfo", "error">>),
   id      |-> Func(<<"ctx">>, <<"string", "error">>),
   head    |-> Func(<<"ctx">>, <<"*TipSet", "error">>),
   actor   |-> Func(<<"ctx">>, <<"string", "error">>),
   power   |-> Func(<<"ctx", "Address", "*TipSet">>, <<"MinerPower", "error">>),
   balance |-> Func(<<"ctx", "Address">>, <<"BigInt", "error">>),
   size    |-> Func(<<"ctx", "Address", "*TipSet">>, <<"uint64", "error">>),
   count   |-> Func(<<"ctx", "Address", "*TipSet">>, <<"MinerSectors", "error">>)]

\* The methods of SimpleServerHandler that answer them.
Method(ins, out) == Func(<<"*SimpleServerHandler">> \o ins, <<out, "error">>)
serverMethod ==
  [addrs   |-> Method(<<"ctx">>, "peer.AddrInfo"),
   id      |-> Method(<<"ctx">>, "string"),
   head    |-> Method(<<"ctx">>, "*TipSet"),
   actor   |-> Method(<<"ctx">>, "string"),
   power   |-> Method(<<"ctx", "Address", "*TipSet">>, "MinerPower"),
   balance |-> Method(<<"ctx", "Address">>, "BigInt"),
   size    |-> Method(<<"ctx", "Address", "*TipSet">>, "uint64"),
   count   |-> Method(<<"ctx", "Address", "*TipSet">>, "MinerSectors")]

VARIABLES
  phase,     \* "fetch", "close", "post" or "sleep"; "hung" in a call or a closer
  step,      \* the call to make, or the closer to call, next
  addr,      \* the address passed to the calls that take one
  sizeData,  \* the result of the call for the sector size
  lotus,     \* the record: per field what it holds, of which actor (the string in
             \* "miner", the address in force elsewhere), and whether it was
             \* assigned in this round
  open,      \* clients that are open
  crashed    \* "no", or why the process has died

vars == <<phase, step, addr, sizeData, lotus, open, crashed>>

Init ==
  /\ phase = "fetch" /\ step = 1 /\ addr = NoActor /\ sizeData = "value"
  /\ lotus = [f \in Fields |-> [val |-> "zero", of |-> NoActor, fresh |-> FALSE]]
  /\ open = {} /\ crashed = "no"

\* The next element of s, or the next phase behind the last one.
Advance(s, next) ==
  /\ step' = IF step = Len(s) THEN 1 ELSE step + 1
  /\ phase' = IF step = Len(s) THEN next ELSE phase

-----------------------------------------------------------------------------
(* The eight calls of a round.                                             *)

\* websocket.DefaultDialer.Dial fails: log.Fatal.
dialFails ==
  /\ phase = "fetch"
  /\ crashed' = "dial"
  /\ UNCHANGED <<phase, step, addr, sizeData, lotus, open>>

\* The arguments NewMergeClient makes up for a function from their number.
paramList(f) ==
  <<"ctx">> \o (IF Len(f.ins) > 1 THEN <<"Address">> ELSE <<>>)
            \o (IF Len(f.ins) > 2 THEN <<"*TipSet">> ELSE <<>>)

\* What call c may come back with. reflect's Call, and the test of the second
\* result, panic if the arguments or the results are not those of the function.
Results(c) ==
  LET f == clientFunc[c] IN
  IF paramList(f) # f.ins \/ Len(f.outs) # 2 \/ ~OutsOK(f) THEN {"panic"}
  ELSE IF ~CallFits(f, serverMethod[c]) THEN {"misfit"}
  ELSE {"value", "zero", "error"} \cup (IF c = "addrs" THEN {"short"} ELSE {})

IsNil(r) == r \in {"error", "misfit"}

\* What main does with result r of call c panics: a type assertion on nil ...
AssertsNil(c, r) ==
  \/ c \in {"id", "actor"} /\ IsNil(r)
  \/ c = "count" /\ (IsNil(r) \/ IsNil(sizeData))
\* ... or an index behind the addresses, or Height of a nil tip set.
TooShort(c, r) == \/ c = "addrs" /\ r \in {"zero", "short"}
                  \/ c = "head" /\ r = "zero"
Panics(c, r) == r = "panic" \/ AssertsNil(c, r) \/ TooShort(c, r)
PanicOf(c, r) ==
  CASE {r, sizeData} \cap {"panic", "misfit"} # {} -> "wrong types"
    [] AssertsNil(c, r)                           -> "nil assertion"
    [] OTHER                                      -> "short answer"

Put(f, r, a) == lotus' = [lotus EXCEPT ![f] = [val |-> r, of |-> a, fresh |-> TRUE]]

\* Mutant: a nil result leaves the field alone.
StoreM(c, r) ==
  CASE c = "size"  -> sizeData' = r /\ UNCHANGED lotus
    [] c = "count" -> Put("size", r, addr) /\ UNCHANGED sizeData
    [] OTHER       -> /\ IF IsNil(r) THEN UNCHANGED lotus ELSE Put(c, r, addr)
                      /\ UNCHANGED sizeData

\* The result of call c goes into the record; nil becomes the default value of
\* the field. The sector size is only stored when the count is there, too.
Store(c, r) ==
  CASE c = "size"  -> sizeData' = r /\ UNCHANGED lotus
    [] c = "count" -> Put("size", r, addr) /\ UNCHANGED sizeData
    [] OTHER       -> /\ Put(c, IF IsNil(r) THEN "default" ELSE r, addr)
                      /\ UNCHANGED sizeData

\* The strings that come with result r of the call for the miner's actor.
Names(r) == IF r = "value" THEN Actors \cup {Unparsed} ELSE {NoActor}

\* Mutant: a string that does not parse leaves addr as it is.
fetchActorM(r) ==
  \E s \in Names(r) :
    /\ Put("miner", r, s)
    /\ addr' = IF s \in Actors THEN s ELSE addr
    /\ UNCHANGED sizeData

\* The call for the miner's actor: the string is parsed for the later calls, and
\* stored whether or not it is an address.
fetchActor(r) ==
  \E s \in Names(r) :
    Put("miner", r, s) /\ addr' = NewFromString(s) /\ UNCHANGED sizeData

\* Call number step: a client is opened, the function called, its result used.
fetch ==
  /\ phase = "fetch"
  /\ \E r \in Results(Calls[step]) :
       LET c == Calls[step] IN
       /\ open' = open \cup {c}
       /\ IF Panics(c, r)
          THEN /\ crashed' = PanicOf(c, r)
               /\ UNCHANGED <<phase, step, addr, sizeData, lotus>>
          ELSE /\ Advance(Calls, "close")
               /\ IF c = "actor" THEN fetchActor(r) ELSE Store(c, r) /\ UNCHANGED addr
               /\ UNCHANGED crashed

\* A call has no timeout, and never returns if the connection is lost before the
\* loop of the new client takes its request from the buffer (see LeftInBuffer), or
\* if the node does not answer.
callHangs ==
  /\ phase = "fetch" /\ phase' = "hung"
  /\ open' = open \cup {Calls[step]}
  /\ UNCHANGED <<step, addr, sizeData, lotus, crashed>>

\* A goroutine of a client that is open, or being opened, ends the process: the
\* second Unlock after a failed write, or a node that calls without an ID.
clientDies ==
  /\ phase \in {"fetch", "close"}
  /\ crashed' = "client died"
  /\ UNCHANGED <<phase, step, addr, sizeData, lotus, open>>

-----------------------------------------------------------------------------
(* The end of a round.                                                     *)

\* Mutant: the last closer is forgotten.
closeClientM ==
  /\ phase = "close" /\ step < Len(CloseOrder)
  /\ open' = open \ {CloseOrder[step]}
  /\ Advance(SubSeq(CloseOrder, 1, Len(CloseOrder) - 1), "post")
  /\ UNCHANGED <<addr, sizeData, lotus, crashed>>

\* A closer: it stops its client and waits until the client has stopped.
closeClient ==
  /\ phase = "close"
  /\ open' = open \ {CloseOrder[step]}
  /\ Advance(CloseOrder, "post")
  /\ UNCHANGED <<addr, sizeData, lotus, crashed>>

\* The loop of the client waits for handlingLK since the node called it during
\* its own call, without an ID: the closer never returns (see StuckOnHandlingLK).
closerHangs ==
  /\ phase = "close" /\ phase' = "hung"
  /\ UNCHANGED <<step, addr, sizeData, lotus, open, crashed>>

\* NewTransmitClient: the record is posted. An error of Post is built and
\* dropped, and the nil response dereferenced.
NewTransmitClient ==
  /\ phase = "post"
  /\ \/ phase' = "sleep" /\ UNCHANGED crashed
     \/ crashed' = "nil response" /\ UNCHANGED phase
  /\ UNCHANGED <<step, addr, sizeData, lotus, open>>

\* The minute is over: the next round, in which nothing is assigned so far.
nextRound ==
  /\ phase = "sleep" /\ phase' = "fetch"
  /\ lotus' = [f \in Fields |-> [lotus[f] EXCEPT !.fresh = FALSE]]
  /\ UNCHANGED <<step, addr, sizeData, open, crashed>>

Next ==
  /\ crashed = "no"
  /\ dialFails \/ fetch \/ callHangs \/ clientDies \/ closeClient \/ closerHangs
     \/ NewTransmitClient \/ nextRound

Spec == Init /\ [][Next]_vars

\* main's goroutine runs while it can. A call and a closer return, or hang in one
\* of the ways that OnlyQueuedCallsHang and CloserReturns of RpcClient leave open,
\* and those are steps of their own; a dial returns, and the post has a timeout.
FairSpec == Spec /\ WF_vars(Next)

-----------------------------------------------------------------------------
(* Properties.                                                             *)

\* The record that is posted holds nothing of an earlier round: each field was
\* assigned in this one, whichever results were missing.
FreshRecord == phase = "post" => \A f \in Fields : lotus[f].fresh

\* What the record says of power, balance and sectors is about the address that
\* the name in the same record parses to, whatever the miner was the round before;
\* under a name that is no address it is about address.Undef, never about another
\* miner (clientrpc.go:374, where the error of NewFromString is dropped).
OneMiner ==
  phase = "post" =>
    \A f \in {"power", "balance", "size"} :
      lotus[f].of = NewFromString(lotus["miner"].of)

\* Every client opened in a round is closed before the record is posted, so
\* that connections and their goroutines do not pile up over the rounds, and
\* none is closed that is not open (a second close(stop) panics).
NoClientLeak ==
  /\ phase \in {"post", "sleep"} => open = {}
  /\ phase = "close" => open = {CloseOrder[k] : k \in step..Len(CloseOrder)}

\* A record is posted again and again. The dashboard only ends or stops over a dial
\* or a post that failed (server.go:162), an error or a short list for an answer
\* (the assertions and the index at clientrpc.go:355-391), or a client that died or
\* hung: never because the arguments NewMergeClient makes up, the parameters on
\* the wire or the results do not fit the functions and the methods behind them.
RoundsRepeat ==
  phase # "post" ~>
    \/ phase \in {"post", "hung"}
    \/ crashed \in {"dial", "nil assertion", "short answer", "client died", "nil response"}
=============================================================================
