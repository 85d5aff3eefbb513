# A TLA+ model of lotus_dashboard

lotus_dashboard polls a Lotus node and a miner over JSON-RPC on websockets and posts what it
learned to a local HTTP endpoint. Its own core is a small RPC library (`src/main/rpc`), a server
harness (`src/main/httptest`), the polling loop (`src/main/clientrpc.go`) and a run-length codec
(`src/main/extern/rleplus`). These modules model that core, check it with TLC and prove
all of its safety properties with TLAPS. File names below are relative to `src/main/`.

## 1. Inventory

| Component | State | Operations | Talks to | Module |
|---|---|---|---|---|
| RPC client: `rpc/client.go`, `rpc/websocket.go` | `idCtr`, the channels `requests` (100 places), `exiting`, `stop`, the map `inflight`, a one-place channel `ready` for each call, `writeLK`, `handlingLK` | a call (`handleRpcCall`, `sendRequest`), the loop `handleWsConn`, the reader `nextMessage`, `handleResponse`, `handleCtxAsync`, the closer | peer over the websocket, sink | `RpcClient`, `RpcSystem` |
| RPC server connection: `rpc/websocket.go`, `rpc/handler.go`, `rpc/server.go` | `handling` and its lock `handlingLK`, `registerCh`, `chanCtr`, `writeLK`; in `handleOutChans` the slices `cases` and `caseToID` | `handleCall`, `cancelCtx`, `handle`, `nextWriter`, `handleChanOut`, `handleOutChans` | peer, methods, HTTP server | `RpcServer`, `RpcSystem`, `RpcHttp` |
| Channel sink: `makeOutChan` in `rpc/client.go` | `buf`, `bufLk`, the channel `ch`, two contexts | `handleChanMessage`, `handleChanClose`, the forwarder goroutine | loop, caller | `ChanSink`, `ChanSpec` |
| HTTP server: `httptest/server.go` | `wg`, `closed`, `conns` | `Start`, `goServe`, the hook of `wrap`, `Close`, `CloseClientConnections` | net/http, RPC server | `HttpServer`, `RpcHttp` |
| RLE+ codec: `extern/rleplus` | a bit vector; in `Decode` cursor, index, bit | `RunLengths`, `Encode`, `Decode`, `Push`, `Get`, `Extend`, `Take` | - | `RlePlus` |
| Dashboard: `clientrpc.go` `main`, `server/server.go` `NewTransmitClient` | the record `lotus`, `addr`, the open clients | eight calls, their closers, the post, once a minute | RPC client, HTTP | `Dashboard` |
| Parameter encoding and types: `rpc/util.go`, `makeRpcFunc`, `register` | a `Param` on its way | `MarshalJson`, `UnmarshalJson`, `processFuncOut`, `makeRpcFunc`, `register` | client, server, `encoding/json` | `RpcTypes` |
| Local server: `localserver.go` | none of its own | eight methods with fixed answers; `main` starts the HTTP server | RPC server, HTTP server | `Dashboard`, `HttpServer` |
| `webconn` (`server/server.go`), `httptest/httptest.go`, shell helpers | - | dead code, a constructor, unused commands | - | not modelled |
| `extern/filecoin-ffi` | none of its own | cgo bindings to a cryptographic library | - | not modelled |

How they interact: a caller puts a request into `requests` and waits on its `ready`. The loop, one
goroutine for each connection, moves the request to `inflight`, writes it under `writeLK`, and
answers `ready` when the reader delivers the reply. On the server the loop starts a goroutine per
call, which answers under `writeLK`; a channel a method returned is registered with
`handleOutChans`, which forwards its values as notifications under the same lock. On the client
these notifications go to the sink. The dashboard makes a client per call and uses the closer.

What is hard here: four kinds of goroutine and two locks without an owner on each connection;
a panic that runs the deferred functions of the loop with one of them locked;
the closer, cancellation and the loss of the connection racing calls; replies that come twice, late
or ill-formed; a lock handed from one goroutine to another in the sink; hook calls of net/http
racing `Close`; words that wrap around in the codec. `PROJECT.json` lists the single hazards, each
at its line and with the properties that watch it.

What makes each component correct:

* client: a call is in one place and answered once, the loop never blocks on a caller, only a
  request in the buffer can be lost by an exit, the closer returns;
* server: a channel is announced before its values, values go out under the right id and in order,
  each call is answered once and leaves `handling`, contexts end with the connection;
* sink: a FIFO channel without gaps, one forwarder;
* client and server together: a call runs its method at most once and returns what *that* method gave,
  or a failure of the connection; neither end waits for ever for the other;
* HTTP server: `wg` counts what it should, the map follows net/http, nothing is left open by `Close`, and
  a connection is reused only when the sender of its last request knows what became of it;
* codec: `Decode` inverts `Encode` and ends on every buffer;
* dashboard: the record is of one round and one miner, clients do not pile up, and made-up arguments,
  functions and methods fit each other, so that rounds go on.

## 2. Modules

Every state variable keeps the name of the field or variable it models where it has one; actions
keep the name of the function, or of the branch of it, they model. `PROJECT.json` maps each to its
lines. A definition whose name ends in `M` stands directly before the definition it is a deliberately
broken form of; it is used in no specification, only to show that a property can fail. The theorems about a
module `X` and their proofs are in `XProofs` (those about `RpcHttp` in `HttpServerProofs`, the round trip of
`RlePlus` in `RlePlusRoundTrip`).

**RpcClient.** Callers step through `sendRequest` (`enqueue`, `wait`, `cancel`); the loop is in
`select`, `handle`, `send` or `stop`, then in its deferred functions (`closing`, `tell`, `cancelAll`), then `exited`.
A writer (the loop, `handleCtxAsync` of call i, or the goroutine of a call of the peer) takes `writeLK` and
writes in two steps, so that others get in between; a failed write of `sendRequest` is followed by *two* unlocks,
as in the code. `writeLK` and `handlingLK` are Booleans, because a Go mutex has no owner.
The deferred loop over `inflight` takes three steps for each call: it assigns its variable `id`
(`rangeInflight`, `websocket.go:111`), puts a reply with the *address* of `id` into `ready` (`closeInflight`, `:112`),
and cancels the peer's calls under `handlingLK` (`cancelAll`, `:120`). The racing read of that address in
`receive` yields the caller's id or the current one (`SeenID`), which may be that of a call whose turn has come
and that has not been told yet.
A cancel request has no ID, and the loop dereferences it (`panicking = "nil ID"`): the deferred functions run,
and then the process dies (`panicEnds`). `frame` stands for
the frame at hand and, in `send`, for the request at hand; it is `NoFrame` when there is none. The peer answers in any order, twice,
with results that do not fit or frames that do not decode, if `Faults` says so. The result of a
channel-valued call is one frame; its values are `ChanSink`'s business. The peer may also *call* the client: the
handler map is empty, so the goroutine of `handleCall` (the writer `Handler`) answers with an error through
`nextWriter`, which unlocks once, and leaves through `done`. A call without an ID panics *between* `Lock` and `Unlock` of
`handlingLK` (`handleCallNoID`). With nothing in `inflight` the deferred functions do not want that lock, and
the process dies; otherwise the loop tells one call and waits in `cancelAll` for the lock it left itself
(`StuckOnHandlingLK`). Named bounds: one call of the peer with an ID is under way at a time, and what the peer
sends besides answers is among its first `OwnFrames` frames, so that frames are left for its answers. Left out:
built-in messages with too few parameters (see section 6).

**RpcServer.** Calls are of kind `plain`, `chan` or `unknown` (an unknown method or a wrong number of
parameters). A `plain` result may be `bad`: `encoding/json` refuses it, and `handle` sends an empty message
(`handler.go:182`). `done` keeps the entry of a `chan` call, whichever way it ended. A method that
fails may still return a nil channel, which is registered like any other (`prod = "nil"`).
`handleNotification` is the panic at `*frame.ID`, which net/http recovers: `handlingLK` stays locked, so every
later `done` of the connection waits for ever, with its call's answer already written. `out` is the
sequence of frames written, with the source of each as history.

**RpcTypes.** What the library reads off the types of functions, and what a `Param` is on the wire, as
operators. A function is the list of the names of its parameter and result types. A JSON text is the
sequence of values it encodes, empty when there is no text. `Wire` is what `encoding/json` does with a
`Param`: it does not know `MarshalJson`, sends the struct, and loses `V`. `handleRpcCall` fills `Data` by
itself (`CallParam`); the built-in messages do not (`BuiltinParam`).

**RpcSpec, RpcSystem.** `RpcSpec` is the abstract promise: a call is made, its method runs at most once, the
call returns once with what its own method gave or with a failure. `RpcSystem` extends `RpcClient`, takes
`RpcServer` as an instance in the place of the peer, and adds the network: `toServer` carries requests and
`xrpc.cancel`, the server's `out` is what the client reads. The ids of the client are the ids on the server; the
kind of a call follows from the client's function. `chanHandlers` and `sinkGot` are the client's table of sinks
and what they were handed. The two processes die separately, and a process that dies takes the connection
with it. `ImplementsRpc` maps `called` to the ids given out, `result` to the replies of the server's
goroutines and `returned` to the outcomes of the callers.

**RpcHttp.** The RPC server as the handler of `HttpServer`: a request is an upgrade, is refused before its
method runs, or runs it (`doCall`) and is answered (`respond`), with or without an ID, while `Close` and
`CloseClientConnections` go on. `*req.ID` is read after the method (`handler.go:161`); its panic is recovered
by net/http, which closes the connection. What is known of the last request is kept until the connection
takes up another one.

**ChanSink, ChanSpec.** `handleChanMessage`, `checkCtx` and `pushBack` are the sink;
`loopTop`, `park`, the three outcomes of the select and `relock` are the forwarder, which takes
`bufLk` over from the push that starts it. `ChanSpec` is the abstract channel: accept, deliver in
order, end. `ImplementsChan` maps `ended` to "the buffer was emptied".

**HttpServer.** The hook's cases are `stateNew`, `stateActive`, `stateIdle` and `forgetConn`; net/http
(`net`) reports a change after it happened, with `Close` and `CloseClientConnections` possible in
between. Timers and log output are left out; giving up after five seconds is `cccReturns` at any time.

**RlePlus.** `Encode` is one step, `Decode` one step for each block and each byte of a varint.
`Word` is the number of values of `uint64` and of `int`. `sort.Slice` is insertion (`Sort`). Folds and one recursive
function, no RECURSIVE operator.

**Dashboard.** The calls of a round in the order of `main`. A call or a closer may also never return
(`callHangs`, `closerHangs`: what `LeftInBuffer` and `StuckOnHandlingLK` of `RpcClient` are to `main`), and a
goroutine of a client may end the process (`clientDies`). `clientFunc` has the types of the functions
`main` declares, `serverMethod` those of the methods of `localserver.go`, `paramList` the arguments
`NewMergeClient` makes up. Where they fit (`CallFits`), a result is a value, a list of addresses that is too short,
a zero value (a failure `processError` hid) or nil (an error answer); where they do not, the call panics or
is answered with an error. The name of the miner is an address, empty, or a string that does not parse
(`Unparsed`), which is stored all the same while the later calls ask about `address.Undef` (`clientrpc.go:374`). A dial that fails, an assertion on nil, an index behind the addresses and a nil
response end the process. The methods of `localserver.go` only ever give values; the other results stand for
the node that they stand in for.

## 3. Runs

| Run | Checks | Bounds, and why they are enough |
|---|---|---|
| `client_safety` | `IndInv`, `LoopNeverBlocks`, `EachCallInOnePlace`, `OnlyQueuedCallsAreLost`, `SwallowedOnlyAtExit`, `LockHeldByOneWriter` | 2 callers, one of a channel function, 2 calls, 2 frames, `ReqCap` 1, all faults but calls of the peer and a close by it, which can do nothing in these invariants that a broken connection cannot. Two calls are what it takes to mix up ids or to fill the buffer; two frames make a duplicate. The invariant is proved for all bounds and all faults. |
| `client_live` | `IndInv`, `OnlyQueuedCallsHang`, `CloserReturns` | the same size, without cancellations, with a peer that answers both calls and may put one frame in front of its answers: a call of the client, with or without an ID, a wrong or unasked answer, or bytes that do not decode; the closer; a connection that breaks or that the peer closes. So a call of the peer meets calls in flight, none, the closer, and the exit. Cancellation and progress are in `rpc_system` |
| `client_lost_call` | `CallsReturn` is **violated** | the closer only |
| `server_faults` | `TypeOK`, `AnnouncedFirst`, `ValuesRouted`, `AnsweredOnce`, `HandlingTracksCalls`, `LockHeldByOneWriter` | 2 calls of any kind, 2 values for each channel, all faults: two channels make removal from the middle of the slices happen |
| `rpc_system` | `ImplementsRpc`, `CallsReturnThroughServer`, `ServerCallsEnd`, `ServerContextsEnd` | 2 callers, one of a channel function, 2 calls, `ReqCap` 1, one value per channel. Two calls at once without a fault, which is what it takes to mix up answers, to deadlock a registration and to meet an empty message with another call on its way; or one call with one fault at any point (`MaxFaults`, `FaultCalls`): a cancellation, the closer or a lost connection. Two calls *with* faults are what `client_safety`, `client_live` and `server_faults` check on each side |
| `system_cancel` | `CancelEndsContext` is **violated** | one channel-valued call, whose context ends |
| `server_register_deadlock` | `RegistrationCompletes` is **violated** | two channel-valued calls, one value, no fault |
| `sink` | `TypeOK`, `OneForwarder`, `NothingLostBefore`, `CrashNeedsClose`, `ImplementsChan`, `AcceptedIsRead` | 4 values: the buffer runs empty, fills and runs empty again |
| `http_server` | `TypeOK`, `WgCounts`, `MapFollowsNet`, `IdleCutAfterClose`, `ReusedWhenAnswered`, `ConnsDrain` | `RpcHttp`: 2 connections, any number of requests on each, 2 calls of `Close`, `CloseClientConnections` again and again |
| `http_close` | `CloseReturns` is **violated** | 1 connection, 1 call of `Close` |
| `rleplus` | `RoundTrip`, `BoundedRead`, `IncreasingUnlessOverflow`, `LengthExact`, `TakeInvertsExtend` | words of 10 bits (varints of two bytes); numbers and intervals at the limits of blocks and of the word; about 1000 arbitrary buffers |
| `dashboard` | `FreshRecord`, `OneMiner`, `NoClientLeak`, `RoundsRepeat` | 2 miners and a name that is no address; the number of rounds is not bounded |

Deadlock is not checked: a client, a server or a sink may have nothing left to do once the bounded
numbers of calls, frames or values are used up, `Decode` ends, and a process that died takes no step.
`client_live`, `rpc_system`, `sink`, `http_server` and `dashboard` check progress instead.

### Fairness

Go runs every goroutine that can run: weak fairness on its steps. A `select` chooses uniformly among
its ready cases and `sync.Mutex` hands the lock to a starving waiter: strong fairness on the server's
goroutines that compete for `writeLK`, and on taking the locks. The peer gives one
fitting answer to a request that reached it (`client_live`), a reader goes on reading (`sink`), a method
and an HTTP handler return. Nobody has to call, cancel, close, stop, fail or send a value. In
`RpcClient` and `RpcSystem` a bounded number of calls, frames, values and faults makes every behaviour finite, so that one
weak fairness condition says all there is: as long as something that is under way can go on, something does
(`UnderWay`, `Goes`), and a step that stays possible is taken before the behaviour ends. The
dashboard's `main` runs while it can. That is no promise that a call or a closer returns, which
`client_lost_call` and `StuckOnHandlingLK` refute: each of them returns or hangs, the hang is a step of the model, and
`RoundsRepeat` names it among the ends of the rounds; the post has a timeout. "Unless the process dies" and
"unless the loop is stuck on `handlingLK`" in the liveness properties are there because the code can do both
(section 5).

## 4. Proofs

Every safety property that a passing run checks is also a theorem of the specification, for every value of the
constants. Each proofs module has one inductive invariant, a lemma for each of its parts
or for each action (a step per action, or per part, under it), and theorems that draw the properties from
it. The only assumptions are the named ones of the modules, which TLC evaluates on every run: bounds are
naturals, sets of faults and kinds are sets of those the module knows, `ReqCap` is not zero
(`ClientAssumption`, `ServerAssumption`, `SystemAssumption`, `SinkAssumption`), the set of connections is
finite and `Main` is not a closer (`HttpAssumption`), there is an address that is no miner's and a string that is no address
(`DashboardAssumption`), and the inputs of the codec are slices of words, its buffers slices of bytes
(`RleAssumption`). `RleAssumption` also says that `MaxVarint` is the length of the varint of the largest word,
as 10 is in the code, and that the length of a slice is an `int`, so less than half of `Word`: a run of ones
that is not would become negative in `int(x)` and be lost, but Go has no such slice.

**RpcClientProofs.** `IndInv` is the invariant that `client_safety` checks, too. `EachCallInOnePlace` is not
inductive by itself. That a request enters the buffer only once needs that its id is fresh, which is
`CallerInv`: two callers never have the same id, and an id that was not enqueued is nowhere. That a reply
finds an empty `ready` needs `LoopInv`: before the exit a call in `inflight` has no reply, and during the
exit `toClose` is what is in `inflight` without one. `PanicInv` says that only a call without an ID leaves
`handlingLK` locked and that the deferred loop then tells one call at most. `LoopNeverBlocks` and `OnlyQueuedCallsAreLost` follow.
On top of it:

* `LockHeldByOneWriter` needs that the goroutine of `handleCtxAsync` runs once for a call, which is
  `AsyncInv`: it runs for calls that have their reply, so the loop does not start another one;
* `SwallowedOnlyAtExit` needs `ExitInv`, which says what the shared variable `id` of the deferred loop may
  name (a call that was told, or the one whose turn it is) and that a reply is for its own call or from that
  loop, and `FitInv`: without faulty frames every
  result fits its call;
* `ClientDiesOnlyThere` needs `CancelInv`: behind every cancel request is a context that ended; and `PanicInv`:
  a call without an ID ends the process only if nothing is in flight.

**RpcServerProofs.** `ServerInv` is a conjunction of small parts:

* `CallInv` ties the control state of a call to its reply and its channel id, and `CountInv` makes `chanCtr`
  the number of calls that have one: channel ids are given out once;
* `LockInv` is `LockHeldByOneWriter` without cardinalities: no two of the goroutines that can hold `writeLK`
  are between `Lock` and `Unlock`, and only a failed write leads to the second `Unlock`; `EndInv` draws from
  it what the process can die of;
* `ReplyInv` (a call has no answer before its goroutine is done, and at most one afterwards) gives
  `AnsweredOnce`;
* `CaseInv` and `ValueInv` give `ValuesRouted`: `cases` and `caseToID` have one entry for each registered
  channel, at the same place, through every removal, and what was sent of a channel and what is on its way
  are its values in order;
* `AnnounceInv` gives `AnnouncedFirst`: a channel that may be written about has been announced, or its
  handler is about to announce it *and holds the lock*, or nothing is written any more. The middle case is
  what an inductive form has to add, and it is also the reason for the deadlock of section 5;
* `NamesInv` keeps the ids of two channels apart.

The steps are proved for a call that takes any unused id, not just the next one: `OrderInv` makes the
server's own specification a special case, and the composition, where the client chooses the ids, is the
other.

**RpcSystemProofs.** The client's invariant and the server's are shown to hold in the composition, whose
next-state relation is neither's, by showing that each step of it is one of the client's or of the server's,
or leaves it alone. What links them is `SentInv` and `WireInv` (a request that was written is not written
again, is on its way once, and then the server does not know its call yet: a method runs once), `LinkInv`
(the ends of the connection), `ResultInv` (a response, on its way to the client, in the frame at hand or in
`ready`, carries the result of its own call) and `OutcomeInv`. With it `SysImplementsRpc` proves `SysSpec =>
ImplementsRpc` step by step: every step maps to a call, a run of a method, a return, or a stutter.
`SysBuiltinsChangeNothing` proves for every instance why `system_cancel` is violated: no
cancel ends a context, no sink is handed a value or closed. It needs `KindInv` (both ends agree on what is channel-valued), `AlignInv` (the frames
on their way, and the one at hand, are the last ones the server wrote, in order), `SinkInv` (a sink is
registered under the id of the channel of its own call) and `CtxInv` (a context ends with its call).

**ChanSinkProofs.** `OneForwarder` is not inductive by itself: that the forwarder may take the front of the
buffer needs `FrontInv` (between its looks at the buffer there is a value in it), that nothing is pushed
behind values that were dropped needs `EndInv` (they were dropped because the sink's context ended, so the
sink sees that or is no longer registered), and `RoomInv` bounds what was accepted by what arrived.
`SinkImplementsChan` is the refinement of `ChanSpec`.

**HttpServerProofs.** `WgCounts` relates `wg` to the cardinality of the domain of the map; `MapFollowsNet`
says which hook calls can come, and `MainInv` that only a started server waits in `Start`: so `wg` never
becomes negative. `HttpImplementsServer` shows that `RpcHttp` implements `HttpServer`, so the invariants
carry over to the server with the RPC handler; `ReusedWhenAnswered` is proved there, from what the handler
can have sent in each of its states (`SrvInv`).

**DashboardProofs.** The strengthening is the position in the round: for each phase and step it says which
fields of the record were filled in this round and under which address, which is what the name in the record
parses to (`RecordInv`), and which clients are
open (`OpenInv`).

**RlePlusProofs.** For words of every size, every slice of integers and every buffer. `ReadInv` says for
each phase how far `Decode` may have read: behind the end `Take` returns zeroes, so a block that is not long
begins in front of it, as does every byte of a varint with its highest bit set, and a varint that begins
behind it is zero and ends the loop. `OutInv` says that the numbers so far are below the index of the next
run, `EncodedInv` that `Encode` hands over a vector with zeroes behind its last bit. The operators are
folds, so these need induction over data: the library's induction theorems take a predicate, which the
provers cannot instantiate, but the least element of a well-founded *set* does as well (`Least`, `InductTo`,
`Induct`). `FoldExists` shows that the function a fold recurs on exists; a lemma for each fold
(`ExtendSteps`, `TakeSteps`, `SortSteps` and so on) then gives the sequence of its intermediate values.
`PushVector` and `NoCarry` are the bit-level core: a bit that is added to a byte is set and changes no
other.

**RlePlusRoundTrip.** `RoundTrip` for the same words and slices. Four facts describe what `Encode` makes, each
by induction along the steps of a fold or of `PutUvarint`. `VarintRead`: `Uvarint` gives back every word from
its varint, which has at most `MaxVarint` bytes. `SortSorts`: `Sort` returns the same numbers in order.
`RunsCover`: there is a function e, the sums of the run lengths, such that the numbers from e[k - 1] to
e[k] - 1 are all in the slice or none of them is, in turn, and the last sum is at most `Word`; the loop's
invariant `RunsOf` has a case for a neighbour, a gap and a repetition. `EncodeRead`: there is a function p such
that the bits `Decode` sees are the header, the block of run k from p[k - 1] to p[k] - 1, and zeroes from the
last p on. The inductive invariant `RoundInv` then places `Decode`: in front of a block there is a k with
cursor = p[k], the index e[k] modulo `Word`, the bit that of run k + 1, and `out` exactly the numbers of the
slice below e[k], increasing; within a long block `varint` is a proper prefix of the varint of run k + 1. The two
bits at the cursor decide the branch, and they are those of the kind of block that `Encode` wrote
(`BlockKinds`), so no branch reads a run wrongly; behind the last block the zeroes are a long block of a run of
length zero, at which all numbers are out. The step that is easy to get wrong is a run of zeroes of half the
word or more: `int(x)` makes it negative, and `WordDown` shows that the index wraps around to the right place.

Model-checked only: liveness, since temporal reasoning under fairness and ENABLED is beyond the prover.

## 5. Where the code and its comments disagree

Shown by a run (details under `findings`):

1. `client_lost_call`: a call in the buffer of `requests` when the loop exits is never answered.
2. `system_cancel`: `encoding/json` looks for `MarshalJSON` and `UnmarshalJSON` and never calls
   `Param`'s `MarshalJson` and `UnmarshalJson` (`util.go:23`). The parameters of `xrpc.cancel`, `xrpc.ch.val` and
   `xrpc.ch.close` do not survive the wire between two ends of this library: a cancelled context goes on at the server
   (`websocket.go:297` says otherwise), and the channel a caller got stays open and silent (`:316` and `:354` say
   otherwise). `SysBuiltinsChangeNothing` proves both. With a `Param` whose encoding carries `V`, the property holds on
   the same instance.
3. `server_register_deadlock`: registration of a channel holds `writeLK` while its receiver waits for it.
4. `http_close`: `Close` of a started server does not return, nor does `Start`.

Part of the models, with properties that say when it can happen and when not:

* cancelling a pending call dereferences a nil ID in the loop (`websocket.go:172`; `Died` in
  `OnlyQueuedCallsHang` and `CallsReturnThroughServer`, which are the only ways out they allow);
* a failed write unlocks twice (`websocket.go:241`; `LockHeldByOneWriter`, `Died`);
* replies of the deferred loop share one id (`websocket.go:114`; `SwallowedOnlyAtExit`);
* local failures are returned as zero values without an error (`client.go:92`; `SwallowedOnlyAtExit`);
* registration after the loop's exit sends on a closed channel (`websocket.go:396`; `Died` in `ServerCallsEnd`);
* a call of the peer without an ID panics with `handlingLK` locked (`websocket.go:459`). In a client with a call in
  flight the loop waits for the lock it left itself (`:120`): the process lives, and the closer, which
  "closes the communication of the client" (`client.go:243`), neither closes the connection nor returns
  (`StuckOnHandlingLK` in `OnlyQueuedCallsHang` and `CloserReturns`); with none the process ends (`Died`). On a server
  net/http recovers, and no call that was running gets through its `done`, although `websocket.go:338` expects
  the end of the context to take care of it (`HandlingTracksCalls`, `CallsEnd`);
* the id for a close notification is read from `caseToID` after that place was overwritten (`websocket.go:362`): it names the last
  registered channel (`outChanClosed`; the slices themselves stay aligned, `ValuesRouted`);
* closing a sink that still holds values may panic (`client.go:115`; `CrashNeedsClose`);
* a result that does not encode becomes an empty message, which ends the client's loop
  (`handler.go:182`; `AnsweredOnce`, `CallsReturnThroughServer`);
* a request without an ID over plain HTTP runs its method and then loses its connection
  (`handler.go:161`; `ReusedWhenAnswered`);
* an error answer arrives in `main` as a nil result with a nil error (`client.go:311`), and the type assertion on it
  ends the dashboard, where a default was meant to go into the record (`clientrpc.go:364`; `RoundsRepeat`);
* a short list of addresses, a dial or a post that fails ends the dashboard, and a client can
  die under it or hang it for good (`clientrpc.go:355`, `:391`, `client.go:310`, `server.go:162`; `RoundsRepeat`);
* a miner's name that does not parse is posted with figures about `address.Undef` (`clientrpc.go:374`; `OneMiner`).

Not in a model: `NewServer` "starts and
returns a new Server" (`httptest/server.go:103`), but its call of `Start` is commented out.

## 6. Not modelled, and why

* `xrpc.ch.val`, `xrpc.ch.close` and `xrpc.cancel` with too few parameters: `frame.Params[0]` is read without a
  test of the length (`websocket.go:303`, `:406`, `:420`), a panic in the loop like that of a call without an ID; no
  end of this library sends one.
* In `Start`, the panic on a second call ("Server already started") and the endless wait under the flag
  `serveFlag`: `main` calls it once, without the flag.
* `getSpan` and the span context in `Meta`: they are traced and change nothing else.
* `webconn` in `server/server.go`: a copy of the client's loop that nothing calls, so there is no
  program whose states it could be checked in.
* `httptest/httptest.go`, the shell helpers of `clientrpc.go`: a constructor that nothing calls, commands that
  `main` does not run.
* `extern/filecoin-ffi`: third-party bindings; their results are cryptography, their state is C memory.

## 7. Plan

The components of section 1, their runs and the proofs of their safety properties are done. What is left is
upkeep: shorter proofs where lemmas of two modules say the same, and a change of the model when the code in
section 5 is repaired.
