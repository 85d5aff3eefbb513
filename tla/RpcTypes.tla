-------------------------------- MODULE RpcTypes --------------------------------
(***************************************************************************)
(* What the RPC library reads off the types of functions, and what becomes *)
(* of a parameter on the wire. A type is its name; "ctx" is                *)
(* context.Context, "error" is error, "chan" any channel. Positions of     *)
(* results count from 1, and 0 stands for the code's -1.                   *)
(***************************************************************************)
EXTENDS Naturals, Sequences, TLC

Func(ins, outs) == [ins |-> ins, outs |-> outs]
If(P) == IF P THEN 1 ELSE 0

\* processFuncOut: where the value and the error are among the results. On any
\* other list of results (OutsOK is false) the code panics.
OutsOK(f) == Len(f.outs) <= 2 /\ (Len(f.outs) = 2 => f.outs[2] = "error")
processFuncOut(f) ==
  LET one == Len(f.outs) = 1 /\ f.outs[1] = "error" IN
  [val |-> If(Len(f.outs) > 0 /\ ~one),
   err |-> IF Len(f.outs) = 2 THEN 2 ELSE If(one)]

\* makeRpcFunc: what the client knows of a function of the handler struct.
makeRpcFunc(f) ==
  LET o == processFuncOut(f) IN
  o @@ [hasCtx |-> If(Len(f.ins) > 0 /\ f.ins[1] = "ctx"),
        retCh |-> o.val # 0 /\ f.outs[o.val] = "chan"]

\* Mutant: off by one, a method whose only parameter is a context has none.
registerM(m) ==
  LET hasCtx == If(Len(m.ins) > 2 /\ m.ins[2] = "ctx") IN
  processFuncOut(m) @@ [hasCtx |-> hasCtx,
                        recvs |-> SubSeq(m.ins, 2 + hasCtx, Len(m.ins))]

\* register: what the server knows of a method. Its first parameter is the
\* receiver; recvs are the types that the parameters of a request decode into.
register(m) ==
  LET hasCtx == If(Len(m.ins) >= 2 /\ m.ins[2] = "ctx") IN
  processFuncOut(m) @@ [hasCtx |-> hasCtx,
                        recvs |-> SubSeq(m.ins, 2 + hasCtx, Len(m.ins))]

-----------------------------------------------------------------------------
(* Param. A JSON text is the sequence of the values it encodes; <<>> is no *)
(* text at all, the nil slice, which no decoder accepts.                   *)

Param(v) == [Data |-> <<>>, V |-> <<v>>]
MarshalJson(p) == p.V
UnmarshalJson(p, raw) == [p EXCEPT !.Data = raw]

\* A Param as it arrives. encoding/json looks for MarshalJSON and UnmarshalJSON
\* and does not know MarshalJson and UnmarshalJson: it sends the struct. Data is
\* carried over (in base64); V has no exported fields and arrives empty.
Wire(p) == [p EXCEPT !.V = <<>>]

\* handleRpcCall fills Data with the encoded argument by itself ...
CallParam(v) == UnmarshalJson(Param(v), MarshalJson(Param(v)))
\* ... the built-in messages (xrpc.cancel, xrpc.ch.val, xrpc.ch.close) only V.
BuiltinParam(v) == Param(v)

\* json.Unmarshal of a parameter that arrived: its value, or none.
Decode(p, none) == IF p.Data = <<>> THEN none ELSE Head(p.Data)

\* The answer of handle to a call of client function f served by method m: does
\* every parameter arrive and decode into the type of its receiver, and the
\* value into the type that the caller expects?
CallFits(f, m) ==
  LET fn == makeRpcFunc(f) hd == register(m) n == Len(f.ins) - fn.hasCtx IN
  /\ OutsOK(f) /\ OutsOK(m) /\ n = Len(hd.recvs)
  /\ \A i \in 1..n : Decode(Wire(CallParam(f.ins[i + fn.hasCtx])), "none") = hd.recvs[i]
  /\ fn.val # 0 => hd.val # 0 /\ m.outs[hd.val] = f.outs[fn.val]
=============================================================================
