--------------------------------- MODULE RpcSpec ---------------------------------
(***************************************************************************)
(* What the RPC library promises of a call: its method runs at most once,  *)
(* and the call returns at most once, with what its own method gave or     *)
(* with a failure of the connection. Such a failure says nothing about the *)
(* method: it may have run, and it may run after the call has returned.    *)
(***************************************************************************)
CONSTANTS
  Ids,       \* calls
  Failures   \* what a call returns when the connection fails it
VARIABLES
  called,    \* calls that have been made
  result,    \* what the method of a call gave, "none" before it ran
  returned   \* what a call returned, "none" before it did
rpcVars == <<called, result, returned>>

Given == {"value", "error"}

RpcInit ==
  /\ called = {}
  /\ result = [i \in Ids |-> "none"] /\ returned = [i \in Ids |-> "none"]

Call(i) ==
  /\ i \notin called /\ called' = called \cup {i}
  /\ UNCHANGED <<result, returned>>

Run(i) ==
  /\ i \in called /\ result[i] = "none"
  /\ \E r \in Given : result' = [result EXCEPT ![i] = r]
  /\ UNCHANGED <<called, returned>>

Return(i) ==
  /\ i \in called /\ returned[i] = "none"
  /\ \E o \in Failures \cup ({result[i]} \ {"none"}) :
       returned' = [returned EXCEPT ![i] = o]
  /\ UNCHANGED <<called, result>>

RpcNext == \E i \in Ids : Call(i) \/ Run(i) \/ Return(i)
Rpc == RpcInit /\ [][RpcNext]_rpcVars
=============================================================================
