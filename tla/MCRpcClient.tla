----------------------------- MODULE MCRpcClient -----------------------------
(* Small instances of RpcClient for TLC: the values are in the .cfg files.    *)
EXTENDS RpcClient
=============================================================================
