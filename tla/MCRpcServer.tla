----------------------------- MODULE MCRpcServer -----------------------------
(* Small instances of RpcServer for TLC: the values are in the .cfg files.    *)
EXTENDS RpcServer
=============================================================================
