----------------------------- MODULE MCRpcSystem -----------------------------
(* A small instance of RpcSystem for TLC: the values are in the .cfg file.    *)
EXTENDS RpcSystem
=============================================================================
