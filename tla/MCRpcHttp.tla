------------------------------ MODULE MCRpcHttp ------------------------------
(* A small instance of RpcHttp for TLC: the values are in the .cfg file.      *)
EXTENDS RpcHttp
=============================================================================
