----------------------------- MODULE MCHttpServer -----------------------------
(* Small instances of HttpServer for TLC: the values are in the .cfg files.   *)
EXTENDS HttpServer
=============================================================================
