------------------------------ MODULE MCChanSink ------------------------------
(* Small instances of ChanSink for TLC: the values are in the .cfg files.     *)
EXTENDS ChanSink
=============================================================================
