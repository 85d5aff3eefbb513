----------------------------- MODULE MCDashboard -----------------------------
(* A small instance of Dashboard for TLC: two miners, any number of rounds.   *)
EXTENDS Dashboard
=============================================================================
