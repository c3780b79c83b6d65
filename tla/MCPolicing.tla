----------------------------- MODULE MCPolicing -----------------------------
(* Instances of Policing for TLC: those of MCDaemon.                       *)
EXTENDS MCDaemon, Policing
=============================================================================
