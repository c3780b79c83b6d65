----------------------------- MODULE MCNotifier -----------------------------
(* Instances of Notifier for TLC: rows without GPUs, which it does not see. *)
EXTENDS Notifier

CONSTANT refresh

AnyRequest == [j \in Jobs |-> 0]
NoBudget == [j \in Jobs |-> NULL]
=============================================================================
