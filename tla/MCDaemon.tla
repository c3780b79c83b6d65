------------------------------ MODULE MCDaemon ------------------------------
(***************************************************************************)
(* Instances of Daemon for TLC: up to three jobs on one or two cards.  An  *)
(* exclusive job `solo' (in two runs one that cannot be launched), and     *)
(* share jobs `left' and `right' of one unit each plus one of overhead.    *)
(***************************************************************************)
EXTENDS Daemon, TLC

CONSTANTS solo, left, right, p1, p2, p3

RequestedGpus == [j \in Jobs |-> 1]
RequestedVram == [j \in Jobs |-> IF j = solo THEN NULL ELSE 1]
Cards == [g \in Gpus |-> 5]

\* A card on which `left' and `right' do not fit together.
TightCards == [g \in Gpus |-> 4]

\* The small card has room for `solo' only, which needs all of a card.
LargeAndSmall == [g \in Gpus |-> IF g = 0 THEN 5 ELSE 2]

SignalDeath == -1

PidSymmetry == Permutations(Pids)

Anywhere == Phases \ {"down"}
OutsideSpawn == Phases \ {"down", "spawned"}
WhileDown == {"down"}
Never == {}
NoReading == {}
TwinSymmetry == Permutations(Pids) \cup Permutations({left, right})

OverOrUnknown == {NULL, 3}
=============================================================================
