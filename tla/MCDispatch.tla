----------------------------- MODULE MCDispatch -----------------------------
(***************************************************************************)
(* Instances of Dispatch for TLC: requests and cards.  Capacity is the     *)
(* total less a headroom of 1; every share job costs one unit more than    *)
(* its budget.                                                             *)
(***************************************************************************)
EXTENDS Grants, TLC

CONSTANTS both, one, big, small, cpu

\* Two cards: `both' needs the whole machine, `one' one card.
MixedGpus == both :> 2 @@ one :> 1 @@ big :> 1 @@ small :> 1 @@ cpu :> 0
MixedVram == both :> NULL @@ one :> NULL @@ big :> 3 @@ small :> 1 @@ cpu :> NULL

RequestedGpus == [j \in Jobs |-> MixedGpus[j]]
RequestedVram == [j \in Jobs |-> MixedVram[j]]

EqualCards   == [g \in Gpus |-> 7]
UnequalCards == [g \in Gpus |-> IF g = 0 THEN 5 ELSE 8]

\* The accepted request that no card can hold: its budget is the total.
OversizeVram == [RequestedVram EXCEPT ![big] = 6]

\* Reserved is the sum of what the jobs need.
ASSUME \A S \in SUBSET {j \in Jobs : ~Exclusive(j)} :
          Reserved(S) = MapThenSumSet(Need, S)
=============================================================================
