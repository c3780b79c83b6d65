------------------------------- MODULE Grants -------------------------------
(***************************************************************************)
(* Dispatch implements Allocation.  A job holds the cards of its row while *)
(* it is RUNNING, and before that those that plan() has assigned to it: a  *)
(* grant is made by plan(), the launch of the job only writes it down.     *)
(***************************************************************************)
EXTENDS Dispatch

Held == [j \in Jobs |-> IF state[j] = "RUNNING" THEN gpu_ids[j] ELSE out[j]]
Wanted == [j \in Jobs |-> IF Exclusive(j) THEN gpus_requested[j] ELSE 1]
Budget == [j \in Jobs |-> IF Exclusive(j) THEN NULL ELSE Need(j)]
Room == [g \in Gpus |-> Capacity(g)]

Promise == INSTANCE Allocation
             WITH held <- Held, wanted <- Wanted, budget <- Budget, room <- Room

\* Cards change hands only as Allocation lets them: a job gets all of them in
\* one placement, from what the jobs placed or RUNNING leave, no step moves a
\* job that holds cards to others, and what was decided is what is launched
\* (scheduler.plan, Daemon._dispatch, docs/how-it-works.md:88-93).
KeepsPromise == Promise!Spec
=============================================================================
