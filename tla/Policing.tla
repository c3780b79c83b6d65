------------------------------ MODULE Policing ------------------------------
(***************************************************************************)
(* Why a job ended.  Daemon with two history variables that no step reads: *)
(* which RUNNING jobs their user cancelled, and in how many policed cycles *)
(* on end a job was over its budget.  They say what Daemon's own record    *)
(* (cancel_requested_at, _evicted, _vram_strikes) should agree with.       *)
(***************************************************************************)
EXTENDS Daemon

VARIABLES
    asked,     \* the RUNNING jobs whose user asked for their cancellation
    overs      \* [Jobs -> consecutive policed cycles over budget in this run,
               \*          saturating at VRAM_STRIKES]

policingVars == <<daemonVars, asked, overs>>

PolicingInit ==
    /\ DaemonInit
    /\ asked = {}
    /\ overs = [j \in Jobs |-> 0]

Counted(j) ==
    CASE j \notin Running' -> 0
      [] j \in Running' /\ phase = "reap" /\ phase' = "enforce" ->
           IF j \notin OverBudget THEN 0
           ELSE IF overs[j] < VRAM_STRIKES THEN overs[j] + 1 ELSE overs[j]
      [] OTHER -> overs[j]

Record ==
    /\ asked' = Running' \cap
                (asked \cup IF phase' = "cancelKill" THEN {cur'.job} ELSE {})
    /\ overs' = [j \in Jobs |-> Counted(j)]

PolicingNext == DaemonNext /\ Record

PolicingSpec == PolicingInit /\ [][PolicingNext]_policingVars

-----------------------------------------------------------------------------
\* docs/how-it-works.md:113-115: a job is evicted only after VRAM_STRIKES
\* consecutive cycles over its budget, all of them in its present run.
EvictionIsEarned ==
    [][\A j \in evicted' \ evicted : overs[j] = VRAM_STRIKES]_policingVars

\* ... and then it is: when a policed cycle goes on to dispatch, every job
\* that has been over for so long is being evicted.
OffendersAreEvicted ==
    phase = "dispatch" =>
        \A j \in Running :
            overs[j] = VRAM_STRIKES => j \in evicted /\ cancel_requested_at[j] # NULL

\* docs/how-it-works.md:116-118: an eviction is a failure, so a job that ends
\* CANCELLED was cancelled by its user.
CancelledMeansAsked ==
    [][\A j \in Jobs : Leaves(j) /\ state'[j] = "CANCELLED" => j \in asked]_policingVars
=============================================================================
