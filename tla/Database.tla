------------------------------ MODULE Database ------------------------------
(***************************************************************************)
(* The columns of gpu_queue/db.py that supervision depends on: pid,        *)
(* exit_code and cancel_requested_at.  Each operation is the other half of *)
(* the one on the columns of Ledger.                                       *)
(***************************************************************************)
EXTENDS Ledger

CONSTANTS
    Pids,                  \* process ids, which are process-group ids (setsid)
    ExitCodes,             \* what a script may exit with; 0 is success
    SIGNALLED,             \* Popen's negative returncode for a signal death
    CANCEL_GRACE_S         \* in scheduler cycles

ASSUME DatabaseAssumption ==
    /\ IsFiniteSet(Pids) /\ NULL \notin Pids
    /\ ExitCodes \subseteq Nat /\ 0 \in ExitCodes
    /\ SIGNALLED \in Int \ Nat
    /\ CANCEL_GRACE_S \in Nat

VARIABLES
    pid,                   \* [Jobs -> pid of its process group, or NULL]
    exit_code,             \* [Jobs -> exit code, or NULL]
    cancel_requested_at    \* [Jobs -> cycles since the request (saturating),
                           \*          or NULL]

rowVars == <<pid, exit_code, cancel_requested_at>>

Codes == ExitCodes \cup {SIGNALLED}

RowTypeOK ==
    /\ pid \in [Jobs -> Pids \cup {NULL}]
    /\ exit_code \in [Jobs -> Codes \cup {NULL}]
    /\ cancel_requested_at \in [Jobs -> 0..(CANCEL_GRACE_S + 1) \cup {NULL}]

RowInit ==
    /\ pid = [j \in Jobs |-> NULL]
    /\ exit_code = [j \in Jobs |-> NULL]
    /\ cancel_requested_at = [j \in Jobs |-> NULL]

-----------------------------------------------------------------------------
\* mark_running clears no cancel request.
SetPid(j, p) ==
    /\ pid' = [pid EXCEPT ![j] = p]
    /\ UNCHANGED <<exit_code, cancel_requested_at>>

\* mark_finished keeps pid and cancel_requested_at.
SetExitCode(j, code) ==
    /\ exit_code' = [exit_code EXCEPT ![j] = code]
    /\ UNCHANGED <<pid, cancel_requested_at>>

MarkCancelRequested_Deadline(j) ==
    /\ cancel_requested_at' = [cancel_requested_at EXCEPT ![j] = CANCEL_GRACE_S + 2]
    /\ UNCHANGED <<pid, exit_code>>

\* mark_cancel_requested stamps the request again when there is one already.
MarkCancelRequested(j) ==
    /\ cancel_requested_at' = [cancel_requested_at EXCEPT ![j] = 0]
    /\ UNCHANGED <<pid, exit_code>>

ClearRun_KeepsCancel(j) ==
    /\ pid' = [pid EXCEPT ![j] = NULL]
    /\ exit_code' = [exit_code EXCEPT ![j] = NULL]
    /\ UNCHANGED cancel_requested_at

\* requeue
ClearRun(j) ==
    /\ pid' = [pid EXCEPT ![j] = NULL]
    /\ exit_code' = [exit_code EXCEPT ![j] = NULL]
    /\ cancel_requested_at' = [cancel_requested_at EXCEPT ![j] = NULL]

\* The clock moves on by one cycle.
AgeRequests ==
    /\ cancel_requested_at' =
         [j \in Jobs |->
            IF /\ state[j] = "RUNNING"
               /\ cancel_requested_at[j] # NULL
               /\ cancel_requested_at[j] <= CANCEL_GRACE_S
            THEN cancel_requested_at[j] + 1 ELSE cancel_requested_at[j]]
    /\ UNCHANGED <<pid, exit_code>>
=============================================================================
