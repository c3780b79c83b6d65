------------------------------- MODULE Ledger -------------------------------
(***************************************************************************)
(* The part of gpu_queue/db.py that scheduling depends on: the columns     *)
(* state, gpu_ids and submitted_at of the jobs table.                      *)
(*                                                                         *)
(* A row's request (gpus_requested, vram_mb) is written by the INSERT and  *)
(* by no UPDATE, so it is a constant of the job.  submitted_at is only     *)
(* ever compared (ORDER BY submitted_at, id), so the QUEUED rows are kept  *)
(* as the sequence `queue' in that order: an INSERT and a requeue take the *)
(* current time, which puts the row last.                                  *)
(***************************************************************************)
EXTENDS Integers, FiniteSets, SequencesExt

CONSTANTS
    Jobs,              \* row ids
    Gpus,              \* GPU indices of this machine
    NULL,              \* SQL NULL, Python's None
    gpus_requested,    \* [Jobs -> Nat]
    vram_mb            \* [Jobs -> Nat \cup {NULL}]: NULL is an exclusive job

FINAL_STATES == {"DONE", "FAILED", "CANCELLED"}
States == {"QUEUED", "RUNNING"} \cup FINAL_STATES

ASSUME LedgerAssumption ==
    /\ IsFiniteSet(Jobs)
    /\ IsFiniteSet(Gpus) /\ Gpus \subseteq Nat
    /\ NULL \notin States /\ NULL \notin Int
    /\ \A G \in SUBSET Gpus : G # NULL
    /\ gpus_requested \in [Jobs -> Nat]
    /\ vram_mb \in [Jobs -> Nat \cup {NULL}]

VARIABLES
    state,             \* [Jobs -> job state, or NULL before the INSERT]
    gpu_ids,           \* [Jobs -> GPUs assigned, or NULL]
    queue              \* the QUEUED rows ORDER BY submitted_at, id

ledgerVars == <<state, gpu_ids, queue>>

LedgerTypeOK ==
    /\ state \in [Jobs -> States \cup {NULL}]
    /\ gpu_ids \in [Jobs -> (SUBSET Gpus) \cup {NULL}]
    /\ queue \in Seq(Jobs)

LedgerInit ==
    /\ state = [j \in Jobs |-> NULL]
    /\ gpu_ids = [j \in Jobs |-> NULL]
    /\ queue = <<>>

-----------------------------------------------------------------------------
Exclusive(j) == vram_mb[j] = NULL

\* assigned_gpus(): the RUNNING jobs that hold GPU g.
Tenants(g) == {j \in Jobs : /\ state[j] = "RUNNING"
                            /\ gpu_ids[j] # NULL
                            /\ g \in gpu_ids[j]}

\* Seeded faults.  A definition named <Definition>_<fault> is a wrong version
\* of the definition after it that some property must reject; nothing uses it.
AddJob_WrongState(j) ==
    /\ state[j] = NULL
    /\ state' = [state EXCEPT ![j] = "PENDING"]
    /\ queue' = Append(queue, j)
    /\ UNCHANGED gpu_ids

\* add_job: a new row, QUEUED behind every other.
AddJob(j) ==
    /\ state[j] = NULL
    /\ state' = [state EXCEPT ![j] = "QUEUED"]
    /\ queue' = Append(queue, j)
    /\ UNCHANGED gpu_ids

\* mark_running: the row leaves the queue with its GPUs.
AssignGpus(j, G) ==
    /\ state' = [state EXCEPT ![j] = "RUNNING"]
    /\ gpu_ids' = [gpu_ids EXCEPT ![j] = G]
    /\ queue' = RemoveFirst(queue, j)

\* mark_finished: gpu_ids keeps its value; only RUNNING rows are in the ledger.
CloseRow(j, s) ==
    /\ s \in FINAL_STATES
    /\ state' = [state EXCEPT ![j] = s]
    /\ queue' = RemoveFirst(queue, j)
    /\ UNCHANGED gpu_ids

\* requeue: same id, fresh submitted_at, so it goes to the back.
ReopenRow(j) ==
    /\ state' = [state EXCEPT ![j] = "QUEUED"]
    /\ gpu_ids' = [gpu_ids EXCEPT ![j] = NULL]
    /\ queue' = Append(queue, j)
=============================================================================
