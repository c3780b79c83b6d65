------------------------------- MODULE JobLog -------------------------------
(***************************************************************************)
(* A job's log and how it is read: the file that the job's runs append to  *)
(* (runner.py), and the log endpoint of the HTTP API (api.py), which reads *)
(* the row first and the file after it.                                    *)
(*                                                                         *)
(* The file is append-only, so its bytes are their own positions: it is    *)
(* the sequence 1, 2, ..., written.  A byte here stands for a block of     *)
(* output.  Clients ask for what comes after an offset; a request is       *)
(* answered in two steps or refused, and the rows move as in Ledger.       *)
(***************************************************************************)
EXTENDS Ledger

CONSTANTS
    watched,           \* the job whose log is read
    Clients,           \* who may have a request under way
    MAX_LOG_CHUNK,
    MaxWritten,        \* bound: the length the log may reach
    MaxRefusals,       \* bound: requests that fail
    Endings            \* bound: the final states a run may get

\* data = NULL until the request is answered.
Request == [offset : Nat, state : States \cup {NULL}, named : BOOLEAN,
            data : Seq(Nat) \cup {NULL}]

ASSUME JobLogAssumption ==
    /\ watched \in Jobs
    /\ MAX_LOG_CHUNK \in Nat \ {0}
    /\ MaxWritten \in Nat /\ MaxRefusals \in Nat
    /\ Endings \subseteq FINAL_STATES
    /\ NULL \notin Request /\ NULL # <<>>

VARIABLES
    written,           \* the length of <id>.log
    log_path,          \* whether the row names the file
    requests,          \* [Clients -> request under way, or NULL]
    refusals

fileVars == <<ledgerVars, written, log_path>>
jobLogVars == <<fileVars, requests, refusals>>

JobLogInit ==
    /\ LedgerInit
    /\ written = 0
    /\ log_path = FALSE
    /\ requests = [c \in Clients |-> NULL]
    /\ refusals = 0

Over == state[watched] \in FINAL_STATES

\* A row that never ran names no file: the header of a failed launch stays unread.
Readable == IF log_path THEN written ELSE 0

\* Bytes a+1 to b of the log.
Bytes(a, b) == [i \in 1..(b - a) |-> a + i]

-----------------------------------------------------------------------------
(* The daemon and the job. *)

RowInserted == AddJob(watched) /\ UNCHANGED <<written, log_path>>

\* launch() writes a header while the row is still QUEUED; then the job writes.
Output ==
    /\ state[watched] \in {"QUEUED", "RUNNING"}
    /\ written < MaxWritten
    /\ written' = written + 1
    /\ UNCHANGED <<ledgerVars, log_path>>

\* mark_running is what puts the name of the file into the row (its GPUs are left out).
RunBegins ==
    /\ state[watched] = "QUEUED"
    /\ AssignGpus(watched, NULL)
    /\ log_path' = TRUE
    /\ UNCHANGED written

RunEnds ==
    /\ state[watched] \in {"QUEUED", "RUNNING"}
    /\ \E s \in Endings : CloseRow(watched, s)
    /\ UNCHANGED <<written, log_path>>

\* requeue keeps log_path: the next run appends to the same file.
RunAgain ==
    /\ Over
    /\ ReopenRow(watched)
    /\ UNCHANGED <<written, log_path>>

JobMoves ==
    /\ RowInserted \/ Output \/ RunBegins \/ RunEnds \/ RunAgain
    /\ UNCHANGED <<requests, refusals>>

-----------------------------------------------------------------------------
(* GET /api/jobs/<id>/logs?offset=N. *)

AskingFor(offset) == [offset |-> offset, state |-> NULL, named |-> FALSE, data |-> NULL]

ReadRow(c) ==
    /\ requests[c] # NULL /\ requests[c].state = NULL
    /\ state[watched] # NULL
    /\ requests' = [requests EXCEPT ![c].state = state[watched], ![c].named = log_path]
    /\ UNCHANGED <<fileVars, refusals>>

\* At most MAX_LOG_CHUNK bytes; none without a file or from its end on.
ReadFile(c) ==
    /\ requests[c] # NULL /\ requests[c].state # NULL /\ requests[c].data = NULL
    /\ LET from == requests[c].offset
           upto == IF ~requests[c].named \/ from >= written THEN from
                   ELSE IF written <= from + MAX_LOG_CHUNK THEN written
                   ELSE from + MAX_LOG_CHUNK
       IN requests' = [requests EXCEPT ![c].data = Bytes(from, upto)]
    /\ UNCHANGED <<fileVars, refusals>>

Answered(c) == requests[c] # NULL /\ requests[c].data # NULL
NextOffset(c) == requests[c].offset + Len(requests[c].data)

\* The daemon is not there, or the connection breaks: an error for the client.
Refused(c) ==
    /\ requests[c] # NULL
    /\ refusals < MaxRefusals
    /\ refusals' = refusals + 1

Serve(c) == ReadRow(c) \/ ReadFile(c)
=============================================================================
