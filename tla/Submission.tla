----------------------------- MODULE Submission -----------------------------
(***************************************************************************)
(* `gq submit' from the command line to the row: cmd_submit in cli.py,     *)
(* _submit in api.py and the checks of Daemon.submit.  One command, whose  *)
(* connection may break before or after the row is there.                  *)
(***************************************************************************)
EXTENDS Ledger, JobScript

CONSTANTS
    Args,              \* the options that may be given: [gpus, vram, saw_dashdash]
    Scripts,           \* what the file of the command may contain
    Directories,       \* the texts that name a directory
    cwd,               \* the working directory, one of them
    mem_total_mb       \* [Gpus -> MiB], of last_gpu_snapshot

Texts == [number : Int, unit : STRING]
Lines == [kind : {"blank", "comment", "directive", "body"},
          pairs : Seq([key : STRING, value : Texts])]

ASSUME SubmissionAssumption ==
    /\ Args \subseteq [gpus : Int \cup {NULL}, vram : Texts \cup {NULL},
                       saw_dashdash : BOOLEAN]
    /\ Scripts \subseteq Seq(Lines)
    /\ NULL \notin Texts
    /\ cwd \in Directories
    /\ mem_total_mb \in [Gpus -> Nat]

VARIABLES
    args, script,
    request,           \* the body of the POST, or NULL
    row,               \* the request as it is in the table, or NULL
    outcome            \* of the command: "running", "submitted" or "error"

submissionVars == <<args, script, request, row, outcome>>

SubmissionInit ==
    /\ args \in Args
    /\ script \in Scripts
    /\ request = NULL
    /\ row = NULL
    /\ outcome = "running"

-----------------------------------------------------------------------------
(* cmd_submit.  A leading `--' makes the file an ordinary command. *)

Directives == ParseDirectives(script)
Given(key) == ~args.saw_dashdash /\ key \in DOMAIN Directives.out

Vram ==
    IF args.vram # NULL THEN args.vram
    ELSE IF Given("vram") THEN Directives.out["vram"] ELSE NULL

GpuCount ==
    IF args.gpus # NULL THEN args.gpus
    ELSE IF Given("gpus") THEN Directives.out["gpus"].number ELSE 1

Workdir == IF Given("workdir") THEN Directives.out["workdir"] ELSE cwd

Legible ==
    /\ ~args.saw_dashdash => ~Directives.failed
    /\ Vram # NULL => ParsesAsSize(Vram)

Post ==
    /\ outcome = "running" /\ request = NULL
    /\ Legible
    /\ request' = [gpus |-> GpuCount, workdir |-> Workdir,
                   vram_mb |-> IF Vram = NULL THEN NULL ELSE Mebibytes(Vram)]
    /\ UNCHANGED <<args, script, row, outcome>>

\* CliError: the script or the size is not legible, ...
Illegible ==
    /\ outcome = "running" /\ request = NULL
    /\ ~Legible
    /\ outcome' = "error"
    /\ UNCHANGED <<args, script, request, row>>

\* ... or the connection fails or times out, maybe after the daemon has done its part,
\* maybe before: it does it all the same.
Unanswered ==
    /\ outcome = "running" /\ request # NULL
    /\ outcome' = "error"
    /\ UNCHANGED <<args, script, request, row>>

-----------------------------------------------------------------------------
(* Daemon.submit. *)

Passes(r) ==
    /\ r.vram_mb # NULL => r.gpus <= 1 /\ \E g \in Gpus : r.vram_mb <= mem_total_mb[g]
    /\ r.gpus >= 0 /\ r.gpus <= Cardinality(Gpus)
    /\ r.workdir \in Directories

InsertRow ==
    /\ request # NULL /\ row = NULL
    /\ Passes(request)
    /\ row' = request
    /\ UNCHANGED <<args, script, request, outcome>>

\* The answer is 201 with the row or 400 with what is wrong.
Answer ==
    /\ outcome = "running" /\ request # NULL
    /\ row # NULL \/ ~Passes(request)
    /\ outcome' = IF row # NULL THEN "submitted" ELSE "error"
    /\ UNCHANGED <<args, script, request, row>>

SubmissionNext == Post \/ Illegible \/ Unanswered \/ InsertRow \/ Answer

SubmissionSpec == SubmissionInit /\ [][SubmissionNext]_submissionVars

-----------------------------------------------------------------------------
(* Properties. *)

\* jobscript.py:10-12: the header of a script is what is above its first line
\* that is neither blank nor a comment.
InHeader(i) == \A k \in 1..i : script[k].kind # "body"

\* The places <<line, pair>> where the header sets the key, and the last of them.
Places(key) ==
    {p \in UNION {{i} \X DOMAIN script[i].pairs : i \in DOMAIN script} :
        /\ InHeader(p[1]) /\ script[p[1]].kind = "directive"
        /\ script[p[1]].pairs[p[2]].key = key}

LastPlace(key) ==
    CHOOSE p \in Places(key) :
        \A q \in Places(key) : q[1] < p[1] \/ (q[1] = p[1] /\ q[2] <= p[2])

\* What the user has set: an option goes before the script, the last directive
\* before the others, and directives below the header count for nothing.
Meant(key, option, default) ==
    IF option # NULL THEN option
    ELSE IF args.saw_dashdash \/ Places(key) = {} THEN default
    ELSE LET p == LastPlace(key) IN script[p[1]].pairs[p[2]].value

\* A job asks for what the user has set by options and directives (its size in
\* MiB), and a header with a line that is no directive has no job.
RequestMeansTheScript ==
    request # NULL =>
        /\ request.workdir = Meant("workdir", NULL, cwd)
        /\ LET gpus == Meant("gpus", NULL, [number |-> 1, unit |-> ""])
           IN request.gpus = IF args.gpus # NULL THEN args.gpus ELSE gpus.number
        /\ LET size == Meant("vram", args.vram, NULL)
           IN IF size = NULL THEN request.vram_mb = NULL
              ELSE request.vram_mb = Mebibytes(size)
        /\ args.saw_dashdash \/ \A i \in DOMAIN script :
              InHeader(i) /\ script[i].kind = "directive" => WellFormed(script[i].pairs)

\* What gq puts into the table is what the scheduler takes a request to be: GPUs
\* of this machine, and for a share job one card at most and a budget that is
\* positive and no more than the largest card (tests/test_jobscript.py:80 "A zero
\* budget would let a job onto every GPU forever").
RowsAreSane ==
    row # NULL =>
        /\ row.gpus \in 0..Cardinality(Gpus)
        /\ row.vram_mb # NULL =>
              /\ row.gpus <= 1
              /\ row.vram_mb \in Nat \ {0}
              /\ \E g \in Gpus : row.vram_mb <= mem_total_mb[g]
=============================================================================
