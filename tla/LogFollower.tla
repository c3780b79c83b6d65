---------------------------- MODULE LogFollower ----------------------------
(***************************************************************************)
(* `gq logs <id>' and `gq logs <id> -f' (cli.py, cmd_logs) as a client of  *)
(* the log endpoint: one request at a time, each at the offset the answer  *)
(* before named, until the log is drained.                                 *)
(***************************************************************************)
EXTENDS JobLog

CONSTANT gq                \* the command, as a client

ASSUME FollowerAssumption == gq \in Clients

VARIABLES
    follow,                \* the -f flag
    command,               \* "working", "returned" or "error"
    offset,
    printed,               \* what it has written to stdout
    due                    \* what there was to read when the row of the
                           \* request under way was read (history)

followerVars == <<follow, command, offset, printed, due>>

FollowerInit ==
    /\ follow \in BOOLEAN
    /\ command = "working"
    /\ offset = 0
    /\ printed = <<>>
    /\ due = 0

-----------------------------------------------------------------------------
\* time.sleep(1) lies between two requests; anything may happen there anyway.
Ask ==
    /\ command = "working"
    /\ requests[gq] = NULL
    /\ state[watched] # NULL
    /\ requests' = [requests EXCEPT ![gq] = AskingFor(offset)]
    /\ UNCHANGED <<fileVars, refusals, followerVars>>

Served ==
    /\ Serve(gq)
    /\ due' = IF requests[gq].state = NULL THEN Readable ELSE due
    /\ UNCHANGED <<follow, command, offset, printed>>

Finished_Undrained(q) ==
    IF follow THEN q.state \notin {"QUEUED", "RUNNING"} ELSE q.data = <<>>

Finished_OnlyDone(q) ==
    /\ q.data = <<>>
    /\ follow => q.state = "DONE"

\* Without -f the command returns once it has caught up; with -f the job has to
\* be over too.
Finished(q) ==
    /\ q.data = <<>>
    /\ follow => q.state \notin {"QUEUED", "RUNNING"}

Writes ==
    /\ Answered(gq)
    /\ printed' = printed \o requests[gq].data
    /\ offset' = NextOffset(gq)
    /\ command' = IF Finished(requests[gq]) THEN "returned" ELSE "working"
    /\ requests' = [requests EXCEPT ![gq] = NULL]
    /\ UNCHANGED <<fileVars, refusals, follow, due>>

\* CliError.
GiveUp ==
    /\ Refused(gq)
    /\ command' = "error"
    /\ requests' = [requests EXCEPT ![gq] = NULL]
    /\ UNCHANGED <<fileVars, follow, offset, printed, due>>

FollowerSteps == Ask \/ Served \/ Writes

FollowerNext == FollowerSteps \/ GiveUp \/ (JobMoves /\ UNCHANGED followerVars)

FollowerSpec ==
    JobLogInit /\ FollowerInit /\ [][FollowerNext]_<<jobLogVars, followerVars>>

-----------------------------------------------------------------------------
\* cli.py:200 "job over and log drained": what the command has printed is the
\* log from its beginning, without a gap or a repetition; when it returns from
\* a job it saw over, that is all there was to read.
FollowPrintsItAll ==
    [][/\ printed' = Bytes(0, Len(printed'))
       /\ (follow /\ command = "working" /\ command' = "returned")
             => Len(printed') >= due]_followerVars

\* gq logs -f ends when the job stays over.
FollowEnds == <>[]Over => <>(command # "working")
=============================================================================
