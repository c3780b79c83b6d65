------------------------------ MODULE MCClients ------------------------------
(***************************************************************************)
(* Instances for TLC of the clients: a behaviour is one client's, chosen   *)
(* by the initial state, next to the job table it reads.                   *)
(***************************************************************************)
EXTENDS LogFollower, LogTailer, Notifier, Submission

CONSTANTS refresh, again, f1, f2

VARIABLE client

readerVars == <<written, log_path, requests, refusals, followerVars, tailerVars>>
pollerVars == <<clientVars, completions>>
clientsVars == <<ledgerVars, readerVars, pollerVars, submissionVars, client>>

AnyRequest == [j \in Jobs |-> 0]
NoBudget == [j \in Jobs |-> NULL]

\* Two cards, and texts on both sides of every limit that submit knows.
CardTotals == [g \in Gpus |-> 1024 * (g + 1)]
Text(n, u) == [number |-> n, unit |-> u]
Home == Text(0, "/home")
Dirs == {Home, Text(0, "/data")}

ArgsTried == [gpus : {NULL, -1, 0, 2, 3},
              vram : {NULL, Text(0, "m"), Text(2048, "mb"), Text(1, "tb"), Text(3, "g")},
              saw_dashdash : BOOLEAN]

Plain(k) == [kind |-> k, pairs |-> <<>>]
Line(pairs) == [kind |-> "directive", pairs |-> pairs]
KV(k, v) == [key |-> k, value |-> v]
LinesTried ==
    {Plain("comment"), Plain("body"), Line(<<KV("gpus", Text(2, "")), KV("gpus", Text(0, "two"))>>),
     Line(<<KV("gpus", Text(0, "")), KV("workdir", Text(0, "/data"))>>),
     Line(<<KV("vram", Text(2, "gib"))>>), Line(<<KV("vram", Text(0, ""))>>),
     Line(<<KV("workdir", Text(0, "/none"))>>), Line(<<KV("mem", Text(1, "g"))>>)}
ScriptsTried == SeqOf(LinesTried, 2) \cup {<<Plain("blank")>>, <<Line(<<>>)>>}

NoFollower == follow = FALSE /\ command = "returned" /\ offset = 0 /\ printed = <<>> /\ due = 0
NoSubmission == /\ args = [gpus |-> NULL, vram |-> NULL, saw_dashdash |-> TRUE]
                /\ script = <<>> /\ request = NULL /\ row = NULL /\ outcome = "error"

\* Two instances of the extension: two jobs, the newer never cancelled, and one refresh
\* at a time that is never refused; or one job, refreshes that overlap, refusals and
\* reloads.
Watchers == {"one refresh", "one job"}

ClientsInit ==
    /\ client \in {"follower", "tailer", "submitter"} \cup Watchers
    /\ JobLogInit /\ TailerInit /\ NotifierInit
    /\ IF client = "follower" THEN FollowerInit ELSE NoFollower
    /\ IF client = "submitter" THEN SubmissionInit ELSE NoSubmission

Only(c, others) == client = c /\ UNCHANGED <<others, client>>
Follower == Only("follower", <<tailerVars, pollerVars, submissionVars>>)
Tailer == Only("tailer", <<followerVars, pollerVars, submissionVars>>)
Watcher(Step) ==
    /\ Step
    /\ \/ /\ Only("one refresh", <<readerVars, submissionVars>>)
          /\ polls'[again] = NULL /\ setbacks' = 0 /\ state'[2] # "CANCELLED"
       \/ Only("one job", <<readerVars, submissionVars>>) /\ state'[2] = NULL
Submitter == Only("submitter", <<ledgerVars, readerVars, pollerVars>>)

ClientsNext ==
    \/ Follower /\ FollowerNext
    \/ Tailer /\ TailerNext
    \/ Watcher(NotifierNext)
    \/ Submitter /\ SubmissionNext

ClientsSpec == ClientsInit /\ [][ClientsNext]_clientsVars

FairClientsSpec ==
    /\ ClientsSpec
    /\ WF_clientsVars(Follower /\ FollowerSteps)
    /\ \A f \in Fetches : WF_clientsVars(Tailer /\ FetchSteps(f))
    /\ WF_clientsVars(Tailer /\ Refreshed)
    /\ \A p \in Polls : WF_clientsVars(Watcher(PollSteps(p)))

\* Notifier's ViewCatchesUp, of the behaviours that are the extension's: the job list
\* it remembers catches up with the rows.
JobListCatchesUp == client \in Watchers => ViewCatchesUp
=============================================================================
