------------------------------ MODULE Notifier ------------------------------
(***************************************************************************)
(* extension/src/extension.ts: the polls of the VSCode extension (refresh, *)
(* dedupe) and CompletionNotifier, as a client of the job table.  What the *)
(* daemon does to the rows is the operations of Ledger, in the orders that *)
(* Dispatch has them.                                                      *)
(*                                                                         *)
(* refresh() asks for the active and for the finished jobs at once.  The   *)
(* daemon answers each request when it gets to it, so the two lists are of *)
(* different moments; observe() runs when both are there.  The timer does  *)
(* not wait for the refresh before, nor do commands and settings: `Polls'  *)
(* is how many may be under way.                                           *)
(* The third request, api.gpus(), adds delay and failure only, which are   *)
(* here already; notifyOnCompletion is on.                                 *)
(***************************************************************************)
EXTENDS Ledger

CONSTANTS
    Polls,             \* bound: the refreshes that may be under way at once
    finishedLimit,
    MaxCompletions,    \* bound: how often one row may become DONE or FAILED
    Outcomes,          \* bound: the final states a row may get
    MaxSetbacks,       \* bound: refused refreshes and window reloads
    MaxBelated         \* bound: refreshes begin next to others while fewer
                       \*        belated ones were observed

ASSUME NotifierAssumption ==
    /\ Jobs \subseteq Nat
    /\ finishedLimit \in Nat \ {0}
    /\ MaxCompletions \in Nat /\ MaxSetbacks \in Nat /\ MaxBelated \in Nat
    /\ Outcomes \subseteq FINAL_STATES

VARIABLES
    polls,             \* [Polls -> the answers a refresh has so far, or NULL]
    lastState,         \* [Jobs -> state last observed, or NULL]
    setbacks,
    completions,       \* [Jobs -> times the row became DONE or FAILED]
    announced,         \* [Jobs -> notifications shown]
    overtaken,         \* the refreshes under way during which another was observed
    belated            \* how many of these have been observed themselves

historyVars == <<overtaken, belated>>
clientVars == <<polls, lastState, setbacks, announced, historyVars>>
notifierVars == <<ledgerVars, clientVars, completions>>

\* A list of jobs as a function: their states, NULL for a job not in it.
Listings == [Jobs -> States \cup {NULL}]
Poll == [active : Listings \cup {NULL}, finished : Listings \cup {NULL}]

\* Types, and the bounds of the counters.
NotifierTypeOK ==
    /\ LedgerTypeOK
    /\ polls \in [Polls -> Poll \cup {NULL}]
    /\ lastState \in Listings
    /\ setbacks \in 0..MaxSetbacks
    /\ completions \in [Jobs -> 0..MaxCompletions]
    /\ announced \in [Jobs -> Nat]
    /\ overtaken \in SUBSET Polls
    /\ belated \in Nat

NotifierInit ==
    /\ LedgerInit
    /\ polls = [p \in Polls |-> NULL]
    /\ lastState = [j \in Jobs |-> NULL]
    /\ setbacks = 0
    /\ completions = [j \in Jobs |-> 0]
    /\ announced = [j \in Jobs |-> 0]
    /\ overtaken = {}
    /\ belated = 0

-----------------------------------------------------------------------------
(* The daemon's side. *)

Completed == {"DONE", "FAILED"}

\* AUTOINCREMENT: row ids are given in order.
RowAdded(j) ==
    /\ \A k \in Jobs : k < j => state[k] # NULL
    /\ AddJob(j)
    /\ UNCHANGED completions

\* Which GPUs it gets is left out.
RowStarts(j) ==
    /\ state[j] = "QUEUED"
    /\ AssignGpus(j, NULL)
    /\ UNCHANGED completions

\* A RUNNING row ends; a QUEUED one is cancelled or fails to launch.
RowEnds(j, s) ==
    /\ state[j] \in {"QUEUED", "RUNNING"}
    /\ state[j] = "QUEUED" => s # "DONE"
    /\ CloseRow(j, s)
    /\ IF s \in Completed
       THEN /\ completions[j] < MaxCompletions
            /\ completions' = [completions EXCEPT ![j] = @ + 1]
       ELSE UNCHANGED completions

RowRequeued(j) ==
    /\ state[j] \in FINAL_STATES
    /\ ReopenRow(j)
    /\ UNCHANGED completions

RowChanges ==
    /\ \E j \in Jobs : \/ RowAdded(j) \/ RowStarts(j) \/ RowRequeued(j)
                       \/ \E s \in Outcomes : RowEnds(j, s)
    /\ UNCHANGED clientVars

-----------------------------------------------------------------------------
(* The extension. *)

UnderWay == {p \in Polls : polls[p] # NULL}

RefreshBegins(p) ==
    /\ polls[p] = NULL
    /\ UnderWay # {} => belated < MaxBelated
    /\ polls' = [polls EXCEPT ![p] = [active |-> NULL, finished |-> NULL]]
    /\ UNCHANGED <<ledgerVars, lastState, setbacks, completions, announced, historyVars>>

Listed(S) == [j \in Jobs |-> IF j \in S THEN state[j] ELSE NULL]

\* list_jobs: newest first, at most limit of them.
Newest(S, limit) == {j \in S : Cardinality({k \in S : k > j}) < limit}

AnswerActive(p) ==
    /\ polls[p] # NULL /\ polls[p].active = NULL
    /\ polls' = [polls EXCEPT ![p].active =
                   Listed({j \in Jobs : state[j] \in {"QUEUED", "RUNNING"}})]
    /\ UNCHANGED <<ledgerVars, lastState, setbacks, completions, announced, historyVars>>

AnswerFinished(p) ==
    /\ polls[p] # NULL /\ polls[p].finished = NULL
    /\ polls' = [polls EXCEPT ![p].finished =
                   Listed(Newest({j \in Jobs : state[j] \in FINAL_STATES}, finishedLimit))]
    /\ UNCHANGED <<ledgerVars, lastState, setbacks, completions, announced, historyVars>>

\* A request is refused: the view goes offline, the notifier learns nothing.
RefreshFails(p) ==
    /\ polls[p] # NULL
    /\ setbacks < MaxSetbacks
    /\ setbacks' = setbacks + 1
    /\ polls' = [polls EXCEPT ![p] = NULL]
    /\ overtaken' = overtaken \ {p}
    /\ UNCHANGED <<ledgerVars, lastState, completions, announced, belated>>

\* dedupe([...active, ...finished]): of a job in both lists the finished one.
Dedupe(poll) ==
    [j \in Jobs |-> IF poll.finished[j] # NULL THEN poll.finished[j] ELSE poll.active[j]]

Announces(j, jobs) == lastState[j] = "RUNNING" /\ jobs[j] \in Completed

\* The refresh is over, and has overtaken those that are still under way.
Ends(p) ==
    /\ polls' = [polls EXCEPT ![p] = NULL]
    /\ overtaken' = (overtaken \cup UnderWay) \ {p}
    /\ belated' = belated + IF p \in overtaken THEN 1 ELSE 0

\* Seeded faults: see Ledger.
Observe_Forgets(p) ==
    /\ polls[p] # NULL /\ polls[p].active # NULL /\ polls[p].finished # NULL
    /\ LET jobs == Dedupe(polls[p]) IN
         /\ lastState' = [j \in Jobs |-> IF Announces(j, jobs) THEN lastState[j] ELSE jobs[j]]
         /\ announced' = [j \in Jobs |-> announced[j]
                                         + IF Announces(j, jobs) THEN 1 ELSE 0]
    /\ Ends(p)
    /\ UNCHANGED <<ledgerVars, setbacks, completions>>

Observe_Hoards(p) ==
    /\ polls[p] # NULL /\ polls[p].active # NULL /\ polls[p].finished # NULL
    /\ LET jobs == Dedupe(polls[p]) IN
         /\ lastState' = [j \in Jobs |-> IF jobs[j] = NULL THEN lastState[j] ELSE jobs[j]]
         /\ announced' = [j \in Jobs |-> announced[j]
                                         + IF Announces(j, jobs) THEN 1 ELSE 0]
    /\ Ends(p)
    /\ UNCHANGED <<ledgerVars, setbacks, completions>>

\* observe(): tell of the jobs seen RUNNING that are over, remember what is
\* seen now and forget what is not.
Observe(p) ==
    /\ polls[p] # NULL /\ polls[p].active # NULL /\ polls[p].finished # NULL
    /\ LET jobs == Dedupe(polls[p]) IN
         /\ lastState' = jobs
         /\ announced' = [j \in Jobs |-> announced[j]
                                         + IF Announces(j, jobs) THEN 1 ELSE 0]
    /\ Ends(p)
    /\ UNCHANGED <<ledgerVars, setbacks, completions>>

\* The window is reloaded.
Reload ==
    /\ setbacks < MaxSetbacks
    /\ setbacks' = setbacks + 1
    /\ polls' = [p \in Polls |-> NULL]
    /\ lastState' = [j \in Jobs |-> NULL]
    /\ overtaken' = {}
    /\ UNCHANGED <<ledgerVars, completions, announced, belated>>

-----------------------------------------------------------------------------
PollSteps(p) ==
    RefreshBegins(p) \/ AnswerActive(p) \/ AnswerFinished(p) \/ Observe(p)

NotifierNext ==
    \/ RowChanges
    \/ \E p \in Polls : PollSteps(p) \/ RefreshFails(p)
    \/ Reload

NotifierSpec == NotifierInit /\ [][NotifierNext]_notifierVars

(***************************************************************************)
(* Fairness.  setInterval goes on, and the daemon answers but for          *)
(* MaxSetbacks times.  Nothing is assumed of the rows.                     *)
(***************************************************************************)
FairNotifierSpec ==
    NotifierSpec /\ \A p \in Polls : WF_notifierVars(PollSteps(p))

-----------------------------------------------------------------------------
\* extension.ts:81-89,126-143: CompletionNotifier shows one notification at most for each
\* time a job gets DONE or FAILED, however often it is requeued and however old the
\* lists of a refresh are; but each refresh that another has overtaken can make it
\* show one more, because it brings older lists after newer ones.
OncePerCompletion == \A j \in Jobs : announced[j] <= completions[j] + belated

\* What observe() remembers of a job catches up with its row: when the row stays as
\* it is, its state is remembered, or nothing of a finished job that the window of
\* finishedLimit jobs has passed.
ViewCatchesUp ==
    \A j \in Jobs :
        <>[][state'[j] = state[j]]_notifierVars
            => <>[](\/ lastState[j] = state[j]
                    \/ state[j] \in FINAL_STATES /\ lastState[j] = NULL)

\* extension.ts:117: "Fires a notification when a job we saw RUNNING/QUEUED
\* reaches a final state."  Of the jobs seen RUNNING that are DONE or FAILED: an
\* observe() tells of them or, if its lists are too old, keeps them in mind.
SeenRunsAreAnnounced ==
    [][\A p \in Polls, j \in Jobs :
         Observe(p) /\ lastState[j] = "RUNNING" /\ state[j] \in Completed
             => announced'[j] > announced[j] \/ lastState'[j] = "RUNNING"]_notifierVars
=============================================================================
