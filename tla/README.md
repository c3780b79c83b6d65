# gpu-queue, verified

TLA+ models of [gpu-queue](../src/README.md), a single-machine job queue for
shared GPUs: what it decides (the scheduler), what it remembers (the job table),
what it supervises (process groups) and how its clients see it (the command line
and the VSCode extension), with TLC runs on small instances and TLAPS proofs for
every instance. Paths below are relative to `src/`.

## 1. The system

| Component | State | Operations | Properties that make it correct |
|---|---|---|---|
| Job table, `gpu_queue/db.py` | rows: state, gpu_ids, pid, exit_code, cancel_requested_at, submitted_at | add_job, mark_running, mark_finished, mark_cancel_requested, requeue, jobs_in_state, assigned_gpus | rows of a former run do not leak into the next; the RUNNING rows are the GPU ledger |
| Scheduler, `gpu_queue/scheduler.py` | `_head_blocked_since` | free_gpus, plan, _place, externally_busy, vram_violations | no overcommitment, FIFO but for backfill, starvation guard, other people's cards untouched |
| Daemon, `gpu_queue/daemon.py` | popens, _stragglers_killed, _vram_strikes, _evicted, last snapshot, one lock | submit, cancel, requeue (API threads); cycle = snapshot, _reap, _enforce_vram, _dispatch (loop thread); recover at start | a job is finished when its process group is gone; kills are justified and happen; restarts lose nothing |
| Job processes, `gpu_queue/runner.py` | process groups, exit files | launch, group_alive, kill_tree, read_exit_code; the bash wrapper | exit file before wrapper exit; pgid = pid |
| HTTP API, `gpu_queue/api.py` | none of its own | one thread per request; the log endpoint reads the row, then the file | handlers are serialised with the cycle by `Daemon.lock` |
| GPU status view, `daemon.py:114-161` | none | gpu_status | reads only |
| Command line, `gpu_queue/cli.py` | the options of one command; the offset of `logs` | submit, cancel, requeue, logs, logs -f | the request is what the user meant; logs are printed whole, once, and `-f` ends |
| Job scripts, `gpu_queue/jobscript.py` | none | parse_directives, parse_size | only the header counts, the last directive wins, nothing is guessed |
| Extension: job list, `extension/src/extension.ts` | states seen last | refresh, dedupe, observe | one notification per completion; the view catches up |
| Extension: logs, `extension/src/logs.ts` | one tail per log document, polls under way | open, sweep, poll, provider, listeners | the text is the log from its beginning; an open tab is tailed; it catches up |
| Installer, `install.sh` | | | `KillMode=process`: jobs survive the daemon |

Interaction: API threads and the loop thread share the table and the daemon's
memory under `Daemon.lock`; the daemon and its jobs share process groups
(signals, `killpg(pgid, 0)`, zombies) and exit files; the daemon and the other
users of the machine share GPUs, seen through NVML snapshots that are old when
they are used; CLI and extension poll over HTTP.

Hard behaviours: crash and restart between any two steps (jobs survive, memory
does not); processes that end, ignore SIGTERM, leave children behind, or lose
their pid to a stranger; an exit file that lands between two reads; a snapshot
taken before the reaper ran, or none; row ids used again by requeue; a
long-blocked job among a stream of small ones. `PROJECT.json` lists them all
under `hazards`, each at its line.

## 2. The modules

```
Ledger ─┬─ Scheduler ── Dispatch ─┬─ Grants (implements Allocation)
        │                         └──┬─ Daemon ── Policing
        ├─ Database ─── Runner ──────┘
        ├─ JobLog ─┬─ LogFollower
        │          └─ LogTailer
        ├─ Notifier
        └──┬─ Submission
JobScript ─┘

QueueTheorems ─┬─ SchedulerTheorems ── DispatchProofs ── DaemonProofs ─┬─ PlacementProofs
               │                                                       └─ SupervisionProofs
               └─ ClientProofs ── TailerProofs

MCDispatch, MCDaemon, MCPolicing, MCNotifier, MCClients: instances for TLC
```

* **Ledger** - the half of the table that scheduling depends on: `state`,
  `gpu_ids`, and the QUEUED rows as the sequence `queue` (ORDER BY
  submitted_at, id). `AddJob`, `AssignGpus` (mark_running), `CloseRow`
  (mark_finished), `ReopenRow` (requeue), `Tenants` (assigned_gpus).
* **Scheduler** - `FreeGpus` (free_gpus), `Fits`/`Placement`/`DrawDown`
  (_place), and plan() one job per step: `PlanCall`, `PlanJob` = `PlanPlaces` /
  `PlanBlocksHead` / `PlanPassesOver`, `PlanReturn`. Memory is counted in units
  owned by the job, so that "what a set of jobs reserves" is a cardinality
  (`Reserved`); `MCDispatch` has TLC confirm that it is the sum of `Need`.
* **Dispatch** - the queue as users see it, and the abstract specification of
  the daemon: the API handlers, a cycle (`PlanBegins`, `PlanNextJob`,
  `PlanEnds`, `Launch`/`LaunchFails`, `CycleEnds`), jobs that end at any time,
  `CycleWithoutSnapshot`, `Restart`.
* **Allocation** - what the queue promises of the cards, without how it decides:
  one variable, `held`, and two actions, `Grant` (all of a job's cards at once,
  cards that are free for it) and `Release`. **Grants** maps Dispatch to it: a
  job holds what plan() assigned it, then what its row says; the launch between
  the two is a stutter, a failed launch or a restart a `Release`.
* **Database** - the other half of the table: `pid`, `exit_code`,
  `cancel_requested_at` (an age in cycles).
* **Runner** - launch, signals and liveness tests on a model of the operating
  system: a group is the wrapper (running, zombie, gone) and the rest (alive,
  dying, gone); zombies answer `killpg(pgid, 0)` until they are waited for;
  orphans are collected by init; a pid is free when its group is gone and may
  then be taken by a stranger; `GQ_EXIT_FILE` survives everything. The processes
  of an owner in `OutOfReach`, the wrapper aside, run as another user (a script may
  call sudo) or as root: killpg does nothing to them, and when none of a group is
  left that it may signal it raises PermissionError (`Refused`). The wrapper writes
  the exit file and exits in two steps, which are one here (`ScriptEnds`).
* **Daemon** - daemon.py as it runs. `phase` is where the thread that holds
  the lock stands. Each loop is split where something can happen in between:
  poll, read of the exit file, test of the group; mark_cancel_requested and
  kill_tree; launch and mark_running. A crash may come at any of these points.
  It EXTENDS Dispatch: its actions use those of Dispatch for what they do to
  the queue, and `DispatchSpec` is a property of it. A launch may fail with an
  OSError, which `_dispatch` handles, or raise something else (`SpawnRaises`, for
  the jobs in `Unlaunchable`), which ends the daemon like a crash. So does a signal
  that kill_tree is refused in `_reap` or `_enforce_vram` (`KillRaises`); in cancel()
  it costs the client its answer only (`CancelKill`).
* **Policing** - Daemon with two history variables: who was cancelled by the
  user, and for how many policed cycles in a row a job was over its budget.
* **Notifier** - the polls of the VSCode extension as a client of the table:
  refresh() sends two list requests, which the daemon answers at different
  moments (`AnswerActive`, `AnswerFinished`); `Dedupe` merges the lists and
  `Observe` (CompletionNotifier) compares them with what it saw last. Refreshes may
  overlap, as the timer does not wait: history variables say which of those under
  way have been `overtaken`, as another was observed before them, and how many of
  these were observed in the end (`belated`). The rows
  move by Ledger's operations, in the orders that Dispatch has them. Whether a row is
  given a card does not matter here, so Dispatch itself is left out.

* **JobLog** - the log file of one job, what its runs do to it, and the log
  endpoint. The file only grows, so it is the sequence 1, 2, ..., `written`; a
  request is answered in two steps, `ReadRow` and `ReadFile`, or refused.
* **LogFollower** - `gq logs` and `gq logs -f`: ask, write, stop or go on.
* **LogTailer** - logs.ts for one document: its tab (closed, opening, provided,
  open), its tail, the polls under way, VS Code's questions and events. Tabs are
  closed and reopened by either way at any time; a poll whose tail was swept goes
  on as an `orphan` whose only trace is its event.
* **JobScript** - parse_directives, a fold over the lines of a script, and
  parse_size.
* **Submission** - `gq submit`: which of option, directive and default counts,
  `Legible` (the errors of the client), `Passes` (the checks of the daemon), the
  row, and a connection that breaks before or after the row is there; the row also
  comes after the client has stopped waiting for it.

A definition named `X_Fault` (`Finished_OnlyDone`, say) is a wrong version of `X`
that one of the properties rejects; nothing uses it.

### Correspondence and abstractions

* Daemon.lock is held for a whole cycle and by every handler that changes
  state, so handlers are steps of `phase = "idle"`. Nothing else in the process
  interleaves with a cycle; the jobs' processes do, between any two of its
  steps except during plan(), which reads nothing they change.
* The code loops over lists of jobs in id or queue order. Where the rounds are
  independent (reaper, policing, recovery) the model visits the set in any
  order; where the order matters (plan, launches) it keeps it.
* Time is counted in scheduler cycles and saturates where it is compared:
  `head_blocked_since` and `cancel_requested_at` are ages. A cycle whose
  snapshot fails still ages both. `now` is read once per cycle in the code too.
* A snapshot is what NVML may show: for each group, nothing (not allocated
  yet) or its cards with a memory reading or none; strangers on some cards; or
  an exception. The test whether a pid seen then still has a group now
  (`_pgid_of`) is made when the snapshot is used, as in the code.
* `submit` is atomic although its checks precede the lock: they read the
  snapshot's number and size of cards, which do not change.
* Names, commands, environments, notes and times of display are left
  out. Budgets are naturals and `gpus` is not negative: `Submission` shows that
  rows made by `gq submit` are so.
* The clients only read the table or add to it, and do not see each other. So
  `MCClients` runs them side by side: the initial state chooses one client, and
  each behaviour is that client's next to the rows.
* One unit of `written` is a block of output; the log endpoint's limit is counted
  in blocks. The header that launch() writes is output like the job's.
* A line of a script is what the two regular expressions of `jobscript.py` make
  of it: blank, comment, body, or a directive with its pairs. A text is a number
  and the word after it, so a size is `[number, unit]` and `parse_size` is
  arithmetic on it.
* `nextPollAt` of logs.ts is left out: a poll may begin at every tick, which
  includes the ticks it would have skipped.

## 3. The runs

Twelve configurations. Deadlock is checked in all but `clients`, where a command
that has returned stops.

| Run | Instance | Question | Answer |
|---|---|---|---|
| `dispatch_safety` | jobs: both cards, one card, budget 3, budget 1; two unequal cards, one also used by others; reserve after 1 cycle; restarts at any time | does plan() keep its promises in every order of calls, and is Allocation implemented? | yes |
| `dispatch_live` | both cards, budgets 3 and 1, a 0-GPU job; two equal cards; fair | does the reservation let a whole-machine job run although small jobs are requeued for ever? are small jobs packed? | yes |
| `daemon_supervise` | an exclusive and a share job, two cards of which one is too small for the share job, two pids, repeated cancels, measured over budget or not at all, 2 strikes, no crash | is the ledger the truth about the machine? is eviction earned, certain, final, and not booked as a cancellation? | yes |
| `daemon_restart` | three jobs, one of them unlaunchable, one card with room for one of the two share jobs, children out of the daemon's reach, one crash outside the spawn or one reboot, pids taken while the daemon is down, strangers' processes | are running scripts found again, do they fit their cards, is nothing left over, and are strangers spared? is Dispatch implemented? | yes |
| `daemon_live` | two share jobs that a plan can place together, one pid, the children of one job out of reach, jobs over their budget or unmeasured, a crash, failing snapshots; fair | do cancelled, evicted, ended and placed jobs go? | yes |
| `clients` | one log of 2 blocks read in chunks of 1; two polls of up to 2 chunks; two jobs and a window of one finished job, or one job and overlapping refreshes; 91 scripts by 50 sets of options; one refused request, refused refresh or reload; fair | are logs shown whole, completions told once but for overtaken refreshes, and requests what the user wrote? | yes |
| `dispatch_oversize` | a budget equal to the card's total | NoStarvation | violated |
| `adopted_stragglers` | one job, one crash | FinishedMeansGone | violated |
| `crash_after_spawn` | two jobs, one crash anywhere | CardsAreNotMixed | violated |
| `eviction_forgotten` | one job, one crash | CancelledMeansAsked | violated |
| `poison` | an unlaunchable job and a share job; fair | PlacedJobsLeave | violated |
| `notifier_missed` | one job, a window of 15, no failure | SeenRunsAreAnnounced | violated |

The six violations are disagreements between the code and what its documents or
comments say of it (`findings` in `PROJECT.json` quotes the lines):

1. **Oversize budgets** - submit() accepts budgets up to the card's total;
   placement needs budget + overhead within total - headroom. Such a job never
   runs, and from `RESERVE_AFTER_S` on keeps every free card from everyone.
2. **Stragglers of adopted jobs** - after a restart a job is finished by its
   exit file alone; children of its script that still run are neither killed
   nor charged for.
3. **Crash between launch and mark_running** - the group that was just started
   is in no row; its card goes to someone else, its job is started again.
4. **Eviction forgotten** - after a restart an evicted job ends CANCELLED.
5. **Poison job** - `_dispatch` handles OSError, which is all that launch() says
   it raises; it also raises UnicodeEncodeError, from the log header of a command
   with an argument that is not UTF-8. That ends the daemon; systemd starts it
   again, and the job is first in the queue again. What is placed behind it is
   never launched.
6. **Missed notification** - a job that ends after the finished list of a
   refresh was read and before the active one is in neither; the notifier takes
   it for scrolled out, forgets it, and its end is never told.

### Bounds and why they are enough

* *Jobs*: NoOvercommit, NoOvertaking and the reservation each need a tenant, a
  blocked job and a job behind it. Four jobs give all of these with both kinds
  in each role. Supervision treats jobs one at a time: two are needed for what
  one job's processes do to another (cards, pids, memory of the daemon). The
  third job of `daemon_restart` is the one that cannot be launched
  (`Unlaunchable`), so that two others live through the daemon's ends; these two do
  not fit their card together (`TightCards`), so that a second script there would
  break the card's promise. `daemon_live` has two jobs and one pid: when a plan
  places both, the second launch fails as a fork does that gets no pid, and a
  job's group has to go before another's can be started. Pids, and
  there the two share jobs, are interchangeable (`PidSymmetry`, `TwinSymmetry`);
  no liveness is checked under symmetry.
* *Cards*: two, of different size for safety (tightest fit has a choice), equal
  ones for packing; sizes let the two share jobs fit together on one card only
  and the larger one not be everywhere. `daemon_supervise` has a card on which only the
  exclusive job can be placed, so that the two run side by side or wait for each
  other; which of several cards is chosen is a question for `dispatch_safety`.
* *Clocks*: reserve after 1 or 2 cycles, grace 1 cycle, 2 strikes where strikes
  are asked about: enough for "not yet", "now" and "long since". The two large
  supervision runs reserve at once (`RESERVE_AFTER_S = 0`), as fairness among jobs
  is not their question, and `daemon_restart` has no grace.
* *Crashes*: `MaxCrashes = 1`, with cycles before and after. `CrashPhases`
  leaves out the spawn in the passing runs, because of finding 3;
  `PidReusePhases` lets pids be taken while the daemon is down. (While it is up
  a free pid is taken again only after all others; the model does not reuse the
  pid of a RUNNING row then, see `Available`.)
* `CancelAgain` is FALSE in the liveness run: each repetition of a cancel
  restarts the grace (`db.py:189`), so a client that repeats it for ever keeps
  SIGKILL away for ever.
* *Refused signals*: `OutOfReach` is one of the two jobs of `daemon_live`, so that
  what it does to the other can be seen, and both share jobs of `daemon_restart`; it
  is empty in the other runs.
* *Notifications*: two jobs and a window of one let a job scroll out while the
  other ends; each row completes once (`MaxCompletions`), which a notification
  too many shows already; one refused refresh or reload (`MaxSetbacks`);
  `Outcomes` has one state that is announced and one that is not. Where there are
  two jobs refreshes come one at a time and are not refused (`Watchers`); where there
  is one, two may overlap, and a third does not begin beside one once a belated list
  was observed (`MaxBelated` = 1): an old answer is observed last, the job seems to
  run again after its end, and is told twice.
* *Logs*: `MAX_LOG_CHUNK` 1 and `MaxWritten` 2 make every reader need a second
  chunk, and `MAX_CHUNKS_PER_POLL` 2 lets a poll end by its limit as well as by an
  empty answer. Two `Fetches`, so that a second poll of the tail could begin if the
  code let it. One refusal (`MaxRefusals`) at any point of a poll. `Endings` has
  DONE and one other state; how often the job runs is not bounded.
* *Submissions*: scripts of up to two lines over eight kinds of line (every known
  key but the name, an unknown key, repeated keys, values that are not legible, a
  body between directives), and options on both sides of every limit of the cards.

### Fairness

`FairDispatchSpec`: run() calls cycle() again and again and a cycle does not
block, so its steps are weakly fair; snapshots are not assumed to work each
time, but planning cycles do come (weak fairness of `PlanBegins` alone). Jobs
end (strong fairness, as planning disables the step over and over). The daemon
is assumed to stay up, as its blocked-head clock is in memory.

`FairDaemonSpec`: strong fairness of `CycleBegins` - the loop thread competes
for the lock with API threads - weak fairness of whatever the lock's holder
does next, which never waits; and a process that got SIGKILL dies. Nothing is
assumed of jobs, users, NVML or crashes (of which there are finitely many; the ends
by refused signals are not bounded).

`FairClientsSpec`: a command goes on, and the answer it waits for comes
(`FollowerSteps`); setInterval goes on, so refreshes and polls of an open document
begin, and requests that are not refused are answered (`PollSteps(p)`,
`FetchSteps(f)`); VS Code handles an event (`Refreshed`). All weak; each refusal
counts towards a bound. Nothing is assumed of rows, tabs or the sweep:
`FollowEnds` is about jobs that stay over, `DocumentCatchesUp` about a document
that stays open while its log rests.

## 4. The proofs

All for arbitrary `Jobs`, `Gpus`, requests, card sizes and parameters, from the
named assumptions (`LedgerAssumption`, `SchedulerAssumption`,
`DispatchAssumption`; for the daemon also `DatabaseAssumption`,
`RunnerAssumption`, `PopenAssumption` and `DaemonAssumption`): finitely many jobs
and cards, natural numbers for requests and sizes, NULL and FOREIGN different from
everything else.

* **QueueTheorems** - sequences without repetitions under Append and
  RemoveFirst; least elements; induction, for a set of naturals (`AllNaturals`); the
  last position at which something holds (`LastPosition`).
* **SchedulerTheorems** - what a set of share jobs reserves is a number, grows
  with the set, and grows by `Need(j)` with job j; `_place` puts a job only on
  slots that show room for it; pools stay pools.
* **DispatchProofs** - `TypeCorrect`, `Invariance` (`DispatchSpec => []Inv`), and
  from it `NeverOvercommitted` (`[]NoOvercommit`) and `KeepsOffOthersCards`
  (`[]OffLimits`).
* **DaemonProofs** - `DaemonImplementsDispatch: DaemonSpec => DispatchSpec`,
  and with it `DaemonNeverOvercommits`; `RunsAreSeparate` (`[]NothingCarriesOver`);
  and, for a daemon that stays up, `GroupsAreCharged` (`[]LiveGroupsAreCharged`),
  `FinishedJobsAreGone` (`FinishedMeansGone`) and `CardsStayApart`
  (`[]CardsAreNotMixed`).
* **PlacementProofs** - what plan() does with the cards, each for Dispatch and, by
  the refinement, for the daemon. What a job gets: `EveryJobGetsWhatItAsked`
  (`[]GetsWhatItAsked`), `DispatchKeepsPromise: DispatchSpec => KeepsPromise` (the
  refinement of Allocation) and `DaemonKeepsPromise`. In which order: `PlanIsFifo`
  (`[]NoOvertaking`), `GuardHolds` (`[]ReservationHonoured`) and `DaemonIsFair`.
  What stays idle: `PlanWastesNothing` and `DaemonWastesNothing`
  (`WorkConserving`), `BestFitOpensNoCard` and `DaemonOpensNoCard`
  (`EmptyCardsStayEmpty`), and `WaitingCounts` (`ClockKept`).
* **SupervisionProofs** - what the daemon does with the processes:
  `DaemonTypesKept` (`[]DaemonTypeOK`); with crashes anywhere but in a launch,
  `RunningScriptsTracked` (`[]RunningScriptsAreTracked`), `RunningScriptsFit`
  (`[]ScriptsFitTheirCards`), `ReapersReadTheFile` (`ReaperSeesTheFile`),
  `KillsAreLastResort` (`KillIsLastResort`) and `ExitFilesGuard`
  (`ExitFileGuardsPid`); with crashes anywhere, `EvictionsAreEarned`
  (`EvictionIsEarned`) and `EvictionsStand` (`EvictionStands`); for a daemon that
  stays up,
  `OffendersGo` (`[]OffendersAreEvicted`) and `CancelledWereAsked`
  (`CancelledMeansAsked`).
* **ClientProofs** - `SubmittedRowsAreSane`, `RequestsMeanTheScript`
  (`[]RequestMeansTheScript`, for scripts of any length), `FollowerPrintsTheLog`,
  `NotifierTypesKept` and `NotificationsCounted` (`[]OncePerCompletion`), both for
  any number of refreshes at a time.
* **TailerProofs** - `DocumentShowsTheLog` (`[]TextIsPrefix`) and
  `OpenTabsHaveTails` (`[]OpenTabsAreTailed`).

The clients' theorems rest on `JobLogAssumption`, `FollowerAssumption`,
`TailerAssumption`, `NotifierAssumption` and `SubmissionAssumption`: bounds are
naturals, chunks are not empty, NULL is none of the things it stands beside, and
options and scripts are made of texts (`Texts`, `Lines`). TLC evaluates all of them.

*The inductive invariant.* NoOvercommit by itself is not preserved: the next
placement is judged by the pool `avail`, not by the ledger. `Inv` adds that the
pool is right - what it shows of a card is capacity minus what the card's
holders (RUNNING tenants and jobs assigned in this plan) reserve, and empty iff
there are none (`PoolOK`) - that plan() has each job before it once, QUEUED and
unassigned (`TodoOK`), that the queue holds no row twice and only QUEUED ones
(`QueueOK`), and that assignments belong to QUEUED rows and do not outlive a
cycle (`OutOK`). A placement then adds exactly `Need(j)` to a card that shows
that much room (`OneMoreHolder`), or one exclusive job to a card without
holders; a launch turns an assignment into a row without changing the holders;
everything else only shrinks them (`ShrinkingHolders`). `Inv` was model-checked
on the bounds of `dispatch_safety` before it was proved.

*The refinement.* Every action of Daemon contains an action of Dispatch or
leaves its variables alone. The one fact needed is that the job a loop is
visiting is a job (`CurOK`), so that `_finalize` and mark_running are steps of
some job of Dispatch.

*One run and the next.* NothingCarriesOver is inductive with two more facts
(`CarryInv`): the loops of a cycle visit RUNNING jobs only, so that a strike or a
straggler mark is given to a run that is going on (`LoopOK`), and a row that was
never inserted is as clean as a QUEUED one (`FreshRows`). _finalize then clears
what is in memory, requeue what is in the row, and a restart forgets all at once.

*The ledger and the machine.* Finding 2 (adopted jobs) and finding 3 (a crash
after the launch) show that LiveGroupsAreCharged, FinishedMeansGone and
CardsAreNotMixed do not survive a restart. `StaysUp` (no crash, no job whose launch
or whose children end the daemon) excludes every restart. Under it a RUNNING job has
its Popen, so `_reap` never takes the branch for adopted jobs and finalises only a
group that is gone; a group changes only in the ways of
`GroupsMove`, which leave its owner and its cards alone; hence each group is
charged to its row, or to the assignment that is being launched (`UpInv`), and
CardsAreNotMixed follows from NoOvercommit. `UpInv` and `CarryInv` were
model-checked on the bounds of the daemon's runs before they were proved.

*GetsWhatItAsked* needs that the first n of at least n slots are n different
cards. `FirstSlots` picks the slots that fewer than n others precede; a least n
for which they are not n is contradicted by the slot that n - 1 others precede
(`FirstSlotsCount`), as an induction theorem cannot be used.

*The refinement of Allocation.* Only a placement by plan() changes `Held` to
cards, and `PoolOK` says the pool shows exactly what the holders leave, so that a
fit in the pool is `Free` in Allocation. A launch moves a job from `out` to
`gpu_ids` with the same cards; everything else releases.

*First come, first served.* NoOvertaking speaks of `queue`, plan() of `todo` and
of a pool that has shrunk since. `FifoInv` connects them: `todo` is what is left
of the queue; a row that was left out does not fit the present pool (the pool
only shrinks, and a smaller pool fits fewer jobs); `head_blocked` tells whether
there is such a row; once the first of them starves there are no slots; launches
keep the order. So a job that is placed after one like it was left out would fit
a pool which that one does not fit.

*Nothing idle.* `PoolOK` says that the pool shows nothing that is not there.
WorkConserving needs that it hides nothing that is (`NothingHidden` in `WasteInv`),
unless the whole of it is withheld for a job that was left out and starves; then a
job that would fit what is left at the end fits the pool that plan() judged it by.
EmptyCardsStayEmpty needs `CardsAreEqual`: with cards of one size and an overhead
above zero, a tenant makes its card tighter than any empty one (`TenantsTakeRoom`),
so the tightest slot that fits is in use if any is; with two sizes it is false (see
5). ClockKept is about a daemon that stays up, as the clock is in memory: plan()
forgets the clocks of rows that are not queued, and every QUEUED row is in the queue
(`QueueComplete`).

*Scripts and crashes.* RunningScriptsAreTracked is not inductive: a step of the
reaper is right only if what it has read still holds. `TrackInv` adds that the exit
file of the job at hand is as it was read (`ReadOK`: the wrapper writes it once, and
only the next launch removes it) and that an exit status comes from the job's handle
(`StatusOK`), and that a job that is being launched is QUEUED (`SpawnOK`). `OwnInv`
says whose group a pid in a row or a handle is: the job's own or a stranger's, so
that a signal or a zombie that is waited for never is another job's; and that a
handle with an exit status is that of a script that is over. `NoCrashInLaunch`
leaves out the instants between launch() and mark_running, because of finding 3;
every other crash, reboot and restart is there, jobs that end the daemon, and signals
that are refused.
KillIsLastResort and ReaperSeesTheFile follow from the same invariant.

*Scripts and cards.* ScriptsFitTheirCards is about processes; the ledger is about
rows. A script that runs belongs to a RUNNING row with the cards of its group or to
the assignment that is being launched (`TrackInv`), so the jobs whose scripts run on
a card are among the card's holders, of which NoOvercommit holds by the refinement:
a subset of them reserves no more, and has nobody beside an exclusive job. (What a
script leaves behind is another matter after a restart: finding 2.)

*Strangers.* `GuardInv`: while the daemon is up, and has recovered the row, the pid of
a RUNNING job is a stranger's only if the job left no exit file; recover() closes the
rows of which it does not hold. `PidsReusedWhileDown` is the assumption that pids are
taken by strangers while the daemon is down only. (That of an adopted job could also
be taken while it is up, between the end of the group and the cycle that notices; a
cancel in between does not read the exit file, `daemon.py:93-98`.)

*Policing.* EvictionIsEarned: the daemon never counts more strikes than there were
cycles over budget (`StrikeInv`), which a crash, that resets the count, only helps.
EvictionStands is about one step at a time, but each kind of step has to be
looked at: only `_finalize` takes a job out of RUNNING, and it asks for the eviction
first; only requests of the user and `_enforce_vram` begin a grace, and the latter
passes over who is evicted; ages of requests only grow (`GraceGoesOn`).
OffendersAreEvicted is the converse of EvictionIsEarned (`OffendInv`), and needs a daemon that stays up:
a crash forgets strikes, and finding 4 evictions. CancelledMeansAsked: the cancel
request in a RUNNING row is the user's or that of an eviction in memory (`AskInv`).
All of these invariants, `WasteInv` and `QueueComplete` too, were model-checked on
the instances of `daemon_restart`, `daemon_supervise` and `dispatch_safety` before
they were proved.

*Logs.* The follower's invariant ties each offset to what has been printed and
each answer to the offset that was asked for; since the row is read before the
file, an empty answer means that all is printed that was there when the row was
read. The tailer's: a tail has at most one request under way, and only while it is
`polling`, and that request asks for the end of its text; so a chunk always
continues it.

*Notifications.* OncePerCompletion is not inductive: what a refresh has in hand
may make the next observe() announce a job whose last end has been told.
`Settled` says that only a belated one can: as long as every end of a job has been
told, and every belated list paid for, a job that was seen RUNNING has not ended
since, and no list under way says it has but those of refreshes that were overtaken.

*Scripts.* parse_directives is a fold over the lines, each of which is a fold over
its pairs, and a fold is a recursive function on the sets of positions that are still
to be visited. The library's induction takes an operator, which the provers cannot
instantiate, so the induction is made with a set: `AllNaturals` says that a set of
naturals that holds 0 and, with each n, n + 1 is all of them, since it would lack a
least one. With the set of the lengths at which all is well it gives that such
functions exist and go on from position to position (`SetFolds`, `SetRuns`; `ScanFolds`,
`ScanRuns`), and then what they have computed after i steps: `KeyOK`, that a key's
value is that of its last pair so far, and `ScanOK`, that the scan is where the
property says the header is - still in it with every line so far legible, at its end,
or stopped by a line that is not. The last directive of the header is then the last
line that names the key and in it the last pair that does (`DirectivesAreLast`).
`SubmissionInv` carries that to the request.

Only model-checked: the liveness properties, which are out of the prover's reach
(NoStarvation, CancelledJobsGo, EndedJobsAreReaped, PlacedJobsLeave, FollowEnds,
DocumentCatchesUp, JobListCatchesUp). Every other property that a passing run checks
is proved, under the assumptions named above.

## 5. Known, without a run

* A cancelled and requeued job keeps the blocked-head clock of its former stay
  if no plan ran in between (`scheduler.py:318`).
* On cards of different size best fit opens an empty small card before a large
  one in use (`scheduler.py:280`); `EmptyCardsStayEmpty` is checked on equal
  cards.
* recover() does not read the exit file again after the group is gone
  (`daemon.py:171-177`), as the reaper does.
* A user's cancellation followed by an eviction in its grace ends FAILED, and
  the grace starts over (`daemon.py:228-234`).
* If an orphan of finding 3 ends while its job runs again, its exit file ends
  the second run.
* A poll of logs.ts that fails after some chunks keeps their text and fires no
  event; the document lags behind its tail until more is written
  (`extension/src/logs.ts:141`; `skipped` in `DocumentCatchesUp`).
* If the answer to a submit is lost or late, the job is there although gq reports an
  error (`Unanswered` before or after `InsertRow`); repeating the command makes a
  second one.
* A group the daemon may not signal (`runner.py:90-95`) counts as alive, but the
  PermissionError of its kill_tree is nobody's: a cancel answers 500 and leaves its
  request in the row, and when the grace is over the reaper ends the daemon, after
  each restart again, until the group goes by itself. Other cancelled jobs may wait
  for that too (`CancelledJobsGo` excepts it). Stragglers out of reach beside a
  wrapper that is not yet waited for are killed once, in vain, and then waited for
  (`EndedJobsAreReaped` leaves their jobs out).
* Strikes are kept over a cycle without a snapshot: two cycles over budget on either
  side of it count as consecutive (`daemon.py:295-298`).
* Each repetition of a cancel begins the grace again (`db.py:189`).
* `gq cancel` and `gq requeue` with several ids stop at the first that fails
  (`cli.py:205`).
* The log of a job whose first launch failed holds a header that no client can
  read, as `log_path` is set by mark_running (`Readable` in JobLog).

## 6. Not modelled, and the plan

Not modelled: the NVML calls and the fake monitor (a snapshot is an input);
gpu_status, which is read-only and decides nothing; schema migration; formatting
and the tree and GPU views; the buttons of a notification, which make requests
that other modules have; systemd and the installer. A second daemon on the same
home, which would run recover() before it fails to bind the port, would double
every variable of Daemon.

What could be added, in this order:

1. Daemon: the exit code of a run after the crash of finding 3, as a property of
   the second run; recover()'s single read of the exit file.
2. Proofs: what is left of FinishedMeansGone when the daemon restarts (a job that
   was launched by the present daemon leaves nothing behind), and the log a client
   prints when it is refused and asks again.
