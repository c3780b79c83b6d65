------------------------------- MODULE Runner -------------------------------
(***************************************************************************)
(* gpu_queue/runner.py and the operating system under it.  A job runs as   *)
(* one process group: the bash wrapper that leads it, and the rest (the    *)
(* script and whatever it starts).  The wrapper waits for the script,      *)
(* writes the exit file and exits; signals reach the members that the      *)
(* daemon may signal.                                                      *)
(*                                                                         *)
(* The kernel keeps a dead child until its parent waits for it, and        *)
(* killpg(pgid, 0) succeeds on such a zombie.  A pid is free again when no *)
(* member of its group is left.                                            *)
(***************************************************************************)
EXTENDS Database

CONSTANTS
    FOREIGN,               \* the owner of a group that is not gpu-queue's
    OutOfReach             \* the owners whose processes, the wrapper aside, are
                           \*        another user's: the daemon may not signal them

ASSUME RunnerAssumption == FOREIGN \notin Jobs /\ OutOfReach \subseteq Jobs \cup {FOREIGN}

VARIABLES
    group,                 \* [Pids -> process group, or NULL]
    exit_file              \* [Jobs -> code in <id>.exit, or NULL]

runnerVars == <<group, exit_file>>

Group == [owner   : Jobs \cup {FOREIGN},
          wrapper : {"running", "zombie", "gone"},
          rest    : {"alive", "dying", "gone"},
          rc      : Codes \cup {NULL},    \* the wrapper's status once it died
          child   : BOOLEAN,              \* of the daemon that is running now
          gpus    : SUBSET Gpus]          \* CUDA_VISIBLE_DEVICES

RunnerTypeOK ==
    /\ group \in [Pids -> Group \cup {NULL}]
    /\ exit_file \in [Jobs -> ExitCodes \cup {NULL}]

RunnerInit ==
    /\ group = [p \in Pids |-> NULL]
    /\ exit_file = [j \in Jobs |-> NULL]

-----------------------------------------------------------------------------
\* A group with no member left is no group.
Swept(g) == IF g.wrapper = "gone" /\ g.rest = "gone" THEN NULL ELSE g

\* The wrapper dies with status c: its parent, or init, collects it.
WrapperDead(g, c) ==
    [g EXCEPT !.wrapper = IF g.child THEN "zombie" ELSE "gone", !.rc = c]

\* Some member of the group still executes.
Live(p) == group[p] # NULL /\ (group[p].wrapper = "running" \/ group[p].rest # "gone")

GroupAlive_WrapperOnly(p) == group[p] # NULL /\ group[p].wrapper # "gone"

\* group_alive: killpg(pgid, 0), to which a zombie answers too, and which counts a
\* group that it may not signal.
GroupAlive(p) == group[p] # NULL

\* read_exit_code: an absent file and a half-written one are the same.
ReadExitCode(j) == exit_file[j]

StartGroup_KeepsFile(j, G, p) ==
    /\ group[p] = NULL
    /\ group' = [group EXCEPT ![p] = [owner |-> j, wrapper |-> "running",
                                      rest |-> "alive", rc |-> NULL,
                                      child |-> TRUE, gpus |-> G]]
    /\ UNCHANGED exit_file

\* launch: the old exit file goes first, then the group starts.
StartGroup(j, G, p) ==
    /\ group[p] = NULL
    /\ group' = [group EXCEPT ![p] = [owner |-> j, wrapper |-> "running",
                                      rest |-> "alive", rc |-> NULL,
                                      child |-> TRUE, gpus |-> G]]
    /\ exit_file' = [exit_file EXCEPT ![j] = NULL]

\* launch raising OSError: the old exit file is gone all the same.
LaunchError(j) ==
    /\ exit_file' = [exit_file EXCEPT ![j] = NULL]
    /\ UNCHANGED group

\* killpg fails with EPERM only if it may signal no member of the group, and it may
\* signal the wrapper, be it a zombie.
Refused(p) ==
    group[p] # NULL /\ group[p].wrapper = "gone" /\ group[p].owner \in OutOfReach

\* kill_tree: bash dies of SIGTERM, the rest may handle it; nothing the signal gets
\* to survives SIGKILL, but a process can take its time to die.
Signalled(g, sig) ==
    LET h == IF g.wrapper = "running" THEN WrapperDead(g, SIGNALLED) ELSE g IN
    IF sig = "KILL" /\ h.rest = "alive" /\ h.owner \notin OutOfReach
    THEN [h EXCEPT !.rest = "dying"] ELSE h

\* When it is refused the PermissionError goes to the caller.
KillTree(p, sig) ==
    /\ group' = IF group[p] = NULL \/ Refused(p) THEN group
                ELSE [group EXCEPT ![p] = Signalled(group[p], sig)]
    /\ UNCHANGED exit_file

\* Popen.poll() reaps the zombie of group p.
ReapZombie(p) ==
    /\ group' = [group EXCEPT ![p] = Swept([group[p] EXCEPT !.wrapper = "gone"])]
    /\ UNCHANGED exit_file

-----------------------------------------------------------------------------
(* The processes' own steps. *)

\* The script ends: the wrapper writes its code and exits (two steps of bash, one
\* here: the daemon acts on the file, or on the group, when it sees it).  Background
\* children may stay.
ScriptEnds(p) ==
    /\ group[p] # NULL
    /\ group[p].wrapper = "running"
    /\ \E c \in ExitCodes, left \in {"alive", "gone"} :
         /\ group' = [group EXCEPT ![p] =
                        Swept([WrapperDead(group[p], c) EXCEPT !.rest = left])]
         /\ exit_file' = [exit_file EXCEPT ![group[p].owner] = c]

\* The wrapper is killed by someone else (the OOM killer, kill -9): no file.
WrapperKilled(p) ==
    /\ group[p] # NULL
    /\ group[p].wrapper = "running"
    /\ \E left \in {"alive", "gone"} :
         group' = [group EXCEPT ![p] =
                     Swept([WrapperDead(group[p], SIGNALLED) EXCEPT !.rest = left])]
    /\ UNCHANGED exit_file

\* What outlives the wrapper ends by itself, ...
RestExits(p) ==
    /\ group[p] # NULL
    /\ group[p].wrapper # "running"
    /\ group[p].rest = "alive"
    /\ group' = [group EXCEPT ![p] = Swept([group[p] EXCEPT !.rest = "gone"])]
    /\ UNCHANGED exit_file

\* ... or of the SIGKILL it got.
RestDies(p) ==
    /\ group[p] # NULL
    /\ group[p].rest = "dying"
    /\ group' = [group EXCEPT ![p] = Swept([group[p] EXCEPT !.rest = "gone"])]
    /\ UNCHANGED exit_file

\* The kernel gives a free pid to a group that is not gpu-queue's.
PidTaken(p) ==
    /\ group[p] = NULL
    /\ group' = [group EXCEPT ![p] = [owner |-> FOREIGN, wrapper |-> "gone",
                                      rest |-> "alive", rc |-> NULL,
                                      child |-> FALSE, gpus |-> {}]]
    /\ UNCHANGED exit_file

\* The daemon's death makes orphans of its children; init reaps the zombies.
Orphaned ==
    /\ group' = [p \in Pids |->
                   IF group[p] = NULL THEN NULL
                   ELSE LET w == IF group[p].wrapper = "zombie"
                                 THEN "gone" ELSE group[p].wrapper
                        IN Swept([group[p] EXCEPT !.wrapper = w, !.child = FALSE])]
    /\ UNCHANGED exit_file

\* Power loss: every process goes, the files stay.
MachineReboots ==
    /\ group' = [p \in Pids |-> NULL]
    /\ UNCHANGED exit_file
=============================================================================
