----------------------------- MODULE Allocation -----------------------------
(***************************************************************************)
(* What the queue promises of the machine's cards, with nothing of how it  *)
(* decides: a job is granted all of its cards at once, cards that are free *)
(* for it, and keeps exactly these until it is released.                   *)
(***************************************************************************)
EXTENDS Integers, FiniteSets

CONSTANTS
    Jobs,
    Gpus,
    NULL,
    wanted,      \* [Jobs -> number of cards]
    budget,      \* [Jobs -> units of a card, or NULL for the whole of it]
    room         \* [Gpus -> units a card has for budgets]

VARIABLE held    \* [Jobs -> set of cards, or NULL]

Init == held = [j \in Jobs |-> NULL]

On(g) == {j \in Jobs : held[j] # NULL /\ g \in held[j]}

Promised(S) == Cardinality(UNION {{j} \X (1..budget[j]) : j \in S})

\* Card g can take job j beside the jobs that are on it.
Free(g, j) ==
    IF budget[j] = NULL THEN On(g) = {}
    ELSE /\ \A k \in On(g) : budget[k] # NULL
         /\ Promised(On(g) \cup {j}) <= room[g]

Grant(j, G) ==
    /\ held[j] = NULL
    /\ Cardinality(G) = wanted[j]
    /\ \A g \in G : Free(g, j)
    /\ held' = [held EXCEPT ![j] = G]

\* One job ends, or all those that were granted and not yet started are lost.
Release(S) == held' = [j \in Jobs |-> IF j \in S THEN NULL ELSE held[j]]

Next == \/ \E j \in Jobs, G \in SUBSET Gpus : Grant(j, G)
        \/ \E S \in SUBSET Jobs : Release(S)

Spec == Init /\ [][Next]_held
=============================================================================
