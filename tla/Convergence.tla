---------------------------- MODULE Convergence ----------------------------
(***************************************************************************)
(* crates/rustdec-analysis/src/dominance.rs, find_convergence: where the   *)
(* arms of a branch meet again.  One search forward from each arm, outside *)
(* the blocks the branch dominates; the lowest block that all found.       *)
(***************************************************************************)
EXTENDS DomTree

VARIABLES
    branch,   \* the argument, 0 when there is no call
    stage,    \* "idle", "arms", "search", "answered"
    seen,     \* forward_reachable: visited
    queue,    \* and its queue
    sets,     \* reachable_sets: the results for the arms searched so far
    answer    \* 0 is None

convergenceVars == <<branch, stage, seen, queue, sets, answer>>

ConvergenceInit ==
    /\ branch = 0
    /\ stage = "idle"
    /\ seen = {}
    /\ queue = <<>>
    /\ sets = <<>>
    /\ answer = 0

arms == Succ(graph, branch)

\* Mutation: only the branch itself is out of bounds.
BranchAlone == {branch}

\* branch_dominated.
Blocked == DominatedBy(branch)

-----------------------------------------------------------------------------

\* find_convergence is called with a block.
Begin(b) ==
    /\ stage = "idle"
    /\ branch' = b
    /\ stage' = "arms"
    /\ UNCHANGED <<seen, queue, sets, answer>>

TooFew ==
    /\ stage = "arms" /\ Len(arms) < 2
    /\ stage' = "answered"
    /\ UNCHANGED <<branch, seen, queue, sets, answer>>

StartArm ==
    /\ stage = "arms" /\ Len(arms) = 2 /\ Len(sets) < 2
    /\ LET s == arms[Len(sets) + 1]
       IN  /\ queue' = IF s \in Blocked THEN <<>> ELSE <<s>>
           /\ seen' = {s} \ Blocked
    /\ stage' = "search"
    /\ UNCHANGED <<branch, sets, answer>>

\* The k-th successor, unless it is out of bounds or visited by then.
Enqueued(n, k) ==
    LET s == Succ(graph, n)
    IN  IF k \in DOMAIN s /\ s[k] \notin Blocked \cup seen /\ (k = 2 => s[1] # s[2])
        THEN <<s[k]>> ELSE <<>>

Fresh(n) == Enqueued(n, 1) \o Enqueued(n, 2)

Visit ==
    /\ stage = "search" /\ queue # <<>>
    /\ LET new == Fresh(Head(queue))
       IN  /\ queue' = Tail(queue) \o new
           /\ seen' = seen \cup {new[k] : k \in 1 .. Len(new)}
    /\ UNCHANGED <<branch, stage, sets, answer>>

EndArm ==
    /\ stage = "search" /\ queue = <<>>
    /\ sets' = Append(sets, seen)
    /\ stage' = "arms"
    /\ UNCHANGED <<branch, seen, queue, answer>>

Common == sets[1] \cap sets[2]

Choose ==
    /\ stage = "arms" /\ Len(arms) = 2 /\ Len(sets) = 2
    /\ answer' = IF Common = {} THEN 0
                 ELSE CHOOSE n \in Common : \A m \in Common : n <= m
    /\ stage' = "answered"
    /\ UNCHANGED <<branch, seen, queue, sets>>

ConvergenceNext ==
    \/ \E b \in Blocks(graph) : Begin(b)
    \/ TooFew \/ StartArm \/ Visit \/ EndArm \/ Choose
=============================================================================
