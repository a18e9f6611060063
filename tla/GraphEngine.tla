---------------------------- MODULE GraphEngine ----------------------------
(***************************************************************************)
(* One run of a workflow graph (core/workflow/graph_engine/graph_engine.py). *)
(* A runner is an activation of _run: the root, in the thread that consumes *)
(* the events, and one for each branch of a parallel, in a thread of the    *)
(* pool that all branches of the run share.  A runner that comes to a       *)
(* parallel submits its branches and collects their events from a queue     *)
(* until they are all through; what it collects it passes on, a branch to   *)
(* the queue of its own parallel and the root to the consumer.              *)
(*                                                                         *)
(* The graph is a route for each runner, the nodes and parallels it comes   *)
(* to, each runner and parallel in one place.  What the conditions of the   *)
(* edges decide is a choice: behind an item of MayEnd the runner goes on or *)
(* its route is at an end.  Retries of a node, its stream chunks and the    *)
(* events that a node or a branch has begun are left out, and so are the    *)
(* variables the nodes exchange.  The submit counter is changed in one step *)
(* (Python's += on it is not atomic by its definition).                     *)
(***************************************************************************)
EXTENDS Naturals, Sequences, FiniteSets

CONSTANTS
    Nodes, Parallels, Runners,
    Root,          \* the runner of the root node
    Route,         \* Runners -> sequence of nodes and parallels
    ParallelOf,    \* the parallel that a branch belongs to
    MayEnd,        \* the items whose edges have conditions
    Handled,       \* the nodes with an error strategy (should_continue_on_error)
    PoolSize,      \* threads of the pool (10)
    Limits         \* the pairs of step limit and submit limit to choose from

Branches == Runners \ {Root}

ASSUME RunnerAssumption ==
    /\ Root \in Runners /\ IsFiniteSet(Runners)
    /\ ParallelOf \in [Branches -> Parallels]
ASSUME RouteAssumption ==
    /\ Nodes \cap Parallels = {} /\ Nodes \cap Runners = {}
    /\ Route \in [Runners -> Seq(Nodes \cup Parallels)]
    /\ \A r \in Runners : Route[r] # <<>> /\ Route[r][1] \in Nodes
    /\ Handled \subseteq Nodes
ASSUME PlaceAssumption ==
    /\ \A p \in Parallels : \E b \in Branches : ParallelOf[b] = p
    /\ \A r, s \in Runners : \A i \in DOMAIN Route[r], j \in DOMAIN Route[s] :
          Route[r][i] = Route[s][j] => r = s /\ i = j
\* A parallel on the route of a branch is deeper than the branch's own.
ASSUME NestingAssumption ==
    \E depth \in [Parallels -> 0..Cardinality(Parallels)] :
        \A b \in Branches : \A i \in DOMAIN Route[b] :
            Route[b][i] \in Parallels => depth[Route[b][i]] > depth[ParallelOf[b]]
ASSUME LimitAssumption ==
    /\ PoolSize \in Nat
    /\ Limits \subseteq [steps : Nat, submit : Nat]

VARIABLES
    limits,     \* the engine's max_execution_steps, the pool's max_submit_count
    st,         \* Runners -> where its thread is
    pos,        \* Runners -> its place on the route
    succeeded,  \* Runners -> the branches of its parallel that have succeeded
    queue,      \* Parallels -> events put and not collected
    pool,       \* the branches submitted that no thread has taken
    submitted,  \* GraphEngineThreadPool.submit_count
    steps,      \* graph_runtime_state.node_run_steps
    timedOut,   \* max_execution_time has passed
    node,       \* Nodes -> what has become of it
    seen,       \* Nodes -> what the consumer knows of it
    outcome     \* what the consumer knows of the run

vars == <<limits, st, pos, succeeded, queue, pool, submitted, steps, timedOut,
          node, seen, outcome>>

Item(r) == Route[r][pos[r]]
BranchesOf(p) == {b \in Branches : ParallelOf[b] = p}

\* The threads of the pool that are in a branch.
InPool == {b \in Branches : st[b] \notin {"absent", "queued", "done"}}

\* Branches that were submitted and are not through.
Unfinished == {b \in Branches : st[b] \notin {"absent", "done"}}

NodeEvent(n, t)   == [type |-> t, of |-> n]
BranchEvent(b, t) == [type |-> t, of |-> b]
NoMore            == [type |-> "None", of |-> Root]

NodeResults == {"succeeded", "exception", "failed"}

-----------------------------------------------------------------------------
(* Yielding an event, and where a runner goes from there.                   *)

\* A failed node ends the run at once when its event comes to the root: run()
\* reports the failure and returns, which closes the generators below it.
Ends(r, e) == r = Root /\ e.type = "failed"

\* Whether the consumer closes the generators at an event of r (the task was
\* stopped): it sees what the root yields.
Closes(r) == IF r = Root THEN BOOLEAN ELSE {FALSE}

\* e is yielded by r, with q the queues as they are by then.
Yield(r, e, q, closed) ==
    IF r = Root
    THEN /\ queue' = q
         /\ seen' = IF e.of \in Nodes THEN [seen EXCEPT ![e.of] = e.type] ELSE seen
         /\ outcome' = IF closed THEN "abandoned"
                       ELSE IF e.type = "failed" THEN "failed" ELSE outcome
    ELSE /\ queue' = [q EXCEPT ![ParallelOf[r]] = Append(@, e)]
         /\ UNCHANGED <<seen, outcome>>

\* The end of an item: on to the next one, or the route is at an end.
GoOn(r) ==
    \/ /\ pos[r] = Len(Route[r]) \/ Item(r) \in MayEnd
       /\ st' = [st EXCEPT ![r] = "leave"]
       /\ UNCHANGED pos
    \/ /\ pos[r] < Len(Route[r])
       /\ pos' = [pos EXCEPT ![r] = @ + 1]
       /\ st' = [st EXCEPT ![r] = IF Route[r][pos[r] + 1] \in Nodes
                                  THEN "check" ELSE "submit"]

\* An exception leaves _run: run() reports that the graph has failed, a branch
\* has yet to tell its parallel.
RaiseFrom(r) ==
    /\ st' = [st EXCEPT ![r] = IF r = Root THEN "done" ELSE "fail"]
    /\ outcome' = IF r = Root THEN "failed" ELSE outcome

-----------------------------------------------------------------------------
(* _run: one node.                                                          *)

LimitReached(r) == steps > limits.steps \/ timedOut

\* The top of the loop, "max steps reached" or "max execution time reached".
CheckLimits(r) ==
    /\ st[r] = "check"
    /\ IF LimitReached(r)
       THEN RaiseFrom(r)
       ELSE st' = [st EXCEPT ![r] = "begin"] /\ UNCHANGED outcome
    /\ UNCHANGED <<limits, pos, succeeded, queue, pool, submitted, steps,
                   timedOut, node, seen>>

\* _run_node begins the node, and the step is counted.
NodeStarts(r) ==
    /\ st[r] = "begin"
    /\ st' = [st EXCEPT ![r] = "run"]
    /\ steps' = steps + 1
    /\ node' = [node EXCEPT ![Item(r)] = "started"]
    /\ UNCHANGED <<limits, pos, succeeded, queue, pool, submitted, timedOut,
                   seen, outcome>>

\* The node has a result: it succeeded, it failed and the error is handled
\* ("exception"), or it failed.  Only the root is stopped by a failed node: in
\* a branch nobody looks at the event that was put, and the branch goes on.
NodeEnds(r, t) ==
    LET e == NodeEvent(Item(r), t) IN
    /\ st[r] = "run"
    /\ t = "succeeded" \/ (t = "exception" <=> Item(r) \in Handled)
    /\ node' = [node EXCEPT ![Item(r)] = t]
    /\ \E closed \in Closes(r) :
          /\ Yield(r, e, queue, closed)
          /\ IF closed \/ Ends(r, e)
             THEN st' = [st EXCEPT ![r] = "done"] /\ UNCHANGED pos
             ELSE GoOn(r)
    /\ UNCHANGED <<limits, succeeded, pool, submitted, steps, timedOut>>

\* The node raises: it is reported as failed, and the exception goes on.
NodeRaises(r) ==
    /\ st[r] = "run"
    /\ node' = [node EXCEPT ![Item(r)] = "failed"]
    /\ \E closed \in Closes(r) : Yield(r, NodeEvent(Item(r), "failed"), queue, closed)
    /\ st' = [st EXCEPT ![r] = IF r = Root THEN "done" ELSE "fail"]
    /\ UNCHANGED <<limits, pos, succeeded, pool, submitted, steps, timedOut>>

-----------------------------------------------------------------------------
(* _run_parallel_branches.                                                  *)

\* GraphEngineThreadPool.submit counts first ...
CountSubmit(r) ==
    /\ st[r] = "submit"
    /\ st' = [st EXCEPT ![r] = "admit"]
    /\ submitted' = submitted + 1
    /\ UNCHANGED <<limits, pos, succeeded, queue, pool, steps, timedOut, node,
                   seen, outcome>>

\* Mutant of PoolFull: off by one.
PoolFullOffByOne == submitted > limits.submit + 1

PoolFull == submitted > limits.submit

\* ... and then looks whether that was one too many: the ValueError ends the
\* runner, and the count is not taken back.
RejectSubmit(r) ==
    /\ st[r] = "admit"
    /\ PoolFull
    /\ RaiseFrom(r)
    /\ UNCHANGED <<limits, pos, succeeded, queue, pool, submitted, steps,
                   timedOut, node, seen>>

\* The edges are taken in their order, whichever it is.
NextEdge(p) == CHOOSE b \in BranchesOf(p) : st[b] = "absent"

\* A branch is submitted; when it was the last, the successes are counted from
\* zero.
Submit(r) ==
    LET b == NextEdge(Item(r)) IN
    /\ st[r] = "admit"
    /\ ~PoolFull
    /\ b \in Branches /\ st[b] = "absent"
    /\ pool' = Append(pool, b)
    /\ st' = [st EXCEPT
           ![b] = "queued",
           ![r] = IF \E c \in BranchesOf(Item(r)) : c # b /\ st[c] = "absent"
                  THEN "submit" ELSE "collect"]
    /\ succeeded' = [succeeded EXCEPT ![r] = 0]
    /\ UNCHANGED <<limits, pos, queue, submitted, steps, timedOut, node, seen,
                   outcome>>

\* A thread of the pool takes the oldest branch.
TakeBranch ==
    /\ pool # <<>>
    /\ Cardinality(InPool) < PoolSize
    /\ st' = [st EXCEPT ![Head(pool)] = "check"]
    /\ pool' = Tail(pool)
    /\ UNCHANGED <<limits, pos, succeeded, queue, submitted, steps, timedOut,
                   node, seen, outcome>>

\* Mutant of OfParallel: the parallel of the event is not compared, so that a
\* branch of a parallel inside the branch counts as well.
OfParallelAny(p, e, t) == e.type = t

\* The event that a branch of p itself has ended so.
OfParallel(p, e, t) == e.type = t /\ ParallelOf[e.of] = p

\* The queue of p after its first event was taken and counted: the sentinel is
\* put behind what is there when it was the last success.
AfterTurn(p, count) ==
    [queue EXCEPT ![p] = IF count = Cardinality(BranchesOf(p))
                                /\ OfParallel(p, Head(@), "branchSucceeded")
                         THEN Append(Tail(@), NoMore) ELSE Tail(@)]

\* Mutant of CollectFailure: a branch that failed is passed on and no more.
CollectFailureGoesOn(r) ==
    LET p == Item(r) IN
    /\ st[r] = "collect" /\ queue[p] # <<>>
    /\ OfParallel(p, Head(queue[p]), "branchFailed")
    /\ Yield(r, Head(queue[p]), [queue EXCEPT ![p] = Tail(@)], FALSE)
    /\ UNCHANGED <<limits, st, pos, succeeded, pool, submitted, steps,
                   timedOut, node>>

\* The collecting loop takes the failure of a branch: it is passed on, and the
\* runner fails, the root with it the run.
CollectFailure(r) ==
    LET p == Item(r)
        q == [queue EXCEPT ![p] = Tail(@)]
    IN
    /\ st[r] = "collect" /\ queue[p] # <<>>
    /\ OfParallel(p, Head(queue[p]), "branchFailed")
    /\ queue' = IF r = Root THEN q
                ELSE [q EXCEPT ![ParallelOf[r]] = Append(@, Head(queue[p]))]
    /\ \E closed \in Closes(r) :
          IF closed
          THEN st' = [st EXCEPT ![r] = "done"] /\ outcome' = "abandoned"
          ELSE RaiseFrom(r)
    /\ UNCHANGED <<limits, pos, succeeded, pool, submitted, steps, timedOut,
                   node, seen>>

\* It takes any other event, passes it on and counts the successes.
Collect(r) ==
    LET p     == Item(r)
        e     == Head(queue[p])
        count == IF OfParallel(p, e, "branchSucceeded")
                 THEN succeeded[r] + 1 ELSE succeeded[r]
    IN
    /\ st[r] = "collect" /\ queue[p] # <<>>
    /\ e # NoMore /\ ~OfParallel(p, e, "branchFailed")
    /\ succeeded' = [succeeded EXCEPT ![r] = count]
    /\ \E closed \in Closes(r) :
          /\ Yield(r, e, AfterTurn(p, count), closed)
          /\ st' = IF closed \/ Ends(r, e) THEN [st EXCEPT ![r] = "done"] ELSE st
    /\ UNCHANGED <<limits, pos, pool, submitted, steps, timedOut, node>>

CollectNone(r) ==
    /\ st[r] = "collect"
    /\ queue[Item(r)] # <<>> /\ Head(queue[Item(r)]) = NoMore
    /\ queue' = [queue EXCEPT ![Item(r)] = Tail(@)]
    /\ st' = [st EXCEPT ![r] = "wait"]
    /\ UNCHANGED <<limits, pos, succeeded, pool, submitted, steps, timedOut,
                   node, seen, outcome>>

\* Mutant of Join: the futures are not waited for.
JoinNoWait(r) ==
    /\ st[r] = "wait"
    /\ GoOn(r)
    /\ UNCHANGED <<limits, succeeded, queue, pool, submitted, steps, timedOut,
                   node, seen, outcome>>

\* wait(futures), and on to the node the branches lead to, if there is one.
Join(r) ==
    /\ st[r] = "wait"
    /\ \A b \in BranchesOf(Item(r)) : st[b] = "done"
    /\ GoOn(r)
    /\ UNCHANGED <<limits, succeeded, queue, pool, submitted, steps, timedOut,
                   node, seen, outcome>>

-----------------------------------------------------------------------------
(* The end of a runner.                                                     *)

\* _run_parallel_node tells the parallel how the branch has ended ...
BranchEnds(b) ==
    /\ b # Root
    /\ st[b] \in {"leave", "fail"}
    /\ Yield(b, BranchEvent(b, IF st[b] = "leave" THEN "branchSucceeded"
                               ELSE "branchFailed"), queue, FALSE)
    /\ st' = [st EXCEPT ![b] = "ending"]
    /\ UNCHANGED <<limits, pos, succeeded, pool, submitted, steps, timedOut, node>>

\* Mutant of BranchDone: the callback is registered twice.
BranchDoneTwice(b) ==
    /\ st[b] = "ending"
    /\ st' = [st EXCEPT ![b] = "done"]
    /\ submitted' = submitted - 2
    /\ UNCHANGED <<limits, pos, succeeded, queue, pool, steps, timedOut, node,
                   seen, outcome>>

\* ... and its future is done, which calls task_done_callback.
BranchDone(b) ==
    /\ st[b] = "ending"
    /\ st' = [st EXCEPT ![b] = "done"]
    /\ submitted' = submitted - 1
    /\ UNCHANGED <<limits, pos, succeeded, queue, pool, steps, timedOut, node,
                   seen, outcome>>

\* run(): the graph is through, with handled errors or without.
RunEnds ==
    /\ st[Root] = "leave"
    /\ st' = [st EXCEPT ![Root] = "done"]
    /\ outcome' = IF \E n \in Nodes : node[n] = "exception"
                  THEN "partial-succeeded" ELSE "succeeded"
    /\ UNCHANGED <<limits, pos, succeeded, queue, pool, submitted, steps,
                   timedOut, node, seen>>

\* The consumer closes at an event that is left out here: the run has begun, a
\* node has begun, or a chunk of its text.  The branches are not told.
Abandon ==
    /\ st[Root] = "run" \/ (st[Root] = "check" /\ pos[Root] = 1)
    /\ st' = [st EXCEPT ![Root] = "done"]
    /\ outcome' = "abandoned"
    /\ UNCHANGED <<limits, pos, succeeded, queue, pool, submitted, steps,
                   timedOut, node, seen>>

TimePasses ==
    /\ ~timedOut
    /\ timedOut' = TRUE
    /\ UNCHANGED <<limits, st, pos, succeeded, queue, pool, submitted, steps,
                   node, seen, outcome>>

-----------------------------------------------------------------------------

Init ==
    /\ limits \in Limits
    /\ st = [r \in Runners |-> IF r = Root THEN "check" ELSE "absent"]
    /\ pos = [r \in Runners |-> 1]
    /\ succeeded = [r \in Runners |-> 0]
    /\ queue = [p \in Parallels |-> <<>>]
    /\ pool = <<>> /\ submitted = 0 /\ steps = 0 /\ timedOut = FALSE
    /\ node = [n \in Nodes |-> "idle"]
    /\ seen = [n \in Nodes |-> "idle"]
    /\ outcome = "running"

Run(r) ==
    \/ CheckLimits(r) \/ NodeStarts(r) \/ NodeRaises(r)
    \/ \E t \in NodeResults : NodeEnds(r, t)
    \/ CountSubmit(r) \/ RejectSubmit(r) \/ Submit(r)
    \/ Collect(r) \/ CollectFailure(r) \/ CollectNone(r) \/ Join(r)
    \/ BranchEnds(r) \/ BranchDone(r)

Next ==
    \/ \E r \in Runners : Run(r)
    \/ TakeBranch \/ RunEnds \/ Abandon \/ TimePasses

Spec == Init /\ [][Next]_vars

(* A thread that has something to do does it, and a node comes to an end.   *)
FairSpec ==
    /\ Spec
    /\ \A r \in Runners : WF_vars(Run(r))
    /\ WF_vars(TakeBranch) /\ WF_vars(RunEnds)

-----------------------------------------------------------------------------
(* Properties.                                                              *)

Events == [type : NodeResults, of : Nodes]
          \cup [type : {"branchSucceeded", "branchFailed"}, of : Branches]
          \cup {NoMore}

States == {"absent", "queued", "check", "begin", "run", "submit", "admit",
           "collect", "wait", "leave", "fail", "ending", "done"}

\* Every variable has its type.
TypeOK ==
    /\ limits \in Limits
    /\ st \in [Runners -> States]
    /\ pos \in [Runners -> Nat \ {0}]
    /\ \A r \in Runners : pos[r] \in DOMAIN Route[r]
    /\ succeeded \in [Runners -> Nat]
    /\ queue \in [Parallels -> Seq(Events)]
    /\ pool \in Seq(Branches)
    /\ submitted \in Nat /\ steps \in Nat /\ timedOut \in BOOLEAN
    /\ node \in [Nodes -> {"idle", "started"} \cup NodeResults]
    /\ seen \in [Nodes -> {"idle"} \cup NodeResults]
    /\ outcome \in {"running", "succeeded", "partial-succeeded", "failed", "abandoned"}

\* A run that is reported as succeeded, fully or partially, is over and was
\* told of in full: no branch is left in the pool, every node that was started
\* has reported its end through all the queues above it, and none has failed.
SuccessIsComplete ==
    outcome \in {"succeeded", "partial-succeeded"} =>
        /\ Unfinished = {}
        /\ seen = node
        /\ \A n \in Nodes : node[n] \notin {"started", "failed"}

\* The nodes behind a parallel wait for all its branches and for all that they
\* have to tell.
JoinIsLast ==
    \A r \in Runners : \A i \in 1..(pos[r] - 1) :
        LET p == Route[r][i] IN
        p \in Parallels =>
            /\ queue[p] = <<>>
            /\ \A b \in BranchesOf(p) : st[b] = "done"

\* The step limit is checked before the step is counted, by every thread on its
\* own: it can be exceeded by the threads that run at the same time, no more.
StepsBounded == steps <= limits.steps + PoolSize + 1

\* MAX_SUBMIT_COUNT bounds the branches that are queued or running at a time,
\* although counting and checking are apart.
PoolBounded == Cardinality(Unfinished) <= limits.submit

\* Both limits hold, up to the races of the threads that count and check.
LimitsInv == StepsBounded /\ PoolBounded

\* With a thread for every branch that waits for others and one more, the run
\* comes to an end and leaves no branch behind, whatever fails on the way.
RunComesToAnEnd == <>(outcome # "running" /\ Unfinished = {})

\* WORKFLOW_MAX_EXECUTION_TIME, "maximum execution time in seconds for a single
\* workflow": as long as its nodes come to an end, so does the run.
RunIsLimitedInTime == <>(outcome # "running")
=============================================================================
