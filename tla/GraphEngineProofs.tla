------------------------- MODULE GraphEngineProofs -------------------------
(***************************************************************************)
(* Proofs about GraphEngine, for any graph, any pool and any limits.        *)
(*   TypeCorrect       the type invariant                                   *)
(*   PoolStaysBounded  the branches queued or running                       *)
(*   StepsStayBounded  the steps beyond the limit                           *)
(* all from EngineInv: Positions and PoolHeld say who can take which step,  *)
(* Counts what the counters count, Messages what the queues hold.           *)
(*   JoinComesLast     a join leaves nothing of its branches, from JoinInv  *)
(*   SuccessComesLast  and a success nothing of the run, from ReportInv     *)
(***************************************************************************)
EXTENDS GraphEngine, FiniteSetTheorems, WellFoundedInduction, TLAPS

\* Where the runners are: the threads of the nodes are at nodes, those of the
\* parallels at parallels, and the root is in no pool.
Positions ==
    /\ st \in [Runners -> States]
    /\ pos \in [Runners -> Nat \ {0}]
    /\ \A r \in Runners :
        /\ pos[r] \in DOMAIN Route[r]
        /\ st[r] \in {"check", "begin", "run"} => Item(r) \in Nodes
        /\ st[r] \in {"submit", "admit", "collect", "wait"} => Item(r) \in Parallels
        /\ st[r] \in {"absent", "queued"} => pos[r] = 1
    /\ st[Root] \notin {"absent", "queued", "fail", "ending"}

\* The pool holds branches that are queued, each of them once.
PoolHeld ==
    /\ pool \in Seq(Branches)
    /\ \A i \in DOMAIN pool : st[pool[i]] = "queued"
    /\ \A i, j \in DOMAIN pool : pool[i] = pool[j] => i = j

\* What is in the queues and what the consumer was told.
Messages ==
    /\ succeeded \in [Runners -> Nat]
    /\ queue \in [Parallels -> Seq(Events)]
    /\ node \in [Nodes -> {"idle", "started"} \cup NodeResults]
    /\ seen \in [Nodes -> {"idle"} \cup NodeResults]
    /\ outcome \in {"running", "succeeded", "partial-succeeded", "failed", "abandoned"}

-----------------------------------------------------------------------------
(* Where a runner goes.                                                     *)

\* A runner that has a branch or a node behind it stays on its route.
LEMMA GoOnKeepsPositions ==
    ASSUME Positions, NEW r \in Runners, st[r] \in {"run", "wait"}, GoOn(r)
    PROVE  Positions'
<1>0. /\ Route \in [Runners -> Seq(Nodes \cup Parallels)]
      /\ Root \in Runners /\ pos[r] \in Nat \ {0}
  BY RouteAssumption, RunnerAssumption DEF Positions
<1>1. CASE st' = [st EXCEPT ![r] = "leave"] /\ pos' = pos
  BY <1>0, <1>1 DEF Positions, Item, States
<1>2. ASSUME pos[r] < Len(Route[r]), pos' = [pos EXCEPT ![r] = @ + 1],
             st' = [st EXCEPT ![r] = IF Route[r][pos[r] + 1] \in Nodes
                                     THEN "check" ELSE "submit"]
      PROVE  Positions'
  <2>1. pos[r] + 1 \in DOMAIN Route[r] /\ Route[r][pos[r] + 1] \in Nodes \cup Parallels
    BY <1>0, <1>2
  <2>2. st' \in [Runners -> States] /\ pos' \in [Runners -> Nat \ {0}]
    BY <1>0, <1>2 DEF Positions, States
  <2>3. ASSUME NEW q \in Runners
        PROVE  /\ pos'[q] \in DOMAIN Route[q]
               /\ st'[q] \in {"check", "begin", "run"} => Item(q)' \in Nodes
               /\ st'[q] \in {"submit", "admit", "collect", "wait"} => Item(q)' \in Parallels
               /\ st'[q] \in {"absent", "queued"} => pos'[q] = 1
    <3>1. CASE q = r
      <4>1. pos'[q] = pos[r] + 1 /\ Item(q)' = Route[r][pos[r] + 1]
        BY <1>0, <1>2, <3>1 DEF Positions, Item
      <4>2. st'[q] = IF Route[r][pos[r] + 1] \in Nodes THEN "check" ELSE "submit"
        BY <1>2, <3>1 DEF Positions
      <4>. QED
        BY <2>1, <3>1, <4>1, <4>2
    <3>2. CASE q # r
      BY <1>2, <3>2 DEF Positions, Item
    <3>. QED
      BY <3>1, <3>2
  <2>4. st'[Root] \notin {"absent", "queued", "fail", "ending"}
    BY <1>0, <1>2 DEF Positions
  <2>. QED
    BY <2>2, <2>3, <2>4 DEF Positions
<1>. QED
  BY <1>1, <1>2 DEF GoOn

\* A runner that stays where it is on its route, with a state that fits.
LEMMA MoveKeepsPositions ==
    ASSUME Positions, pos' = pos, NEW r \in Runners, NEW x \in States,
           st' = [st EXCEPT ![r] = x],
           x \in {"check", "begin", "run"} => Item(r) \in Nodes,
           x \in {"submit", "admit", "collect", "wait"} => Item(r) \in Parallels,
           x \notin {"absent", "queued"},
           r = Root => x \notin {"fail", "ending"}
    PROVE  Positions'
<1>1. Root \in Runners
  BY RunnerAssumption
<1>2. st' \in [Runners -> States] /\ pos' \in [Runners -> Nat \ {0}]
  BY DEF Positions
<1>3. ASSUME NEW q \in Runners
      PROVE  /\ pos'[q] \in DOMAIN Route[q]
             /\ st'[q] \in {"check", "begin", "run"} => Item(q)' \in Nodes
             /\ st'[q] \in {"submit", "admit", "collect", "wait"} => Item(q)' \in Parallels
             /\ st'[q] \in {"absent", "queued"} => pos'[q] = 1
  <2>1. CASE q = r
    BY <2>1 DEF Positions, Item
  <2>2. CASE q # r
    BY <2>2 DEF Positions, Item
  <2>. QED
    BY <2>1, <2>2
<1>4. st'[Root] \notin {"absent", "queued", "fail", "ending"}
  BY <1>1 DEF Positions
<1>. QED
  BY <1>2, <1>3, <1>4 DEF Positions

LEMMA RunKeepsPositions ==
    ASSUME Positions, PoolHeld, NEW r \in Runners, Run(r)
    PROVE  Positions'
<1>1. CASE CheckLimits(r)
  <2>1. Item(r) \in Nodes
    BY <1>1 DEF CheckLimits, Positions
  <2>2. PICK x \in {"begin", "fail", "done"} :
          st' = [st EXCEPT ![r] = x] /\ (r = Root => x # "fail")
    BY <1>1 DEF CheckLimits, RaiseFrom
  <2>3. pos' = pos
    BY <1>1 DEF CheckLimits
  <2>. QED
    BY <2>1, <2>2, <2>3, MoveKeepsPositions DEF States
<1>2. CASE NodeStarts(r)
  <2>1. Item(r) \in Nodes /\ st' = [st EXCEPT ![r] = "run"] /\ pos' = pos
    BY <1>2 DEF NodeStarts, Positions
  <2>. QED
    BY <2>1, MoveKeepsPositions DEF States
<1>3. CASE NodeRaises(r)
  <2>1. PICK x \in {"fail", "done"} :
          st' = [st EXCEPT ![r] = x] /\ (r = Root => x # "fail") /\ pos' = pos
    BY <1>3 DEF NodeRaises
  <2>. QED
    BY <2>1, MoveKeepsPositions DEF States
<1>4. ASSUME NEW t \in NodeResults, NodeEnds(r, t) PROVE Positions'
  <2>1. CASE GoOn(r)
    BY <1>4, <2>1, GoOnKeepsPositions DEF NodeEnds
  <2>2. CASE st' = [st EXCEPT ![r] = "done"] /\ pos' = pos
    BY <2>2, MoveKeepsPositions DEF States
  <2>. QED
    BY <1>4, <2>1, <2>2 DEF NodeEnds
<1>5. CASE CountSubmit(r)
  <2>1. Item(r) \in Parallels /\ st' = [st EXCEPT ![r] = "admit"] /\ pos' = pos
    BY <1>5 DEF CountSubmit, Positions
  <2>. QED
    BY <2>1, MoveKeepsPositions DEF States
<1>6. CASE RejectSubmit(r)
  <2>1. PICK x \in {"fail", "done"} :
          st' = [st EXCEPT ![r] = x] /\ (r = Root => x # "fail") /\ pos' = pos
    BY <1>6 DEF RejectSubmit, RaiseFrom
  <2>. QED
    BY <2>1, MoveKeepsPositions DEF States
<1>7. CASE Submit(r)
  <2>1. PICK b \in Branches, x \in {"submit", "collect"} :
          st[b] = "absent" /\ st' = [st EXCEPT ![b] = "queued", ![r] = x] /\ pos' = pos
    BY <1>7 DEF Submit
  <2>2. b # r /\ b # Root /\ b \in Runners /\ Root \in Runners /\ Item(r) \in Parallels
    BY <1>7, <2>1, RunnerAssumption DEF Submit, Branches, Positions
  <2>3. st' \in [Runners -> States]
    BY <2>1 DEF Positions, States
  <2>4. ASSUME NEW q \in Runners
        PROVE  /\ pos'[q] \in DOMAIN Route[q]
               /\ st'[q] \in {"check", "begin", "run"} => Item(q)' \in Nodes
               /\ st'[q] \in {"submit", "admit", "collect", "wait"} => Item(q)' \in Parallels
               /\ st'[q] \in {"absent", "queued"} => pos'[q] = 1
    <3>1. Item(q)' = Item(q) /\ pos'[q] = pos[q]
      BY <2>1 DEF Item
    <3>2. CASE q = b
      BY <2>1, <2>2, <3>1, <3>2 DEF Positions
    <3>3. CASE q = r
      BY <2>1, <2>2, <3>1, <3>3 DEF Positions
    <3>4. CASE q # b /\ q # r
      <4>1. st'[q] = st[q]
        BY <2>1, <3>4 DEF Positions
      <4>. QED
        BY <3>1, <4>1 DEF Positions
    <3>. QED
      BY <3>2, <3>3, <3>4
  <2>5. st'[Root] \notin {"absent", "queued", "fail", "ending"}
    BY <2>1, <2>2 DEF Positions
  <2>. QED
    BY <2>1, <2>3, <2>4, <2>5 DEF Positions
<1>8. CASE Collect(r)
  <2>1. pos' = pos /\ (st' = st \/ st' = [st EXCEPT ![r] = "done"])
    BY <1>8 DEF Collect
  <2>2. CASE st' = st
    BY <2>1, <2>2 DEF Positions, Item
  <2>3. CASE st' = [st EXCEPT ![r] = "done"]
    BY <2>1, <2>3, MoveKeepsPositions DEF States
  <2>. QED
    BY <2>1, <2>2, <2>3
<1>9. CASE CollectFailure(r)
  <2>1. PICK x \in {"fail", "done"} :
          st' = [st EXCEPT ![r] = x] /\ (r = Root => x # "fail") /\ pos' = pos
    BY <1>9 DEF CollectFailure, RaiseFrom
  <2>. QED
    BY <2>1, MoveKeepsPositions DEF States
<1>10. CASE CollectNone(r)
  <2>1. Item(r) \in Parallels /\ st' = [st EXCEPT ![r] = "wait"] /\ pos' = pos
    BY <1>10 DEF CollectNone, Positions
  <2>. QED
    BY <2>1, MoveKeepsPositions DEF States
<1>11. CASE Join(r)
  BY <1>11, GoOnKeepsPositions DEF Join
<1>12. CASE BranchEnds(r)
  <2>1. r # Root /\ st' = [st EXCEPT ![r] = "ending"] /\ pos' = pos
    BY <1>12 DEF BranchEnds
  <2>. QED
    BY <2>1, MoveKeepsPositions DEF States
<1>13. CASE BranchDone(r)
  <2>1. st' = [st EXCEPT ![r] = "done"] /\ pos' = pos
    BY <1>13 DEF BranchDone
  <2>. QED
    BY <2>1, MoveKeepsPositions DEF States
<1>. QED
  BY <1>1, <1>2, <1>3, <1>4, <1>5, <1>6, <1>7, <1>8, <1>9, <1>10, <1>11,
     <1>12, <1>13 DEF Run

LEMMA StepKeepsPositions == Positions /\ PoolHeld /\ [Next]_vars => Positions'
<1> SUFFICES ASSUME Positions, PoolHeld, [Next]_vars PROVE Positions'
  OBVIOUS
<1>0. Root \in Runners
  BY RunnerAssumption
<1>1. ASSUME NEW r \in Runners, Run(r) PROVE Positions'
  BY <1>1, RunKeepsPositions
<1>2. CASE TakeBranch
  <2>1. Head(pool) \in Branches /\ st[Head(pool)] = "queued"
    BY <1>2 DEF TakeBranch, PoolHeld
  <2>2. Head(pool) \in Runners /\ Item(Head(pool)) = Route[Head(pool)][1]
    BY <2>1 DEF Branches, Positions, Item
  <2>3. Item(Head(pool)) \in Nodes
    BY <2>2, RouteAssumption
  <2>4. st' = [st EXCEPT ![Head(pool)] = "check"] /\ pos' = pos
    BY <1>2 DEF TakeBranch
  <2>. QED
    BY <2>2, <2>3, <2>4, MoveKeepsPositions DEF States
<1>3. CASE RunEnds \/ Abandon
  <2>1. st' = [st EXCEPT ![Root] = "done"] /\ pos' = pos
    BY <1>3 DEF RunEnds, Abandon
  <2>. QED
    BY <1>0, <2>1, MoveKeepsPositions DEF States
<1>4. CASE TimePasses \/ UNCHANGED vars
  <2>1. st' = st /\ pos' = pos
    BY <1>4 DEF TimePasses, vars
  <2>. QED
    BY <2>1 DEF Positions, Item
<1>. QED
  BY <1>1, <1>2, <1>3, <1>4 DEF Next

-----------------------------------------------------------------------------
(***************************************************************************)
(* The counters.  A branch is counted from before it is submitted until it  *)
(* is through, and a runner that has counted and not submitted is one       *)
(* more: when the check lets it pass, there is room for its branch.  A step *)
(* is counted by a runner that passed the check before, of which there are  *)
(* the threads of the pool and the root.                                    *)
(***************************************************************************)

Admitting == {r \in Runners : st[r] = "admit"}
Beginning == {r \in Runners : st[r] = "begin"}

Counts ==
    /\ limits \in Limits
    /\ submitted \in Nat /\ steps \in Nat
    /\ Cardinality(InPool) <= PoolSize
    /\ Cardinality(Unfinished) + Cardinality(Admitting) <= submitted
    /\ PoolBounded
    /\ steps + Cardinality(Beginning) <= limits.steps + PoolSize + 1

\* A move that no counter takes notice of.
Plain(r) ==
    /\ UNCHANGED <<limits, pool, submitted, steps>>
    /\ st[r] \notin {"absent", "queued", "done"}
    /\ \E x \in States \ {"absent", "queued", "admit", "begin"} :
          st' = [st EXCEPT ![r] = x] /\ (x = "done" => r = Root)

\* A runner passes the check of the limits.
PassesCheck(r) ==
    /\ st[r] = "check" /\ steps <= limits.steps
    /\ st' = [st EXCEPT ![r] = "begin"]
    /\ UNCHANGED <<limits, pool, submitted, steps>>

LEMMA GoOnMoves ==
    ASSUME NEW r \in Runners, GoOn(r)
    PROVE  \E x \in {"leave", "check", "submit"} : st' = [st EXCEPT ![r] = x]
BY DEF GoOn

LEMMA PlainMove ==
    ASSUME NEW r \in Runners, NEW x \in States \ {"absent", "queued", "admit", "begin"},
           st' = [st EXCEPT ![r] = x], x = "done" => r = Root,
           st[r] \notin {"absent", "queued", "done"},
           UNCHANGED <<limits, pool, submitted, steps>>
    PROVE  Plain(r)
BY DEF Plain

LEMMA RaiseMove ==
    ASSUME NEW r \in Runners, st' = [st EXCEPT ![r] = IF r = Root THEN "done" ELSE "fail"],
           st[r] \notin {"absent", "queued", "done"},
           UNCHANGED <<limits, pool, submitted, steps>>
    PROVE  Plain(r)
<1>1. CASE r = Root
  BY <1>1, PlainMove DEF States
<1>2. CASE r # Root
  BY <1>2, PlainMove DEF States
<1>. QED
  BY <1>1, <1>2

\* What the actions are to the counters.
LEMMA Moves ==
    ASSUME Positions, Counts, [Next]_vars
    PROVE  \/ \E r \in Runners : \/ Plain(r) \/ PassesCheck(r) \/ NodeStarts(r)
                                 \/ CountSubmit(r) \/ Submit(r) \/ BranchDone(r)
           \/ TakeBranch
           \/ UNCHANGED <<limits, st, pool, submitted, steps>>
<1>0. Root \in Runners /\ limits.steps \in Nat
  BY RunnerAssumption, LimitAssumption DEF Counts
<1>1. ASSUME NEW r \in Runners, Run(r)
      PROVE  \/ Plain(r) \/ PassesCheck(r) \/ NodeStarts(r)
             \/ CountSubmit(r) \/ Submit(r) \/ BranchDone(r)
             \/ UNCHANGED <<limits, st, pool, submitted, steps>>
  <2>1. CASE CheckLimits(r)
    <3>1. CASE LimitReached(r)
      BY <2>1, <3>1, RaiseMove DEF CheckLimits, RaiseFrom
    <3>2. CASE ~LimitReached(r)
      <4>1. steps <= limits.steps
        BY <1>0, <3>2 DEF LimitReached, Counts
      <4>. QED
        BY <2>1, <3>2, <4>1 DEF CheckLimits, PassesCheck
    <3>. QED
      BY <3>1, <3>2
  <2>2. CASE NodeRaises(r)
    BY <2>2, RaiseMove DEF NodeRaises
  <2>3. ASSUME NEW t \in NodeResults, NodeEnds(r, t) PROVE Plain(r)
    <3>1. CASE GoOn(r)
      BY <2>3, <3>1, GoOnMoves, PlainMove DEF NodeEnds, States
    <3>2. CASE r = Root /\ st' = [st EXCEPT ![r] = "done"]
      BY <2>3, <3>2, PlainMove DEF NodeEnds, States
    <3>3. PICK closed \in Closes(r) :
            IF closed \/ Ends(r, NodeEvent(Item(r), t))
            THEN st' = [st EXCEPT ![r] = "done"] /\ UNCHANGED pos
            ELSE GoOn(r)
      BY <2>3 DEF NodeEnds
    <3>4. closed \/ Ends(r, NodeEvent(Item(r), t)) => r = Root
      BY <3>3 DEF Closes, Ends
    <3>. QED
      BY <3>1, <3>2, <3>3, <3>4
  <2>4. CASE RejectSubmit(r)
    BY <2>4, RaiseMove DEF RejectSubmit, RaiseFrom
  <2>5. CASE Collect(r)
    <3>1. CASE r = Root /\ st' = [st EXCEPT ![r] = "done"]
      BY <2>5, <3>1, PlainMove DEF Collect, States
    <3>2. PICK closed \in Closes(r) :
            st' = IF closed \/ Ends(r, Head(queue[Item(r)]))
                  THEN [st EXCEPT ![r] = "done"] ELSE st
      BY <2>5 DEF Collect
    <3>3. closed \/ Ends(r, Head(queue[Item(r)])) => r = Root
      BY <3>2 DEF Closes, Ends
    <3>4. UNCHANGED <<limits, pool, submitted, steps>>
      BY <2>5 DEF Collect
    <3>. QED
      BY <3>1, <3>2, <3>3, <3>4
  <2>6. CASE CollectFailure(r)
    <3>1. st' = [st EXCEPT ![r] = IF r = Root THEN "done" ELSE "fail"]
      BY <2>6 DEF CollectFailure, RaiseFrom, Closes
    <3>. QED
      BY <2>6, <3>1, RaiseMove DEF CollectFailure
  <2>7. CASE CollectNone(r)
    BY <2>7, PlainMove DEF CollectNone, States
  <2>8. CASE Join(r)
    BY <2>8, GoOnMoves, PlainMove DEF Join, States
  <2>9. CASE BranchEnds(r)
    BY <2>9, PlainMove DEF BranchEnds, States
  <2>. QED
    BY <1>1, <2>1, <2>2, <2>3, <2>4, <2>5, <2>6, <2>7, <2>8, <2>9 DEF Run
<1>2. CASE RunEnds
  BY <1>0, <1>2, PlainMove DEF RunEnds, States
<1>3. CASE Abandon
  BY <1>0, <1>3, PlainMove DEF Abandon, States
<1>4. CASE TimePasses \/ UNCHANGED vars
  BY <1>4 DEF TimePasses, vars
<1>. QED
  BY <1>1, <1>2, <1>3, <1>4 DEF Next

LEMMA StepKeepsPool ==
    ASSUME Positions, Counts, PoolHeld, [Next]_vars
    PROVE  PoolHeld'
<1>1. ASSUME NEW r \in Runners, pool' = pool, st[r] # "queued",
             NEW x, st' = [st EXCEPT ![r] = x]
      PROVE  PoolHeld'
  BY <1>1 DEF PoolHeld, Positions, Branches
<1>2. ASSUME NEW r \in Runners, Submit(r) PROVE PoolHeld'
  <2>1. PICK b \in Branches, x \in States :
          /\ st[b] = "absent" /\ pool' = Append(pool, b)
          /\ st' = [st EXCEPT ![b] = "queued", ![r] = x]
    BY <1>2 DEF Submit, States
  <2>2. st[r] = "admit" /\ b \in Runners /\ r # b
    BY <1>2, <2>1 DEF Submit, Branches
  <2>3. pool' \in Seq(Branches) /\ Len(pool') = Len(pool) + 1
        /\ pool'[Len(pool) + 1] = b
        /\ \A i \in DOMAIN pool : i \in DOMAIN pool' /\ pool'[i] = pool[i]
        /\ DOMAIN pool' = DOMAIN pool \cup {Len(pool) + 1}
    BY <2>1 DEF PoolHeld
  <2>4. st'[b] = "queued"
    BY <2>1, <2>2 DEF Positions
  <2>5. ASSUME NEW i \in DOMAIN pool
        PROVE  st'[pool[i]] = "queued" /\ pool[i] # b
    <3>1. st[pool[i]] = "queued" /\ pool[i] \in Runners
      BY DEF PoolHeld, Branches
    <3>. QED
      BY <2>1, <2>2, <3>1 DEF Positions
  <2>. QED
    BY <2>3, <2>4, <2>5 DEF PoolHeld
<1>3. CASE TakeBranch
  <2>1. pool # <<>> /\ pool' = Tail(pool) /\ st' = [st EXCEPT ![Head(pool)] = "check"]
    BY <1>3 DEF TakeBranch
  <2>2. pool \in Seq(Branches) /\ Head(pool) = pool[1] /\ 1 \in DOMAIN pool
    BY <2>1 DEF PoolHeld
  <2>3. /\ pool' \in Seq(Branches) /\ Len(pool') = Len(pool) - 1
        /\ \A i \in DOMAIN pool' : i + 1 \in DOMAIN pool /\ pool'[i] = pool[i + 1]
                                   /\ i + 1 # 1
    BY <2>1, <2>2
  <2>4. ASSUME NEW i \in DOMAIN pool' PROVE st'[pool'[i]] = "queued"
    <3>1. pool[i + 1] # pool[1] /\ st[pool[i + 1]] = "queued" /\ pool[i + 1] \in Runners
      BY <2>2, <2>3 DEF PoolHeld, Branches
    <3>. QED
      BY <2>1, <2>2, <2>3, <3>1 DEF Positions
  <2>5. ASSUME NEW i \in DOMAIN pool', NEW j \in DOMAIN pool', pool'[i] = pool'[j]
        PROVE  i = j
    <3>1. i + 1 = j + 1
      BY <2>3, <2>5 DEF PoolHeld
    <3>2. i \in Nat /\ j \in Nat
      BY <2>3
    <3>. QED
      BY <3>1, <3>2
  <2>. QED
    BY <2>3, <2>4, <2>5 DEF PoolHeld
<1>4. CASE UNCHANGED <<limits, st, pool, submitted, steps>>
  BY <1>4 DEF PoolHeld
<1>5. ASSUME NEW r \in Runners, Plain(r) \/ PassesCheck(r) \/ NodeStarts(r)
             \/ CountSubmit(r) \/ BranchDone(r)
      PROVE  PoolHeld'
  BY <1>1, <1>5 DEF Plain, PassesCheck, NodeStarts, CountSubmit, BranchDone
<1>. QED
  BY <1>2, <1>3, <1>4, <1>5, Moves

LEMMA RunnersFinite ==
    /\ IsFiniteSet(Branches) /\ IsFiniteSet(Runners)
    /\ \A S \in SUBSET Runners : IsFiniteSet(S) /\ Cardinality(S) \in Nat
    /\ \A S, T \in SUBSET Runners : S \subseteq T => Cardinality(S) <= Cardinality(T)
<1>1. IsFiniteSet(Runners)
  BY RunnerAssumption
<1>2. \A S \in SUBSET Runners : IsFiniteSet(S) /\ Cardinality(S) \in Nat
  BY <1>1, FS_Subset, FS_CardinalityType
<1>3. ASSUME NEW S \in SUBSET Runners, NEW T \in SUBSET Runners, S \subseteq T
      PROVE  Cardinality(S) <= Cardinality(T)
  BY <1>2, <1>3, FS_Subset
<1>. QED
  BY <1>1, <1>2, <1>3 DEF Branches

LEMMA Counted ==
    /\ InPool \subseteq Runners /\ Unfinished \subseteq Runners
    /\ Admitting \subseteq Runners /\ Beginning \subseteq Runners
    /\ Cardinality(InPool) \in Nat /\ Cardinality(Unfinished) \in Nat
    /\ Cardinality(Admitting) \in Nat /\ Cardinality(Beginning) \in Nat
<1>1. /\ InPool \subseteq Runners /\ Unfinished \subseteq Runners
      /\ Admitting \subseteq Runners /\ Beginning \subseteq Runners
  BY DEF InPool, Unfinished, Admitting, Beginning, Branches
<1>. QED
  BY <1>1, RunnersFinite

LEMMA CountedNext ==
    /\ InPool' \subseteq Runners /\ Unfinished' \subseteq Runners
    /\ Admitting' \subseteq Runners /\ Beginning' \subseteq Runners
    /\ Cardinality(InPool') \in Nat /\ Cardinality(Unfinished') \in Nat
    /\ Cardinality(Admitting') \in Nat /\ Cardinality(Beginning') \in Nat
<1>1. /\ InPool' \subseteq Runners /\ Unfinished' \subseteq Runners
      /\ Admitting' \subseteq Runners /\ Beginning' \subseteq Runners
  BY DEF InPool, Unfinished, Admitting, Beginning, Branches
<1>. QED
  BY <1>1, RunnersFinite

LEMMA LimitsAreNumbers ==
    ASSUME limits \in Limits
    PROVE  limits.steps \in Nat /\ limits.submit \in Nat /\ PoolSize \in Nat
BY LimitAssumption

\* When no set grows and the counters stay, the counts hold.
LEMMA NothingGrows ==
    ASSUME Counts, UNCHANGED <<limits, submitted, steps>>,
           InPool' \subseteq InPool, Unfinished' \subseteq Unfinished,
           Admitting' \subseteq Admitting, Beginning' \subseteq Beginning
    PROVE  Counts'
<1>1. /\ Cardinality(InPool') <= Cardinality(InPool)
      /\ Cardinality(Unfinished') <= Cardinality(Unfinished)
      /\ Cardinality(Admitting') <= Cardinality(Admitting)
      /\ Cardinality(Beginning') <= Cardinality(Beginning)
  BY Counted, CountedNext, RunnersFinite
<1>. QED
  BY <1>1, Counted, CountedNext, LimitsAreNumbers DEF Counts, PoolBounded

LEMMA StepKeepsCounts ==
    ASSUME Positions, PoolHeld, Counts, [Next]_vars
    PROVE  Counts'
<1>0. /\ st \in [Runners -> States] /\ Root \in Runners
      /\ limits.steps \in Nat /\ limits.submit \in Nat /\ PoolSize \in Nat
  BY RunnerAssumption, LimitsAreNumbers DEF Positions, Counts
<1>1. ASSUME NEW r \in Runners, Plain(r) PROVE Counts'
  <2>1. PICK x \in States \ {"absent", "queued", "admit", "begin"} :
          st' = [st EXCEPT ![r] = x] /\ (x = "done" => r = Root)
    BY <1>1 DEF Plain
  <2>2. st[r] \notin {"absent", "queued", "done"}
        /\ UNCHANGED <<limits, submitted, steps>>
    BY <1>1 DEF Plain
  <2>3. /\ InPool' \subseteq InPool /\ Unfinished' \subseteq Unfinished
        /\ Admitting' \subseteq Admitting /\ Beginning' \subseteq Beginning
    BY <1>0, <2>1, <2>2 DEF InPool, Unfinished, Admitting, Beginning, Branches
  <2>. QED
    BY <2>2, <2>3, NothingGrows
<1>2. ASSUME NEW r \in Runners, PassesCheck(r) PROVE Counts'
  <2>1. /\ InPool' = InPool /\ Unfinished' = Unfinished /\ Admitting' = Admitting
        /\ Beginning' \subseteq InPool \cup {Root}
    BY <1>0, <1>2 DEF PassesCheck, InPool, Unfinished, Admitting, Beginning, Branches
  <2>2. IsFiniteSet(InPool)
        /\ Cardinality(InPool \cup {Root}) <= Cardinality(InPool) + 1
        /\ InPool \cup {Root} \subseteq Runners
    BY <1>0, Counted, RunnersFinite, FS_AddElement
  <2>3. Cardinality(Beginning') <= Cardinality(InPool) + 1
    BY <2>1, <2>2, Counted, CountedNext, RunnersFinite
  <2>4. UNCHANGED <<limits, submitted, steps>> /\ steps <= limits.steps
    BY <1>2 DEF PassesCheck
  <2>. QED
    BY <1>0, <2>1, <2>3, <2>4, Counted, CountedNext DEF Counts, PoolBounded
<1>3. ASSUME NEW r \in Runners, NodeStarts(r) PROVE Counts'
  <2>1. /\ InPool' = InPool /\ Unfinished' = Unfinished /\ Admitting' = Admitting
        /\ Beginning' = Beginning \ {r} /\ r \in Beginning
    BY <1>0, <1>3 DEF NodeStarts, InPool, Unfinished, Admitting, Beginning, Branches
  <2>2. Cardinality(Beginning') = Cardinality(Beginning) - 1
    BY <2>1, Counted, RunnersFinite, FS_RemoveElement
  <2>3. UNCHANGED <<limits, submitted>> /\ steps' = steps + 1
    BY <1>3 DEF NodeStarts
  <2>. QED
    BY <1>0, <2>1, <2>2, <2>3, Counted, CountedNext DEF Counts, PoolBounded
<1>4. ASSUME NEW r \in Runners, CountSubmit(r) PROVE Counts'
  <2>1. /\ InPool' = InPool /\ Unfinished' = Unfinished /\ Beginning' = Beginning
        /\ Admitting' = Admitting \cup {r}
    BY <1>0, <1>4 DEF CountSubmit, InPool, Unfinished, Admitting, Beginning, Branches
  <2>2. Cardinality(Admitting') <= Cardinality(Admitting) + 1
    <3>1. IsFiniteSet(Admitting)
      BY Counted, RunnersFinite
    <3>2. Cardinality(Admitting \cup {r}) = IF r \in Admitting THEN Cardinality(Admitting)
                                             ELSE Cardinality(Admitting) + 1
      BY <3>1, FS_AddElement
    <3>. QED
      BY <2>1, <3>2, Counted
  <2>3. UNCHANGED <<limits, steps>> /\ submitted' = submitted + 1
    BY <1>4 DEF CountSubmit
  <2>. QED
    BY <1>0, <2>1, <2>2, <2>3, Counted, CountedNext DEF Counts, PoolBounded
<1>5. ASSUME NEW r \in Runners, Submit(r) PROVE Counts'
  <2>1. PICK b \in Branches, x \in {"submit", "collect"} :
          st[b] = "absent" /\ st' = [st EXCEPT ![b] = "queued", ![r] = x]
    BY <1>5 DEF Submit
  <2>2. /\ st[r] = "admit" /\ submitted <= limits.submit
        /\ UNCHANGED <<limits, submitted, steps>>
    BY <1>0, <1>5 DEF Submit, PoolFull, Counts
  <2>3. b # r /\ b \in Runners
    BY <2>1, <2>2 DEF Branches
  <2>4. /\ InPool' = InPool /\ Beginning' = Beginning
        /\ Unfinished' = Unfinished \cup {b} /\ b \notin Unfinished
        /\ Admitting' = Admitting \ {r} /\ r \in Admitting
    BY <1>0, <2>1, <2>2, <2>3 DEF InPool, Unfinished, Admitting, Beginning, Branches
  <2>5. /\ Cardinality(Unfinished') = Cardinality(Unfinished) + 1
        /\ Cardinality(Admitting') = Cardinality(Admitting) - 1
    BY <2>4, Counted, RunnersFinite, FS_AddElement, FS_RemoveElement
  <2>. QED
    BY <1>0, <2>2, <2>4, <2>5, Counted, CountedNext DEF Counts, PoolBounded
<1>6. ASSUME NEW r \in Runners, BranchDone(r) PROVE Counts'
  <2>1. r # Root
    BY <1>6 DEF BranchDone, Positions
  <2>2. /\ InPool' \subseteq InPool /\ Beginning' = Beginning /\ Admitting' = Admitting
        /\ Unfinished' = Unfinished \ {r} /\ r \in Unfinished
    BY <1>0, <1>6, <2>1 DEF BranchDone, InPool, Unfinished, Admitting, Beginning, Branches
  <2>3. /\ Cardinality(Unfinished') = Cardinality(Unfinished) - 1
        /\ Cardinality(InPool') <= Cardinality(InPool)
    BY <2>2, Counted, CountedNext, RunnersFinite, FS_RemoveElement
  <2>4. UNCHANGED <<limits, steps>> /\ submitted' = submitted - 1
    BY <1>6 DEF BranchDone
  <2>. QED
    BY <1>0, <2>2, <2>3, <2>4, Counted, CountedNext DEF Counts, PoolBounded
<1>7. CASE TakeBranch
  <2>1. pool # <<>> /\ Cardinality(InPool) < PoolSize
        /\ st' = [st EXCEPT ![Head(pool)] = "check"]
        /\ UNCHANGED <<limits, submitted, steps>>
    BY <1>7 DEF TakeBranch
  <2>2. Head(pool) \in Branches /\ st[Head(pool)] = "queued"
    BY <2>1 DEF PoolHeld
  <2>3. /\ InPool' = InPool \cup {Head(pool)} /\ Beginning' = Beginning
        /\ Admitting' = Admitting /\ Unfinished' = Unfinished
    BY <1>0, <2>1, <2>2 DEF InPool, Unfinished, Admitting, Beginning, Branches
  <2>4. Cardinality(InPool') <= Cardinality(InPool) + 1
    <3>1. IsFiniteSet(InPool)
      BY Counted, RunnersFinite
    <3>2. PICK b : b = Head(pool)
      OBVIOUS
    <3>3. Cardinality(InPool \cup {b}) <= Cardinality(InPool) + 1
      BY <3>1, Counted, FS_AddElement
    <3>. QED
      BY <2>3, <3>2, <3>3
  <2>. QED
    BY <1>0, <2>1, <2>3, <2>4, Counted, CountedNext DEF Counts, PoolBounded
<1>8. CASE UNCHANGED <<limits, st, pool, submitted, steps>>
  <2>1. /\ InPool' = InPool /\ Beginning' = Beginning
        /\ Admitting' = Admitting /\ Unfinished' = Unfinished
    BY <1>8 DEF InPool, Unfinished, Admitting, Beginning
  <2>. QED
    BY <1>8, <2>1, NothingGrows
<1>. QED
  BY <1>1, <1>2, <1>3, <1>4, <1>5, <1>6, <1>7, <1>8, Moves

-----------------------------------------------------------------------------
(* What the threads tell each other and the consumer.                       *)

\* Yielding an event of the graph keeps the queues and the consumer's view.
LEMMA YieldKeepsMessages ==
    ASSUME Messages, NEW r \in Runners, NEW e \in Events, e # NoMore,
           NEW q \in [Parallels -> Seq(Events)], NEW closed, Yield(r, e, q, closed)
    PROVE  /\ queue' \in [Parallels -> Seq(Events)]
           /\ seen' \in [Nodes -> {"idle"} \cup NodeResults]
           /\ outcome' \in {"running", "succeeded", "partial-succeeded", "failed", "abandoned"}
<1>1. CASE r = Root
  <2>1. ASSUME e.of \in Nodes PROVE e.type \in NodeResults
    <3>1. e \notin [type : {"branchSucceeded", "branchFailed"}, of : Branches]
      BY <2>1, RouteAssumption DEF Branches
    <3>. QED
      BY <3>1 DEF Events
  <2>2. queue' = q /\ seen' = (IF e.of \in Nodes THEN [seen EXCEPT ![e.of] = e.type] ELSE seen)
        /\ outcome' \in {outcome, "failed", "abandoned"}
    BY <1>1 DEF Yield
  <2>. QED
    BY <2>1, <2>2 DEF Messages
<1>2. CASE r # Root
  <2>1. ParallelOf[r] \in Parallels
    BY <1>2, RunnerAssumption DEF Branches
  <2>2. queue' = [q EXCEPT ![ParallelOf[r]] = Append(@, e)] /\ UNCHANGED <<seen, outcome>>
    BY <1>2 DEF Yield
  <2>. QED
    BY <2>1, <2>2 DEF Messages
<1>. QED
  BY <1>1, <1>2

LEMMA EventsOfNodes ==
    ASSUME NEW n \in Nodes, NEW t \in NodeResults
    PROVE  NodeEvent(n, t) \in Events /\ NodeEvent(n, t) # NoMore
BY RouteAssumption, RunnerAssumption DEF NodeEvent, Events, NoMore, NodeResults

LEMMA StepKeepsMessages ==
    ASSUME Positions, Messages, [Next]_vars
    PROVE  Messages'
<1>1. ASSUME NEW r \in Runners, Run(r) PROVE Messages'
  <2>1. CASE NodeRaises(r)
    <3>1. Item(r) \in Nodes /\ "failed" \in NodeResults
      BY <2>1 DEF NodeRaises, Positions, NodeResults
    <3>2. NodeEvent(Item(r), "failed") \in Events /\ NodeEvent(Item(r), "failed") # NoMore
      BY <3>1, EventsOfNodes
    <3>3. PICK closed : Yield(r, NodeEvent(Item(r), "failed"), queue, closed)
      BY <2>1 DEF NodeRaises
    <3>4. node' = [node EXCEPT ![Item(r)] = "failed"] /\ UNCHANGED succeeded
      BY <2>1 DEF NodeRaises
    <3>5. queue \in [Parallels -> Seq(Events)]
      BY DEF Messages
    <3>. QED
      BY <3>1, <3>2, <3>3, <3>4, <3>5, YieldKeepsMessages DEF Messages
  <2>2. ASSUME NEW t \in NodeResults, NodeEnds(r, t) PROVE Messages'
    <3>1. Item(r) \in Nodes
      BY <2>2 DEF NodeEnds, Positions
    <3>2. NodeEvent(Item(r), t) \in Events /\ NodeEvent(Item(r), t) # NoMore
      BY <3>1, EventsOfNodes
    <3>3. PICK closed : Yield(r, NodeEvent(Item(r), t), queue, closed)
      BY <2>2 DEF NodeEnds
    <3>4. node' = [node EXCEPT ![Item(r)] = t] /\ UNCHANGED succeeded
      BY <2>2 DEF NodeEnds
    <3>5. queue \in [Parallels -> Seq(Events)]
      BY DEF Messages
    <3>. QED
      BY <3>1, <3>2, <3>3, <3>4, <3>5, YieldKeepsMessages DEF Messages
  <2>3. CASE NodeStarts(r)
    <3>1. Item(r) \in Nodes
      BY <2>3 DEF NodeStarts, Positions
    <3>. QED
      BY <2>3, <3>1 DEF NodeStarts, Messages
  <2>4. CASE BranchEnds(r)
    <3>. DEFINE e == BranchEvent(r, IF st[r] = "leave" THEN "branchSucceeded" ELSE "branchFailed")
    <3>1. r \in Branches /\ Yield(r, e, queue, FALSE) /\ UNCHANGED <<succeeded, node>>
      BY <2>4 DEF BranchEnds, Branches
    <3>2. e \in Events /\ e # NoMore
      BY <3>1 DEF BranchEvent, Events, NoMore
    <3>. QED
      BY <3>1, <3>2, YieldKeepsMessages DEF Messages
  <2>5. CASE Collect(r) \/ CollectFailure(r) \/ CollectNone(r)
    <3>. DEFINE p == Item(r)
                e == Head(queue[p])
    <3>1. /\ p \in Parallels /\ queue[p] \in Seq(Events) /\ queue[p] # <<>>
          /\ UNCHANGED node
      BY <2>5 DEF Collect, CollectFailure, CollectNone, Positions, Messages
    <3>2. e \in Events /\ Tail(queue[p]) \in Seq(Events)
      BY <3>1
    <3>3. NoMore \in Events
      BY DEF Events
    <3>4. [queue EXCEPT ![p] = Tail(@)] \in [Parallels -> Seq(Events)]
      BY <3>1, <3>2 DEF Messages
    <3>5. CASE CollectNone(r)
      BY <3>1, <3>4, <3>5 DEF CollectNone, Messages
    <3>6. CASE CollectFailure(r)
      <4>1. outcome' \in {outcome, "failed", "abandoned"} /\ UNCHANGED <<succeeded, seen>>
        BY <3>6 DEF CollectFailure, RaiseFrom
      <4>2. CASE r = Root
        BY <3>1, <3>4, <3>6, <4>1, <4>2 DEF CollectFailure, Messages
      <4>3. CASE r # Root
        <5>1. ParallelOf[r] \in Parallels
          BY <4>3, RunnerAssumption DEF Branches
        <5>2. PICK q \in [Parallels -> Seq(Events)] :
                queue' = [q EXCEPT ![ParallelOf[r]] = Append(@, e)]
          BY <3>4, <3>6, <4>3 DEF CollectFailure
        <5>3. queue' \in [Parallels -> Seq(Events)]
          BY <3>2, <5>1, <5>2
        <5>. QED
          BY <3>1, <4>1, <5>3 DEF Messages
      <4>. QED
        BY <4>2, <4>3
    <3>7. CASE Collect(r)
      <4>. DEFINE count == IF OfParallel(p, e, "branchSucceeded")
                           THEN succeeded[r] + 1 ELSE succeeded[r]
      <4>0. PICK closed : Yield(r, e, AfterTurn(p, count), closed)
        BY <3>7 DEF Collect
      <4>1. e # NoMore /\ succeeded' = [succeeded EXCEPT ![r] = count]
        BY <3>7 DEF Collect
      <4>2. AfterTurn(p, count) \in [Parallels -> Seq(Events)]
        BY <3>1, <3>2, <3>3 DEF AfterTurn, Messages
      <4>3. succeeded' \in [Runners -> Nat]
        BY <4>1 DEF Messages
      <4>. QED
        BY <3>1, <3>2, <4>0, <4>1, <4>2, <4>3, YieldKeepsMessages DEF Messages
    <3>. QED
      BY <2>5, <3>5, <3>6, <3>7
  <2>6. CASE CheckLimits(r) \/ CountSubmit(r) \/ RejectSubmit(r) \/ Submit(r)
             \/ Join(r) \/ BranchDone(r)
    <3>1. /\ outcome' \in {outcome, "failed"} /\ UNCHANGED <<queue, node, seen>>
          /\ succeeded' = succeeded \/ succeeded' = [succeeded EXCEPT ![r] = 0]
      BY <2>6 DEF CheckLimits, CountSubmit, RejectSubmit, Submit, Join, BranchDone, RaiseFrom
    <3>. QED
      BY <3>1 DEF Messages
  <2>. QED
    BY <1>1, <2>1, <2>2, <2>3, <2>4, <2>5, <2>6 DEF Run
<1>2. CASE RunEnds \/ Abandon \/ TakeBranch \/ TimePasses \/ UNCHANGED vars
  <2>1. outcome' \in {outcome, "succeeded", "partial-succeeded", "abandoned"}
        /\ UNCHANGED <<queue, node, seen, succeeded>>
    BY <1>2 DEF RunEnds, Abandon, TakeBranch, TimePasses, vars
  <2>. QED
    BY <2>1 DEF Messages
<1>. QED
  BY <1>1, <1>2 DEF Next

-----------------------------------------------------------------------------
(* The theorems.                                                            *)

EngineInv ==
    /\ Positions /\ PoolHeld /\ Counts /\ Messages
    /\ timedOut \in BOOLEAN

LEMMA InitEngine == Init => EngineInv
<1> SUFFICES ASSUME Init PROVE EngineInv
  OBVIOUS
<1>0. Root \in Runners /\ limits \in Limits
  BY RunnerAssumption DEF Init
<1>1. Positions
  BY <1>0, RouteAssumption DEF Init, Positions, States, Item
<1>2. PoolHeld
  <2>1. pool = <<>> /\ <<>> \in Seq(Branches) /\ DOMAIN pool = {}
    BY DEF Init
  <2>. QED
    BY <2>1 DEF PoolHeld
<1>3. Counts
  <2>1. InPool = {} /\ Unfinished = {} /\ Admitting = {} /\ Beginning = {}
    BY DEF Init, InPool, Unfinished, Admitting, Beginning, Branches
  <2>2. Cardinality({}) = 0
    BY FS_EmptySet
  <2>3. submitted = 0 /\ steps = 0
    BY DEF Init
  <2>. QED
    BY <1>0, <2>1, <2>2, <2>3, LimitsAreNumbers DEF Counts, PoolBounded
<1>4. Messages
  <2>1. <<>> \in Seq(Events)
    OBVIOUS
  <2>. QED
    BY <2>1 DEF Init, Messages
<1>5. timedOut \in BOOLEAN
  BY DEF Init
<1>. QED
  BY <1>1, <1>2, <1>3, <1>4, <1>5 DEF EngineInv

LEMMA NextEngine == EngineInv /\ [Next]_vars => EngineInv'
<1> SUFFICES ASSUME EngineInv, [Next]_vars PROVE EngineInv'
  OBVIOUS
<1>1. timedOut' \in BOOLEAN
  <2>1. timedOut' = TRUE \/ timedOut' = timedOut
    BY Zenon DEF Next, Run, CheckLimits, NodeStarts, NodeRaises, NodeEnds, CountSubmit,
       RejectSubmit, Submit, Collect, CollectFailure, CollectNone, Join, BranchEnds,
       BranchDone, TakeBranch, RunEnds, Abandon, TimePasses, vars
  <2>. QED
    BY <2>1 DEF EngineInv
<1>2. Positions' /\ PoolHeld' /\ Counts' /\ Messages'
  BY StepKeepsPositions, StepKeepsPool, StepKeepsCounts, StepKeepsMessages DEF EngineInv
<1>. QED
  BY <1>1, <1>2 DEF EngineInv

LEMMA EngineInvariant == Spec => []EngineInv
BY InitEngine, NextEngine, PTL DEF Spec

\* Every variable of the engine has its type in every reachable state; that the
\* submit counter is never negative and that a runner at a parallel has one are
\* part of it.
THEOREM TypeCorrect == Spec => []TypeOK
<1>1. EngineInv => TypeOK
  BY DEF EngineInv, Positions, PoolHeld, Counts, Messages, TypeOK
<1>. QED
  BY <1>1, EngineInvariant, PTL

\* MAX_SUBMIT_COUNT bounds the branches that are queued or running, although
\* the counter is raised and checked in two steps by several threads.
THEOREM PoolStaysBounded == Spec => []PoolBounded
<1>1. EngineInv => PoolBounded
  BY DEF EngineInv, Counts
<1>. QED
  BY <1>1, EngineInvariant, PTL

\* The step limit is exceeded by no more than the threads of the pool and the
\* thread of the root.
THEOREM StepsStayBounded == Spec => []StepsBounded
<1>1. EngineInv => StepsBounded
  BY Counted, LimitsAreNumbers DEF EngineInv, Counts, StepsBounded
<1>. QED
  BY <1>1, EngineInvariant, PTL

\* A run keeps both limits, up to those races, whatever the graph and the pool.
THEOREM LimitsKept == Spec => []LimitsInv
BY PoolStaysBounded, StepsStayBounded, PTL DEF LimitsInv

-----------------------------------------------------------------------------
(***************************************************************************)
(* Joins and ends.  A parallel is Closed when its branches are through and  *)
(* its queue is empty; that never changes.  Why a join finds it so: each    *)
(* event in its queue is of a branch that is not through or has its own end *)
(* behind it (Attributed), the end of a branch stands once in its queue     *)
(* (OwnEnds, and Upward, which keeps passed-on events from coming back), so *)
(* when the ends of all branches are counted (Tallied) nothing is left.     *)
(***************************************************************************)

\* How deep a parallel is nested.
Nested(f) == \A b \in Branches : \A i \in DOMAIN Route[b] :
                 Route[b][i] \in Parallels => f[Route[b][i]] > f[ParallelOf[b]]
Depth == CHOOSE f \in [Parallels -> 0..Cardinality(Parallels)] : Nested(f)

Through(b) == st[b] \in {"ending", "done"}

EndsIn(p, b) == {i \in DOMAIN queue[p] : queue[p][i].of = b}
Told(p)      == {b \in BranchesOf(p) : Through(b) /\ EndsIn(p, b) = {}}
HasNoMore(p) == \E i \in DOMAIN queue[p] : queue[p][i] = NoMore

OwnEnds ==
    \A b \in Branches : \A i \in EndsIn(ParallelOf[b], b) :
        Through(b) /\ \A j \in EndsIn(ParallelOf[b], b) : i = j
Upward ==
    \A p \in Parallels : \A i \in DOMAIN queue[p] :
        LET b == queue[p][i].of IN
        b \in Branches => ParallelOf[b] = p \/ Depth[p] < Depth[ParallelOf[b]]
Attributed ==
    \A p \in Parallels : \A i \in DOMAIN queue[p] :
        queue[p][i] # NoMore =>
            \E b \in BranchesOf(p) : ~Through(b) \/ \E j \in EndsIn(p, b) : i <= j
Silent ==
    \A p \in Parallels :
        (\A b \in BranchesOf(p) : st[b] = "absent") => queue[p] = <<>>

\* Only a runner that has come to a parallel submits its branches.
Owned ==
    \A b \in Branches : st[b] # "absent" =>
        \E o \in Runners : \E i \in DOMAIN Route[o] :
            i <= pos[o] /\ Route[o][i] = ParallelOf[b]

\* What a runner at a parallel has counted.
Submits(r) ==
    /\ Told(Item(r)) = {} /\ ~HasNoMore(Item(r))
    /\ \E b \in BranchesOf(Item(r)) : st[b] = "absent"
Collects(r) ==
    IF HasNoMore(Item(r))
    THEN queue[Item(r)] = <<NoMore>> /\ Told(Item(r)) = BranchesOf(Item(r))
    ELSE /\ succeeded[r] = Cardinality(Told(Item(r)))
         /\ Told(Item(r)) # BranchesOf(Item(r))
Waits(r) == queue[Item(r)] = <<>> /\ Told(Item(r)) = BranchesOf(Item(r))
Tallied ==
    \A r \in Runners :
        /\ st[r] \in {"submit", "admit"} => Submits(r)
        /\ st[r] = "collect" => Collects(r)
        /\ st[r] = "wait" => Waits(r)

Closed(p) == queue[p] = <<>> /\ \A b \in BranchesOf(p) : st[b] = "done"

\* r has joined all that it has come to, and so have the branches below, and
\* those below them.
Tidy(r, S) ==
    \A i \in 1..pos[r] : Route[r][i] \in Parallels =>
        Closed(Route[r][i]) /\ BranchesOf(Route[r][i]) \subseteq S
Whole(r) == \E S \in SUBSET Runners : r \in S /\ \A s \in S : Tidy(s, S)

Behind ==
    \A r \in Runners : \A i \in 1..(pos[r] - 1) : Route[r][i] \in Parallels =>
        /\ Closed(Route[r][i])
        /\ \A b \in BranchesOf(Route[r][i]) : Whole(b)

\* A branch that has ended in order is whole; of one that has failed the event
\* is still there, or the runner that took it has failed with it.
FailedIn(p, b) == BranchEvent(b, "branchFailed") \in {queue[p][i] : i \in DOMAIN queue[p]}
Broken(p) ==
    \E o \in Runners : /\ st[o] \in {"fail", "ending", "done"} /\ Item(o) = p
Sorted ==
    /\ \A r \in Runners : st[r] = "leave" => Whole(r)
    /\ \A b \in Branches : \A i \in DOMAIN queue[ParallelOf[b]] :
          queue[ParallelOf[b]][i] = BranchEvent(b, "branchSucceeded") => Whole(b)
    /\ \A b \in Branches : Through(b) =>
          Whole(b) \/ FailedIn(ParallelOf[b], b) \/ Broken(ParallelOf[b])

JoinInv == OwnEnds /\ Upward /\ Attributed /\ Silent /\ Owned /\ Tallied
           /\ Behind /\ Sorted

\* What is ahead of a runner has not begun, and what it runs has.
Fresh(r, i) == i > pos[r] \/ (i = pos[r] /\ st[r] \in {"absent", "queued", "check", "begin"})
FreshAreIdle ==
    \A r \in Runners : \A i \in DOMAIN Route[r] :
        Route[r][i] \in Nodes /\ Fresh(r, i) => node[Route[r][i]] = "idle"
RunAreStarted == \A r \in Runners : st[r] = "run" => node[Item(r)] = "started"

\* A node that was started is being run, or its end is in a queue, or the
\* consumer knows it; and nothing else is said of it.
StartedAreRun ==
    \A n \in Nodes : node[n] = "started" =>
        (\E r \in Runners : st[r] = "run" /\ Item(r) = n) \/ outcome = "abandoned"
QueuedAreTrue ==
    \A p \in Parallels : \A i \in DOMAIN queue[p] :
        queue[p][i].of \in Nodes => queue[p][i].type = node[queue[p][i].of]
SeenAreTrue == \A n \in Nodes : seen[n] # "idle" => seen[n] = node[n]
Ahead(n) == \E p \in Parallels : \E i \in DOMAIN queue[p] : queue[p][i].of = n
EndsAreTold == \A n \in Nodes : node[n] \in NodeResults => seen[n] = node[n] \/ Ahead(n)

\* With an outcome the root has ended; a failure that was seen is one.
OutcomeEnds ==
    /\ outcome # "running" => st[Root] = "done"
    /\ \A n \in Nodes : seen[n] = "failed" => outcome \in {"failed", "abandoned"}

ReportInv == FreshAreIdle /\ RunAreStarted /\ StartedAreRun /\ QueuedAreTrue
             /\ SeenAreTrue /\ EndsAreTold /\ OutcomeEnds /\ SuccessIsComplete

\* The depths there are.
LEMMA Depths ==
    /\ \A p \in Parallels : Depth[p] \in Nat
    /\ \A b \in Branches : \A i \in DOMAIN Route[b] :
          Route[b][i] \in Parallels => Depth[Route[b][i]] > Depth[ParallelOf[b]]
<1>1. \E f \in [Parallels -> 0..Cardinality(Parallels)] : Nested(f)
  BY NestingAssumption DEF Nested
<1>2. Depth \in [Parallels -> 0..Cardinality(Parallels)] /\ Nested(Depth)
  BY <1>1 DEF Depth
<1>. QED
  BY <1>2 DEF Nested

\* A runner at a parallel is the only one there, and in a branch of another.
LEMMA AtParallel ==
    ASSUME Positions, NEW r \in Runners, Item(r) \in Parallels
    PROVE  /\ r \in Branches => ParallelOf[r] \in Parallels
                                /\ Depth[ParallelOf[r]] < Depth[Item(r)]
                                /\ ParallelOf[r] # Item(r)
           /\ \A s \in Runners : \A i \in DOMAIN Route[s] :
                 Route[s][i] = Item(r) => s = r /\ i = pos[r]
<1>1. pos[r] \in DOMAIN Route[r] /\ Item(r) = Route[r][pos[r]]
  BY DEF Positions, Item
<1>2. \A s \in Runners : \A i \in DOMAIN Route[s] : Route[s][i] = Item(r) => s = r /\ i = pos[r]
  BY <1>1, PlaceAssumption
<1>3. ASSUME r \in Branches
      PROVE  /\ ParallelOf[r] \in Parallels
             /\ Depth[ParallelOf[r]] < Depth[Item(r)]
             /\ ParallelOf[r] # Item(r)
  <2>1. ParallelOf[r] \in Parallels
    BY <1>3, RunnerAssumption
  <2>2. Depth[Item(r)] > Depth[ParallelOf[r]] /\ Depth[Item(r)] \in Nat
        /\ Depth[ParallelOf[r]] \in Nat
    BY <1>1, <1>3, <2>1, Depths
  <2>. QED
    BY <2>1, <2>2
<1>. QED
  BY <1>2, <1>3

Over(q) == st[q] \in {"fail", "ending", "done"}

\* What a step does to the runners: who is through stays so, who was submitted
\* was, and nobody but a branch at its end comes to be through.
Lives(q) ==
    /\ st[q] = "done" => st'[q] = "done"
    /\ Through(q) => Through(q)'
    /\ Over(q) => Over(q)'
    /\ st'[q] = "absent" => st[q] = "absent"
    /\ q # Root /\ Through(q)' /\ ~Through(q) => BranchEnds(q)
    /\ pos'[q] \in {pos[q], pos[q] + 1}
    /\ pos'[q] # pos[q] => st[q] \in {"run", "wait"}

\* A runner that takes a step goes somewhere from where it is, and nobody else.
LEMMA OneLives ==
    ASSUME Positions, NEW r \in Runners, NEW x, st' = [st EXCEPT ![r] = x], pos' = pos,
           st[r] # "done", x # "absent",
           Over(r) => x \in {"ending", "done"},
           r # Root /\ x \in {"ending", "done"} /\ ~Through(r) => BranchEnds(r)
    PROVE  \A q \in Runners : Lives(q)
<1> SUFFICES ASSUME NEW q \in Runners PROVE Lives(q)
  OBVIOUS
<1>1. st \in [Runners -> States] /\ pos' = pos
  BY DEF Positions
<1>2. CASE q = r
  BY <1>1, <1>2 DEF Lives, Through, Over
<1>3. CASE q # r
  BY <1>1, <1>3 DEF Lives, Through, Over
<1>. QED
  BY <1>2, <1>3

LEMMA GoOnLives ==
    ASSUME Positions, NEW r \in Runners, GoOn(r), st[r] \in {"run", "wait"}
    PROVE  \A q \in Runners : Lives(q)
<1> SUFFICES ASSUME NEW q \in Runners PROVE Lives(q)
  OBVIOUS
<1>1. st \in [Runners -> States] /\ pos \in [Runners -> Nat \ {0}]
  BY DEF Positions
<1>2. PICK x \in {"leave", "check", "submit"} : st' = [st EXCEPT ![r] = x]
  BY GoOnMoves
<1>3. pos' = pos \/ pos' = [pos EXCEPT ![r] = @ + 1]
  BY DEF GoOn
<1>4. CASE q = r
  BY <1>1, <1>2, <1>3, <1>4 DEF Lives, Through, Over
<1>5. CASE q # r
  BY <1>1, <1>2, <1>3, <1>5 DEF Lives, Through, Over
<1>. QED
  BY <1>4, <1>5

LEMMA AllLive ==
    ASSUME Positions, PoolHeld, [Next]_vars, NEW q \in Runners
    PROVE  Lives(q)
<1>0. st \in [Runners -> States] /\ Root \in Runners
  BY RunnerAssumption DEF Positions
<1>1. ASSUME NEW r \in Runners, Run(r) PROVE Lives(q)
  <2>1. CASE CheckLimits(r) \/ NodeStarts(r) \/ NodeRaises(r) \/ CountSubmit(r)
             \/ RejectSubmit(r) \/ CollectNone(r) \/ CollectFailure(r) \/ BranchDone(r)
    <3>1. /\ \E x \in {"begin", "run", "fail", "admit", "wait", "done"} :
                 /\ st' = [st EXCEPT ![r] = x]
                 /\ Over(r) => x = "done"
                 /\ r # Root /\ x = "done" => Through(r)
          /\ pos' = pos /\ st[r] # "done"
      BY <2>1 DEF CheckLimits, NodeStarts, NodeRaises, CountSubmit, RejectSubmit, CollectNone,
         CollectFailure, BranchDone, RaiseFrom, Through, Over, Closes
    <3>. QED
      BY <3>1, OneLives
  <2>2. ASSUME NEW t \in NodeResults, NodeEnds(r, t) PROVE Lives(q)
    <3>1. CASE GoOn(r)
      BY <2>2, <3>1, GoOnLives DEF NodeEnds
    <3>2. CASE st' = [st EXCEPT ![r] = "done"] /\ pos' = pos /\ r = Root /\ st[r] = "run"
      BY <3>2, OneLives DEF Through, Over
    <3>. QED
      BY <2>2, <3>1, <3>2 DEF NodeEnds, Closes, Ends
  <2>3. CASE Submit(r)
    <3>1. PICK b \in Branches, x \in {"submit", "collect"} :
            /\ st[b] = "absent" /\ st[r] = "admit" /\ pos' = pos
            /\ st' = [st EXCEPT ![b] = "queued", ![r] = x]
      BY <2>3 DEF Submit
    <3>2. q # b /\ q # r => st'[q] = st[q]
      BY <1>0, <3>1
    <3>3. q = r => st'[q] = x
      BY <1>0, <3>1
    <3>4. q = b => st'[q] = "queued"
      BY <1>0, <3>1 DEF Branches
    <3>. QED
      BY <3>1, <3>2, <3>3, <3>4 DEF Lives, Through, Over
  <2>4. CASE Collect(r)
    <3>1. CASE st' = st
      BY <2>4, <3>1 DEF Collect, Lives, Through, Over
    <3>2. CASE st' = [st EXCEPT ![r] = "done"] /\ r = Root
      BY <2>4, <3>2, OneLives DEF Collect, Through, Over
    <3>. QED
      BY <2>4, <3>1, <3>2 DEF Collect, Closes, Ends
  <2>5. CASE Join(r)
    BY <2>5, GoOnLives DEF Join
  <2>6. CASE BranchEnds(r)
    BY <2>6, OneLives DEF BranchEnds, Over, Through
  <2>. QED
    BY <1>1, <2>1, <2>2, <2>3, <2>4, <2>5, <2>6 DEF Run
<1>2. CASE TakeBranch
  <2>1. Head(pool) \in Branches /\ st[Head(pool)] = "queued"
    BY <1>2 DEF TakeBranch, PoolHeld
  <2>2. st' = [st EXCEPT ![Head(pool)] = "check"] /\ pos' = pos /\ Head(pool) \in Runners
    BY <1>2, <2>1 DEF TakeBranch, Branches
  <2>. QED
    BY <2>1, <2>2, OneLives DEF Through, Over
<1>3. CASE RunEnds \/ Abandon
  <2>1. st' = [st EXCEPT ![Root] = "done"] /\ pos' = pos /\ st[Root] # "done"
    BY <1>3 DEF RunEnds, Abandon
  <2>. QED
    BY <1>0, <2>1, OneLives DEF Positions, Over, Through
<1>4. CASE TimePasses \/ UNCHANGED vars
  <2>1. st' = st /\ pos' = pos
    BY <1>4 DEF TimePasses, vars
  <2>. QED
    BY <2>1 DEF Lives, Through, Over
<1>. QED
  BY <1>1, <1>2, <1>3, <1>4 DEF Next

\* What a step does to a queue: nothing, or one of its branches, which is not
\* through, puts an event (of a node, its own end, or one it has collected), or
\* the runner at the parallel takes the first event.
PutBy(r, p, e) ==
    /\ r \in BranchesOf(p) /\ st[r] \in {"run", "leave", "fail", "collect"}
    /\ e \in Events /\ e # NoMore
    /\ queue'[p] = Append(queue[p], e)
    /\ \/ e.of \in Nodes /\ ~Through(r)'
       \/ /\ st[r] \in {"leave", "fail"} /\ st'[r] = "ending"
          /\ e = BranchEvent(r, IF st[r] = "leave" THEN "branchSucceeded" ELSE "branchFailed")
       \/ /\ st[r] = "collect" /\ ~Through(r)' /\ queue[Item(r)] # <<>>
          /\ e = Head(queue[Item(r)])
Takes(r) == Collect(r) \/ CollectFailure(r) \/ CollectNone(r)
TakenBy(r, p) ==
    /\ Takes(r)
    /\ st[r] = "collect" /\ Item(r) = p /\ queue[p] # <<>>
    /\ queue'[p] \in {Tail(queue[p]), Append(Tail(queue[p]), NoMore)}

LEMMA Queues ==
    ASSUME Positions, PoolHeld, Messages, [Next]_vars, NEW p \in Parallels
    PROVE  \/ queue'[p] = queue[p]
           \/ \E r \in Runners : \E e \in Events : PutBy(r, p, e)
           \/ \E r \in Runners : TakenBy(r, p)
<1>0. /\ st \in [Runners -> States] /\ queue \in [Parallels -> Seq(Events)]
      /\ Root \in Runners /\ ParallelOf \in [Branches -> Parallels]
  BY RunnerAssumption DEF Positions, Messages
<1> DEFINE Goal == \/ queue'[p] = queue[p]
                   \/ \E r \in Runners : \E e \in Events : PutBy(r, p, e)
                   \/ \E r \in Runners : TakenBy(r, p)
<1>1. CASE queue' = queue
  BY <1>1
<1>2. ASSUME NEW r \in Runners, NEW e \in Events, e # NoMore, NEW closed,
             Yield(r, e, queue, closed), st[r] \in {"run", "leave", "fail"},
             r # Root => \/ e.of \in Nodes /\ ~Through(r)'
                         \/ /\ st[r] \in {"leave", "fail"} /\ st'[r] = "ending"
                            /\ e = BranchEvent(r, IF st[r] = "leave" THEN "branchSucceeded"
                                                  ELSE "branchFailed")
      PROVE  Goal
  <2>1. CASE r = Root
    BY <1>2, <2>1 DEF Yield
  <2>2. CASE r # Root /\ ParallelOf[r] # p
    BY <1>0, <1>2, <2>2 DEF Yield
  <2>3. CASE r # Root /\ ParallelOf[r] = p
    <3>1. queue'[p] = Append(queue[p], e) /\ r \in BranchesOf(p)
      BY <1>0, <1>2, <2>3 DEF Yield, BranchesOf, Branches
    <3>2. PutBy(r, p, e)
      BY <1>2, <2>3, <3>1 DEF PutBy
    <3>. QED
      BY <3>2
  <2>. QED
    BY <2>1, <2>2, <2>3
<1>3. ASSUME NEW r \in Runners, NodeRaises(r) PROVE Goal
  <2>1. Item(r) \in Nodes /\ "failed" \in NodeResults
    BY <1>3 DEF NodeRaises, Positions, NodeResults
  <2>2. /\ NodeEvent(Item(r), "failed") \in Events /\ NodeEvent(Item(r), "failed") # NoMore
        /\ NodeEvent(Item(r), "failed").of = Item(r)
    BY <2>1, EventsOfNodes DEF NodeEvent
  <2>3. r # Root => ~Through(r)'
    BY <1>0, <1>3 DEF NodeRaises, Through
  <2>. QED
    BY <1>2, <1>3, <2>1, <2>2, <2>3 DEF NodeRaises
<1>4. ASSUME NEW r \in Runners, NEW t \in NodeResults, NodeEnds(r, t) PROVE Goal
  <2>1. Item(r) \in Nodes
    BY <1>4 DEF NodeEnds, Positions
  <2>2. /\ NodeEvent(Item(r), t) \in Events /\ NodeEvent(Item(r), t) # NoMore
        /\ NodeEvent(Item(r), t).of = Item(r)
    BY <2>1, EventsOfNodes DEF NodeEvent
  <2>3. r # Root => ~Through(r)'
    <3> SUFFICES ASSUME r # Root PROVE ~Through(r)'
      OBVIOUS
    <3>1. GoOn(r)
      BY <1>4 DEF NodeEnds, Closes, Ends
    <3>. QED
      BY <1>0, <3>1, GoOnMoves DEF Through
  <2>4. PICK closed : Yield(r, NodeEvent(Item(r), t), queue, closed)
    BY <1>4 DEF NodeEnds
  <2>5. st[r] = "run"
    BY <1>4 DEF NodeEnds
  <2>. HIDE DEF Goal
  <2>. QED
    BY <1>2, <2>1, <2>2, <2>3, <2>4, <2>5
<1>5. ASSUME NEW r \in Runners, BranchEnds(r) PROVE Goal
  <2> DEFINE e == BranchEvent(r, IF st[r] = "leave" THEN "branchSucceeded" ELSE "branchFailed")
  <2>1. r \in Branches /\ Yield(r, e, queue, FALSE) /\ st[r] \in {"leave", "fail"}
        /\ st'[r] = "ending"
    BY <1>0, <1>5 DEF BranchEnds, Branches
  <2>2. e \in Events /\ e # NoMore
    BY <2>1 DEF BranchEvent, Events, NoMore
  <2>3. e = BranchEvent(r, IF st[r] = "leave" THEN "branchSucceeded" ELSE "branchFailed")
    OBVIOUS
  <2>. HIDE DEF e, Goal
  <2>. QED
    BY <1>2, <2>1, <2>2, <2>3
<1>6. ASSUME NEW r \in Runners, CollectNone(r) PROVE Goal
  <2>1. Item(r) \in Parallels /\ st[r] = "collect"
    BY <1>6 DEF CollectNone, Positions
  <2>2. CASE Item(r) = p
    <3>1. TakenBy(r, p)
      BY <1>0, <1>6, <2>1, <2>2 DEF CollectNone, TakenBy, Takes
    <3>. QED
      BY <3>1
  <2>3. CASE Item(r) # p
    BY <1>0, <1>6, <2>1, <2>3 DEF CollectNone
  <2>. QED
    BY <2>2, <2>3
<1>7. ASSUME NEW r \in Runners, NEW x, NEW q, Takes(r), st[r] = "collect", queue[Item(r)] # <<>>,
             Head(queue[Item(r)]) # NoMore,
             x \in {Tail(queue[Item(r)]), Append(Tail(queue[Item(r)]), NoMore)},
             q = [queue EXCEPT ![Item(r)] = x],
             r = Root => queue' = q,
             r # Root => /\ ~Through(r)'
                         /\ queue' = [q EXCEPT ![ParallelOf[r]]
                                               = Append(@, Head(queue[Item(r)]))]
      PROVE  Goal
  <2>1. Item(r) \in Parallels
    BY <1>7 DEF Positions
  <2>2. r # Root => r \in Branches /\ ParallelOf[r] \in Parallels /\ ParallelOf[r] # Item(r)
    BY <2>1, AtParallel DEF Branches
  <2>3. Head(queue[Item(r)]) \in Events
    BY <1>0, <1>7, <2>1
  <2>4. CASE Item(r) = p
    <3>1. queue'[p] = x
      BY <1>0, <1>7, <2>1, <2>2, <2>4
    <3>2. TakenBy(r, p)
      BY <1>7, <2>4, <3>1 DEF TakenBy
    <3>. QED
      BY <3>2
  <2>5. CASE Item(r) # p /\ r # Root /\ ParallelOf[r] = p
    <3>1. queue'[p] = Append(queue[p], Head(queue[Item(r)]))
      BY <1>0, <1>7, <2>1, <2>2, <2>5
    <3>2. PutBy(r, p, Head(queue[Item(r)]))
      BY <1>7, <2>2, <2>3, <2>5, <3>1 DEF PutBy, BranchesOf
    <3>. QED
      BY <2>3, <3>2
  <2>6. CASE Item(r) # p /\ (r = Root \/ ParallelOf[r] # p)
    BY <1>0, <1>7, <2>1, <2>2, <2>6
  <2>. QED
    BY <2>4, <2>5, <2>6
<1>8. ASSUME NEW r \in Runners, CollectFailure(r) PROVE Goal
  <2> DEFINE x == Tail(queue[Item(r)])
             q == [queue EXCEPT ![Item(r)] = x]
  <2>1. Item(r) \in Parallels /\ st[r] = "collect" /\ queue[Item(r)] # <<>>
    BY <1>8 DEF CollectFailure, Positions
  <2>2. Head(queue[Item(r)]) # NoMore
    BY <1>8 DEF CollectFailure, OfParallel, NoMore
  <2>3. r # Root => ~Through(r)'
    BY <1>0, <1>8 DEF CollectFailure, Closes, RaiseFrom, Through
  <2>4. queue' = IF r = Root THEN q
                 ELSE [q EXCEPT ![ParallelOf[r]] = Append(@, Head(queue[Item(r)]))]
    BY <1>8 DEF CollectFailure
  <2>5. x \in {Tail(queue[Item(r)]), Append(Tail(queue[Item(r)]), NoMore)}
        /\ q = [queue EXCEPT ![Item(r)] = x]
    OBVIOUS
  <2>6. Takes(r)
    BY <1>8 DEF Takes
  <2>. HIDE DEF x, q, Goal
  <2>. QED
    BY <1>7, <2>6, <2>1, <2>2, <2>3, <2>4, <2>5
<1>9. ASSUME NEW r \in Runners, Collect(r) PROVE Goal
  <2> DEFINE count == IF OfParallel(Item(r), Head(queue[Item(r)]), "branchSucceeded")
                      THEN succeeded[r] + 1 ELSE succeeded[r]
  <2>1. PICK closed \in Closes(r) :
          /\ Yield(r, Head(queue[Item(r)]), AfterTurn(Item(r), count), closed)
          /\ st' = IF closed \/ Ends(r, Head(queue[Item(r)])) THEN [st EXCEPT ![r] = "done"]
                   ELSE st
    BY <1>9 DEF Collect
  <2>2. Item(r) \in Parallels /\ st[r] = "collect" /\ queue[Item(r)] # <<>>
        /\ Head(queue[Item(r)]) # NoMore
    BY <1>9 DEF Collect, Positions
  <2>3. PICK x \in {Tail(queue[Item(r)]), Append(Tail(queue[Item(r)]), NoMore)} :
          AfterTurn(Item(r), count) = [queue EXCEPT ![Item(r)] = x]
    BY DEF AfterTurn
  <2>4. r # Root => ~Through(r)'
    BY <1>0, <2>1, <2>2 DEF Closes, Ends, Through
  <2>5. queue' = IF r = Root THEN AfterTurn(Item(r), count)
                 ELSE [AfterTurn(Item(r), count) EXCEPT
                          ![ParallelOf[r]] = Append(@, Head(queue[Item(r)]))]
    BY <2>1 DEF Yield
  <2>6. Takes(r)
    BY <1>9 DEF Takes
  <2>. HIDE DEF Goal, count
  <2>. QED
    BY <1>7, <2>6, <2>2, <2>3, <2>4, <2>5
<1>10. CASE \E r \in Runners : Run(r)
  <2>1. PICK r \in Runners : Run(r)
    BY <1>10
  <2>2. CASE CheckLimits(r) \/ NodeStarts(r) \/ CountSubmit(r) \/ RejectSubmit(r) \/ Submit(r)
             \/ Join(r) \/ BranchDone(r)
    BY <1>1, <2>2 DEF CheckLimits, NodeStarts, CountSubmit, RejectSubmit, Submit, Join,
       BranchDone
  <2>. QED
    BY <1>3, <1>4, <1>5, <1>6, <1>8, <1>9, <2>1, <2>2 DEF Run
<1>11. CASE RunEnds \/ Abandon \/ TakeBranch \/ TimePasses \/ UNCHANGED vars
  BY <1>1, <1>11 DEF RunEnds, Abandon, TakeBranch, TimePasses, vars
<1>. QED
  BY <1>10, <1>11 DEF Next

-----------------------------------------------------------------------------
(* What was begun stays so: closed parallels and whole runners.             *)

\* The assumption of the lemmas below.
Steps == EngineInv /\ JoinInv /\ [Next]_vars

LEMMA Stepping ==
    ASSUME Steps
    PROVE  /\ Positions /\ PoolHeld /\ Messages
           /\ st \in [Runners -> States] /\ pos \in [Runners -> Nat \ {0}]
           /\ queue \in [Parallels -> Seq(Events)] /\ queue' \in [Parallels -> Seq(Events)]
           /\ st' \in [Runners -> States] /\ pos' \in [Runners -> Nat \ {0}]
           /\ \A r \in Runners : pos[r] \in DOMAIN Route[r] /\ pos'[r] \in DOMAIN Route[r]
           /\ \A q \in Runners : Lives(q)
<1>1. EngineInv /\ [Next]_vars /\ EngineInv'
  BY NextEngine DEF Steps
<1>2. Positions /\ PoolHeld /\ Messages /\ Positions' /\ Messages'
  BY <1>1 DEF EngineInv
<1>3. \A q \in Runners : Lives(q)
  BY <1>1, <1>2, AllLive
<1>. QED
  BY <1>2, <1>3 DEF Positions, Messages

\* The only event of a branch that comes to its own queue is its end.
LEMMA PutOwn ==
    ASSUME Steps, NEW p \in Parallels, NEW r \in Runners, NEW e \in Events, PutBy(r, p, e),
           e.of \in BranchesOf(p)
    PROVE  /\ e.of = r /\ ~Through(r) /\ st'[r] = "ending"
           /\ st[r] \in {"leave", "fail"}
           /\ e = BranchEvent(r, IF st[r] = "leave" THEN "branchSucceeded" ELSE "branchFailed")
<1>1. e.of \notin Nodes
  BY RouteAssumption DEF BranchesOf, Branches
<1>2. ASSUME st[r] = "collect", queue[Item(r)] # <<>>, e = Head(queue[Item(r)])
      PROVE  FALSE
  <2>1. Item(r) \in Parallels /\ r \in Branches /\ ParallelOf[r] = p
    BY <1>2, Stepping DEF Positions, PutBy, BranchesOf
  <2>2. Depth[p] < Depth[Item(r)] /\ p # Item(r)
    BY <2>1, AtParallel, Stepping
  <2>3. queue[Item(r)] \in Seq(Events)
    BY <2>1, Stepping
  <2>4. 1 \in DOMAIN queue[Item(r)] /\ e = queue[Item(r)][1]
    BY <1>2, <2>3
  <2>5. e.of \in Branches /\ ParallelOf[e.of] = p
    BY DEF BranchesOf
  <2>6. ParallelOf[e.of] = Item(r) \/ Depth[Item(r)] < Depth[ParallelOf[e.of]]
    BY <2>1, <2>4, <2>5 DEF Steps, JoinInv, Upward
  <2>7. Depth[p] \in Nat /\ Depth[Item(r)] \in Nat
    BY <2>1, Depths
  <2>. QED
    BY <2>2, <2>5, <2>6, <2>7
<1>. QED
  BY <1>1, <1>2 DEF PutBy, BranchEvent, Through

\* A branch that comes to be through has put its end, the last in the queue.
LEMMA ThroughPuts ==
    ASSUME Steps, NEW b \in Branches, Through(b)', ~Through(b)
    PROVE  LET p == ParallelOf[b] IN
           /\ p \in Parallels /\ b \in BranchesOf(p)
           /\ BranchEnds(b) /\ st[b] \in {"leave", "fail"} /\ st'[b] = "ending"
           /\ queue'[p] = Append(queue[p], BranchEvent(b, IF st[b] = "leave" THEN "branchSucceeded"
                                                          ELSE "branchFailed"))
           /\ Len(queue[p]) + 1 \in EndsIn(p, b)'
<1>1. BranchEnds(b) /\ ParallelOf[b] \in Parallels /\ b \in Runners /\ b # Root
  BY Stepping, RunnerAssumption DEF Lives, Branches
<1> DEFINE p == ParallelOf[b]
           e == BranchEvent(b, IF st[b] = "leave" THEN "branchSucceeded" ELSE "branchFailed")
<1>2. queue' = [queue EXCEPT ![p] = Append(@, e)] /\ st' = [st EXCEPT ![b] = "ending"]
      /\ st[b] \in {"leave", "fail"}
  BY <1>1 DEF BranchEnds, Yield
<1>3. queue'[p] = Append(queue[p], e) /\ st'[b] = "ending" /\ queue[p] \in Seq(Events)
  BY <1>1, <1>2, Stepping
<1>4. e.of = b
  BY DEF BranchEvent
<1>5. Len(queue[p]) + 1 \in DOMAIN queue'[p] /\ queue'[p][Len(queue[p]) + 1] = e
  BY <1>3
<1>6. Len(queue[p]) + 1 \in EndsIn(p, b)'
  BY <1>4, <1>5 DEF EndsIn
<1>. QED
  BY <1>1, <1>2, <1>3, <1>6 DEF BranchesOf

LEMMA ClosedStays ==
    ASSUME Steps, NEW p \in Parallels, Closed(p)
    PROVE  Closed(p)'
<1>1. \A b \in BranchesOf(p) : st'[b] = "done"
  BY Stepping DEF Closed, Lives, BranchesOf, Branches
<1>2. queue'[p] = queue[p]
  BY Stepping, Queues DEF Steps, Closed, PutBy, TakenBy
<1>. QED
  BY <1>1, <1>2 DEF Closed

\* A runner that is whole has closed what it has come to, and a branch of that is
\* whole; and it is whole when they are.
LEMMA WholeBelow ==
    ASSUME NEW r \in Runners, Whole(r), NEW i \in 1..pos[r], Route[r][i] \in Parallels
    PROVE  Closed(Route[r][i]) /\ \A b \in BranchesOf(Route[r][i]) : Whole(b)
<1>1. PICK S \in SUBSET Runners : r \in S /\ \A s \in S : Tidy(s, S)
  BY DEF Whole
<1>2. Closed(Route[r][i]) /\ BranchesOf(Route[r][i]) \subseteq S
  BY <1>1 DEF Tidy
<1>. QED
  BY <1>1, <1>2 DEF Whole

LEMMA WholeAbove ==
    ASSUME NEW r \in Runners,
           \A i \in 1..pos[r] : Route[r][i] \in Parallels =>
               Closed(Route[r][i]) /\ \A b \in BranchesOf(Route[r][i]) : Whole(b)
    PROVE  Whole(r)
<1> DEFINE S == {r} \cup {s \in Runners : Whole(s)}
<1>1. ASSUME NEW s \in S PROVE Tidy(s, S)
  <2>1. ASSUME NEW i \in 1..pos[s], Route[s][i] \in Parallels
        PROVE  Closed(Route[s][i]) /\ BranchesOf(Route[s][i]) \subseteq S
    <3>1. Closed(Route[s][i]) /\ \A b \in BranchesOf(Route[s][i]) : Whole(b)
      <4>1. CASE s = r
        BY <2>1, <4>1
      <4>2. CASE s # r
        BY <2>1, <4>2, WholeBelow
      <4>. QED
        BY <4>1, <4>2
    <3>. QED
      BY <3>1 DEF BranchesOf, Branches
  <2>. QED
    BY <2>1 DEF Tidy
<1>. QED
  BY <1>1 DEF Whole

LEMMA WholeStays ==
    ASSUME Steps, NEW r \in Runners, Whole(r), pos'[r] = pos[r]
    PROVE  Whole(r)'
<1>1. PICK S \in SUBSET Runners : r \in S /\ \A s \in S : Tidy(s, S)
  BY DEF Whole
<1>0. PICK T \in SUBSET Runners : T = {s \in S : s = r \/ st[s] = "done"}
  OBVIOUS
<1>2. ASSUME NEW s \in T PROVE Tidy(s, T)'
  <2>1. pos'[s] = pos[s]
    BY <1>0, <1>2, Stepping DEF Lives
  <2>2. ASSUME NEW i \in 1..pos[s], Route[s][i] \in Parallels
        PROVE  Closed(Route[s][i])' /\ BranchesOf(Route[s][i]) \subseteq T
    <3>1. Closed(Route[s][i]) /\ BranchesOf(Route[s][i]) \subseteq S
      BY <1>0, <1>1, <1>2, <2>2 DEF Tidy
    <3>2. Closed(Route[s][i])'
      BY <2>2, <3>1, ClosedStays
    <3>. QED
      BY <1>0, <3>1, <3>2 DEF Closed
  <2>. QED
    BY <2>1, <2>2 DEF Tidy
<1>3. T \in SUBSET Runners /\ r \in T
  BY <1>0, <1>1
<1>. QED
  BY <1>2, <1>3 DEF Whole

\* A branch that is through has no further to go.
LEMMA WholeBranchStays ==
    ASSUME Steps, NEW b \in Runners, Whole(b), Through(b) \/ st[b] = "leave"
    PROVE  Whole(b)'
<1>1. pos'[b] = pos[b]
  BY Stepping DEF Lives, Through
<1>. QED
  BY <1>1, WholeStays

-----------------------------------------------------------------------------
(* What the queues hold.                                                    *)

\* A queue after a step: as it was, with an event more, or without its first and
\* perhaps with the sentinel behind it.
LEMMA TakenEvents ==
    ASSUME Steps, NEW p \in Parallels, NEW r \in Runners, TakenBy(r, p)
    PROVE  /\ Len(queue[p]) \in Nat \ {0}
           /\ \A i \in DOMAIN queue'[p] :
                 \/ i + 1 \in DOMAIN queue[p] /\ queue'[p][i] = queue[p][i + 1]
                 \/ i = Len(queue[p]) /\ queue'[p][i] = NoMore
           /\ \A i \in DOMAIN queue[p] : i # 1 =>
                 i - 1 \in DOMAIN queue'[p] /\ queue'[p][i - 1] = queue[p][i]
<1>0. queue[p] \in Seq(Events) /\ queue[p] # <<>>
  BY Stepping DEF TakenBy
<1>1. CASE queue'[p] = Tail(queue[p])
  BY <1>0, <1>1
<1>2. CASE queue'[p] = Append(Tail(queue[p]), NoMore)
  <2>1. Tail(queue[p]) \in Seq(Events) /\ Len(Tail(queue[p])) = Len(queue[p]) - 1
    BY <1>0
  <2>2. NoMore \in Events
    BY DEF Events
  <2>. QED
    BY <1>0, <1>2, <2>1, <2>2
<1>. QED
  BY <1>1, <1>2 DEF TakenBy

LEMMA PutEvents ==
    ASSUME Steps, NEW p \in Parallels, NEW r \in Runners, NEW e \in Events, PutBy(r, p, e)
    PROVE  /\ Len(queue[p]) \in Nat
           /\ DOMAIN queue'[p] = DOMAIN queue[p] \cup {Len(queue[p]) + 1}
           /\ \A i \in DOMAIN queue[p] : queue'[p][i] = queue[p][i] /\ i <= Len(queue[p])
           /\ queue'[p][Len(queue[p]) + 1] = e
BY Stepping DEF PutBy

LEMMA NoMoreIsNoBranch == \A b \in Branches : NoMore.of # b
BY DEF NoMore, Branches

LEMMA OwnEndsKept == ASSUME Steps PROVE OwnEnds'
<1> SUFFICES ASSUME NEW b \in Branches, NEW i \in EndsIn(ParallelOf[b], b)'
             PROVE  Through(b)' /\ \A j \in EndsIn(ParallelOf[b], b)' : i = j
  BY DEF OwnEnds
<1> DEFINE p == ParallelOf[b]
<1>0. p \in Parallels /\ b \in Runners /\ b \in BranchesOf(p)
  BY RunnerAssumption DEF Branches, BranchesOf
<1>1. \A k \in EndsIn(p, b) : Through(b) /\ \A j \in EndsIn(p, b) : k = j
  BY DEF Steps, JoinInv, OwnEnds
<1>2. Through(b) => Through(b)'
  BY <1>0, Stepping DEF Lives
<1>3. queue[p] \in Seq(Events) /\ queue'[p] \in Seq(Events)
  BY <1>0, Stepping
<1>4. CASE queue'[p] = queue[p]
  <2>1. EndsIn(p, b)' = EndsIn(p, b)
    BY <1>4 DEF EndsIn
  <2>. QED
    BY <1>1, <1>2, <2>1
<1>5. ASSUME NEW r \in Runners, NEW e \in Events, PutBy(r, p, e)
      PROVE  Through(b)' /\ \A j \in EndsIn(p, b)' : i = j
  <2>1. CASE e.of = b
    <3>1. e.of = r /\ ~Through(r) /\ st'[r] = "ending"
      BY <1>0, <1>5, <2>1, PutOwn
    <3>2. EndsIn(p, b) = {} /\ Through(b)'
      BY <1>1, <2>1, <3>1 DEF Through
    <3>3. EndsIn(p, b)' = {Len(queue[p]) + 1}
      BY <1>0, <1>5, <2>1, <3>2, PutEvents DEF EndsIn
    <3>. QED
      BY <3>2, <3>3
  <2>2. CASE e.of # b
    <3>1. EndsIn(p, b)' = EndsIn(p, b)
      BY <1>0, <1>5, <2>2, PutEvents DEF EndsIn
    <3>. QED
      BY <1>1, <1>2, <3>1
  <2>. QED
    BY <2>1, <2>2
<1>6. ASSUME NEW r \in Runners, TakenBy(r, p)
      PROVE  Through(b)' /\ \A j \in EndsIn(p, b)' : i = j
  <2>1. \A j \in EndsIn(p, b)' : j \in Nat /\ j + 1 \in EndsIn(p, b)
    BY <1>0, <1>3, <1>6, TakenEvents, NoMoreIsNoBranch DEF EndsIn
  <2>. QED
    BY <1>1, <1>2, <2>1
<1>. QED
  BY <1>0, <1>4, <1>5, <1>6, Queues, Stepping DEF Steps

LEMMA UpwardKept == ASSUME Steps PROVE Upward'
<1> SUFFICES ASSUME NEW p \in Parallels, NEW i \in DOMAIN queue'[p], queue'[p][i].of \in Branches
             PROVE  \/ ParallelOf[queue'[p][i].of] = p
                    \/ Depth[p] < Depth[ParallelOf[queue'[p][i].of]]
  BY DEF Upward
<1>1. \A k \in Parallels : \A j \in DOMAIN queue[k] :
        queue[k][j].of \in Branches =>
            \/ ParallelOf[queue[k][j].of] = k
            \/ Depth[k] < Depth[ParallelOf[queue[k][j].of]]
  BY DEF Steps, JoinInv, Upward
<1>2. CASE queue'[p] = queue[p]
  BY <1>1, <1>2
<1>3. ASSUME NEW r \in Runners, NEW e \in Events, PutBy(r, p, e),
             e.of \in Branches, ParallelOf[e.of] # p
      PROVE  Depth[p] < Depth[ParallelOf[e.of]]
  <2>1. e.of \notin Nodes /\ r \in Branches /\ ParallelOf[r] = p
    BY <1>3, RouteAssumption DEF Branches, PutBy, BranchesOf
  <2>2. e.of # r
    BY <1>3, <2>1
  <2>3. st[r] = "collect" /\ queue[Item(r)] # <<>> /\ e = Head(queue[Item(r)])
    BY <1>3, <2>1, <2>2 DEF PutBy, BranchEvent
  <2>4. Item(r) \in Parallels
    BY <2>3, Stepping DEF Positions
  <2>5. Depth[p] < Depth[Item(r)]
    BY <2>1, <2>4, AtParallel, Stepping
  <2>6. queue[Item(r)] \in Seq(Events)
    BY <2>4, Stepping
  <2>7. 1 \in DOMAIN queue[Item(r)] /\ e = queue[Item(r)][1]
    BY <2>3, <2>6
  <2>8. ParallelOf[e.of] = Item(r) \/ Depth[Item(r)] < Depth[ParallelOf[e.of]]
    BY <1>1, <1>3, <2>4, <2>7
  <2>9. Depth[p] \in Nat /\ Depth[Item(r)] \in Nat /\ Depth[ParallelOf[e.of]] \in Nat
    BY <1>3, <2>4, Depths, RunnerAssumption
  <2>. QED
    BY <2>5, <2>8, <2>9
<1>4. ASSUME NEW r \in Runners, NEW e \in Events, PutBy(r, p, e)
      PROVE  \/ ParallelOf[queue'[p][i].of] = p
             \/ Depth[p] < Depth[ParallelOf[queue'[p][i].of]]
  <2>1. CASE i \in DOMAIN queue[p]
    BY <1>1, <1>4, <2>1, PutEvents
  <2>2. CASE i = Len(queue[p]) + 1
    BY <1>3, <1>4, <2>2, PutEvents
  <2>. QED
    BY <1>4, <2>1, <2>2, PutEvents
<1>5. ASSUME NEW r \in Runners, TakenBy(r, p)
      PROVE  \/ ParallelOf[queue'[p][i].of] = p
             \/ Depth[p] < Depth[ParallelOf[queue'[p][i].of]]
  BY <1>1, <1>5, TakenEvents, NoMoreIsNoBranch
<1>. QED
  BY <1>2, <1>4, <1>5, Queues, Stepping DEF Steps

LEMMA AttributedKept == ASSUME Steps PROVE Attributed'
<1> SUFFICES ASSUME NEW p \in Parallels, NEW i \in DOMAIN queue'[p], queue'[p][i] # NoMore
             PROVE  \E b \in BranchesOf(p) : ~Through(b)' \/ \E j \in EndsIn(p, b)' : i <= j
  BY DEF Attributed
<1>0. queue[p] \in Seq(Events) /\ queue'[p] \in Seq(Events)
  BY Stepping
<1>1. \A k \in DOMAIN queue[p] : queue[p][k] # NoMore =>
        \E b \in BranchesOf(p) : ~Through(b) \/ \E j \in EndsIn(p, b) : k <= j
  BY DEF Steps, JoinInv, Attributed
<1>2. CASE \E b \in BranchesOf(p) : Through(b)' /\ ~Through(b)
  <2>1. PICK b \in BranchesOf(p) : Through(b)' /\ ~Through(b)
    BY <1>2
  <2>2. b \in Branches /\ ParallelOf[b] = p
    BY DEF BranchesOf
  <2>3. /\ Len(queue[p]) + 1 \in EndsIn(p, b)'
        /\ queue'[p] = Append(queue[p], BranchEvent(b, IF st[b] = "leave" THEN "branchSucceeded"
                                                       ELSE "branchFailed"))
    BY <2>1, <2>2, ThroughPuts
  <2>4. i <= Len(queue[p]) + 1
    BY <1>0, <2>3
  <2>. QED
    BY <2>3, <2>4
<1>3. CASE \A b \in BranchesOf(p) : Through(b)' => Through(b)
  <2>1. CASE queue'[p] = queue[p]
    <3>1. PICK b \in BranchesOf(p) : ~Through(b) \/ \E j \in EndsIn(p, b) : i <= j
      BY <1>1, <2>1
    <3>2. EndsIn(p, b)' = EndsIn(p, b)
      BY <2>1 DEF EndsIn
    <3>. QED
      BY <1>3, <3>1, <3>2
  <2>2. ASSUME NEW r \in Runners, NEW e \in Events, PutBy(r, p, e)
        PROVE  \E b \in BranchesOf(p) : ~Through(b)' \/ \E j \in EndsIn(p, b)' : i <= j
    <3>1. CASE i \in DOMAIN queue[p]
      <4>1. PICK b \in BranchesOf(p) : ~Through(b) \/ \E j \in EndsIn(p, b) : i <= j
        BY <1>1, <2>2, <3>1, PutEvents
      <4>2. EndsIn(p, b) \subseteq EndsIn(p, b)'
        BY <2>2, PutEvents DEF EndsIn
      <4>. QED
        BY <1>3, <4>1, <4>2
    <3>2. CASE i = Len(queue[p]) + 1
      <4>1. r \in BranchesOf(p) /\ st[r] \in {"run", "leave", "fail", "collect"}
        BY <2>2 DEF PutBy
      <4>2. ~Through(r)'
        BY <1>3, <4>1 DEF Through
      <4>. QED
        BY <4>1, <4>2
    <3>. QED
      BY <2>2, <3>1, <3>2, PutEvents
  <2>3. ASSUME NEW r \in Runners, TakenBy(r, p)
        PROVE  \E b \in BranchesOf(p) : ~Through(b)' \/ \E j \in EndsIn(p, b)' : i <= j
    <3>1. i + 1 \in DOMAIN queue[p] /\ queue'[p][i] = queue[p][i + 1] /\ i \in Nat \ {0}
      BY <1>0, <2>3, TakenEvents
    <3>2. PICK b \in BranchesOf(p) : ~Through(b) \/ \E j \in EndsIn(p, b) : i + 1 <= j
      BY <1>1, <3>1
    <3>3. ASSUME NEW j \in EndsIn(p, b), i + 1 <= j
          PROVE  j - 1 \in EndsIn(p, b)' /\ i <= j - 1
      <4>1. j \in DOMAIN queue[p] /\ queue[p][j].of = b /\ j \in Nat
        BY <1>0 DEF EndsIn
      <4>2. j # 1 /\ i <= j - 1
        BY <3>1, <3>3, <4>1
      <4>3. j - 1 \in DOMAIN queue'[p] /\ queue'[p][j - 1] = queue[p][j]
        BY <2>3, <4>1, <4>2, TakenEvents
      <4>. QED
        BY <4>1, <4>2, <4>3 DEF EndsIn
    <3>. QED
      BY <1>3, <3>2, <3>3
  <2>. QED
    BY <2>1, <2>2, <2>3, Queues, Stepping DEF Steps
<1>. QED
  BY <1>2, <1>3

LEMMA SilentKept == ASSUME Steps PROVE Silent'
<1> SUFFICES ASSUME NEW p \in Parallels, \A b \in BranchesOf(p) : st'[b] = "absent"
             PROVE  queue'[p] = <<>>
  BY DEF Silent
<1>1. \A b \in BranchesOf(p) : st[b] = "absent"
  BY Stepping DEF Lives, BranchesOf, Branches
<1>2. queue[p] = <<>>
  BY <1>1 DEF Steps, JoinInv, Silent
<1>3. queue'[p] = queue[p]
  BY <1>1, <1>2, Queues, Stepping DEF Steps, PutBy, TakenBy
<1>. QED
  BY <1>2, <1>3

\* A branch is submitted by the runner at its parallel.
LEMMA SubmitsOwn ==
    ASSUME Steps, NEW r \in Runners, Submit(r)
    PROVE  /\ Item(r) \in Parallels /\ pos' = pos /\ queue' = queue
           /\ NextEdge(Item(r)) \in BranchesOf(Item(r))
           /\ st[NextEdge(Item(r))] = "absent"
<1>1. st[r] = "admit"
  BY DEF Submit
<1>2. Item(r) \in Parallels /\ Submits(r)
  BY <1>1, Stepping DEF Positions, Steps, JoinInv, Tallied
<1>3. NextEdge(Item(r)) \in BranchesOf(Item(r)) /\ st[NextEdge(Item(r))] = "absent"
  BY <1>2 DEF Submits, NextEdge
<1>. QED
  BY <1>2, <1>3 DEF Submit

\* Nobody else submits one.
LEMMA AbsentStays ==
    ASSUME Steps, NEW b \in Branches, st[b] = "absent", st'[b] # "absent"
    PROVE  \E r \in Runners : Submit(r) /\ b = NextEdge(Item(r))
<1>0. st \in [Runners -> States] /\ b \in Runners /\ Root \in Runners /\ b # Root
  BY Stepping, RunnerAssumption DEF Branches
<1>1. ASSUME NEW r \in Runners, Run(r), ~Submit(r) PROVE st'[b] = "absent"
  <2>1. st[r] # "absent" /\ (st' = st \/ \E x \in States : st' = [st EXCEPT ![r] = x])
    <3>1. CASE CheckLimits(r) \/ NodeStarts(r) \/ NodeRaises(r) \/ CountSubmit(r)
               \/ RejectSubmit(r) \/ CollectNone(r) \/ CollectFailure(r) \/ BranchDone(r)
               \/ Collect(r) \/ BranchEnds(r)
      BY <3>1 DEF CheckLimits, NodeStarts, NodeRaises, CountSubmit, RejectSubmit, CollectNone,
         CollectFailure, BranchDone, Collect, BranchEnds, RaiseFrom, States
    <3>2. CASE Join(r) \/ \E t \in NodeResults : NodeEnds(r, t)
      BY <3>2, GoOnMoves DEF Join, NodeEnds, States
    <3>. QED
      BY <1>1, <3>1, <3>2 DEF Run
  <2>. QED
    BY <1>0, <2>1
<1>2. ASSUME NEW r \in Runners, Submit(r), b # NextEdge(Item(r)) PROVE st'[b] = "absent"
  BY <1>0, <1>2 DEF Submit
<1>3. CASE TakeBranch
  <2>1. st[Head(pool)] = "queued"
    BY <1>3, Stepping DEF TakeBranch, PoolHeld
  <2>. QED
    BY <1>0, <1>3, <2>1 DEF TakeBranch
<1>4. CASE RunEnds \/ Abandon \/ TimePasses \/ UNCHANGED vars
  BY <1>0, <1>4 DEF RunEnds, Abandon, TimePasses, vars
<1>. QED
  BY <1>1, <1>2, <1>3, <1>4 DEF Steps, Next

LEMMA OwnedKept == ASSUME Steps PROVE Owned'
<1> SUFFICES ASSUME NEW b \in Branches, st'[b] # "absent"
             PROVE  \E o \in Runners : \E i \in DOMAIN Route[o] :
                        i <= pos'[o] /\ Route[o][i] = ParallelOf[b]
  BY DEF Owned
<1>1. CASE st[b] # "absent"
  <2>1. PICK o \in Runners : \E i \in DOMAIN Route[o] : i <= pos[o] /\ Route[o][i] = ParallelOf[b]
    BY <1>1 DEF Steps, JoinInv, Owned
  <2>2. pos[o] \in Nat /\ pos'[o] \in {pos[o], pos[o] + 1} /\ DOMAIN Route[o] \subseteq Nat
    BY Stepping, RouteAssumption DEF Lives
  <2>. QED
    BY <2>1, <2>2
<1>2. CASE st[b] = "absent"
  <2>1. PICK r \in Runners : Submit(r) /\ b = NextEdge(Item(r))
    BY <1>2, AbsentStays
  <2>2. Item(r) = ParallelOf[b] /\ pos' = pos
    BY <2>1, SubmitsOwn DEF BranchesOf
  <2>3. pos[r] \in DOMAIN Route[r] /\ pos[r] \in Nat
    BY Stepping
  <2>. QED
    BY <2>2, <2>3 DEF Item
<1>. QED
  BY <1>1, <1>2

-----------------------------------------------------------------------------
(* What a runner at a parallel has counted.                                 *)

\* Where nobody takes an event, nothing changes in what was told.
LEMMA ToldStays ==
    ASSUME Steps, NEW p \in Parallels, ~\E r \in Runners : TakenBy(r, p)
    PROVE  Told(p)' = Told(p) /\ (HasNoMore(p)' <=> HasNoMore(p))
<1>0. queue[p] \in Seq(Events) /\ queue'[p] \in Seq(Events)
  BY Stepping
<1>1. queue'[p] = queue[p] \/ \E r \in Runners : \E e \in Events : PutBy(r, p, e)
  BY Queues, Stepping DEF Steps
<1>2. ASSUME NEW b \in BranchesOf(p) PROVE b \in Told(p)' <=> b \in Told(p)
  <2>0. b \in Branches /\ b \in Runners /\ ParallelOf[b] = p
    BY DEF BranchesOf, Branches
  <2>1. EndsIn(p, b) \subseteq EndsIn(p, b)'
    BY <1>1, PutEvents DEF EndsIn
  <2>2. CASE Through(b)' /\ ~Through(b)
    BY <2>0, <2>2, ThroughPuts DEF Told
  <2>3. CASE Through(b)
    <3>1. EndsIn(p, b)' \subseteq EndsIn(p, b)
      <4>1. CASE queue'[p] = queue[p]
        BY <4>1 DEF EndsIn
      <4>2. ASSUME NEW r \in Runners, NEW e \in Events, PutBy(r, p, e)
            PROVE  EndsIn(p, b)' \subseteq EndsIn(p, b)
        BY <2>3, <4>2, PutOwn, PutEvents DEF EndsIn
      <4>. QED
        BY <1>1, <4>1, <4>2
    <3>2. Through(b)'
      BY <2>0, <2>3, Stepping DEF Lives
    <3>. QED
      BY <2>1, <2>3, <3>1, <3>2 DEF Told
  <2>4. CASE ~Through(b) /\ ~Through(b)'
    BY <2>4 DEF Told
  <2>. QED
    BY <2>2, <2>3, <2>4
<1>3. HasNoMore(p)' <=> HasNoMore(p)
  <2>1. CASE queue'[p] = queue[p]
    BY <2>1 DEF HasNoMore
  <2>2. ASSUME NEW r \in Runners, NEW e \in Events, PutBy(r, p, e)
        PROVE  HasNoMore(p)' <=> HasNoMore(p)
    <3>1. e # NoMore
      BY <2>2 DEF PutBy
    <3>. QED
      BY <2>2, <3>1, PutEvents DEF HasNoMore
  <2>. QED
    BY <1>1, <2>1, <2>2
<1>. QED
  BY <1>2, <1>3 DEF Told

AtItems == {"submit", "admit", "collect", "wait"}

\* What a runner at a parallel does itself.
Acts(r) == CountSubmit(r) \/ RejectSubmit(r) \/ Submit(r) \/ Takes(r) \/ Join(r)

LEMMA OthersLeave ==
    ASSUME Steps, NEW r \in Runners, st[r] \in AtItems, ~Acts(r)
    PROVE  st'[r] = st[r] /\ pos'[r] = pos[r] /\ succeeded'[r] = succeeded[r]
<1>0. /\ st \in [Runners -> States] /\ pos \in [Runners -> Nat \ {0}]
      /\ succeeded \in [Runners -> Nat] /\ Root \in Runners
  BY Stepping, RunnerAssumption DEF Messages
<1>1. ASSUME NEW s \in Runners, Run(s), s # r PROVE st'[r] = st[r] /\ pos'[r] = pos[r]
                                                  /\ succeeded'[r] = succeeded[r]
  <2>1. CASE CheckLimits(s) \/ NodeStarts(s) \/ NodeRaises(s) \/ CountSubmit(s)
             \/ RejectSubmit(s) \/ CollectNone(s) \/ CollectFailure(s) \/ BranchDone(s)
             \/ BranchEnds(s) \/ Collect(s)
    BY <1>0, <1>1, <2>1 DEF CheckLimits, NodeStarts, NodeRaises, CountSubmit, RejectSubmit,
       CollectNone, CollectFailure, BranchDone, Collect, BranchEnds, RaiseFrom
  <2>2. CASE Join(s) \/ \E t \in NodeResults : NodeEnds(s, t)
    BY <1>0, <1>1, <2>2 DEF Join, NodeEnds, GoOn
  <2>3. CASE Submit(s)
    BY <1>0, <1>1, <2>3, SubmitsOwn DEF Submit, AtItems
  <2>. QED
    BY <1>1, <2>1, <2>2, <2>3 DEF Run
<1>2. ~Run(r)
  BY DEF Run, Acts, Takes, AtItems, CheckLimits, NodeStarts, NodeRaises, NodeEnds, BranchEnds,
     BranchDone
<1>3. CASE TakeBranch
  <2>1. st[Head(pool)] = "queued"
    BY <1>3, Stepping DEF TakeBranch, PoolHeld
  <2>. QED
    BY <1>0, <1>3, <2>1 DEF TakeBranch, AtItems
<1>4. CASE RunEnds \/ Abandon \/ TimePasses \/ UNCHANGED vars
  BY <1>0, <1>4 DEF RunEnds, Abandon, TimePasses, vars, AtItems
<1>. QED
  BY <1>1, <1>2, <1>3, <1>4 DEF Steps, Next

\* A runner comes to a parallel, or to the end of its route, by going on.
LEMMA Arrives ==
    ASSUME Steps, NEW r \in Runners,
           \/ pos'[r] # pos[r]
           \/ st'[r] \in AtItems \cup {"leave"} /\ st[r] \notin AtItems \cup {"leave"}
    PROVE  GoOn(r) /\ ((st[r] = "run" /\ Item(r) \in Nodes) \/ Join(r))
<1>0. /\ st \in [Runners -> States] /\ pos \in [Runners -> Nat \ {0}] /\ Root \in Runners
      /\ Positions
  BY Stepping, RunnerAssumption
<1>1. ASSUME NEW s \in Runners, Run(s)
      PROVE  GoOn(r) /\ ((st[r] = "run" /\ Item(r) \in Nodes) \/ Join(r))
  <2>1. CASE CheckLimits(s) \/ NodeStarts(s) \/ NodeRaises(s) \/ CountSubmit(s)
             \/ RejectSubmit(s) \/ CollectNone(s) \/ CollectFailure(s) \/ BranchDone(s)
             \/ BranchEnds(s) \/ Collect(s)
    BY <1>0, <1>1, <2>1 DEF CheckLimits, NodeStarts, NodeRaises, CountSubmit, RejectSubmit,
       CollectNone, CollectFailure, BranchDone, Collect, BranchEnds, RaiseFrom, AtItems
  <2>2. CASE Join(s)
    BY <1>0, <1>1, <2>2 DEF Join, GoOn
  <2>3. ASSUME NEW t \in NodeResults, NodeEnds(s, t)
        PROVE  GoOn(r) /\ ((st[r] = "run" /\ Item(r) \in Nodes) \/ Join(r))
    <3>1. st[s] = "run" /\ Item(s) \in Nodes
      BY <1>0, <2>3 DEF NodeEnds, Positions
    <3>2. CASE st' = [st EXCEPT ![s] = "done"] /\ pos' = pos
      BY <1>0, <3>2 DEF AtItems
    <3>3. CASE GoOn(s)
      BY <1>0, <3>1, <3>3 DEF GoOn
    <3>. QED
      BY <2>3, <3>2, <3>3 DEF NodeEnds
  <2>4. CASE Submit(s)
    BY <1>0, <1>1, <2>4, SubmitsOwn DEF Submit, AtItems
  <2>. QED
    BY <1>1, <2>1, <2>2, <2>3, <2>4 DEF Run
<1>2. CASE RunEnds \/ Abandon \/ TakeBranch \/ TimePasses \/ UNCHANGED vars
  <2>1. /\ pos' = pos
        /\ st' = st \/ \E s : \E x \in {"check", "done"} : st' = [st EXCEPT ![s] = x]
    BY <1>2 DEF RunEnds, Abandon, TakeBranch, TimePasses, vars
  <2>. QED
    BY <1>0, <2>1 DEF AtItems
<1>. QED
  BY <1>1, <1>2 DEF Steps, Next

\* When all branches have told their end, nothing is in the queue but sentinels.
LEMMA AllTold ==
    ASSUME Attributed, NEW p \in Parallels, Told(p) = BranchesOf(p), NEW i \in DOMAIN queue[p]
    PROVE  queue[p][i] = NoMore
BY DEF Attributed, Told

LEMMA BranchesFinite ==
    ASSUME NEW p
    PROVE  IsFiniteSet(BranchesOf(p)) /\ Cardinality(BranchesOf(p)) \in Nat
<1>1. BranchesOf(p) \subseteq Runners
  BY DEF BranchesOf, Branches
<1>. QED
  BY <1>1, RunnerAssumption, FS_Subset, FS_CardinalityType

\* The collecting loop takes an event that is not the sentinel.
LEMMA CollectCounts ==
    ASSUME Steps, Attributed', NEW r \in Runners, Collect(r), st'[r] = "collect"
    PROVE  Collects(r)'
<1>a. PICK p \in Parallels : p = Item(r)
  BY Stepping DEF Collect, Positions
<1> DEFINE e == Head(queue[p])
           own == OfParallel(p, e, "branchSucceeded")
           count == IF own THEN succeeded[r] + 1 ELSE succeeded[r]
<1>0. /\ st[r] = "collect" /\ queue[p] # <<>> /\ e # NoMore
      /\ ~OfParallel(p, e, "branchFailed")
  BY <1>a DEF Collect
<1>1. /\ p \in Parallels /\ queue[p] \in Seq(Events) /\ succeeded \in [Runners -> Nat]
      /\ queue \in [Parallels -> Seq(Events)]
  BY <1>0, Stepping DEF Positions, Messages
<1>2. 1 \in DOMAIN queue[p] /\ queue[p][1] = e /\ e \in Events
  BY <1>0, <1>1
<1>3. /\ ~HasNoMore(p) /\ succeeded[r] = Cardinality(Told(p)) /\ Told(p) # BranchesOf(p)
  <2>1. Collects(r)
    BY <1>0 DEF Steps, JoinInv, Tallied
  <2>2. queue[p] # <<NoMore>>
    BY <1>0
  <2>. QED
    BY <1>a, <2>1, <2>2 DEF Collects
<1>4. pos' = pos /\ succeeded'[r] = count
  BY <1>a, <1>1 DEF Collect
<1>5. queue'[p] = IF own /\ count = Cardinality(BranchesOf(p))
                  THEN Append(Tail(queue[p]), NoMore) ELSE Tail(queue[p])
  <2>1. PICK closed : Yield(r, e, AfterTurn(p, count), closed)
    BY <1>a DEF Collect
  <2>2. /\ AfterTurn(p, count)[p] = (IF own /\ count = Cardinality(BranchesOf(p))
                                    THEN Append(Tail(queue[p]), NoMore) ELSE Tail(queue[p]))
        /\ AfterTurn(p, count) \in [Parallels -> Seq(Events)]
    <3> DEFINE x == IF own /\ count = Cardinality(BranchesOf(p))
                    THEN Append(Tail(queue[p]), NoMore) ELSE Tail(queue[p])
    <3>1. NoMore \in Events /\ Tail(queue[p]) \in Seq(Events)
      BY <1>0, <1>1 DEF Events
    <3>2. x \in Seq(Events)
      BY <3>1
    <3>3. AfterTurn(p, count) = [queue EXCEPT ![p] = x]
      BY DEF AfterTurn
    <3>. HIDE DEF x
    <3>4. AfterTurn(p, count)[p] = x /\ AfterTurn(p, count) \in [Parallels -> Seq(Events)]
      BY <1>1, <3>2, <3>3
    <3>. QED
      BY <3>4 DEF x
  <2>3. r \in Branches => ParallelOf[r] # p
    BY <1>a, <1>1, AtParallel, Stepping
  <2>4. queue'[p] = AfterTurn(p, count)[p]
    <3>. HIDE DEF count, own, e
    <3>1. CASE r = Root
      BY <2>1, <3>1 DEF Yield
    <3>2. CASE r # Root
      <4>1. queue' = [AfterTurn(p, count) EXCEPT ![ParallelOf[r]] = Append(@, e)]
        BY <2>1, <3>2 DEF Yield
      <4>2. r \in Branches
        BY <3>2 DEF Branches
      <4>. QED
        BY <1>1, <2>2, <2>3, <4>1, <4>2, RunnerAssumption
    <3>. QED
      BY <3>1, <3>2
  <2>. QED
    BY <2>2, <2>4
<1>6. Item(r)' = p
  BY <1>a, <1>4 DEF Item
<1>7. \A b \in BranchesOf(p) : Through(b)' <=> Through(b)
  <2>1. st' = st \/ st' = [st EXCEPT ![r] = "done"]
    BY DEF Collect
  <2>2. st' = st
    BY <2>1, Stepping
  <2>. QED
    BY <2>2 DEF Through
<1>8. ASSUME NEW b \in BranchesOf(p) PROVE b \in Told(p)' <=> b \in Told(p) \/ e.of = b
  <2>1. b \in Branches /\ ParallelOf[b] = p
    BY DEF BranchesOf
  <2>2. \A k \in EndsIn(p, b) : Through(b) /\ \A j \in EndsIn(p, b) : k = j
    BY <2>1 DEF Steps, JoinInv, OwnEnds
  <2>3. EndsIn(p, b)' = {k - 1 : k \in EndsIn(p, b) \ {1}}
    <3>1. Tail(queue[p]) \in Seq(Events)
      BY <1>0, <1>1
    <3>2. \A k \in Nat : k \in DOMAIN queue'[p] /\ queue'[p][k].of = b
             <=> k \in Nat \ {0} /\ k + 1 \in DOMAIN queue[p] /\ queue[p][k + 1].of = b
      BY <1>0, <1>1, <1>5, <2>1, <3>1, NoMoreIsNoBranch
    <3>3. DOMAIN queue'[p] \subseteq Nat /\ DOMAIN queue[p] \subseteq Nat \ {0}
      BY <1>1, Stepping
    <3>4. \A k \in EndsIn(p, b)' : k + 1 \in EndsIn(p, b) \ {1} /\ k = (k + 1) - 1
      BY <3>2, <3>3 DEF EndsIn
    <3>5. \A k \in EndsIn(p, b) \ {1} : k - 1 \in EndsIn(p, b)'
      <4>1. ASSUME NEW k \in EndsIn(p, b) \ {1} PROVE k - 1 \in EndsIn(p, b)'
        <5>1. k \in Nat /\ k - 1 \in Nat \ {0} /\ (k - 1) + 1 = k
          BY <3>3 DEF EndsIn
        <5>. QED
          BY <3>2, <5>1 DEF EndsIn
      <4>. QED
        BY <4>1
    <3>. QED
      BY <3>4, <3>5
  <2>4. e.of = b <=> 1 \in EndsIn(p, b)
    BY <1>2 DEF EndsIn
  <2>. QED
    BY <1>7, <2>2, <2>3, <2>4 DEF Told
<1>9. own <=> e.of \in BranchesOf(p)
  BY <1>0, <1>2, RouteAssumption DEF OfParallel, Events, BranchesOf, Branches, NodeResults
<1>10. ~HasNoMore(p)' \/ (own /\ count = Cardinality(BranchesOf(p)))
  <2>1. CASE queue'[p] = Tail(queue[p])
    BY <1>0, <1>1, <1>3, <2>1 DEF HasNoMore
  <2>. QED
    BY <1>5, <2>1
<1>11. IsFiniteSet(BranchesOf(p)) /\ Cardinality(BranchesOf(p)) \in Nat
       /\ Told(p) \subseteq BranchesOf(p) /\ Told(p)' \subseteq BranchesOf(p)
  BY BranchesFinite DEF Told
<1>12. CASE ~own
  <2>1. Told(p)' = Told(p)
    BY <1>8, <1>9, <1>11, <1>12
  <2>2. Collects(r)' <=> (IF HasNoMore(p)'
                          THEN queue'[p] = <<NoMore>> /\ Told(p)' = BranchesOf(p)
                          ELSE succeeded'[r] = Cardinality(Told(p)') /\ Told(p)' # BranchesOf(p))
    BY <1>6 DEF Collects
  <2>. QED
    BY <1>3, <1>4, <1>10, <1>12, <2>1, <2>2
<1>13. CASE own
  <2>1. e.of \in BranchesOf(p) /\ Told(p)' = Told(p) \cup {e.of}
    BY <1>8, <1>9, <1>11, <1>13
  <2>2. e.of \notin Told(p)
    BY <1>2 DEF Told, EndsIn
  <2>3. Cardinality(Told(p)') = Cardinality(Told(p)) + 1 /\ IsFiniteSet(Told(p))
    BY <1>11, <2>1, <2>2, FS_Subset, FS_AddElement
  <2>4. count = Cardinality(Told(p)')
    BY <1>3, <1>13, <2>3
  <2>5. Told(p)' = BranchesOf(p) <=> count = Cardinality(BranchesOf(p))
    BY <1>11, <2>4, FS_Subset
  <2>6. CASE count = Cardinality(BranchesOf(p))
    <3>1. queue'[p] = Append(Tail(queue[p]), NoMore) /\ Tail(queue[p]) \in Seq(Events)
      BY <1>0, <1>1, <1>5, <1>13, <2>6
    <3>2. \A i \in DOMAIN queue'[p] : queue'[p][i] = NoMore
      BY <1>1, <2>5, <2>6 DEF Attributed, Told
    <3>3. \A i \in DOMAIN Tail(queue[p]) : Tail(queue[p])[i] # NoMore
      BY <1>0, <1>1, <1>3 DEF HasNoMore
    <3>4. Tail(queue[p]) = <<>>
      <4>1. ASSUME NEW i \in DOMAIN Tail(queue[p]) PROVE FALSE
        BY <3>1, <3>2, <3>3
      <4>2. DOMAIN Tail(queue[p]) = 1..Len(Tail(queue[p])) /\ Len(Tail(queue[p])) \in Nat
        BY <3>1
      <4>. QED
        BY <3>1, <4>1, <4>2
    <3>5. queue'[p] = <<NoMore>>
      <4>1. Append(<<>>, NoMore) = <<NoMore>>
        OBVIOUS
      <4>. QED
        BY <3>1, <3>4, <4>1
    <3>6. HasNoMore(p)'
      BY <3>5 DEF HasNoMore
    <3>. QED
      BY <1>6, <2>5, <2>6, <3>5, <3>6 DEF Collects
  <2>7. CASE count # Cardinality(BranchesOf(p))
    <3>1. ~HasNoMore(p)' /\ succeeded'[r] = Cardinality(Told(p)') /\ Told(p)' # BranchesOf(p)
      BY <1>4, <1>10, <2>4, <2>5, <2>7
    <3>. QED
      BY <1>6, <3>1 DEF Collects
  <2>. QED
    BY <2>6, <2>7
<1>. QED
  BY <1>12, <1>13

\* Nobody else takes from the queue of the parallel a runner is at.
LEMMA NoTaker ==
    ASSUME Steps, NEW r \in Runners, st[r] \in AtItems, ~Takes(r), NEW p, p = Item(r)
    PROVE  p \in Parallels /\ ~\E s \in Runners : TakenBy(s, p)
<1>1. Item(r) \in Parallels
  BY Stepping DEF Positions, AtItems
<1>2. ASSUME NEW s \in Runners, TakenBy(s, p) PROVE FALSE
  <2>1. Item(s) = p /\ pos[s] \in DOMAIN Route[s] /\ Takes(s)
    BY <1>2, Stepping DEF TakenBy
  <2>2. s = r
    BY <1>1, <2>1, AtParallel, Stepping DEF Item
  <2>. QED
    BY <2>1, <2>2
<1>. QED
  BY <1>1, <1>2

\* A runner that comes to a parallel finds none of its branches submitted.
LEMMA SubmitsFirst ==
    ASSUME Steps, Silent', NEW r \in Runners, GoOn(r), st[r] \notin {"absent", "ending", "done"},
           st'[r] \in AtItems
    PROVE  st'[r] = "submit" /\ Submits(r)'
<1>0. /\ st \in [Runners -> States] /\ pos \in [Runners -> Nat \ {0}] /\ Positions
      /\ pos'[r] \in DOMAIN Route[r]
  BY Stepping
<1>1. st'[r] = "submit" /\ st' = [st EXCEPT ![r] = "submit"] /\ pos'[r] = pos[r] + 1
  BY <1>0 DEF GoOn, AtItems
<1>2. PICK p : p = Route[r][pos'[r]]
  OBVIOUS
<1>3. p \in Parallels /\ Item(r)' = p
  <2>1. Positions'
    BY NextEngine DEF Steps, EngineInv
  <2>. QED
    BY <1>1, <1>2, <2>1 DEF Positions, Item
<1>4. ASSUME NEW b \in BranchesOf(p) PROVE st'[b] = "absent"
  <2>1. b \in Branches /\ b \in Runners /\ ParallelOf[b] = p
    BY DEF BranchesOf, Branches
  <2>2. st[b] = "absent"
    <3>1. SUFFICES ASSUME st[b] # "absent" PROVE FALSE
      OBVIOUS
    <3>2. PICK o \in Runners : \E i \in DOMAIN Route[o] : i <= pos[o] /\ Route[o][i] = p
      BY <2>1, <3>1 DEF Steps, JoinInv, Owned
    <3>3. o = r /\ pos'[r] <= pos[r]
      BY <1>0, <1>2, <3>2, PlaceAssumption
    <3>. QED
      BY <1>0, <1>1, <3>3
  <2>. QED
    BY <1>0, <1>1, <2>1, <2>2
<1>5. Told(p)' = {} /\ queue'[p] = <<>>
  BY <1>3, <1>4 DEF Silent, Told, Through
<1>6. \E b \in BranchesOf(p) : TRUE
  BY <1>3, PlaceAssumption DEF BranchesOf
<1>. QED
  BY <1>1, <1>3, <1>4, <1>5, <1>6 DEF Submits, HasNoMore

\* A runner at the end of its route goes nowhere but to its end.
LEMMA LeavesAre ==
    ASSUME Steps, NEW r \in Runners, st[r] = "leave"
    PROVE  st'[r] \in {"leave", "ending", "done"}
<1>0. st \in [Runners -> States] /\ Root \in Runners
  BY Stepping, RunnerAssumption
<1>1. ASSUME NEW s \in Runners, Run(s) PROVE st'[r] \in {"leave", "ending", "done"}
  <2>1. CASE CheckLimits(s) \/ NodeStarts(s) \/ NodeRaises(s) \/ CountSubmit(s)
             \/ RejectSubmit(s) \/ CollectNone(s) \/ CollectFailure(s) \/ BranchDone(s)
             \/ BranchEnds(s) \/ Collect(s)
    BY <1>0, <2>1 DEF CheckLimits, NodeStarts, NodeRaises, CountSubmit, RejectSubmit,
       CollectNone, CollectFailure, BranchDone, Collect, BranchEnds, RaiseFrom
  <2>2. CASE Join(s) \/ \E t \in NodeResults : NodeEnds(s, t)
    BY <1>0, <2>2 DEF Join, NodeEnds, GoOn
  <2>3. CASE Submit(s)
    BY <1>0, <2>3, SubmitsOwn DEF Submit
  <2>. QED
    BY <1>1, <2>1, <2>2, <2>3 DEF Run
<1>2. CASE TakeBranch
  <2>1. st[Head(pool)] = "queued"
    BY <1>2, Stepping DEF TakeBranch, PoolHeld
  <2>. QED
    BY <1>0, <1>2, <2>1 DEF TakeBranch
<1>3. CASE RunEnds \/ Abandon \/ TimePasses \/ UNCHANGED vars
  BY <1>0, <1>3 DEF RunEnds, Abandon, TimePasses, vars
<1>. QED
  BY <1>1, <1>2, <1>3 DEF Steps, Next

LEMMA TalliedKept == ASSUME Steps, Attributed', Silent' PROVE Tallied'
<1> SUFFICES ASSUME NEW r \in Runners, st'[r] \in AtItems
             PROVE  /\ st'[r] \in {"submit", "admit"} => Submits(r)'
                    /\ st'[r] = "collect" => Collects(r)'
                    /\ st'[r] = "wait" => Waits(r)'
  BY DEF Tallied, AtItems
<1> DEFINE Goal == /\ st'[r] \in {"submit", "admit"} => Submits(r)'
                   /\ st'[r] = "collect" => Collects(r)'
                   /\ st'[r] = "wait" => Waits(r)'
<1>0. /\ st \in [Runners -> States] /\ pos \in [Runners -> Nat \ {0}] /\ Positions
      /\ \A s \in Runners : pos[s] \in DOMAIN Route[s]
  BY Stepping
<1>t. /\ st[r] \in {"submit", "admit"} => Submits(r)
      /\ st[r] = "collect" => Collects(r)
      /\ st[r] = "wait" => Waits(r)
  BY DEF Steps, JoinInv, Tallied
<1>p. PICK p : p = Item(r)
  OBVIOUS
<1>1. CASE st[r] \notin AtItems \/ Join(r)
  <2>1. GoOn(r) /\ st[r] \in {"run", "wait"}
    <3>1. CASE Join(r)
      BY <3>1 DEF Join
    <3>2. CASE st[r] \notin AtItems /\ st[r] # "leave"
      BY <3>2, Arrives DEF Join
    <3>3. CASE st[r] = "leave"
      BY <3>3, LeavesAre DEF AtItems
    <3>. QED
      BY <1>1, <3>1, <3>2, <3>3
  <2>. QED
    BY <2>1, SubmitsFirst
<1>2. CASE st[r] \in AtItems /\ ~Acts(r)
  <2>1. st'[r] = st[r] /\ pos'[r] = pos[r] /\ succeeded'[r] = succeeded[r]
    BY <1>2, OthersLeave
  <2>2. Item(r)' = p
    BY <1>p, <2>1 DEF Item
  <2>3. p \in Parallels /\ ~\E s \in Runners : TakenBy(s, p)
    BY <1>2, <1>p, NoTaker DEF Acts
  <2>4. Told(p)' = Told(p) /\ (HasNoMore(p)' <=> HasNoMore(p))
    BY <2>3, ToldStays
  <2>5. ASSUME NEW b \in BranchesOf(p), st[b] = "absent" PROVE st'[b] = "absent"
    <3>1. SUFFICES ASSUME st'[b] # "absent" PROVE FALSE
      OBVIOUS
    <3>2. PICK s \in Runners : Submit(s) /\ b = NextEdge(Item(s))
      BY <2>5, <3>1, AbsentStays DEF BranchesOf
    <3>3. Item(s) = p
      BY <3>2, SubmitsOwn DEF BranchesOf
    <3>4. s = r
      BY <1>0, <1>p, <2>3, <3>3, AtParallel DEF Item
    <3>. QED
      BY <1>2, <3>2, <3>4 DEF Acts
  <2>6. Told(p) = BranchesOf(p) => queue'[p] = queue[p]
    <3>1. ASSUME Told(p) = BranchesOf(p), NEW s \in Runners, NEW e \in Events, PutBy(s, p, e)
          PROVE  FALSE
      BY <3>1 DEF PutBy, Told, Through
    <3>. QED
      BY <2>3, <3>1, Queues, Stepping DEF Steps
  <2>7. CASE st[r] \in {"submit", "admit"}
    BY <1>p, <1>t, <2>1, <2>2, <2>4, <2>5, <2>7 DEF Submits
  <2>8. CASE st[r] = "collect"
    BY <1>p, <1>t, <2>1, <2>2, <2>4, <2>6, <2>8 DEF Collects
  <2>9. CASE st[r] = "wait"
    BY <1>p, <1>t, <2>1, <2>2, <2>4, <2>6, <2>9 DEF Waits
  <2>. QED
    BY <1>2, <2>7, <2>8, <2>9 DEF AtItems
<1>3. CASE CountSubmit(r)
  <2>1. st[r] = "submit" /\ st' = [st EXCEPT ![r] = "admit"] /\ pos' = pos
    BY <1>3 DEF CountSubmit
  <2>2. p \in Parallels /\ Told(p)' = Told(p) /\ (HasNoMore(p)' <=> HasNoMore(p))
    BY <1>p, <2>1, NoTaker, ToldStays DEF AtItems, Takes, Collect, CollectFailure, CollectNone
  <2>3. Item(r)' = p
    BY <1>p, <2>1 DEF Item
  <2>4. \E b \in BranchesOf(p) : st'[b] = "absent"
    BY <1>0, <1>p, <1>t, <2>1 DEF Submits, BranchesOf, Branches
  <2>5. st'[r] = "admit"
    BY <1>0, <2>1
  <2>. QED
    BY <1>p, <1>t, <2>1, <2>2, <2>3, <2>4, <2>5 DEF Submits
<1>4. CASE Submit(r)
  <2> DEFINE b == NextEdge(p)
  <2>1. /\ st[r] = "admit" /\ pos' = pos /\ succeeded'[r] = 0
        /\ b \in BranchesOf(p) /\ b \in Runners
        /\ st' = [st EXCEPT ![b] = "queued",
                            ![r] = IF \E c \in BranchesOf(p) : c # b /\ st[c] = "absent"
                                   THEN "submit" ELSE "collect"]
    BY <1>4, <1>p, SubmitsOwn, Stepping DEF Submit, Messages, BranchesOf, Branches
  <2>2. p \in Parallels /\ Told(p)' = Told(p) /\ (HasNoMore(p)' <=> HasNoMore(p))
    BY <1>p, <2>1, NoTaker, ToldStays DEF AtItems, Takes, Collect, CollectFailure, CollectNone
  <2>3. Item(r)' = p
    BY <1>p, <2>1 DEF Item
  <2>4. Told(p)' = {} /\ ~HasNoMore(p)'
    BY <1>p, <1>t, <2>1, <2>2 DEF Submits
  <2>. HIDE DEF b
  <2>5. CASE \E c \in BranchesOf(p) : c # b /\ st[c] = "absent"
    <3>1. PICK c \in BranchesOf(p) : c # b /\ st[c] = "absent"
      BY <2>5
    <3>2. c \in Runners /\ c # r
      BY <2>1, <3>1 DEF BranchesOf, Branches
    <3>3. st'[c] = "absent" /\ st'[r] = "submit"
      BY <1>0, <2>1, <2>5, <3>1, <3>2
    <3>. QED
      BY <2>3, <2>4, <3>1, <3>3 DEF Submits
  <2>6. CASE ~\E c \in BranchesOf(p) : c # b /\ st[c] = "absent"
    <3>1. st'[r] = "collect"
      BY <1>0, <2>1, <2>6
    <3>2. Cardinality(Told(p)') = 0
      BY <2>4, FS_EmptySet
    <3>3. Told(p)' # BranchesOf(p) /\ succeeded'[r] = Cardinality(Told(p)')
      BY <2>1, <2>4, <3>2
    <3>. QED
      BY <2>3, <2>4, <3>1, <3>3 DEF Collects
  <2>. QED
    BY <2>5, <2>6
<1>5. CASE CollectNone(r)
  <2>1. /\ st[r] = "collect" /\ pos' = pos /\ st' = [st EXCEPT ![r] = "wait"]
        /\ queue[p] # <<>> /\ Head(queue[p]) = NoMore /\ p \in Parallels
        /\ queue' = [queue EXCEPT ![p] = Tail(@)] /\ queue[p] \in Seq(Events)
    BY <1>5, <1>p, Stepping DEF CollectNone, Positions
  <2>2. HasNoMore(p)
    <3>1. 1 \in DOMAIN queue[p] /\ queue[p][1] = NoMore
      BY <2>1
    <3>. QED
      BY <3>1 DEF HasNoMore
  <2>3. queue[p] = <<NoMore>> /\ Told(p) = BranchesOf(p)
    BY <1>p, <1>t, <2>1, <2>2 DEF Collects
  <2>4. queue'[p] = <<>>
    <3>1. Tail(<<NoMore>>) = <<>>
      OBVIOUS
    <3>. QED
      BY <2>1, <2>3, <3>1, Stepping
  <2>5. ASSUME NEW c \in BranchesOf(p) PROVE c \in Told(p)'
    <3>1. Through(c) /\ c \in Runners
      BY <2>3 DEF Told, BranchesOf, Branches
    <3>2. Through(c)' /\ EndsIn(p, c)' = {}
      BY <2>4, <3>1, Stepping DEF Lives, EndsIn
    <3>. QED
      BY <3>2 DEF Told
  <2>6. Told(p)' = BranchesOf(p)
    BY <2>5 DEF Told
  <2>7. Item(r)' = p /\ st'[r] = "wait"
    BY <1>0, <1>p, <2>1 DEF Item
  <2>. QED
    BY <2>4, <2>6, <2>7 DEF Waits
<1>6. CASE Collect(r)
  <2>1. st'[r] \in {"collect", "done"}
    BY <1>0, <1>6 DEF Collect
  <2>2. st'[r] = "collect"
    BY <2>1 DEF AtItems
  <2>. QED
    BY <1>6, <2>2, CollectCounts
<1>7. CASE RejectSubmit(r) \/ CollectFailure(r)
  <2>1. st'[r] \in {"fail", "done"}
    BY <1>0, <1>7 DEF RejectSubmit, CollectFailure, RaiseFrom
  <2>. QED
    BY <2>1 DEF AtItems
<1>. QED
  BY <1>1, <1>2, <1>3, <1>4, <1>5, <1>6, <1>7 DEF Acts, Takes

-----------------------------------------------------------------------------
(* Joining.                                                                 *)

\* What a runner finds when it goes on behind a parallel.
LEMMA JoinFinds ==
    ASSUME Steps, NEW r \in Runners, Join(r)
    PROVE  Closed(Item(r)) /\ \A b \in BranchesOf(Item(r)) : Whole(b)
<1>1. st[r] = "wait" /\ \A b \in BranchesOf(Item(r)) : st[b] = "done"
  BY DEF Join
<1>2. Item(r) \in Parallels /\ Waits(r)
  BY <1>1, Stepping DEF Positions, Steps, JoinInv, Tallied
<1>3. Closed(Item(r))
  BY <1>1, <1>2 DEF Waits, Closed
<1>4. ASSUME NEW b \in BranchesOf(Item(r)) PROVE Whole(b)
  <2>1. b \in Branches /\ ParallelOf[b] = Item(r) /\ Through(b)
    BY <1>1 DEF BranchesOf, Through
  <2>2. Whole(b) \/ FailedIn(Item(r), b) \/ Broken(Item(r))
    BY <2>1 DEF Steps, JoinInv, Sorted
  <2>3. ~FailedIn(Item(r), b)
    BY <1>2 DEF Waits, FailedIn
  <2>4. ASSUME NEW o \in Runners, st[o] \in {"fail", "ending", "done"}, Item(o) = Item(r)
        PROVE  FALSE
    <3>1. o = r
      BY <1>2, <2>4, AtParallel, Stepping DEF Item
    <3>. QED
      BY <1>1, <2>4, <3>1
  <2>. QED
    BY <2>2, <2>3, <2>4 DEF Broken
<1>. QED
  BY <1>3, <1>4

\* What is behind a runner that is at an item.
LEMMA BehindNode ==
    ASSUME Steps, NEW r \in Runners, GoOn(r), (st[r] = "run" /\ Item(r) \in Nodes) \/ Join(r),
           NEW i \in 1..pos[r], Route[r][i] \in Parallels
    PROVE  Closed(Route[r][i]) /\ \A b \in BranchesOf(Route[r][i]) : Whole(b)
<1>0. pos[r] \in Nat /\ i \in Nat
  BY Stepping
<1>1. CASE i = pos[r]
  <2>1. Item(r) = Route[r][i]
    BY <1>1 DEF Item
  <2>2. Join(r)
    BY <2>1, RouteAssumption
  <2>. QED
    BY <2>1, <2>2, JoinFinds
<1>2. CASE i # pos[r]
  <2>1. i \in 1..(pos[r] - 1)
    BY <1>0, <1>2
  <2>. QED
    BY <2>1 DEF Steps, JoinInv, Behind
<1>. QED
  BY <1>1, <1>2

LEMMA BehindKept == ASSUME Steps PROVE Behind'
<1> SUFFICES ASSUME NEW r \in Runners, NEW i \in 1..(pos'[r] - 1), Route[r][i] \in Parallels
             PROVE  /\ Closed(Route[r][i])'
                    /\ \A b \in BranchesOf(Route[r][i]) : Whole(b)'
  BY DEF Behind
<1>0. pos[r] \in Nat /\ pos'[r] \in {pos[r], pos[r] + 1}
  BY Stepping DEF Lives
<1>1. Closed(Route[r][i]) /\ \A b \in BranchesOf(Route[r][i]) : Whole(b)
  <2>1. CASE pos'[r] = pos[r]
    BY <2>1 DEF Steps, JoinInv, Behind
  <2>2. CASE pos'[r] = pos[r] + 1
    <3>1. i \in 1..pos[r] /\ pos'[r] # pos[r]
      BY <1>0, <2>2
    <3>2. GoOn(r) /\ ((st[r] = "run" /\ Item(r) \in Nodes) \/ Join(r))
      BY <3>1, Arrives
    <3>. QED
      BY <3>1, <3>2, BehindNode
  <2>. QED
    BY <1>0, <2>1, <2>2
<1>2. ASSUME NEW b \in BranchesOf(Route[r][i]) PROVE Whole(b)'
  <2>1. b \in Runners /\ Through(b) /\ Whole(b)
    BY <1>1 DEF BranchesOf, Branches, Closed, Through
  <2>. QED
    BY <2>1, WholeBranchStays
<1>. QED
  BY <1>1, <1>2, ClosedStays

LEMMA SortedKept == ASSUME Steps, OwnEnds' PROVE Sorted'
<1>0. /\ st \in [Runners -> States] /\ pos \in [Runners -> Nat \ {0}]
      /\ queue \in [Parallels -> Seq(Events)] /\ queue' \in [Parallels -> Seq(Events)]
      /\ ParallelOf \in [Branches -> Parallels] /\ Branches \subseteq Runners
  BY Stepping, RunnerAssumption DEF Branches
<1>1. ASSUME NEW r \in Runners, st'[r] = "leave" PROVE Whole(r)'
  <2>1. CASE st[r] = "leave"
    <3>1. Whole(r)
      BY <2>1 DEF Steps, JoinInv, Sorted
    <3>. QED
      BY <2>1, <3>1, WholeBranchStays
  <2>2. CASE st[r] # "leave"
    <3>1. GoOn(r) /\ ((st[r] = "run" /\ Item(r) \in Nodes) \/ Join(r))
      <4>1. CASE st[r] \notin AtItems
        BY <1>1, <2>2, <4>1, Arrives
      <4>2. CASE st[r] \in AtItems
        <5>1. Acts(r)
          BY <1>1, <4>2, OthersLeave DEF AtItems
        <5>2. Join(r)
          BY <1>0, <1>1, <5>1, SubmitsOwn DEF Acts, Takes, CountSubmit, RejectSubmit, Submit,
             Collect, CollectFailure, CollectNone, RaiseFrom
        <5>. QED
          BY <5>2 DEF Join
      <4>. QED
        BY <4>1, <4>2
    <3>2. Whole(r)
      BY <3>1, BehindNode, WholeAbove
    <3>3. pos'[r] = pos[r]
      BY <1>0, <1>1, <3>1 DEF GoOn
    <3>. QED
      BY <3>2, <3>3, WholeStays
  <2>. QED
    BY <2>1, <2>2
<1>2. ASSUME NEW b \in Branches, NEW i \in DOMAIN queue'[ParallelOf[b]],
             queue'[ParallelOf[b]][i] = BranchEvent(b, "branchSucceeded")
      PROVE  Whole(b)'
  <2> DEFINE p == ParallelOf[b]
             e == BranchEvent(b, "branchSucceeded")
  <2>0. p \in Parallels /\ b \in BranchesOf(p) /\ e.of = b
    BY <1>0 DEF BranchesOf, BranchEvent
  <2>1. ASSUME NEW k \in DOMAIN queue[p], queue[p][k] = e PROVE Whole(b)'
    <3>1. Whole(b)
      BY <2>1 DEF Steps, JoinInv, Sorted
    <3>2. k \in EndsIn(p, b)
      BY <2>0, <2>1 DEF EndsIn
    <3>3. Through(b)
      BY <3>2 DEF Steps, JoinInv, OwnEnds
    <3>. QED
      BY <1>0, <3>1, <3>3, WholeBranchStays
  <2>2. CASE queue'[p] = queue[p]
    BY <1>2, <2>1, <2>2
  <2>3. ASSUME NEW s \in Runners, NEW f \in Events, PutBy(s, p, f) PROVE Whole(b)'
    <3>1. CASE i \in DOMAIN queue[p]
      BY <1>2, <2>1, <2>3, <3>1, <2>0, PutEvents
    <3>2. CASE i = Len(queue[p]) + 1
      <4>1. f = e
        BY <1>2, <2>0, <2>3, <3>2, PutEvents
      <4>2. s = b /\ st[b] \in {"leave", "fail"}
            /\ f = BranchEvent(b, IF st[b] = "leave" THEN "branchSucceeded" ELSE "branchFailed")
        BY <2>0, <2>3, <4>1, PutOwn
      <4>3. st[b] = "leave"
        BY <4>1, <4>2 DEF BranchEvent
      <4>4. Whole(b)
        BY <1>0, <4>3 DEF Steps, JoinInv, Sorted
      <4>. QED
        BY <1>0, <4>3, <4>4, WholeBranchStays
    <3>. QED
      BY <1>2, <2>0, <2>3, <3>1, <3>2, PutEvents
  <2>4. ASSUME NEW s \in Runners, TakenBy(s, p) PROVE Whole(b)'
    <3>1. e # NoMore
      BY DEF BranchEvent, NoMore
    <3>. QED
      BY <1>2, <2>0, <2>1, <2>4, <3>1, TakenEvents
  <2>. QED
    BY <2>0, <2>2, <2>3, <2>4, Queues, Stepping DEF Steps
<1>3. ASSUME NEW b \in Branches, Through(b)', ~Whole(b)', NEW p, p = ParallelOf[b]
      PROVE  FailedIn(p, b)' \/ Broken(p)'
  <2> DEFINE e == BranchEvent(b, "branchFailed")
  <2>0. p \in Parallels /\ b \in BranchesOf(p) /\ b \in Runners
    BY <1>0, <1>3 DEF BranchesOf
  <2>1. CASE ~Through(b)
    <3>1. st[b] # "leave"
      <4>1. st[b] = "leave" => Whole(b)
        BY <2>0 DEF Steps, JoinInv, Sorted
      <4>. QED
        BY <1>3, <2>0, <4>1, WholeBranchStays
    <3>2. queue'[p] = Append(queue[p], e) /\ queue[p] \in Seq(Events)
      BY <1>0, <1>3, <2>0, <2>1, <3>1, ThroughPuts
    <3>3. queue'[p][Len(queue[p]) + 1] = e /\ Len(queue[p]) + 1 \in DOMAIN queue'[p]
      BY <3>2
    <3>. QED
      BY <3>3 DEF FailedIn
  <2>2. CASE Through(b)
    <3>1. ~Whole(b)
      BY <1>3, <2>0, <2>2, WholeBranchStays
    <3>2. CASE Broken(p)
      <4>1. PICK o \in Runners : st[o] \in {"fail", "ending", "done"} /\ Item(o) = p
        BY <3>2 DEF Broken
      <4>2. Over(o)' /\ pos'[o] = pos[o]
        BY <4>1, Stepping DEF Lives, Over
      <4>. QED
        BY <4>1, <4>2 DEF Broken, Over, Item
    <3>3. CASE FailedIn(p, b)
      <4>1. PICK k \in DOMAIN queue[p] : queue[p][k] = e
        BY <3>3 DEF FailedIn
      <4>2. CASE queue'[p] = queue[p]
        BY <4>1, <4>2 DEF FailedIn
      <4>3. ASSUME NEW s \in Runners, NEW f \in Events, PutBy(s, p, f) PROVE FailedIn(p, b)'
        BY <2>0, <4>1, <4>3, PutEvents DEF FailedIn
      <4>4. ASSUME NEW s \in Runners, TakenBy(s, p) PROVE FailedIn(p, b)' \/ Broken(p)'
        <5>1. CASE k # 1
          <6>1. k - 1 \in DOMAIN queue'[p] /\ queue'[p][k - 1] = e
            BY <2>0, <4>1, <4>4, <5>1, TakenEvents
          <6>. QED
            BY <6>1 DEF FailedIn
        <5>2. CASE k = 1
          <6>1. Head(queue[p]) = e /\ Item(s) = p
            BY <1>0, <2>0, <4>1, <4>4, <5>2 DEF TakenBy
          <6>2. OfParallel(p, Head(queue[p]), "branchFailed") /\ Head(queue[p]) # NoMore
            BY <1>3, <6>1 DEF OfParallel, BranchEvent, NoMore
          <6>3. CollectFailure(s)
            BY <4>4, <6>1, <6>2 DEF TakenBy, Takes, Collect, CollectNone
          <6>4. st'[s] \in {"fail", "done"} /\ pos' = pos
            BY <1>0, <6>3 DEF CollectFailure, RaiseFrom
          <6>. QED
            BY <6>1, <6>4 DEF Broken, Item
        <5>. QED
          BY <5>1, <5>2
      <4>. QED
        BY <2>0, <4>2, <4>3, <4>4, Queues, Stepping DEF Steps
    <3>. QED
      BY <1>3, <2>2, <3>1, <3>2, <3>3 DEF Steps, JoinInv, Sorted
  <2>. QED
    BY <2>1, <2>2
<1>. QED
  BY <1>1, <1>2, <1>3 DEF Sorted

LEMMA InitJoin == Init => JoinInv
<1> SUFFICES ASSUME Init PROVE JoinInv
  OBVIOUS
<1>1. /\ \A p \in Parallels : queue[p] = <<>>
      /\ \A r \in Runners : pos[r] = 1 /\ st[r] \in {"check", "absent"}
      /\ \A b \in Branches : st[b] = "absent"
  BY DEF Init, Branches
<1>2. \A b \in Branches : ParallelOf[b] \in Parallels /\ ~Through(b)
  BY <1>1, RunnerAssumption DEF Through
<1>3. OwnEnds
  BY <1>1, <1>2 DEF OwnEnds, EndsIn
<1>4. Upward /\ Attributed /\ Silent
  BY <1>1 DEF Upward, Attributed, Silent
<1>5. Owned /\ Tallied
  BY <1>1 DEF Owned, Tallied
<1>6. Behind
  BY <1>1 DEF Behind
<1>7. Sorted
  BY <1>1, <1>2 DEF Sorted
<1>. QED
  BY <1>3, <1>4, <1>5, <1>6, <1>7 DEF JoinInv

LEMMA JoinInvariant == Spec => []JoinInv
<1>1. EngineInv /\ JoinInv /\ [Next]_vars => JoinInv'
  <2> SUFFICES ASSUME Steps PROVE JoinInv'
    BY DEF Steps
  <2>1. OwnEnds' /\ Upward' /\ Attributed' /\ Silent' /\ Owned'
    BY OwnEndsKept, UpwardKept, AttributedKept, SilentKept, OwnedKept
  <2>2. Tallied' /\ Behind' /\ Sorted'
    BY <2>1, TalliedKept, BehindKept, SortedKept
  <2>. QED
    BY <2>1, <2>2 DEF JoinInv
<1>. QED
  BY <1>1, InitJoin, EngineInvariant, PTL DEF Spec

\* What is behind a parallel waits for all its branches and for all that they
\* have to tell: no thread is left in one and no event in its queue, however deep
\* parallels are nested and whichever branch is late.
THEOREM JoinComesLast == Spec => []JoinIsLast
<1>1. JoinInv => JoinIsLast
  BY DEF JoinInv, Behind, Closed, JoinIsLast
<1>. QED
  BY <1>1, JoinInvariant, PTL

-----------------------------------------------------------------------------
(* What becomes of nodes and of what is told of them.                       *)

\* A node has a result.
Result(r, t) ==
    /\ st[r] = "run" /\ node' = [node EXCEPT ![Item(r)] = t]
    /\ \E closed \in BOOLEAN :
          /\ Yield(r, NodeEvent(Item(r), t), queue, closed)
          /\ r = Root /\ (closed \/ t = "failed") => st' = [st EXCEPT ![r] = "done"]
    /\ \E x \in {"leave", "check", "submit", "done", "fail"} : st' = [st EXCEPT ![r] = x]

\* The other steps, which change nothing that is known of a node.
Aside ==
    /\ node' = node /\ seen' = seen
    /\ queue' = queue \/ \E b \in Branches : BranchEnds(b)
    /\ \A q \in Runners : st'[q] = "run" => st[q] = "run"
    /\ \A q \in Runners : st[q] = "run" => st'[q] = "run" \/ outcome' = "abandoned"

LEMMA ResultOf ==
    ASSUME Steps, NEW r \in Runners, NodeRaises(r) \/ \E t \in NodeResults : NodeEnds(r, t)
    PROVE  \E t \in NodeResults : Result(r, t)
<1>0. st \in [Runners -> States] /\ Root \in Runners /\ "failed" \in NodeResults
  BY Stepping, RunnerAssumption DEF NodeResults
<1>1. CASE NodeRaises(r)
  <2>1. Result(r, "failed")
    BY <1>0, <1>1 DEF NodeRaises, Result, Closes
  <2>. QED
    BY <1>0, <2>1
<1>2. ASSUME NEW t \in NodeResults, NodeEnds(r, t) PROVE Result(r, t)
  <2>1. PICK closed \in Closes(r) :
          /\ Yield(r, NodeEvent(Item(r), t), queue, closed)
          /\ IF closed \/ Ends(r, NodeEvent(Item(r), t))
             THEN st' = [st EXCEPT ![r] = "done"] ELSE GoOn(r)
    BY <1>2 DEF NodeEnds
  <2>2. \E x \in {"leave", "check", "submit", "done", "fail"} : st' = [st EXCEPT ![r] = x]
    BY <2>1, GoOnMoves
  <2>3. r = Root /\ (closed \/ t = "failed") => st' = [st EXCEPT ![r] = "done"]
    BY <2>1 DEF Ends, NodeEvent
  <2>4. closed \in BOOLEAN
    BY DEF Closes
  <2>. QED
    BY <1>2, <2>1, <2>2, <2>3, <2>4 DEF NodeEnds, Result
<1>. QED
  BY <1>1, <1>2

LEMMA NodeSteps ==
    ASSUME Steps
    PROVE  \/ \E r \in Runners : NodeStarts(r) \/ Takes(r)
           \/ \E r \in Runners : \E t \in NodeResults : Result(r, t)
           \/ Aside
<1>0. st \in [Runners -> States] /\ Root \in Runners
  BY Stepping, RunnerAssumption
<1>3. ASSUME NEW r \in Runners,
             \/ CheckLimits(r) \/ CountSubmit(r) \/ RejectSubmit(r) \/ Submit(r)
             \/ Join(r) \/ BranchEnds(r) \/ BranchDone(r)
      PROVE  Aside
  <2>1. node' = node /\ seen' = seen /\ (queue' = queue \/ \E b \in Branches : BranchEnds(b))
    BY <1>3 DEF CheckLimits, CountSubmit, RejectSubmit, Submit, Join, BranchEnds, BranchDone,
       Yield, Branches
  <2>2. ASSUME NEW q \in Runners PROVE st'[q] = "run" <=> st[q] = "run"
    <3>1. CASE CheckLimits(r) \/ CountSubmit(r) \/ RejectSubmit(r) \/ BranchEnds(r)
               \/ BranchDone(r)
      BY <1>0, <3>1 DEF CheckLimits, CountSubmit, RejectSubmit, BranchEnds, BranchDone, RaiseFrom
    <3>2. CASE Join(r)
      BY <1>0, <3>2, GoOnMoves DEF Join
    <3>3. CASE Submit(r)
      BY <1>0, <3>3 DEF Submit
    <3>. QED
      BY <1>3, <3>1, <3>2, <3>3
  <2>. QED
    BY <2>1, <2>2 DEF Aside
<1>4. CASE RunEnds \/ TakeBranch \/ TimePasses \/ UNCHANGED vars
  <2>1. node' = node /\ seen' = seen /\ queue' = queue
    BY <1>4 DEF RunEnds, TakeBranch, TimePasses, vars
  <2>2. TakeBranch => st[Head(pool)] = "queued"
    BY Stepping DEF TakeBranch, PoolHeld
  <2>3. \A q \in Runners : st'[q] = "run" <=> st[q] = "run"
    BY <1>0, <1>4, <2>2 DEF RunEnds, TakeBranch, TimePasses, vars
  <2>. QED
    BY <2>1, <2>3 DEF Aside
<1>5. CASE Abandon
  <2>1. /\ node' = node /\ seen' = seen /\ queue' = queue /\ outcome' = "abandoned"
        /\ st' = [st EXCEPT ![Root] = "done"]
    BY <1>5 DEF Abandon
  <2>2. \A q \in Runners : st'[q] = "run" => st[q] = "run"
    BY <1>0, <2>1
  <2>. QED
    BY <2>1, <2>2 DEF Aside
<1>6. ASSUME NEW r \in Runners, Run(r)
      PROVE  \/ NodeStarts(r) \/ Takes(r)
             \/ \E t \in NodeResults : Result(r, t)
             \/ Aside
  <2>2. CASE NodeRaises(r) \/ \E t \in NodeResults : NodeEnds(r, t)
    BY <2>2, ResultOf
  <2>3. CASE NodeStarts(r) \/ Collect(r) \/ CollectFailure(r) \/ CollectNone(r)
    BY <2>3 DEF Takes
  <2>. QED
    BY <1>3, <1>6, <2>2, <2>3 DEF Run
<1>. QED
  BY <1>4, <1>5, <1>6 DEF Steps, Next

\* What a runner takes from its queue, and where it goes.
LEMMA TakesHow ==
    ASSUME Steps, NEW r \in Runners, Takes(r), NEW p, p = Item(r), NEW e, e = Head(queue[p])
    PROVE  /\ p \in Parallels /\ queue[p] # <<>> /\ st[r] = "collect" /\ node' = node
           /\ TakenBy(r, p) /\ e \in Events /\ e = queue[p][1]
           /\ r \in Branches => ParallelOf[r] \in Parallels \ {p}
           /\ \A k \in Parallels \ {p} :
                 \/ queue'[k] = queue[k] /\ ~(e.of \in Nodes /\ r \in Branches /\ k = ParallelOf[r])
                 \/ PutBy(r, k, e) /\ k = ParallelOf[r] /\ r \in Branches
           /\ r # Root => seen' = seen
           /\ r = Root => seen' = IF e.of \in Nodes THEN [seen EXCEPT ![e.of] = e.type] ELSE seen
           /\ r = Root /\ e.of \in Nodes /\ e.type = "failed" => outcome' \in {"failed", "abandoned"}
           /\ \A q \in Runners : st'[q] = "run" <=> st[q] = "run"
<1>0. /\ st \in [Runners -> States] /\ queue \in [Parallels -> Seq(Events)]
      /\ Positions /\ Root \in Runners
  BY Stepping, RunnerAssumption
<1>1. p \in Parallels /\ queue[p] # <<>> /\ st[r] = "collect" /\ queue[p] \in Seq(Events)
  BY <1>0 DEF Takes, Collect, CollectFailure, CollectNone, Positions
<1>2. e \in Events /\ e = queue[p][1] /\ 1 \in DOMAIN queue[p]
  BY <1>1
<1>3. r \in Branches => ParallelOf[r] \in Parallels \ {p}
  BY <1>0, <1>1, AtParallel
<1>4. node' = node
  BY DEF Takes, Collect, CollectFailure, CollectNone
<1>5. \A q \in Runners : st'[q] = "run" <=> st[q] = "run"
  <2>1. st' = st \/ \E x \in {"done", "fail", "wait"} : st' = [st EXCEPT ![r] = x]
    BY DEF Takes, Collect, CollectFailure, CollectNone, RaiseFrom
  <2>. QED
    BY <1>0, <1>1, <2>1
<1>6. CASE CollectNone(r)
  <2>1. e = NoMore /\ e.of \notin Nodes
    BY <1>6, RunnerAssumption, RouteAssumption DEF CollectNone, NoMore
  <2>2. queue' = [queue EXCEPT ![p] = Tail(@)] /\ seen' = seen
    BY <1>6 DEF CollectNone
  <2>3. queue'[p] = Tail(queue[p]) /\ \A k \in Parallels \ {p} : queue'[k] = queue[k]
    BY <1>0, <1>1, <2>2
  <2>4. TakenBy(r, p)
    BY <1>1, <2>3 DEF TakenBy
  <2>. QED
    BY <1>1, <1>2, <1>3, <1>4, <1>5, <2>1, <2>2, <2>3, <2>4
<1>7. ASSUME NEW x \in {Tail(queue[p]), Append(Tail(queue[p]), NoMore)}, e # NoMore,
             NEW q, q = [queue EXCEPT ![p] = x], r = Root => queue' = q,
             r # Root => /\ ~Through(r)' /\ queue' = [q EXCEPT ![ParallelOf[r]] = Append(@, e)]
      PROVE  /\ TakenBy(r, p)
             /\ \A k \in Parallels \ {p} :
                   \/ queue'[k] = queue[k] /\ ~(r \in Branches /\ k = ParallelOf[r])
                   \/ PutBy(r, k, e) /\ k = ParallelOf[r] /\ r \in Branches
  <2>1. queue'[p] = x
    BY <1>0, <1>1, <1>3, <1>7 DEF Branches
  <2>2. TakenBy(r, p)
    BY <1>1, <1>7, <2>1 DEF TakenBy
  <2>3. ASSUME NEW k \in Parallels \ {p}, r \notin Branches \/ k # ParallelOf[r]
        PROVE  queue'[k] = queue[k]
    BY <1>0, <1>1, <1>3, <1>7, <2>3 DEF Branches
  <2>4. ASSUME r \in Branches, NEW k, k = ParallelOf[r]
        PROVE  PutBy(r, k, e)
    <3>1. queue'[k] = Append(queue[k], e) /\ r # Root
      BY <1>0, <1>1, <1>3, <1>7, <2>4 DEF Branches
    <3>2. r \in BranchesOf(k)
      BY <2>4 DEF BranchesOf
    <3>. QED
      BY <1>1, <1>2, <1>7, <3>1, <3>2 DEF PutBy
  <2>. QED
    BY <2>2, <2>3, <2>4
<1>8. CASE CollectFailure(r)
  <2>1. e.of \notin Nodes /\ e # NoMore
    BY <1>2, <1>8, RouteAssumption DEF CollectFailure, OfParallel, Events, NoMore, Branches,
       NodeResults
  <2>2. r # Root => ~Through(r)'
    BY <1>0, <1>8 DEF CollectFailure, Closes, RaiseFrom, Through
  <2>3. PICK x, q : x = Tail(queue[p]) /\ q = [queue EXCEPT ![p] = x]
    OBVIOUS
  <2>4. /\ r = Root => queue' = q
        /\ r # Root => queue' = [q EXCEPT ![ParallelOf[r]] = Append(@, e)]
        /\ seen' = seen
    BY <1>8, <2>3 DEF CollectFailure
  <2>5. /\ TakenBy(r, p)
        /\ \A k \in Parallels \ {p} :
              \/ queue'[k] = queue[k] /\ ~(r \in Branches /\ k = ParallelOf[r])
              \/ PutBy(r, k, e) /\ k = ParallelOf[r] /\ r \in Branches
    BY <1>7, <2>1, <2>2, <2>3, <2>4
  <2>. QED
    BY <1>1, <1>2, <1>3, <1>4, <1>5, <2>1, <2>4, <2>5
<1>9. CASE Collect(r)
  <2>1. PICK count, closed :
          /\ closed \in Closes(r) /\ Yield(r, e, AfterTurn(p, count), closed)
          /\ st' = IF closed \/ Ends(r, e) THEN [st EXCEPT ![r] = "done"] ELSE st
    BY <1>9 DEF Collect
  <2>2. e # NoMore
    BY <1>9 DEF Collect
  <2>3. r # Root => ~Through(r)'
    BY <1>0, <1>1, <2>1 DEF Closes, Ends, Through
  <2>4. PICK x \in {Tail(queue[p]), Append(Tail(queue[p]), NoMore)} :
          AfterTurn(p, count) = [queue EXCEPT ![p] = x]
    BY DEF AfterTurn
  <2>5. PICK q : q = [queue EXCEPT ![p] = x]
    OBVIOUS
  <2>6. /\ r = Root => queue' = q
        /\ r # Root => queue' = [q EXCEPT ![ParallelOf[r]] = Append(@, e)]
        /\ r # Root => seen' = seen
        /\ r = Root => seen' = IF e.of \in Nodes THEN [seen EXCEPT ![e.of] = e.type] ELSE seen
        /\ r = Root /\ e.type = "failed" => outcome' \in {"failed", "abandoned"}
    BY <2>1, <2>4, <2>5 DEF Yield
  <2>7. /\ TakenBy(r, p)
        /\ \A k \in Parallels \ {p} :
              \/ queue'[k] = queue[k] /\ ~(r \in Branches /\ k = ParallelOf[r])
              \/ PutBy(r, k, e) /\ k = ParallelOf[r] /\ r \in Branches
    BY <1>7, <2>2, <2>3, <2>5, <2>6
  <2>. QED
    BY <1>1, <1>2, <1>3, <1>4, <1>5, <2>6, <2>7
<1>. QED
  BY <1>6, <1>8, <1>9 DEF Takes

-----------------------------------------------------------------------------
(* What is reported.                                                        *)

Reporting == Steps /\ ReportInv

LEMMA Facts ==
    ASSUME Reporting
    PROVE  /\ Steps
           /\ st \in [Runners -> States] /\ pos \in [Runners -> Nat \ {0}]
           /\ queue \in [Parallels -> Seq(Events)] /\ queue' \in [Parallels -> Seq(Events)]
           /\ node \in [Nodes -> {"idle", "started"} \cup NodeResults]
           /\ seen \in [Nodes -> {"idle"} \cup NodeResults]
           /\ \A r \in Runners : /\ pos[r] \in DOMAIN Route[r]
                                 /\ st[r] \in {"begin", "run"} => Item(r) \in Nodes
           /\ Root \in Runners /\ NodeResults \cap {"idle", "started"} = {}
           /\ Branches \subseteq Runners
           /\ \A e \in Events : e.of \in Nodes => e.type \in NodeResults
<1>1. \A e \in Events : e.of \in Nodes => e.type \in NodeResults
  BY RouteAssumption, RunnerAssumption DEF Events, NoMore, Branches
<1>. QED
  BY <1>1, Stepping, RunnerAssumption DEF Reporting, Messages, Positions, NodeResults, Branches

\* One runner is at a node.
LEMMA AtNode ==
    ASSUME Reporting, NEW r \in Runners, NEW s \in Runners, NEW i \in DOMAIN Route[r],
           Route[r][i] = Item(s)
    PROVE  r = s /\ i = pos[s]
BY Facts, PlaceAssumption DEF Item

Early == {"absent", "queued", "check", "begin"}

LEMMA FreshStays ==
    ASSUME Steps, NEW r \in Runners, NEW i \in DOMAIN Route[r], Fresh(r, i)'
    PROVE  Fresh(r, i)
<1>0. /\ st \in [Runners -> States] /\ pos \in [Runners -> Nat \ {0}] /\ Root \in Runners
      /\ pos'[r] \in {pos[r], pos[r] + 1} /\ i \in Nat
  BY Stepping, RunnerAssumption, RouteAssumption DEF Lives
<1>1. CASE i > pos'[r] \/ pos'[r] # pos[r]
  BY <1>0, <1>1 DEF Fresh
<1>2. CASE i = pos'[r] /\ pos'[r] = pos[r] /\ st'[r] \in Early
  <2>1. ASSUME NEW s \in Runners, Run(s) PROVE st[r] \in Early
    <3>1. CASE CheckLimits(s) \/ NodeStarts(s) \/ NodeRaises(s) \/ CountSubmit(s)
               \/ RejectSubmit(s) \/ CollectNone(s) \/ CollectFailure(s) \/ BranchDone(s)
               \/ BranchEnds(s) \/ Collect(s)
      BY <1>0, <1>2, <3>1 DEF CheckLimits, NodeStarts, NodeRaises, CountSubmit, RejectSubmit,
         CollectNone, CollectFailure, BranchDone, Collect, BranchEnds, RaiseFrom, Early
    <3>2. CASE GoOn(s)
      BY <1>0, <1>2, <3>2 DEF GoOn, Early
    <3>3. CASE Join(s) \/ \E t \in NodeResults : NodeEnds(s, t)
      <4>1. CASE st' = [st EXCEPT ![s] = "done"]
        BY <1>0, <1>2, <4>1 DEF Early
      <4>. QED
        BY <3>2, <3>3, <4>1 DEF Join, NodeEnds
    <3>4. CASE Submit(s)
      <4>1. PICK b \in Branches, x \in {"submit", "collect"} :
              st[b] = "absent" /\ st' = [st EXCEPT ![b] = "queued", ![s] = x]
        BY <3>4 DEF Submit
      <4>. QED
        BY <1>0, <1>2, <4>1 DEF Early
    <3>. QED
      BY <2>1, <3>1, <3>3, <3>4 DEF Run
  <2>2. ASSUME TakeBranch PROVE st[r] \in Early
    <3>1. st[Head(pool)] = "queued"
      BY <2>2, Stepping DEF TakeBranch, PoolHeld
    <3>. QED
      BY <1>0, <1>2, <2>2, <3>1 DEF TakeBranch, Early
  <2>3. ASSUME RunEnds \/ Abandon \/ TimePasses \/ UNCHANGED vars PROVE st[r] \in Early
    BY <1>0, <1>2, <2>3 DEF RunEnds, Abandon, TimePasses, vars, Early
  <2>4. st[r] \in Early
    BY <2>1, <2>2, <2>3 DEF Steps, Next
  <2>. QED
    BY <1>2, <2>4 DEF Fresh, Early
<1>. QED
  BY <1>1, <1>2 DEF Fresh, Early

LEMMA RunStays ==
    ASSUME Reporting, NEW r \in Runners, st'[r] = "run"
    PROVE  Item(r)' = Item(r)
<1>1. ASSUME pos'[r] # pos[r] PROVE FALSE
  <2>1. GoOn(r)
    BY <1>1, Arrives, Facts
  <2>. QED
    BY <2>1, Facts DEF GoOn
<1>. QED
  BY <1>1 DEF Item

\* What the consumer knows of the run changes as the root ends, and once.
LEMMA OutcomeStays ==
    ASSUME Reporting
    PROVE  /\ outcome' = outcome \/ (outcome = "running" /\ st'[Root] = "done")
           /\ outcome' # "running" => st'[Root] = "done"
<1>0. /\ st \in [Runners -> States] /\ Root \in Runners /\ Lives(Root)
      /\ outcome # "running" => st[Root] = "done"
  BY Facts, Stepping DEF Reporting, ReportInv, OutcomeEnds
<1>1. outcome' = outcome \/ (st[Root] # "done" /\ st'[Root] = "done")
  <2>1. ASSUME NEW s \in Runners, Run(s)
        PROVE  outcome' = outcome \/ (st[Root] # "done" /\ st'[Root] = "done")
    <3>1. CASE NodeStarts(s) \/ CountSubmit(s) \/ Submit(s) \/ CollectNone(s) \/ Join(s)
               \/ BranchDone(s) \/ BranchEnds(s)
      BY <3>1 DEF NodeStarts, CountSubmit, Submit, CollectNone, Join, BranchDone, BranchEnds, Yield
    <3>2. CASE CheckLimits(s) \/ RejectSubmit(s) \/ CollectFailure(s)
      BY <1>0, <3>2 DEF CheckLimits, RejectSubmit, CollectFailure, RaiseFrom, Closes
    <3>3. CASE NodeRaises(s) \/ \E t \in NodeResults : NodeEnds(s, t)
      <4>0. PICK t \in NodeResults : Result(s, t)
        BY <3>3, ResultOf, Facts
      <4>1. PICK closed \in BOOLEAN :
              /\ Yield(s, NodeEvent(Item(s), t), queue, closed) /\ st[s] = "run"
              /\ s = Root /\ (closed \/ t = "failed") => st' = [st EXCEPT ![s] = "done"]
        BY <4>0 DEF Result
      <4>2. CASE s # Root
        BY <4>1, <4>2 DEF Yield
      <4>3. CASE s = Root /\ (closed \/ t = "failed")
        BY <1>0, <4>1, <4>3
      <4>4. CASE s = Root /\ ~closed /\ t # "failed"
        BY <4>1, <4>4 DEF Yield, NodeEvent
      <4>. QED
        BY <4>2, <4>3, <4>4
    <3>4. CASE Collect(s)
      <4>1. PICK count, closed :
              /\ closed \in Closes(s)
              /\ Yield(s, Head(queue[Item(s)]), AfterTurn(Item(s), count), closed)
              /\ st' = IF closed \/ Ends(s, Head(queue[Item(s)]))
                       THEN [st EXCEPT ![s] = "done"] ELSE st
        BY <3>4 DEF Collect
      <4>2. st[s] = "collect"
        BY <3>4 DEF Collect
      <4>3. CASE s # Root
        BY <4>1, <4>3 DEF Yield
      <4>4. CASE s = Root /\ (closed \/ Ends(s, Head(queue[Item(s)])))
        BY <1>0, <4>1, <4>2, <4>4
      <4>5. CASE s = Root /\ ~closed /\ ~Ends(s, Head(queue[Item(s)]))
        BY <4>1, <4>5 DEF Yield, Ends
      <4>. QED
        BY <4>3, <4>4, <4>5
    <3>. QED
      BY <2>1, <3>1, <3>2, <3>3, <3>4 DEF Run
  <2>2. CASE TakeBranch \/ TimePasses \/ UNCHANGED vars
    BY <2>2 DEF TakeBranch, TimePasses, vars
  <2>3. CASE RunEnds \/ Abandon
    BY <1>0, <2>3 DEF RunEnds, Abandon
  <2>. QED
    BY <2>1, <2>2, <2>3 DEF Reporting, Steps, Next
<1>. QED
  BY <1>0, <1>1 DEF Lives

LEMMA NodesKept ==
    ASSUME Reporting
    PROVE  FreshAreIdle' /\ RunAreStarted' /\ StartedAreRun'
<1>0. FreshAreIdle /\ RunAreStarted /\ StartedAreRun
  BY DEF Reporting, ReportInv
<1>1. outcome = "abandoned" => outcome' = "abandoned"
  BY OutcomeStays
<1>2. ASSUME NEW s \in Runners, NodeStarts(s)
      PROVE  FreshAreIdle' /\ RunAreStarted' /\ StartedAreRun'
  <2>1. st[s] = "begin" /\ st' = [st EXCEPT ![s] = "run"] /\ pos' = pos
        /\ node' = [node EXCEPT ![Item(s)] = "started"] /\ Item(s) \in Nodes
    BY <1>2, Facts DEF NodeStarts
  <2>2. ASSUME NEW r \in Runners, NEW i \in DOMAIN Route[r], Route[r][i] \in Nodes, Fresh(r, i)'
        PROVE  node'[Route[r][i]] = "idle"
    <3>1. node[Route[r][i]] = "idle"
      BY <1>0, <2>2, FreshStays, Facts DEF FreshAreIdle
    <3>2. Route[r][i] # Item(s)
      BY <2>1, <2>2, AtNode, Facts DEF Fresh
    <3>. QED
      BY <2>1, <2>2, <3>1, <3>2, Facts
  <2>3. ASSUME NEW r \in Runners, st'[r] = "run" PROVE node'[Item(r)'] = "started"
    <3>1. Item(r)' = Item(r)
      BY <2>3, RunStays
    <3>2. r = s \/ (st[r] = "run" /\ Item(r) \in Nodes)
      BY <2>1, <2>3, Facts
    <3>. QED
      BY <1>0, <2>1, <3>1, <3>2, Facts DEF RunAreStarted
  <2>4. ASSUME NEW n \in Nodes, node'[n] = "started", outcome' # "abandoned"
        PROVE  \E r \in Runners : st'[r] = "run" /\ Item(r)' = n
    <3>1. CASE n = Item(s)
      BY <2>1, <3>1, Facts DEF Item
    <3>2. CASE n # Item(s)
      <4>1. PICK r \in Runners : st[r] = "run" /\ Item(r) = n
        BY <1>0, <1>1, <2>1, <2>4, <3>2, Facts DEF StartedAreRun
      <4>2. st'[r] = "run" /\ Item(r)' = n
        BY <2>1, <4>1, Facts DEF Item
      <4>. QED
        BY <4>2
    <3>. QED
      BY <3>1, <3>2
  <2>. QED
    BY <2>2, <2>3, <2>4 DEF FreshAreIdle, RunAreStarted, StartedAreRun
<1>3. ASSUME NEW s \in Runners, NEW t \in NodeResults, Result(s, t)
      PROVE  FreshAreIdle' /\ RunAreStarted' /\ StartedAreRun'
  <2>1. /\ st[s] = "run" /\ node' = [node EXCEPT ![Item(s)] = t] /\ Item(s) \in Nodes
        /\ \E x \in {"leave", "check", "submit", "done", "fail"} : st' = [st EXCEPT ![s] = x]
    BY <1>3, Facts DEF Result
  <2>2. ASSUME NEW r \in Runners, NEW i \in DOMAIN Route[r], Route[r][i] \in Nodes, Fresh(r, i)'
        PROVE  node'[Route[r][i]] = "idle"
    <3>1. node[Route[r][i]] = "idle" /\ Fresh(r, i)
      BY <1>0, <2>2, FreshStays, Facts DEF FreshAreIdle
    <3>2. Route[r][i] # Item(s)
      BY <2>1, <3>1, AtNode, Facts DEF Fresh
    <3>. QED
      BY <2>1, <2>2, <3>1, <3>2, Facts
  <2>3. ASSUME NEW r \in Runners, st'[r] = "run" PROVE node'[Item(r)'] = "started"
    <3>1. Item(r)' = Item(r)
      BY <2>3, RunStays
    <3>2. r # s /\ st[r] = "run" /\ Item(r) \in Nodes
      BY <2>1, <2>3, Facts
    <3>3. Item(r) # Item(s)
      BY <3>2, AtNode, Facts DEF Item
    <3>. QED
      BY <1>0, <2>1, <3>1, <3>2, <3>3, Facts DEF RunAreStarted
  <2>4. ASSUME NEW n \in Nodes, node'[n] = "started", outcome' # "abandoned"
        PROVE  \E r \in Runners : st'[r] = "run" /\ Item(r)' = n
    <3>1. n # Item(s) /\ node[n] = "started"
      BY <2>1, <2>4, Facts
    <3>2. PICK r \in Runners : st[r] = "run" /\ Item(r) = n
      BY <1>0, <1>1, <2>4, <3>1 DEF StartedAreRun
    <3>3. st'[r] = "run"
      BY <2>1, <3>1, <3>2, Facts
    <3>. QED
      BY <3>2, <3>3, RunStays
  <2>. QED
    BY <2>2, <2>3, <2>4 DEF FreshAreIdle, RunAreStarted, StartedAreRun
<1>4. ASSUME node' = node, \A q \in Runners : st'[q] = "run" => st[q] = "run",
             \A q \in Runners : st[q] = "run" => st'[q] = "run" \/ outcome' = "abandoned"
      PROVE  FreshAreIdle' /\ RunAreStarted' /\ StartedAreRun'
  <2>1. FreshAreIdle'
    BY <1>0, <1>4, FreshStays, Facts DEF FreshAreIdle
  <2>2. RunAreStarted'
    <3>1. ASSUME NEW r \in Runners, st'[r] = "run" PROVE node'[Item(r)'] = "started"
      BY <1>0, <1>4, <3>1, RunStays DEF RunAreStarted
    <3>. QED
      BY <3>1 DEF RunAreStarted
  <2>3. StartedAreRun'
    <3>1. ASSUME NEW n \in Nodes, node'[n] = "started", outcome' # "abandoned"
          PROVE  \E r \in Runners : st'[r] = "run" /\ Item(r)' = n
      <4>1. PICK r \in Runners : st[r] = "run" /\ Item(r) = n
        BY <1>0, <1>1, <1>4, <3>1 DEF StartedAreRun
      <4>2. st'[r] = "run"
        BY <1>4, <3>1, <4>1
      <4>. QED
        BY <4>1, <4>2, RunStays
    <3>. QED
      BY <3>1 DEF StartedAreRun
  <2>. QED
    BY <2>1, <2>2, <2>3
<1>5. ASSUME NEW s \in Runners, Takes(s)
      PROVE  FreshAreIdle' /\ RunAreStarted' /\ StartedAreRun'
  BY <1>4, <1>5, TakesHow, Facts
<1>6. CASE Aside
  BY <1>4, <1>6 DEF Aside
<1>. QED
  BY <1>2, <1>3, <1>5, <1>6, NodeSteps, Facts

LEMMA Longer ==
    ASSUME NEW S, NEW q \in Seq(S), NEW e
    PROVE  /\ DOMAIN Append(q, e) = DOMAIN q \cup {Len(q) + 1}
           /\ \A i \in DOMAIN q : Append(q, e)[i] = q[i]
           /\ Append(q, e)[Len(q) + 1] = e
OBVIOUS

\* What is in the queues of a node is of its end, and so are what is passed on
\* and what the consumer is told.
LEMMA EventsKept ==
    ASSUME Reporting
    PROVE  QueuedAreTrue' /\ SeenAreTrue' /\ EndsAreTold'
<1>0. FreshAreIdle /\ RunAreStarted /\ QueuedAreTrue /\ SeenAreTrue /\ EndsAreTold
  BY DEF Reporting, ReportInv
<1>q. ASSUME NEW p \in Parallels, NEW i \in DOMAIN queue[p], queue[p][i].of \in Nodes
      PROVE  queue[p][i].type = node[queue[p][i].of] /\ queue[p][i].type \in NodeResults
  <2>1. queue[p][i] \in Events
    BY Facts
  <2>. QED
    BY <1>0, <1>q, <2>1, Facts DEF QueuedAreTrue
<1>2. ASSUME NEW s \in Runners, NodeStarts(s)
      PROVE  QueuedAreTrue' /\ SeenAreTrue' /\ EndsAreTold'
  <2>1. st[s] = "begin" /\ queue' = queue /\ seen' = seen
        /\ node' = [node EXCEPT ![Item(s)] = "started"] /\ Item(s) \in Nodes
    BY <1>2, Facts DEF NodeStarts
  <2>2. node[Item(s)] = "idle"
    <3>1. Fresh(s, pos[s]) /\ Item(s) = Route[s][pos[s]] /\ pos[s] \in DOMAIN Route[s]
      BY <2>1, Facts DEF Fresh, Item
    <3>. QED
      BY <1>0, <2>1, <3>1 DEF FreshAreIdle
  <2>3. QueuedAreTrue'
    <3>1. ASSUME NEW p \in Parallels, NEW i \in DOMAIN queue[p], queue[p][i].of \in Nodes
          PROVE  queue[p][i].type = node'[queue[p][i].of]
      <4>1. queue[p][i].of # Item(s)
        BY <1>q, <2>2, <3>1, Facts
      <4>. QED
        BY <1>q, <2>1, <3>1, <4>1, Facts
    <3>. QED
      BY <2>1, <3>1 DEF QueuedAreTrue
  <2>4. SeenAreTrue'
    <3>1. ASSUME NEW n \in Nodes, seen[n] # "idle" PROVE seen[n] = node'[n]
      <4>1. seen[n] = node[n]
        BY <1>0, <3>1 DEF SeenAreTrue
      <4>2. n # Item(s)
        BY <2>2, <3>1, <4>1
      <4>. QED
        BY <2>1, <4>1, <4>2, Facts
    <3>. QED
      BY <2>1, <3>1 DEF SeenAreTrue
  <2>5. EndsAreTold'
    <3>1. \A n \in Nodes : Ahead(n)' <=> Ahead(n)
      BY <2>1 DEF Ahead
    <3>2. ASSUME NEW n \in Nodes, node'[n] \in NodeResults PROVE seen[n] = node'[n] \/ Ahead(n)
      <4>1. n # Item(s)
        BY <2>1, <3>2, Facts
      <4>2. node'[n] = node[n]
        BY <2>1, <4>1, Facts
      <4>. QED
        BY <1>0, <3>2, <4>2 DEF EndsAreTold
    <3>. QED
      BY <2>1, <3>1, <3>2 DEF EndsAreTold
  <2>. QED
    BY <2>3, <2>4, <2>5
<1>3. ASSUME NEW s \in Runners, NEW t \in NodeResults, Result(s, t)
      PROVE  QueuedAreTrue' /\ SeenAreTrue' /\ EndsAreTold'
  <2> DEFINE e == NodeEvent(Item(s), t)
  <2>1. st[s] = "run" /\ node' = [node EXCEPT ![Item(s)] = t] /\ Item(s) \in Nodes
        /\ e.of = Item(s) /\ e.type = t
    BY <1>3, Facts DEF Result, NodeEvent
  <2>2. node[Item(s)] = "started" /\ seen[Item(s)] = "idle"
    BY <1>0, <2>1, Facts DEF RunAreStarted, SeenAreTrue
  <2>3. /\ s = Root => queue' = queue /\ seen' = [seen EXCEPT ![Item(s)] = t]
        /\ s # Root => /\ queue' = [queue EXCEPT ![ParallelOf[s]] = Append(@, e)]
                       /\ seen' = seen
    BY <1>3, <2>1 DEF Result, Yield
  <2>4. s # Root => s \in Branches /\ ParallelOf[s] \in Parallels
    BY RunnerAssumption DEF Branches
  <2>. HIDE DEF e
  <2>5. \A p \in Parallels :
          /\ DOMAIN queue[p] \subseteq DOMAIN queue'[p]
          /\ \A i \in DOMAIN queue[p] : queue'[p][i] = queue[p][i]
          /\ \A i \in DOMAIN queue'[p] : i \notin DOMAIN queue[p] => queue'[p][i] = e
    <3>1. CASE s = Root
      BY <2>3, <3>1
    <3>2. ASSUME s # Root, NEW p \in Parallels
          PROVE  queue'[p] = queue[p] \/ queue'[p] = Append(queue[p], e)
      BY <2>3, <3>2, Facts
    <3>3. ASSUME s # Root, NEW p \in Parallels
          PROVE  /\ DOMAIN queue[p] \subseteq DOMAIN queue'[p]
                 /\ \A i \in DOMAIN queue[p] : queue'[p][i] = queue[p][i]
                 /\ \A i \in DOMAIN queue'[p] : i \notin DOMAIN queue[p] => queue'[p][i] = e
      <4>1. CASE queue'[p] = queue[p]
        BY <4>1
      <4>2. CASE queue'[p] = Append(queue[p], e)
        <5>1. queue[p] \in Seq(Events)
          BY Facts
        <5>. QED
          BY <4>2, <5>1, Longer
      <4>. QED
        BY <3>2, <3>3, <4>1, <4>2
    <3>. QED
      BY <3>1, <3>3
  <2>6. QueuedAreTrue'
    <3>1. ASSUME NEW p \in Parallels, NEW i \in DOMAIN queue'[p], queue'[p][i].of \in Nodes
          PROVE  queue'[p][i].type = node'[queue'[p][i].of]
      <4>1. CASE i \in DOMAIN queue[p]
        <5>1. queue'[p][i] = queue[p][i]
          BY <2>5, <4>1
        <5>2. queue[p][i].of # Item(s)
          BY <1>q, <2>2, <3>1, <4>1, <5>1, Facts
        <5>. QED
          BY <1>q, <2>1, <3>1, <4>1, <5>1, <5>2, Facts
      <4>2. CASE i \notin DOMAIN queue[p]
        <5>1. queue'[p][i] = e
          BY <2>5, <4>2
        <5>. QED
          BY <2>1, <5>1, Facts
      <4>. QED
        BY <4>1, <4>2
    <3>. QED
      BY <3>1 DEF QueuedAreTrue
  <2>7. ASSUME NEW n \in Nodes, n # Item(s)
        PROVE  seen'[n] = seen[n] /\ node'[n] = node[n]
    BY <2>1, <2>3, <2>7, Facts
  <2>8. SeenAreTrue'
    <3>1. ASSUME NEW n \in Nodes, seen'[n] # "idle" PROVE seen'[n] = node'[n]
      <4>1. CASE n # Item(s)
        BY <1>0, <2>7, <3>1, <4>1 DEF SeenAreTrue
      <4>2. CASE n = Item(s)
        BY <2>1, <2>2, <2>3, <3>1, <4>2, Facts
      <4>. QED
        BY <4>1, <4>2
    <3>. QED
      BY <3>1 DEF SeenAreTrue
  <2>9. EndsAreTold'
    <3>1. \A n \in Nodes : Ahead(n) => Ahead(n)'
      BY <2>5 DEF Ahead
    <3>2. ASSUME NEW n \in Nodes, node'[n] \in NodeResults PROVE seen'[n] = node'[n] \/ Ahead(n)'
      <4>1. CASE n # Item(s)
        BY <1>0, <2>7, <3>1, <3>2, <4>1 DEF EndsAreTold
      <4>2. CASE n = Item(s) /\ s = Root
        BY <2>1, <2>3, <4>2, Facts
      <4>3. CASE n = Item(s) /\ s # Root
        <5>1. queue'[ParallelOf[s]] = Append(queue[ParallelOf[s]], e)
              /\ queue[ParallelOf[s]] \in Seq(Events)
          BY <2>3, <2>4, <4>3, Facts
        <5>2. /\ Len(queue[ParallelOf[s]]) + 1 \in DOMAIN queue'[ParallelOf[s]]
              /\ queue'[ParallelOf[s]][Len(queue[ParallelOf[s]]) + 1] = e
          BY <5>1
        <5>. QED
          BY <2>1, <2>4, <4>3, <5>2 DEF Ahead
      <4>. QED
        BY <4>1, <4>2, <4>3
    <3>. QED
      BY <3>2 DEF EndsAreTold
  <2>. QED
    BY <2>6, <2>8, <2>9
<1>4. ASSUME NEW s \in Runners, Takes(s)
      PROVE  QueuedAreTrue' /\ SeenAreTrue' /\ EndsAreTold'
  <2>0. PICK p, e : p = Item(s) /\ e = Head(queue[p])
    OBVIOUS
  <2>1. /\ p \in Parallels /\ queue[p] # <<>> /\ node' = node
        /\ TakenBy(s, p) /\ e \in Events /\ e = queue[p][1]
        /\ s \in Branches => ParallelOf[s] \in Parallels \ {p}
        /\ \A k \in Parallels \ {p} :
              \/ queue'[k] = queue[k] /\ ~(e.of \in Nodes /\ s \in Branches /\ k = ParallelOf[s])
              \/ PutBy(s, k, e) /\ k = ParallelOf[s] /\ s \in Branches
        /\ s # Root => seen' = seen
        /\ s = Root => seen' = IF e.of \in Nodes THEN [seen EXCEPT ![e.of] = e.type] ELSE seen
    BY <1>4, <2>0, TakesHow, Facts
  <2>2. 1 \in DOMAIN queue[p]
    BY <2>1, Facts
  <2>3. NoMore.of \notin Nodes
    BY RunnerAssumption, RouteAssumption DEF NoMore
  <2>4. ASSUME NEW k \in Parallels, NEW i \in DOMAIN queue'[k], queue'[k][i].of \in Nodes
        PROVE  \E m \in Parallels : \E j \in DOMAIN queue[m] : queue[m][j] = queue'[k][i]
    <3>1. CASE k = p
      BY <2>1, <2>3, <2>4, <3>1, TakenEvents, Facts
    <3>2. CASE k # p /\ queue'[k] = queue[k]
      BY <2>4, <3>2
    <3>3. CASE k # p /\ PutBy(s, k, e)
      <4>1. CASE i \in DOMAIN queue[k]
        BY <2>1, <3>3, <4>1, PutEvents, Facts
      <4>2. CASE i = Len(queue[k]) + 1
        <5>1. queue'[k][i] = queue[p][1]
          BY <2>1, <3>3, <4>2, PutEvents, Facts
        <5>. QED
          BY <2>1, <2>2, <5>1
      <4>. QED
        BY <2>1, <2>4, <3>3, <4>1, <4>2, PutEvents, Facts
    <3>. QED
      BY <2>1, <3>1, <3>2, <3>3
  <2>5. QueuedAreTrue'
    BY <1>0, <2>1, <2>4 DEF QueuedAreTrue
  <2>6. ASSUME NEW n \in Nodes
        PROVE  seen'[n] = seen[n] \/ (seen'[n] = node[n] /\ n = e.of)
    BY <1>q, <2>1, <2>2, Facts
  <2>7. SeenAreTrue'
    BY <1>0, <2>1, <2>6 DEF SeenAreTrue
  <2>8. ASSUME NEW n \in Nodes, node[n] \in NodeResults
        PROVE  seen'[n] = node[n] \/ Ahead(n)'
    <3>1. CASE seen[n] = node[n]
      BY <2>6, <3>1
    <3>2. ASSUME NEW k \in Parallels, NEW i \in DOMAIN queue[k], queue[k][i].of = n
          PROVE  seen'[n] = node[n] \/ Ahead(n)'
      <4>1. CASE k = p /\ i # 1
        <5>1. i - 1 \in DOMAIN queue'[p] /\ queue'[p][i - 1] = queue[p][i]
          BY <2>1, <3>2, <4>1, TakenEvents, Facts
        <5>. QED
          BY <3>2, <4>1, <5>1 DEF Ahead
      <4>2. CASE k = p /\ i = 1 /\ s = Root
        BY <1>q, <2>1, <2>2, <3>2, <4>2, Facts
      <4>3. CASE k = p /\ i = 1 /\ s # Root
        <5>1. s \in Branches /\ ParallelOf[s] \in Parallels /\ e.of = n
          BY <2>1, <3>2, <4>3 DEF Branches
        <5>2. PutBy(s, ParallelOf[s], e)
          BY <2>1, <5>1
        <5>3. /\ Len(queue[ParallelOf[s]]) + 1 \in DOMAIN queue'[ParallelOf[s]]
              /\ queue'[ParallelOf[s]][Len(queue[ParallelOf[s]]) + 1] = e
          BY <2>1, <5>1, <5>2, PutEvents, Facts
        <5>. QED
          BY <5>1, <5>3 DEF Ahead
      <4>4. CASE k # p
        <5>1. i \in DOMAIN queue'[k] /\ queue'[k][i] = queue[k][i]
          BY <2>1, <4>4, PutEvents, Facts
        <5>. QED
          BY <3>2, <5>1 DEF Ahead
      <4>. QED
        BY <4>1, <4>2, <4>3, <4>4
    <3>. QED
      BY <1>0, <2>8, <3>1, <3>2 DEF EndsAreTold, Ahead
  <2>9. EndsAreTold'
    BY <2>1, <2>8 DEF EndsAreTold
  <2>. QED
    BY <2>5, <2>7, <2>9
<1>5. CASE Aside
  <2>1. node' = node /\ seen' = seen
    BY <1>5 DEF Aside
  <2>2. ASSUME NEW p \in Parallels
        PROVE  /\ DOMAIN queue[p] \subseteq DOMAIN queue'[p]
               /\ \A i \in DOMAIN queue[p] : queue'[p][i] = queue[p][i]
               /\ \A i \in DOMAIN queue'[p] : i \notin DOMAIN queue[p] =>
                      queue'[p][i].of \notin Nodes
    <3>1. CASE queue' = queue
      BY <3>1
    <3>2. ASSUME NEW b \in Branches, BranchEnds(b)
          PROVE  \E e : queue'[p] = queue[p] \/ (queue'[p] = Append(queue[p], e) /\ e.of \notin Nodes)
      <4> DEFINE f == BranchEvent(b, IF st[b] = "leave" THEN "branchSucceeded" ELSE "branchFailed")
      <4>1. queue' = [queue EXCEPT ![ParallelOf[b]] = Append(@, f)]
        BY <3>2 DEF BranchEnds, Yield
      <4>2. f.of \notin Nodes
        BY RouteAssumption, Facts DEF BranchEvent
      <4>. HIDE DEF f
      <4>3. queue'[p] = queue[p] \/ queue'[p] = Append(queue[p], f)
        BY <4>1, Facts
      <4>. QED
        BY <4>2, <4>3
    <3>3. ASSUME NEW e, queue'[p] = Append(queue[p], e), e.of \notin Nodes
          PROVE  /\ DOMAIN queue[p] \subseteq DOMAIN queue'[p]
                 /\ \A i \in DOMAIN queue[p] : queue'[p][i] = queue[p][i]
                 /\ \A i \in DOMAIN queue'[p] : i \notin DOMAIN queue[p] =>
                        queue'[p][i].of \notin Nodes
      <4>1. queue[p] \in Seq(Events)
        BY Facts
      <4>. QED
        BY <3>3, <4>1, Longer
    <3>. QED
      BY <1>5, <3>1, <3>2, <3>3 DEF Aside
  <2>3. QueuedAreTrue'
    BY <1>0, <2>1, <2>2 DEF QueuedAreTrue
  <2>4. \A n \in Nodes : Ahead(n) => Ahead(n)'
    BY <2>2 DEF Ahead
  <2>. QED
    BY <1>0, <2>1, <2>3, <2>4 DEF SeenAreTrue, EndsAreTold
<1>. QED
  BY <1>2, <1>3, <1>4, <1>5, NodeSteps, Facts

LEMMA OutcomeKept == ASSUME Reporting PROVE OutcomeEnds'
<1>0. OutcomeEnds
  BY DEF Reporting, ReportInv
<1>1. outcome' # "running" => st'[Root] = "done"
  BY OutcomeStays
<1>2. ASSUME NEW n \in Nodes, seen'[n] = "failed" PROVE outcome' \in {"failed", "abandoned"}
  <2>1. CASE seen[n] = "failed"
    <3>1. outcome \in {"failed", "abandoned"}
      BY <1>0, <2>1 DEF OutcomeEnds
    <3>. QED
      BY <3>1, OutcomeStays
  <2>2. ASSUME seen[n] # "failed", NEW r \in Runners, NEW t \in NodeResults, Result(r, t)
        PROVE  outcome' \in {"failed", "abandoned"}
    <3>1. PICK closed \in BOOLEAN : Yield(r, NodeEvent(Item(r), t), queue, closed)
      BY <2>2 DEF Result
    <3>2. r = Root /\ t = "failed"
      BY <1>2, <2>2, <3>1, Facts DEF Yield, NodeEvent
    <3>. QED
      BY <3>1, <3>2 DEF Yield, NodeEvent
  <2>3. ASSUME seen[n] # "failed", NEW r \in Runners, Takes(r)
        PROVE  outcome' \in {"failed", "abandoned"}
    <3>0. PICK p, e : p = Item(r) /\ e = Head(queue[p])
      OBVIOUS
    <3>1. /\ r # Root => seen' = seen
          /\ r = Root => seen' = IF e.of \in Nodes THEN [seen EXCEPT ![e.of] = e.type] ELSE seen
          /\ r = Root /\ e.of \in Nodes /\ e.type = "failed" => outcome' \in {"failed", "abandoned"}
      BY <2>3, <3>0, TakesHow, Facts
    <3>. QED
      BY <1>2, <2>3, <3>1, Facts
  <2>. QED
    BY <1>2, <2>1, <2>2, <2>3, NodeSteps, Facts DEF Aside, NodeStarts
<1>. QED
  BY <1>1, <1>2 DEF OutcomeEnds

\* Of numbers there is a smallest.
LEMMA Smallest ==
    ASSUME NEW S \in SUBSET Nat, S # {}
    PROVE  \E n \in S : \A m \in S : n <= m
<1> DEFINE R == {ss \in Nat \X Nat : ss[1] < ss[2]}
<1>1. IsWellFoundedOn(R, Nat)
  BY NatLessThanWellFounded DEF OpToRel
<1>. HIDE DEF R
<1>2. PICK n \in S : \A m \in S : <<m, n>> \notin R
  <2>1. \E n \in S : \A m \in S : <<m, n>> \notin R
    BY <1>1, WFMin
  <2>. QED
    BY <2>1
<1>3. ASSUME NEW m \in S PROVE n <= m
  <2>1. <<m, n>> \notin R /\ m \in Nat /\ n \in Nat
    BY <1>2
  <2>2. ~(m < n)
    BY <2>1 DEF R
  <2>. QED
    BY <2>1, <2>2
<1>. QED
  BY <1>2, <1>3

\* Who has submitted a branch is the root or a branch less deep.
LEMMA SubmittedBelow ==
    ASSUME Reporting, NEW b \in Branches, st[b] # "absent"
    PROVE  \E o \in Runners : \E i \in 1..pos[o] :
               /\ Route[o][i] = ParallelOf[b]
               /\ o = Root \/ (/\ o \in Branches /\ st[o] # "absent"
                               /\ Depth[ParallelOf[o]] < Depth[ParallelOf[b]])
<1>1. PICK o \in Runners : \E i \in DOMAIN Route[o] : i <= pos[o] /\ Route[o][i] = ParallelOf[b]
  BY DEF Reporting, Steps, JoinInv, Owned
<1>2. PICK i \in DOMAIN Route[o] : i <= pos[o] /\ Route[o][i] = ParallelOf[b]
  BY <1>1
<1>3. Route[o] \in Seq(Nodes \cup Parallels) /\ ParallelOf[b] \in Parallels
  BY RouteAssumption, RunnerAssumption
<1>4. i \in 1..pos[o] /\ pos[o] \in Nat /\ i \in Nat
  BY <1>2, <1>3, Facts
<1>5. CASE o # Root
  <2>1. o \in Branches
    BY <1>5 DEF Branches
  <2>2. Route[o][1] \notin Parallels
    BY RouteAssumption
  <2>3. i # 1
    BY <1>2, <1>3, <2>2
  <2>4. pos[o] # 1
    BY <1>4, <2>3
  <2>5. st[o] # "absent"
    BY <2>4, Stepping, Facts DEF Positions
  <2>6. Depth[ParallelOf[b]] > Depth[ParallelOf[o]]
    BY <1>2, <1>3, <2>1, Depths
  <2>7. Depth[ParallelOf[o]] < Depth[ParallelOf[b]]
    BY <1>3, <2>1, <2>6, Depths, RunnerAssumption
  <2>. QED
    BY <1>2, <1>4, <2>1, <2>5, <2>7
<1>. QED
  BY <1>2, <1>4, <1>5

\* When the root is whole, so is everything that was ever submitted.
LEMMA AllWhole ==
    ASSUME Reporting, Whole(Root)
    PROVE  /\ \A b \in Branches : st[b] # "absent" => st[b] = "done" /\ Whole(b)
           /\ \A p \in Parallels : queue[p] = <<>>
<1> DEFINE Bad == {b \in Branches : st[b] # "absent" /\ ~(st[b] = "done" /\ Whole(b))}
           Depths0 == {Depth[ParallelOf[b]] : b \in Bad}
<1>1. \A b \in Branches : ParallelOf[b] \in Parallels /\ Depth[ParallelOf[b]] \in Nat
  BY RunnerAssumption, Depths
<1>2. Bad = {}
  <2>1. SUFFICES ASSUME Bad # {} PROVE FALSE
    OBVIOUS
  <2>2. Depths0 \in SUBSET Nat /\ Depths0 # {}
    BY <1>1, <2>1
  <2>3. PICK n \in Depths0 : \A m \in Depths0 : n <= m
    <3>. HIDE DEF Depths0
    <3>. QED
      BY <2>2, Smallest
  <2>4. PICK b \in Bad : n = Depth[ParallelOf[b]]
    BY <2>3
  <2>5. PICK o \in Runners : \E i \in 1..pos[o] :
          /\ Route[o][i] = ParallelOf[b]
          /\ o = Root \/ (/\ o \in Branches /\ st[o] # "absent"
                          /\ Depth[ParallelOf[o]] < Depth[ParallelOf[b]])
    BY <2>4, SubmittedBelow
  <2>6. Whole(o)
    <3>1. CASE o = Root
      BY <3>1
    <3>2. CASE o # Root
      <4>1. o \in Branches /\ st[o] # "absent" /\ Depth[ParallelOf[o]] < Depth[ParallelOf[b]]
        BY <2>5, <3>2
      <4>2. o \notin Bad
        <5>1. SUFFICES ASSUME o \in Bad PROVE FALSE
          OBVIOUS
        <5>2. n <= Depth[ParallelOf[o]]
          BY <2>3, <5>1
        <5>. QED
          BY <1>1, <2>4, <4>1, <5>2
      <4>. QED
        BY <4>1, <4>2
    <3>. QED
      BY <3>1, <3>2
  <2>7. b \in Branches /\ ParallelOf[b] \in Parallels /\ b \in BranchesOf(ParallelOf[b])
    BY <1>1, <2>4 DEF BranchesOf
  <2>8. Closed(ParallelOf[b]) /\ Whole(b)
    BY <2>5, <2>6, <2>7, WholeBelow
  <2>. QED
    BY <2>4, <2>7, <2>8 DEF Closed
<1>3. ASSUME NEW p \in Parallels PROVE queue[p] = <<>>
  <2>1. CASE \A b \in BranchesOf(p) : st[b] = "absent"
    BY <2>1 DEF Reporting, Steps, JoinInv, Silent
  <2>2. CASE \E b \in BranchesOf(p) : st[b] # "absent"
    <3>1. PICK b \in Branches : ParallelOf[b] = p /\ st[b] # "absent"
      BY <2>2 DEF BranchesOf
    <3>2. PICK o \in Runners : \E i \in 1..pos[o] :
            Route[o][i] = p /\ (o = Root \/ (o \in Branches /\ st[o] # "absent"))
      BY <3>1, SubmittedBelow
    <3>3. Whole(o)
      BY <1>2, <3>2
    <3>4. Closed(p)
      BY <3>2, <3>3, WholeBelow
    <3>. QED
      BY <3>4 DEF Closed
  <2>. QED
    BY <2>1, <2>2
<1>. QED
  BY <1>2, <1>3

LEMMA SuccessKept == ASSUME Reporting PROVE SuccessIsComplete'
<1> SUFFICES ASSUME outcome' \in {"succeeded", "partial-succeeded"}
             PROVE  /\ Unfinished' = {} /\ seen' = node'
                    /\ \A n \in Nodes : node'[n] \notin {"started", "failed"}
  BY DEF SuccessIsComplete
<1>1. CASE outcome \in {"succeeded", "partial-succeeded"}
  <2>1. /\ Unfinished = {} /\ seen = node /\ st[Root] = "done"
        /\ \A n \in Nodes : node[n] \notin {"started", "failed"}
    BY <1>1 DEF Reporting, ReportInv, SuccessIsComplete, OutcomeEnds
  <2>2. \A r \in Runners : st[r] \in {"absent", "done"}
    <3>1. ASSUME NEW r \in Branches PROVE st[r] \in {"absent", "done"}
      <4>1. r \notin Unfinished
        BY <2>1
      <4>. QED
        BY <4>1 DEF Unfinished
    <3>. QED
      BY <2>1, <3>1 DEF Branches
  <2>3. ASSUME NEW r \in Runners PROVE ~Run(r)
    BY <2>2 DEF Run, CheckLimits, NodeStarts, NodeRaises, NodeEnds, CountSubmit, RejectSubmit,
       Submit, Collect, CollectFailure, CollectNone, Join, BranchEnds, BranchDone
  <2>4. ~TakeBranch /\ ~RunEnds /\ ~Abandon
    <3>1. TakeBranch => st[Head(pool)] = "queued" /\ Head(pool) \in Runners
      <4>1. /\ pool \in Seq(Branches)
            /\ \A i \in DOMAIN pool : st[pool[i]] = "queued"
        BY Facts, Stepping DEF PoolHeld
      <4>2. ASSUME TakeBranch PROVE 1 \in DOMAIN pool /\ Head(pool) = pool[1] /\ pool[1] \in Branches
        <5>1. pool # <<>>
          BY <4>2 DEF TakeBranch
        <5>. QED
          BY <4>1, <5>1
      <4>. QED
        BY <4>1, <4>2, Facts
    <3>2. ~TakeBranch
      BY <2>2, <3>1
    <3>. QED
      BY <2>1, <3>2 DEF RunEnds, Abandon
  <2>5. st' = st /\ seen' = seen /\ node' = node
    BY <2>3, <2>4 DEF Reporting, Steps, Next, TimePasses, vars
  <2>. QED
    BY <2>1, <2>5 DEF Unfinished
<1>2. CASE outcome \notin {"succeeded", "partial-succeeded"}
  <2>1. RunEnds
    <3>1. ASSUME NEW s \in Runners, Run(s) PROVE FALSE
      <4>1. outcome' \in {outcome, "failed", "abandoned"}
        BY <3>1 DEF Run, CheckLimits, NodeStarts, NodeRaises, NodeEnds, CountSubmit,
           RejectSubmit, Submit, Collect, CollectFailure, CollectNone, Join, BranchEnds,
           BranchDone, RaiseFrom, Yield
      <4>. QED
        BY <1>2, <4>1
    <3>. QED
      BY <1>2, <3>1 DEF Reporting, Steps, Next, TakeBranch, Abandon, TimePasses, vars
  <2>2. st[Root] = "leave" /\ st' = [st EXCEPT ![Root] = "done"] /\ seen' = seen /\ node' = node
    BY <2>1 DEF RunEnds
  <2>3. Whole(Root)
    BY <2>2, Facts DEF Steps, JoinInv, Sorted
  <2>4. /\ \A b \in Branches : st[b] \in {"absent", "done"}
        /\ \A p \in Parallels : queue[p] = <<>>
    BY <2>3, AllWhole
  <2>5. outcome = "running"
    BY <2>2 DEF Reporting, ReportInv, OutcomeEnds
  <2>6. Unfinished' = {}
    BY <2>2, <2>4, Facts DEF Unfinished, Branches
  <2>7. ASSUME NEW n \in Nodes
        PROVE  seen[n] = node[n] /\ node[n] \notin {"started", "failed"}
    <3>1. node[n] # "started"
      <4>1. ASSUME NEW r \in Runners, st[r] = "run" PROVE FALSE
        BY <2>2, <2>4, <4>1 DEF Branches
      <4>. QED
        BY <2>5, <4>1 DEF Reporting, ReportInv, StartedAreRun
    <3>2. ~Ahead(n)
      BY <2>4 DEF Ahead
    <3>3. seen[n] = node[n]
      BY <3>1, <3>2, Facts DEF Reporting, ReportInv, EndsAreTold, SeenAreTrue
    <3>4. seen[n] # "failed"
      BY <2>5 DEF Reporting, ReportInv, OutcomeEnds
    <3>. QED
      BY <3>1, <3>3, <3>4
  <2>8. seen = node
    BY <2>7, Facts
  <2>. QED
    BY <2>2, <2>6, <2>7, <2>8
<1>. QED
  BY <1>1, <1>2

LEMMA InitReport == Init => ReportInv
<1> SUFFICES ASSUME Init PROVE ReportInv
  OBVIOUS
<1>1. /\ node = [n \in Nodes |-> "idle"] /\ seen = node /\ outcome = "running"
      /\ \A p \in Parallels : queue[p] = <<>>
      /\ \A r \in Runners : st[r] # "run"
  BY DEF Init
<1>2. FreshAreIdle /\ RunAreStarted /\ StartedAreRun
  BY <1>1 DEF FreshAreIdle, RunAreStarted, StartedAreRun
<1>3. QueuedAreTrue /\ SeenAreTrue /\ EndsAreTold
  BY <1>1 DEF QueuedAreTrue, SeenAreTrue, EndsAreTold
<1>4. OutcomeEnds /\ SuccessIsComplete
  BY <1>1 DEF OutcomeEnds, SuccessIsComplete
<1>. QED
  BY <1>2, <1>3, <1>4 DEF ReportInv

LEMMA ReportInvariant == Spec => []ReportInv
<1>1. EngineInv /\ JoinInv /\ ReportInv /\ [Next]_vars => ReportInv'
  <2> SUFFICES ASSUME Reporting PROVE ReportInv'
    BY DEF Reporting, Steps
  <2>. QED
    BY NodesKept, EventsKept, OutcomeKept, SuccessKept DEF ReportInv
<1>. QED
  BY <1>1, InitReport, EngineInvariant, JoinInvariant, PTL DEF Spec

\* A run that is reported as succeeded, fully or in part, is over: no branch is
\* queued or running, every node that was started has told its end through all
\* the queues above it, and none has failed.
THEOREM SuccessComesLast == Spec => []SuccessIsComplete
<1>1. ReportInv => SuccessIsComplete
  BY DEF ReportInv
<1>. QED
  BY <1>1, ReportInvariant, PTL
=============================================================================
