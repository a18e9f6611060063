--------------------------- MODULE BatchRunProofs ---------------------------
(***************************************************************************)
(* What is proved of BatchRun, for every size of a group, every number of   *)
(* runs and of tasks in each, and every number of retries: a panel responds *)
(* exactly while its own request is out, a finished task is given the       *)
(* answer to a request of its own batch or one that was timed out, and no   *)
(* more tasks run at once than a group has.                                 *)
(*                                                                         *)
(* The first two rest on where the requests of a batch come from (OwnSends),*)
(* which only a batch cleared with requests out breaks, and the second on   *)
(* what the panels show meanwhile (OwnShown); the third on how far a batch  *)
(* may be at the count its last group was started at (Counted), which only  *)
(* a report of a task that is not running breaks.                           *)
(***************************************************************************)
EXTENDS BatchRun, FiniteSetTheorems, TLAPS

Running(list) == WithStatus(list, {"running"})

(* There are tasks, and requests, only after a run, which none is ahead of, *)
(* and a request is here only if its panel is on the page.                  *)
RunsFirst ==
  /\ tasks # << >> => run > 0
  /\ \A s \in sends : s.run <= run /\ (s.here => s.key \in DOMAIN responding)

(* The request that is out for a panel. *)
Out(k) == {s \in sends : s.here /\ s.key = k}

(* A panel that responds has one request out, any other has none. *)
OneEach ==
  \A k \in DOMAIN responding :
    IF responding[k] THEN \E s \in sends : Out(k) = {s} ELSE Out(k) = {}

(* A request of a task is one of this batch, for a task that is running or  *)
(* has failed.  The request of a single run is that of the panel on the     *)
(* page, unless a batch has taken its place since.                          *)
OwnSends ==
  \A s \in sends :
    IF s.key = 0 THEN s.here <=> ~batch
    ELSE /\ batch /\ s.here /\ s.run = run
         /\ s.key \in WithStatus(tasks, {"running", "failed"})

(* What the panel of a task shows is what its result may be. *)
OwnShown == batch => \A k \in DOMAIN responding : shown[k] \in OwnAnswers(k)

Uncleared == "cleared" \notin lapses => OneEach /\ OwnSends /\ OwnShown /\ ResultsAreOwn

(* Either fewer tasks than a group are unfinished, or the last group was    *)
(* started at a whole number of groups and at most one more are under way.  *)
CountedAt(list, at) ==
  LET ended == Cardinality(Finished(list))
      busy == Cardinality(Running(list)) IN
  /\ busy <= GroupSize
  /\ \/ Len(list) < ended + GroupSize
     \/ /\ at % GroupSize = 0 /\ at <= ended
        /\ ended + busy <= at + GroupSize

Counted == CountedAt(tasks, group)

Unrecounted == "recounted" \notin lapses => Counted

(* The inductive invariant. *)
IInv == TypeOK /\ RunsFirst /\ Uncleared /\ Unrecounted

-----------------------------------------------------------------------------
(* Lists of tasks and their numbers.                                        *)

Lists == Seq(Statuses)
Pages == [tasks : Lists, group : Nat, again : BOOLEAN]

LEMMA ListDomain ==
  ASSUME NEW list \in Lists
  PROVE  Len(list) \in Nat /\ DOMAIN list = 1..Len(list)
BY DEF Lists

LEMMA StatusFinite ==
  ASSUME NEW list \in Lists, NEW S
  PROVE  /\ WithStatus(list, S) \subseteq 1..Len(list)
         /\ IsFiniteSet(WithStatus(list, S)) /\ Cardinality(WithStatus(list, S)) \in Nat
<1>1. WithStatus(list, S) \subseteq 1..Len(list)
  BY ListDomain DEF WithStatus
<1>2. IsFiniteSet(1..Len(list))
  BY ListDomain, FS_Interval
<1>3. IsFiniteSet(WithStatus(list, S))
  BY <1>1, <1>2, FS_Subset
<1> QED BY <1>1, <1>3, FS_CardinalityType

(* What a report may make of a page: the task itself has ended, others that *)
(* were waiting may run.                                                    *)
Through(q, p, id) ==
  /\ p \in Pages /\ DOMAIN p.tasks = DOMAIN q.tasks
  /\ \A t \in DOMAIN q.tasks :
        IF t = id THEN p.tasks[t] \in {"completed", "failed"}
        ELSE \/ p.tasks[t] = q.tasks[t]
             \/ q.tasks[t] = "pending" /\ p.tasks[t] = "running"
  /\ ~p.again => ~q.again /\ id \in Running(q.tasks)

LEMMA StartsPending ==
  ASSUME NEW list, NEW at, NEW count
  PROVE  NextGroup(list, at, count) \subseteq Pending(list)
BY DEF NextGroup, Smallest

LEMMA ReportGoesThrough ==
  ASSUME NEW q \in Pages, NEW id, NEW ok \in BOOLEAN
  PROVE  Through(q, Reported(q, id, ok), id)
<1> DEFINE p == Reported(q, id, ok)
           count == 1 + Cardinality(Finished(q.tasks))
           start == NextGroup(q.tasks, q.group, count)
<1>1. q.tasks \in Lists /\ q.group \in Nat /\ q.again \in BOOLEAN
  BY DEF Pages
<1>2. count \in Nat
  BY <1>1, StatusFinite DEF Finished
<1>3. start \subseteq Pending(q.tasks)
  BY StartsPending
<1> HIDE DEF start, count
<1>4. /\ p.tasks = [t \in DOMAIN q.tasks |->
                     IF t = id THEN IF ok THEN "completed" ELSE "failed"
                     ELSE IF t \in start THEN "running" ELSE q.tasks[t]]
      /\ p.group = IF start = {} THEN q.group ELSE count
      /\ p.again = (q.again \/ id \notin Running(q.tasks))
      /\ p = [tasks |-> p.tasks, group |-> p.group, again |-> p.again]
  BY DEF Reported, start, count, Running
<1>5. p.tasks \in Lists
  BY <1>1, <1>4 DEF Lists, Statuses
<1>6. p.group \in Nat /\ p.again \in BOOLEAN
  BY <1>1, <1>2, <1>4
<1>7. p \in Pages
  BY <1>4, <1>5, <1>6 DEF Pages
<1>8. \A t \in DOMAIN q.tasks :
        IF t = id THEN p.tasks[t] \in {"completed", "failed"}
        ELSE \/ p.tasks[t] = q.tasks[t]
             \/ q.tasks[t] = "pending" /\ p.tasks[t] = "running"
  BY <1>3, <1>4 DEF Pending, WithStatus
<1>9. DOMAIN p.tasks = DOMAIN q.tasks
  BY <1>4
<1> QED BY <1>4, <1>7, <1>8, <1>9 DEF Through

LEMMA ThroughTwice ==
  ASSUME NEW q \in Pages, NEW f, NEW p, NEW id, Through(q, f, id), Through(f, p, id)
  PROVE  Through(q, p, id) /\ p.again
<1>1. id \notin Running(f.tasks)
  BY DEF Through, Running, WithStatus
<1>2. p.again
  BY <1>1 DEF Through, Pages
<1>3. DOMAIN p.tasks = DOMAIN q.tasks /\ DOMAIN f.tasks = DOMAIN q.tasks
  BY DEF Through
<1>4. ASSUME NEW t \in DOMAIN q.tasks
      PROVE  IF t = id THEN p.tasks[t] \in {"completed", "failed"}
             ELSE \/ p.tasks[t] = q.tasks[t]
                  \/ q.tasks[t] = "pending" /\ p.tasks[t] = "running"
  BY <1>3 DEF Through
<1> QED BY <1>2, <1>3, <1>4 DEF Through

-----------------------------------------------------------------------------
(* At most k of a set are among its k smallest: how many are smaller tells  *)
(* them apart.                                                              *)
LEMMA SmallestAreFew ==
  ASSUME NEW k \in Nat, NEW S \in SUBSET Nat, IsFiniteSet(S)
  PROVE  IsFiniteSet(Smallest(k, S)) /\ Cardinality(Smallest(k, S)) <= k
<1> DEFINE Below(t) == {u \in S : u < t}
           few == Smallest(k, S)
           rank == [t \in few |-> 1 + Cardinality(Below(t))]
<1>1. few \subseteq S /\ IsFiniteSet(few)
  <2>1. few \subseteq S
    BY DEF Smallest
  <2> QED BY <2>1, FS_Subset
<1>2. ASSUME NEW t \in S
      PROVE  IsFiniteSet(Below(t)) /\ Cardinality(Below(t)) \in Nat
  <2>1. IsFiniteSet(Below(t))
    BY FS_Subset
  <2> QED BY <2>1, FS_CardinalityType
<1>3. ASSUME NEW t \in few PROVE rank[t] \in 1..k
  <2>1. Cardinality(Below(t)) < k
    BY DEF Smallest
  <2>2. Cardinality(Below(t)) \in Nat /\ rank[t] = 1 + Cardinality(Below(t))
    BY <1>1, <1>2
  <2> HIDE DEF Below, rank
  <2> QED BY <2>1, <2>2
<1>4. ASSUME NEW t \in few, NEW u \in few, t < u PROVE rank[t] < rank[u]
  <2>1. t \in Nat /\ u \in Nat /\ t \in S /\ u \in S
    BY <1>1
  <2>2. Below(t) \cup {t} \subseteq Below(u) /\ t \notin Below(t)
    <3>1. ASSUME NEW x \in Below(t) PROVE x \in Below(u)
      <4>1. x \in S /\ x < t /\ x \in Nat
        OBVIOUS
      <4>2. x < u
        BY <1>4, <2>1, <4>1
      <4> QED BY <4>1, <4>2
    <3>2. t \in Below(u) /\ ~(t < t)
      BY <1>4, <2>1
    <3> QED BY <3>1, <3>2
  <2>3. rank[t] = 1 + Cardinality(Below(t)) /\ rank[u] = 1 + Cardinality(Below(u))
    OBVIOUS
  <2>4. IsFiniteSet(Below(t)) /\ IsFiniteSet(Below(u))
    BY <1>2, <2>1
  <2>5. Cardinality(Below(t)) \in Nat /\ Cardinality(Below(u)) \in Nat
    BY <1>2, <2>1
  <2> HIDE DEF Below, rank
  <2>6. Cardinality(Below(t) \cup {t}) = Cardinality(Below(t)) + 1
    BY <2>2, <2>4, FS_AddElement
  <2>7. Cardinality(Below(t) \cup {t}) <= Cardinality(Below(u))
    BY <2>2, <2>4, FS_Subset
  <2> QED BY <2>3, <2>5, <2>6, <2>7
<1>5. rank \in Injection(few, 1..k)
  <2>1. rank \in [few -> 1..k]
    BY <1>3
  <2>2. \A t, u \in few : rank[t] = rank[u] => t = u
    <3> SUFFICES ASSUME NEW t \in few, NEW u \in few, rank[t] = rank[u] PROVE t = u
      OBVIOUS
    <3> HIDE DEF rank
    <3>1. t \in Nat /\ u \in Nat
      BY <1>1
    <3>2. rank[t] \in 1..k /\ rank[u] \in 1..k
      BY <1>3
    <3>3. ~(t < u) /\ ~(u < t)
      BY <1>4, <3>2
    <3> QED BY <3>1, <3>3
  <2> HIDE DEF rank, few
  <2> QED BY <2>1, <2>2 DEF Injection, IsInjective
<1>6. IsFiniteSet(1..k) /\ Cardinality(1..k) = k
  BY FS_Interval
<1> HIDE DEF few, rank
<1>7. Cardinality(few) <= Cardinality(1..k)
  BY <1>5, <1>6, FS_Injection
<1> QED BY <1>1, <1>6, <1>7 DEF few

(* Without tasks there is nothing to count. *)
LEMMA NoneCounted ==
  ASSUME NEW list, NEW at, Len(list) = 0, Finished(list) = {}, Running(list) = {}
  PROVE  CountedAt(list, at)
<1>1. Cardinality(Finished(list)) = 0 /\ Cardinality(Running(list)) = 0
  BY FS_EmptySet
<1> QED BY <1>1, GroupAssumption DEF CountedAt

(* Two counts of whole groups that are at most a group apart. *)
LEMMA NextMultiple ==
  ASSUME NEW G \in Nat \ {0}, NEW a \in Nat, NEW b \in Nat, a % G = 0, b % G = 0,
         a < b, b <= a + G
  PROVE  b = a + G
<1> DEFINE k == a \div G
           m == b \div G
<1>1. k \in Nat /\ m \in Nat /\ a = G * k /\ b = G * m
  OBVIOUS
<1> HIDE DEF k, m
<1>2. m > k
  <2> SUFFICES ASSUME m <= k PROVE FALSE
    BY <1>1
  <2>1. k = m + (k - m) /\ k - m \in Nat
    BY <1>1
  <2>2. G * k = G * m + G * (k - m)
    BY <1>1
  <2>3. G * (k - m) >= 0
    BY <2>1
  <2> QED BY <1>1, <2>2, <2>3
<1>3. m <= k + 1
  <2> SUFFICES ASSUME m > k + 1 PROVE FALSE
    BY <1>1
  <2>1. m = k + 1 + (m - k - 1) /\ m - k - 1 \in Nat /\ m - k - 1 > 0
    BY <1>1
  <2>2. G * m = G * k + G + G * (m - k - 1)
    BY <1>1
  <2>3. G * (m - k - 1) > 0
    BY <2>1
  <2> QED BY <1>1, <2>2, <2>3
<1>4. m = k + 1
  BY <1>1, <1>2, <1>3
<1> QED BY <1>1, <1>4

LEMMA EndedAndBusy ==
  ASSUME NEW list \in Lists
  PROVE  /\ Cardinality(Finished(list)) \in Nat /\ Cardinality(Running(list)) \in Nat
         /\ Cardinality(Finished(list)) + Cardinality(Running(list)) <= Len(list)
<1> DEFINE F == Finished(list)
           R == Running(list)
<1>1. /\ IsFiniteSet(F) /\ Cardinality(F) \in Nat /\ F \subseteq 1..Len(list)
      /\ IsFiniteSet(R) /\ Cardinality(R) \in Nat /\ R \subseteq 1..Len(list)
  BY StatusFinite DEF Finished, Running
<1>2. F \cap R = {}
  BY DEF Finished, Running, WithStatus
<1>3. Len(list) \in Nat
  BY ListDomain
<1>4. IsFiniteSet(1..Len(list)) /\ Cardinality(1..Len(list)) = Len(list)
  <2> DEFINE n == Len(list)
  <2>1. n \in Int /\ n >= 0
    BY <1>3
  <2> HIDE DEF n
  <2>2. /\ IsFiniteSet(1..n)
        /\ Cardinality(1..n) = IF 1 > n THEN 0 ELSE n - 1 + 1
    BY <2>1, FS_Interval
  <2>3. Cardinality(1..n) = n
    BY <2>1, <2>2
  <2> QED BY <2>2, <2>3 DEF n
<1>5. F \cup R \subseteq 1..Len(list)
  BY <1>1
<1> HIDE DEF F, R
<1>6. Cardinality(F \cup R) = Cardinality(F) + Cardinality(R) - Cardinality(F \cap R)
  BY <1>1, FS_Union
<1>7. Cardinality(F \cap R) = 0
  BY <1>2, FS_EmptySet
<1>8. Cardinality(F \cup R) <= Len(list)
  BY <1>4, <1>5, FS_Subset
<1> QED BY <1>1, <1>6, <1>7, <1>8 DEF F, R

(* A report of a running task keeps the count, and starts the next group    *)
(* when nothing of the last one runs any more, or when so few are left that *)
(* all of them fit.                                                         *)
LEMMA ReportCounts ==
  ASSUME NEW q \in Pages, NEW id \in Running(q.tasks), NEW ok \in BOOLEAN,
         CountedAt(q.tasks, q.group)
  PROVE  CountedAt(Reported(q, id, ok).tasks, Reported(q, id, ok).group)
<1> DEFINE p == Reported(q, id, ok)
           count == 1 + Cardinality(Finished(q.tasks))
           start == NextGroup(q.tasks, q.group, count)
           F == Cardinality(Finished(q.tasks))
           R == Cardinality(Running(q.tasks))
           n == Cardinality(start)
<1>1. q.tasks \in Lists /\ q.group \in Nat /\ GroupSize \in Nat \ {0}
  BY GroupAssumption DEF Pages
<1>2. F \in Nat /\ R \in Nat /\ Len(q.tasks) \in Nat
  BY <1>1, EndedAndBusy, ListDomain
<1>3. start \subseteq Pending(q.tasks) /\ IsFiniteSet(start) /\ n \in Nat /\ n <= GroupSize
  <2>1. Pending(q.tasks) \in SUBSET Nat /\ IsFiniteSet(Pending(q.tasks))
    BY <1>1, StatusFinite, ListDomain DEF Pending
  <2>2. IsFiniteSet(start) /\ n <= GroupSize
    BY <1>1, <2>1, SmallestAreFew, FS_EmptySet DEF NextGroup
  <2>3. n \in Nat
    BY <2>2, FS_CardinalityType
  <2> QED BY <2>2, <2>3, StartsPending
<1>4. \/ start = {} /\ n = 0
      \/ count # q.group /\ (count % GroupSize = 0 \/ Len(q.tasks) < count + GroupSize)
  BY FS_EmptySet DEF NextGroup
<1>5. /\ p.tasks = [t \in DOMAIN q.tasks |->
                     IF t = id THEN IF ok THEN "completed" ELSE "failed"
                     ELSE IF t \in start THEN "running" ELSE q.tasks[t]]
      /\ p.group = IF start = {} THEN q.group ELSE count
  BY DEF Reported
<1> HIDE DEF start, count
<1>6. p.tasks \in Lists /\ Len(p.tasks) = Len(q.tasks)
  <2>1. Through(q, p, id)
    BY ReportGoesThrough
  <2>2. p.tasks \in Lists /\ DOMAIN p.tasks = DOMAIN q.tasks
    BY <2>1 DEF Through, Pages
  <2> HIDE DEF p
  <2> QED BY <1>1, <2>2, ListDomain DEF Lists
<1> HIDE DEF p
<1>7. Finished(p.tasks) = Finished(q.tasks) \cup {id} /\ id \notin Finished(q.tasks)
  BY <1>3, <1>5 DEF Finished, Running, Pending, WithStatus
<1>8. Running(p.tasks) = (Running(q.tasks) \ {id}) \cup start
      /\ (Running(q.tasks) \ {id}) \cap start = {}
  BY <1>3, <1>5 DEF Finished, Running, Pending, WithStatus
<1>9. Cardinality(Finished(p.tasks)) = F + 1
  BY <1>1, <1>7, StatusFinite, FS_AddElement DEF Finished
<1>10. Cardinality(Running(p.tasks)) = R - 1 + n
  <2> DEFINE rest == Running(q.tasks) \ {id}
  <2>1. IsFiniteSet(Running(q.tasks))
    BY <1>1, StatusFinite DEF Running
  <2>2. IsFiniteSet(rest) /\ Cardinality(rest) = R - 1
    BY <2>1, FS_RemoveElement
  <2>3. rest \cap start = {}
    BY <1>8
  <2> HIDE DEF rest
  <2>4. Cardinality(rest \cup start) = Cardinality(rest) + n - Cardinality(rest \cap start)
    BY <1>3, <2>2, FS_Union
  <2>5. Cardinality(rest \cap start) = 0
    BY <2>3, FS_EmptySet
  <2> QED BY <1>2, <1>3, <1>8, <2>2, <2>4, <2>5 DEF rest
<1>11. F + 1 + (R - 1 + n) <= Len(q.tasks)
  BY <1>6, <1>9, <1>10, EndedAndBusy
<1>12. R - 1 \in Nat
  <2>1. R # 0
    BY <1>1, StatusFinite, FS_EmptySet DEF Running
  <2> QED BY <1>2, <2>1
<1>13. /\ R <= GroupSize
       /\ \/ Len(q.tasks) < F + GroupSize
          \/ q.group % GroupSize = 0 /\ q.group <= F /\ F + R <= q.group + GroupSize
  BY DEF CountedAt
<1> SUFFICES /\ R - 1 + n <= GroupSize
             /\ \/ Len(q.tasks) < F + 1 + GroupSize
                \/ /\ p.group % GroupSize = 0 /\ p.group <= F + 1
                   /\ F + 1 + (R - 1 + n) <= p.group + GroupSize
  BY <1>6, <1>9, <1>10 DEF CountedAt, p
<1>14. count = F + 1
  BY <1>2 DEF count
<1> HIDE DEF F, R, n
<1>15. CASE Len(q.tasks) < F + 1 + GroupSize
  BY <1>1, <1>2, <1>3, <1>11, <1>12, <1>15
<1>16. CASE ~(Len(q.tasks) < F + 1 + GroupSize)
  <2>1. q.group % GroupSize = 0 /\ q.group <= F /\ F + R <= q.group + GroupSize
    BY <1>1, <1>2, <1>13, <1>16
  <2>2. CASE start = {}
    <3>1. n = 0
      BY <2>2, FS_EmptySet DEF n
    <3>2. p.group = q.group
      BY <1>5, <2>2
    <3> QED BY <1>1, <1>2, <1>12, <1>13, <2>1, <3>1, <3>2
  <2>3. CASE start # {}
    <3>1. count % GroupSize = 0
      BY <1>4, <1>14, <1>16, <2>3
    <3>2. q.group < count /\ count <= q.group + GroupSize
      BY <1>1, <1>2, <1>12, <1>14, <2>1
    <3>3. count = q.group + GroupSize
      <4>1. count \in Nat /\ q.group \in Nat /\ GroupSize \in Nat \ {0}
        BY <1>1, <1>2, <1>14
      <4>2. q.group % GroupSize = 0
        BY <2>1
      <4> QED BY ONLY <4>1, <4>2, <3>1, <3>2, NextMultiple
    <3>4. R = 1
      BY <1>1, <1>2, <1>12, <1>14, <2>1, <3>3
    <3>5. p.group = count
      BY <1>5, <2>3
    <3> QED BY <1>1, <1>2, <1>3, <1>14, <3>1, <3>4, <3>5
  <2> QED BY <2>2, <2>3
<1> QED BY <1>15, <1>16

-----------------------------------------------------------------------------
(* Types.                                                                   *)

LEMMA IdsAreNumbers ==
  /\ MaxRuns \in Nat /\ TaskIds \subseteq Nat \ {0} /\ 0 \notin TaskIds
  /\ \A r \in 1..MaxRuns : \A n \in Sizes[r] : n \in Nat \ {0} /\ 1..n \subseteq TaskIds
<1>1. DOMAIN Sizes = 1..MaxRuns /\ MaxRuns \in Nat
  BY BoundsAssumption DEF MaxRuns
<1>2. ASSUME NEW r \in DOMAIN Sizes, NEW n \in Sizes[r] PROVE n \in Nat \ {0}
  BY BoundsAssumption
<1>3. ASSUME NEW r \in DOMAIN Sizes, NEW n \in Sizes[r] PROVE 1..n \subseteq TaskIds
  BY DEF TaskIds
<1>4. ASSUME NEW t \in TaskIds PROVE t \in Nat \ {0}
  <2>1. PICK n \in UNION {Sizes[r] : r \in DOMAIN Sizes} : t \in 1..n
    BY DEF TaskIds
  <2>2. n \in Nat
    BY <1>2
  <2> QED BY <2>1, <2>2
<1> QED BY <1>1, <1>2, <1>3, <1>4

LEMMA PageIsOne ==
  ASSUME TypeOK PROVE Page \in Pages /\ Page.tasks = tasks /\ Page.group = group /\ ~Page.again
BY DEF TypeOK, Page, Pages, Lists

Twin(k, r) == [Request(k, r) EXCEPT !.twin = TRUE]

LEMMA RequestIsOne ==
  ASSUME NEW k \in Keys, NEW r \in 1..MaxRuns
  PROVE  /\ Request(k, r) \in Send /\ Request(k, r).key = k /\ Request(k, r).run = r
         /\ Request(k, r).here
         /\ Twin(k, r) \in Send /\ Twin(k, r).key = k /\ Twin(k, r).run = r
<1>1. /\ Request(k, r) \in Send /\ Request(k, r).key = k /\ Request(k, r).run = r
      /\ Request(k, r).here
  BY DEF Request, Send
<1>2. Twin(k, r) \in Send
  BY <1>1 DEF Twin, Send
<1>3. Twin(k, r).key = k /\ Twin(k, r).run = r
  BY <1>1 DEF Twin, Send
<1> QED BY <1>1, <1>2, <1>3

(* A panel that leaves takes nothing of a request but that it is here. *)
LEMMA LeftBehind ==
  ASSUME NEW S \in SUBSET Send, NEW panels
  PROVE  /\ Left(S, panels) \subseteq Send
         /\ \A s \in Left(S, panels) : \E u \in S :
               s.key = u.key /\ s.run = u.run /\ (s.here => u.key \in panels)
<1> SUFFICES ASSUME NEW s \in Left(S, panels)
             PROVE  /\ s \in Send
                    /\ \E u \in S : /\ s.key = u.key /\ s.run = u.run
                                    /\ s.here => u.key \in panels
  OBVIOUS
<1>1. PICK u \in S : s = IF u.key \in panels THEN u ELSE [u EXCEPT !.here = FALSE]
  BY DEF Left
<1>2. u \in Send
  OBVIOUS
<1>3. CASE u.key \in panels
  <2>1. s = u /\ u.here \in BOOLEAN
    BY <1>1, <1>2, <1>3 DEF Send
  <2> QED BY <1>2, <1>3, <2>1
<1>4. CASE u.key \notin panels
  <2>1. s = [u EXCEPT !.here = FALSE]
    BY <1>1, <1>4
  <2>2. s \in Send /\ s.key = u.key /\ s.run = u.run /\ s.here = FALSE
    BY <1>2, <2>1 DEF Send
  <2> QED BY <1>4, <2>2
<1> QED BY <1>3, <1>4

LEMMA PanelsAreKeys ==
  ASSUME NEW list, DOMAIN list \subseteq TaskIds, NEW b \in BOOLEAN
  PROVE  Panels(list, b) \subseteq Keys
BY DEF Panels, Keys, Pending, WithStatus

(* What a report makes of the panels: none goes, and those that come belong *)
(* to tasks that were waiting and now run, unless it is the panel of the    *)
(* task itself.                                                             *)
LEMMA PanelsGrow ==
  ASSUME TypeOK, NEW id, NEW p, Through(Page, p, id)
  PROVE  /\ p.tasks \in Lists /\ p.group \in Nat /\ p.again \in BOOLEAN
         /\ DOMAIN p.tasks = DOMAIN tasks /\ DOMAIN p.tasks \subseteq TaskIds
         /\ p.tasks = << >> <=> tasks = << >>
         /\ DOMAIN responding \subseteq Panels(p.tasks, batch)
         /\ Panels(p.tasks, batch) \subseteq Keys
         /\ \A k \in Panels(p.tasks, batch) \ DOMAIN responding :
               /\ batch /\ k \in DOMAIN tasks /\ tasks[k] = "pending"
               /\ k # id => p.tasks[k] = "running"
<1>1. /\ p \in Pages /\ DOMAIN p.tasks = DOMAIN tasks
      /\ \A t \in DOMAIN tasks :
           IF t = id THEN p.tasks[t] \in {"completed", "failed"}
           ELSE \/ p.tasks[t] = tasks[t]
                \/ tasks[t] = "pending" /\ p.tasks[t] = "running"
  BY PageIsOne DEF Through
<1>2. p.tasks \in Lists /\ p.group \in Nat /\ p.again \in BOOLEAN
  BY <1>1 DEF Pages
<1>3. DOMAIN responding = Panels(tasks, batch) /\ DOMAIN tasks \subseteq TaskIds /\ batch \in BOOLEAN
  BY DEF TypeOK
<1>4. DOMAIN responding \subseteq Panels(p.tasks, batch)
  BY <1>1, <1>3 DEF Panels, Pending, WithStatus
<1>5. Panels(p.tasks, batch) \subseteq Keys
  BY <1>1, <1>3, PanelsAreKeys
<1>6. ASSUME NEW k \in Panels(p.tasks, batch) \ DOMAIN responding
      PROVE  /\ batch /\ k \in DOMAIN tasks /\ tasks[k] = "pending"
             /\ k # id => p.tasks[k] = "running"
  BY <1>1, <1>3, <1>6 DEF Panels, Pending, WithStatus
<1>7. p.tasks = << >> <=> tasks = << >>
  BY <1>1, <1>2 DEF Lists, TypeOK
<1> QED BY <1>1, <1>2, <1>3, <1>4, <1>5, <1>6, <1>7

LEMMA PanelsCome ==
  ASSUME TypeOK, NEW id, NEW p, Through(Page, p, id),
         NEW k \in Panels(p.tasks, batch) \ DOMAIN responding
  PROVE  k \in DOMAIN tasks /\ tasks[k] = "pending" /\ (k = id \/ p.tasks[k] = "running")
BY PanelsGrow

(* What a request may report as its panel's answer is a run, or nothing.    *)
LEMMA AnswersTyped ==
  ASSUME TypeOK, RunsFirst, NEW s \in sends
  PROVE  s.run \in 0..MaxRuns /\ CompletionRes(s) \subseteq 0..MaxRuns
<1>1. s.run \in 0..MaxRuns /\ 1..s.run \subseteq 0..MaxRuns
  BY IdsAreNumbers DEF TypeOK, Send
<1>2. s.here => s.key \in DOMAIN shown
  BY DEF TypeOK, RunsFirst
<1>3. s.here => shown[s.key] \in 0..MaxRuns
  BY <1>2 DEF TypeOK
<1> QED BY <1>1, <1>3 DEF CompletionRes

LEMMA EmptiedTyped ==
  ASSUME TypeOK, NEW panels, NEW asking, NEW r \in 0..MaxRuns
  PROVE  /\ Emptied(panels, asking, r) \in [panels -> 0..MaxRuns]
         /\ \A k \in panels \cap asking : Emptied(panels, asking, r)[k] = r
         /\ \A k \in (panels \cap DOMAIN responding) \ asking :
               Emptied(panels, asking, r)[k] = shown[k]
<1>1. DOMAIN shown = DOMAIN responding /\ \A k \in DOMAIN shown : shown[k] \in 0..MaxRuns
  BY DEF TypeOK
<1>2. 0 \in 0..MaxRuns
  BY IdsAreNumbers
<1> QED BY <1>1, <1>2 DEF Emptied

LEMMA SettledTyped ==
  ASSUME TypeOK, RunsFirst, NEW s \in sends, NEW p, Through(Page, p, s.key),
         NEW res \in 0..MaxRuns, Settled(s, p, res), late' \subseteq Late
  PROVE  TypeOK' /\ RunsFirst'
<1> DEFINE panels == Panels(p.tasks, batch)
           mounted == panels \ DOMAIN responding
           own(k) == k = s.key /\ s.here
           quiet(k) == own(k) \/ ~responding[k]
           failed == {t \in WithStatus(p.tasks, {"failed"}) : retried /\ tasks[t] # "failed"}
           resent == {t \in failed \ mounted : quiet(t)}
           new == {Request(t, run) : t \in mounted \cup resent}
                    \cup {Twin(t, run) : t \in mounted \cap failed}
<1>1. /\ tasks' = p.tasks /\ group' = p.group
      /\ results' = IF s.key = 0 THEN results ELSE [results EXCEPT ![s.key] = res]
      /\ responding' = [k \in panels |-> k \in mounted \cup resent \/ ~quiet(k)]
      /\ shown' = [k \in panels |-> IF k \in mounted \cup resent THEN run
                                    ELSE IF own(k) THEN res ELSE shown[k]]
      /\ sends' = (sends \ {s}) \cup new
      /\ lapses' = IF p.again /\ tasks # << >> THEN lapses \cup {"recounted"} ELSE lapses
      /\ UNCHANGED <<batch, retried, run, retries>>
  BY DEF Settled, Twin
<1>2. s \in Send /\ s.key \in Keys /\ s.run \in 1..MaxRuns /\ s.run <= run /\ run \in 0..MaxRuns
  BY DEF TypeOK, RunsFirst, Send
<1>3. run \in 1..MaxRuns
  BY <1>2, IdsAreNumbers
<1>4. panels \subseteq Keys /\ DOMAIN p.tasks \subseteq TaskIds /\ p.tasks \in Lists
  BY PanelsGrow
<1>5. resent \subseteq Keys
  BY <1>4 DEF Keys, WithStatus
<1>13. resent \subseteq panels
  BY PanelsGrow DEF Panels, Pending, WithStatus, TypeOK
<1> HIDE DEF panels, failed, resent, quiet, own
<1>12. shown' \in [Panels(tasks', batch') -> 0..MaxRuns]
  <2>1. DOMAIN shown = DOMAIN responding /\ \A k \in DOMAIN shown : shown[k] \in 0..MaxRuns
    BY DEF TypeOK
  <2>2. \A k \in panels : k \in mounted \/ shown[k] \in 0..MaxRuns
    BY <2>1 DEF mounted
  <2>3. run \in 0..MaxRuns
    BY <1>2
  <2>4. shown' \in [panels -> 0..MaxRuns]
    BY <1>1, <2>2, <2>3
  <2> QED BY <1>1, <2>4 DEF panels
<1> HIDE DEF mounted
<1>6. ASSUME NEW x \in new PROVE x \in Send /\ x.run = run /\ x.key \in panels
  <2>1. PICK t \in mounted \cup resent :
          x = Request(t, run) \/ x = Twin(t, run)
    OBVIOUS
  <2>2. t \in Keys /\ t \in panels
    BY <1>4, <1>5, <1>13 DEF mounted
  <2> QED BY <1>3, <2>1, <2>2, RequestIsOne
<1> HIDE DEF new
<1>7. sends' \subseteq Send /\ \A x \in sends' : x.run <= run'
  BY <1>1, <1>2, <1>6, IdsAreNumbers DEF TypeOK, RunsFirst
<1>14. \A x \in sends' : x.here => x.key \in DOMAIN responding'
  <2>1. DOMAIN responding \subseteq panels /\ DOMAIN responding' = panels
    BY <1>1, PanelsGrow DEF panels
  <2> QED BY <1>1, <1>6, <2>1 DEF RunsFirst
<1>8. results' \in [TaskIds -> 0..MaxRuns]
  BY <1>1 DEF TypeOK
<1>9. responding' \in [Panels(tasks', batch') -> BOOLEAN]
  <2>1. \A k \in panels : (k \in mounted \cup resent \/ ~quiet(k)) \in BOOLEAN
    OBVIOUS
  <2> QED BY <1>1, <2>1 DEF panels
<1>10. group' \in Nat /\ (batch' \/ tasks' = << >>)
  BY <1>1, PanelsGrow DEF TypeOK
<1>11. lapses' \subseteq {"recounted", "cleared"}
  BY <1>1 DEF TypeOK
<1> QED BY <1>1, <1>3, <1>4, <1>7, <1>8, <1>9, <1>10, <1>11, <1>12, <1>14
   DEF TypeOK, RunsFirst, Lists

-----------------------------------------------------------------------------
(* Whose requests are out, across a report.                                 *)

(* The single run has ended: its panel no longer responds. *)
LEMMA SingleEnds ==
  ASSUME TypeOK, OneEach, OwnSends, ~batch,
         NEW s \in sends, NEW p, Through(Page, p, s.key), NEW res, Settled(s, p, res)
  PROVE  OneEach' /\ OwnSends' /\ OwnShown' /\ ResultsAreOwn'
<1>1. tasks = << >> /\ p.tasks = << >> /\ DOMAIN responding = {0}
  BY PanelsGrow DEF TypeOK, Panels
<1>2. Panels(p.tasks, batch) = {0} /\ WithStatus(p.tasks, {"failed"}) = {}
  BY <1>1 DEF Panels, WithStatus
<1>3. s.key = 0 /\ s.here
  BY DEF OwnSends
<1>4. /\ tasks' = << >> /\ batch' = batch /\ run' = run
      /\ responding' = [k \in {0} |-> FALSE] /\ sends' = sends \ {s}
  BY <1>1, <1>2, <1>3 DEF Settled
<1>5. Out(0) = {s}
  BY <1>1, <1>3 DEF OneEach, Out
<1>6. OneEach'
  BY <1>4, <1>5 DEF OneEach, Out
<1>7. OwnSends' /\ OwnShown' /\ ResultsAreOwn'
  BY <1>1, <1>4 DEF OwnSends, OwnShown, ResultsAreOwn, Finished, WithStatus
<1> QED BY <1>6, <1>7

(* A request has ended while the batch is on the page. *)
LEMMA TaskEnds ==
  ASSUME TypeOK, RunsFirst, OneEach, OwnSends, OwnShown, ResultsAreOwn,
         "cleared" \notin lapses, batch = TRUE,
         NEW s \in sends, NEW p, Through(Page, p, s.key),
         NEW res \in CompletionRes(s) \cup {s.run}, Settled(s, p, res), late \subseteq late'
  PROVE  OneEach' /\ OwnSends' /\ OwnShown' /\ ResultsAreOwn'
<1> DEFINE panels == Panels(p.tasks, batch)
           mounted == panels \ DOMAIN responding
           own(k) == k = s.key /\ s.here
           quiet(k) == own(k) \/ ~responding[k]
           failed == {t \in WithStatus(p.tasks, {"failed"}) : retried /\ tasks[t] # "failed"}
           resent == {t \in failed \ mounted : quiet(t)}
           asking == mounted \cup resent
<1>1. /\ tasks' = p.tasks /\ batch' = batch /\ run' = run
      /\ results' = IF s.key = 0 THEN results ELSE [results EXCEPT ![s.key] = res]
      /\ responding' = [k \in panels |-> k \in asking \/ ~quiet(k)]
      /\ shown' = [k \in panels |-> IF k \in asking THEN run
                                    ELSE IF own(k) THEN res ELSE shown[k]]
      /\ sends' = (sends \ {s}) \cup {Request(t, run) : t \in asking}
                               \cup {Twin(t, run) : t \in mounted \cap failed}
  BY DEF Settled, Twin
<1>2. /\ DOMAIN p.tasks = DOMAIN tasks /\ DOMAIN tasks \subseteq TaskIds /\ 0 \notin DOMAIN tasks
      /\ DOMAIN responding \subseteq panels /\ panels \subseteq DOMAIN tasks
      /\ DOMAIN responding = DOMAIN tasks \ Pending(tasks)
  BY PanelsGrow, IdsAreNumbers DEF Panels, TypeOK
<1>3. \A t \in DOMAIN tasks :
        IF t = s.key THEN p.tasks[t] \in {"completed", "failed"}
        ELSE \/ p.tasks[t] = tasks[t]
             \/ tasks[t] = "pending" /\ p.tasks[t] = "running"
  BY PageIsOne DEF Through
<1>4. IF s.key = 0 THEN ~s.here
      ELSE /\ s.here /\ s.run = run /\ s.key \in DOMAIN tasks
           /\ tasks[s.key] \in {"running", "failed"}
  BY DEF OwnSends, WithStatus
<1>5. ASSUME NEW k \in mounted
      PROVE  k \in DOMAIN tasks /\ tasks[k] = "pending" /\ p.tasks[k] = "running" /\ k # s.key
  <2>1. k \in Panels(p.tasks, batch) \ DOMAIN responding
    OBVIOUS
  <2>2. k \in DOMAIN tasks /\ tasks[k] = "pending" /\ (k = s.key \/ p.tasks[k] = "running")
    <3>1. TypeOK /\ Through(Page, p, s.key)
      OBVIOUS
    <3> HIDE DEF mounted, failed, resent, quiet, asking, panels
    <3> QED BY ONLY <2>1, <3>1, PanelsCome
  <2>3. k # s.key
    BY <1>2, <1>4, <2>2
  <2> QED BY <2>2, <2>3
<1>6. failed \subseteq {s.key} /\ \A t \in failed : p.tasks[t] = "failed" /\ s.here
  BY <1>2, <1>3, <1>4 DEF WithStatus
<1>7. resent \subseteq failed
  OBVIOUS
<1>8. s.key # 0 => quiet(s.key)
  BY <1>4
<1>9. \A k : k # s.key => (quiet(k) <=> ~responding[k])
  OBVIOUS
<1>10. \A k \in asking : /\ k \in DOMAIN tasks /\ p.tasks[k] \in {"running", "failed"}
                        /\ k \in Keys /\ k # 0
  <2>1. \A k \in resent : k \in DOMAIN tasks /\ p.tasks[k] = "failed"
    BY <1>2, <1>6, <1>7 DEF WithStatus
  <2> HIDE DEF mounted, resent
  <2> QED BY <1>2, <1>5, <2>1 DEF Keys
<1>11. run \in 1..MaxRuns
  <2>1. s.run \in 1..MaxRuns /\ s.run <= run
    BY DEF TypeOK, RunsFirst, Send
  <2>2. run \in 0..MaxRuns /\ MaxRuns \in Nat
    BY IdsAreNumbers DEF TypeOK
  <2> HIDE DEF panels, mounted, failed, resent, quiet, own, asking
  <2> QED BY ONLY <2>1, <2>2
<1>12. sends' = (sends \ {s}) \cup {Request(t, run) : t \in asking}
  <2>1. mounted \cap failed = {}
    BY <1>5, <1>6
  <2> HIDE DEF mounted, failed, asking
  <2> QED BY <1>1, <2>1
<1>13. panels = DOMAIN responding'
  BY <1>1
<1>14. \A k \in panels : responding'[k] = (k \in asking \/ ~quiet(k))
  BY <1>1
<1>22. \A k : own(k) <=> k = s.key /\ s.here
  OBVIOUS
<1> HIDE DEF mounted, failed, resent, quiet, own
<1>15. \A k \in asking :
         /\ Request(k, run).key = k /\ Request(k, run).run = run /\ Request(k, run).here
  BY <1>10, <1>11, RequestIsOne
<1> HIDE DEF asking, panels
<1>16. ASSUME NEW k
       PROVE  Out(k)' = (Out(k) \ {s}) \cup {Request(t, run) : t \in asking \cap {k}}
  BY <1>12, <1>15 DEF Out
<1>17. s.key # 0 => Out(s.key) = {s} /\ responding[s.key]
  <2> SUFFICES ASSUME s.key # 0 PROVE Out(s.key) = {s} /\ responding[s.key]
    OBVIOUS
  <2>1. s \in Out(s.key)
    BY <1>4 DEF Out
  <2>2. s.key \in DOMAIN responding
    BY <1>2, <1>4 DEF Pending, WithStatus
  <2> QED BY <2>1, <2>2 DEF OneEach
<1>18. OneEach'
  <2> SUFFICES ASSUME NEW k \in panels
               PROVE  IF responding'[k] THEN \E x \in sends' : Out(k)' = {x} ELSE Out(k)' = {}
    BY <1>13 DEF OneEach
  <2>1. CASE k \in asking
    <3>1. responding'[k] /\ Request(k, run) \in sends'
      BY <1>12, <1>14, <2>1
    <3>2. Out(k) \subseteq {s}
      <4>1. CASE k \in mounted
        <5>1. tasks[k] = "pending" /\ k # 0
          BY <1>5, <1>10, <2>1, <4>1
        <5> QED BY <5>1 DEF Out, OwnSends, WithStatus
      <4>2. CASE k \in resent
        BY <1>4, <1>6, <1>7, <1>17, <4>2
      <4> QED BY <2>1, <4>1, <4>2 DEF asking
    <3>3. {Request(t, run) : t \in asking \cap {k}} = {Request(k, run)}
      BY <2>1
    <3>4. Out(k)' = {Request(k, run)}
      BY <1>16, <3>2, <3>3
    <3> QED BY <3>1, <3>4
  <2>2. CASE k \notin asking
    <3>1. {Request(t, run) : t \in asking \cap {k}} = {}
      BY <2>2
    <3>2. Out(k)' = Out(k) \ {s}
      BY <1>16, <3>1
    <3>3. k # 0 /\ k \in DOMAIN responding
      BY <1>2, <2>2 DEF asking, mounted, panels
    <3>4. CASE k = s.key
      BY <1>8, <1>14, <1>17, <2>2, <3>2, <3>3, <3>4
    <3>5. CASE k # s.key
      <4>1. Out(k)' = Out(k)
        BY <3>2, <3>5 DEF Out
      <4>2. responding'[k] = responding[k]
        <5>1. responding[k] \in BOOLEAN
          BY <3>3 DEF TypeOK
        <5> QED BY <1>9, <1>14, <2>2, <3>5, <5>1
      <4>3. Out(k) \subseteq sends'
        BY <1>12, <3>5 DEF Out
      <4> QED BY <3>3, <4>1, <4>2, <4>3 DEF OneEach
    <3> QED BY <3>4, <3>5
  <2> QED BY <2>1, <2>2
<1>19. OwnSends'
  <2> SUFFICES ASSUME NEW x \in sends'
               PROVE  IF x.key = 0 THEN x.here <=> ~batch'
                      ELSE /\ batch' /\ x.here /\ x.run = run'
                           /\ x.key \in WithStatus(tasks', {"running", "failed"})
    BY DEF OwnSends
  <2>1. CASE x \in sends \ {s}
    <3>1. CASE x.key = 0
      BY <1>1, <2>1, <3>1 DEF OwnSends
    <3>2. CASE x.key # 0
      <4>1. /\ x.here /\ x.run = run /\ x.key \in DOMAIN tasks
            /\ tasks[x.key] \in {"running", "failed"}
        BY <2>1, <3>2 DEF OwnSends, WithStatus
      <4>2. x.key # s.key
        <5>1. x \in Out(x.key)
          BY <2>1, <4>1 DEF Out
        <5> QED BY <1>17, <2>1, <3>2, <5>1
      <4>3. p.tasks[x.key] = tasks[x.key]
        BY <1>3, <4>1, <4>2
      <4> QED BY <1>1, <1>2, <3>2, <4>1, <4>3 DEF WithStatus
    <3> QED BY <3>1, <3>2
  <2>2. CASE x \in {Request(t, run) : t \in asking}
    <3>1. PICK t \in asking : x = Request(t, run)
      BY <2>2
    <3>2. x.key = t /\ x.run = run /\ x.here
      BY <1>15, <3>1
    <3> QED BY <1>1, <1>2, <1>10, <3>1, <3>2 DEF WithStatus
  <2> QED BY <1>12, <2>1, <2>2
<1>23. \A t : OwnAnswers(t) \subseteq OwnAnswers(t)'
  BY <1>1 DEF OwnAnswers
<1>21. s.key # 0 => res \in OwnAnswers(s.key)'
  <2> SUFFICES ASSUME s.key # 0 PROVE res \in OwnAnswers(s.key)
    BY <1>23
  <2>1. s.key \in DOMAIN responding /\ s.here /\ s.run = run
    BY <1>2, <1>4 DEF Pending, WithStatus
  <2>2. shown[s.key] \in OwnAnswers(s.key) /\ run \in OwnAnswers(s.key)
    BY <2>1 DEF OwnShown, OwnAnswers
  <2> QED BY <2>1, <2>2 DEF CompletionRes
<1>20. ResultsAreOwn'
  <2> SUFFICES ASSUME NEW t \in Finished(p.tasks) PROVE results'[t] \in OwnAnswers(t)'
    BY <1>1 DEF ResultsAreOwn
  <2>1. t \in DOMAIN tasks /\ p.tasks[t] \in {"completed", "failed"} /\ t \in TaskIds /\ t # 0
    BY <1>2 DEF Finished, WithStatus
  <2>2. results \in [TaskIds -> 0..MaxRuns]
    BY DEF TypeOK
  <2>3. CASE t = s.key
    BY <1>1, <1>21, <2>1, <2>2, <2>3
  <2>4. CASE t # s.key
    <3>1. t \in Finished(tasks)
      BY <1>3, <2>1, <2>4 DEF Finished, WithStatus
    <3>2. results'[t] = results[t]
      BY <1>1, <2>1, <2>2, <2>4
    <3> QED BY <1>23, <3>1, <3>2 DEF ResultsAreOwn
  <2> QED BY <2>3, <2>4
<1>24. OwnShown'
  <2> SUFFICES ASSUME NEW k \in panels PROVE shown'[k] \in OwnAnswers(k)'
    BY <1>13 DEF OwnShown
  <2>1. CASE k \in asking
    BY <1>1, <2>1 DEF OwnAnswers
  <2>2. CASE k \notin asking /\ own(k)
    <3>1. k = s.key /\ s.key # 0
      BY <1>2, <1>22, <2>2
    <3> QED BY <1>1, <1>21, <2>2, <3>1
  <2>3. CASE k \notin asking /\ ~own(k)
    <3>1. k \in DOMAIN responding
      BY <2>3 DEF asking, mounted
    <3>2. shown'[k] = shown[k]
      BY <1>1, <2>3
    <3> QED BY <1>23, <3>1, <3>2 DEF OwnShown
  <2> QED BY <2>1, <2>2, <2>3
<1> QED BY <1>18, <1>19, <1>20, <1>24

LEMMA SettledKeeps ==
  ASSUME IInv, NEW s \in sends, NEW p, Through(Page, p, s.key),
         NEW res \in CompletionRes(s) \cup {s.run}, Settled(s, p, res),
         late \subseteq late', late' \subseteq Late,
         ~p.again /\ Counted => CountedAt(p.tasks, p.group)
  PROVE  IInv'
<1>1. TypeOK /\ RunsFirst /\ Uncleared /\ Unrecounted
  BY DEF IInv
<1>2. TypeOK' /\ RunsFirst'
  <2>1. res \in 0..MaxRuns
    BY <1>1, AnswersTyped
  <2> QED BY <1>1, <2>1, SettledTyped
<1>3. /\ tasks' = p.tasks /\ group' = p.group
      /\ lapses' = IF p.again /\ tasks # << >> THEN lapses \cup {"recounted"} ELSE lapses
  BY DEF Settled
<1>4. Uncleared'
  <2> SUFFICES ASSUME "cleared" \notin lapses' PROVE OneEach' /\ OwnSends' /\ OwnShown' /\ ResultsAreOwn'
    BY DEF Uncleared
  <2>1. "cleared" \notin lapses
    BY <1>3
  <2>2. OneEach /\ OwnSends /\ OwnShown /\ ResultsAreOwn
    BY <1>1, <2>1 DEF Uncleared
  <2>3. CASE ~batch
    BY <1>1, <2>2, <2>3, SingleEnds
  <2>4. CASE batch = TRUE
    BY <1>1, <2>1, <2>2, <2>4, TaskEnds
  <2> QED BY <1>1, <2>3, <2>4 DEF TypeOK
<1>5. Unrecounted'
  <2> SUFFICES ASSUME "recounted" \notin lapses' PROVE Counted'
    BY DEF Unrecounted
  <2>1. CASE tasks = << >>
    <3>1. tasks' = tasks
      BY <1>1, <1>3, <2>1, PanelsGrow
    <3>2. Len(tasks') = 0 /\ Finished(tasks') = {} /\ Running(tasks') = {}
      BY <2>1, <3>1 DEF Finished, Running, WithStatus
    <3> QED BY <3>2, NoneCounted DEF Counted
  <2>2. CASE tasks # << >>
    <3>1. ~p.again /\ "recounted" \notin lapses
      BY <1>3, <2>2
    <3> QED BY <1>1, <1>3, <3>1 DEF Unrecounted, Counted
  <2> QED BY <2>1, <2>2
<1> QED BY <1>2, <1>4, <1>5 DEF IInv

LEMMA ReportKeeps ==
  ASSUME IInv, NEW s \in sends, NEW ok \in BOOLEAN,
         NEW res \in CompletionRes(s) \cup {s.run}, Settled(s, Reported(Page, s.key, ok), res),
         late \subseteq late', late' \subseteq Late
  PROVE  IInv'
<1> DEFINE p == Reported(Page, s.key, ok)
<1>1. Page \in Pages /\ Page.tasks = tasks /\ Page.group = group
  BY PageIsOne DEF IInv
<1>2. Through(Page, p, s.key)
  BY <1>1, ReportGoesThrough
<1>3. ASSUME ~p.again, Counted PROVE CountedAt(p.tasks, p.group)
  <2>1. s.key \in Running(Page.tasks)
    BY <1>2, <1>3 DEF Through
  <2>2. CountedAt(Page.tasks, Page.group)
    BY <1>1, <1>3 DEF Counted
  <2> QED BY <1>1, <2>1, <2>2, ReportCounts
<1> HIDE DEF p
<1>4. Settled(s, p, res)
  BY DEF p
<1> QED BY <1>2, <1>3, <1>4, SettledKeeps

LEMMA EndKeeps ==
  ASSUME IInv, NEW s \in sends, Succeed(s) \/ Fail(s) \/ TimeOut(s) \/ FailInStream(s)
  PROVE  IInv'
<1>0. late \subseteq Late
  BY DEF IInv, TypeOK
<1>1. CASE Succeed(s)
  <2>1. PICK res \in CompletionRes(s) \cup {s.run} : Settled(s, Reported(Page, s.key, TRUE), res)
    BY <1>1 DEF Succeed
  <2> QED BY <1>0, <1>1, <2>1, ReportKeeps DEF Succeed
<1>2. CASE Fail(s)
  <2>1. PICK res \in CompletionRes(s) : Settled(s, Reported(Page, s.key, FALSE), res)
    BY <1>2 DEF Fail
  <2> QED BY <1>0, <1>2, <2>1, ReportKeeps DEF Fail
<1>4. CASE TimeOut(s)
  <2>1. PICK res \in CompletionRes(s) : Settled(s, Reported(Page, s.key, FALSE), res)
    BY <1>4 DEF TimeOut
  <2>2. s.key \in Keys /\ s.run \in 1..MaxRuns
    BY DEF IInv, TypeOK, Send
  <2>3. late \subseteq late' /\ late' \subseteq Late
    BY <1>0, <1>4, <2>2 DEF TimeOut, Late
  <2> QED BY <2>1, <2>3, ReportKeeps
<1>3. CASE FailInStream(s)
  <2> DEFINE f == Reported(Page, s.key, FALSE)
             p == Reported(f, s.key, TRUE)
  <2>1. PICK res \in CompletionRes(s) : Settled(s, p, res)
    BY <1>3 DEF FailInStream
  <2>7. late' = late
    BY <1>3 DEF FailInStream
  <2>2. Page \in Pages
    BY PageIsOne DEF IInv
  <2>3. Through(Page, f, s.key)
    BY <2>2, ReportGoesThrough
  <2> HIDE DEF f
  <2>4. f \in Pages
    BY <2>3 DEF Through
  <2>5. Through(f, p, s.key)
    BY <2>4, ReportGoesThrough
  <2> HIDE DEF p
  <2>6. Through(Page, p, s.key) /\ p.again
    BY <2>2, <2>3, <2>5, ThroughTwice
  <2> QED BY <1>0, <2>1, <2>6, <2>7, SettledKeeps
<1> QED BY <1>1, <1>2, <1>3, <1>4

(* A stream writes, whether or not it has timed out.                        *)
LEMMA WriteKeeps ==
  ASSUME IInv, NEW k \in DOMAIN responding, Write(k)
  PROVE  IInv'
<1>1. TypeOK /\ RunsFirst /\ Uncleared /\ Unrecounted
  BY DEF IInv
<1>2. PICK s \in {x \in sends : x.here} \cup late : s.key = k /\ shown' = [shown EXCEPT ![k] = s.run]
  BY DEF Write
<1>3. UNCHANGED <<tasks, group, batch, results, responding, sends, late, retried, run, retries,
                  lapses>>
  BY DEF Write
<1>4. s.run \in 0..MaxRuns
  BY <1>1, IdsAreNumbers DEF TypeOK, Send, Late
<1>5. TypeOK'
  <2>1. shown' \in [Panels(tasks, batch) -> 0..MaxRuns]
    BY <1>1, <1>2, <1>4 DEF TypeOK
  <2> QED BY <1>1, <1>3, <2>1 DEF TypeOK
<1>6. RunsFirst' /\ Unrecounted'
  BY <1>1, <1>3 DEF RunsFirst, Unrecounted, Counted
<1>7. Uncleared'
  <2> SUFFICES ASSUME "cleared" \notin lapses
               PROVE  OneEach' /\ OwnSends' /\ OwnShown' /\ ResultsAreOwn'
    BY <1>3 DEF Uncleared
  <2>1. OneEach /\ OwnSends /\ OwnShown /\ ResultsAreOwn
    BY <1>1 DEF Uncleared
  <2>2. \A t : OwnAnswers(t)' = OwnAnswers(t)
    BY <1>3 DEF OwnAnswers
  <2>3. OneEach' /\ OwnSends' /\ ResultsAreOwn'
    BY <1>3, <2>1, <2>2 DEF OneEach, Out, OwnSends, ResultsAreOwn
  <2>4. ASSUME batch, NEW j \in DOMAIN responding PROVE shown'[j] \in OwnAnswers(j)
    <3>1. CASE j # k
      BY <1>1, <1>2, <2>1, <2>4, <3>1 DEF OwnShown, TypeOK
    <3>2. CASE j = k
      <4>1. shown'[j] = s.run
        BY <1>1, <1>2, <3>2 DEF TypeOK
      <4>2. k # 0
        BY <1>1, <2>4, IdsAreNumbers DEF TypeOK, Panels
      <4>3. CASE s \in late
        BY <1>2, <3>2, <4>1, <4>3 DEF OwnAnswers
      <4>4. CASE s \in sends
        BY <1>2, <2>1, <3>2, <4>1, <4>2, <4>4 DEF OwnSends, OwnAnswers
      <4> QED BY <1>2, <4>3, <4>4
    <3> QED BY <3>1, <3>2
  <2>5. OwnShown'
    BY <1>3, <2>2, <2>4 DEF OwnShown
  <2> QED BY <2>3, <2>5
<1> QED BY <1>5, <1>6, <1>7 DEF IInv

-----------------------------------------------------------------------------
(* A batch is started.                                                      *)
LEMMA RunBatchKeeps ==
  ASSUME IInv, run < MaxRuns, NEW n \in Sizes[run + 1], RunBatch(n)
  PROVE  IInv'
<1> DEFINE panels == Panels(tasks', TRUE)
           free == {k \in panels : k \notin DOMAIN responding \/ ~responding[k]}
<1>1. TypeOK /\ RunsFirst /\ Uncleared
  BY DEF IInv
<1>2. /\ \A t \in DOMAIN tasks : tasks[t] = "completed"
      /\ run' = run + 1 /\ group' = 0 /\ batch' = TRUE
      /\ tasks' = [t \in 1..n |-> IF t <= GroupSize THEN "running" ELSE "pending"]
      /\ responding' = [k \in panels |-> k \in free]
      /\ sends' = Left(sends, panels) \cup {Request(k, run') : k \in free}
      /\ shown' = Emptied(panels, free, run') /\ late' = LateOn(panels)
      /\ UNCHANGED <<results, retried, retries, lapses>>
  BY DEF RunBatch
<1>3. run' \in 1..MaxRuns /\ n \in Nat \ {0} /\ 1..n \subseteq TaskIds /\ run \in Nat
  BY <1>1, <1>2, IdsAreNumbers DEF TypeOK
<1>4. GroupSize \in Nat \ {0}
  BY GroupAssumption
<1>5. /\ tasks' \in Lists /\ DOMAIN tasks' = 1..n /\ Len(tasks') = n
      /\ \A t \in 1..n : tasks'[t] = IF t <= GroupSize THEN "running" ELSE "pending"
  <2>1. tasks' \in [1..n -> Statuses]
    BY <1>2 DEF Statuses
  <2>2. tasks' \in Lists
    BY <1>3, <2>1 DEF Lists
  <2> QED BY <1>2, <1>3, <2>2 DEF Lists
<1>6. panels = Running(tasks') /\ panels \subseteq 1..n /\ panels \subseteq 1..GroupSize
  <2>1. panels = {t \in 1..n : tasks'[t] # "pending"}
    BY <1>5 DEF Panels, Pending, WithStatus
  <2>2. Running(tasks') = {t \in 1..n : tasks'[t] = "running"}
    BY <1>5 DEF Running, WithStatus
  <2> HIDE DEF panels
  <2>3. \A t \in 1..n : t \in panels <=> t <= GroupSize
    BY <1>5, <2>1
  <2>4. \A t \in 1..n : t \in Running(tasks') <=> t <= GroupSize
    BY <1>5, <2>2
  <2>5. panels \subseteq 1..n /\ Running(tasks') \subseteq 1..n
    BY <2>1, <2>2
  <2>6. panels = Running(tasks')
    BY <2>3, <2>4, <2>5
  <2>7. ASSUME NEW t \in panels PROVE t \in 1..GroupSize
    <3>1. t \in 1..n /\ t <= GroupSize
      BY <2>3, <2>5
    <3> QED BY <1>3, <1>4, <3>1
  <2> QED BY <2>5, <2>6, <2>7
<1>7. panels \subseteq Keys /\ 0 \notin panels
  <2> HIDE DEF panels
  <2>1. panels \subseteq TaskIds
    BY <1>3, <1>6
  <2> QED BY <2>1, IdsAreNumbers DEF Keys
<1>8. free \subseteq panels /\ panels = DOMAIN responding' /\ \A k \in panels : responding'[k] = (k \in free)
  BY <1>2
<1>9. ASSUME NEW k \in free
      PROVE  /\ Request(k, run') \in Send /\ Request(k, run').key = k
             /\ Request(k, run').run = run' /\ Request(k, run').here
  <2> HIDE DEF panels, free
  <2>1. k \in Keys /\ run' \in 1..MaxRuns
    BY <1>3, <1>7, <1>8
  <2> QED BY <2>1, RequestIsOne
<1>10. /\ Left(sends, panels) \subseteq Send
       /\ \A s \in Left(sends, panels) : \E u \in sends :
             s.key = u.key /\ s.run = u.run /\ (s.here => u.key \in panels)
  <2>1. sends \in SUBSET Send
    BY <1>1 DEF TypeOK
  <2> HIDE DEF panels
  <2> QED BY <2>1, LeftBehind
<1>11. ASSUME NEW k PROVE k \in free <=> k \in panels /\ (k \notin DOMAIN responding \/ ~responding[k])
  OBVIOUS
<1>12. responding' \in [Panels(tasks', batch') -> BOOLEAN]
  BY <1>2
<1>18. Panels(tasks', batch') = panels
  BY <1>2
<1> HIDE DEF panels, free
<1>19. run' \in 0..MaxRuns
  BY <1>3, IdsAreNumbers
<1>20. /\ shown' \in [Panels(tasks', batch') -> 0..MaxRuns]
       /\ \A k \in panels \cap free : shown'[k] = run'
  <2> DEFINE E == Emptied(panels, free, run')
  <2>1. E \in [panels -> 0..MaxRuns] /\ \A k \in panels \cap free : E[k] = run'
    BY <1>1, <1>19, EmptiedTyped
  <2>2. shown' = E
    BY <1>2
  <2> QED BY <1>18, <2>1, <2>2
<1>21. late' \subseteq Late
  BY <1>1, <1>2 DEF LateOn, TypeOK
<1>13. sends' \subseteq Send
  BY <1>2, <1>9, <1>10
<1>14. TypeOK'
  <2>1. tasks' \in Seq(Statuses) /\ DOMAIN tasks' \subseteq TaskIds
    BY <1>3, <1>5 DEF Lists
  <2>2. batch' \in BOOLEAN /\ (batch' \/ tasks' = << >>) /\ group' \in Nat
    BY <1>2
  <2>3. run' \in 0..MaxRuns
    BY <1>3, IdsAreNumbers
  <2>4. /\ results' \in [TaskIds -> 0..MaxRuns] /\ retried' \in BOOLEAN
        /\ retries' \in 0..MaxRetries /\ lapses' \subseteq {"recounted", "cleared"}
    BY <1>1, <1>2 DEF TypeOK
  <2> QED BY <1>12, <1>13, <1>20, <1>21, <2>1, <2>2, <2>3, <2>4 DEF TypeOK
<1>15. RunsFirst'
  <2>1. ASSUME NEW s \in sends' PROVE s.run <= run'
    <3>1. CASE s \in Left(sends, panels)
      <4>1. PICK u \in sends : s.run = u.run
        BY <1>10, <3>1
      <4>2. u.run <= run /\ u.run \in Nat
        BY <1>1, IdsAreNumbers DEF RunsFirst, TypeOK, Send
      <4> QED BY <1>2, <1>3, <4>1, <4>2
    <3>2. CASE s \in {Request(k, run') : k \in free}
      BY <1>3, <1>9, <3>2, IdsAreNumbers
    <3> QED BY <1>2, <3>1, <3>2
  <2>2. \A s \in sends' : s.here => s.key \in DOMAIN responding'
    BY <1>2, <1>8, <1>9, <1>10
  <2> QED BY <1>3, <2>1, <2>2 DEF RunsFirst
<1>16. Uncleared'
  <2> SUFFICES ASSUME "cleared" \notin lapses' PROVE OneEach' /\ OwnSends' /\ OwnShown' /\ ResultsAreOwn'
    BY DEF Uncleared
  <2>1. OneEach /\ OwnSends
    BY <1>1, <1>2 DEF Uncleared
  <2>2. \A u \in sends : u.key = 0
    BY <1>2, <2>1 DEF OwnSends, WithStatus
  <2>3. ASSUME NEW k \in panels, k \in DOMAIN responding, responding[k] PROVE FALSE
    <3>1. PICK u \in sends : Out(k) = {u}
      BY <2>1, <2>3 DEF OneEach
    <3>2. u \in sends /\ u.key = k
      BY <3>1 DEF Out
    <3> QED BY <1>7, <2>2, <3>2
  <2>4. \A k \in panels : k \in free /\ responding'[k]
    BY <1>8, <1>11, <2>3
  <2>5. \A s \in Left(sends, panels) : s.key = 0 /\ ~s.here
    BY <1>7, <1>10, <2>2
  <2>6. ASSUME NEW k \in panels PROVE Request(k, run') \in sends' /\ Out(k)' = {Request(k, run')}
    <3>1. k \in free /\ k # 0
      BY <1>7, <2>4
    <3>2. Request(k, run') \in sends'
      BY <1>2, <3>1
    <3>3. ASSUME NEW s \in Out(k)' PROVE s = Request(k, run')
      <4>1. s \in sends' /\ s.key = k /\ s.here
        BY DEF Out
      <4>2. PICK u \in free : s = Request(u, run')
        BY <1>2, <2>5, <3>1, <4>1
      <4> QED BY <1>9, <4>1, <4>2
    <3>4. Request(k, run') \in Out(k)'
      BY <1>9, <3>1, <3>2 DEF Out
    <3> QED BY <3>2, <3>3, <3>4
  <2>7. OneEach'
    BY <1>8, <2>4, <2>6 DEF OneEach
  <2>8. OwnSends'
    <3> SUFFICES ASSUME NEW x \in sends'
                 PROVE  IF x.key = 0 THEN x.here <=> ~batch'
                        ELSE /\ batch' /\ x.here /\ x.run = run'
                             /\ x.key \in WithStatus(tasks', {"running", "failed"})
      BY DEF OwnSends
    <3>1. CASE x \in Left(sends, panels)
      BY <1>2, <2>5, <3>1
    <3>2. CASE x \in {Request(k, run') : k \in free}
      <4>1. PICK k \in free : x = Request(k, run')
        BY <3>2
      <4>2. k # 0 /\ k \in Running(tasks')
        BY <1>6, <1>7, <1>8
      <4> QED BY <1>2, <1>9, <4>1, <4>2 DEF Running, WithStatus
    <3> QED BY <1>2, <3>1, <3>2
  <2>9. ResultsAreOwn'
    BY <1>5 DEF ResultsAreOwn, Finished, WithStatus
  <2>10. OwnShown'
    BY <1>8, <1>20, <2>4 DEF OwnShown, OwnAnswers
  <2> QED BY <2>7, <2>8, <2>9, <2>10
<1>17. Unrecounted'
  <2>1. Finished(tasks') = {}
    BY <1>5 DEF Finished, WithStatus
  <2>2. Cardinality(Finished(tasks')) = 0
    BY <2>1, FS_EmptySet
  <2>3. Cardinality(Running(tasks')) <= GroupSize /\ Cardinality(Running(tasks')) \in Nat
    <3>1. IsFiniteSet(1..GroupSize) /\ Cardinality(1..GroupSize) = GroupSize
      BY <1>4, FS_Interval
    <3> QED BY <1>6, <3>1, FS_Subset, FS_CardinalityType
  <2>4. 0 % GroupSize = 0
    BY <1>4
  <2>5. Counted'
    BY <1>2, <1>4, <2>2, <2>3, <2>4 DEF Counted, CountedAt
  <2> QED BY <2>5 DEF Unrecounted
<1> QED BY <1>14, <1>15, <1>16, <1>17 DEF IInv

-----------------------------------------------------------------------------
(* A single run takes the place of whatever was on the page.                *)
LEMMA RunOnceKeeps ==
  ASSUME IInv, RunOnce PROVE IInv'
<1> DEFINE busy == ~batch /\ responding[0]
<1>1. TypeOK /\ RunsFirst /\ Uncleared
  BY DEF IInv
<1>2. PICK complete \in BOOLEAN :
        /\ responding' = [k \in {0} |-> busy \/ complete]
        /\ sends' = Left(sends, {0}) \cup (IF complete /\ ~busy THEN {Request(0, run')} ELSE {})
        /\ shown' = Emptied({0}, IF complete /\ ~busy THEN {0} ELSE {}, run')
  BY DEF RunOnce
<1>3. /\ run < MaxRuns /\ run' = run + 1 /\ tasks' = << >> /\ batch' = FALSE
      /\ lapses' = IF batch /\ sends # {} THEN lapses \cup {"cleared"} ELSE lapses
      /\ late' = LateOn(IF batch THEN {} ELSE {0})
      /\ UNCHANGED <<group, results, retried, retries>>
  BY DEF RunOnce
<1>4. run' \in 1..MaxRuns /\ run \in Nat
  BY <1>1, <1>3, IdsAreNumbers DEF TypeOK
<1>5. /\ Request(0, run') \in Send /\ Request(0, run').key = 0
      /\ Request(0, run').run = run' /\ Request(0, run').here
  <2>1. 0 \in Keys
    BY DEF Keys
  <2> QED BY <1>4, <2>1, RequestIsOne
<1>6. /\ Left(sends, {0}) \subseteq Send
      /\ \A s \in Left(sends, {0}) : \E u \in sends :
            s.key = u.key /\ s.run = u.run /\ (s.here => u.key \in {0})
  <2>1. sends \in SUBSET Send
    BY <1>1 DEF TypeOK
  <2> QED BY <2>1, LeftBehind
<1>7. DOMAIN responding' = {0} /\ responding'[0] = (busy \/ complete)
  BY <1>2
<1>8. Panels(tasks', batch') = {0}
  BY <1>3 DEF Panels
<1>9. TypeOK'
  <2>1. tasks' \in Seq(Statuses) /\ DOMAIN tasks' \subseteq TaskIds
    BY <1>3
  <2>2. responding' \in [{0} -> BOOLEAN]
    BY <1>2
  <2>3. sends' \subseteq Send
    BY <1>2, <1>5, <1>6
  <2>4. run' \in 0..MaxRuns
    BY <1>4, IdsAreNumbers
  <2>5. /\ results' \in [TaskIds -> 0..MaxRuns] /\ retried' \in BOOLEAN /\ group' \in Nat
        /\ retries' \in 0..MaxRetries /\ lapses' \subseteq {"recounted", "cleared"}
    BY <1>1, <1>3 DEF TypeOK
  <2>6. shown' \in [{0} -> 0..MaxRuns]
    BY <1>1, <1>2, <2>4, EmptiedTyped
  <2>7. late' \subseteq Late
    BY <1>1, <1>3 DEF LateOn, TypeOK
  <2> QED BY <1>3, <1>8, <2>1, <2>2, <2>3, <2>4, <2>5, <2>6, <2>7 DEF TypeOK
<1>10. RunsFirst'
  <2>1. ASSUME NEW s \in sends' PROVE s.run <= run'
    <3>1. CASE s \in Left(sends, {0})
      <4>1. PICK u \in sends : s.run = u.run
        BY <1>6, <3>1
      <4>2. u.run <= run /\ u.run \in Nat
        BY <1>1, IdsAreNumbers DEF RunsFirst, TypeOK, Send
      <4> QED BY <1>3, <1>4, <4>1, <4>2
    <3>2. CASE s = Request(0, run')
      BY <1>4, <1>5, <3>2, IdsAreNumbers
    <3> QED BY <1>2, <3>1, <3>2
  <2>2. \A s \in sends' : s.here => s.key \in DOMAIN responding'
    BY <1>2, <1>5, <1>6, <1>7
  <2> QED BY <1>4, <2>1, <2>2 DEF RunsFirst
<1>11. Uncleared'
  <2> SUFFICES ASSUME "cleared" \notin lapses' PROVE OneEach' /\ OwnSends' /\ OwnShown' /\ ResultsAreOwn'
    BY DEF Uncleared
  <2>1. OneEach /\ OwnSends /\ ~(batch /\ sends # {})
    BY <1>1, <1>3 DEF Uncleared
  <2>2. \A s \in sends : ~batch /\ s.key = 0 /\ s.here
    BY <2>1 DEF OwnSends
  <2>3. Left(sends, {0}) = sends
    BY <2>2 DEF Left
  <2>4. Out(0) = sends
    BY <2>2 DEF Out
  <2>5. IF busy THEN \E s \in sends : sends = {s} ELSE sends = {}
    <3>1. CASE batch
      BY <2>1, <3>1
    <3>2. CASE ~batch
      <4>1. 0 \in DOMAIN responding
        BY <1>1, <3>2 DEF TypeOK, Panels
      <4> QED BY <2>1, <2>4, <3>2, <4>1 DEF OneEach
    <3> QED BY <3>1, <3>2
  <2>6. \A s \in sends' : s.key = 0 /\ s.here
    BY <1>2, <1>5, <2>2, <2>3
  <2>7. Out(0)' = sends'
    BY <2>6 DEF Out
  <2>8. IF busy \/ complete THEN \E s \in sends' : sends' = {s} ELSE sends' = {}
    <3>1. CASE busy
      BY <1>2, <2>3, <2>5, <3>1
    <3>2. CASE ~busy /\ complete
      BY <1>2, <2>3, <2>5, <3>2
    <3>3. CASE ~busy /\ ~complete
      BY <1>2, <2>3, <2>5, <3>3
    <3> QED BY <3>1, <3>2, <3>3
  <2>9. OneEach'
    BY <1>7, <2>7, <2>8 DEF OneEach
  <2>10. OwnSends' /\ OwnShown' /\ ResultsAreOwn'
    BY <1>3, <2>6 DEF OwnSends, OwnShown, ResultsAreOwn, Finished, WithStatus
  <2> QED BY <2>9, <2>10
<1>12. Unrecounted'
  <2>1. Len(tasks') = 0 /\ Finished(tasks') = {} /\ Running(tasks') = {}
    BY <1>3 DEF Finished, Running, WithStatus
  <2> QED BY <2>1, NoneCounted DEF Unrecounted, Counted
<1> QED BY <1>9, <1>10, <1>11, <1>12 DEF IInv

(* Tasks that have failed are sent again. *)
LEMMA ResendKeeps ==
  ASSUME IInv, NEW S \in SUBSET WithStatus(tasks, {"failed"}), S # {}, Resend(S),
         retried' \in BOOLEAN
  PROVE  IInv'
<1> DEFINE quiet == {t \in S : ~responding[t]}
<1>1. TypeOK /\ RunsFirst /\ Uncleared /\ Unrecounted
  BY DEF IInv
<1>2. /\ retries < MaxRetries /\ retries' = retries + 1
      /\ responding' = [k \in DOMAIN responding |-> responding[k] \/ k \in quiet]
      /\ sends' = sends \cup {Request(t, run) : t \in quiet}
      /\ shown' = Emptied(DOMAIN responding, quiet, run)
      /\ UNCHANGED <<tasks, group, batch, results, late, run, lapses>>
  BY DEF Resend
<1>3. \A t \in S : t \in DOMAIN tasks /\ tasks[t] = "failed"
  BY DEF WithStatus
<1>4. tasks # << >> /\ batch = TRUE
  BY <1>1, <1>3 DEF TypeOK
<1>5. S \subseteq DOMAIN responding /\ S \subseteq Keys /\ 0 \notin S
  BY <1>1, <1>3, <1>4, IdsAreNumbers DEF TypeOK, Panels, Pending, WithStatus, Keys
<1>6. run \in 1..MaxRuns
  BY <1>1, <1>4, IdsAreNumbers DEF RunsFirst, TypeOK
<1>7. quiet \subseteq S /\ \A k : k \in quiet <=> k \in S /\ ~responding[k]
  OBVIOUS
<1> HIDE DEF quiet
<1>8. ASSUME NEW t \in quiet
      PROVE  /\ Request(t, run) \in Send /\ Request(t, run).key = t
             /\ Request(t, run).run = run /\ Request(t, run).here
  BY <1>5, <1>6, <1>7, RequestIsOne
<1>9. /\ DOMAIN responding' = DOMAIN responding
      /\ \A k \in DOMAIN responding : responding'[k] = (responding[k] \/ k \in quiet)
  BY <1>2
<1>14. /\ shown' \in [DOMAIN responding -> 0..MaxRuns]
       /\ \A k \in DOMAIN responding : shown'[k] = IF k \in quiet THEN run ELSE shown[k]
  <2>1. run \in 0..MaxRuns
    BY <1>1 DEF TypeOK
  <2> QED BY <1>1, <1>2, <2>1, EmptiedTyped
<1>10. TypeOK'
  <2>1. responding' \in [Panels(tasks', batch') -> BOOLEAN]
    BY <1>1, <1>2 DEF TypeOK
  <2>2. sends' \subseteq Send
    BY <1>1, <1>2, <1>8 DEF TypeOK
  <2>3. retries' \in 0..MaxRetries
    <3>1. MaxRetries \in Nat /\ retries \in 0..MaxRetries
      BY <1>1, BoundsAssumption DEF TypeOK
    <3> QED BY <1>2, <3>1
  <2>4. shown' \in [Panels(tasks', batch') -> 0..MaxRuns]
    BY <1>1, <1>2, <1>14 DEF TypeOK
  <2> QED BY <1>1, <1>2, <2>1, <2>2, <2>3, <2>4 DEF TypeOK
<1>11. RunsFirst'
  BY <1>1, <1>2, <1>5, <1>6, <1>7, <1>8, <1>9, IdsAreNumbers DEF RunsFirst
<1>12. Uncleared'
  <2> SUFFICES ASSUME "cleared" \notin lapses' PROVE OneEach' /\ OwnSends' /\ OwnShown' /\ ResultsAreOwn'
    BY DEF Uncleared
  <2>1. OneEach /\ OwnSends /\ OwnShown /\ ResultsAreOwn /\ "cleared" \notin lapses
    BY <1>1, <1>2 DEF Uncleared
  <2>2. ASSUME NEW k PROVE Out(k)' = Out(k) \cup {Request(t, run) : t \in quiet \cap {k}}
    BY <1>2, <1>8 DEF Out
  <2>3. OneEach'
    <3> SUFFICES ASSUME NEW k \in DOMAIN responding
                 PROVE  IF responding'[k] THEN \E x \in sends' : Out(k)' = {x} ELSE Out(k)' = {}
      BY <1>9 DEF OneEach
    <3>1. CASE k \in quiet
      <4>1. ~responding[k] /\ responding'[k] /\ Request(k, run) \in sends'
        BY <1>2, <1>7, <1>9, <3>1
      <4>2. Out(k) = {}
        BY <2>1, <4>1 DEF OneEach
      <4>3. {Request(t, run) : t \in quiet \cap {k}} = {Request(k, run)}
        BY <3>1
      <4> QED BY <2>2, <4>1, <4>2, <4>3
    <3>2. CASE k \notin quiet
      <4>1. {Request(t, run) : t \in quiet \cap {k}} = {}
        BY <3>2
      <4>2. Out(k)' = Out(k) /\ Out(k) \subseteq sends'
        BY <1>2, <2>2, <4>1 DEF Out
      <4>3. responding'[k] = responding[k]
        <5>1. responding[k] \in BOOLEAN
          BY <1>1 DEF TypeOK
        <5> QED BY <1>9, <3>2, <5>1
      <4> QED BY <2>1, <4>2, <4>3 DEF OneEach
    <3> QED BY <3>1, <3>2
  <2>4. OwnSends'
    <3> SUFFICES ASSUME NEW x \in sends'
                 PROVE  IF x.key = 0 THEN x.here <=> ~batch'
                        ELSE /\ batch' /\ x.here /\ x.run = run'
                             /\ x.key \in WithStatus(tasks', {"running", "failed"})
      BY DEF OwnSends
    <3>1. CASE x \in sends
      BY <1>2, <2>1, <3>1 DEF OwnSends
    <3>2. CASE x \in {Request(t, run) : t \in quiet}
      <4>1. PICK t \in quiet : x = Request(t, run)
        BY <3>2
      <4>2. t # 0 /\ t \in WithStatus(tasks, {"running", "failed"})
        BY <1>3, <1>5, <1>7 DEF WithStatus
      <4> QED BY <1>2, <1>4, <1>8, <4>1, <4>2
    <3> QED BY <1>2, <3>1, <3>2
  <2>5. ResultsAreOwn' /\ OwnShown'
    <3>1. \A t : OwnAnswers(t)' = OwnAnswers(t) /\ run \in OwnAnswers(t)
      BY <1>2 DEF OwnAnswers
    <3> QED BY <1>2, <1>9, <1>14, <2>1, <3>1 DEF ResultsAreOwn, OwnShown
  <2> QED BY <2>3, <2>4, <2>5
<1>13. Unrecounted'
  BY <1>1, <1>2 DEF Unrecounted, Counted
<1> QED BY <1>10, <1>11, <1>12, <1>13 DEF IInv

-----------------------------------------------------------------------------
LEMMA InitIInv == Init => IInv
<1> SUFFICES ASSUME Init PROVE IInv
  OBVIOUS
<1>1. tasks = << >> /\ Len(tasks) = 0 /\ Finished(tasks) = {} /\ Running(tasks) = {}
  BY DEF Init, Finished, Running, WithStatus
<1>2. TypeOK
  <2>1. Panels(tasks, batch) = {0}
    BY DEF Init, Panels
  <2>2. MaxRuns \in Nat /\ MaxRetries \in Nat
    BY IdsAreNumbers, BoundsAssumption
  <2> QED BY <1>1, <2>1, <2>2 DEF Init, TypeOK
<1>3. RunsFirst /\ Uncleared
  BY <1>1 DEF Init, RunsFirst, Uncleared, OneEach, Out, OwnSends, OwnShown, ResultsAreOwn
<1>4. Unrecounted
  BY <1>1, NoneCounted DEF Unrecounted, Counted
<1> QED BY <1>2, <1>3, <1>4 DEF IInv

LEMMA StepIInv == IInv /\ [Next]_vars => IInv'
<1> SUFFICES ASSUME IInv, [Next]_vars PROVE IInv'
  OBVIOUS
<1>1. TypeOK
  BY DEF IInv
<1>2. ASSUME run < MaxRuns, NEW n \in Sizes[run + 1], RunBatch(n) PROVE IInv'
  BY <1>2, RunBatchKeeps
<1>3. CASE RunOnce
  BY <1>3, RunOnceKeeps
<1>4. CASE RetryAll
  BY <1>4, ResendKeeps DEF RetryAll
<1>5. ASSUME NEW t \in DOMAIN tasks, RetryOne(t) PROVE IInv'
  <2>1. {t} \in SUBSET WithStatus(tasks, {"failed"}) /\ {t} # {} /\ Resend({t})
    BY <1>5 DEF RetryOne, WithStatus
  <2>2. retried' \in BOOLEAN
    BY <1>1, <1>5 DEF RetryOne, TypeOK
  <2> QED BY <2>1, <2>2, ResendKeeps
<1>6. ASSUME NEW s \in sends, Succeed(s) \/ Fail(s) \/ TimeOut(s) \/ FailInStream(s) PROVE IInv'
  BY <1>6, EndKeeps
<1>8. ASSUME NEW k \in DOMAIN responding, Write(k) PROVE IInv'
  BY <1>8, WriteKeeps
<1>7. CASE UNCHANGED vars
  BY <1>7 DEF vars, IInv, TypeOK, RunsFirst, Uncleared, OneEach, Out, OwnSends,
              OwnShown, OwnAnswers, ResultsAreOwn, Unrecounted, Counted
<1> QED BY <1>2, <1>3, <1>4, <1>5, <1>6, <1>7, <1>8 DEF Next

(* IInv holds throughout. *)
THEOREM Invariance == Spec => []IInv
BY InitIInv, StepIInv, PTL DEF Spec

(* The panels on the page are those of the list, and as long as no batch    *)
(* was cleared with requests out, a panel responds exactly while one        *)
(* request of its own is out.                                               *)
THEOREM PanelsCorrect == Spec => []PanelsInv
<1>1. ASSUME IInv PROVE PanelsInv
  <2>1. TypeOK
    BY <1>1 DEF IInv
  <2>2. ASSUME "cleared" \notin lapses, NEW k \in DOMAIN responding
        PROVE  Cardinality(Out(k)) = IF responding[k] THEN 1 ELSE 0
    <3>1. OneEach
      BY <1>1, <2>2 DEF IInv, Uncleared
    <3>2. CASE responding[k]
      <4>1. PICK s \in sends : Out(k) = {s}
        BY <2>2, <3>1, <3>2 DEF OneEach
      <4> QED BY <3>2, <4>1, FS_Singleton
    <3>3. CASE ~responding[k]
      <4>1. Out(k) = {}
        BY <2>2, <3>1, <3>3 DEF OneEach
      <4> QED BY <3>3, <4>1, FS_EmptySet
    <3> QED BY <3>2, <3>3
  <2>3. RespondingIsOut
    BY <2>2 DEF RespondingIsOut, Out
  <2> QED BY <2>1, <2>3 DEF PanelsInv
<1> QED BY <1>1, Invariance, PTL

(* A finished task is given the answer to a request of its own batch, or    *)
(* one a timed-out stream of its panel has written, unless a batch was      *)
(* cleared while its requests were out.                                     *)
THEOREM AnswersAreOwn == Spec => []ResultsAreOwn
<1>1. IInv => ResultsAreOwn
  BY DEF IInv, Uncleared, ResultsAreOwn
<1> QED BY <1>1, Invariance, PTL

(* No more tasks run at once than a group has, whatever the sizes of the    *)
(* batch and of the group, unless a task was reported that was not running. *)
THEOREM GroupsStayBounded == Spec => []GroupLimit
<1>1. IInv => GroupLimit
  BY DEF IInv, Unrecounted, Counted, CountedAt, GroupLimit, Running
<1> QED BY <1>1, Invariance, PTL

=============================================================================
