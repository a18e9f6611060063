----------------------- MODULE DocumentIndexingProofs -----------------------
(***************************************************************************)
(* What is proved of DocumentIndexing, for any number of documents, chunks *)
(* and requests.  For any number of workers: the variables have their       *)
(* types, and a segment that is completed can be found as long as no worker *)
(* has died (IInv, Invariance).  For one worker: "completed" and "deleted"  *)
(* are true where the rows say so (Parts and Doom, further down).           *)
(*                                                                         *)
(* Searchable alone is not inductive.  A thread marks its segment some time *)
(* after it has stored the vector, so the same has to hold of the segments  *)
(* between the two (Searchable speaks of both); such a segment must be one  *)
(* the worker holds (Held); and a segment that was deleted meanwhile must   *)
(* never come back, because only segments that nobody else has ever held    *)
(* are added (Unborn).                                                     *)
(***************************************************************************)
EXTENDS DocumentIndexing, TLAPS

Statuses == Unsettled \cup {"completed", "error", "deleted"}
PCs == {"idle", "next", "cleanVectors", "cleanSegs", "reset",
        "purge", "extract", "check", "write", "transform",
        "add", "segStatus", "collect", "load", "groups"}
ReqPCs == {"idle", "pause", "pauseFlag", "recover",
           "recoverFlag", "recoverSend", "retry",
           "retryCommit", "retryFlag", "retrySend", "delete"}
GroupStates == {"out", "queued", "loading", "stored", "done", "paused", "failed"}
Messages == [kind : {"index", "recover", "retry", "clean"}, doc : Docs \cup {NoDoc}]

(* The type invariant in parts: the row and Redis, the segments and their   *)
(* vectors, the workers, the requests.                                      *)
RowTyped ==
  /\ status \in [Docs -> Statuses] /\ isPaused \in [Docs -> BOOLEAN]
  /\ flag \in [Docs -> BOOLEAN] /\ retried \in [Docs -> BOOLEAN]

StoreTyped ==
  segs \in [Segs -> {"none", "waiting", "indexing", "completed"}] /\ vectors \in SUBSET Segs

WorkerTyped ==
  /\ pc \in [Workers -> PCs]
  /\ task \in [Workers -> {"none", "index", "recover", "retry", "clean"}]
  /\ todo \in [Workers -> SUBSET Docs] /\ cur \in [Workers -> Docs \cup {NoDoc}]
  /\ goal \in [Workers -> {"none", "splitting", "indexing", "completed"}]
  /\ mine \in [Workers -> SUBSET Segs] /\ grp \in [Workers -> [Segs -> GroupStates]]

RequestTyped ==
  /\ req \in [Requests -> ReqPCs] /\ on \in [Requests -> Docs \cup {NoDoc}]
  /\ saw \in [Requests -> Statuses \cup {"none", "paused"}]
  /\ ops \in 0..MaxOps

QueueTyped == queue \in Seq(Messages)

HistoryTyped == crashes \in 0..MaxCrashes /\ overtaken \in SUBSET Docs

(* A worker that is about to write a status has one to write. *)
Goals == \A w \in Workers : pc[w] \in {"check", "write"} => goal[w] # "none"

(* A thread between the store and its mark works on a segment of its worker. *)
Held ==
  \A w \in Workers, s \in Segs :
    grp[w][s] = "stored" => pc[w] = "groups" /\ s \in mine[w]

(* A segment that is still to be added has no row, and nobody else has it. *)
Unborn ==
  \A w \in Workers : \A s \in mine[w] :
    pc[w] = "add" /\ grp[w][s] = "out" =>
      /\ segs[s] = "none"
      /\ \A v \in Workers : v # w => s \notin mine[v]

(* Someone has taken the vector of s away and is about to delete its row. *)
Cleaned(s) == \E w \in Workers : pc[w] = "cleanSegs" /\ s \in mine[w]

(* A segment that is completed, or that a thread is about to mark. *)
Due(s) ==
  \/ segs[s] = "completed"
  \/ segs[s] # "none" /\ \E w \in Workers : grp[w][s] = "stored"

Searchable == crashes = 0 => \A s \in Segs : Due(s) => s \in vectors \/ Cleaned(s)

(* The inductive invariant. *)
IInv == TypeOK /\ Goals /\ Held /\ Unborn /\ Searchable

-----------------------------------------------------------------------------
LEMMA TypeParts ==
  TypeOK <=> RowTyped /\ StoreTyped /\ WorkerTyped /\ RequestTyped /\ QueueTyped
                /\ HistoryTyped
BY DEF TypeOK, RowTyped, StoreTyped, WorkerTyped, RequestTyped, QueueTyped, HistoryTyped, history,
       Statuses, PCs, ReqPCs, GroupStates, Messages, Unsettled

LEMMA TypePartsPrimed ==
  TypeOK' <=> RowTyped' /\ StoreTyped' /\ WorkerTyped' /\ RequestTyped' /\ QueueTyped'
                /\ HistoryTyped'
BY DEF TypeOK, RowTyped, StoreTyped, WorkerTyped, RequestTyped, QueueTyped, HistoryTyped, history,
       Statuses, PCs, ReqPCs, GroupStates, Messages, Unsettled

(* A worker whose fields at w are of their types, the others as they were. *)
LEMMA FreeTyped ==
  ASSUME WorkerTyped, NEW w \in Workers, Free(w) PROVE WorkerTyped'
BY DEF WorkerTyped, Free, PCs, GroupStates, Nothing

LEMMA FinishTyped ==
  ASSUME WorkerTyped, NEW w \in Workers, Finish(w) PROVE WorkerTyped'
BY DEF WorkerTyped, Finish, Goto, PCs, GroupStates, Nothing

(* Only the place of the worker changes. *)
LEMMA GotoTyped ==
  ASSUME WorkerTyped, NEW w \in Workers, NEW l \in PCs, Goto(w, l),
         UNCHANGED <<task, todo, cur, goal, mine, grp>>
  PROVE  WorkerTyped'
BY DEF WorkerTyped, Goto

LEMMA AnnounceTyped ==
  ASSUME WorkerTyped, NEW w \in Workers,
         NEW st \in {"splitting", "indexing", "completed"}, Announce(w, st),
         UNCHANGED <<task, todo, cur, mine, grp>>
  PROVE  WorkerTyped'
BY DEF WorkerTyped, Announce, Goto, PCs

LEMMA StatusTyped ==
  ASSUME RowTyped, NEW d, NEW st \in Statuses
  PROVE  SetStatus(d, st) \in [Docs -> Statuses]
BY DEF RowTyped, SetStatus

(* A mark of a document that is reset, unless its row is gone. *)
LEMMA ResetTyped ==
  ASSUME NEW f \in [Docs -> BOOLEAN], NEW d
  PROVE  [f EXCEPT ![d] = Gone(d) /\ @] \in [Docs -> BOOLEAN]
<1>1. \A e \in Docs : [f EXCEPT ![d] = Gone(d) /\ @][e] \in BOOLEAN
  OBVIOUS
<1> QED BY <1>1

(* The steps out of the runner: into an error, out of a pause, past a row   *)
(* that is gone.                                                            *)
LEMMA OutTyped ==
  ASSUME TypeOK, NEW w \in Workers, ErrorOut(w) \/ PausedOut(w) \/ Skip(w)
  PROVE  TypeOK'
<1> USE TypeParts, TypePartsPrimed
<1>1. CASE ErrorOut(w)
  <2>1. RowTyped'
    BY <1>1, StatusTyped DEF ErrorOut, RowTyped, redis, Statuses, Unsettled
  <2>2. WorkerTyped'
    BY <1>1, FreeTyped, FinishTyped DEF ErrorOut
  <2> QED BY <1>1, <2>1, <2>2
       DEF ErrorOut, StoreTyped, stored, RequestTyped, request, QueueTyped, HistoryTyped, history
<1>2. CASE PausedOut(w)
  <2>1. RowTyped'
    <3>1. status' \in [Docs -> Statuses]
      BY <1>2, StatusTyped DEF PausedOut, RowTyped, Statuses
    <3>2. retried' \in [Docs -> BOOLEAN]
      BY <1>2, ResetTyped DEF PausedOut, RowTyped
    <3> QED BY <1>2, <3>1, <3>2 DEF PausedOut, RowTyped
  <2>2. WorkerTyped'
    BY <1>2, FreeTyped DEF PausedOut
  <2> QED BY <1>2, <2>1, <2>2
       DEF PausedOut, StoreTyped, stored, RequestTyped, request, QueueTyped, HistoryTyped, history
<1>3. CASE Skip(w)
  <2>1. WorkerTyped'
    BY <1>3, FinishTyped DEF Skip
  <2> QED BY <1>3, <2>1
       DEF Skip, RowTyped, row, redis, StoreTyped, stored, RequestTyped, request, QueueTyped,
           HistoryTyped, history
<1> QED BY <1>1, <1>2, <1>3

-----------------------------------------------------------------------------
(* Every step keeps the types: the worker takes a task ...                  *)

LEMMA HeadTyped ==
  ASSUME QueueTyped, queue # << >>
  PROVE  Head(queue) \in Messages /\ Tail(queue) \in Seq(Messages)
BY DEF QueueTyped

LEMMA BeginTyped ==
  ASSUME WorkerTyped, QueueTyped, queue # << >>, NEW w \in Workers,
         NEW k \in {"index", "recover", "retry", "clean"},
         NEW d \in Docs \cup {NoDoc}, NEW l \in PCs, Begin(w, k, d, l),
         todo' \in [Workers -> SUBSET Docs], mine' \in [Workers -> SUBSET Segs]
  PROVE  WorkerTyped' /\ QueueTyped'
<1>1. QueueTyped'
  BY HeadTyped DEF Begin, QueueTyped
<1>2. WorkerTyped'
  BY DEF Begin, WorkerTyped, Goto
<1> QED BY <1>1, <1>2

LEMMA TakeTyped ==
  ASSUME TypeOK, NEW w \in Workers,
         TakeIndex(w) \/ RefuseIndex(w) \/ TakeRecover(w) \/ RefuseRetry(w)
           \/ \E k \in {"retry", "clean"} : TakeClean(w, k)
  PROVE  TypeOK'
<1> USE TypeParts, TypePartsPrimed
<1>1. queue # << >> /\ Head(queue) \in Messages /\ Tail(queue) \in Seq(Messages)
  BY HeadTyped DEF TakeIndex, RefuseIndex, TakeRecover, RefuseRetry, TakeClean, Waiting
<1>2. Head(queue).doc \in Docs \cup {NoDoc}
  BY <1>1 DEF Messages
<1>3. CASE TakeIndex(w)
  <2>1. RowTyped'
    BY <1>3 DEF TakeIndex, RowTyped, redis, Statuses, Unsettled
  <2>2. todo' \in [Workers -> SUBSET Docs] /\ mine' \in [Workers -> SUBSET Segs]
    BY <1>3 DEF TakeIndex, WorkerTyped
  <2>3. Begin(w, "index", NoDoc, "next")
    BY <1>3 DEF TakeIndex
  <2>4. WorkerTyped' /\ QueueTyped'
    BY <1>1, <2>2, <2>3, BeginTyped DEF PCs
  <2> QED BY <1>3, <2>1, <2>4
       DEF TakeIndex, StoreTyped, stored, RequestTyped, request, HistoryTyped, history
<1>4. CASE RefuseIndex(w)
  <2>1. RowTyped'
    BY <1>4 DEF RefuseIndex, RowTyped, redis, Statuses, Unsettled
  <2>2. QueueTyped'
    BY <1>1, <1>4 DEF RefuseIndex, QueueTyped
  <2> QED BY <1>4, <2>1, <2>2
       DEF RefuseIndex, StoreTyped, stored, RequestTyped, request, HistoryTyped, history, WorkerTyped, worker
<1>5. CASE TakeRecover(w)
  <2>1. todo' \in [Workers -> SUBSET Docs] /\ mine' \in [Workers -> SUBSET Segs]
    BY <1>5 DEF TakeRecover, WorkerTyped
  <2>2. ResumeAt(status[Head(queue).doc]) \in PCs
    BY DEF ResumeAt, PCs
  <2>3. Begin(w, "recover", Head(queue).doc, ResumeAt(status[Head(queue).doc]))
    BY <1>5 DEF TakeRecover
  <2>4. WorkerTyped' /\ QueueTyped'
    BY <1>1, <1>2, <2>1, <2>2, <2>3, BeginTyped
  <2> QED BY <1>5, <2>4
       DEF TakeRecover, RowTyped, row, redis, StoreTyped, stored, RequestTyped, request,
           HistoryTyped, history
<1>6. CASE RefuseRetry(w)
  <2>1. status' \in [Docs -> Statuses]
    BY <1>6, StatusTyped DEF RefuseRetry, RowTyped, Statuses
  <2>2. RowTyped'
    BY <1>6, <2>1 DEF RefuseRetry, RowTyped
  <2>3. QueueTyped'
    BY <1>1, <1>6 DEF RefuseRetry, QueueTyped
  <2> QED BY <1>6, <2>2, <2>3
       DEF RefuseRetry, StoreTyped, stored, RequestTyped, request, HistoryTyped, history, WorkerTyped,
           worker
<1>7. ASSUME NEW k \in {"retry", "clean"}, TakeClean(w, k) PROVE TypeOK'
  <2>1. todo' \in [Workers -> SUBSET Docs] /\ mine' \in [Workers -> SUBSET Segs]
    BY <1>7 DEF TakeClean, WorkerTyped, SegsOf
  <2>2. Begin(w, k, Head(queue).doc, "cleanVectors")
    BY <1>7 DEF TakeClean
  <2>3. WorkerTyped' /\ QueueTyped'
    BY <1>1, <1>2, <2>1, <2>2, BeginTyped DEF PCs
  <2> QED BY <1>7, <2>3
       DEF TakeClean, RowTyped, row, redis, StoreTyped, stored, RequestTyped, request,
           HistoryTyped, history
<1> QED BY <1>3, <1>4, <1>5, <1>6, <1>7

(* ... cleans ...                                                           *)
LEMMA CleanTyped ==
  ASSUME TypeOK, NEW w \in Workers,
         CleanVectors(w) \/ CleanFails(w) \/ CleanSegs(w) \/ Reset(w)
  PROVE  TypeOK'
<1> USE TypeParts, TypePartsPrimed
<1>1. CASE CleanVectors(w)
  <2>1. WorkerTyped'
    BY <1>1, GotoTyped DEF CleanVectors, PCs
  <2> QED BY <1>1, <2>1
       DEF CleanVectors, RowTyped, row, redis, StoreTyped, RequestTyped, request, QueueTyped,
           HistoryTyped, history
<1>2. CASE CleanFails(w)
  <2>1. status' \in [Docs -> Statuses]
    BY <1>2, StatusTyped DEF CleanFails, RowTyped, Statuses
  <2>2. retried' \in [Docs -> BOOLEAN]
    BY <1>2, ResetTyped DEF CleanFails, RowTyped
  <2>3. RowTyped'
    BY <1>2, <2>1, <2>2 DEF CleanFails, RowTyped
  <2>4. WorkerTyped'
    BY <1>2, FreeTyped DEF CleanFails
  <2> QED BY <1>2, <2>3, <2>4
       DEF CleanFails, StoreTyped, stored, RequestTyped, request, QueueTyped, HistoryTyped, history
<1>3. CASE CleanSegs(w)
  <2>1. WorkerTyped'
    <3>1. CASE task[w] = "retry"
      BY <1>3, <3>1 DEF CleanSegs, WorkerTyped, Goto, PCs
    <3>2. CASE task[w] # "retry"
      BY <1>3, <3>2, FreeTyped DEF CleanSegs
    <3> QED BY <3>1, <3>2
  <2>2. StoreTyped'
    BY <1>3 DEF CleanSegs, StoreTyped
  <2> QED BY <1>3, <2>1, <2>2
       DEF CleanSegs, RowTyped, row, redis, RequestTyped, request, QueueTyped, HistoryTyped, history
<1>4. CASE Reset(w)
  <2>1. WorkerTyped'
    BY <1>4, FreeTyped, GotoTyped DEF Reset, PCs
  <2>2. RowTyped'
    BY <1>4 DEF Reset, RowTyped, redis, Statuses, Unsettled
  <2> QED BY <1>4, <2>1, <2>2
       DEF Reset, StoreTyped, stored, RequestTyped, request, QueueTyped, HistoryTyped, history
<1> QED BY <1>1, <1>2, <1>3, <1>4

(* ... goes from one document and one status to the next ...                *)
LEMMA RunnerTyped ==
  ASSUME TypeOK, Goals, NEW w \in Workers,
         (\E d \in Docs : NextDoc(w, d)) \/ EndTask(w) \/ Purge(w) \/ Extract(w) \/ Fails(w)
           \/ CheckDocument(w) \/ WriteStatus(w)
  PROVE  TypeOK'
<1> USE TypeParts, TypePartsPrimed
<1>1. ASSUME NEW d \in Docs, NextDoc(w, d) PROVE TypeOK'
  <2>1. WorkerTyped'
    BY <1>1 DEF NextDoc, WorkerTyped, Goto, PCs
  <2> QED BY <1>1, <2>1
       DEF NextDoc, RowTyped, row, redis, StoreTyped, stored, RequestTyped, request, QueueTyped,
           HistoryTyped, history
<1>2. CASE EndTask(w)
  <2>1. RowTyped'
    BY <1>2 DEF EndTask, RowTyped, row
  <2>2. WorkerTyped'
    BY <1>2, FreeTyped DEF EndTask
  <2> QED BY <1>2, <2>1, <2>2
       DEF EndTask, StoreTyped, stored, RequestTyped, request, QueueTyped, HistoryTyped, history
<1>3. CASE Purge(w)
  <2>1. WorkerTyped'
    BY <1>3, GotoTyped DEF Purge, PCs
  <2>2. StoreTyped'
    BY <1>3 DEF Purge, StoreTyped
  <2> QED BY <1>3, <2>1, <2>2
       DEF Purge, RowTyped, row, redis, RequestTyped, request, QueueTyped, HistoryTyped, history
<1>4. CASE Extract(w)
  <2>1. WorkerTyped'
    BY <1>4, AnnounceTyped DEF Extract
  <2> QED BY <1>4, <2>1
       DEF Extract, RowTyped, row, redis, StoreTyped, stored, RequestTyped, request, QueueTyped,
           HistoryTyped, history
<1>5. CASE Fails(w)
  BY <1>5, OutTyped DEF Fails
<1>6. CASE CheckDocument(w)
  <2>1. CASE Gone(cur[w]) \/ isPaused[cur[w]]
    BY <1>6, <2>1, OutTyped DEF CheckDocument
  <2>2. CASE ~Gone(cur[w]) /\ ~isPaused[cur[w]]
    <3>1. WorkerTyped'
      BY <1>6, <2>2, GotoTyped DEF CheckDocument, PCs
    <3> QED BY <1>6, <2>2, <3>1
         DEF CheckDocument, RowTyped, row, redis, StoreTyped, stored, RequestTyped, request,
             QueueTyped, HistoryTyped, history
  <2> QED BY <2>1, <2>2
<1>7. CASE WriteStatus(w)
  <2>1. goal[w] \in {"splitting", "indexing", "completed"}
    BY <1>7 DEF WriteStatus, Goals, WorkerTyped
  <2>2. status' \in [Docs -> Statuses]
    BY <1>7, <2>1, StatusTyped DEF WriteStatus, Statuses, Unsettled
  <2>3. RowTyped'
    BY <1>7, <2>2 DEF WriteStatus, RowTyped, redis
  <2>4. WorkerTyped'
    BY <1>7, <2>1, GotoTyped, FinishTyped DEF WriteStatus, PCs
  <2> QED BY <1>7, <2>3, <2>4
       DEF WriteStatus, StoreTyped, stored, RequestTyped, request, QueueTyped, HistoryTyped, history
<1> QED BY <1>1, <1>2, <1>3, <1>4, <1>5, <1>6, <1>7

LEMMA TransformIsFresh ==
  ASSUME NEW w \in Workers, Transform(w), ~Gone(cur[w])
  PROVE  \E g \in FreshGens :
           mine' = [mine EXCEPT ![w] = {s \in Segs : s[1] = g /\ DocOf[s[2]] = cur[w]}]
<1> DEFINE g == CHOOSE h \in FreshGens : TRUE
<1>1. g \in FreshGens
  BY DEF Transform
<1>2. mine' = [mine EXCEPT ![w] = {s \in Segs : s[1] = g /\ DocOf[s[2]] = cur[w]}]
  BY DEF Transform
<1> QED BY <1>1, <1>2

(* ... splits, adds and collects segments ...                               *)
LEMMA SplitTyped ==
  ASSUME TypeOK, NEW w \in Workers,
         Transform(w) \/ (\E s \in Segs : AddSegment(w, s)) \/ Added(w) \/ SegmentStatus(w)
           \/ Collect(w) \/ Load(w)
  PROVE  TypeOK'
<1> USE TypeParts, TypePartsPrimed
<1>1. CASE Transform(w)
  <2>1. CASE Gone(cur[w])
    BY <1>1, <2>1, OutTyped DEF Transform
  <2>2. CASE ~Gone(cur[w])
    <3>1. PICK g \in FreshGens :
            mine' = [mine EXCEPT ![w] = {s \in Segs : s[1] = g /\ DocOf[s[2]] = cur[w]}]
      BY <1>1, <2>2, TransformIsFresh
    <3>2. WorkerTyped'
      BY <1>1, <2>2, <3>1 DEF Transform, WorkerTyped, Goto, PCs
    <3> QED BY <1>1, <2>2, <3>2
         DEF Transform, RowTyped, row, redis, StoreTyped, stored, RequestTyped, request,
             QueueTyped, HistoryTyped, history
  <2> QED BY <2>1, <2>2
<1>2. ASSUME NEW s \in Segs, AddSegment(w, s) PROVE TypeOK'
  <2>1. WorkerTyped'
    BY <1>2 DEF AddSegment, WorkerTyped, GroupStates
  <2>2. StoreTyped'
    BY <1>2 DEF AddSegment, StoreTyped
  <2> QED BY <1>2, <2>1, <2>2
       DEF AddSegment, RowTyped, row, redis, RequestTyped, request, QueueTyped, HistoryTyped, history
<1>3. CASE Added(w)
  <2>1. CASE Skip(w)
    BY <2>1, OutTyped
  <2>2. CASE ~Skip(w)
    <3>1. WorkerTyped'
      BY <1>3, <2>2, AnnounceTyped DEF Added
    <3> QED BY <1>3, <2>2, <3>1
       DEF Added, RowTyped, row, redis, StoreTyped, stored, RequestTyped, request, QueueTyped,
           HistoryTyped, history
  <2> QED BY <2>1, <2>2
<1>4. CASE SegmentStatus(w)
  <2>1. WorkerTyped'
    BY <1>4, GotoTyped DEF SegmentStatus, PCs
  <2>2. StoreTyped'
    BY <1>4 DEF SegmentStatus, StoreTyped
  <2> QED BY <1>4, <2>1, <2>2
       DEF SegmentStatus, RowTyped, row, redis, RequestTyped, request, QueueTyped, HistoryTyped, history
<1>5. CASE Collect(w)
  <2>1. mine' \in [Workers -> SUBSET Segs]
    BY <1>5 DEF Collect, WorkerTyped, SegsOf
  <2>2. [s \in Segs |-> IF s \in mine'[w] THEN "queued" ELSE "out"] \in [Segs -> GroupStates]
    BY DEF GroupStates
  <2>3. grp' \in [Workers -> [Segs -> GroupStates]]
    BY <1>5, <2>2 DEF Collect, WorkerTyped
  <2>4. WorkerTyped'
    BY <1>5, <2>1, <2>3 DEF Collect, WorkerTyped, Goto, PCs
  <2> QED BY <1>5, <2>4
       DEF Collect, RowTyped, row, redis, StoreTyped, stored, RequestTyped, request, QueueTyped,
           HistoryTyped, history
<1>6. CASE Load(w)
  <2>1. CASE Gone(cur[w])
    BY <1>6, <2>1, OutTyped DEF Load
  <2>2. CASE ~Gone(cur[w])
    <3>1. WorkerTyped'
      BY <1>6, <2>2, GotoTyped DEF Load, PCs
    <3> QED BY <1>6, <2>2, <3>1
         DEF Load, RowTyped, row, redis, StoreTyped, stored, RequestTyped, request, QueueTyped,
             HistoryTyped, history
  <2> QED BY <2>1, <2>2
<1> QED BY <1>1, <1>2, <1>3, <1>4, <1>5, <1>6

(* ... and works with its pool, or dies.                                    *)
LEMMA GroupTyped ==
  ASSUME TypeOK, NEW w \in Workers, NEW s \in Segs, NEW a, NEW b \in GroupStates,
         Group(w, s, a, b), StoreTyped'
  PROVE  TypeOK'
<1> USE TypeParts, TypePartsPrimed
<1>1. WorkerTyped'
  BY DEF Group, WorkerTyped
<1> QED BY <1>1
     DEF Group, RowTyped, row, redis, RequestTyped, request, QueueTyped, HistoryTyped, history

LEMMA PoolTyped ==
  ASSUME TypeOK, NEW w \in Workers,
         \/ \E s \in Segs : \/ GroupCheck(w, s) \/ GroupFails(w, s)
                            \/ GroupLoad(w, s) \/ GroupMark(w, s)
         \/ Join(w) \/ Crash(w)
  PROVE  TypeOK'
<1> USE TypeParts, TypePartsPrimed
<1>1. ASSUME NEW s \in Segs, GroupCheck(w, s) PROVE TypeOK'
  BY <1>1, GroupTyped DEF GroupCheck, GroupStates, StoreTyped, stored, history
<1>2. ASSUME NEW s \in Segs, GroupFails(w, s) PROVE TypeOK'
  BY <1>2, GroupTyped DEF GroupFails, GroupStates, StoreTyped, stored, history
<1>3. ASSUME NEW s \in Segs, GroupLoad(w, s) PROVE TypeOK'
  BY <1>3, GroupTyped DEF GroupLoad, GroupStates, StoreTyped
<1>4. ASSUME NEW s \in Segs, GroupMark(w, s) PROVE TypeOK'
  BY <1>4, GroupTyped DEF GroupMark, GroupStates, StoreTyped
<1>5. CASE Join(w)
  <2>1. CASE PausedOut(w) \/ ErrorOut(w)
    BY <2>1, OutTyped
  <2>2. CASE /\ Announce(w, "completed")
             /\ UNCHANGED <<row, redis, stored, queue, task, todo, cur, mine, grp, request,
                            history>>
    <3>1. WorkerTyped'
      BY <2>2, AnnounceTyped
    <3> QED BY <2>2, <3>1
         DEF RowTyped, row, redis, StoreTyped, stored, RequestTyped, request, QueueTyped,
             HistoryTyped, history
  <2> QED BY <1>5, <2>1, <2>2 DEF Join
<1>6. CASE Crash(w)
  <2>1. WorkerTyped'
    BY <1>6, FreeTyped DEF Crash
  <2>2. HistoryTyped'
    BY <1>6, BoundsAssumption DEF Crash, HistoryTyped, history
  <2> QED BY <1>6, <2>1, <2>2
       DEF Crash, RowTyped, row, redis, StoreTyped, stored, history, RequestTyped, request, QueueTyped
<1> QED BY <1>1, <1>2, <1>3, <1>4, <1>5, <1>6

-----------------------------------------------------------------------------
(* Requests.                                                                *)

(* What every step of a request leaves as it is: the segments, the vectors, *)
(* the workers and their crashes.                                           *)
Apart == UNCHANGED <<stored, worker, history>>

LEMMA LeaveTyped ==
  ASSUME RequestTyped, NEW r \in Requests, Leave(r) PROVE RequestTyped'
BY DEF RequestTyped, Leave, ReqPCs, Statuses

LEMMA ArriveTyped ==
  ASSUME RequestTyped, NEW r \in Requests, NEW d \in Docs, NEW l \in ReqPCs, Arrive(r, d, l),
         saw' \in [Requests -> Statuses \cup {"none", "paused"}]
  PROVE  RequestTyped'
<1>1. ops' \in 0..MaxOps
  <2>1. MaxOps \in Nat
    BY BoundsAssumption
  <2> QED BY <2>1 DEF RequestTyped, Arrive
<1>2. req' \in [Requests -> ReqPCs] /\ on' \in [Requests -> Docs \cup {NoDoc}]
  BY DEF RequestTyped, Arrive
<1> QED BY <1>1, <1>2 DEF RequestTyped

LEMMA StepTyped ==
  ASSUME RequestTyped, NEW r \in Requests, NEW from, NEW to \in ReqPCs, Step(r, from, to)
  PROVE  RequestTyped'
BY DEF RequestTyped, Step

LEMMA SendTyped ==
  ASSUME QueueTyped, NEW k \in {"index", "recover", "retry", "clean"},
         NEW d \in Docs \cup {NoDoc}, queue' = Append(queue, Message(k, d))
  PROVE  QueueTyped'
<1>1. Message(k, d) \in Messages
  BY DEF Message, Messages
<1> QED BY <1>1 DEF QueueTyped

LEMMA AskTyped ==
  ASSUME TypeOK, NEW r \in Requests, NEW d \in Docs, Ask(r, d)
  PROVE  TypeOK' /\ Apart
<1> USE TypeParts, TypePartsPrimed
<1>1. ASSUME NEW l \in ReqPCs, Arrive(r, d, l), RequestTyped', QueueTyped'
      PROVE  TypeOK' /\ Apart
  BY <1>1 DEF Arrive, Apart, RowTyped, row, redis, StoreTyped, stored, WorkerTyped, worker,
              HistoryTyped, history
<1>2. CASE PauseRead(r, d)
  <2>1. RequestTyped'
    BY <1>2, ArriveTyped DEF PauseRead, ReqPCs, RequestTyped, Statuses
  <2> QED BY <1>1, <1>2, <2>1 DEF PauseRead, QueueTyped, ReqPCs
<1>3. CASE RecoverRead(r, d)
  <2>1. RequestTyped'
    BY <1>3, ArriveTyped DEF RecoverRead, ReqPCs, RequestTyped
  <2> QED BY <1>1, <1>3, <2>1 DEF RecoverRead, QueueTyped, ReqPCs
<1>4. CASE RetryRead(r, d)
  <2>1. RequestTyped'
    BY <1>4, ArriveTyped DEF RetryRead, ReqPCs, RequestTyped, RowTyped
  <2> QED BY <1>1, <1>4, <2>1 DEF RetryRead, QueueTyped, ReqPCs
<1>5. CASE DeleteSend(r, d)
  <2>1. RequestTyped'
    BY <1>5, ArriveTyped DEF DeleteSend, ReqPCs, RequestTyped
  <2>2. QueueTyped'
    BY <1>5, SendTyped DEF DeleteSend
  <2> QED BY <1>1, <1>5, <2>1, <2>2 DEF DeleteSend, ReqPCs
<1> QED BY <1>2, <1>3, <1>4, <1>5 DEF Ask

LEMMA ProceedTyped ==
  ASSUME TypeOK, NEW r \in Requests, Proceed(r)
  PROVE  TypeOK' /\ Apart
<1> USE TypeParts, TypePartsPrimed
<1>1. ASSUME RowTyped', RequestTyped', QueueTyped', Apart
      PROVE  TypeOK' /\ Apart
  BY <1>1 DEF Apart, StoreTyped, stored, WorkerTyped, worker, HistoryTyped, history
<1>2. on[r] \in Docs \cup {NoDoc}
  BY DEF RequestTyped
<1>3. CASE PauseCommit(r)
  <2>1. RequestTyped'
    BY <1>3, LeaveTyped, StepTyped DEF PauseCommit, ReqPCs
  <2>2. isPaused' \in [Docs -> BOOLEAN]
    BY <1>3 DEF PauseCommit, RowTyped
  <2> QED BY <1>1, <1>3, <2>1, <2>2 DEF PauseCommit, RowTyped, redis, QueueTyped, Apart, history
<1>4. CASE PauseFlag(r)
  <2>1. RequestTyped'
    BY <1>4, LeaveTyped DEF PauseFlag
  <2>2. flag' \in [Docs -> BOOLEAN]
    BY <1>4 DEF PauseFlag, RowTyped
  <2> QED BY <1>1, <1>4, <2>1, <2>2 DEF PauseFlag, RowTyped, row, QueueTyped, Apart, history
<1>5. CASE RecoverCommit(r)
  <2>1. RequestTyped'
    BY <1>5, LeaveTyped, StepTyped DEF RecoverCommit, ReqPCs
  <2>2. isPaused' \in [Docs -> BOOLEAN]
    BY <1>5 DEF RecoverCommit, RowTyped
  <2> QED BY <1>1, <1>5, <2>1, <2>2 DEF RecoverCommit, RowTyped, redis, QueueTyped, Apart, history
<1>6. CASE RecoverFlag(r)
  <2>1. RequestTyped'
    BY <1>6, LeaveTyped, StepTyped DEF RecoverFlag, ReqPCs
  <2>2. flag' \in [Docs -> BOOLEAN]
    BY <1>6, ResetTyped DEF RecoverFlag, RowTyped
  <2> QED BY <1>1, <1>6, <2>1, <2>2 DEF RecoverFlag, RowTyped, row, QueueTyped, Apart, history
<1>7. CASE RecoverSend(r)
  <2>1. RequestTyped'
    BY <1>7, LeaveTyped DEF RecoverSend
  <2>2. QueueTyped'
    BY <1>2, <1>7, SendTyped DEF RecoverSend
  <2> QED BY <1>1, <1>7, <2>1, <2>2 DEF RecoverSend, RowTyped, row, redis, Apart, history
<1>8. CASE RetryCheck(r)
  <2>1. RequestTyped'
    BY <1>8, LeaveTyped, StepTyped DEF RetryCheck, ReqPCs
  <2> QED BY <1>1, <1>8, <2>1 DEF RetryCheck, RowTyped, row, redis, QueueTyped, Apart, history
<1>9. CASE RetryCommit(r)
  <2>1. RequestTyped'
    BY <1>9, LeaveTyped, StepTyped DEF RetryCommit, ReqPCs
  <2>2. status' \in [Docs -> Statuses]
    BY <1>9, StatusTyped DEF RetryCommit, RowTyped, Statuses, Unsettled
  <2> QED BY <1>1, <1>9, <2>1, <2>2 DEF RetryCommit, RowTyped, redis, QueueTyped, Apart, history
<1>10. CASE RetryFlag(r)
  <2>1. RequestTyped'
    BY <1>10, StepTyped DEF RetryFlag, ReqPCs
  <2> QED BY <1>1, <1>10, <2>1 DEF RetryFlag, RowTyped, row, QueueTyped, Apart, history
<1>11. CASE RetrySend(r)
  <2>1. RequestTyped'
    BY <1>11, LeaveTyped DEF RetrySend
  <2>2. QueueTyped'
    BY <1>2, <1>11, SendTyped DEF RetrySend, QueueTyped
  <2> QED BY <1>1, <1>11, <2>1, <2>2 DEF RetrySend, RowTyped, row, redis, Apart, history
<1>12. CASE DeleteRow(r)
  <2>1. RequestTyped'
    BY <1>12, LeaveTyped DEF DeleteRow
  <2> QED BY <1>1, <1>12, <2>1 DEF DeleteRow, RowTyped, redis, QueueTyped, Apart, history, Statuses
<1> QED BY <1>3, <1>4, <1>5, <1>6, <1>7, <1>8, <1>9, <1>10, <1>11, <1>12 DEF Proceed

LEMMA ExpiryTyped ==
  ASSUME TypeOK, NEW d \in Docs, RetriedExpires(d)
  PROVE  TypeOK' /\ Apart
BY DEF TypeOK, RetriedExpires, row, stored, history, worker, request, Apart

-----------------------------------------------------------------------------
(* Most steps of a worker are calm: they write neither a segment nor a      *)
(* vector, take up segments with a row at most, and bring no thread between *)
(* the store and its mark.                                                  *)

Others(w) ==
  \A v \in Workers : v # w =>
    pc'[v] = pc[v] /\ goal'[v] = goal[v] /\ mine'[v] = mine[v] /\ grp'[v] = grp[v]

Calm(w) ==
  /\ UNCHANGED <<segs, vectors, crashes>> /\ Others(w)
  /\ pc[w] # "cleanSegs" /\ pc'[w] # "add"
  /\ pc'[w] \in {"check", "write"} => goal'[w] # "none"
  /\ \A s \in mine'[w] : s \in mine[w] \/ Exists(s)
  /\ \A s \in Segs : grp'[w][s] = "stored" =>
        grp[w][s] = "stored" /\ pc'[w] = "groups" /\ s \in mine'[w]

LEMMA CalmKeeps ==
  ASSUME IInv, NEW w \in Workers, Calm(w)
  PROVE  Goals' /\ Held' /\ Unborn' /\ Searchable'
<1>1. Goals'
  BY DEF Calm, Others, Goals, IInv
<1>2. Held'
  BY DEF Calm, Others, Held, IInv
<1>3. Unborn'
  <2> SUFFICES ASSUME NEW v \in Workers, NEW s \in mine'[v], pc'[v] = "add",
                      grp'[v][s] = "out"
               PROVE  segs'[s] = "none" /\ \A u \in Workers : u # v => s \notin mine'[u]
    BY DEF Unborn
  <2>1. v # w /\ s \in mine[v] /\ pc[v] = "add" /\ grp[v][s] = "out"
    BY DEF Calm, Others
  <2>2. segs[s] = "none" /\ \A u \in Workers : u # v => s \notin mine[u]
    BY <2>1 DEF Unborn, IInv
  <2> QED BY <2>1, <2>2 DEF Calm, Others, Exists
<1>4. Searchable'
  <2> SUFFICES ASSUME crashes' = 0, NEW s \in Segs, Due(s)'
               PROVE  s \in vectors' \/ Cleaned(s)'
    BY DEF Searchable
  <2>1. Due(s)
    BY DEF Due, Calm, Others
  <2>2. s \in vectors \/ Cleaned(s)
    BY <2>1 DEF Searchable, IInv, Calm
  <2>3. ASSUME Cleaned(s) PROVE Cleaned(s)'
    <3>1. PICK v \in Workers : pc[v] = "cleanSegs" /\ s \in mine[v]
      BY <2>3 DEF Cleaned
    <3>2. v # w /\ pc'[v] = "cleanSegs" /\ s \in mine'[v]
      BY <3>1 DEF Calm, Others
    <3> QED BY <3>2 DEF Cleaned
  <2> QED BY <2>2, <2>3 DEF Calm
<1> QED BY <1>1, <1>2, <1>3, <1>4

(* What becomes of the worker when it is free, when a document is dealt     *)
(* with, and when it only goes on.                                          *)
LEMMA FreeLeaves ==
  ASSUME WorkerTyped, NEW w \in Workers, Free(w)
  PROVE  /\ Others(w) /\ pc'[w] = "idle" /\ mine'[w] = {}
         /\ \A s \in Segs : grp'[w][s] = "out"
BY DEF WorkerTyped, Free, Others, Nothing

LEMMA FinishLeaves ==
  ASSUME WorkerTyped, NEW w \in Workers, Finish(w)
  PROVE  /\ Others(w) /\ pc'[w] = "next" /\ mine'[w] = {}
         /\ \A s \in Segs : grp'[w][s] = "out"
BY DEF WorkerTyped, Finish, Goto, Others, Nothing

LEMMA GotoLeaves ==
  ASSUME WorkerTyped, NEW w \in Workers, NEW l, Goto(w, l), UNCHANGED <<goal, mine, grp>>
  PROVE  /\ Others(w) /\ pc'[w] = l /\ goal'[w] = goal[w] /\ mine'[w] = mine[w]
         /\ grp'[w] = grp[w]
BY DEF WorkerTyped, Goto, Others

LEMMA AnnounceLeaves ==
  ASSUME WorkerTyped, NEW w \in Workers, NEW st, Announce(w, st), UNCHANGED <<mine, grp>>
  PROVE  /\ Others(w) /\ pc'[w] = "check" /\ goal'[w] = st /\ mine'[w] = mine[w]
         /\ grp'[w] = grp[w]
BY DEF WorkerTyped, Announce, Goto, Others

(* A worker that goes on from a place without threads is calm. *)
LEMMA GoesOnCalmly ==
  ASSUME Held, WorkerTyped, NEW w \in Workers, NEW l \in PCs, Goto(w, l),
         UNCHANGED <<goal, mine, grp, segs, vectors, crashes>>,
         pc[w] \notin {"cleanSegs", "groups"}, l # "add",
         l \in {"check", "write"} => goal[w] # "none"
  PROVE  Calm(w)
BY GotoLeaves DEF Calm, Held

LEMMA FreeCalmly ==
  ASSUME WorkerTyped, NEW w \in Workers, Free(w), pc[w] # "cleanSegs",
         UNCHANGED <<segs, vectors, crashes>>
  PROVE  Calm(w)
BY FreeLeaves DEF Calm

LEMMA FinishCalmly ==
  ASSUME WorkerTyped, NEW w \in Workers, Finish(w), pc[w] # "cleanSegs",
         UNCHANGED <<segs, vectors, crashes>>
  PROVE  Calm(w)
BY FinishLeaves DEF Calm

LEMMA OutCalmly ==
  ASSUME WorkerTyped, NEW w \in Workers, ErrorOut(w) \/ PausedOut(w) \/ Skip(w),
         pc[w] # "cleanSegs"
  PROVE  Calm(w)
BY FreeCalmly, FinishCalmly DEF ErrorOut, PausedOut, Skip, stored, history

LEMMA TakeCalmly ==
  ASSUME IInv, NEW w \in Workers,
         TakeIndex(w) \/ TakeRecover(w) \/ \E k \in {"retry", "clean"} : TakeClean(w, k)
  PROVE  Calm(w)
<1>1. WorkerTyped /\ Held
  BY TypeParts DEF IInv
<1>2. CASE TakeIndex(w)
  BY <1>1, <1>2, GoesOnCalmly DEF TakeIndex, Begin, Waiting, stored, history, PCs
<1>3. CASE TakeRecover(w)
  <2>1. ResumeAt(status[Head(queue).doc]) \in {"extract", "purge", "collect", "next"}
    BY DEF ResumeAt
  <2> QED BY <1>1, <1>3, <2>1, GoesOnCalmly DEF TakeRecover, Begin, Waiting, stored, history, PCs
<1>4. ASSUME NEW k \in {"retry", "clean"}, TakeClean(w, k) PROVE Calm(w)
  <2>1. pc[w] = "idle" /\ Goto(w, "cleanVectors") /\ UNCHANGED <<goal, grp, stored, crashes>>
    BY <1>4 DEF TakeClean, Begin, Waiting, history
  <2>2. /\ \A v \in Workers : v # w => mine'[v] = mine[v]
        /\ \A s \in mine'[w] : Exists(s)
    BY <1>1, <1>4 DEF TakeClean, WorkerTyped, SegsOf
  <2>3. Others(w) /\ pc'[w] = "cleanVectors" /\ grp'[w] = grp[w]
    BY <1>1, <2>1, <2>2 DEF Others, WorkerTyped, Goto
  <2> QED BY <1>1, <2>1, <2>2, <2>3 DEF Calm, Held, stored, history
<1> QED BY <1>2, <1>3, <1>4

LEMMA WorkCalmly ==
  ASSUME IInv, NEW w \in Workers,
         \/ CleanFails(w) \/ Reset(w) \/ (\E d \in Docs : NextDoc(w, d)) \/ EndTask(w)
         \/ Extract(w) \/ Fails(w) \/ CheckDocument(w) \/ WriteStatus(w)
         \/ Added(w) \/ Collect(w) \/ Load(w)
  PROVE  Calm(w)
<1>1. WorkerTyped /\ Held /\ Goals
  BY TypeParts DEF IInv
<1>2. CASE CleanFails(w)
  BY <1>1, <1>2, FreeCalmly DEF CleanFails, stored, history
<1>3. CASE Reset(w)
  BY <1>1, <1>3, FreeCalmly, GoesOnCalmly DEF Reset, stored, history, PCs
<1>4. ASSUME NEW d \in Docs, NextDoc(w, d) PROVE Calm(w)
  BY <1>1, <1>4, GoesOnCalmly DEF NextDoc, stored, history, PCs
<1>5. CASE EndTask(w)
  BY <1>1, <1>5, FreeCalmly DEF EndTask, stored, history
<1>6. CASE Extract(w)
  BY <1>1, <1>6, AnnounceLeaves DEF Extract, Calm, stored, history, Held
<1>7. CASE Fails(w)
  BY <1>1, <1>7, OutCalmly DEF Fails
<1>8. CASE CheckDocument(w)
  BY <1>1, <1>8, OutCalmly, GoesOnCalmly DEF CheckDocument, stored, history, PCs, Goals
<1>9. CASE WriteStatus(w)
  <2>1. goal[w] \in {"splitting", "indexing", "completed"}
    BY <1>1, <1>9 DEF WriteStatus, Goals, WorkerTyped
  <2> QED BY <1>1, <1>9, <2>1, FinishCalmly, GoesOnCalmly DEF WriteStatus, stored, history, PCs
<1>10. CASE Added(w)
  <2>1. CASE Skip(w)
    BY <1>1, <1>10, <2>1, OutCalmly DEF Added
  <2>2. CASE ~Skip(w)
    BY <1>1, <1>10, <2>2, AnnounceLeaves DEF Added, Calm, stored, history, Held
  <2> QED BY <2>1, <2>2
<1>11. CASE Collect(w)
  <2>1. /\ \A v \in Workers : v # w => pc'[v] = pc[v] /\ mine'[v] = mine[v] /\ grp'[v] = grp[v]
        /\ \A s \in mine'[w] : Exists(s)
        /\ \A s \in Segs : grp'[w][s] # "stored"
        /\ pc'[w] = "load"
    BY <1>1, <1>11 DEF Collect, WorkerTyped, SegsOf, Goto
  <2> QED BY <1>11, <2>1 DEF Collect, Calm, Others, stored, history
<1>12. CASE Load(w)
  <2>1. CASE Gone(cur[w])
    BY <1>1, <1>12, <2>1, OutCalmly DEF Load
  <2>2. CASE ~Gone(cur[w])
    BY <1>1, <1>12, <2>2, GoesOnCalmly DEF Load, stored, history, PCs
  <2> QED BY <2>1, <2>2
<1> QED BY <1>2, <1>3, <1>4, <1>5, <1>6, <1>7, <1>8, <1>9, <1>10, <1>11, <1>12

LEMMA PoolCalmly ==
  ASSUME IInv, NEW w \in Workers,
         (\E s \in Segs : GroupCheck(w, s) \/ GroupFails(w, s)) \/ Join(w)
  PROVE  Calm(w)
<1>1. WorkerTyped /\ Held
  BY TypeParts DEF IInv
<1>2. ASSUME NEW s \in Segs, NEW a, NEW b \in {"loading", "paused", "failed"},
             Group(w, s, a, b), UNCHANGED stored
      PROVE  Calm(w)
  <2>1. Others(w) /\ pc'[w] = "groups" /\ mine'[w] = mine[w]
    BY <1>1, <1>2 DEF Group, Others, WorkerTyped
  <2>2. \A u \in Segs : grp'[w][u] = "stored" => grp[w][u] = "stored"
    BY <1>1, <1>2 DEF Group, WorkerTyped
  <2> QED BY <1>1, <1>2, <2>1, <2>2 DEF Calm, Group, stored, history, Held
<1>3. ASSUME NEW s \in Segs, GroupCheck(w, s) PROVE Calm(w)
  BY <1>2, <1>3 DEF GroupCheck
<1>4. ASSUME NEW s \in Segs, GroupFails(w, s) PROVE Calm(w)
  BY <1>2, <1>4 DEF GroupFails
<1>5. CASE Join(w)
  <2>1. CASE PausedOut(w) \/ ErrorOut(w)
    BY <1>1, <1>5, <2>1, OutCalmly DEF Join
  <2>2. CASE /\ {grp[w][s] : s \in mine[w]} \subseteq {"done"}
             /\ Announce(w, "completed") /\ UNCHANGED <<stored, mine, grp, crashes>>
    <3>1. \A s \in Segs : grp[w][s] # "stored"
      BY <1>1, <2>2 DEF Held
    <3> QED BY <1>1, <1>5, <2>2, <3>1, AnnounceLeaves DEF Join, Calm, stored, history
  <2> QED BY <1>5, <2>1, <2>2 DEF Join, history
<1> QED BY <1>3, <1>4, <1>5

-----------------------------------------------------------------------------
(* The steps that are not calm, one by one.                                 *)

Kept == Goals' /\ Held' /\ Unborn' /\ Searchable'

(* Nothing of the workers and the store changes: requests, refusals.        *)
LEMMA ApartKeeps ==
  ASSUME IInv, Apart PROVE Kept
BY DEF IInv, Apart, stored, history, worker, Kept, Goals, Held, Unborn, Searchable, Due, Cleaned

LEMMA CleanVectorsKeeps ==
  ASSUME IInv, NEW w \in Workers, CleanVectors(w) PROVE Kept
<1>1. WorkerTyped /\ Goals /\ Held /\ Unborn /\ Searchable
  BY TypeParts DEF IInv
<1>2. /\ Others(w) /\ pc[w] = "cleanVectors" /\ pc'[w] = "cleanSegs" /\ mine' = mine
      /\ grp' = grp /\ segs' = segs /\ crashes' = crashes /\ vectors' = vectors \ mine[w]
  BY <1>1, GotoLeaves DEF CleanVectors, history
<1>3. Goals' /\ Held' /\ Unborn'
  BY <1>1, <1>2 DEF Goals, Held, Unborn, Others
<1>4. Searchable'
  <2> SUFFICES ASSUME crashes' = 0, NEW s \in Segs, Due(s)', s \notin vectors'
               PROVE  Cleaned(s)'
    BY DEF Searchable
  <2>1. s \in vectors \/ Cleaned(s)
    BY <1>1, <1>2 DEF Searchable, Due
  <2>2. CASE s \in vectors
    BY <1>2, <2>2 DEF Cleaned
  <2>3. CASE Cleaned(s)
    BY <1>2, <2>3 DEF Cleaned, Others
  <2> QED BY <2>1, <2>2, <2>3
<1> QED BY <1>3, <1>4 DEF Kept

(* The rows go with which the vectors went before. *)
LEMMA CleanedRowsKeep ==
  ASSUME IInv, NEW w \in Workers, CleanSegs(w) PROVE Kept
<1>1. WorkerTyped /\ StoreTyped /\ Goals /\ Held /\ Unborn /\ Searchable
  BY TypeParts DEF IInv
<1>2. pc[w] = "cleanSegs" /\ vectors' = vectors /\ crashes' = crashes
  BY <1>1 DEF CleanSegs, history
<1>3. \A s \in Segs : segs'[s] = IF s \in mine[w] THEN "none" ELSE segs[s]
  BY <1>1 DEF CleanSegs
<1>4. /\ Others(w) /\ pc'[w] \in {"idle", "reset"} /\ mine'[w] = {}
      /\ \A s \in Segs : grp'[w][s] # "stored"
  <2>1. CASE task[w] = "retry"
    BY <1>1, <1>2, <2>1 DEF CleanSegs, WorkerTyped, Goto, Others, Held
  <2>2. CASE task[w] # "retry"
    BY <1>1, <2>2, FreeLeaves DEF CleanSegs
  <2> QED BY <2>1, <2>2
<1>5. Goals' /\ Held'
  BY <1>1, <1>4 DEF Goals, Held, Others
<1>6. Unborn'
  <2> SUFFICES ASSUME NEW v \in Workers, NEW s \in mine'[v], pc'[v] = "add",
                      grp'[v][s] = "out"
               PROVE  segs'[s] = "none" /\ \A u \in Workers : u # v => s \notin mine'[u]
    BY DEF Unborn
  <2>1. v # w /\ s \in mine[v] /\ pc[v] = "add" /\ grp[v][s] = "out" /\ s \in Segs
    BY <1>1, <1>4 DEF Others, WorkerTyped
  <2> QED BY <1>1, <1>3, <1>4, <2>1 DEF Unborn, Others
<1>7. Searchable'
  <2> SUFFICES ASSUME crashes' = 0, NEW s \in Segs, Due(s)'
               PROVE  s \in vectors' \/ Cleaned(s)'
    BY DEF Searchable
  <2>1. s \notin mine[w] /\ Due(s)
    BY <1>3, <1>4 DEF Due, Others
  <2>2. s \in vectors \/ Cleaned(s)
    BY <1>1, <1>2, <2>1 DEF Searchable
  <2>3. ASSUME Cleaned(s) PROVE Cleaned(s)'
    BY <1>4, <2>1, <2>3 DEF Cleaned, Others
  <2> QED BY <1>2, <2>2, <2>3
<1> QED BY <1>5, <1>6, <1>7 DEF Kept

(* A worker that only goes on while rows are deleted, or set to "indexing".  *)
LEMMA RowsGoOnKeeps ==
  ASSUME IInv, NEW w \in Workers, NEW l \in {"extract", "load"}, Goto(w, l),
         pc[w] \in {"purge", "segStatus"}, UNCHANGED <<vectors, goal, mine, grp, crashes>>,
         \A s \in Segs :
           /\ segs'[s] = "completed" => segs[s] = "completed"
           /\ segs[s] = "none" => segs'[s] = "none"
  PROVE  Kept
<1>1. WorkerTyped /\ Goals /\ Held /\ Unborn /\ Searchable
  BY TypeParts DEF IInv
<1>2. Others(w) /\ pc'[w] = l /\ goal' = goal /\ mine' = mine /\ grp' = grp
  BY <1>1, GotoLeaves
<1>3. Goals' /\ Held'
  BY <1>1, <1>2 DEF Goals, Held, Others
<1>4. Unborn'
  BY <1>1, <1>2 DEF Unborn, Others, WorkerTyped
<1>5. Searchable'
  <2> SUFFICES ASSUME crashes' = 0, NEW s \in Segs, Due(s)'
               PROVE  s \in vectors' \/ Cleaned(s)'
    BY DEF Searchable
  <2>1. Due(s)
    BY <1>2 DEF Due
  <2>2. s \in vectors \/ Cleaned(s)
    BY <1>1, <2>1 DEF Searchable
  <2>3. ASSUME Cleaned(s) PROVE Cleaned(s)'
    BY <1>2, <2>3 DEF Cleaned, Others
  <2> QED BY <2>2, <2>3
<1> QED BY <1>3, <1>4, <1>5 DEF Kept

LEMMA RowsKeep ==
  ASSUME IInv, NEW w \in Workers, Purge(w) \/ SegmentStatus(w) PROVE Kept
<1>1. CASE Purge(w)
  BY <1>1, RowsGoOnKeeps DEF Purge, history
<1>2. CASE SegmentStatus(w)
  BY <1>2, RowsGoOnKeeps DEF SegmentStatus, SegsOf, Exists, history
<1> QED BY <1>1, <1>2

(* The ids of a splitting are new: nobody has these segments. *)
LEMMA TransformKeeps ==
  ASSUME IInv, NEW w \in Workers, Transform(w) PROVE Kept
<1>1. WorkerTyped /\ Goals /\ Held /\ Unborn /\ Searchable
  BY TypeParts DEF IInv
<1>2. CASE Gone(cur[w])
  BY <1>1, <1>2, OutCalmly, CalmKeeps DEF Transform, Kept
<1>3. CASE ~Gone(cur[w])
  <2>1. PICK g \in FreshGens :
          mine' = [mine EXCEPT ![w] = {s \in Segs : s[1] = g /\ DocOf[s[2]] = cur[w]}]
    BY <1>3, TransformIsFresh
  <2>2. ASSUME NEW s \in mine'[w]
        PROVE  segs[s] = "none" /\ \A u \in Workers : s \notin mine[u]
    <3>1. s \in Segs /\ s[1] = g
      BY <1>1, <2>1, <2>2 DEF WorkerTyped
    <3>2. PICK c \in Chunks : s = <<g, c>>
      BY <3>1 DEF Segs
    <3> QED BY <3>2 DEF FreshGens, Exists
  <2>3. /\ pc[w] = "transform" /\ pc'[w] = "add" /\ goal' = goal /\ grp' = grp
        /\ \A v \in Workers : v # w => pc'[v] = pc[v] /\ mine'[v] = mine[v]
        /\ UNCHANGED <<segs, vectors, crashes>>
    BY <1>1, <1>3, <2>1 DEF Transform, Goto, WorkerTyped, stored, history
  <2>4. Goals' /\ Held'
    BY <1>1, <2>3 DEF Goals, Held
  <2>5. Unborn'
    <3> SUFFICES ASSUME NEW v \in Workers, NEW s \in mine'[v], pc'[v] = "add",
                        grp'[v][s] = "out"
                 PROVE  segs'[s] = "none" /\ \A u \in Workers : u # v => s \notin mine'[u]
      BY DEF Unborn
    <3>1. CASE v = w
      BY <2>2, <2>3, <3>1
    <3>2. CASE v # w
      BY <1>1, <2>2, <2>3, <3>2 DEF Unborn
    <3> QED BY <3>1, <3>2
  <2>6. Searchable'
    <3>1. ASSUME NEW s, Cleaned(s) PROVE Cleaned(s)'
      BY <2>3, <3>1 DEF Cleaned
    <3> QED BY <1>1, <2>3, <3>1 DEF Searchable, Due
  <2> QED BY <2>4, <2>5, <2>6 DEF Kept
<1> QED BY <1>2, <1>3

LEMMA AddSegmentKeeps ==
  ASSUME IInv, NEW w \in Workers, NEW s \in Segs, AddSegment(w, s) PROVE Kept
<1>1. WorkerTyped /\ StoreTyped /\ Goals /\ Held /\ Unborn /\ Searchable
  BY TypeParts DEF IInv
<1>2. pc[w] = "add" /\ s \in mine[w] /\ grp[w][s] = "out"
  BY DEF AddSegment, Unqueued
<1>3. /\ pc' = pc /\ goal' = goal /\ mine' = mine /\ vectors' = vectors /\ crashes' = crashes
      /\ segs'[s] = "waiting" /\ \A u \in Segs : u # s => segs'[u] = segs[u]
      /\ grp'[w][s] = "queued"
      /\ \A v \in Workers, u \in Segs : v # w \/ u # s => grp'[v][u] = grp[v][u]
  BY <1>1 DEF AddSegment, WorkerTyped, StoreTyped, history
<1>4. segs[s] = "none" /\ \A v \in Workers : v # w => s \notin mine[v]
  BY <1>1, <1>2 DEF Unborn
<1>5. Goals' /\ Held'
  BY <1>1, <1>3 DEF Goals, Held
<1>6. Unborn'
  <2> SUFFICES ASSUME NEW v \in Workers, NEW u \in mine'[v], pc'[v] = "add",
                      grp'[v][u] = "out"
               PROVE  segs'[u] = "none" /\ \A x \in Workers : x # v => u \notin mine'[x]
    BY DEF Unborn
  <2>1. u # s /\ u \in Segs
    BY <1>1, <1>3, <1>4 DEF WorkerTyped
  <2> QED BY <1>1, <1>3, <2>1 DEF Unborn
<1>7. Searchable'
  <2> SUFFICES ASSUME crashes' = 0, NEW u \in Segs, Due(u)'
               PROVE  u \in vectors' \/ Cleaned(u)'
    BY DEF Searchable
  <2>1. u # s
    BY <1>1, <1>2, <1>3, <1>4 DEF Due, Held
  <2>2. Due(u)
    BY <1>3, <2>1 DEF Due
  <2> QED BY <1>1, <1>3, <2>2 DEF Searchable, Cleaned
<1> QED BY <1>5, <1>6, <1>7 DEF Kept

LEMMA GroupLoadKeeps ==
  ASSUME IInv, NEW w \in Workers, NEW s \in Segs, GroupLoad(w, s) PROVE Kept
<1>1. WorkerTyped /\ Goals /\ Held /\ Unborn /\ Searchable
  BY TypeParts DEF IInv
<1>2. /\ pc[w] = "groups" /\ s \in mine[w] /\ pc' = pc /\ goal' = goal /\ mine' = mine
      /\ vectors' = vectors \cup {s} /\ crashes' = crashes /\ segs' = segs
      /\ grp'[w][s] = "stored"
      /\ \A v \in Workers, u \in Segs : v # w \/ u # s => grp'[v][u] = grp[v][u]
  BY <1>1 DEF GroupLoad, Group, WorkerTyped, history
<1>3. Goals' /\ Held'
  BY <1>1, <1>2 DEF Goals, Held
<1>4. Unborn'
  BY <1>1, <1>2 DEF Unborn, WorkerTyped
<1>5. Searchable'
  BY <1>1, <1>2 DEF Searchable, Due, Cleaned
<1> QED BY <1>3, <1>4, <1>5 DEF Kept

LEMMA GroupMarkKeeps ==
  ASSUME IInv, NEW w \in Workers, NEW s \in Segs, GroupMark(w, s) PROVE Kept
<1>1. WorkerTyped /\ StoreTyped /\ Goals /\ Held /\ Unborn /\ Searchable
  BY TypeParts DEF IInv
<1>2. /\ pc[w] = "groups" /\ pc' = pc /\ goal' = goal /\ mine' = mine
      /\ grp[w][s] = "stored" /\ vectors' = vectors /\ crashes' = crashes
      /\ grp'[w][s] = "done"
      /\ \A v \in Workers, u \in Segs : v # w \/ u # s => grp'[v][u] = grp[v][u]
  BY <1>1 DEF GroupMark, Group, WorkerTyped, history
<1>3. /\ segs'[s] = IF segs[s] = "indexing" THEN "completed" ELSE segs[s]
      /\ \A u \in Segs : u # s => segs'[u] = segs[u]
  BY <1>1 DEF GroupMark, StoreTyped
<1>4. Goals' /\ Held'
  BY <1>1, <1>2 DEF Goals, Held
<1>5. Unborn'
  BY <1>1, <1>2, <1>3 DEF Unborn, WorkerTyped
<1>6. Searchable'
  <2> SUFFICES ASSUME crashes' = 0, NEW u \in Segs, Due(u)'
               PROVE  u \in vectors' \/ Cleaned(u)'
    BY DEF Searchable
  <2>1. Due(u)
    BY <1>2, <1>3 DEF Due
  <2> QED BY <1>1, <1>2, <2>1 DEF Searchable, Cleaned
<1> QED BY <1>4, <1>5, <1>6 DEF Kept

LEMMA CrashKeeps ==
  ASSUME IInv, NEW w \in Workers, Crash(w) PROVE Kept
<1>1. WorkerTyped /\ HistoryTyped /\ Goals /\ Held /\ Unborn
  BY TypeParts DEF IInv
<1>2. Others(w) /\ pc'[w] = "idle" /\ mine'[w] = {} /\ \A s \in Segs : grp'[w][s] = "out"
  BY <1>1, FreeLeaves DEF Crash
<1>3. segs' = segs /\ crashes' = crashes + 1
  BY DEF Crash, stored, history
<1>4. Goals' /\ Held'
  BY <1>1, <1>2 DEF Goals, Held, Others
<1>5. Unborn'
  BY <1>1, <1>2, <1>3 DEF Unborn, Others
<1>6. Searchable'
  <2>1. crashes' # 0
    BY <1>1, <1>3 DEF HistoryTyped, history
  <2> QED BY <2>1 DEF Searchable
<1> QED BY <1>4, <1>5, <1>6 DEF Kept

-----------------------------------------------------------------------------
LEMMA InitIInv == Init => IInv
<1> SUFFICES ASSUME Init PROVE IInv
  OBVIOUS
<1>1. QueueTyped
  <2>1. Message("index", NoDoc) \in Messages
    BY DEF Message, Messages
  <2> QED BY <2>1 DEF Init, QueueTyped
<1>2. RowTyped /\ StoreTyped
  BY DEF Init, RowTyped, StoreTyped, Statuses, Unsettled
<1>3. WorkerTyped
  BY DEF Init, WorkerTyped, PCs, GroupStates, Nothing
<1>4. RequestTyped /\ HistoryTyped
  <2>1. MaxOps \in Nat /\ MaxCrashes \in Nat
    BY BoundsAssumption
  <2> QED BY <2>1 DEF Init, RequestTyped, HistoryTyped, history, ReqPCs
<1>5. Goals /\ Held /\ Unborn
  BY DEF Init, Goals, Held, Unborn, Nothing
<1>6. Searchable
  BY DEF Init, Searchable, Due, Nothing
<1> QED BY <1>1, <1>2, <1>3, <1>4, <1>5, <1>6, TypeParts DEF IInv

LEMMA StepIInv == IInv /\ [Next]_vars => IInv'
<1> SUFFICES ASSUME IInv, [Next]_vars PROVE IInv'
  OBVIOUS
<1>1. TypeOK /\ Goals
  BY DEF IInv
<1>2. ASSUME TypeOK', Kept PROVE IInv'
  BY <1>2 DEF IInv, Kept
<1>3. ASSUME NEW w \in Workers, Work(w) PROVE IInv'
  <2>1. CASE RefuseIndex(w) \/ RefuseRetry(w)
    <3>1. Apart
      BY <2>1 DEF RefuseIndex, RefuseRetry, Apart, history
    <3> QED BY <1>1, <1>2, <2>1, <3>1, TakeTyped, ApartKeeps
  <2>2. CASE TakeIndex(w) \/ TakeRecover(w) \/ \E k \in {"retry", "clean"} : TakeClean(w, k)
    <3>1. TypeOK'
      BY <1>1, <2>2, TakeTyped
    <3> QED BY <1>2, <2>2, <3>1, TakeCalmly, CalmKeeps DEF Kept
  <2>3. CASE CleanVectors(w) \/ CleanSegs(w)
    BY <1>1, <1>2, <2>3, CleanTyped, CleanVectorsKeeps, CleanedRowsKeep
  <2>4. CASE CleanFails(w) \/ Reset(w)
    BY <1>1, <1>2, <2>4, CleanTyped, WorkCalmly, CalmKeeps DEF Kept
  <2>5. CASE \/ (\E d \in Docs : NextDoc(w, d)) \/ EndTask(w) \/ Extract(w) \/ Fails(w)
             \/ CheckDocument(w) \/ WriteStatus(w)
    <3>1. TypeOK'
      BY <1>1, <2>5, RunnerTyped
    <3>2. Calm(w)
      BY <2>5, WorkCalmly
    <3> QED BY <1>2, <3>1, <3>2, CalmKeeps DEF Kept
  <2>6. CASE Purge(w)
    BY <1>1, <1>2, <2>6, RunnerTyped, RowsKeep
  <2>7. CASE Transform(w)
    BY <1>1, <1>2, <2>7, SplitTyped, TransformKeeps
  <2>8. CASE SegmentStatus(w)
    BY <1>1, <1>2, <2>8, SplitTyped, RowsKeep
  <2>9. CASE Added(w) \/ Collect(w) \/ Load(w)
    <3>1. TypeOK'
      BY <1>1, <2>9, SplitTyped
    <3>2. Calm(w)
      BY <2>9, WorkCalmly
    <3> QED BY <1>2, <3>1, <3>2, CalmKeeps DEF Kept
  <2>10. ASSUME NEW s \in Segs, AddSegment(w, s) PROVE IInv'
    BY <1>1, <1>2, <2>10, SplitTyped, AddSegmentKeeps
  <2>11. ASSUME NEW s \in Segs, GroupCheck(w, s) \/ GroupFails(w, s) PROVE IInv'
    <3>1. TypeOK'
      BY <1>1, <2>11, PoolTyped
    <3>2. Calm(w)
      BY <2>11, PoolCalmly
    <3> QED BY <1>2, <3>1, <3>2, CalmKeeps DEF Kept
  <2>12. ASSUME NEW s \in Segs, GroupLoad(w, s) \/ GroupMark(w, s) PROVE IInv'
    BY <1>1, <1>2, <2>12, PoolTyped, GroupLoadKeeps, GroupMarkKeeps
  <2>13. CASE Join(w)
    <3>1. TypeOK'
      BY <1>1, <2>13, PoolTyped
    <3>2. Calm(w)
      BY <2>13, PoolCalmly
    <3> QED BY <1>2, <3>1, <3>2, CalmKeeps DEF Kept
  <2> QED BY <1>3, <2>1, <2>2, <2>3, <2>4, <2>5, <2>6, <2>7, <2>8, <2>9, <2>10, <2>11, <2>12,
             <2>13 DEF Work
<1>4. ASSUME NEW w \in Workers, Crash(w) PROVE IInv'
  BY <1>1, <1>2, <1>4, PoolTyped, CrashKeeps
<1>5. ASSUME NEW r \in Requests, Proceed(r) PROVE IInv'
  BY <1>1, <1>2, <1>5, ProceedTyped, ApartKeeps
<1>6. ASSUME NEW r \in Requests, NEW d \in Docs, Ask(r, d) PROVE IInv'
  BY <1>1, <1>2, <1>6, AskTyped, ApartKeeps
<1>7. ASSUME NEW d \in Docs, RetriedExpires(d) PROVE IInv'
  BY <1>1, <1>2, <1>7, ExpiryTyped, ApartKeeps
<1>8. CASE UNCHANGED vars
  <2>1. TypeOK'
    BY <1>1, <1>8 DEF TypeOK, vars, row, redis, stored, history, worker, request
  <2>2. Apart
    BY <1>8 DEF vars, stored, history, worker, Apart
  <2> QED BY <1>2, <2>1, <2>2, ApartKeeps
<1> QED BY <1>3, <1>4, <1>5, <1>6, <1>7, <1>8, AskedAssumption DEF Next

(* IInv holds throughout. *)
THEOREM Invariance == Spec => []IInv
BY InitIInv, StepIInv, PTL DEF Spec

(* The rows, the keys of Redis, the segments, the queue, the workers and    *)
(* the requests have their types at all times.                              *)
THEOREM TypesKept == Spec => []TypeOK
<1>1. IInv => TypeOK
  BY DEF IInv
<1> QED BY <1>1, Invariance, PTL

(* As long as no worker has died, a segment that the console shows as       *)
(* completed has its vector in the store, or a retry or a clean has just    *)
(* taken the vector away and is about to delete the row: however many       *)
(* workers index, recover, retry and clean the same document at once.       *)
THEOREM CompletedIsFound == Spec => []SegmentsSearchable
<1>1. IInv => SegmentsSearchable
  BY DEF IInv, Searchable, SegmentsSearchable, Due, Cleaned
<1> QED BY <1>1, Invariance, PTL

-----------------------------------------------------------------------------
(* One worker, which does not die and whose cleaning does not fail.  What   *)
(* it does to a document is then never mixed up with what another does, and *)
(* "completed" and "deleted" are true where the rows say so.  The invariant *)
(* says, for each place of the worker w and each status of a document, what *)
(* there is of its segments and vectors.                                    *)

Deleting(d) == \E r \in Requests : req[r] = "delete" /\ on[r] = d
Doomed(d) == Gone(d) \/ Deleting(d)

(* Where the worker is: before the status st is written, or at one of ps.   *)
Writing(w, st) == pc[w] \in {"check", "write"} /\ goal[w] = st
Fresh(w) == pc[w] \in {"extract", "transform"} \/ Writing(w, "splitting")
Adding(w) == pc[w] \in {"add", "segStatus"} \/ Writing(w, "indexing")
Loading(w) == pc[w] \in {"load", "groups"} \/ Writing(w, "completed")

Splitting(g, d) == {s \in Segs : s[1] = g /\ DocOf[s[2]] = d}

(* What the worker holds. *)
Hands(w) ==
  /\ pc[w] \in {"idle", "next", "purge", "collect", "reset"} \/ Fresh(w) => mine[w] = {}
  /\ Adding(w) \/ Loading(w) \/ grp[w] = Nothing
  /\ \A s \in mine[w] : DocOf[s[2]] = cur[w]
  /\ cur[w] \notin todo[w]
  /\ pc[w] = "idle" => cur[w] = NoDoc /\ todo[w] = {}
  /\ pc[w] \in {"cleanVectors", "cleanSegs"} => mine[w] = SegsOf(cur[w])
  /\ task[w] = "clean" => pc[w] \in {"cleanVectors", "cleanSegs"}
  /\ pc[w] \in {"cleanVectors", "cleanSegs", "reset"} => task[w] \in {"retry", "clean"}

(* The rows of the segments it holds, and how far its pool is with them. *)
Holds(w) ==
  /\ Adding(w) =>
       /\ \E g \in Gens : mine[w] = Splitting(g, cur[w])
       /\ \A s \in mine[w] : \/ grp[w][s] = "queued" /\ Exists(s)
                             \/ grp[w][s] = "out" /\ pc[w] = "add"
  /\ Loading(w) => \A s \in mine[w] : grp[w][s] # "out" /\ Exists(s)
  /\ Writing(w, "completed") => \A s \in mine[w] : grp[w][s] = "done"

(* The status of the document it works on: what it has written itself, or   *)
(* what a retry or a delete has written over it.                            *)
Fits(w) ==
  \A d \in Docs :
    /\ d \in todo[w] => status[d] \in {"waiting", "parsing", "deleted"}
    /\ cur[w] = d =>
         /\ Fresh(w) => status[d] \in {"waiting", "parsing", "splitting", "deleted"}
         /\ pc[w] \in {"purge", "transform", "add"} \/ Writing(w, "indexing")
              => status[d] \in {"waiting", "splitting", "deleted"}
         /\ pc[w] \in {"segStatus", "collect"} \/ Loading(w)
              => status[d] \in {"waiting", "indexing", "deleted"}

(* Nothing is stored before the first task, nor of a document that is still *)
(* to be begun.                                                             *)
Start(w) ==
  /\ \A i \in DOMAIN queue : queue[i].kind = "index" =>
       i = 1 /\ pc[w] = "idle" /\ vectors = {} /\ \A d \in Docs : SegsOf(d) = {}
  /\ \A d \in todo[w] : SegsOf(d) = {} /\ VectorsOf(d) = {}

(* A vector has its row, unless a recovery overtook a retry. *)
Backed == \A d \in Docs \ overtaken : VectorsOf(d) \subseteq SegsOf(d)

(* What is not there yet, or not any more. *)
Empty(w) ==
  \A d \in Docs \ overtaken :
    /\ status[d] \in {"parsing", "splitting"} => VectorsOf(d) = {}
    /\ status[d] = "parsing" => SegsOf(d) = {}
    /\ cur[w] = d =>
         /\ pc[w] \in {"purge", "cleanSegs", "reset"} \/ Fresh(w) \/ Adding(w)
              => VectorsOf(d) = {}
         /\ pc[w] = "reset" \/ Fresh(w) => SegsOf(d) = {}
         /\ Adding(w) => SegsOf(d) \subseteq mine[w]

(* One splitting of the document, on its way or completed. *)
Split(d) ==
  /\ \A c \in Chunks : DocOf[c] = d =>
        \E g \in Gens : {s \in SegsOf(d) : s[2] = c} = {<<g, c>>}
  /\ \A s \in SegsOf(d) : segs[s] \in {"indexing", "completed"}
Finished(d) == Split(d) /\ \A s \in SegsOf(d) : segs[s] = "completed"

ContentOf(w, d) ==
  /\ status[d] = "indexing" => Split(d) \/ (cur[w] = d /\ pc[w] \in {"segStatus", "reset"})
  /\ status[d] = "completed" => Finished(d) \/ (cur[w] = d /\ pc[w] = "reset")
  /\ cur[w] = d /\ pc[w] = "collect" => Split(d)
  /\ cur[w] = d /\ Loading(w) =>
       /\ Split(d)
       /\ \A s \in SegsOf(d) : s \notin mine[w] \/ grp[w][s] = "done" => segs[s] = "completed"
Content(w) == \A d \in Docs \ overtaken : ~Doomed(d) => ContentOf(w, d)

(* A clean task is there for a document that is deleted, or about to be. *)
CleanIsMeant(w) ==
  /\ \A i \in DOMAIN queue : queue[i].kind = "clean" => queue[i].doc \in Docs /\ Doomed(queue[i].doc)
  /\ task[w] = "clean" => cur[w] \in Docs /\ Doomed(cur[w])

Parts(w) ==
  /\ Hands(w) /\ Holds(w) /\ Fits(w) /\ Start(w) /\ Backed /\ Empty(w) /\ Content(w)
  /\ CleanIsMeant(w)

-----------------------------------------------------------------------------
(* What the worker is left with.                                            *)
View(w, l, k, t, c, st, m, p) ==
  /\ pc'[w] = l /\ task'[w] = k /\ todo'[w] = t /\ cur'[w] = c /\ goal'[w] = st
  /\ mine'[w] = m /\ grp'[w] = p

LEMMA FreeView ==
  ASSUME WorkerTyped, NEW w \in Workers, Free(w)
  PROVE  View(w, "idle", "none", {}, NoDoc, "none", {}, Nothing)
BY DEF WorkerTyped, Free, View

LEMMA FinishView ==
  ASSUME WorkerTyped, NEW w \in Workers, Finish(w)
  PROVE  View(w, "next", task[w], todo[w], cur[w], "none", {}, Nothing)
BY DEF WorkerTyped, Finish, Goto, View

LEMMA GotoView ==
  ASSUME WorkerTyped, NEW w \in Workers, NEW l, Goto(w, l),
         UNCHANGED <<task, todo, cur, goal, mine, grp>>
  PROVE  View(w, l, task[w], todo[w], cur[w], goal[w], mine[w], grp[w])
BY DEF WorkerTyped, Goto, View

LEMMA AnnounceView ==
  ASSUME WorkerTyped, NEW w \in Workers, NEW st, Announce(w, st),
         UNCHANGED <<task, todo, cur, mine, grp>>
  PROVE  View(w, "check", task[w], todo[w], cur[w], st, mine[w], grp[w])
BY DEF WorkerTyped, Announce, Goto, View

(* The store is as it was. *)
LEMMA StoreKept ==
  ASSUME UNCHANGED <<segs, vectors>>, NEW d
  PROVE  /\ SegsOf(d)' = SegsOf(d) /\ VectorsOf(d)' = VectorsOf(d)
         /\ (Split(d)' <=> Split(d)) /\ (Finished(d)' <=> Finished(d))
<1>1. SegsOf(d)' = SegsOf(d) /\ VectorsOf(d)' = VectorsOf(d)
  BY DEF SegsOf, VectorsOf, Exists
<1> QED BY <1>1 DEF Split, Finished

(* No worker brings a row back, or answers a request. *)
LEMMA DoomedKept ==
  ASSUME UNCHANGED request, NEW d, Gone(d)' <=> Gone(d)
  PROVE  Doomed(d)' <=> Doomed(d)
BY DEF Doomed, Deleting, request

LEMMA StatusIs ==
  ASSUME RowTyped, NEW e, NEW st, st # "deleted", status' = SetStatus(e, st), NEW d \in Docs
  PROVE  /\ Gone(d)' <=> Gone(d)
         /\ status'[d] = IF d = e /\ ~Gone(d) THEN st ELSE status[d]
<1>1. status'[d] = IF d = e /\ ~Gone(d) THEN st ELSE status[d]
  BY DEF RowTyped, SetStatus
<1> QED BY <1>1 DEF Gone

(* The worker stops working on its document: it is free, or goes to the next *)
(* one of its batch.                                                        *)
LEMMA StopKeeps ==
  ASSUME NEW w \in Workers, TypeOK, Parts(w),
         UNCHANGED <<segs, vectors, queue, request, overtaken>>,
         pc[w] \notin {"idle", "segStatus"}, pc[w] = "reset" => Gone(cur[w]),
         \/ View(w, "idle", "none", {}, NoDoc, "none", {}, Nothing)
         \/ pc[w] \notin {"cleanVectors", "cleanSegs"}
               /\ View(w, "next", task[w], todo[w], cur[w], "none", {}, Nothing),
         \A d \in Docs : /\ Gone(d)' <=> Gone(d)
                         /\ status'[d] = status[d] \/ (d = cur[w] /\ status'[d] = "error")
  PROVE  Parts(w)'
<1> USE DEF Parts
<1>1. \A d : /\ SegsOf(d)' = SegsOf(d) /\ VectorsOf(d)' = VectorsOf(d)
             /\ (Split(d)' <=> Split(d)) /\ (Finished(d)' <=> Finished(d))
  BY StoreKept
<1>2. \A d \in Docs : Doomed(d)' <=> Doomed(d)
  BY DoomedKept
<1>3. /\ pc'[w] \in {"idle", "next"} /\ mine'[w] = {} /\ grp'[w] = Nothing
      /\ todo'[w] \subseteq todo[w] /\ cur'[w] \notin todo'[w]
      /\ pc'[w] = "idle" => cur'[w] = NoDoc /\ todo'[w] = {}
      /\ task'[w] # "clean"
  BY DEF View, Hands
<1>4. Hands(w)'
  BY <1>3 DEF Hands
<1>5. Holds(w)'
  BY <1>3 DEF Holds, Adding, Loading, Writing
<1>6. Fits(w)'
  <2>1. cur[w] \notin todo'[w]
    BY <1>3 DEF Hands
  <2> QED BY <1>3, <2>1 DEF Fits, Fresh, Writing, Loading
<1>7. Start(w)' /\ Backed'
  BY <1>1, <1>3 DEF Start, Backed
<1>8. Empty(w)'
  BY <1>1, <1>3 DEF Empty, Fresh, Adding, Writing
<1>9. Content(w)'
  <2> SUFFICES ASSUME NEW d \in Docs, d \notin overtaken, ~Doomed(d)
               PROVE  /\ status'[d] = "indexing" => Split(d)
                      /\ status'[d] = "completed" => Finished(d)
    BY <1>1, <1>2, <1>3 DEF Content, ContentOf, Loading, Writing
  <2>1. ~(cur[w] = d /\ pc[w] \in {"segStatus", "reset"})
    BY DEF Doomed
  <2> QED BY <2>1 DEF Content, ContentOf
<1>10. CleanIsMeant(w)'
  BY <1>2, <1>3 DEF CleanIsMeant
<1> QED BY <1>4, <1>5, <1>6, <1>7, <1>8, <1>9, <1>10

(* A request, or an expiry: rows are set to "waiting" or deleted, messages  *)
(* are sent.                                                                *)
LEMMA OutsideKeeps ==
  ASSUME NEW w \in Workers, Parts(w), Apart,
         \A i \in DOMAIN queue' :
            \/ i \in DOMAIN queue /\ queue'[i] = queue[i]
            \/ /\ queue'[i].kind # "index"
               /\ queue'[i].kind = "clean" =>
                    queue'[i].doc \in Docs /\ Doomed(queue[i].doc)',
         \A d \in Docs : /\ Doomed(d) => Doomed(d)'
                         /\ status'[d] \in {status[d], "waiting", "deleted"}
  PROVE  Parts(w)'
<1> USE DEF Parts
<1>1. UNCHANGED <<segs, vectors, pc, task, todo, cur, goal, mine, grp, overtaken>>
  BY DEF Apart, stored, worker, history
<1>2. \A d : /\ SegsOf(d)' = SegsOf(d) /\ VectorsOf(d)' = VectorsOf(d)
             /\ (Split(d)' <=> Split(d)) /\ (Finished(d)' <=> Finished(d))
  BY <1>1, StoreKept
<1>3. /\ Fresh(w)' <=> Fresh(w)
      /\ Adding(w)' <=> Adding(w)
      /\ Loading(w)' <=> Loading(w)
      /\ \A st : Writing(w, st)' <=> Writing(w, st)
  BY <1>1 DEF Fresh, Adding, Loading, Writing
<1>4. Hands(w)'
  BY <1>1, <1>2, <1>3 DEF Hands
<1>5. Holds(w)'
  BY <1>1, <1>3 DEF Holds, Exists, Splitting
<1>6. Fits(w)'
  BY <1>1, <1>3 DEF Fits
<1>7. Start(w)'
  BY <1>1, <1>2 DEF Start
<1>8. Backed'
  BY <1>1, <1>2 DEF Backed
<1>9. Empty(w)'
  BY <1>1, <1>2, <1>3 DEF Empty
<1>10. Content(w)'
  <2> SUFFICES ASSUME NEW d \in Docs \ overtaken, ~Doomed(d)' PROVE ContentOf(w, d)'
    BY <1>1 DEF Content
  <2>1. ContentOf(w, d)
    BY DEF Content
  <2> QED BY <1>1, <1>2, <1>3, <2>1 DEF ContentOf
<1>11. CleanIsMeant(w)'
  BY <1>1 DEF CleanIsMeant
<1> QED BY <1>4, <1>5, <1>6, <1>7, <1>8, <1>9, <1>10, <1>11

(* The first message is taken: the rest is no indexing task. *)
LEMMA TailIs ==
  ASSUME NEW w \in Workers, TypeOK, Start(w), queue # << >>
  PROVE  /\ \A i \in DOMAIN Tail(queue) :
              /\ i + 1 \in DOMAIN queue /\ Tail(queue)[i] = queue[i + 1]
              /\ Tail(queue)[i].kind # "index"
         /\ 1 \in DOMAIN queue /\ Head(queue) = queue[1]
<1>1. queue \in Seq(Messages)
  BY TypeParts DEF QueueTyped
<1>2. \A i \in DOMAIN Tail(queue) : i + 1 \in DOMAIN queue /\ Tail(queue)[i] = queue[i + 1]
  BY <1>1
<1>3. \A i \in DOMAIN Tail(queue) : i + 1 # 1
  BY <1>1
<1>4. 1 \in DOMAIN queue /\ Head(queue) = queue[1]
  BY <1>1
<1> QED BY <1>2, <1>3, <1>4 DEF Start

(* An idle worker holds nothing. *)
LEMMA IdleHolds ==
  ASSUME NEW w \in Workers, Hands(w), pc[w] = "idle"
  PROVE  /\ mine[w] = {} /\ grp[w] = Nothing /\ cur[w] = NoDoc /\ todo[w] = {}
         /\ task[w] # "clean" /\ ~Fresh(w) /\ ~Adding(w) /\ ~Loading(w)
BY DEF Hands, Fresh, Adding, Loading, Writing

(* A message is dropped, a document may be set to "error". *)
LEMMA RefuseKeeps ==
  ASSUME NEW w \in Workers, TypeOK, Parts(w), Apart, UNCHANGED request,
         pc[w] = "idle", queue # << >>, queue' = Tail(queue),
         \A d \in Docs : /\ Gone(d)' <=> Gone(d)
                         /\ status'[d] \in {status[d], "error"}
  PROVE  Parts(w)'
<1> USE DEF Parts
<1>1. UNCHANGED <<segs, vectors, pc, task, todo, cur, goal, mine, grp, overtaken>>
  BY DEF Apart, stored, worker, history
<1>2. \A d : /\ SegsOf(d)' = SegsOf(d) /\ VectorsOf(d)' = VectorsOf(d)
             /\ (Split(d)' <=> Split(d)) /\ (Finished(d)' <=> Finished(d))
  BY <1>1, StoreKept
<1>3. \A d \in Docs : Doomed(d)' <=> Doomed(d)
  BY DoomedKept
<1>4. /\ mine[w] = {} /\ grp[w] = Nothing /\ cur[w] = NoDoc /\ todo[w] = {}
      /\ task[w] # "clean" /\ ~Fresh(w) /\ ~Adding(w) /\ ~Loading(w)
  BY IdleHolds
<1>5. ~Fresh(w)' /\ ~Adding(w)' /\ ~Loading(w)' /\ \A st : ~Writing(w, st)'
  BY <1>1 DEF Fresh, Adding, Loading, Writing
<1>6. Hands(w)'
  BY <1>1, <1>4, <1>5 DEF Hands
<1>7. Holds(w)'
  BY <1>5 DEF Holds
<1>8. Fits(w)'
  BY <1>1, <1>4, <1>5 DEF Fits
<1>9. Start(w)'
  BY <1>1, <1>4, TailIs DEF Start
<1>10. Backed'
  BY <1>1, <1>2 DEF Backed
<1>11. Empty(w)'
  BY <1>1, <1>2, <1>5 DEF Empty
<1>12. Content(w)'
  BY <1>1, <1>2, <1>3, <1>5 DEF Content, ContentOf
<1>13. CleanIsMeant(w)'
  BY <1>1, <1>3, <1>4, TailIs DEF CleanIsMeant
<1> QED BY <1>6, <1>7, <1>8, <1>9, <1>10, <1>11, <1>12, <1>13

-----------------------------------------------------------------------------
(* Taking a task.                                                           *)

LEMMA BeginView ==
  ASSUME WorkerTyped, NEW w \in Workers, NEW k, NEW d, NEW l, Begin(w, k, d, l)
  PROVE  /\ pc'[w] = l /\ task'[w] = k /\ cur'[w] = d /\ goal'[w] = goal[w]
         /\ grp'[w] = grp[w] /\ queue' = Tail(queue)
BY DEF Begin, Goto, WorkerTyped

(* Nothing is stored, and every document is yet to be begun. *)
LEMMA TakeIndexKeeps ==
  ASSUME NEW w \in Workers, TypeOK, Parts(w), TakeIndex(w)
  PROVE  Parts(w)'
<1> USE DEF Parts
<1>1. WorkerTyped /\ RowTyped
  BY TypeParts
<1>2. /\ pc[w] = "idle" /\ queue # << >> /\ Head(queue).kind = "index"
      /\ UNCHANGED <<segs, vectors, mine, request, overtaken>>
  BY DEF TakeIndex, Waiting, stored, history
<1>3. /\ pc'[w] = "next" /\ task'[w] = "index" /\ cur'[w] = NoDoc /\ grp'[w] = grp[w]
      /\ queue' = Tail(queue) /\ todo'[w] \subseteq Docs
  <2>1. Begin(w, "index", NoDoc, "next") /\ todo' = [todo EXCEPT ![w] = {d \in Docs : ~Gone(d)}]
    BY DEF TakeIndex
  <2> QED BY <1>1, <2>1, BeginView DEF WorkerTyped
<1>4. mine[w] = {} /\ grp[w] = Nothing
  BY <1>2, IdleHolds
<1>5. ~Fresh(w)' /\ ~Adding(w)' /\ ~Loading(w)' /\ \A st : ~Writing(w, st)'
  BY <1>3 DEF Fresh, Adding, Loading, Writing
<1>6. vectors = {} /\ \A d \in Docs : SegsOf(d) = {} /\ VectorsOf(d) = {}
  BY <1>2, TailIs DEF Start, VectorsOf
<1>7. \A d \in Docs : SegsOf(d)' = {} /\ VectorsOf(d)' = {}
  BY <1>2, <1>6, StoreKept
<1>8. \A d \in Docs : status'[d] \in {"parsing", "deleted"} /\ (Gone(d)' <=> Gone(d))
  BY DEF TakeIndex, Gone
<1>9. \A d \in Docs : Doomed(d)' <=> Doomed(d)
  BY <1>2, <1>8, DoomedKept
<1>10. Hands(w)'
  BY <1>2, <1>3, <1>4, DocAssumption DEF Hands
<1>11. Holds(w)' /\ Fits(w)'
  BY <1>3, <1>5, <1>8 DEF Holds, Fits
<1>12. Start(w)'
  BY <1>2, <1>3, <1>7, TailIs DEF Start
<1>13. Backed' /\ Empty(w)'
  BY <1>3, <1>5, <1>7 DEF Backed, Empty
<1>14. Content(w)'
  BY <1>3, <1>5, <1>8 DEF Content, ContentOf
<1>15. CleanIsMeant(w)'
  BY <1>2, <1>3, <1>9, TailIs DEF CleanIsMeant
<1> QED BY <1>10, <1>11, <1>12, <1>13, <1>14, <1>15

(* Recovery begins where the status says: that is where the document is,    *)
(* unless it overtakes a retry.                                             *)
LEMMA TakeRecoverKeeps ==
  ASSUME NEW w \in Workers, TypeOK, Parts(w), TakeRecover(w)
  PROVE  Parts(w)'
<1> USE DEF Parts
<1> DEFINE e == Head(queue).doc
<1>1. WorkerTyped /\ RowTyped
  BY TypeParts
<1>2. /\ pc[w] = "idle" /\ queue # << >>
      /\ UNCHANGED <<status, segs, vectors, todo, mine, request>>
      /\ overtaken' = overtaken \cup {d \in Docs : d = e /\ status[d] = "waiting"}
  BY DEF TakeRecover, Waiting, row, stored
<1>3. /\ pc'[w] = ResumeAt(status[e]) /\ task'[w] = "recover" /\ cur'[w] = e
      /\ grp'[w] = grp[w] /\ queue' = Tail(queue) /\ todo'[w] = todo[w] /\ mine'[w] = mine[w]
  BY <1>1, <1>2, BeginView DEF TakeRecover
<1>4. mine[w] = {} /\ grp[w] = Nothing /\ todo[w] = {}
  BY <1>2, IdleHolds
<1>5. /\ pc'[w] \in {"extract", "purge", "collect", "next"}
      /\ pc'[w] = "extract" => status[e] \in {"waiting", "parsing"}
      /\ pc'[w] = "purge" => status[e] = "splitting"
      /\ pc'[w] = "collect" => status[e] = "indexing"
  BY <1>3 DEF ResumeAt
<1>6. /\ ~Adding(w)' /\ ~Loading(w)' /\ \A st : ~Writing(w, st)'
      /\ Fresh(w)' <=> pc'[w] = "extract"
  BY <1>5 DEF Fresh, Adding, Loading, Writing
<1>7. \A d : /\ SegsOf(d)' = SegsOf(d) /\ VectorsOf(d)' = VectorsOf(d)
             /\ (Split(d)' <=> Split(d)) /\ (Finished(d)' <=> Finished(d))
  BY <1>2, StoreKept
<1>8. \A d \in Docs : Doomed(d)' <=> Doomed(d)
  BY <1>2, DoomedKept DEF Gone
<1>9. Hands(w)'
  BY <1>3, <1>4, <1>5 DEF Hands
<1>10. Holds(w)'
  BY <1>6 DEF Holds
<1>11. Fits(w)'
  BY <1>2, <1>3, <1>4, <1>5, <1>6 DEF Fits
<1>12. Start(w)'
  BY <1>2, <1>3, <1>4, TailIs DEF Start
<1>13. Backed'
  BY <1>2, <1>7 DEF Backed
<1>14. Empty(w)'
  BY <1>2, <1>3, <1>5, <1>6, <1>7 DEF Empty
<1>15. Content(w)'
  <2> SUFFICES ASSUME NEW d \in Docs \ overtaken', ~Doomed(d)' PROVE ContentOf(w, d)'
    BY DEF Content
  <2>1. ContentOf(w, d)
    BY <1>2, <1>8 DEF Content
  <2> QED BY <1>2, <1>3, <1>5, <1>6, <1>7, <2>1 DEF ContentOf
<1>16. CleanIsMeant(w)'
  BY <1>2, <1>3, <1>8, TailIs DEF CleanIsMeant
<1> QED BY <1>9, <1>10, <1>11, <1>12, <1>13, <1>14, <1>15, <1>16

LEMMA TakeCleanKeeps ==
  ASSUME NEW w \in Workers, TypeOK, Parts(w), NEW k \in {"retry", "clean"}, TakeClean(w, k)
  PROVE  Parts(w)'
<1> USE DEF Parts
<1> DEFINE e == Head(queue).doc
<1>1. WorkerTyped /\ RowTyped
  BY TypeParts
<1>2. /\ pc[w] = "idle" /\ queue # << >> /\ Head(queue).kind = k
      /\ UNCHANGED <<status, segs, vectors, todo, request, overtaken>>
  BY DEF TakeClean, Waiting, row, stored, history
<1>3. /\ pc'[w] = "cleanVectors" /\ task'[w] = k /\ cur'[w] = e
      /\ grp'[w] = grp[w] /\ queue' = Tail(queue) /\ todo'[w] = todo[w]
      /\ mine'[w] = SegsOf(e)
  <2>1. Begin(w, k, e, "cleanVectors") /\ mine' = [mine EXCEPT ![w] = SegsOf(e)]
    BY DEF TakeClean
  <2> QED BY <1>1, <1>2, <2>1, BeginView DEF WorkerTyped
<1>4. mine[w] = {} /\ grp[w] = Nothing /\ todo[w] = {}
  BY <1>2, IdleHolds
<1>5. ~Fresh(w)' /\ ~Adding(w)' /\ ~Loading(w)' /\ \A st : ~Writing(w, st)'
  BY <1>3 DEF Fresh, Adding, Loading, Writing
<1>6. \A d : /\ SegsOf(d)' = SegsOf(d) /\ VectorsOf(d)' = VectorsOf(d)
             /\ (Split(d)' <=> Split(d)) /\ (Finished(d)' <=> Finished(d))
  BY <1>2, StoreKept
<1>7. \A d \in Docs : Doomed(d)' <=> Doomed(d)
  BY <1>2, DoomedKept DEF Gone
<1>8. Hands(w)'
  <2>1. SegsOf(cur[w])' = SegsOf(e)
    BY <1>2, <1>3 DEF SegsOf, Exists
  <2>2. \A s \in SegsOf(e) : DocOf[s[2]] = e
    BY DEF SegsOf
  <2> QED BY <1>3, <1>4, <1>5, <2>1, <2>2 DEF Hands
<1>9. Holds(w)'
  BY <1>5 DEF Holds
<1>10. Fits(w)'
  BY <1>2, <1>3, <1>4, <1>5 DEF Fits
<1>11. Start(w)'
  BY <1>2, <1>3, <1>4, TailIs DEF Start
<1>12. Backed'
  BY <1>2, <1>6 DEF Backed
<1>13. Empty(w)'
  BY <1>2, <1>3, <1>5, <1>6 DEF Empty
<1>14. Content(w)'
  BY <1>2, <1>3, <1>5, <1>6, <1>7 DEF Content, ContentOf
<1>15. CleanIsMeant(w)'
  BY <1>2, <1>3, <1>7, TailIs DEF CleanIsMeant
<1> QED BY <1>8, <1>9, <1>10, <1>11, <1>12, <1>13, <1>14, <1>15

-----------------------------------------------------------------------------
(* Cleaning.                                                                *)

(* The segments of one document change, or its vectors: those of the others *)
(* stay.                                                                    *)
LEMMA RowsElsewhere ==
  ASSUME NEW e, NEW d, d # e,
         \A s \in Segs : DocOf[s[2]] # e => segs'[s] = segs[s]
  PROVE  SegsOf(d)' = SegsOf(d) /\ (Split(d)' <=> Split(d)) /\ (Finished(d)' <=> Finished(d))
<1>1. SegsOf(d)' = SegsOf(d)
  BY DEF SegsOf, Exists
<1>2. \A s \in SegsOf(d) : segs'[s] = segs[s]
  BY DEF SegsOf
<1> QED BY <1>1, <1>2 DEF Split, Finished

LEMMA CleanVectorsKeepsParts ==
  ASSUME NEW w \in Workers, TypeOK, Parts(w), CleanVectors(w)
  PROVE  Parts(w)'
<1> USE DEF Parts
<1>1. WorkerTyped /\ StoreTyped
  BY TypeParts
<1>2. /\ pc[w] = "cleanVectors" /\ vectors' = vectors \ mine[w]
      /\ UNCHANGED <<status, segs, queue, request, overtaken>>
      /\ View(w, "cleanSegs", task[w], todo[w], cur[w], goal[w], mine[w], grp[w])
  BY <1>1, GotoView DEF CleanVectors, row, history
<1>3. ~Fresh(w)' /\ ~Adding(w)' /\ ~Loading(w)' /\ \A st : ~Writing(w, st)'
  BY <1>2 DEF Fresh, Adding, Loading, Writing, View
<1>4. \A d : SegsOf(d)' = SegsOf(d) /\ (Split(d)' <=> Split(d)) /\ (Finished(d)' <=> Finished(d))
  <2> SUFFICES ASSUME NEW d PROVE SegsOf(d)' = SegsOf(d) /\ (Split(d)' <=> Split(d))
                                    /\ (Finished(d)' <=> Finished(d))
    OBVIOUS
  <2>1. SegsOf(d)' = SegsOf(d)
    BY <1>2 DEF SegsOf, Exists
  <2> QED BY <1>2, <2>1 DEF Split, Finished
<1>5. \A d \in Docs : Doomed(d)' <=> Doomed(d)
  BY <1>2, DoomedKept DEF Gone
<1>6. /\ mine[w] = SegsOf(cur[w]) /\ task[w] \in {"retry", "clean"}
      /\ ~Adding(w) /\ ~Loading(w) /\ grp[w] = Nothing
  BY <1>2 DEF Hands, Adding, Loading, Writing
<1>7. \A d : VectorsOf(d)' \subseteq VectorsOf(d)
  BY <1>2 DEF VectorsOf
<1>8. \A d \in Docs \ overtaken : cur[w] = d => VectorsOf(d)' = {}
  BY <1>2, <1>6 DEF Backed, VectorsOf
<1>9. Hands(w)'
  <2>1. SegsOf(cur[w])' = SegsOf(cur[w])
    BY <1>2 DEF View, SegsOf, Exists
  <2> QED BY <1>2, <1>3, <1>6, <2>1 DEF Hands, View
<1>10. Holds(w)'
  BY <1>3 DEF Holds
<1>11. Fits(w)'
  BY <1>2, <1>3 DEF Fits, View
<1>12. Start(w)'
  BY <1>2, <1>4, <1>7 DEF Start, View
<1>13. Backed'
  BY <1>2, <1>4, <1>7 DEF Backed
<1>14. Empty(w)'
  BY <1>2, <1>3, <1>4, <1>7, <1>8 DEF Empty, View
<1>15. Content(w)'
  BY <1>2, <1>3, <1>4, <1>5 DEF Content, ContentOf, View
<1>16. CleanIsMeant(w)'
  BY <1>2, <1>5 DEF CleanIsMeant, View
<1> QED BY <1>9, <1>10, <1>11, <1>12, <1>13, <1>14, <1>15, <1>16

LEMMA CleanSegsKeepsParts ==
  ASSUME NEW w \in Workers, TypeOK, Parts(w), CleanSegs(w)
  PROVE  Parts(w)'
<1> USE DEF Parts
<1>1. WorkerTyped /\ StoreTyped
  BY TypeParts
<1>2. /\ pc[w] = "cleanSegs" /\ UNCHANGED <<status, vectors, queue, request, overtaken>>
      /\ \A s \in Segs : segs'[s] = IF s \in mine[w] THEN "none" ELSE segs[s]
  BY DEF CleanSegs, row, history
<1>3. mine[w] = SegsOf(cur[w]) /\ grp[w] = Nothing /\ task[w] \in {"retry", "clean"}
  BY <1>2 DEF Hands, Adding, Loading, Writing
<1>4. \/ /\ task[w] = "retry"
         /\ View(w, "reset", "retry", todo[w], cur[w], goal[w], {}, grp[w])
      \/ /\ task[w] = "clean"
         /\ View(w, "idle", "none", {}, NoDoc, "none", {}, Nothing)
  <2>1. CASE task[w] = "retry"
    BY <1>1, <2>1 DEF CleanSegs, View, Goto, WorkerTyped
  <2>2. CASE task[w] # "retry"
    BY <1>1, <1>3, <2>2, FreeView DEF CleanSegs
  <2> QED BY <2>1, <2>2
<1>5. ~Fresh(w)' /\ ~Adding(w)' /\ ~Loading(w)' /\ \A st : ~Writing(w, st)'
  BY <1>4 DEF Fresh, Adding, Loading, Writing, View
<1>7. \A s \in Segs : DocOf[s[2]] # cur[w] => segs'[s] = segs[s]
  BY <1>2, <1>3 DEF SegsOf
<1>8. \A d : d # cur[w] => SegsOf(d)' = SegsOf(d) /\ (Split(d)' <=> Split(d))
                             /\ (Finished(d)' <=> Finished(d))
  BY <1>7, RowsElsewhere
<1>9. \A d \in Docs : d = cur[w] => SegsOf(d)' = {}
  BY <1>2, <1>3 DEF SegsOf, Exists
<1>10. \A d : VectorsOf(d)' = VectorsOf(d)
  BY <1>2 DEF VectorsOf
<1>11. \A d \in Docs : Doomed(d)' <=> Doomed(d)
  BY <1>2, DoomedKept DEF Gone
<1>12. \A d \in Docs \ overtaken : d = cur[w] => VectorsOf(d) = {}
  BY <1>2 DEF Empty
<1>13. Hands(w)'
  BY <1>3, <1>4, <1>5 DEF Hands, View
<1>14. Holds(w)'
  BY <1>5 DEF Holds
<1>15. Fits(w)'
  BY <1>2, <1>4, <1>5 DEF Fits, View
<1>16. Start(w)'
  <2>1. cur[w] \notin todo[w]
    BY DEF Hands
  <2> QED BY <1>2, <1>4, <1>8, <1>10, <2>1 DEF Start, View
<1>17. Backed'
  BY <1>2, <1>8, <1>10, <1>12 DEF Backed
<1>18. Empty(w)'
  BY <1>2, <1>4, <1>5, <1>8, <1>9, <1>10, <1>12 DEF Empty, View
<1>19. Content(w)'
  <2> SUFFICES ASSUME NEW d \in Docs \ overtaken, ~Doomed(d) PROVE ContentOf(w, d)'
    BY <1>2, <1>11 DEF Content
  <2>1. ContentOf(w, d)
    BY DEF Content
  <2>2. CASE d = cur[w]
    <3>1. task[w] = "retry"
      BY <1>3, <2>2 DEF CleanIsMeant
    <3> QED BY <1>4, <1>5, <2>2, <3>1 DEF ContentOf, View
  <2>3. CASE d # cur[w]
    BY <1>2, <1>4, <1>5, <1>8, <2>1, <2>3 DEF ContentOf, View
  <2> QED BY <2>2, <2>3
<1>20. CleanIsMeant(w)'
  BY <1>2, <1>4, <1>11 DEF CleanIsMeant, View
<1> QED BY <1>13, <1>14, <1>15, <1>16, <1>17, <1>18, <1>19, <1>20

(* A retry starts over with nothing.                                        *)
LEMMA ResetKeeps ==
  ASSUME NEW w \in Workers, TypeOK, Parts(w), Reset(w)
  PROVE  Parts(w)'
<1> USE DEF Parts
<1>1. WorkerTyped /\ RowTyped
  BY TypeParts
<1>2. pc[w] = "reset" /\ UNCHANGED <<segs, vectors, queue, request, overtaken>>
  BY DEF Reset, stored, history
<1>3. CASE Gone(cur[w])
  <2>1. UNCHANGED status /\ View(w, "idle", "none", {}, NoDoc, "none", {}, Nothing)
    BY <1>1, <1>3, FreeView DEF Reset
  <2> QED BY <1>2, <1>3, <2>1, StopKeeps DEF Gone
<1>4. CASE ~Gone(cur[w])
  <2>1. /\ status' = [status EXCEPT ![cur[w]] = "parsing"]
        /\ View(w, "extract", task[w], todo[w], cur[w], goal[w], mine[w], grp[w])
    BY <1>1, <1>4, GotoView DEF Reset
  <2>2. \A d \in Docs : /\ status'[d] = IF d = cur[w] THEN "parsing" ELSE status[d]
                        /\ Gone(d)' <=> Gone(d)
    BY <1>1, <1>4, <2>1 DEF RowTyped, Gone
  <2>3. \A d : /\ SegsOf(d)' = SegsOf(d) /\ VectorsOf(d)' = VectorsOf(d)
               /\ (Split(d)' <=> Split(d)) /\ (Finished(d)' <=> Finished(d))
    BY <1>2, StoreKept
  <2>4. \A d \in Docs : Doomed(d)' <=> Doomed(d)
    BY <1>2, <2>2, DoomedKept
  <2>5. ~Adding(w)' /\ ~Loading(w)' /\ \A st : ~Writing(w, st)'
    BY <2>1 DEF Adding, Loading, Writing, View
  <2>6. /\ mine[w] = {} /\ grp[w] = Nothing /\ task[w] # "clean" /\ cur[w] \notin todo[w]
        /\ \A d \in Docs \ overtaken : cur[w] = d => SegsOf(d) = {} /\ VectorsOf(d) = {}
    BY <1>2 DEF Hands, Empty, Adding, Loading, Writing
  <2>7. Hands(w)'
    BY <2>1, <2>6 DEF Hands, View
  <2>8. Holds(w)'
    BY <2>5 DEF Holds
  <2>9. Fits(w)'
    BY <2>1, <2>2, <2>5, <2>6 DEF Fits, View
  <2>10. Start(w)'
    BY <1>2, <2>1, <2>3 DEF Start, View
  <2>11. Backed'
    BY <1>2, <2>3 DEF Backed
  <2>12. Empty(w)'
    BY <1>2, <2>1, <2>2, <2>3, <2>5, <2>6 DEF Empty, View
  <2>13. Content(w)'
    BY <1>2, <2>1, <2>2, <2>3, <2>4, <2>5 DEF Content, ContentOf, View
  <2>14. CleanIsMeant(w)'
    BY <1>2, <2>1, <2>4, <2>6 DEF CleanIsMeant, View
  <2> QED BY <2>7, <2>8, <2>9, <2>10, <2>11, <2>12, <2>13, <2>14
<1> QED BY <1>3, <1>4

-----------------------------------------------------------------------------
(* The runner, from one place to the next.                                  *)

(* What a worker leaves as it is when it only goes from place to place. *)
LEMMA Still ==
  ASSUME UNCHANGED <<status, segs, vectors, request>>
  PROVE  /\ \A d : /\ SegsOf(d)' = SegsOf(d) /\ VectorsOf(d)' = VectorsOf(d)
                   /\ (Split(d)' <=> Split(d)) /\ (Finished(d)' <=> Finished(d))
         /\ \A d \in Docs : Doomed(d)' <=> Doomed(d)
<1>1. \A d : /\ SegsOf(d)' = SegsOf(d) /\ VectorsOf(d)' = VectorsOf(d)
             /\ (Split(d)' <=> Split(d)) /\ (Finished(d)' <=> Finished(d))
  BY StoreKept
<1>2. \A d \in Docs : Doomed(d)' <=> Doomed(d)
  BY DoomedKept DEF Gone
<1> QED BY <1>1, <1>2

(* The next document of the batch is begun. *)
LEMMA NextDocKeeps ==
  ASSUME NEW w \in Workers, TypeOK, Parts(w), NEW e \in Docs, NextDoc(w, e)
  PROVE  Parts(w)'
<1> USE DEF Parts
<1>1. WorkerTyped
  BY TypeParts
<1>2. /\ pc[w] = "next" /\ e \in todo[w]
      /\ UNCHANGED <<status, segs, vectors, queue, request, overtaken>>
      /\ View(w, IF Gone(e) THEN "next" ELSE "extract", task[w], todo[w] \ {e}, e, goal[w],
              mine[w], grp[w])
  BY <1>1 DEF NextDoc, Goto, View, WorkerTyped, row, stored, history
<1>3. /\ \A d : /\ SegsOf(d)' = SegsOf(d) /\ VectorsOf(d)' = VectorsOf(d)
                /\ (Split(d)' <=> Split(d)) /\ (Finished(d)' <=> Finished(d))
      /\ \A d \in Docs : Doomed(d)' <=> Doomed(d)
  BY <1>2, Still
<1>4. ~Adding(w)' /\ ~Loading(w)' /\ \A st : ~Writing(w, st)'
  BY <1>2 DEF Adding, Loading, Writing, View
<1>5. mine[w] = {} /\ grp[w] = Nothing /\ task[w] # "clean"
  BY <1>2 DEF Hands, Adding, Loading, Writing
<1>6. SegsOf(e) = {} /\ VectorsOf(e) = {} /\ status[e] \in {"waiting", "parsing", "deleted"}
  BY <1>2 DEF Start, Fits
<1>7. Hands(w)'
  BY <1>2, <1>5 DEF Hands, View
<1>8. Holds(w)'
  BY <1>4 DEF Holds
<1>9. Fits(w)'
  BY <1>2, <1>4, <1>6 DEF Fits, View
<1>10. Start(w)'
  BY <1>2, <1>3 DEF Start, View
<1>11. Backed'
  BY <1>2, <1>3 DEF Backed
<1>12. Empty(w)'
  BY <1>2, <1>3, <1>4, <1>6 DEF Empty, View
<1>13. Content(w)'
  BY <1>2, <1>3, <1>4 DEF Content, ContentOf, View
<1>14. CleanIsMeant(w)'
  BY <1>2, <1>3, <1>5 DEF CleanIsMeant, View
<1> QED BY <1>7, <1>8, <1>9, <1>10, <1>11, <1>12, <1>13, <1>14

(* The steps that write neither the row nor the store and keep the document: *)
(* the place, the announced status, the segments and the pool change.        *)
MoveHands(w, l, m, p) ==
  /\ l \in {"next", "purge"} \/ Fresh(w)' => m = {}
  /\ Adding(w)' \/ Loading(w)' \/ p = Nothing
  /\ \A s \in m : DocOf[s[2]] = cur[w]

MoveFits(w, l) ==
  \A d \in Docs : cur[w] = d =>
    /\ Fresh(w)' => status[d] \in {"waiting", "parsing", "splitting", "deleted"}
    /\ l \in {"purge", "transform", "add"} \/ Writing(w, "indexing")'
         => status[d] \in {"waiting", "splitting", "deleted"}
    /\ Loading(w)' => status[d] \in {"waiting", "indexing", "deleted"}

MoveEmpty(w, l, m) ==
  \A d \in Docs \ overtaken : cur[w] = d =>
    /\ l = "purge" \/ Fresh(w)' \/ Adding(w)' => VectorsOf(d) = {}
    /\ Fresh(w)' => SegsOf(d) = {}
    /\ Adding(w)' => SegsOf(d) \subseteq m

MoveContent(w, m, p) ==
  \A d \in Docs \ overtaken : cur[w] = d /\ ~Doomed(d) /\ Loading(w)' =>
    /\ Split(d)
    /\ \A s \in SegsOf(d) : s \notin m \/ p[s] = "done" => segs[s] = "completed"

LEMMA MoveKeeps ==
  ASSUME NEW w \in Workers, Parts(w), NEW l, NEW st, NEW m, NEW p,
         View(w, l, task[w], todo[w], cur[w], st, m, p),
         UNCHANGED <<status, segs, vectors, queue, request, overtaken>>,
         pc[w] \notin {"idle", "cleanVectors", "cleanSegs", "reset", "segStatus"},
         l \notin {"idle", "cleanVectors", "cleanSegs", "reset", "segStatus", "collect"},
         Holds(w)', MoveHands(w, l, m, p), MoveFits(w, l), MoveEmpty(w, l, m),
         MoveContent(w, m, p)
  PROVE  Parts(w)'
<1> USE DEF Parts
<1>1. /\ \A d : /\ SegsOf(d)' = SegsOf(d) /\ VectorsOf(d)' = VectorsOf(d)
                /\ (Split(d)' <=> Split(d)) /\ (Finished(d)' <=> Finished(d))
      /\ \A d \in Docs : Doomed(d)' <=> Doomed(d)
  BY Still
<1>2. task[w] # "clean" /\ cur[w] \notin todo[w]
  BY DEF Hands
<1>3. Hands(w)'
  BY <1>2 DEF Hands, View, MoveHands
<1>4. Fits(w)'
  BY DEF Fits, View, MoveFits
<1>5. Start(w)'
  BY <1>1 DEF Start, View
<1>6. Backed'
  BY <1>1 DEF Backed
<1>7. Empty(w)'
  BY <1>1 DEF Empty, View, MoveEmpty
<1>8. Content(w)'
  <2> SUFFICES ASSUME NEW d \in Docs \ overtaken, ~Doomed(d) PROVE ContentOf(w, d)'
    BY <1>1 DEF Content
  <2>1. ContentOf(w, d)
    BY DEF Content
  <2> QED BY <1>1, <2>1 DEF ContentOf, View, MoveContent
<1>9. CleanIsMeant(w)'
  BY <1>1, <1>2 DEF CleanIsMeant, View
<1> QED BY <1>3, <1>4, <1>5, <1>6, <1>7, <1>8, <1>9

LEMMA StopSteps ==
  ASSUME NEW w \in Workers, TypeOK, Parts(w), ErrorOut(w) \/ PausedOut(w) \/ Skip(w),
         pc[w] \notin {"idle", "segStatus", "reset", "cleanVectors", "cleanSegs"}
  PROVE  Parts(w)'
<1>1. WorkerTyped /\ RowTyped
  BY TypeParts
<1>2. UNCHANGED <<segs, vectors, queue, request, overtaken>>
  BY DEF ErrorOut, PausedOut, Skip, stored, history
<1>3. \/ View(w, "idle", "none", {}, NoDoc, "none", {}, Nothing)
      \/ View(w, "next", task[w], todo[w], cur[w], "none", {}, Nothing)
  BY <1>1, FreeView, FinishView DEF ErrorOut, PausedOut, Skip
<1>4. ASSUME NEW d \in Docs
      PROVE  /\ Gone(d)' <=> Gone(d)
             /\ status'[d] = status[d] \/ (d = cur[w] /\ status'[d] = "error")
  <2>1. CASE status' = SetStatus(cur[w], "error")
    BY <1>1, <2>1, StatusIs
  <2>2. CASE UNCHANGED status
    BY <2>2 DEF Gone
  <2> QED BY <2>1, <2>2 DEF ErrorOut, PausedOut, Skip, row
<1> QED BY <1>2, <1>3, <1>4, StopKeeps

LEMMA EndTaskKeeps ==
  ASSUME NEW w \in Workers, TypeOK, Parts(w), EndTask(w) PROVE Parts(w)'
<1>1. WorkerTyped
  BY TypeParts
<1>2. /\ pc[w] = "next" /\ UNCHANGED <<status, segs, vectors, queue, request, overtaken>>
      /\ View(w, "idle", "none", {}, NoDoc, "none", {}, Nothing)
  BY <1>1, FreeView DEF EndTask, row, stored, history
<1> QED BY <1>2, StopKeeps DEF Gone

LEMMA ExtractKeeps ==
  ASSUME NEW w \in Workers, TypeOK, Parts(w), Extract(w) PROVE Parts(w)'
<1> USE DEF Parts
<1>1. WorkerTyped
  BY TypeParts
<1>2. /\ pc[w] = "extract" /\ UNCHANGED <<status, segs, vectors, queue, request, overtaken>>
      /\ View(w, "check", task[w], todo[w], cur[w], "splitting", mine[w], grp[w])
  BY <1>1, AnnounceView DEF Extract, row, stored, history
<1>3. /\ Fresh(w) /\ Fresh(w)' /\ ~Adding(w)' /\ ~Loading(w)'
      /\ ~Adding(w) /\ ~Loading(w) /\ ~Writing(w, "indexing")'
  BY <1>2 DEF Fresh, Adding, Loading, Writing, View
<1>4. Holds(w)'
  BY <1>3 DEF Holds, Loading
<1>5. MoveHands(w, "check", mine[w], grp[w])
  BY <1>2, <1>3, <1>4 DEF Hands, MoveHands
<1>6. MoveFits(w, "check")
  BY <1>2, <1>3, <1>4 DEF Fits, MoveFits
<1>7. MoveEmpty(w, "check", mine[w])
  BY <1>2, <1>3, <1>4 DEF Empty, MoveEmpty
<1>8. MoveContent(w, mine[w], grp[w])
  BY <1>2, <1>3, <1>4 DEF Content, ContentOf, MoveContent
<1> QED BY <1>2, <1>3, <1>4, <1>5, <1>6, <1>7, <1>8, MoveKeeps

LEMMA CheckDocumentKeeps ==
  ASSUME NEW w \in Workers, TypeOK, Parts(w), CheckDocument(w) PROVE Parts(w)'
<1> USE DEF Parts
<1>1. WorkerTyped
  BY TypeParts
<1>2. pc[w] = "check"
  BY DEF CheckDocument
<1>3. CASE Gone(cur[w]) \/ isPaused[cur[w]]
  BY <1>2, <1>3, StopSteps DEF CheckDocument
<1>4. CASE ~Gone(cur[w]) /\ ~isPaused[cur[w]]
  <2>1. /\ UNCHANGED <<status, segs, vectors, queue, request, overtaken>>
        /\ View(w, "write", task[w], todo[w], cur[w], goal[w], mine[w], grp[w])
    BY <1>1, <1>4, GotoView DEF CheckDocument, row, stored, history
  <2>2. /\ (Fresh(w)' <=> Fresh(w)) /\ (Adding(w)' <=> Adding(w))
        /\ (Loading(w)' <=> Loading(w))
        /\ Writing(w, "indexing")' <=> Writing(w, "indexing")
        /\ Writing(w, "completed")' <=> Writing(w, "completed")
    BY <1>2, <2>1 DEF Fresh, Adding, Loading, Writing, View
  <2>3. Holds(w)'
    BY <1>2, <2>1, <2>2 DEF Holds, View, Exists, Splitting
  <2>4. MoveHands(w, "write", mine[w], grp[w])
    BY <1>2, <2>1, <2>2, <2>3 DEF Hands, MoveHands
  <2>5. MoveFits(w, "write")
    BY <1>2, <2>1, <2>2, <2>3 DEF Fits, MoveFits
  <2>6. MoveEmpty(w, "write", mine[w])
    BY <1>2, <2>1, <2>2, <2>3 DEF Empty, MoveEmpty
  <2>7. MoveContent(w, mine[w], grp[w])
    BY <1>2, <2>1, <2>2, <2>3 DEF Content, ContentOf, MoveContent
  <2> QED BY <1>2, <2>1, <2>2, <2>3, <2>4, <2>5, <2>6, <2>7, MoveKeeps
<1> QED BY <1>3, <1>4

LEMMA AddedKeeps ==
  ASSUME NEW w \in Workers, TypeOK, Parts(w), Added(w) PROVE Parts(w)'
<1> USE DEF Parts
<1>1. WorkerTyped
  BY TypeParts
<1>2. pc[w] = "add"
  BY DEF Added
<1>3. CASE Skip(w)
  BY <1>2, <1>3, StopSteps
<1>4. CASE ~Skip(w)
  <2>1. /\ pc[w] = "add" /\ UNCHANGED <<status, segs, vectors, queue, request, overtaken>>
        /\ \A s \in mine[w] : grp[w][s] # "out"
        /\ View(w, "check", task[w], todo[w], cur[w], "indexing", mine[w], grp[w])
    BY <1>1, <1>4, AnnounceView DEF Added, Unqueued, row, stored, history
  <2>2. Adding(w) /\ Adding(w)' /\ ~Fresh(w)' /\ ~Loading(w)' /\ ~Writing(w, "completed")'
    BY <2>1 DEF Fresh, Adding, Loading, Writing, View
  <2>3. Holds(w)'
    BY <2>1, <2>2 DEF Holds, View, Exists, Splitting
  <2>4. MoveHands(w, "check", mine[w], grp[w])
    BY <2>1, <2>2, <2>3 DEF Hands, MoveHands
  <2>5. MoveFits(w, "check")
    BY <2>1, <2>2, <2>3 DEF Fits, MoveFits
  <2>6. MoveEmpty(w, "check", mine[w])
    BY <2>1, <2>2, <2>3 DEF Empty, MoveEmpty
  <2>7. MoveContent(w, mine[w], grp[w])
    BY <2>1, <2>2, <2>3 DEF Content, ContentOf, MoveContent
  <2> QED BY <2>1, <2>2, <2>3, <2>4, <2>5, <2>6, <2>7, MoveKeeps
<1> QED BY <1>3, <1>4

LEMMA LoadKeeps ==
  ASSUME NEW w \in Workers, TypeOK, Parts(w), Load(w) PROVE Parts(w)'
<1> USE DEF Parts
<1>1. WorkerTyped
  BY TypeParts
<1>2. pc[w] = "load"
  BY DEF Load
<1>3. CASE Gone(cur[w])
  BY <1>2, <1>3, StopSteps DEF Load
<1>4. CASE ~Gone(cur[w])
  <2>1. /\ UNCHANGED <<status, segs, vectors, queue, request, overtaken>>
        /\ View(w, "groups", task[w], todo[w], cur[w], goal[w], mine[w], grp[w])
    BY <1>1, <1>4, GotoView DEF Load, row, stored, history
  <2>2. /\ Loading(w) /\ Loading(w)' /\ ~Fresh(w)' /\ ~Adding(w)'
        /\ ~Writing(w, "indexing")' /\ ~Writing(w, "completed")'
    BY <1>2, <2>1 DEF Fresh, Adding, Loading, Writing, View
  <2>3. Holds(w)'
    BY <2>1, <2>2 DEF Holds, View, Exists
  <2>4. MoveHands(w, "groups", mine[w], grp[w])
    BY <1>2, <2>1, <2>2, <2>3 DEF Hands, MoveHands
  <2>5. MoveFits(w, "groups")
    BY <1>2, <2>1, <2>2, <2>3 DEF Fits, MoveFits
  <2>6. MoveEmpty(w, "groups", mine[w])
    BY <1>2, <2>1, <2>2, <2>3 DEF Empty, MoveEmpty
  <2>7. MoveContent(w, mine[w], grp[w])
    BY <1>2, <2>1, <2>2, <2>3 DEF Content, ContentOf, MoveContent
  <2> QED BY <1>2, <2>1, <2>2, <2>3, <2>4, <2>5, <2>6, <2>7, MoveKeeps
<1> QED BY <1>3, <1>4

LEMMA JoinKeeps ==
  ASSUME NEW w \in Workers, TypeOK, Parts(w), Join(w) PROVE Parts(w)'
<1> USE DEF Parts
<1>1. WorkerTyped
  BY TypeParts
<1>2. pc[w] = "groups"
  BY DEF Join
<1>3. CASE PausedOut(w) \/ ErrorOut(w)
  BY <1>2, <1>3, StopSteps
<1>4. CASE ~(PausedOut(w) \/ ErrorOut(w))
  <2>1. /\ UNCHANGED <<status, segs, vectors, queue, request, overtaken>>
        /\ View(w, "check", task[w], todo[w], cur[w], "completed", mine[w], grp[w])
        /\ \A s \in mine[w] : grp[w][s] = "done"
    BY <1>1, <1>4, AnnounceView DEF Join, row, stored, history
  <2>2. /\ Loading(w) /\ Loading(w)' /\ ~Fresh(w)' /\ ~Adding(w)' /\ ~Writing(w, "indexing")'
    BY <1>2, <2>1 DEF Fresh, Adding, Loading, Writing, View
  <2>3. Holds(w)'
    BY <2>1, <2>2 DEF Holds, View, Exists
  <2>4. MoveHands(w, "check", mine[w], grp[w])
    BY <1>2, <2>1, <2>2, <2>3 DEF Hands, MoveHands
  <2>5. MoveFits(w, "check")
    BY <1>2, <2>1, <2>2, <2>3 DEF Fits, MoveFits
  <2>6. MoveEmpty(w, "check", mine[w])
    BY <1>2, <2>1, <2>2, <2>3 DEF Empty, MoveEmpty
  <2>7. MoveContent(w, mine[w], grp[w])
    BY <1>2, <2>1, <2>2, <2>3 DEF Content, ContentOf, MoveContent
  <2> QED BY <1>2, <2>1, <2>2, <2>3, <2>4, <2>5, <2>6, <2>7, MoveKeeps
<1> QED BY <1>3, <1>4

LEMMA FailsKeeps ==
  ASSUME NEW w \in Workers, TypeOK, Parts(w), Fails(w) PROVE Parts(w)'
BY StopSteps DEF Fails

LEMMA TransformKeepsParts ==
  ASSUME NEW w \in Workers, TypeOK, Parts(w), Transform(w) PROVE Parts(w)'
<1> USE DEF Parts
<1>1. WorkerTyped
  BY TypeParts
<1>2. pc[w] = "transform"
  BY DEF Transform
<1>3. CASE Gone(cur[w])
  BY <1>2, <1>3, StopSteps DEF Transform
<1>4. CASE ~Gone(cur[w])
  <2>1. PICK g \in FreshGens : mine' = [mine EXCEPT ![w] = Splitting(g, cur[w])]
    BY <1>4, TransformIsFresh DEF Splitting
  <2> DEFINE m == Splitting(g, cur[w])
  <2>2. /\ UNCHANGED <<status, segs, vectors, queue, request, overtaken>>
        /\ View(w, "add", task[w], todo[w], cur[w], goal[w], m, grp[w])
        /\ g \in Gens
    BY <1>1, <1>4, <2>1 DEF Transform, Goto, View, WorkerTyped, row, stored, history, FreshGens
  <2>3. /\ Fresh(w) /\ ~Adding(w) /\ ~Loading(w) /\ Adding(w)' /\ ~Loading(w)' /\ ~Fresh(w)'
        /\ ~Writing(w, "indexing")' /\ ~Writing(w, "completed")'
    BY <1>2, <2>2 DEF Fresh, Adding, Loading, Writing, View
  <2>4. grp[w] = Nothing
    BY <2>3 DEF Hands
  <2>5. Holds(w)'
    <3>1. \A s \in m : grp'[w][s] = "out" /\ pc'[w] = "add"
      BY <2>2, <2>4 DEF View, Splitting, Nothing
    <3>2. mine'[w] = m /\ m = Splitting(g, cur[w])' /\ cur'[w] = cur[w]
      BY <2>2 DEF View, Splitting
    <3> QED BY <2>2, <2>3, <3>1, <3>2 DEF Holds, View, Splitting
  <2>6. MoveHands(w, "add", m, grp[w])
    BY <2>3 DEF MoveHands, Splitting
  <2>7. MoveFits(w, "add")
    BY <1>2, <2>3 DEF Fits, MoveFits
  <2>8. MoveEmpty(w, "add", m)
    BY <2>3 DEF Empty, MoveEmpty
  <2>9. MoveContent(w, m, grp[w])
    BY <2>3 DEF MoveContent
  <2> HIDE DEF m
  <2> QED BY <1>2, <2>2, <2>5, <2>6, <2>7, <2>8, <2>9, MoveKeeps
<1> QED BY <1>3, <1>4

(* The segments that are not completed are taken up again. *)
LEMMA CollectKeeps ==
  ASSUME NEW w \in Workers, TypeOK, Parts(w), Collect(w) PROVE Parts(w)'
<1> USE DEF Parts
<1> DEFINE m == {s \in SegsOf(cur[w]) : segs[s] # "completed"}
           p == [s \in Segs |-> IF s \in m THEN "queued" ELSE "out"]
<1>1. WorkerTyped
  BY TypeParts
<1>2. /\ pc[w] = "collect" /\ UNCHANGED <<status, segs, vectors, queue, request, overtaken>>
      /\ mine'[w] = m
  BY <1>1 DEF Collect, WorkerTyped, row, stored, history
<1>3. View(w, "load", task[w], todo[w], cur[w], goal[w], m, p)
  <2>1. grp'[w] = [s \in Segs |-> IF s \in mine'[w] THEN "queued" ELSE "out"]
    BY <1>1 DEF Collect, WorkerTyped
  <2> QED BY <1>1, <1>2, <2>1 DEF Collect, Goto, View, WorkerTyped
<1>4. Loading(w)' /\ ~Adding(w)' /\ ~Fresh(w)' /\ \A st : ~Writing(w, st)'
  BY <1>3 DEF Fresh, Adding, Loading, Writing, View
<1>5. \A s \in m : s \in Segs /\ Exists(s) /\ DocOf[s[2]] = cur[w] /\ p[s] = "queued"
  BY DEF SegsOf
<1>6. \A s \in SegsOf(cur[w]) : s \in Segs /\ p[s] # "done" /\ (s \notin m => segs[s] = "completed")
  BY DEF SegsOf
<1> HIDE DEF m, p
<1>7. Holds(w)'
  BY <1>2, <1>3, <1>4, <1>5 DEF Holds, View, Exists
<1>8. MoveHands(w, "load", m, p)
  BY <1>4, <1>5 DEF MoveHands
<1>9. MoveFits(w, "load")
  BY <1>2, <1>4 DEF Fits, MoveFits
<1>10. MoveEmpty(w, "load", m)
  BY <1>4 DEF MoveEmpty
<1>11. MoveContent(w, m, p)
  BY <1>2, <1>6 DEF Content, ContentOf, MoveContent
<1> QED BY <1>2, <1>3, <1>7, <1>8, <1>9, <1>10, <1>11, MoveKeeps

(* A thread of the pool goes on without a write. *)
LEMMA PoolMoves ==
  ASSUME NEW w \in Workers, TypeOK, Parts(w), NEW u \in Segs, NEW a, NEW b,
         Group(w, u, a, b), b \notin {"out", "done"}, UNCHANGED stored
  PROVE  Parts(w)'
<1> USE DEF Parts
<1> DEFINE p == [grp[w] EXCEPT ![u] = b]
<1>1. WorkerTyped
  BY TypeParts
<1>2. /\ pc[w] = "groups" /\ UNCHANGED <<status, segs, vectors, queue, request, overtaken>>
      /\ View(w, "groups", task[w], todo[w], cur[w], goal[w], mine[w], p)
  BY <1>1 DEF Group, View, WorkerTyped, row, stored, history
<1>3. /\ Loading(w) /\ Loading(w)' /\ ~Adding(w)' /\ ~Fresh(w)' /\ \A st : ~Writing(w, st)'
  BY <1>2 DEF Fresh, Adding, Loading, Writing, View
<1>4. \A s \in Segs : p[s] = IF s = u THEN b ELSE grp[w][s]
  BY <1>1 DEF WorkerTyped
<1> HIDE DEF p
<1>5. mine[w] \subseteq Segs /\ SegsOf(cur[w]) \subseteq Segs
  BY <1>1 DEF WorkerTyped, SegsOf
<1>6. Holds(w)'
  BY <1>2, <1>3, <1>4, <1>5 DEF Holds, View, Exists
<1>7. MoveHands(w, "groups", mine[w], p)
  BY <1>3 DEF Hands, MoveHands
<1>8. MoveFits(w, "groups")
  BY <1>3 DEF Fits, MoveFits
<1>9. MoveEmpty(w, "groups", mine[w])
  BY <1>3 DEF MoveEmpty
<1>10. MoveContent(w, mine[w], p)
  BY <1>3, <1>4, <1>5 DEF Content, ContentOf, MoveContent
<1> QED BY <1>2, <1>6, <1>7, <1>8, <1>9, <1>10, MoveKeeps

LEMMA GroupStillKeeps ==
  ASSUME NEW w \in Workers, TypeOK, Parts(w), NEW s \in Segs, GroupCheck(w, s) \/ GroupFails(w, s)
  PROVE  Parts(w)'
BY PoolMoves DEF GroupCheck, GroupFails

-----------------------------------------------------------------------------
(* The status is written: what it says of the document is so.               *)
LEMMA WriteStatusKeeps ==
  ASSUME NEW w \in Workers, TypeOK, Parts(w), WriteStatus(w), Goals PROVE Parts(w)'
<1> USE DEF Parts
<1> DEFINE st == goal[w]
<1>1. WorkerTyped /\ RowTyped
  BY TypeParts
<1>2. /\ pc[w] = "write" /\ UNCHANGED <<segs, vectors, queue, request, overtaken>>
      /\ status' = SetStatus(cur[w], st)
  BY DEF WriteStatus, stored, history
<1>3. st \in {"splitting", "indexing", "completed"}
  BY <1>1, <1>2 DEF Goals, WorkerTyped
<1>4. \A d \in Docs : /\ Gone(d)' <=> Gone(d)
                      /\ status'[d] = IF d = cur[w] /\ ~Gone(d) THEN st ELSE status[d]
  BY <1>1, <1>2, <1>3, StatusIs
<1>5. \A d : /\ SegsOf(d)' = SegsOf(d) /\ VectorsOf(d)' = VectorsOf(d)
             /\ (Split(d)' <=> Split(d)) /\ (Finished(d)' <=> Finished(d))
  BY <1>2, StoreKept
<1>6. \A d \in Docs : Doomed(d)' <=> Doomed(d)
  BY <1>2, <1>4, DoomedKept
<1>7. View(w, CASE st = "splitting" -> "transform" [] st = "indexing" -> "segStatus"
                [] st = "completed" -> "next",
           task[w], todo[w], cur[w], IF st = "completed" THEN "none" ELSE st,
           IF st = "completed" THEN {} ELSE mine[w],
           IF st = "completed" THEN Nothing ELSE grp[w])
  <2>1. CASE st = "splitting"
    BY <1>1, <2>1, GotoView DEF WriteStatus
  <2>2. CASE st = "indexing"
    BY <1>1, <2>2, GotoView DEF WriteStatus
  <2>3. CASE st = "completed"
    BY <1>1, <2>3, FinishView DEF WriteStatus
  <2> QED BY <1>3, <2>1, <2>2, <2>3
<1>8. task[w] # "clean" /\ cur[w] \notin todo[w]
  BY <1>2 DEF Hands
<1> HIDE DEF st
<1>9. Start(w)'
  BY <1>2, <1>5, <1>7 DEF Start, View
<1>10. Backed'
  BY <1>2, <1>5 DEF Backed
<1>11. CleanIsMeant(w)'
  BY <1>2, <1>6, <1>7, <1>8 DEF CleanIsMeant, View
<1>12. CASE st = "splitting"
  <2>1. /\ pc'[w] = "transform" /\ goal'[w] = "splitting" /\ cur'[w] = cur[w]
        /\ mine'[w] = mine[w] /\ grp'[w] = grp[w] /\ todo'[w] = todo[w] /\ task'[w] = task[w]
    BY <1>7, <1>12 DEF View
  <2>2. /\ Fresh(w) /\ Fresh(w)' /\ ~Adding(w)' /\ ~Loading(w)' /\ ~Adding(w) /\ ~Loading(w)
        /\ ~Writing(w, "indexing")' /\ ~Writing(w, "completed")'
    BY <1>2, <1>12, <2>1 DEF Fresh, Adding, Loading, Writing, st
  <2>3. Hands(w)' /\ Holds(w)'
    BY <1>8, <2>1, <2>2 DEF Hands, Holds
  <2>4. Fits(w)'
    BY <1>4, <1>12, <2>1, <2>2, <1>8 DEF Fits, Gone
  <2>5. Empty(w)'
    BY <1>2, <1>4, <1>5, <1>12, <2>1, <2>2 DEF Empty
  <2>6. Content(w)'
    BY <1>2, <1>4, <1>5, <1>6, <1>12, <2>1, <2>2 DEF Content, ContentOf
  <2> QED BY <1>9, <1>10, <1>11, <2>3, <2>4, <2>5, <2>6
<1>13. CASE st = "indexing"
  <2>1. /\ pc'[w] = "segStatus" /\ goal'[w] = "indexing" /\ cur'[w] = cur[w]
        /\ mine'[w] = mine[w] /\ grp'[w] = grp[w] /\ todo'[w] = todo[w] /\ task'[w] = task[w]
    BY <1>7, <1>13 DEF View
  <2>2. /\ Adding(w) /\ Adding(w)' /\ ~Fresh(w)' /\ ~Loading(w)'
        /\ ~Writing(w, "indexing")' /\ ~Writing(w, "completed")'
    BY <1>2, <1>13, <2>1 DEF Fresh, Adding, Loading, Writing, st
  <2>3. Hands(w)'
    BY <1>8, <2>1, <2>2 DEF Hands
  <2>4. Holds(w)'
    BY <1>2, <2>1, <2>2 DEF Holds, Exists, Splitting
  <2>5. Fits(w)'
    BY <1>4, <1>13, <2>1, <2>2, <1>8 DEF Fits, Gone
  <2>6. Empty(w)'
    BY <1>2, <1>4, <1>5, <1>13, <2>1, <2>2 DEF Empty
  <2>7. Content(w)'
    BY <1>2, <1>4, <1>5, <1>6, <1>13, <2>1, <2>2 DEF Content, ContentOf
  <2> QED BY <1>9, <1>10, <1>11, <2>3, <2>4, <2>5, <2>6, <2>7
<1>14. CASE st = "completed"
  <2>1. /\ pc'[w] = "next" /\ goal'[w] = "none" /\ cur'[w] = cur[w]
        /\ mine'[w] = {} /\ grp'[w] = Nothing /\ todo'[w] = todo[w] /\ task'[w] = task[w]
    BY <1>7, <1>14 DEF View
  <2>2. /\ Loading(w) /\ ~Fresh(w)' /\ ~Adding(w)' /\ ~Loading(w)'
        /\ Writing(w, "completed") /\ \A x : ~Writing(w, x)'
    BY <1>2, <1>14, <2>1 DEF Fresh, Adding, Loading, Writing, st
  <2>3. Hands(w)' /\ Holds(w)'
    BY <1>8, <2>1, <2>2 DEF Hands, Holds
  <2>4. Fits(w)'
    BY <1>4, <2>1, <2>2, <1>8 DEF Fits
  <2>5. Empty(w)'
    BY <1>2, <1>4, <1>5, <1>14, <2>1, <2>2 DEF Empty
  <2>6. Content(w)'
    <3> SUFFICES ASSUME NEW d \in Docs \ overtaken, ~Doomed(d) PROVE ContentOf(w, d)'
      BY <1>2, <1>6 DEF Content
    <3>1. ContentOf(w, d)
      BY DEF Content
    <3>2. cur[w] = d => Finished(d)
      BY <2>2, <3>1 DEF ContentOf, Holds, Finished
    <3> QED BY <1>2, <1>4, <1>5, <1>14, <2>1, <2>2, <3>1, <3>2 DEF ContentOf
  <2> QED BY <1>9, <1>10, <1>11, <2>3, <2>4, <2>5, <2>6
<1> QED BY <1>3, <1>12, <1>13, <1>14

-----------------------------------------------------------------------------
(* The segments and vectors of the document are written.                    *)

(* The rows of other documents stay, and so does what the worker holds. *)
OthersKept(w) ==
  \A d : d # cur[w] => /\ SegsOf(d)' = SegsOf(d) /\ VectorsOf(d)' = VectorsOf(d)
                       /\ (Split(d)' <=> Split(d)) /\ (Finished(d)' <=> Finished(d))

RowsFit(w, l, p) ==
  \A d \in Docs \ overtaken : d = cur[w] =>
    /\ VectorsOf(d)' \subseteq SegsOf(d)'
    /\ status[d] \in {"waiting", "splitting", "indexing", "deleted"}
    /\ status[d] = "splitting" \/ l = "purge" \/ Fresh(w)' \/ Adding(w)' => VectorsOf(d)' = {}
    /\ Fresh(w)' => SegsOf(d)' = {}
    /\ Adding(w)' => SegsOf(d)' \subseteq mine[w]
    /\ ~Doomed(d) /\ (status[d] = "indexing" \/ Loading(w)') => Split(d)'
    /\ ~Doomed(d) /\ Loading(w)' =>
         \A s \in SegsOf(d)' : s \notin mine[w] \/ p[s] = "done" => segs'[s] = "completed"

LEMMA RowsWritten ==
  ASSUME NEW w \in Workers, Parts(w), NEW l, NEW st, NEW p,
         View(w, l, task[w], todo[w], cur[w], st, mine[w], p),
         UNCHANGED <<status, queue, request, overtaken>>,
         pc[w] \notin {"idle", "cleanVectors", "cleanSegs", "reset"},
         l \notin {"idle", "cleanVectors", "cleanSegs", "reset", "segStatus", "collect"},
         OthersKept(w), Holds(w)', MoveHands(w, l, mine[w], p), MoveFits(w, l),
         RowsFit(w, l, p)
  PROVE  Parts(w)'
<1> USE DEF Parts
<1>1. \A d \in Docs : Doomed(d)' <=> Doomed(d)
  BY DoomedKept DEF Gone
<1>2. task[w] # "clean" /\ cur[w] \notin todo[w]
  BY DEF Hands
<1>3. Hands(w)'
  BY <1>2 DEF Hands, View, MoveHands
<1>4. Fits(w)'
  BY DEF Fits, View, MoveFits
<1>5. Start(w)'
  BY <1>2 DEF Start, View, OthersKept
<1>6. Backed'
  BY DEF Backed, OthersKept, RowsFit
<1>7. Empty(w)'
  BY DEF Empty, View, OthersKept, RowsFit
<1>8. Content(w)'
  <2> SUFFICES ASSUME NEW d \in Docs \ overtaken, ~Doomed(d) PROVE ContentOf(w, d)'
    BY <1>1 DEF Content
  <2>1. ContentOf(w, d)
    BY DEF Content
  <2>2. CASE d = cur[w]
    BY <2>2 DEF ContentOf, View, RowsFit
  <2>3. CASE d # cur[w]
    BY <2>1, <2>3 DEF ContentOf, View, OthersKept
  <2> QED BY <2>2, <2>3
<1>9. CleanIsMeant(w)'
  BY <1>1, <1>2 DEF CleanIsMeant, View
<1> QED BY <1>3, <1>4, <1>5, <1>6, <1>7, <1>8, <1>9

LEMMA PurgeKeeps ==
  ASSUME NEW w \in Workers, TypeOK, Parts(w), Purge(w) PROVE Parts(w)'
<1> USE DEF Parts
<1>1. WorkerTyped
  BY TypeParts
<1>2. /\ pc[w] = "purge" /\ UNCHANGED <<status, vectors, queue, request, overtaken>>
      /\ View(w, "extract", task[w], todo[w], cur[w], goal[w], mine[w], grp[w])
      /\ \A s \in Segs : segs'[s] = IF DocOf[s[2]] = cur[w] THEN "none" ELSE segs[s]
  BY <1>1, GotoView DEF Purge, row, history
<1>3. Fresh(w)' /\ ~Adding(w)' /\ ~Loading(w)' /\ ~Adding(w) /\ ~Loading(w) /\ \A st : ~Writing(w, st)'
  BY <1>2 DEF Fresh, Adding, Loading, Writing, View
<1>4. \A d : VectorsOf(d)' = VectorsOf(d)
  BY <1>2 DEF VectorsOf
<1>5. \A d : d # cur[w] => /\ SegsOf(d)' = SegsOf(d) /\ (Split(d)' <=> Split(d))
                           /\ (Finished(d)' <=> Finished(d))
  BY <1>2, RowsElsewhere
<1>7. \A d \in Docs : d = cur[w] => SegsOf(d)' = {}
  BY <1>2 DEF SegsOf, Exists
<1>8. Holds(w)'
  BY <1>3 DEF Holds
<1>9. MoveHands(w, "extract", mine[w], grp[w]) /\ MoveFits(w, "extract")
  BY <1>2, <1>3 DEF Hands, Fits, MoveHands, MoveFits
<1>10. \A d \in Docs \ overtaken : d = cur[w] =>
         VectorsOf(d) = {} /\ status[d] \in {"waiting", "splitting", "deleted"}
  BY <1>2 DEF Empty, Fits
<1>11. OthersKept(w)
  BY <1>4, <1>5 DEF OthersKept
<1>12. RowsFit(w, "extract", grp[w])
  BY <1>3, <1>4, <1>7, <1>10 DEF RowsFit
<1> QED BY <1>2, <1>8, <1>9, <1>11, <1>12, RowsWritten

LEMMA AddSegmentKeepsParts ==
  ASSUME NEW w \in Workers, TypeOK, Parts(w), NEW u \in Segs, AddSegment(w, u) PROVE Parts(w)'
<1> USE DEF Parts
<1> DEFINE p == [grp[w] EXCEPT ![u] = "queued"]
<1>1. WorkerTyped /\ StoreTyped
  BY TypeParts
<1>2. /\ pc[w] = "add" /\ u \in mine[w] /\ UNCHANGED <<status, vectors, queue, request, overtaken>>
      /\ View(w, "add", task[w], todo[w], cur[w], goal[w], mine[w], p)
      /\ \A s \in Segs : segs'[s] = IF s = u THEN "waiting" ELSE segs[s]
  BY <1>1 DEF AddSegment, Unqueued, View, WorkerTyped, StoreTyped, row, history
<1>3. /\ Adding(w) /\ Adding(w)' /\ ~Fresh(w)' /\ ~Loading(w)' /\ \A st : ~Writing(w, st)'
  BY <1>2 DEF Fresh, Adding, Loading, Writing, View
<1>4. \A s \in Segs : p[s] = IF s = u THEN "queued" ELSE grp[w][s]
  BY <1>1 DEF WorkerTyped
<1> HIDE DEF p
<1>5. mine[w] \subseteq Segs /\ DocOf[u[2]] = cur[w]
  BY <1>1, <1>2 DEF WorkerTyped, Hands
<1>6. \A d : VectorsOf(d)' = VectorsOf(d)
  BY <1>2 DEF VectorsOf
<1>7. \A d : d # cur[w] => /\ SegsOf(d)' = SegsOf(d) /\ (Split(d)' <=> Split(d))
                           /\ (Finished(d)' <=> Finished(d))
  BY <1>2, <1>5, RowsElsewhere
<1>8. \A d \in Docs : d = cur[w] => SegsOf(d)' = SegsOf(d) \cup {u}
  BY <1>2, <1>5 DEF SegsOf, Exists
<1>9. Holds(w)'
  <2>1. PICK g \in Gens : mine[w] = Splitting(g, cur[w])
    BY <1>3 DEF Holds
  <2>2. mine'[w] = Splitting(g, cur[w])'
    BY <1>2, <2>1 DEF View, Splitting
  <2>3. \A s \in mine[w] : \/ p[s] = "queued" /\ segs'[s] # "none"
                           \/ p[s] = "out"
    BY <1>2, <1>3, <1>4, <1>5 DEF Holds, Exists
  <2> QED BY <1>2, <1>3, <2>2, <2>3 DEF Holds, View, Exists
<1>10. MoveHands(w, "add", mine[w], p) /\ MoveFits(w, "add")
  BY <1>2, <1>3 DEF Hands, Fits, MoveHands, MoveFits
<1>11. \A d \in Docs \ overtaken : d = cur[w] =>
         /\ VectorsOf(d) = {} /\ status[d] \in {"waiting", "splitting", "deleted"}
         /\ SegsOf(d) \subseteq mine[w]
  BY <1>2, <1>3 DEF Empty, Fits
<1>12. OthersKept(w)
  BY <1>6, <1>7 DEF OthersKept
<1>13. RowsFit(w, "add", p)
  BY <1>2, <1>3, <1>6, <1>8, <1>11 DEF RowsFit
<1> QED BY <1>2, <1>9, <1>10, <1>12, <1>13, RowsWritten

(* The segments that were just added are one splitting. *)
LEMMA OneOfEach ==
  ASSUME NEW d, NEW g \in Gens, NEW c \in Chunks, DocOf[c] = d
  PROVE  {s \in Splitting(g, d) : s[2] = c} = {<<g, c>>}
<1>1. <<g, c>> \in Splitting(g, d)
  BY DEF Splitting, Segs
<1>2. ASSUME NEW s \in Splitting(g, d), s[2] = c PROVE s = <<g, c>>
  BY <1>2 DEF Splitting, Segs
<1> QED BY <1>1, <1>2

LEMMA SegmentStatusKeeps ==
  ASSUME NEW w \in Workers, TypeOK, Parts(w), SegmentStatus(w) PROVE Parts(w)'
<1> USE DEF Parts
<1>1. WorkerTyped
  BY TypeParts
<1>2. /\ pc[w] = "segStatus" /\ UNCHANGED <<status, vectors, queue, request, overtaken>>
      /\ View(w, "load", task[w], todo[w], cur[w], goal[w], mine[w], grp[w])
      /\ \A s \in Segs : segs'[s] = IF s \in SegsOf(cur[w]) THEN "indexing" ELSE segs[s]
  BY <1>1, GotoView DEF SegmentStatus, row, history
<1>3. Adding(w) /\ Loading(w)' /\ ~Adding(w)' /\ ~Fresh(w)' /\ \A st : ~Writing(w, st)'
  BY <1>2 DEF Fresh, Adding, Loading, Writing, View
<1>4. \A s \in Segs : segs'[s] # "none" <=> segs[s] # "none"
  BY <1>2 DEF SegsOf, Exists
<1>5. \A d : VectorsOf(d)' = VectorsOf(d) /\ SegsOf(d)' = SegsOf(d)
  BY <1>2, <1>4 DEF VectorsOf, SegsOf, Exists
<1>6. \A d : d # cur[w] => (Split(d)' <=> Split(d)) /\ (Finished(d)' <=> Finished(d))
  <2>1. \A s \in Segs : DocOf[s[2]] # cur[w] => segs'[s] = segs[s]
    BY <1>2 DEF SegsOf
  <2> QED BY <2>1, RowsElsewhere
<1>7. mine[w] \subseteq Segs
  BY <1>1 DEF WorkerTyped
<1>8. \A s \in mine[w] : grp[w][s] = "queued" /\ Exists(s) /\ DocOf[s[2]] = cur[w]
  BY <1>2, <1>3 DEF Holds, Hands
<1>9. ASSUME NEW d \in Docs \ overtaken, d = cur[w]
      PROVE  /\ Split(d)' /\ VectorsOf(d) = {} /\ SegsOf(d) \subseteq mine[w]
             /\ status[d] \in {"waiting", "indexing", "deleted"}
  <2>1. SegsOf(d) \subseteq mine[w] /\ VectorsOf(d) = {}
    BY <1>3, <1>9 DEF Empty
  <2>2. mine[w] = SegsOf(d)
    BY <1>7, <1>8, <1>9, <2>1 DEF SegsOf
  <2>3. PICK g \in Gens : mine[w] = Splitting(g, d)
    BY <1>3, <1>9 DEF Holds
  <2>4. SegsOf(d)' = Splitting(g, d)
    BY <1>5, <2>2, <2>3
  <2>5. \A s \in SegsOf(d)' : segs'[s] = "indexing"
    BY <1>2, <1>5, <1>9 DEF SegsOf
  <2>6. Split(d)'
    BY <2>4, <2>5, OneOfEach DEF Split
  <2> QED BY <1>2, <1>9, <2>1, <2>6 DEF Fits
<1>10. Holds(w)'
  BY <1>2, <1>3, <1>4, <1>7, <1>8 DEF Holds, View, Exists
<1>11. MoveHands(w, "load", mine[w], grp[w]) /\ MoveFits(w, "load")
  BY <1>2, <1>3 DEF Hands, Fits, MoveHands, MoveFits
<1>12. \A s \in mine[w] : grp[w][s] # "done"
  BY <1>8
<1>13. OthersKept(w)
  BY <1>5, <1>6 DEF OthersKept
<1>14. RowsFit(w, "load", grp[w])
  BY <1>3, <1>5, <1>9, <1>12 DEF RowsFit
<1> QED BY <1>2, <1>10, <1>11, <1>13, <1>14, RowsWritten

LEMMA GroupLoadKeepsParts ==
  ASSUME NEW w \in Workers, TypeOK, Parts(w), NEW u \in Segs, GroupLoad(w, u) PROVE Parts(w)'
<1> USE DEF Parts
<1> DEFINE p == [grp[w] EXCEPT ![u] = "stored"]
<1>1. WorkerTyped
  BY TypeParts
<1>2. /\ pc[w] = "groups" /\ u \in mine[w] /\ UNCHANGED <<status, segs, queue, request, overtaken>>
      /\ View(w, "groups", task[w], todo[w], cur[w], goal[w], mine[w], p)
      /\ vectors' = vectors \cup {u}
  BY <1>1 DEF GroupLoad, Group, View, WorkerTyped, row, history
<1>3. Loading(w) /\ Loading(w)' /\ ~Adding(w)' /\ ~Fresh(w)' /\ \A st : ~Writing(w, st)'
  BY <1>2 DEF Fresh, Adding, Loading, Writing, View
<1>4. \A s \in Segs : p[s] = IF s = u THEN "stored" ELSE grp[w][s]
  BY <1>1 DEF WorkerTyped
<1> HIDE DEF p
<1>5. mine[w] \subseteq Segs /\ DocOf[u[2]] = cur[w] /\ Exists(u)
  BY <1>1, <1>2, <1>3 DEF WorkerTyped, Hands, Holds
<1>6. \A d : /\ SegsOf(d)' = SegsOf(d)
             /\ (Split(d)' <=> Split(d)) /\ (Finished(d)' <=> Finished(d))
  <2> SUFFICES ASSUME NEW d
               PROVE  /\ SegsOf(d)' = SegsOf(d)
                      /\ (Split(d)' <=> Split(d)) /\ (Finished(d)' <=> Finished(d))
    OBVIOUS
  <2>1. SegsOf(d)' = SegsOf(d)
    BY <1>2 DEF SegsOf, Exists
  <2> QED BY <1>2, <2>1 DEF Split, Finished
<1>7. \A d : d # cur[w] => VectorsOf(d)' = VectorsOf(d)
  BY <1>2, <1>5 DEF VectorsOf
<1>8. \A d : d = cur[w] => VectorsOf(d)' = VectorsOf(d) \cup {u} /\ u \in SegsOf(d)
  BY <1>2, <1>5 DEF VectorsOf, SegsOf
<1>9. Holds(w)'
  BY <1>2, <1>3, <1>4, <1>5 DEF Holds, View, Exists
<1>10. MoveHands(w, "groups", mine[w], p) /\ MoveFits(w, "groups")
  BY <1>2, <1>3 DEF Hands, Fits, MoveHands, MoveFits
<1>11. OthersKept(w)
  BY <1>6, <1>7 DEF OthersKept
<1>12. ASSUME NEW d \in Docs \ overtaken, d = cur[w]
       PROVE  /\ VectorsOf(d) \subseteq SegsOf(d) /\ status[d] \in {"waiting", "indexing", "deleted"}
              /\ ~Doomed(d) =>
                   /\ Split(d)
                   /\ \A s \in SegsOf(d) : s \notin mine[w] \/ p[s] = "done" => segs[s] = "completed"
  <2>1. ~Doomed(d) => ContentOf(w, d)
    BY DEF Content
  <2>2. SegsOf(d) \subseteq Segs
    BY DEF SegsOf
  <2> QED BY <1>3, <1>4, <1>12, <2>1, <2>2 DEF Backed, Fits, ContentOf
<1>13. RowsFit(w, "groups", p)
  BY <1>2, <1>3, <1>6, <1>8, <1>12 DEF RowsFit
<1> QED BY <1>2, <1>9, <1>10, <1>11, <1>13, RowsWritten

LEMMA GroupMarkKeepsParts ==
  ASSUME NEW w \in Workers, TypeOK, Parts(w), NEW u \in Segs, GroupMark(w, u) PROVE Parts(w)'
<1> USE DEF Parts
<1> DEFINE p == [grp[w] EXCEPT ![u] = "done"]
<1>1. WorkerTyped /\ StoreTyped
  BY TypeParts
<1>2. /\ pc[w] = "groups" /\ u \in mine[w]
      /\ UNCHANGED <<status, vectors, queue, request, overtaken>>
      /\ View(w, "groups", task[w], todo[w], cur[w], goal[w], mine[w], p)
  BY <1>1 DEF GroupMark, Group, View, WorkerTyped, row, history
<1>3. \A s \in Segs : segs'[s] = IF s = u /\ segs[s] = "indexing" THEN "completed" ELSE segs[s]
  BY <1>1 DEF GroupMark, StoreTyped
<1>4. Loading(w) /\ Loading(w)' /\ ~Adding(w)' /\ ~Fresh(w)' /\ \A st : ~Writing(w, st)'
  BY <1>2 DEF Fresh, Adding, Loading, Writing, View
<1>5. \A s \in Segs : p[s] = IF s = u THEN "done" ELSE grp[w][s]
  BY <1>1 DEF WorkerTyped
<1> HIDE DEF p
<1>6. mine[w] \subseteq Segs /\ DocOf[u[2]] = cur[w]
  BY <1>1, <1>2 DEF WorkerTyped, Hands
<1>7. \A s \in Segs : segs'[s] # "none" <=> segs[s] # "none"
  BY <1>3
<1>8. \A d : VectorsOf(d)' = VectorsOf(d) /\ SegsOf(d)' = SegsOf(d)
  BY <1>2, <1>7 DEF VectorsOf, SegsOf, Exists
<1>9. \A d : d # cur[w] => (Split(d)' <=> Split(d)) /\ (Finished(d)' <=> Finished(d))
  BY <1>3, <1>6, RowsElsewhere
<1>10. Holds(w)'
  BY <1>2, <1>4, <1>5, <1>6, <1>7 DEF Holds, View, Exists
<1>11. MoveHands(w, "groups", mine[w], p) /\ MoveFits(w, "groups")
  BY <1>2, <1>4 DEF Hands, Fits, MoveHands, MoveFits
<1>12. OthersKept(w)
  BY <1>8, <1>9 DEF OthersKept
<1>13. ASSUME NEW d \in Docs \ overtaken, d = cur[w]
       PROVE  /\ VectorsOf(d) \subseteq SegsOf(d) /\ status[d] \in {"waiting", "indexing", "deleted"}
              /\ ~Doomed(d) =>
                   /\ Split(d)'
                   /\ \A s \in SegsOf(d) : s \notin mine[w] \/ p[s] = "done" => segs'[s] = "completed"
  <2>1. ~Doomed(d) => ContentOf(w, d)
    BY DEF Content
  <2>2. SegsOf(d) \subseteq Segs
    BY DEF SegsOf
  <2>3. ~Doomed(d) => \A s \in SegsOf(d) : segs[s] \in {"indexing", "completed"}
    BY <1>4, <1>13, <2>1 DEF ContentOf, Split
  <2>4. ~Doomed(d) => Split(d)'
    <3>1. ~Doomed(d) => Split(d)
      BY <1>4, <1>13, <2>1 DEF ContentOf
    <3>2. ~Doomed(d) => \A s \in SegsOf(d) : segs'[s] \in {"indexing", "completed"}
      BY <1>3, <2>2, <2>3
    <3> QED BY <1>8, <3>1, <3>2 DEF Split
  <2>5. ~Doomed(d) => \A s \in SegsOf(d) : s \notin mine[w] \/ p[s] = "done" => segs'[s] = "completed"
    BY <1>3, <1>4, <1>5, <1>13, <2>1, <2>2, <2>3 DEF ContentOf
  <2> QED BY <1>4, <1>13, <2>4, <2>5 DEF Backed, Fits
<1>14. RowsFit(w, "groups", p)
  BY <1>2, <1>4, <1>8, <1>13 DEF RowsFit
<1> QED BY <1>2, <1>10, <1>11, <1>12, <1>14, RowsWritten

-----------------------------------------------------------------------------
(* The one worker of the queue, and a vector store that deletes when asked: *)
(* what the code is started with, CELERY_WORKER_AMOUNT being 1.             *)
OneWorker == \E w : Workers = {w}

LEMMA WorkKeeps ==
  ASSUME NEW w \in Workers, ~CleanMayFail, IInv, Parts(w), Work(w) PROVE Parts(w)'
<1>1. TypeOK /\ Goals
  BY DEF IInv
<1>2. ASSUME RefuseIndex(w) \/ RefuseRetry(w) PROVE Parts(w)'
  <2>1. RowTyped
    BY <1>1, TypeParts
  <2>2. /\ Apart /\ UNCHANGED request /\ pc[w] = "idle" /\ queue # << >> /\ queue' = Tail(queue)
    BY <1>2 DEF RefuseIndex, RefuseRetry, Waiting, Apart, stored, worker, history
  <2>3. ASSUME NEW d \in Docs
        PROVE  (Gone(d)' <=> Gone(d)) /\ status'[d] \in {status[d], "error"}
    <3>1. CASE RefuseIndex(w)
      BY <3>1 DEF RefuseIndex, Gone
    <3>2. CASE UNCHANGED status
      BY <3>2 DEF Gone
    <3>3. CASE status' = SetStatus(Head(queue).doc, "error")
      BY <2>1, <3>3, StatusIs
    <3> QED BY <1>2, <3>1, <3>2, <3>3 DEF RefuseRetry
  <2> QED BY <1>1, <2>2, <2>3, RefuseKeeps
<1>3. ~CleanFails(w)
  BY DEF CleanFails
<1> QED BY <1>1, <1>2, <1>3, TakeIndexKeeps, TakeRecoverKeeps, TakeCleanKeeps,
           CleanVectorsKeepsParts, CleanSegsKeepsParts, ResetKeeps, NextDocKeeps, EndTaskKeeps,
           PurgeKeeps, ExtractKeeps, FailsKeeps, CheckDocumentKeeps, WriteStatusKeeps,
           TransformKeepsParts, AddSegmentKeepsParts, GroupStillKeeps, GroupLoadKeepsParts,
           GroupMarkKeepsParts, AddedKeeps, SegmentStatusKeeps, CollectKeeps, LoadKeeps, JoinKeeps
     DEF Work

LEMMA AppendIs ==
  ASSUME TypeOK, NEW m \in Messages, queue' = Append(queue, m), NEW i \in DOMAIN queue'
  PROVE  (i \in DOMAIN queue /\ queue'[i] = queue[i]) \/ queue'[i] = m
<1>1. queue \in Seq(Messages)
  BY TypeParts DEF QueueTyped
<1> QED BY <1>1

(* A request on its way keeps a document that is to be deleted so: it writes *)
(* "waiting" over the status, or deletes the row.                           *)
LEMMA ProceedIs ==
  ASSUME TypeOK, NEW r \in Requests, Proceed(r)
  PROVE  /\ \A d \in Docs : /\ Doomed(d)' <=> Doomed(d)
                            /\ status'[d] \in {status[d], "waiting", "deleted"}
         /\ \/ UNCHANGED queue
            \/ /\ req[r] # "delete"
               /\ \E k \in {"recover", "retry"} : queue' = Append(queue, Message(k, on[r]))
         /\ \A q \in Requests : q # r => on'[q] = on[q] /\ req'[q] = req[q]
         /\ \/ on'[r] = on[r] /\ req'[r] # "delete" /\ req[r] # "delete"
            \/ on'[r] = NoDoc
<1>1. RequestTyped /\ RowTyped
  BY TypeParts
<1>2. ASSUME req[r] # "delete", UNCHANGED status,
             Leave(r) \/ \E l \in ReqPCs \ {"delete"} : Step(r, req[r], l)
      PROVE  /\ \A d \in Docs : /\ Doomed(d)' <=> Doomed(d)
                                /\ status'[d] \in {status[d], "waiting", "deleted"}
             /\ \A q \in Requests : q # r => on'[q] = on[q] /\ req'[q] = req[q]
             /\ \/ on'[r] = on[r] /\ req'[r] # "delete" /\ req[r] # "delete"
                \/ on'[r] = NoDoc
  <2>1. /\ \A q \in Requests : q # r => on'[q] = on[q] /\ req'[q] = req[q]
        /\ \/ on'[r] = on[r] /\ req'[r] # "delete"
           \/ on'[r] = NoDoc /\ req'[r] = "idle"
    BY <1>1, <1>2 DEF RequestTyped, Leave, Step
  <2>2. \A d : Deleting(d)' <=> Deleting(d)
    BY <1>2, <2>1 DEF Deleting
  <2> QED BY <1>2, <2>1, <2>2 DEF Doomed, Gone
<1>3. CASE PauseCommit(r) \/ PauseFlag(r) \/ RecoverCommit(r) \/ RecoverFlag(r) \/ RetryCheck(r)
             \/ RetryFlag(r)
  <2>1. req[r] # "delete" /\ UNCHANGED <<status, queue>>
    BY <1>3 DEF PauseCommit, PauseFlag, RecoverCommit, RecoverFlag, RetryCheck, RetryFlag, Step, row
  <2>2. Leave(r) \/ \E l \in ReqPCs \ {"delete"} : Step(r, req[r], l)
    BY <1>3 DEF PauseCommit, PauseFlag, RecoverCommit, RecoverFlag, RetryCheck, RetryFlag, Step,
                ReqPCs
  <2> QED BY <1>2, <2>1, <2>2
<1>4. CASE RecoverSend(r) \/ RetrySend(r)
  <2>1. /\ req[r] # "delete" /\ UNCHANGED status /\ Leave(r)
        /\ UNCHANGED queue \/ \E k \in {"recover", "retry"} : queue' = Append(queue, Message(k, on[r]))
    BY <1>4 DEF RecoverSend, RetrySend, row
  <2> QED BY <1>2, <2>1
<1>5. CASE RetryCommit(r)
  <2>1. /\ req[r] = "retryCommit" /\ UNCHANGED queue
        /\ Leave(r) \/ Step(r, "retryCommit", "retryFlag")
        /\ UNCHANGED status \/ status' = SetStatus(on[r], "waiting")
    BY <1>5 DEF RetryCommit, Step
  <2>2. \A d \in Docs : /\ Gone(d)' <=> Gone(d)
                        /\ status'[d] \in {status[d], "waiting"}
    <3>1. CASE UNCHANGED status
      BY <3>1 DEF Gone
    <3>2. CASE status' = SetStatus(on[r], "waiting")
      BY <1>1, <3>2, StatusIs
    <3> QED BY <2>1, <3>1, <3>2
  <2>3. /\ \A q \in Requests : q # r => on'[q] = on[q] /\ req'[q] = req[q]
        /\ \/ on'[r] = on[r] /\ req'[r] # "delete"
           \/ on'[r] = NoDoc /\ req'[r] = "idle"
    BY <1>1, <2>1 DEF RequestTyped, Leave, Step
  <2>4. \A d : Deleting(d)' <=> Deleting(d)
    BY <2>1, <2>3 DEF Deleting
  <2> QED BY <2>1, <2>2, <2>3, <2>4 DEF Doomed
<1>6. CASE DeleteRow(r)
  <2>1. /\ req[r] = "delete" /\ UNCHANGED queue /\ Leave(r)
        /\ status' = [status EXCEPT ![on[r]] = "deleted"]
    BY <1>6 DEF DeleteRow
  <2>2. /\ \A q \in Requests : q # r => on'[q] = on[q] /\ req'[q] = req[q]
        /\ on'[r] = NoDoc /\ req'[r] = "idle"
    BY <1>1, <2>1 DEF RequestTyped, Leave
  <2>3. \A d \in Docs : status'[d] = IF d = on[r] THEN "deleted" ELSE status[d]
    BY <1>1, <2>1 DEF RowTyped
  <2>4. \A d \in Docs : Doomed(d)' <=> Doomed(d)
    BY <2>1, <2>2, <2>3 DEF Doomed, Deleting, Gone
  <2> QED BY <2>1, <2>2, <2>3, <2>4
<1> QED BY <1>3, <1>4, <1>5, <1>6 DEF Proceed

LEMMA AskIs ==
  ASSUME TypeOK, NEW r \in Requests, NEW e \in Docs, Ask(r, e)
  PROVE  /\ UNCHANGED status /\ req[r] = "idle" /\ ~Gone(e) /\ on'[r] = e
         /\ \A q \in Requests : q # r => on'[q] = on[q] /\ req'[q] = req[q]
         /\ \/ req'[r] # "delete" /\ UNCHANGED queue
            \/ req'[r] = "delete" /\ queue' = Append(queue, Message("clean", e))
<1>1. RequestTyped
  BY TypeParts
<1>2. ASSUME NEW l, Arrive(r, e, l)
      PROVE  /\ UNCHANGED status /\ req[r] = "idle" /\ ~Gone(e) /\ on'[r] = e /\ req'[r] = l
             /\ \A q \in Requests : q # r => on'[q] = on[q] /\ req'[q] = req[q]
  BY <1>1, <1>2 DEF Arrive, RequestTyped, row
<1>3. CASE PauseRead(r, e)
  BY <1>2, <1>3 DEF PauseRead
<1>4. CASE RecoverRead(r, e)
  BY <1>2, <1>4 DEF RecoverRead
<1>5. CASE RetryRead(r, e)
  BY <1>2, <1>5 DEF RetryRead
<1>6. CASE DeleteSend(r, e)
  BY <1>2, <1>6 DEF DeleteSend
<1> QED BY <1>3, <1>4, <1>5, <1>6 DEF Ask

(* A document that is to be deleted stays so when a request arrives; a new  *)
(* one is the document of a delete.                                         *)
LEMMA AskDooms ==
  ASSUME TypeOK, NEW r \in Requests, NEW e \in Docs, Ask(r, e), NEW d \in Docs
  PROVE  /\ Doomed(d) => Doomed(d)'
         /\ Doomed(d)' => Doomed(d) \/ (d = e /\ req'[r] = "delete")
         /\ req'[r] = "delete" => Doomed(e)'
BY AskIs DEF Doomed, Deleting, Gone

LEMMA RequestsKeep ==
  ASSUME NEW w \in Workers, TypeOK, Parts(w), NEW r \in Requests,
         Proceed(r) \/ \E e \in Docs : Ask(r, e)
  PROVE  Parts(w)'
<1>1. Apart
  BY ProceedTyped, AskTyped
<1>2. \A k \in {"recover", "retry", "clean"}, d \in Docs \cup {NoDoc} : Message(k, d) \in Messages
  BY DEF Message, Messages
<1>3. CASE Proceed(r)
  <2>1. /\ \A d \in Docs : /\ Doomed(d)' <=> Doomed(d)
                           /\ status'[d] \in {status[d], "waiting", "deleted"}
        /\ \/ UNCHANGED queue
           \/ \E k \in {"recover", "retry"} : queue' = Append(queue, Message(k, on[r]))
    BY <1>3, ProceedIs
  <2>2. on[r] \in Docs \cup {NoDoc}
    BY TypeParts DEF RequestTyped
  <2>3. ASSUME NEW i \in DOMAIN queue'
        PROVE  \/ i \in DOMAIN queue /\ queue'[i] = queue[i]
               \/ queue'[i].kind \in {"recover", "retry"}
    <3>1. CASE UNCHANGED queue
      BY <2>3, <3>1
    <3>2. ASSUME NEW k \in {"recover", "retry"}, queue' = Append(queue, Message(k, on[r]))
          PROVE  \/ i \in DOMAIN queue /\ queue'[i] = queue[i]
                 \/ queue'[i].kind \in {"recover", "retry"}
      BY <1>2, <2>2, <3>2, AppendIs DEF Message
    <3> QED BY <2>1, <3>1, <3>2
  <2> QED BY <1>1, <2>1, <2>3, OutsideKeeps
<1>4. ASSUME NEW e \in Docs, Ask(r, e) PROVE Parts(w)'
  <2>1. UNCHANGED status /\ (UNCHANGED queue \/ (req'[r] = "delete" /\ queue' = Append(queue, Message("clean", e))))
    BY <1>4, AskIs
  <2>2. /\ \A d \in Docs : Doomed(d) => Doomed(d)'
        /\ req'[r] = "delete" => Doomed(e)'
    BY <1>4, AskDooms
  <2>3. ASSUME NEW i \in DOMAIN queue'
        PROVE  \/ i \in DOMAIN queue /\ queue'[i] = queue[i]
               \/ queue'[i] = Message("clean", e) /\ Doomed(e)'
    <3>1. CASE UNCHANGED queue
      BY <2>3, <3>1
    <3>2. CASE req'[r] = "delete" /\ queue' = Append(queue, Message("clean", e))
      BY <1>2, <2>2, <3>2, AppendIs
    <3> QED BY <2>1, <3>1, <3>2
  <2>4. ASSUME NEW i \in DOMAIN queue'
        PROVE  \/ i \in DOMAIN queue /\ queue'[i] = queue[i]
               \/ /\ queue'[i].kind # "index"
                  /\ queue'[i].kind = "clean" => queue'[i].doc \in Docs /\ Doomed(queue[i].doc)'
    <3>1. CASE queue'[i] = Message("clean", e) /\ Doomed(e)'
      <4>1. queue'[i].kind = "clean" /\ queue'[i].doc = e
        BY <3>1 DEF Message
      <4>2. Doomed(queue[i].doc)'
        BY <3>1, <4>1
      <4> QED BY <4>1, <4>2
    <3> QED BY <2>3, <3>1
  <2> QED BY <1>1, <2>1, <2>2, <2>4, OutsideKeeps
<1> QED BY <1>3, <1>4

LEMMA InitParts ==
  ASSUME NEW w \in Workers, Init PROVE Parts(w)
<1> USE DEF Init, Parts
<1>1. \A d : SegsOf(d) = {} /\ VectorsOf(d) = {}
  BY DEF SegsOf, VectorsOf, Exists
<1>2. ~Fresh(w) /\ ~Adding(w) /\ ~Loading(w) /\ \A st : ~Writing(w, st)
  BY DEF Fresh, Adding, Loading, Writing
<1>3. Hands(w)
  BY <1>2 DEF Hands
<1>4. Holds(w)
  BY <1>2 DEF Holds
<1>5. Fits(w)
  BY <1>2, DocAssumption DEF Fits
<1>6. Start(w)
  BY <1>1 DEF Start
<1>7. Backed /\ Empty(w)
  BY <1>1 DEF Backed, Empty
<1>8. Content(w)
  BY DocAssumption DEF Content, ContentOf
<1>9. CleanIsMeant(w)
  BY DEF CleanIsMeant, Message
<1> QED BY <1>3, <1>4, <1>5, <1>6, <1>7, <1>8, <1>9

LEMMA CrashCounts ==
  ASSUME TypeOK, NEW w \in Workers, Crash(w) PROVE crashes' # 0
BY TypeParts DEF Crash, HistoryTyped

LEMMA WorkSpares ==
  ASSUME NEW w \in Workers, Work(w) PROVE crashes' = crashes
<1>1. CASE ErrorOut(w) \/ PausedOut(w) \/ Skip(w)
  BY <1>1 DEF ErrorOut, PausedOut, Skip, history
<1>2. CASE \/ TakeIndex(w) \/ RefuseIndex(w) \/ TakeRecover(w) \/ RefuseRetry(w)
           \/ \E k \in {"retry", "clean"} : TakeClean(w, k)
  BY <1>2 DEF TakeIndex, RefuseIndex, TakeRecover, RefuseRetry, TakeClean, history
<1>3. CASE \/ CleanVectors(w) \/ CleanFails(w) \/ CleanSegs(w) \/ Reset(w)
           \/ (\E d \in Docs : NextDoc(w, d)) \/ EndTask(w) \/ Purge(w) \/ Extract(w)
  BY <1>3 DEF CleanVectors, CleanFails, CleanSegs, Reset, NextDoc, EndTask, Purge, Extract, history
<1>4. CASE Fails(w) \/ CheckDocument(w) \/ Transform(w) \/ Load(w) \/ Join(w)
  BY <1>1, <1>4 DEF Fails, CheckDocument, Transform, Load, Join, history
<1>5. CASE WriteStatus(w) \/ Added(w) \/ SegmentStatus(w) \/ Collect(w)
  BY <1>1, <1>5 DEF WriteStatus, Added, SegmentStatus, Collect, history
<1>6. ASSUME NEW s \in Segs,
             \/ AddSegment(w, s) \/ GroupCheck(w, s) \/ GroupFails(w, s)
             \/ GroupLoad(w, s) \/ GroupMark(w, s)
      PROVE  crashes' = crashes
  BY <1>6 DEF AddSegment, GroupCheck, GroupFails, GroupLoad, GroupMark, Group, history
<1> QED BY <1>2, <1>3, <1>4, <1>5, <1>6 DEF Work

(* A worker that has died has died. *)
LEMMA StepSpares ==
  ASSUME NEW w, Workers = {w}, TypeOK, [Next]_vars, crashes' = 0 PROVE crashes = 0
<1>1. CASE Work(w)
  BY <1>1, WorkSpares
<1>2. CASE Crash(w)
  BY <1>2, CrashCounts
<1>3. CASE \E r \in Requests : Proceed(r) \/ \E e \in Docs : Ask(r, e)
  <2>1. Apart
    BY <1>3, ProceedTyped, AskTyped
  <2> QED BY <2>1 DEF Apart, history
<1>4. CASE UNCHANGED vars \/ \E d \in Docs : RetriedExpires(d)
  BY <1>4 DEF vars, RetriedExpires, history
<1> QED BY <1>1, <1>2, <1>3, <1>4, AskedAssumption DEF Next

(* With one worker, each step is a step of it, of a request or of the clock. *)
LEMMA StepParts ==
  ASSUME NEW w, Workers = {w}, ~CleanMayFail, IInv, crashes = 0 => Parts(w), [Next]_vars,
         crashes' = 0
  PROVE  Parts(w)'
<1>1. TypeOK /\ w \in Workers
  BY DEF IInv
<1>2. Parts(w)
  BY <1>1, StepSpares
<1>3. CASE Work(w)
  BY <1>1, <1>2, <1>3, WorkKeeps
<1>4. CASE \E r \in Requests : Proceed(r) \/ \E e \in Docs : Ask(r, e)
  BY <1>1, <1>2, <1>4, RequestsKeep
<1>5. CASE UNCHANGED vars \/ \E d \in Docs : RetriedExpires(d)
  <2>1. Apart /\ UNCHANGED <<status, queue, req, on>>
    BY <1>5 DEF vars, RetriedExpires, Apart, row, stored, worker, history, request
  <2>2. \A d \in Docs : Doomed(d) => Doomed(d)'
    BY <2>1 DEF Doomed, Deleting, Gone
  <2> QED BY <1>1, <1>2, <2>1, <2>2, OutsideKeeps
<1>6. ~Crash(w)
  BY <1>1, CrashCounts
<1> QED BY <1>3, <1>4, <1>5, <1>6, AskedAssumption DEF Next

-----------------------------------------------------------------------------
(* Deletion.  Of a document that is deleted, or about to be, the clean task *)
(* is in the queue, behind every other message about it; or all that can be *)
(* done to it any more is the rest of the cleaning.                         *)

ToBeCleaned(d) ==
  \E i \in DOMAIN queue :
    /\ queue[i] = Message("clean", d)
    /\ \A j \in DOMAIN queue : j > i => queue[j].doc # d

LeftAlone(w, d) ==
  /\ \A i \in DOMAIN queue : queue[i].doc # d /\ queue[i].kind # "index"
  /\ d \notin todo[w] /\ (cur[w] = d => task[w] = "clean")
  /\ SegsOf(d) = {} \/ cur[w] = d

OnlyDeleted(d) == \A r \in Requests : on[r] = d => req[r] = "delete"

Doom(w) ==
  \A d \in Docs : Doomed(d) => OnlyDeleted(d) /\ (ToBeCleaned(d) \/ LeftAlone(w, d))

(* A request that deletes a document is the only one about it. *)
DeletesAlone ==
  \A q, r \in Requests : req[q] = "delete" /\ on[r] = on[q] => r = q

(* The step of a worker that is busy: another document is left as it is, one *)
(* that is being cleaned loses its rows.                                     *)
BusyStep(w) ==
  /\ UNCHANGED <<queue, request>>
  /\ \A d \in Docs : Gone(d)' <=> Gone(d)
  /\ todo'[w] \subseteq todo[w]
  /\ cur'[w] \in {cur[w], NoDoc} \cup todo[w]
  /\ \A d \in Docs : d # cur[w] => SegsOf(d)' = SegsOf(d)
  /\ \A d \in Docs : d = cur[w] /\ task[w] = "clean" =>
       \/ cur'[w] = d /\ task'[w] = "clean"
       \/ cur'[w] = NoDoc /\ SegsOf(d)' = {}

LEMMA BusyKeepsDoom ==
  ASSUME NEW w \in Workers, Hands(w), Doom(w), BusyStep(w)
  PROVE  Doom(w)'
<1> SUFFICES ASSUME NEW d \in Docs, Doomed(d)'
             PROVE  OnlyDeleted(d)' /\ (ToBeCleaned(d)' \/ LeftAlone(w, d)')
  BY DEF Doom
<1>1. Doomed(d)
  BY DoomedKept DEF BusyStep
<1>2. OnlyDeleted(d) /\ (ToBeCleaned(d) \/ LeftAlone(w, d))
  BY <1>1 DEF Doom
<1>3. OnlyDeleted(d)'
  BY <1>2 DEF OnlyDeleted, BusyStep, request
<1>4. CASE ToBeCleaned(d)
  BY <1>3, <1>4 DEF ToBeCleaned, BusyStep
<1>5. CASE LeftAlone(w, d)
  <2>1. d # NoDoc
    BY DocAssumption
  <2>2. cur'[w] = d => cur[w] = d /\ task[w] = "clean" /\ task'[w] = "clean"
    BY <1>5, <2>1 DEF LeftAlone, BusyStep
  <2>3. SegsOf(d)' = {} \/ cur'[w] = d
    <3>1. CASE cur[w] = d
      BY <1>5, <3>1 DEF LeftAlone, BusyStep
    <3>2. CASE cur[w] # d
      BY <1>5, <3>2 DEF LeftAlone, BusyStep
    <3> QED BY <3>1, <3>2
  <2> QED BY <1>3, <1>5, <2>2, <2>3 DEF LeftAlone, BusyStep
<1> QED BY <1>2, <1>4, <1>5

(* What the runner and the pool do leaves the other documents alone. *)
LEMMA SameRows ==
  ASSUME UNCHANGED segs, NEW d PROVE SegsOf(d)' = SegsOf(d)
BY DEF SegsOf, Exists

LEMMA StatusOf ==
  ASSUME RowTyped, NEW e, NEW st, st # "deleted", status' = SetStatus(e, st)
  PROVE  \A d \in Docs : Gone(d)' <=> Gone(d)
BY StatusIs

(* The worker is free, or stays with its document. *)
LEMMA StaysOrFree ==
  ASSUME WorkerTyped, NEW w \in Workers,
         \/ Free(w) \/ Finish(w) \/ UNCHANGED <<task, todo, cur>>
  PROVE  \/ cur'[w] = NoDoc /\ todo'[w] = {}
         \/ cur'[w] = cur[w] /\ todo'[w] = todo[w] /\ task'[w] = task[w]
BY DEF WorkerTyped, Free, Finish

LEMMA StopIsBusy ==
  ASSUME NEW w \in Workers, TypeOK, task[w] # "clean",
         ErrorOut(w) \/ PausedOut(w) \/ Skip(w)
  PROVE  BusyStep(w)
<1>1. RowTyped /\ WorkerTyped
  BY TypeParts
<1>2. \A d \in Docs : Gone(d)' <=> Gone(d)
  <2>1. CASE UNCHANGED status
    BY <2>1 DEF Gone
  <2>2. CASE status' = SetStatus(cur[w], "error")
    BY <1>1, <2>2, StatusOf
  <2> QED BY <2>1, <2>2 DEF ErrorOut, PausedOut, Skip, row
<1>3. UNCHANGED <<segs, queue, request>> /\ (Free(w) \/ Finish(w))
  BY DEF ErrorOut, PausedOut, Skip, stored
<1>4. \A d : SegsOf(d)' = SegsOf(d)
  BY <1>3, SameRows
<1>5. \/ cur'[w] = NoDoc /\ todo'[w] = {}
      \/ cur'[w] = cur[w] /\ todo'[w] = todo[w] /\ task'[w] = task[w]
  BY <1>1, <1>3, StaysOrFree
<1> QED BY <1>2, <1>3, <1>4, <1>5 DEF BusyStep

LEMMA WorkIsBusy ==
  ASSUME NEW w \in Workers, TypeOK, Goals, Hands(w), ~CleanFails(w),
         Work(w), pc[w] # "idle"
  PROVE  BusyStep(w)
<1>1. RowTyped /\ WorkerTyped /\ StoreTyped
  BY TypeParts
<1>2. task[w] = "clean" => pc[w] \in {"cleanVectors", "cleanSegs"}
  BY DEF Hands
<1>3. ASSUME UNCHANGED <<queue, request>>,
             \A d \in Docs : Gone(d)' <=> Gone(d),
             \A s \in Segs : DocOf[s[2]] # cur[w] => segs'[s] = segs[s],
             Free(w) \/ Finish(w) \/ UNCHANGED <<task, todo, cur>>,
             task[w] = "clean" => UNCHANGED <<task, cur>>
      PROVE  BusyStep(w)
  <2>1. \A d \in Docs : d # cur[w] => SegsOf(d)' = SegsOf(d)
    BY <1>3, RowsElsewhere
  <2>2. \/ cur'[w] = NoDoc /\ todo'[w] = {}
        \/ cur'[w] = cur[w] /\ todo'[w] = todo[w] /\ task'[w] = task[w]
    BY <1>1, <1>3, StaysOrFree
  <2> QED BY <1>3, <2>1, <2>2 DEF BusyStep
<1>4. UNCHANGED status => \A d \in Docs : Gone(d)' <=> Gone(d)
  BY DEF Gone
<1>5. CASE CleanVectors(w)
  BY <1>3, <1>4, <1>5 DEF CleanVectors, row
<1>6. CASE CleanSegs(w)
  <2>1. mine[w] = SegsOf(cur[w]) /\ UNCHANGED <<queue, request, status>>
    BY <1>6 DEF CleanSegs, Hands, row
  <2>2. \A s \in Segs : segs'[s] = IF s \in mine[w] THEN "none" ELSE segs[s]
    BY <1>6 DEF CleanSegs
  <2>3. \A s \in Segs : DocOf[s[2]] # cur[w] => segs'[s] = segs[s]
    BY <2>1, <2>2 DEF SegsOf
  <2>4. CASE task[w] = "retry"
    <3>1. UNCHANGED <<task, todo, cur>>
      BY <1>6, <2>4 DEF CleanSegs
    <3> QED BY <1>3, <1>4, <2>1, <2>3, <3>1
  <2>5. CASE task[w] # "retry"
    <3>1. Free(w)
      BY <1>6, <2>5 DEF CleanSegs
    <3>2. cur'[w] = NoDoc /\ todo'[w] = {}
      BY <1>1, <3>1, FreeView DEF View
    <3>3. ASSUME NEW d \in Docs, d = cur[w] PROVE SegsOf(d)' = {}
      BY <2>1, <2>2, <3>3 DEF SegsOf, Exists
    <3>4. \A d \in Docs : d # cur[w] => SegsOf(d)' = SegsOf(d)
      BY <2>3, RowsElsewhere
    <3> QED BY <1>4, <2>1, <3>2, <3>3, <3>4 DEF BusyStep
  <2> QED BY <2>4, <2>5
<1>7. CASE Reset(w)
  <2>1. \A d \in Docs : Gone(d)' <=> Gone(d)
    <3>1. CASE Gone(cur[w])
      BY <1>4, <1>7, <3>1 DEF Reset
    <3>2. CASE ~Gone(cur[w])
      BY <1>1, <1>7, <3>2 DEF Reset, RowTyped, Gone
    <3> QED BY <3>1, <3>2
  <2> QED BY <1>2, <1>3, <1>7, <2>1 DEF Reset, stored
<1>8. ASSUME NEW e \in Docs, NextDoc(w, e) PROVE BusyStep(w)
  <2>1. /\ UNCHANGED <<queue, request, segs>> /\ task[w] # "clean" /\ e \in todo[w]
        /\ cur'[w] = e /\ todo'[w] = todo[w] \ {e} /\ \A d \in Docs : Gone(d)' <=> Gone(d)
    BY <1>1, <1>2, <1>4, <1>8 DEF NextDoc, WorkerTyped, stored, row
  <2> QED BY <2>1, SameRows DEF BusyStep
<1>9. CASE EndTask(w) \/ Extract(w) \/ Collect(w)
  BY <1>2, <1>3, <1>4, <1>9 DEF EndTask, Extract, Collect, row, stored
<1>10. CASE Purge(w)
  BY <1>2, <1>3, <1>4, <1>10 DEF Purge, row
<1>11. CASE \/ Fails(w) \/ CheckDocument(w) \/ Transform(w) \/ Added(w) \/ Load(w) \/ Join(w)
  <2>1. task[w] # "clean"
    BY <1>2, <1>11 DEF Fails, CheckDocument, Transform, Added, Load, Join
  <2>2. CASE ErrorOut(w) \/ PausedOut(w) \/ Skip(w)
    BY <2>1, <2>2, StopIsBusy
  <2>3. CASE UNCHANGED <<status, segs, queue, request, task, todo, cur>>
    BY <1>3, <1>4, <2>1, <2>3
  <2> QED BY <1>11, <2>2, <2>3
       DEF Fails, CheckDocument, Transform, Added, Load, Join, row, stored
<1>12. CASE WriteStatus(w)
  <2>1. goal[w] \in {"splitting", "indexing", "completed"} /\ pc[w] = "write"
    BY <1>1, <1>12 DEF WriteStatus, Goals, WorkerTyped
  <2>2. \A d \in Docs : Gone(d)' <=> Gone(d)
    BY <1>1, <1>12, <2>1, StatusOf DEF WriteStatus
  <2>3. Finish(w) \/ UNCHANGED <<task, todo, cur>>
    BY <1>12, <2>1 DEF WriteStatus
  <2> QED BY <1>2, <1>3, <1>12, <2>1, <2>2, <2>3 DEF WriteStatus, stored
<1>13. ASSUME NEW s \in Segs,
              \/ AddSegment(w, s) \/ GroupCheck(w, s) \/ GroupFails(w, s)
              \/ GroupLoad(w, s) \/ GroupMark(w, s)
       PROVE  BusyStep(w)
  <2>1. /\ UNCHANGED <<status, queue, request, task, todo, cur>>
        /\ s \in mine[w] /\ pc[w] \in {"add", "groups"}
    BY <1>13 DEF AddSegment, GroupCheck, GroupFails, GroupLoad, GroupMark, Group, Unqueued, row
  <2>2. \A u \in Segs : u # s => segs'[u] = segs[u]
    BY <1>1, <1>13 DEF AddSegment, GroupCheck, GroupFails, GroupLoad, GroupMark, stored, StoreTyped
  <2>3. DocOf[s[2]] = cur[w]
    BY <2>1 DEF Hands
  <2> QED BY <1>2, <1>3, <1>4, <2>1, <2>2, <2>3
<1>14. CASE SegmentStatus(w)
  <2>1. \A u \in Segs : DocOf[u[2]] # cur[w] => segs'[u] = segs[u]
    BY <1>14 DEF SegmentStatus, SegsOf
  <2> QED BY <1>2, <1>3, <1>4, <1>14, <2>1 DEF SegmentStatus, row
<1> QED BY <1>5, <1>6, <1>7, <1>8, <1>9, <1>10, <1>11, <1>12, <1>13, <1>14
     DEF Work, TakeIndex, RefuseIndex, TakeRecover, RefuseRetry, TakeClean, Waiting

(* The first message is taken, and is not the clean task of d. *)
LEMMA ShiftIs ==
  ASSUME TypeOK, queue # << >>, queue' = Tail(queue), NEW d,
         ToBeCleaned(d), Head(queue) # Message("clean", d)
  PROVE  ToBeCleaned(d)'
<1>1. queue \in Seq(Messages)
  BY TypeParts DEF QueueTyped
<1>2. PICK i \in DOMAIN queue : /\ queue[i] = Message("clean", d)
                                /\ \A j \in DOMAIN queue : j > i => queue[j].doc # d
  BY DEF ToBeCleaned
<1>3. i \in 2..Len(queue)
  BY <1>1, <1>2
<1>4. /\ DOMAIN queue' = 1..(Len(queue) - 1)
      /\ \A j \in DOMAIN queue' : queue'[j] = queue[j + 1] /\ j + 1 \in DOMAIN queue
  BY <1>1
<1>5. i - 1 \in DOMAIN queue' /\ queue'[i - 1] = Message("clean", d)
  BY <1>1, <1>2, <1>3, <1>4
<1>6. \A j \in DOMAIN queue' : j > i - 1 => queue'[j].doc # d
  BY <1>2, <1>3, <1>4
<1> QED BY <1>5, <1>6 DEF ToBeCleaned

(* A worker that is idle takes or drops the first message. *)
LEMMA TakeKeepsDoom ==
  ASSUME NEW w \in Workers, TypeOK, Hands(w), Start(w), Doom(w), Work(w), pc[w] = "idle"
  PROVE  Doom(w)'
<1>1. RowTyped /\ WorkerTyped
  BY TypeParts
<1>2. cur[w] = NoDoc /\ todo[w] = {} /\ task[w] # "clean"
  BY IdleHolds
<1>3. /\ queue # << >> /\ queue' = Tail(queue) /\ UNCHANGED <<segs, request>>
      /\ \/ TakeIndex(w) \/ RefuseIndex(w) \/ TakeRecover(w) \/ RefuseRetry(w)
         \/ \E k \in {"retry", "clean"} : TakeClean(w, k)
  <2>1. \/ TakeIndex(w) \/ RefuseIndex(w) \/ TakeRecover(w) \/ RefuseRetry(w)
        \/ \E k \in {"retry", "clean"} : TakeClean(w, k)
    BY DEF Work, CleanVectors, CleanFails, CleanSegs, Reset, NextDoc, EndTask, Purge, Extract,
           Fails, CheckDocument, WriteStatus, Transform, AddSegment, GroupCheck, GroupFails,
           GroupLoad, GroupMark, Group, Added, SegmentStatus, Collect, Load, Join
  <2> QED BY <2>1 DEF TakeIndex, RefuseIndex, TakeRecover, RefuseRetry, TakeClean, Waiting,
                      Begin, stored
<1>4. /\ \A i \in DOMAIN Tail(queue) : i + 1 \in DOMAIN queue /\ Tail(queue)[i] = queue[i + 1]
      /\ 1 \in DOMAIN queue /\ Head(queue) = queue[1]
      /\ \A i \in DOMAIN queue' : queue'[i].kind # "index"
  BY <1>3, TailIs
<1>5. \A d \in Docs : Gone(d)' <=> Gone(d)
  <2>1. CASE UNCHANGED status
    BY <2>1 DEF Gone
  <2>2. CASE status' = SetStatus(Head(queue).doc, "error")
    BY <1>1, <2>2, StatusOf
  <2>3. CASE TakeIndex(w) \/ RefuseIndex(w)
    BY <2>3 DEF TakeIndex, RefuseIndex, Gone
  <2> QED BY <1>3, <2>1, <2>2, <2>3 DEF TakeRecover, RefuseRetry, TakeClean, row
<1> SUFFICES ASSUME NEW d \in Docs, Doomed(d)'
             PROVE  OnlyDeleted(d)' /\ (ToBeCleaned(d)' \/ LeftAlone(w, d)')
  BY DEF Doom
<1>6. OnlyDeleted(d) /\ (ToBeCleaned(d) \/ LeftAlone(w, d))
  BY <1>3, <1>5, DoomedKept DEF Doom
<1>7. OnlyDeleted(d)'
  BY <1>3, <1>6 DEF OnlyDeleted, request
<1>8. CASE ToBeCleaned(d) /\ Head(queue) # Message("clean", d)
  BY <1>3, <1>7, <1>8, ShiftIs
<1>9. SegsOf(d)' = SegsOf(d) /\ d # NoDoc
  BY <1>3, SameRows, DocAssumption
<1>10. CASE ToBeCleaned(d) /\ Head(queue) = Message("clean", d) /\ ~ToBeCleaned(d)'
  <2>1. Head(queue).kind = "clean" /\ Head(queue).doc = d
    BY <1>10 DEF Message
  <2>2. TakeClean(w, "clean")
    BY <1>3, <2>1 DEF TakeIndex, RefuseIndex, TakeRecover, RefuseRetry, TakeClean, Waiting
  <2>3. cur'[w] = d /\ task'[w] = "clean" /\ todo'[w] = {}
    BY <1>1, <1>2, <2>1, <2>2 DEF TakeClean, Begin, WorkerTyped
  <2>4. ASSUME NEW j \in DOMAIN queue' PROVE queue'[j].doc # d
    <3>1. PICK i \in DOMAIN queue : /\ queue[i] = Message("clean", d)
                                    /\ \A k \in DOMAIN queue : k > i => queue[k].doc # d
      BY <1>10 DEF ToBeCleaned
    <3>2. i = 1
      <4>1. queue \in Seq(Messages)
        BY TypeParts DEF QueueTyped
      <4>2. ASSUME i # 1 PROVE ToBeCleaned(d)'
        <5>1. i - 1 \in DOMAIN queue' /\ queue'[i - 1] = queue[i]
          BY <1>3, <4>1, <4>2
        <5>2. \A k \in DOMAIN queue' : k > i - 1 => queue'[k].doc # d
          BY <1>3, <3>1, <4>1, <4>2
        <5> QED BY <3>1, <5>1, <5>2 DEF ToBeCleaned
      <4> QED BY <1>10, <4>2
    <3>3. queue \in Seq(Messages)
      BY TypeParts DEF QueueTyped
    <3> QED BY <1>3, <1>4, <2>4, <3>1, <3>2, <3>3
  <2> QED BY <1>4, <1>7, <2>3, <2>4 DEF LeftAlone
<1>11. CASE LeftAlone(w, d)
  <2>1. \A i \in DOMAIN queue : queue[i].doc # d /\ queue[i].kind # "index"
    BY <1>11 DEF LeftAlone
  <2>2. \A i \in DOMAIN queue' : queue'[i].doc # d /\ queue'[i].kind # "index"
    BY <1>3, <1>4, <2>1
  <2>3. Head(queue).doc # d /\ Head(queue).kind # "index"
    BY <1>4, <2>1
  <2>4. cur'[w] # d /\ todo'[w] = {}
    <3>1. CASE UNCHANGED worker
      BY <1>2, <1>9, <3>1 DEF worker
    <3>2. CASE TakeRecover(w) \/ \E k \in {"retry", "clean"} : TakeClean(w, k)
      BY <1>1, <1>2, <2>3, <3>2 DEF TakeRecover, TakeClean, Begin, WorkerTyped
    <3> QED BY <1>3, <2>3, <3>1, <3>2 DEF TakeIndex, RefuseIndex, RefuseRetry, Waiting
  <2>5. SegsOf(d)' = {}
    BY <1>2, <1>9, <1>11 DEF LeftAlone
  <2> QED BY <1>7, <2>2, <2>4, <2>5 DEF LeftAlone
<1> QED BY <1>6, <1>7, <1>8, <1>10, <1>11

(* A message about another document goes to the end of the queue. *)
LEMMA SentKeeps ==
  ASSUME TypeOK, NEW w \in Workers, Apart, NEW d \in Docs,
         \/ UNCHANGED queue
         \/ \E m \in Messages : queue' = Append(queue, m) /\ m.doc # d /\ m.kind # "index",
         ToBeCleaned(d) \/ LeftAlone(w, d)
  PROVE  ToBeCleaned(d)' \/ LeftAlone(w, d)'
<1>1. queue \in Seq(Messages) /\ UNCHANGED <<segs, todo, cur, task>>
  BY TypeParts DEF QueueTyped, Apart, stored, worker
<1>2. \A i \in DOMAIN queue : i \in DOMAIN queue' /\ queue'[i] = queue[i]
  BY <1>1
<1>3. \A i \in DOMAIN queue' : \/ i \in DOMAIN queue
                               \/ queue'[i].doc # d /\ queue'[i].kind # "index"
  BY <1>1
<1>4. CASE ToBeCleaned(d)
  BY <1>2, <1>3, <1>4 DEF ToBeCleaned
<1>5. CASE LeftAlone(w, d)
  BY <1>1, <1>2, <1>3, <1>5, SameRows DEF LeftAlone
<1> QED BY <1>4, <1>5

LEMMA ProceedKeepsDoom ==
  ASSUME NEW w \in Workers, TypeOK, Doom(w), NEW r \in Requests, Proceed(r)
  PROVE  Doom(w)'
<1> SUFFICES ASSUME NEW d \in Docs, Doomed(d)'
             PROVE  OnlyDeleted(d)' /\ (ToBeCleaned(d)' \/ LeftAlone(w, d)')
  BY DEF Doom
<1>1. Doomed(d) /\ Apart /\ d # NoDoc
  BY ProceedIs, ProceedTyped, DocAssumption
<1>2. OnlyDeleted(d) /\ (ToBeCleaned(d) \/ LeftAlone(w, d))
  BY <1>1 DEF Doom
<1>3. /\ \A q \in Requests : q # r => on'[q] = on[q] /\ req'[q] = req[q]
      /\ on'[r] = d => on[r] = d /\ req[r] # "delete"
  BY <1>1, ProceedIs
<1>4. OnlyDeleted(d)'
  BY <1>2, <1>3 DEF OnlyDeleted
<1>5. \/ UNCHANGED queue
      \/ \E m \in Messages : queue' = Append(queue, m) /\ m.doc # d /\ m.kind # "index"
  <2>1. CASE UNCHANGED queue
    BY <2>1
  <2>2. ASSUME NEW k \in {"recover", "retry"}, req[r] # "delete",
               queue' = Append(queue, Message(k, on[r]))
        PROVE  \E m \in Messages : queue' = Append(queue, m) /\ m.doc # d /\ m.kind # "index"
    <3>1. on[r] # d /\ on[r] \in Docs \cup {NoDoc}
      BY <1>2, <2>2, TypeParts DEF OnlyDeleted, RequestTyped
    <3>2. Message(k, on[r]) \in Messages
      BY <3>1 DEF Message, Messages
    <3> QED BY <2>2, <3>1, <3>2 DEF Message
  <2> QED BY <2>1, <2>2, ProceedIs
<1> QED BY <1>1, <1>2, <1>4, <1>5, SentKeeps

LEMMA AskKeepsDoom ==
  ASSUME NEW w \in Workers, TypeOK, Doom(w), NEW r \in Requests, NEW e \in Docs, Ask(r, e),
         DeletesAlone'
  PROVE  Doom(w)'
<1> SUFFICES ASSUME NEW d \in Docs, Doomed(d)'
             PROVE  OnlyDeleted(d)' /\ (ToBeCleaned(d)' \/ LeftAlone(w, d)')
  BY DEF Doom
<1>1. /\ Apart /\ ~Gone(e) /\ req[r] = "idle" /\ on'[r] = e /\ UNCHANGED status
      /\ \A q \in Requests : q # r => on'[q] = on[q] /\ req'[q] = req[q]
      /\ \/ req'[r] # "delete" /\ UNCHANGED queue
         \/ req'[r] = "delete" /\ queue' = Append(queue, Message("clean", e))
  BY AskIs, AskTyped
<1>2. CASE d = e
  <2>1. PICK q \in Requests : req'[q] = "delete" /\ on'[q] = d
    BY <1>1, <1>2 DEF Doomed, Deleting, Gone
  <2>2. \A u \in Requests : on'[u] = d => u = q
    BY <2>1 DEF DeletesAlone
  <2>3. q = r
    BY <1>1, <1>2, <2>2
  <2>4. OnlyDeleted(d)'
    BY <2>1, <2>2 DEF OnlyDeleted
  <2>5. queue' = Append(queue, Message("clean", d)) /\ queue \in Seq(Messages)
    BY <1>1, <1>2, <2>1, <2>3, TypeParts DEF QueueTyped
  <2>6. /\ Len(queue) + 1 \in DOMAIN queue' /\ queue'[Len(queue) + 1] = Message("clean", d)
        /\ \A j \in DOMAIN queue' : ~(j > Len(queue) + 1)
    BY <2>5
  <2> QED BY <2>4, <2>6 DEF ToBeCleaned
<1>3. CASE d # e
  <2>1. Doomed(d)
    BY <1>3, AskDooms
  <2>2. OnlyDeleted(d) /\ (ToBeCleaned(d) \/ LeftAlone(w, d))
    BY <2>1 DEF Doom
  <2>3. OnlyDeleted(d)'
    BY <1>1, <1>3, <2>2 DEF OnlyDeleted
  <2>4. \/ UNCHANGED queue
        \/ \E m \in Messages : queue' = Append(queue, m) /\ m.doc # d /\ m.kind # "index"
    <3>1. /\ Message("clean", e) \in Messages /\ Message("clean", e).doc = e
          /\ Message("clean", e).kind = "clean"
      BY DEF Message, Messages
    <3> QED BY <1>1, <1>3, <3>1
  <2> QED BY <1>1, <2>2, <2>3, <2>4, SentKeeps
<1> QED BY <1>2, <1>3

LEMMA InitDoom ==
  ASSUME NEW w \in Workers, Init PROVE Doom(w)
BY DEF Init, Doom, Doomed, Deleting, Gone

LEMMA StepDoom ==
  ASSUME NEW w, Workers = {w}, ~CleanMayFail, IInv, crashes = 0 => Parts(w) /\ Doom(w),
         [Next]_vars, crashes' = 0, DeletesAlone'
  PROVE  Doom(w)'
<1>1. TypeOK /\ Goals /\ w \in Workers
  BY DEF IInv
<1>2. Parts(w) /\ Doom(w)
  BY <1>1, StepSpares
<1>3. Hands(w) /\ Start(w)
  BY <1>2 DEF Parts
<1>4. CASE Work(w)
  <2>1. CASE pc[w] = "idle"
    BY <1>1, <1>2, <1>3, <1>4, <2>1, TakeKeepsDoom
  <2>2. CASE pc[w] # "idle"
    <3>1. ~CleanFails(w)
      BY DEF CleanFails
    <3>2. BusyStep(w)
      BY <1>1, <1>3, <1>4, <2>2, <3>1, WorkIsBusy
    <3> QED BY <1>1, <1>2, <1>3, <3>2, BusyKeepsDoom
  <2> QED BY <2>1, <2>2
<1>5. ASSUME NEW r \in Requests, Proceed(r) PROVE Doom(w)'
  BY <1>1, <1>2, <1>5, ProceedKeepsDoom
<1>6. ASSUME NEW r \in Requests, NEW e \in Docs, Ask(r, e) PROVE Doom(w)'
  BY <1>1, <1>2, <1>6, AskKeepsDoom
<1>7. CASE UNCHANGED vars \/ \E d \in Docs : RetriedExpires(d)
  <2>1. UNCHANGED <<status, segs, queue, task, todo, cur, req, on>>
    BY <1>7 DEF vars, RetriedExpires, row, stored, worker, request
  <2>2. \A d \in Docs : (Doomed(d)' <=> Doomed(d)) /\ SegsOf(d)' = SegsOf(d)
    BY <2>1, SameRows DEF Doomed, Deleting, Gone
  <2> QED BY <1>2, <2>1, <2>2 DEF Doom, OnlyDeleted, ToBeCleaned, LeftAlone
<1>8. ~Crash(w)
  BY <1>1, CrashCounts
<1> QED BY <1>4, <1>5, <1>6, <1>7, <1>8, AskedAssumption DEF Next

-----------------------------------------------------------------------------
(* What the invariant says of a document that nothing is about to be done to. *)
LEMMA QuietIsWhole ==
  ASSUME NEW w, Workers = {w}, IInv, crashes = 0 => Parts(w) PROVE CompletedInv
<1> SUFFICES ASSUME crashes = 0, NEW d \in Docs \ overtaken, status[d] = "completed", Quiet(d)
             PROVE  Whole(d)
  BY DEF IInv, CompletedInv, CompletedIsWhole
<1>1. Parts(w) /\ Searchable
  BY DEF IInv
<1>2. cur[w] # d /\ ~Doomed(d)
  BY DEF Quiet, Doomed, Deleting, Gone
<1>3. Finished(d)
  BY <1>1, <1>2 DEF Parts, Content, ContentOf
<1>4. VectorsOf(d) \subseteq SegsOf(d)
  BY <1>1 DEF Parts, Backed
<1>5. ASSUME NEW s \in SegsOf(d) PROVE s \in VectorsOf(d)
  <2>1. Due(s) /\ s \in Segs /\ DocOf[s[2]] = d
    BY <1>3, <1>5 DEF Finished, Due, SegsOf
  <2>2. ~Cleaned(s)
    BY <1>1, <1>2, <2>1 DEF Cleaned, Parts, Hands
  <2> QED BY <1>1, <2>1, <2>2 DEF Searchable, VectorsOf
<1> QED BY <1>3, <1>4, <1>5 DEF Whole, Finished, Split

LEMMA QuietIsGone ==
  ASSUME NEW w, Workers = {w}, crashes = 0 => Parts(w) /\ Doom(w) PROVE DeletedLeavesNothing
<1> SUFFICES ASSUME crashes = 0, NEW d \in Docs, Gone(d), Quiet(d)
             PROVE  SegsOf(d) = {} /\ (d \in overtaken \/ VectorsOf(d) = {})
  BY DEF DeletedLeavesNothing
<1>1. Parts(w) /\ Doom(w) /\ Doomed(d)
  BY DEF Doomed
<1>2. ~ToBeCleaned(d) /\ cur[w] # d
  BY DEF Quiet, ToBeCleaned, Message
<1>3. SegsOf(d) = {}
  BY <1>1, <1>2 DEF Doom, LeftAlone
<1> QED BY <1>1, <1>3 DEF Parts, Backed

(* With one worker, a vector store that deletes when it is asked to, and as  *)
(* long as the worker does not die, a document that is completed, and that   *)
(* nothing more is about to be done to, has each of its chunks exactly once, *)
(* completed and in the store, and nothing is left of an earlier attempt,    *)
(* however often it was paused, recovered and retried, by requests in any    *)
(* interleaving, unless one of its recoveries overtook a retry.              *)
THEOREM CompletedCorrect ==
  ASSUME OneWorker, ~CleanMayFail PROVE Spec => []CompletedInv
<1>1. PICK w : Workers = {w}
  BY DEF OneWorker
<1> DEFINE J == IInv /\ (crashes = 0 => Parts(w))
<1>2. Init => J
  BY <1>1, InitIInv, InitParts
<1>3. J /\ [Next]_vars => J'
  <2> SUFFICES ASSUME J, [Next]_vars PROVE J'
    OBVIOUS
  <2>1. IInv'
    BY StepIInv
  <2>2. crashes' = 0 => Parts(w)'
    BY <1>1, StepParts
  <2> QED BY <2>1, <2>2
<1>4. J => CompletedInv
  BY <1>1, QuietIsWhole
<1> QED BY <1>2, <1>3, <1>4, PTL DEF Spec

(* Of a document that is deleted no segment is left once its clean task is   *)
(* through, and no vector unless a recovery overtook a retry, whatever was   *)
(* being done to it: for one worker that does not die, a store that deletes  *)
(* when asked to, and if the request that deletes a document is served while *)
(* no other request about that document is.                                  *)
THEOREM DeletedCorrect ==
  ASSUME OneWorker, ~CleanMayFail
  PROVE  Spec /\ []DeletesAlone => []DeletedLeavesNothing
<1>1. PICK w : Workers = {w}
  BY DEF OneWorker
<1> DEFINE J == IInv /\ (crashes = 0 => Parts(w) /\ Doom(w))
<1>2. Init => J
  BY <1>1, InitIInv, InitParts, InitDoom
<1>3. J /\ [Next]_vars /\ DeletesAlone' => J'
  <2> SUFFICES ASSUME J, [Next]_vars, DeletesAlone' PROVE J'
    OBVIOUS
  <2>1. IInv'
    BY StepIInv
  <2>2. crashes' = 0 => Parts(w)'
    BY <1>1, StepParts
  <2>3. crashes' = 0 => Doom(w)'
    BY <1>1, StepDoom
  <2> QED BY <2>1, <2>2, <2>3
<1>4. J => DeletedLeavesNothing
  BY <1>1, QuietIsGone
<1> QED BY <1>2, <1>3, <1>4, PTL DEF Spec
=============================================================================
