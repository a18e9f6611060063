-------------------------- MODULE DocumentIndexing --------------------------
(***************************************************************************)
(* Indexing the documents of a "high_quality" dataset.  Celery workers run  *)
(* the tasks of the "dataset" queue (tasks/*document*_task.py) through      *)
(* IndexingRunner; console requests pause, resume, retry and delete         *)
(* documents meanwhile.  What they share is the document's row, a pause and *)
(* a retry key in Redis, the segment rows and the vector store.             *)
(*                                                                          *)
(* Every commit, Redis call and call of the vector store is a step.  A task *)
(* is acknowledged when a worker takes it: a worker that dies loses it.     *)
(***************************************************************************)
EXTENDS Integers, Sequences, FiniteSets

CONSTANTS
    Docs, NoDoc,   \* the documents uploaded together; a value that is none
    Chunks,        \* the chunks of text they are split into
    DocOf,         \* the document of each chunk
    Gens,          \* one splitting of a document: fresh index_node_ids
    Workers,       \* the concurrent slots of the Celery workers
    Requests,      \* the console requests served at the same time
    CleanMayFail,  \* TRUE: deleting from the vector store may raise
    Asked,         \* bound: the documents the requests are about
    MaxOps,        \* bound: console requests made
    MaxCrashes     \* bound: workers that die in a task

ASSUME DocAssumption    == DocOf \in [Chunks -> Docs] /\ NoDoc \notin Docs
ASSUME StoreAssumption  == CleanMayFail \in BOOLEAN
ASSUME AskedAssumption  == Asked \subseteq Docs
ASSUME BoundsAssumption == {MaxOps, MaxCrashes} \subseteq Nat

VARIABLES
    status,    \* Document.indexing_status; "deleted" when the row is gone
    isPaused,  \* Document.is_paused
    flag,      \* document_<id>_is_paused in Redis
    retried,   \* document_<id>_is_retried in Redis
    segs,      \* DocumentSegment.status of each segment, "none" for no row
    vectors,   \* the segments whose vectors are in the store
    queue,     \* the Celery queue "dataset"
    pc,        \* per worker: where it is
    task,      \* per worker: the kind of its task
    todo,      \* per worker: documents of its batch not yet begun
    cur,       \* per worker: the document it works on
    goal,      \* per worker: the status it is about to write
    mine,      \* per worker: the segments it indexes or cleans
    grp,       \* per worker: how far its pool is with each of them
    req,       \* per request: where it is
    on,        \* per request: the document it is about
    saw,       \* per request: the status it read
    ops,       \* requests made so far
    crashes,   \* workers that have died
    overtaken  \* history: documents whose recovery has overtaken a retry

row      == <<status, isPaused>>
redis    == <<flag, retried>>
stored   == <<segs, vectors>>
worker   == <<pc, task, todo, cur, goal, mine, grp>>
request  == <<req, on, saw, ops>>
history  == <<crashes, overtaken>>
vars == <<row, redis, stored, queue, worker, request, history>>

-----------------------------------------------------------------------------
(* A segment is one chunk of one splitting: its index_node_id is a uuid made *)
(* by the splitting.                                                        *)

Segs == Gens \X Chunks
Exists(s)  == segs[s] # "none"
SegsOf(d)  == {s \in Segs : DocOf[s[2]] = d /\ Exists(s)}
Gone(d)    == status[d] = "deleted"
Message(k, d) == [kind |-> k, doc |-> d]
Nothing    == [s \in Segs |-> "out"]

Unsettled == {"waiting", "parsing", "splitting", "indexing"}

\* An attribute of the row set and committed: of a row that is gone nothing
\* is written (StaleDataError, which ends the task or the request).
SetStatus(d, st) == IF Gone(d) THEN status ELSE [status EXCEPT ![d] = st]

Goto(w, l) == pc' = [pc EXCEPT ![w] = l]

\* The worker is free for the next task.
Free(w) ==
    /\ pc'   = [pc EXCEPT ![w] = "idle"]
    /\ task' = [task EXCEPT ![w] = "none"]
    /\ todo' = [todo EXCEPT ![w] = {}]
    /\ cur'  = [cur EXCEPT ![w] = NoDoc]
    /\ goal' = [goal EXCEPT ![w] = "none"]
    /\ mine' = [mine EXCEPT ![w] = {}]
    /\ grp'  = [grp EXCEPT ![w] = Nothing]

-----------------------------------------------------------------------------
(* Taking a task.                                                           *)

Begin(w, k, d, l) ==
    /\ queue' = Tail(queue)
    /\ task' = [task EXCEPT ![w] = k]
    /\ cur' = [cur EXCEPT ![w] = d]
    /\ Goto(w, l)
    /\ UNCHANGED <<goal, grp>>

Waiting(w, k) == pc[w] = "idle" /\ queue # <<>> /\ Head(queue).kind = k

\* document_indexing_task: every document of the batch is "parsing".
TakeIndex(w) ==
    /\ Waiting(w, "index")
    /\ status' = [d \in Docs |-> IF Gone(d) THEN "deleted" ELSE "parsing"]
    /\ todo' = [todo EXCEPT ![w] = {d \in Docs : ~Gone(d)}]
    /\ Begin(w, "index", NoDoc, "next")
    /\ UNCHANGED <<isPaused, redis, stored, mine, request, history>>

\* The same over the limits of the plan: every document is in error.
RefuseIndex(w) ==
    /\ Waiting(w, "index")
    /\ status' = [d \in Docs |-> IF Gone(d) THEN "deleted" ELSE "error"]
    /\ queue' = Tail(queue)
    /\ UNCHANGED <<isPaused, redis, stored, worker, request, history>>

\* Mutant of ResumeAt: a document in "indexing" is not taken up again.
ResumeAtForgets(st) ==
    CASE st \in {"waiting", "parsing"} -> "extract"
      [] st = "splitting" -> "purge"
      [] OTHER -> "next"

\* Where recovery begins: run, run_in_splitting_status, run_in_indexing_status
\* or nothing to do.
ResumeAt(st) ==
    CASE st \in {"waiting", "parsing"} -> "extract"
      [] st = "splitting" -> "purge"
      [] st = "indexing" -> "collect"
      [] OTHER -> "next"

\* recover_document_indexing_task.  A document that is found "waiting" was set
\* so by a retry whose own task, and its cleaning, are still to come: the
\* recovery starts over on top of what is there.
TakeRecover(w) ==
    LET d == Head(queue).doc IN
    /\ Waiting(w, "recover")
    /\ Begin(w, "recover", d, ResumeAt(status[d]))
    /\ overtaken' = overtaken \cup {e \in Docs : e = d /\ status[e] = "waiting"}
    /\ UNCHANGED <<row, redis, stored, todo, mine, request, crashes>>

\* retry_document_indexing_task of a document that is there, and
\* clean_document_task: first the segments are read.
TakeClean(w, k) ==
    LET d == Head(queue).doc IN
    /\ Waiting(w, k) /\ k \in {"retry", "clean"}
    /\ k = "retry" => ~Gone(d)
    /\ mine' = [mine EXCEPT ![w] = SegsOf(d)]
    /\ Begin(w, k, d, "cleanVectors")
    /\ UNCHANGED <<row, redis, stored, todo, request, history>>

\* Mutant of RefuseRetry: the document is not told.
RefuseRetryOnly(w) ==
    LET d == Head(queue).doc IN
    /\ Waiting(w, "retry")
    /\ retried' = [retried EXCEPT ![d] = Gone(d) /\ @]
    /\ queue' = Tail(queue)
    /\ UNCHANGED <<row, flag, stored, worker, request, history>>

\* A retry over the plan's limit, or of a document that is gone.
RefuseRetry(w) ==
    LET d == Head(queue).doc IN
    /\ Waiting(w, "retry")
    /\ \/ /\ status' = SetStatus(d, "error")
          /\ retried' = [retried EXCEPT ![d] = FALSE]
       \/ Gone(d) /\ UNCHANGED <<status, retried>>
    /\ queue' = Tail(queue)
    /\ UNCHANGED <<isPaused, flag, stored, worker, request, history>>

-----------------------------------------------------------------------------
(* Cleaning.                                                                *)

CleanVectors(w) ==
    /\ pc[w] = "cleanVectors"
    /\ vectors' = vectors \ mine[w]
    /\ Goto(w, "cleanSegs")
    /\ UNCHANGED <<row, redis, segs, queue, task, todo, cur, goal, mine, grp,
                   request, history>>

\* index_processor.clean raised: a retry is an error, a clean only logs it.
CleanFails(w) ==
    /\ CleanMayFail
    /\ pc[w] = "cleanVectors" /\ mine[w] # {}
    /\ IF task[w] = "retry"
       THEN /\ status' = SetStatus(cur[w], "error")
            /\ retried' = [retried EXCEPT ![cur[w]] = Gone(cur[w]) /\ @]
       ELSE UNCHANGED <<status, retried>>
    /\ Free(w)
    /\ UNCHANGED <<isPaused, flag, stored, queue, request, history>>

\* Mutant of CleanSegs: the segments that were completed stay.
CleanSegsKeeps(w) ==
    /\ pc[w] = "cleanSegs"
    /\ segs' = [s \in Segs |-> IF s \in mine[w] /\ segs[s] # "completed"
                               THEN "none" ELSE segs[s]]
    /\ IF task[w] = "retry"
       THEN /\ Goto(w, "reset") /\ mine' = [mine EXCEPT ![w] = {}]
            /\ UNCHANGED <<task, todo, cur, goal, grp>>
       ELSE Free(w)
    /\ UNCHANGED <<row, redis, vectors, queue, request, history>>

CleanSegs(w) ==
    /\ pc[w] = "cleanSegs"
    /\ segs' = [s \in Segs |-> IF s \in mine[w] THEN "none" ELSE segs[s]]
    /\ IF task[w] = "retry"
       THEN /\ Goto(w, "reset") /\ mine' = [mine EXCEPT ![w] = {}]
            /\ UNCHANGED <<task, todo, cur, goal, grp>>
       ELSE Free(w)
    /\ UNCHANGED <<row, redis, vectors, queue, request, history>>

\* A retry starts over.
Reset(w) ==
    /\ pc[w] = "reset"
    /\ IF Gone(cur[w])
       THEN Free(w) /\ UNCHANGED status
       ELSE /\ status' = [status EXCEPT ![cur[w]] = "parsing"]
            /\ Goto(w, "extract")
            /\ UNCHANGED <<task, todo, cur, goal, mine, grp>>
    /\ UNCHANGED <<isPaused, redis, stored, queue, request, history>>

-----------------------------------------------------------------------------
(* IndexingRunner.                                                          *)

\* The document is dealt with; those of a batch are done one after the other.
Finish(w) ==
    /\ Goto(w, "next")
    /\ mine' = [mine EXCEPT ![w] = {}]
    /\ grp' = [grp EXCEPT ![w] = Nothing]
    /\ goal' = [goal EXCEPT ![w] = "none"]
    /\ UNCHANGED <<task, todo, cur>>

\* The except clauses for anything but a pause.  When the row is gone their
\* own commit raises, which ends the task with the rest of its batch.
ErrorOut(w) ==
    /\ status' = SetStatus(cur[w], "error")
    /\ IF Gone(cur[w]) THEN Free(w) ELSE Finish(w)
    /\ UNCHANGED <<isPaused, redis, stored, queue, request, history>>

\* The row is loaded again and is gone: ObjectDeletedError.
Skip(w) ==
    /\ Finish(w)
    /\ UNCHANGED <<row, redis, stored, queue, request, history>>

\* DocumentIsPausedError leaves the runner and ends the task, with the rest of
\* its batch; the task of a retry takes it for an error.
PausedOut(w) ==
    /\ IF task[w] = "retry"
       THEN /\ status' = SetStatus(cur[w], "error")
            /\ retried' = [retried EXCEPT ![cur[w]] = Gone(cur[w]) /\ @]
       ELSE UNCHANGED <<status, retried>>
    /\ Free(w)
    /\ UNCHANGED <<isPaused, flag, stored, queue, request, history>>

NextDoc(w, d) ==
    /\ pc[w] = "next" /\ d \in todo[w]
    /\ todo' = [todo EXCEPT ![w] = @ \ {d}]
    /\ cur' = [cur EXCEPT ![w] = d]
    /\ Goto(w, IF Gone(d) THEN "next" ELSE "extract")
    /\ UNCHANGED <<row, redis, stored, queue, task, goal, mine, grp, request,
                   history>>

EndTask(w) ==
    /\ pc[w] = "next" /\ todo[w] = {}
    /\ retried' = IF task[w] = "retry"
                  THEN [retried EXCEPT ![cur[w]] = FALSE] ELSE retried
    /\ Free(w)
    /\ UNCHANGED <<row, flag, stored, queue, request, history>>

\* Mutant of Purge: the segments of the broken splitting stay.
PurgeNothing(w) ==
    /\ pc[w] = "purge"
    /\ Goto(w, "extract")
    /\ UNCHANGED <<row, redis, stored, queue, task, todo, cur, goal, mine, grp,
                   request, history>>

\* run_in_splitting_status: the segments are deleted, the vectors are not.
Purge(w) ==
    /\ pc[w] = "purge"
    /\ segs' = [s \in Segs |-> IF DocOf[s[2]] = cur[w] THEN "none" ELSE segs[s]]
    /\ Goto(w, "extract")
    /\ UNCHANGED <<row, redis, vectors, queue, task, todo, cur, goal, mine, grp,
                   request, history>>

Announce(w, st) == goal' = [goal EXCEPT ![w] = st] /\ Goto(w, "check")

Extract(w) ==
    /\ pc[w] = "extract"
    /\ Announce(w, "splitting")
    /\ UNCHANGED <<row, redis, stored, queue, task, todo, cur, mine, grp,
                   request, history>>

\* The file, the splitting, the token count or the database raised.
Fails(w) ==
    /\ pc[w] \in {"purge", "extract", "transform", "add", "collect"}
    /\ ErrorOut(w)

\* _update_document_index_status: is_paused and the row are looked at ...
CheckDocument(w) ==
    /\ pc[w] = "check"
    /\ IF Gone(cur[w]) THEN ErrorOut(w)
       ELSE IF isPaused[cur[w]] THEN PausedOut(w)
       ELSE /\ Goto(w, "write")
            /\ UNCHANGED <<row, redis, stored, queue, task, todo, cur, goal,
                           mine, grp, request, history>>

\* ... and the status is written, whatever happened to them since.
WriteStatus(w) ==
    /\ pc[w] = "write"
    /\ status' = SetStatus(cur[w], goal[w])
    /\ CASE goal[w] = "splitting" ->
              Goto(w, "transform") /\ UNCHANGED <<task, todo, cur, goal, mine, grp>>
         [] goal[w] = "indexing"  ->
              Goto(w, "segStatus") /\ UNCHANGED <<task, todo, cur, goal, mine, grp>>
         [] goal[w] = "completed" -> Finish(w)
    /\ UNCHANGED <<isPaused, redis, stored, queue, request, history>>

\* uuid4(): an id that is in use nowhere.
FreshGens ==
    {g \in Gens : \A c \in Chunks :
        /\ ~Exists(<<g, c>>) /\ <<g, c>> \notin vectors
        /\ \A w \in Workers : <<g, c>> \notin mine[w]}

\* The splitting.  The row is loaded again here.
Transform(w) ==
    /\ pc[w] = "transform"
    /\ IF Gone(cur[w]) THEN Skip(w)
       ELSE /\ FreshGens # {}
            /\ LET g == CHOOSE g \in FreshGens : TRUE IN
               mine' = [mine EXCEPT ![w] =
                           {s \in Segs : s[1] = g /\ DocOf[s[2]] = cur[w]}]
            /\ Goto(w, "add")
            /\ UNCHANGED <<row, redis, stored, queue, task, todo, cur, goal,
                           grp, request, history>>

Unqueued(w) == {s \in mine[w] : grp[w][s] = "out"}

\* add_documents: one row after the other is committed.
AddSegment(w, s) ==
    /\ pc[w] = "add" /\ s \in Unqueued(w)
    /\ segs' = [segs EXCEPT ![s] = "waiting"]
    /\ grp' = [grp EXCEPT ![w][s] = "queued"]
    /\ UNCHANGED <<row, redis, vectors, queue, pc, task, todo, cur, goal, mine,
                   request, history>>

\* The row is loaded again after the last commit.
Added(w) ==
    /\ pc[w] = "add" /\ Unqueued(w) = {}
    /\ IF Gone(cur[w]) THEN Skip(w)
       ELSE /\ Announce(w, "indexing")
            /\ UNCHANGED <<row, redis, stored, queue, task, todo, cur, mine,
                           grp, request, history>>

\* _update_segments_by_document: every segment of the document.
SegmentStatus(w) ==
    /\ pc[w] = "segStatus"
    /\ segs' = [s \in Segs |-> IF s \in SegsOf(cur[w]) THEN "indexing" ELSE segs[s]]
    /\ Goto(w, "load")
    /\ UNCHANGED <<row, redis, vectors, queue, task, todo, cur, goal, mine, grp,
                   request, history>>

\* run_in_indexing_status: the segments that are not completed.
Collect(w) ==
    /\ pc[w] = "collect"
    /\ mine' = [mine EXCEPT ![w] = {s \in SegsOf(cur[w]) : segs[s] # "completed"}]
    /\ grp' = [grp EXCEPT ![w] =
                  [s \in Segs |-> IF s \in mine'[w] THEN "queued" ELSE "out"]]
    /\ Goto(w, "load")
    /\ UNCHANGED <<row, redis, stored, queue, task, todo, cur, goal, request,
                   history>>

\* _load begins: the row is loaded again, the groups go to the pool.
Load(w) ==
    /\ pc[w] = "load"
    /\ IF Gone(cur[w]) THEN Skip(w)
       ELSE /\ Goto(w, "groups")
            /\ UNCHANGED <<row, redis, stored, queue, task, todo, cur, goal,
                           mine, grp, request, history>>

\* One step of the thread of segment s, from a to b.
Group(w, s, a, b) ==
    /\ pc[w] = "groups" /\ s \in mine[w] /\ grp[w][s] = a
    /\ grp' = [grp EXCEPT ![w][s] = b]
    /\ UNCHANGED <<row, redis, queue, pc, task, todo, cur, goal, mine, request,
                   history>>

\* _check_document_paused_status
GroupCheck(w, s) ==
    /\ Group(w, s, "queued", IF flag[cur[w]] THEN "paused" ELSE "loading")
    /\ UNCHANGED stored

GroupFails(w, s) == Group(w, s, "loading", "failed") /\ UNCHANGED stored

GroupLoad(w, s) ==
    /\ Group(w, s, "loading", "stored")
    /\ vectors' = vectors \cup {s}
    /\ UNCHANGED segs

\* Only a segment that is (still) "indexing" is completed.
GroupMark(w, s) ==
    /\ Group(w, s, "stored", "done")
    /\ segs' = [segs EXCEPT ![s] = IF @ = "indexing" THEN "completed" ELSE @]
    /\ UNCHANGED vectors

\* The pool is shut down; the first future that raised decides.
Join(w) ==
    LET ended == {grp[w][s] : s \in mine[w]} IN
    /\ pc[w] = "groups" /\ ended \subseteq {"done", "paused", "failed"}
    /\ \/ "paused" \in ended /\ PausedOut(w)
       \/ "failed" \in ended /\ ErrorOut(w)
       \/ /\ ended \subseteq {"done"}
          /\ Announce(w, "completed")
          /\ UNCHANGED <<row, redis, stored, queue, task, todo, cur, mine, grp,
                         request, history>>

\* The worker dies with its pool; its task is lost.
Crash(w) ==
    /\ crashes < MaxCrashes /\ pc[w] # "idle"
    /\ crashes' = crashes + 1
    /\ Free(w)
    /\ UNCHANGED <<row, redis, stored, queue, request, overtaken>>

-----------------------------------------------------------------------------
(* Console requests.  Each reads the row when it arrives and acts later; one *)
(* that loads the row again after its commit, and does not find it, ends.   *)

Arrive(r, d, l) ==
    /\ req[r] = "idle" /\ ~Gone(d)
    /\ ops < MaxOps /\ ops' = ops + 1
    /\ req' = [req EXCEPT ![r] = l]
    /\ on' = [on EXCEPT ![r] = d]
    /\ UNCHANGED <<row, redis, stored, worker, history>>

Leave(r) ==
    /\ req' = [req EXCEPT ![r] = "idle"]
    /\ on' = [on EXCEPT ![r] = NoDoc]
    /\ saw' = [saw EXCEPT ![r] = "none"]
    /\ UNCHANGED ops

Step(r, from, to) ==
    /\ req[r] = from
    /\ req' = [req EXCEPT ![r] = to]
    /\ UNCHANGED <<on, saw, ops>>

\* pause_document.  A row that was read as paused is not written again.
PauseRead(r, d) ==
    /\ status[d] \in Unsettled
    /\ Arrive(r, d, "pause")
    /\ saw' = [saw EXCEPT ![r] = IF isPaused[d] THEN "paused" ELSE "none"]
    /\ UNCHANGED queue

PauseCommit(r) ==
    /\ req[r] = "pause"
    /\ IF Gone(on[r]) THEN Leave(r) /\ UNCHANGED isPaused
       ELSE /\ isPaused' = [isPaused EXCEPT ![on[r]] = saw[r] # "paused" \/ @]
            /\ Step(r, "pause", "pauseFlag")
    /\ UNCHANGED <<status, redis, stored, queue, worker, history>>

PauseFlag(r) ==
    /\ req[r] = "pauseFlag"
    /\ flag' = [flag EXCEPT ![on[r]] = ~Gone(on[r]) \/ @]
    /\ Leave(r)
    /\ UNCHANGED <<row, retried, stored, queue, worker, history>>

\* recover_document
RecoverRead(r, d) ==
    /\ isPaused[d]
    /\ Arrive(r, d, "recover")
    /\ UNCHANGED <<saw, queue>>

RecoverCommit(r) ==
    /\ req[r] = "recover"
    /\ IF Gone(on[r]) THEN Leave(r) /\ UNCHANGED isPaused
       ELSE /\ isPaused' = [isPaused EXCEPT ![on[r]] = FALSE]
            /\ Step(r, "recover", "recoverFlag")
    /\ UNCHANGED <<status, redis, stored, queue, worker, history>>

RecoverFlag(r) ==
    /\ req[r] = "recoverFlag"
    /\ flag' = [flag EXCEPT ![on[r]] = Gone(on[r]) /\ @]
    /\ IF Gone(on[r]) THEN Leave(r) ELSE Step(r, "recoverFlag", "recoverSend")
    /\ UNCHANGED <<row, retried, stored, queue, worker, history>>

RecoverSend(r) ==
    /\ req[r] = "recoverSend"
    /\ queue' = Append(queue, Message("recover", on[r]))
    /\ Leave(r)
    /\ UNCHANGED <<row, redis, stored, worker, history>>

\* retry_document
RetryRead(r, d) ==
    /\ status[d] # "completed"
    /\ Arrive(r, d, "retry")
    /\ saw' = [saw EXCEPT ![r] = status[d]]
    /\ UNCHANGED queue

RetryCheck(r) ==
    /\ req[r] = "retry"
    /\ IF retried[on[r]] THEN Leave(r) ELSE Step(r, "retry", "retryCommit")
    /\ UNCHANGED <<row, redis, stored, queue, worker, history>>

\* A status that was read as "waiting" is not written again.
RetryCommit(r) ==
    /\ req[r] = "retryCommit"
    /\ IF saw[r] = "waiting" THEN UNCHANGED status /\ Step(r, "retryCommit", "retryFlag")
       ELSE /\ status' = SetStatus(on[r], "waiting")
            /\ IF Gone(on[r]) THEN Leave(r) ELSE Step(r, "retryCommit", "retryFlag")
    /\ UNCHANGED <<isPaused, redis, stored, queue, worker, history>>

RetryFlag(r) ==
    /\ Step(r, "retryFlag", "retrySend")
    /\ retried' = [retried EXCEPT ![on[r]] = TRUE]
    /\ UNCHANGED <<row, flag, stored, queue, worker, history>>

RetrySend(r) ==
    /\ req[r] = "retrySend"
    /\ queue' = IF Gone(on[r]) THEN queue
                ELSE Append(queue, Message("retry", on[r]))
    /\ Leave(r)
    /\ UNCHANGED <<row, redis, stored, worker, history>>

\* Mutant of DeleteSend: the row is deleted without the clean task.
DeleteSendNothing(r, d) ==
    /\ Arrive(r, d, "delete")
    /\ UNCHANGED <<saw, queue>>

\* delete_document: the clean task is sent before the row is deleted.
DeleteSend(r, d) ==
    /\ Arrive(r, d, "delete")
    /\ queue' = Append(queue, Message("clean", d))
    /\ UNCHANGED saw

DeleteRow(r) ==
    /\ req[r] = "delete"
    /\ status' = [status EXCEPT ![on[r]] = "deleted"]
    /\ Leave(r)
    /\ UNCHANGED <<isPaused, redis, stored, queue, worker, history>>

\* The retry key lives for ten minutes.
RetriedExpires(d) ==
    /\ retried[d]
    /\ retried' = [retried EXCEPT ![d] = FALSE]
    /\ UNCHANGED <<row, flag, stored, queue, worker, request, history>>

-----------------------------------------------------------------------------

Init ==
    /\ status = [d \in Docs |-> "waiting"] /\ isPaused = [d \in Docs |-> FALSE]
    /\ flag = [d \in Docs |-> FALSE] /\ retried = [d \in Docs |-> FALSE]
    /\ segs = [s \in Segs |-> "none"] /\ vectors = {}
    /\ queue = <<Message("index", NoDoc)>>
    /\ pc = [w \in Workers |-> "idle"] /\ task = [w \in Workers |-> "none"]
    /\ todo = [w \in Workers |-> {}] /\ cur = [w \in Workers |-> NoDoc]
    /\ goal = [w \in Workers |-> "none"]
    /\ mine = [w \in Workers |-> {}] /\ grp = [w \in Workers |-> Nothing]
    /\ req = [r \in Requests |-> "idle"] /\ on = [r \in Requests |-> NoDoc]
    /\ saw = [r \in Requests |-> "none"]
    /\ ops = 0 /\ crashes = 0 /\ overtaken = {}

Work(w) ==
    \/ TakeIndex(w) \/ RefuseIndex(w) \/ TakeRecover(w) \/ RefuseRetry(w)
    \/ \E k \in {"retry", "clean"} : TakeClean(w, k)
    \/ CleanVectors(w) \/ CleanFails(w) \/ CleanSegs(w) \/ Reset(w)
    \/ \E d \in Docs : NextDoc(w, d)
    \/ EndTask(w) \/ Purge(w) \/ Extract(w) \/ Fails(w)
    \/ CheckDocument(w) \/ WriteStatus(w) \/ Transform(w)
    \/ \E s \in Segs :
        \/ AddSegment(w, s) \/ GroupCheck(w, s) \/ GroupFails(w, s)
        \/ GroupLoad(w, s) \/ GroupMark(w, s)
    \/ Added(w) \/ SegmentStatus(w) \/ Collect(w) \/ Load(w) \/ Join(w)

Proceed(r) ==
    \/ PauseCommit(r) \/ PauseFlag(r)
    \/ RecoverCommit(r) \/ RecoverFlag(r) \/ RecoverSend(r)
    \/ RetryCheck(r) \/ RetryCommit(r) \/ RetryFlag(r) \/ RetrySend(r)
    \/ DeleteRow(r)

Ask(r, d) == PauseRead(r, d) \/ RecoverRead(r, d) \/ RetryRead(r, d) \/ DeleteSend(r, d)

Next ==
    \/ \E w \in Workers : Work(w) \/ Crash(w)
    \/ \E r \in Requests : Proceed(r)
    \/ \E r \in Requests, d \in Asked : Ask(r, d)
    \/ \E d \in Docs : RetriedExpires(d)

Spec == Init /\ [][Next]_vars

(* Workers work and a request that has arrived is served to its end; nobody *)
(* need ever ask for anything.                                              *)
FairSpec ==
    /\ Spec
    /\ \A w \in Workers : WF_vars(Work(w))
    /\ \A r \in Requests : WF_vars(Proceed(r))

-----------------------------------------------------------------------------
(* Properties.                                                              *)

\* Every variable has its type.
TypeOK ==
    /\ status \in [Docs -> Unsettled \cup {"completed", "error", "deleted"}]
    /\ isPaused \in [Docs -> BOOLEAN]
    /\ flag \in [Docs -> BOOLEAN] /\ retried \in [Docs -> BOOLEAN]
    /\ segs \in [Segs -> {"none", "waiting", "indexing", "completed"}]
    /\ vectors \in SUBSET Segs
    /\ queue \in Seq([kind : {"index", "recover", "retry", "clean"},
                      doc : Docs \cup {NoDoc}])
    /\ pc \in [Workers -> {"idle", "next", "cleanVectors", "cleanSegs", "reset",
                           "purge", "extract", "check", "write", "transform",
                           "add", "segStatus", "collect", "load", "groups"}]
    /\ task \in [Workers -> {"none", "index", "recover", "retry", "clean"}]
    /\ todo \in [Workers -> SUBSET Docs]
    /\ cur \in [Workers -> Docs \cup {NoDoc}]
    /\ goal \in [Workers -> {"none", "splitting", "indexing", "completed"}]
    /\ mine \in [Workers -> SUBSET Segs]
    /\ grp \in [Workers -> [Segs -> {"out", "queued", "loading", "stored",
                                     "done", "paused", "failed"}]]
    /\ req \in [Requests -> {"idle", "pause", "pauseFlag", "recover",
                             "recoverFlag", "recoverSend", "retry",
                             "retryCommit", "retryFlag", "retrySend", "delete"}]
    /\ on \in [Requests -> Docs \cup {NoDoc}]
    /\ saw \in [Requests -> Unsettled \cup {"none", "paused", "completed",
                                            "error", "deleted"}]
    /\ ops \in 0..MaxOps /\ crashes \in 0..MaxCrashes
    /\ overtaken \in SUBSET Docs

\* A segment that is completed can be found: its vector is in the store,
\* unless a retry or a clean that is deleting both is between the two.  Holds
\* for any number of workers on the same document, as long as none dies.
SegmentsSearchable ==
    crashes = 0 =>
        \A s \in Segs : segs[s] = "completed" =>
            \/ s \in vectors
            \/ \E w \in Workers : pc[w] = "cleanSegs" /\ s \in mine[w]

\* Nobody is about to do anything to d: no worker, no task, no request.
Quiet(d) ==
    /\ \A w \in Workers : cur[w] # d /\ d \notin todo[w]
    /\ \A i \in DOMAIN queue : queue[i].doc # d
    /\ \A r \in Requests : on[r] # d

VectorsOf(d) == {s \in vectors : DocOf[s[2]] = d}

\* The splitting of d that is indexed, and no trace of another one.
Whole(d) ==
    /\ \A c \in Chunks : DocOf[c] = d =>
          \E g \in Gens : {s \in SegsOf(d) : s[2] = c} = {<<g, c>>}
    /\ \A s \in SegsOf(d) : segs[s] = "completed"
    /\ VectorsOf(d) = SegsOf(d)

\* What _load promises ("insert index and update document/segment status to
\* completed"), across pauses, recoveries, retries and errors: a document that
\* is completed has each of its chunks exactly once, completed and in the
\* store, and nothing is left of what an earlier attempt had stored, unless
\* one of its recoveries overtook a retry.  Holds of one worker that does not
\* die and a store that deletes when asked, however requests overlap.
CompletedIsWhole ==
    crashes = 0 =>
        \A d \in Docs \ overtaken :
            status[d] = "completed" /\ Quiet(d) => Whole(d)

\* The rows are of their types, and "completed" is true where they say it.
CompletedInv == TypeOK /\ CompletedIsWhole

\* clean_document_task, "clean document when document deleted": once the row
\* is gone and the clean task is through, no segment of the document is left,
\* whatever was being done to it when it was deleted; and no vector either,
\* unless one of its recoveries overtook a retry.  Holds as CompletedIsWhole
\* does, if no other request about the document overlaps the one that deletes
\* it: a retry that is sent between the clean task and the deletion of the row
\* builds up again what has been cleaned.
DeletedLeavesNothing ==
    crashes = 0 =>
        \A d \in Docs :
            Gone(d) /\ Quiet(d)
                => SegsOf(d) = {} /\ (d \in overtaken \/ VectorsOf(d) = {})

Settled(d) == status[d] \notin Unsettled \/ isPaused[d]

\* Something is still to be done for d: by a worker, by a task in the queue or
\* by a request that goes on to send one or to delete the row.
InHand(d) ==
    \/ \E w \in Workers :
          d \in todo[w] \/ (cur[w] = d /\ task[w] # "clean" /\ pc[w] # "next")
    \/ \E i \in DOMAIN queue :
          queue[i].kind = "index" \/ (queue[i].doc = d /\ queue[i].kind # "clean")
    \/ \E r \in Requests :
          on[r] = d /\ req[r] \in {"recoverFlag", "recoverSend", "retryFlag",
                                  "retrySend", "delete"}

Neglected(d) == ~Settled(d) /\ ~InHand(d)

\* The worker leaves the rest of its batch: its document is paused or gone.
LeavesBatch(w) ==
    \/ isPaused[cur[w]] \/ Gone(cur[w])
    \/ \E s \in mine[w] : grp[w][s] = "paused"

\* "parsing", and nobody at it: as long as no worker dies, a document that is
\* neither at an end nor paused is left alone only because the flag of a pause
\* that came after the resuming still stands (dataset_service.py:984), or
\* because its batch was left when another document of it was paused or
\* deleted (indexing_runner.py:87); whatever requests overlap.
NeglectedForCause ==
    [][\A d \in Docs : Neglected(d)' /\ ~Neglected(d) =>
          \/ crashes' # 0 \/ flag[d]
          \/ \E w \in Workers : d \in todo[w] /\ LeavesBatch(w)]_vars

\* A document is brought to an end, completed, in error or deleted, or it is
\* paused, also when it was paused, resumed or retried on the way; but for the
\* two causes for which it is neglected.
EventuallySettles ==
    /\ NeglectedForCause
    /\ \A d \in Docs : ~Settled(d) ~> Settled(d) \/ Neglected(d)
=============================================================================
