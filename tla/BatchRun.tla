------------------------------ MODULE BatchRun ------------------------------
(***************************************************************************)
(* The page of a published text generation app: a list of tasks run in     *)
(* groups, each by a result panel of its own that sends one request and    *)
(* gives it a minute, retries of what has failed, and single runs that     *)
(* take the place of the list.                                             *)
(* src/web/app/components/share/text-generation: index.tsx,                *)
(* result/index.tsx; src/web/service/base.ts.                              *)
(*                                                                         *)
(* A handler is one step with the rendering and the effects it leads to.   *)
(***************************************************************************)
EXTENDS Naturals, Sequences, FiniteSets

CONSTANTS
  GroupSize,      \* GROUP_SIZE
  Sizes,          \* bound: the numbers of tasks each run may have if it is a batch
  MaxRetries      \* bound: retries

ASSUME GroupAssumption == GroupSize \in Nat \ {0}
ASSUME BoundsAssumption == Sizes \in Seq(SUBSET (Nat \ {0})) /\ MaxRetries \in Nat

VARIABLES
  tasks,          \* allTaskList: the status of each; its id is its place
  group,          \* currGroupNum
  batch,          \* isCallBatchAPI
  results,        \* batchCompletionRes: the run whose answer each result is, 0 for none
  responding,     \* isResponding of the panels on the page: 0 is that of a single run
  shown,          \* completionRes of those panels: the run whose answer it is, empty or not
  sends,          \* requests that have neither ended nor timed out
  late,           \* requests of those panels that have timed out: their streams go on
  retried,        \* controlRetry is not 0
  run, retries,   \* history: runs so far; bound: retries so far
  lapses          \* history: what the code does not foresee

vars == <<tasks, group, batch, results, responding, shown, sends, late, retried, run, retries,
          lapses>>

Statuses == {"pending", "running", "completed", "failed"}
MaxRuns == Len(Sizes)
TaskIds == UNION {1..n : n \in UNION {Sizes[r] : r \in DOMAIN Sizes}}
Keys == TaskIds \cup {0}
Send == [key : Keys, run : 1..MaxRuns,
         here : BOOLEAN,      \* the panel that has sent it is still on the page
         twin : BOOLEAN]      \* sent by the second effect of one rendering
Late == [key : Keys, run : 1..MaxRuns]

WithStatus(list, S) == {t \in DOMAIN list : list[t] \in S}
Finished(list) == WithStatus(list, {"completed", "failed"})
Pending(list) == WithStatus(list, {"pending"})

(* showTaskList, or the panel of a single run *)
Panels(list, isBatch) == IF isBatch THEN DOMAIN list \ Pending(list) ELSE {0}

TypeOK ==
  /\ tasks \in Seq(Statuses) /\ DOMAIN tasks \subseteq TaskIds
  /\ batch \in BOOLEAN /\ (batch \/ tasks = << >>)
  /\ group \in Nat /\ results \in [TaskIds -> 0..MaxRuns]
  /\ responding \in [Panels(tasks, batch) -> BOOLEAN]
  /\ shown \in [Panels(tasks, batch) -> 0..MaxRuns]
  /\ sends \subseteq Send /\ late \subseteq Late
  /\ retried \in BOOLEAN /\ run \in 0..MaxRuns /\ retries \in 0..MaxRetries
  /\ lapses \subseteq {"recounted", "cleared"}

Init ==
  /\ tasks = << >> /\ group = 0 /\ batch = FALSE
  /\ results = [t \in TaskIds |-> 0]
  /\ responding = [k \in {0} |-> FALSE] /\ shown = [k \in {0} |-> 0]
  /\ sends = {} /\ late = {} /\ retried = FALSE
  /\ run = 0 /\ retries = 0 /\ lapses = {}

-----------------------------------------------------------------------------
Smallest(k, S) == {t \in S : Cardinality({u \in S : u < t}) < k}
Request(k, r) == [key |-> k, run |-> r, here |-> TRUE, twin |-> FALSE]
(* Panels taken from the page forget what they were at; their requests go on. *)
Left(S, panels) == {IF s.key \in panels THEN s ELSE [s EXCEPT !.here = FALSE] : s \in S}
LateOn(panels) == {l \in late : l.key \in panels}

(* completionResRef of the panels when some of them send in run r: handleSend *)
(* empties it.  In a panel that has just appeared there is nothing.          *)
Emptied(panels, asking, r) ==
  [k \in panels |-> IF k \in asking THEN r ELSE IF k \in DOMAIN shown THEN shown[k] ELSE 0]

(* getCompletionRes of a request's panel: it is the panel's, not the         *)
(* request's.  A panel that has left the page may hold any of its answers.   *)
CompletionRes(s) == IF s.here THEN {shown[s.key]} ELSE 1..s.run

\* Mutant of NextGroup: a group is not waited for.
NextGroupAtOnce(list, at, count) ==
  IF at = count THEN {} ELSE Smallest(GroupSize, Pending(list))

(* needToAddNextGroupTask: the tasks to start when count are through; group *)
(* keeps the count at which the last were started.                          *)
NextGroup(list, at, count) ==
  IF at # count /\ (count % GroupSize = 0 \/ Len(list) < count + GroupSize)
  THEN Smallest(GroupSize, Pending(list))
  ELSE {}

(* handleCompleted: the page's state after task id is reported.  What counts *)
(* is one more than have ended before, whichever task it is.                 *)
Page == [tasks |-> tasks, group |-> group, again |-> FALSE]
Reported(page, id, ok) ==
  LET list == page.tasks
      count == 1 + Cardinality(Finished(list))
      start == NextGroup(list, page.group, count) IN
  [tasks |-> [t \in DOMAIN list |->
                IF t = id THEN IF ok THEN "completed" ELSE "failed"
                ELSE IF t \in start THEN "running" ELSE list[t]],
   group |-> IF start = {} THEN page.group ELSE count,
   again |-> page.again \/ id \notin WithStatus(list, {"running"})]

\* Mutant of Settled: the panel goes on responding.
SettledNot(s, page, res) ==
  LET panels == Panels(page.tasks, batch)
      mounted == panels \ DOMAIN responding
      told == IF s.here THEN [shown EXCEPT ![s.key] = res] ELSE shown IN
  /\ tasks' = page.tasks /\ group' = page.group
  /\ results' = IF s.key = 0 THEN results ELSE [results EXCEPT ![s.key] = res]
  /\ responding' = [k \in panels |-> k \in mounted \/ responding[k]]
  /\ shown' = [k \in panels |-> IF k \in mounted THEN run ELSE told[k]]
  /\ sends' = (sends \ {s}) \cup {Request(t, run) : t \in mounted}
  /\ lapses' = IF page.again /\ tasks # << >> THEN lapses \cup {"recounted"} ELSE lapses
  /\ UNCHANGED <<batch, retried, run, retries>>

(* A request has ended, its panel's answer is res, and page is what the page *)
(* has come to.  A panel that appears sends a request; so does one whose     *)
(* task has now failed if the failed tasks were ever retried, as its         *)
(* controlRetry is then no longer 0.                                         *)
Settled(s, page, res) ==
  LET panels == Panels(page.tasks, batch)
      mounted == panels \ DOMAIN responding
      own(k) == k = s.key /\ s.here
      quiet(k) == own(k) \/ ~responding[k]
      failed == {t \in WithStatus(page.tasks, {"failed"}) : retried /\ tasks[t] # "failed"}
      resent == {t \in failed \ mounted : quiet(t)} IN
  /\ tasks' = page.tasks /\ group' = page.group
  /\ results' = IF s.key = 0 THEN results ELSE [results EXCEPT ![s.key] = res]
  /\ responding' = [k \in panels |-> k \in mounted \cup resent \/ ~quiet(k)]
  /\ shown' = [k \in panels |-> IF k \in mounted \cup resent THEN run
                                ELSE IF own(k) THEN res ELSE shown[k]]
  /\ sends' = (sends \ {s}) \cup {Request(t, run) : t \in mounted \cup resent}
                            \cup {[Request(t, run) EXCEPT !.twin = TRUE] : t \in mounted \cap failed}
  /\ lapses' = IF page.again /\ tasks # << >> THEN lapses \cup {"recounted"} ELSE lapses
  /\ UNCHANGED <<batch, retried, run, retries>>

(* A stream has ended well; that of a workflow gives its answer only now. *)
Succeed(s) ==
  /\ \E page \in {Reported(Page, s.key, TRUE)}, res \in CompletionRes(s) \cup {s.run} :
       Settled(s, page, res)
  /\ UNCHANGED late

(* The server refuses the request, or its workflow ends with an error. *)
Fail(s) ==
  /\ \E page \in {Reported(Page, s.key, FALSE)}, res \in CompletionRes(s) : Settled(s, page, res)
  /\ UNCHANGED late

(* TEXT_GENERATION_TIMEOUT_MS are over.  Nothing ends the stream.            *)
TimeOut(s) ==
  /\ \E page \in {Reported(Page, s.key, FALSE)}, res \in CompletionRes(s) : Settled(s, page, res)
  /\ late' = late \cup (IF s.here THEN {[key |-> s.key, run |-> s.run]} ELSE {})

(* An error within the stream of a completion app: handleStream calls onData *)
(* with the message, which goes to onError, and then onCompleted.            *)
FailInStream(s) ==
  /\ \E failed \in {Reported(Page, s.key, FALSE)}, res \in CompletionRes(s) :
       \E page \in {Reported(failed, s.key, TRUE)} : Settled(s, page, res)
  /\ UNCHANGED late

(* onData and onMessageReplace of a completion app.  They do not ask whether *)
(* the request has timed out, nor whether the panel has sent another since.  *)
Write(k) ==
  /\ \E s \in {s \in sends : s.here} \cup late : s.key = k /\ shown' = [shown EXCEPT ![k] = s.run]
  /\ UNCHANGED <<tasks, group, batch, results, responding, sends, late, retried, run, retries,
                 lapses>>

-----------------------------------------------------------------------------
\* Mutant of RunBatch: the count of the last group stays.
RunBatchGoingOn(n) ==
  /\ \A t \in DOMAIN tasks : tasks[t] = "completed"
  /\ run' = run + 1
  /\ tasks' = [t \in 1..n |-> IF t <= GroupSize THEN "running" ELSE "pending"]
  /\ batch' = TRUE
  /\ LET panels == Panels(tasks', TRUE)
         free == {k \in panels : k \notin DOMAIN responding \/ ~responding[k]} IN
     /\ responding' = [k \in panels |-> k \in free]
     /\ shown' = Emptied(panels, free, run')
     /\ sends' = Left(sends, panels) \cup {Request(k, run') : k \in free}
     /\ late' = LateOn(panels)
  /\ UNCHANGED <<group, results, retried, retries, lapses>>

\* Mutant of RunBatch: handleSend leaves the panel's answer as it is.
RunBatchUnemptied(n) ==
  /\ \A t \in DOMAIN tasks : tasks[t] = "completed"
  /\ run' = run + 1
  /\ tasks' = [t \in 1..n |-> IF t <= GroupSize THEN "running" ELSE "pending"]
  /\ group' = 0 /\ batch' = TRUE
  /\ LET panels == Panels(tasks', TRUE)
         free == {k \in panels : k \notin DOMAIN responding \/ ~responding[k]} IN
     /\ responding' = [k \in panels |-> k \in free]
     /\ shown' = Emptied(panels, free \ DOMAIN shown, run')
     /\ sends' = Left(sends, panels) \cup {Request(k, run') : k \in free}
     /\ late' = LateOn(panels)
  /\ UNCHANGED <<results, retried, retries, lapses>>

(* handleRunBatch.  A panel that is there already sends unless it responds,  *)
(* and is then told that it no longer does; the results of the last batch    *)
(* stay.                                                                     *)
RunBatch(n) ==
  /\ \A t \in DOMAIN tasks : tasks[t] = "completed"
  /\ run' = run + 1
  /\ tasks' = [t \in 1..n |-> IF t <= GroupSize THEN "running" ELSE "pending"]
  /\ group' = 0 /\ batch' = TRUE
  /\ LET panels == Panels(tasks', TRUE)
         free == {k \in panels : k \notin DOMAIN responding \/ ~responding[k]} IN
     /\ responding' = [k \in panels |-> k \in free]
     /\ shown' = Emptied(panels, free, run')
     /\ sends' = Left(sends, panels) \cup {Request(k, run') : k \in free}
     /\ late' = LateOn(panels)
  /\ UNCHANGED <<results, retried, retries, lapses>>

(* handleSend of the page: whatever the batch is at, its list is cleared and *)
(* its panels go.  The panel of the single run sends unless it responds or   *)
(* the inputs are not complete.                                              *)
RunOnce ==
  /\ run < MaxRuns /\ run' = run + 1
  /\ tasks' = << >> /\ batch' = FALSE
  /\ \E complete \in BOOLEAN :
       LET busy == ~batch /\ responding[0] IN
       /\ responding' = [k \in {0} |-> busy \/ complete]
       /\ shown' = Emptied({0}, IF complete /\ ~busy THEN {0} ELSE {}, run')
       /\ sends' = Left(sends, {0}) \cup (IF complete /\ ~busy THEN {Request(0, run')} ELSE {})
  /\ late' = LateOn(IF batch THEN {} ELSE {0})
  /\ lapses' = IF batch /\ sends # {} THEN lapses \cup {"cleared"} ELSE lapses
  /\ UNCHANGED <<group, results, retried, retries>>

(* handleSend of panels whose tasks have failed; they stay failed meanwhile. *)
Resend(S) ==
  LET quiet == {t \in S : ~responding[t]} IN
  /\ retries < MaxRetries /\ retries' = retries + 1
  /\ responding' = [k \in DOMAIN responding |-> responding[k] \/ k \in quiet]
  /\ shown' = Emptied(DOMAIN responding, quiet, run)
  /\ sends' = sends \cup {Request(t, run) : t \in quiet}
  /\ UNCHANGED <<tasks, group, batch, results, late, run, lapses>>

RetryAll ==
  /\ WithStatus(tasks, {"failed"}) # {}
  /\ Resend(WithStatus(tasks, {"failed"}))
  /\ retried' = TRUE

RetryOne(t) ==
  /\ tasks[t] = "failed"
  /\ Resend({t})
  /\ UNCHANGED retried

-----------------------------------------------------------------------------
Next ==
  \/ run < MaxRuns /\ \E n \in Sizes[run + 1] : RunBatch(n)
  \/ RunOnce \/ RetryAll
  \/ \E t \in DOMAIN tasks : RetryOne(t)
  \/ \E s \in sends : Succeed(s) \/ Fail(s) \/ TimeOut(s) \/ FailInStream(s)
  \/ \E k \in DOMAIN responding : Write(k)

(* Every request has its timer, which ends it if nothing else does. *)
Spec == Init /\ [][Next]_vars /\ WF_vars(\E s \in sends : TimeOut(s))

-----------------------------------------------------------------------------
(* No more tasks run at once than a group has, unless a report was counted   *)
(* for a task that was not running: a retry, a second report of one request, *)
(* or a request of a run that is over.                                       *)
GroupLimit ==
  "recounted" \notin lapses => Cardinality(WithStatus(tasks, {"running"})) <= GroupSize

(* The answers that may be given as that of task t: to a request of this     *)
(* batch, or what a stream writes that has timed out since the panel came,   *)
(* in this batch or in an earlier one.                                       *)
OwnAnswers(t) == {run} \cup {l.run : l \in {x \in late : x.key = t}}

(* What a finished task is given as its result is the answer to a request of *)
(* its own batch, unless a request of its panel has timed out in an earlier  *)
(* one, whose stream nobody ends (result/index.tsx:364), or a batch was      *)
(* cleared by a single run while its requests were out.                      *)
ResultsAreOwn ==
  "cleared" \notin lapses => \A t \in Finished(tasks) : results[t] \in OwnAnswers(t)

(* A panel responds while one request of its own is out and at no other      *)
(* time, so that nothing is sent twice and nothing can no longer be sent.    *)
RespondingIsOut ==
  "cleared" \notin lapses =>
    \A k \in DOMAIN responding :
      Cardinality({s \in sends : s.here /\ s.key = k}) = IF responding[k] THEN 1 ELSE 0

(* The panels are those of the list, and each is at its own request. *)
PanelsInv == TypeOK /\ RespondingIsOut

(* A batch comes to its end, or is cleared: no task waits for a group that   *)
(* nobody starts, nor runs without a request that will report it.            *)
BatchEnds == (tasks # << >>) ~> (Finished(tasks) = DOMAIN tasks)
=============================================================================
