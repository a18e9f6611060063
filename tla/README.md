# AlphaMind-X: formal models

TLA+ specifications of the protocols of this repository (a Dify fork): inside the
API server (`src/api`), what its threads, workers and requests do to the state they
share; inside the web console (`src/web`), what its handlers, timers, streams and tabs
do to theirs; which properties that must have, what the model checker TLC says of
small instances and what the TLA+ proof system proves for all of them.

    server
    AppTask            one run of a workflow app: worker thread, listening thread, stop flag
    RunRecord            what the database promises of a run; AppTask implements it
    GraphEngine        one run of the graph: branches on a shared thread pool
    RateLimit          the limit of concurrent requests of an app
    DocumentIndexing   the documents of a dataset: worker tasks and console requests
    console
    Chat               the chat hook: message tree, event streams, stop, new start
    Canvas             the workflow editor: nodes, edges, containers, clipboard, history
    DraftSync          the draft of a workflow: tabs that save and refresh, and the server
    TokenRefresh       the renewal of the session: tabs, waiting calls, and the server
    BatchRun           the batch page: groups of tasks, result panels, retries
    *Proofs            theorems about the module they extend
    MC*                instances for TLC, with the .cfg files that use them

Line numbers of the server's parts are those of files under `src/api`, of the
console's parts those of files under `src/web`. `PROJECT.json` maps each
definition to the lines it stands for.

## 1. The system

The server is a Flask application and Celery workers over PostgreSQL, Redis, a
vector store and files. The web console is a Next.js application that keeps more
state than it shows: optimistic trees and lists, references shared by callbacks,
locks in local storage, debounced saves. The SDKs are thin clients. The console meets
the server in four of the models: Chat reads the streams AppTask's kind of task writes,
DraftSync and TokenRefresh contain the server's side of the protocol, BatchRun is a
client of the same streams with its own timeouts.
The rest of this section is the inventory: the state of each part, its
operations, where it meets others, and what makes it correct.

### Workflow app task (modelled: AppTask, RunRecord)
* State: an in-process queue between two threads; the worker's position in the
  graph; the listener's loop; two Redis keys (`generate_task_stopped`, 600 s, and
  `generate_task_belong`, 1800 s); the rows `WorkflowRun` and
  `WorkflowNodeExecution`.
* Operations: publish (put, sentinel, stop check), listen, record an event, stream
  or block, stop request, timeout, disconnect.
* Interaction: `WorkflowAppGenerator` starts the worker with the graph engine in
  it; `WorkflowAppGenerateTaskPipeline` consumes; `WorkflowCycleManager` writes rows.
* Hard: a publish is up to three steps of one thread between which the other runs;
  the stop, the timeout and the result race; Redis may fail at each poll.
* Correct: the listening ends, never silently; a run is finished at most once on
  behalf of each thread; the rows of the run and of its nodes agree.

### Graph engine (modelled: GraphEngine)
* State: per run one pool of ten threads with a submit counter, a queue per
  parallel, steps and start time, node results.
* Operations: run a node, follow edges, submit the branches of a parallel, collect
  their events, join, fail, be closed by the consumer.
* Interaction: the generator of events that the worker of AppTask publishes.
* Hard: branches wait for branches in the same pool; a failure leaves siblings
  running; limits are read and raised by several threads.
* Correct: success is reported only of a run that is complete; joins wait; limits
  hold up to the races; the run ends.

### Concurrent request limit (modelled: RateLimit)
* State: per app a Redis hash of request ids with start times, the cached limit in
  Redis, a process-wide instance per app with its own limit and flush time.
* Operations: construct, flush, enter, exit, generator close; process crash.
* Interaction: `AppGenerateService.generate` around every generation.
* Hard: check and add are two Redis calls; a cache of a cache; requests that die.
* Correct: bounded overshoot, live requests stay counted, the app is never locked
  out for ever.

### Document indexing (modelled: DocumentIndexing)
* State: the document's row (`indexing_status`, `is_paused`), the segment rows, the
  vectors, two Redis keys, the Celery queue, the position of each worker.
* Operations: tasks index, recover, retry, clean; requests pause, recover, retry, delete.
* Interaction: requests and workers share nothing but those stores.
* Hard: every commit is a step; two workers may get the same document; a worker
  dies and its task is lost (acknowledged when taken); one task goes through all the
  documents of an upload and ends when one of them is paused.
* Correct: a completed document is whole and findable, a deleted one leaves
  nothing, a document that is not paused comes to an end unless it is left alone for one of
  the two reasons the properties name.

### Chat (modelled: Chat)
* State (`app/components/base/chat/chat/hooks.ts`): the message tree twice, as shown
  and in a reference; references to the conversation, the task, whether the chat
  responds and was stopped; two abort controllers; the suggested questions.
* Operations: send, stop, start anew; the events of a stream; the two requests
  that follow an answer.
* Interaction: `ssePost` and `handleStream` (`service/base.ts`) call the callbacks.
* Hard: a stop does not end the stream, so callbacks of several answers share the
  references; a line that is cut off between two pieces of a stream takes the task from them; callbacks of a first message hold the tree as it was; onCompleted waits
  twice, and what it goes on with may be about an earlier answer.
* Correct: no message is lost from the tree, answers are of one conversation, the
  references are those of the last answer, suggestions follow the last message.

### Canvas (modelled: Canvas)
* State (`app/components/workflow/hooks`): nodes and edges, the clipboard, the dialog
  that confirms a deletion, the undo history and its debounced save.
* Operations: connect (three ways), add (after, before, between), change, delete (one,
  several, a container with the dialog), disconnect, copy, paste, undo, redo.
* Hard: each handler keeps the invariants of the graph on its own; the keyboard works
  past the dialog; ids are made of the time; history is saved half a second later.
* Correct: edges stay on one level, containers have their children and start node,
  no cycles, history and canvas do not come apart.

### Workflow draft (modelled: DraftSync)
* State: per tab the canvas, the hash of the draft last seen, the mode, a backup, a
  debounced save; on the server the draft.
* Operations: edit, save (debounced, immediate, before a run, beacon), refresh, look at
  versions and runs, go back, restore, hide, leave; compare and commit on the server.
* Hard: canvas and hash change apart; saves of one tab overlap; compare and commit
  are two steps; a failed save is not repeated.
* Correct: a save that passes the comparison loses nobody's edit; what a quiet tab
  shows is in the draft.

### Session renewal (modelled: TokenRefresh)
* State: local storage (pair, sign, time of the sign), a flag per tab, a timer per call;
  on the server the live refresh tokens.
* Operations: send a call, answer 401, wait or take the lock, ask, store, release, time
  out, leave; look up and rotate on the server.
* Hard: no compare-and-set in local storage; a timer that is never cancelled; a tab that
  dies with the lock; an answer that is lost after the rotation.
* Correct: requests to renew are apart but for named causes, the stored pair stays
  usable, every call ends.

### Batch page (modelled: BatchRun)
* State (`app/components/share/text-generation`): the list of tasks, the number the last
  group began at, the results, one panel per task with its text, its request and timer.
* Operations: run a batch, run once, retry one or all, a request that succeeds, fails,
  fails within its stream or times out.
* Hard: results are reported by place, whoever reports, and are what the panel's text is
  at that moment; a stream whose minute is over goes on writing it; groups are counted by
  reports; panels stay, go and come back under the same key.
* Correct: groups keep to their size, results are of their own run but for what streams
  that have timed out still write, a panel responds exactly while a request of its own is out,
  batches end.

### Parts not modelled
| part | state and operations | why not, or when |
|---|---|---|
| graph construction (`core/workflow/graph_engine/entities/graph.py`) | parallels of a graph, a recursive function | planned: GraphParallels, TLC only |
| iteration and loop nodes (`core/workflow/nodes/iteration`, `loop`) | iterations on a pool of their own, error modes; a thread that raises puts no event and the collector waits for ever; `total_tokens` raised by several threads | planned: Iteration |
| answer and end stream processors | which chunks may leave before the route is decided | planned after it |
| model credential load balancing (`core/model_manager.py`) | round-robin index and cooldown keys in Redis; "all in cooldown" concluded while others move the index | planned: LoadBalancer |
| chat, completion, agent, advanced-chat tasks | message rows; same queue manager as AppTask | planned, a sibling of AppTask |
| `RateLimiter` and tokens (`libs/helper.py`) | sorted set of attempts; counted and added in two calls | planned |
| provider quota; publishing, versions, draft variables | one conditional UPDATE; rows in one transaction | nothing concurrent beyond the row |
| other dataset tasks (segments, sync, update, duplicate) | same shape as indexing | to join DocumentIndexing |
| AlphaMind services (`services/alphamind`) | a row per request in one session; the AI engine is a stub | no shared protocol |
| model runtime, plugins, tools, retrieval, vector stores, storage | adapters of other processes | pure I/O, their state is elsewhere |
| accounts, billing, features; clean-up schedules | rows in one transaction; single-threaded deletions | nothing concurrent |
| workflow run view (`use-workflow-run-event`) | events of a stream painted onto nodes | planned: RunView |
| file upload, audio playback, plugin installation | progress of one request or one poll each | later, if at all |
| app configuration, dataset creation, all other views and forms | one object edited by a form, sent by a button | no protocol of their own |
| translations, the vendored editor (`public/vs`), SDKs, deployment | tables, third-party code, HTTP clients, configuration | nothing to model |

Most of the console's 340 thousand lines are of the last two kinds; the share the
models stand for is small for that reason.

## 2. The models and the code

### AppTask and RunRecord
The worker (`pcW`), the listener (`pcL`), `queue` = `AppQueueManager._q`.
`WorkflowAppQueueManager._publish` puts the event, then the sentinel
(`stop_listen`), then reads the stop flag: `WorkerPut`, `WorkerPutNone`,
`WorkerCheckStop`/`WorkerCheckFails` are these three steps. `ListenGet` …
`ListenGoOn` are the turns of `listen()`; its own stop and timeout are again two
puts (`ListenCheckStop`, `ListenPutNone`). `ProcessEvent` is the branch of
`_process_stream_response` for an event, with the row it writes (`StatusOf`,
`NodeExecAfter`). `handled` is a history of the outcomes recorded.
What the graph does is a choice here: nodes start, end in four ways, a chunk is
published, set-up may fail. Left out: iteration, loop, retry and agent-log
events, text-to-speech and single-step debugging, which add rows and stream items
and change nothing of how a task ends.
`RunRecord` is the abstract specification: created once, finished at most once
on behalf of each thread. `RecordsOneRun` is the refinement, with
`writers <- FinishedBy`.

### GraphEngine
A runner is an activation of `_run`; the root in the consumer's thread, one for
each branch in a pool thread. `Route` is the sequence of nodes and parallels a
runner comes to. Actions follow the code's order: `CheckLimits` (240-249),
`NodeStarts`/`NodeEnds`/`NodeRaises` (`_run_node` and its handler), `CountSubmit`,
`RejectSubmit`, `Submit` (the pool's `submit`, its counter and its check apart),
`TakeBranch` (a pool thread), `Collect`, `CollectFailure`, `CollectNone`, `Join`
(`_run_parallel_branches`), `BranchEnds`, `BranchDone` (`_run_parallel_node` and the
future's callback), `RunEnds`. Wherever the root yields, the consumer may close its
generator (`Closes`; `Abandon` at the events that are left out).
What edge conditions decide is a choice. Each runner and parallel stands in one
place of the graph (`PlaceAssumption`), so a node is run at most once; parallels are nested, never in
a circle (`NestingAssumption`). `Submit` counts the successes of a parallel from zero. Retries, stream chunks and
started events, variables, and the engine of a nested workflow that is handed
the same pool are left out; the counter's `+=` is one step, though Python
does not promise that.

### RateLimit
`Construct` (`__new__`, `__init__`, first flush), `Enter` (flush when due),
`Pass`/`Reject` (the count), `Add` (the hset), `Exit`, `ProviderLimit` (the early
return of `generate` for a rate-limited provider), `Crash` of a process, and
time: `Age` (ten minutes), `FlushDue` (five minutes), `RedisMaxExpires`. The limits are a set given
by the instance; 0 is "no limit". The specification and its type invariant are called `LimitSpec` and
`LimitTypeOK`, so that AppTaskProofs can be about the requests and about what each of them runs.
Two things are coarser than the code: `exists` and `get` in `flush_cache` (47-50) are one step of `Enter`, and
the whole of a construction is one step of `Construct`. What another process changes between the two reads, it may
as well have changed before the first; the calls the properties turn on, count and add, are apart.

### DocumentIndexing
A segment is a chunk of one splitting (`Gens` stands for the fresh
`index_node_id`s). `pc[w]` is the worker's place in `IndexingRunner`; each commit,
Redis call and call of the vector store is an action, in the order of
the code: `Purge`, `Extract`, `CheckDocument`/`WriteStatus`, `Transform`, `AddSegment`,
`SegmentStatus`, `Load`, the steps of the pool of `_load` (`Group*`), `Join`. The
tasks begin with `Take*`, and a retry cleans with `CleanVectors`, `CleanSegs`,
`Reset`. A request is one action for each commit, Redis call or send (`Pause*`,
`Recover*`, `Retry*`, `Delete*`). `processing/pause` and `processing/resume` are
served by the static routes, so `DocumentProcessingApi` is not modelled for them.
`overtaken` is a history variable: the documents whose recovery found the status "waiting",
which a retry has written and whose own task is still to come; the recovery then starts over on top
of what is there. The properties say that nothing else leaves anything behind.
`Asked` says which documents the requests of an instance are about; the others are only indexed.
A document is `Neglected` when its status says that it is under way, it is not paused, and no task, worker or
request will see to it again.
The economy index (keywords), sync, update and duplicate tasks, segment
editing and a retry of several documents at once are left out.

### Chat
A message is its question with its answer, numbered by sending; `tree` is
`chatTreeRef.current`, `chatTree` what is shown. `Update` is `updateCurrentQAOnTree`: a
first message goes into the tree its callbacks hold (`snapshot`), any other under
its parent, without what has followed it. `Send` is `handleSend`; `Stop` and `Restart`
share `Halt`, as `handleRestart` calls `handleStop` after it has emptied the references.
`Begin`, `Say`, `End`, `Complete`, `Fail` are the callbacks, `CutOff` is the call of `onData` with
no task that `handleStream` makes of a line cut off between two pieces (`service/base.ts` 176-186), and `Lose` a
stream that goes silent without any; `GetMessages` and `GetQuestions` are the two awaits of `onCompleted`.
`lapses` notes two things the code does not foresee: sending, or starting anew, while an
answer that was stopped still comes in ("overlap"), and sending while something is still
asked for after an answer ("early"). Both really happen; the properties say that nothing
else breaks them. `torn` notes that the last event was a line cut off: until the next piece of the
text the task is forgotten, and a stop then does not reach the server. Texts, siblings, files and annotations are
left out, and so are the thoughts of an agent (423-427): a thought names an answer without noting
its conversation, so every answer is taken to have a piece of text before its `message_end`.

### Canvas
A graph is a record of nodes by id and a set of edges by source, handle and target.
One action per handler, each with its `checkNestedParallelLimit` (`Checked`, and `Walked` /
`Endless` for the walk of `getParallelInfo`, which does not end on a cycle) and with the save
to the history (`Becomes`, `SaveHistory`, `Undo`, `Redo`). `lapses` notes a deletion forced
past the open dialog, children that came while it was open, a connection dropped on an
aggregator's body, and copies of children. Ids are given in order; that two ids may be made in
one millisecond is a choice in `Paste`: a start node is named by the time alone, so containers pasted
together then share one, and the last of them keeps it. Nodes have no order here, so any may (`keeper`).
The editor is opened with a graph that is whole (`WellFormed`): one start node, containers with start nodes of
their own, which `preprocessNodesAndEdges` adds, edges within a level and no cycles, whose edges `initialEdges`
leaves out. `TemplateAssumption` asks this of the graphs an instance opens.
`getParallelInfo` may leave its loop early (`utils/workflow.ts` 246-249) and then misses what is abnormal further on,
so `Checked` may let such a graph pass; when it does is not in the model. The limit on the depth of parallels
(`use-workflow.ts` 331-339) is left out: where it refuses, the canvas stays as it is, so that the properties,
which are about every canvas there may be, lose nothing. There is one `pending` save; in the code each
`useWorkflowHistory` has a debounce of its own (`use-workflow-history.ts` 67), so that a save of one hook
may come after an undo that dropped the save of another. `HistoryIsCanvas` speaks of moments when
no save is put off and is not about that.

### DraftSync
A graph is the set of edits in it, and its hash the graph. `Check` and `Commit` are the two
halves of `sync_draft_workflow`; `Saved`, `Refused`, `Broken` its answers in
`doSyncWorkflowDraft`; `Refresh`, `Read`, `Refreshed`, `RefreshFails` are
`handleRefreshWorkflowDraft`; `View`, `ShowVersion`, `ShowRun`, `GoBack`, `Restore` the older
graphs; `LookAway` and `Leave` the beacon. `follows`, `lapsed` and a save's `sound` are
histories: whether the canvas goes back to the draft its hash stands for. A fetch after a refused save
(`Refused`) waits until no other is out: two that overlap and are answered in the other order
(`use-nodes-sync-draft.ts` 131-134 calls the fetch without looking for one) are not modelled.

### TokenRefresh
`Refused` is the 401 with its look at the lock, `Take` the writing of it (between the two,
another tab may run, but nothing of the same tab), `Lookup` and `Rotate` are
`AccountService.refresh_token`, `Renewed`, `Rejected`, `Broken` the answers, `WaitOver` the
poll of a waiting call, `TimerFires` the race of `refreshAccessTokenOrRelogin`. `Close` and
`Dies` are a tab that goes with and without `beforeunload`. Ages are counted up to one more
than the timeout, which is all the code compares. The server's rotation, four Redis calls
(`account_service.py` 387-388, 90-99), is one step after the look at the token, and of the reasons for which the
look may refuse only the token's own is there; a server that fails otherwise is `Broken`, an
answer that does not come.

### BatchRun
A handler is one step with the rendering and the effects it leads to: `Settled` is a report
(`handleCompleted`) and what follows it, the panels that mount and send, and those that
send again because their `controlRetry` becomes set. `FailInStream` is the order in which
`handleStream` reports an error of a completion app: failed, then completed. A request is
ended by its answer or by its timer, whichever is first. After its timer (`TimeOut`) it is `late`: it reports nothing
more, but its stream goes on and writes the text of its panel (`Write`; `result/index.tsx` 364-368, 379-382),
which is empty at the panel's next sending (`Emptied`) and is what the next report takes along (`CompletionRes`).
`shown` is the run whose answer that text is. What is reported of a panel that has left the page may be any of its answers.

## 3. The runs

Deadlock is not checked where the system may stop: a task, a run of a graph and a
batch of documents end, a document waits for a request that need not come, and a user
need not go on. RateLimit never stops and is checked for deadlock.

Several invariants are conjunctions of parts that have names of their own (`CompletedInv`,
`LimitsInv`, `LockInv`, `HashInv`, `CanvasInv`, `PanelsInv`, `LastInv`); the type invariant is
one of the parts where it is not checked by name.

| run | instance | what it shows |
|---|---|---|
| `task_stream` | 2 nodes (symmetric), 2 users, streaming, Redis fails, 1 ping, 1 chunk, at most 2 messages ahead | types, `NeverEndsSilently`, `OneFinishPerAuthor`, `NodesAgreeWithRun`, refinement of RunRecord |
| `task_live` | the same, blocking, Redis up, no pings or chunks | `TaskEnds` |
| `limit` | 2 processes with a thread each, limits 0 and 2, 4 ids, 1 crash | types, `BoundedOvershoot`, `LiveAreCounted`, `KeepsServing` |
| `documents` | 1 worker, 2 documents of 1 chunk each uploaded together, 3 splittings, 4 requests about the first one at a time | `CompletedInv`, `DeletedLeavesNothing`, `EventuallySettles` |
| `documents_shared` | 2 workers, 1 document of 1 chunk, 2 concurrent requests, failing vector store, 1 crash | `SegmentsSearchable`, `NeglectedForCause` |
| `graph` | a parallel in a branch of a parallel, 5 runners, 6 nodes, pool of 2, low step and submit limits | types, `SuccessIsComplete`, `JoinIsLast`, `LimitsInv`, `RunComesToAnEnd` |
| `graph_nested` | both branches contain a parallel, pool of 2 | violated: the run neither ends nor times out |
| `chat` | 3 messages, 1 stop or new start | types, `MessagesKept`, `OneConversation`, `LastInv`, `SuggestionsAreFresh` |
| `canvas` | 3 canvases (branches that join; an iteration beside a loop; a crowded loop), 3 operations each | `CanvasInv`, `OrphansHaveCause`, `CyclesHaveCause`, `HistoryIsCanvas` |
| `draft` | 2 tabs with an edit each, 3 saves in flight; one tab runs, views, hides, leaves, twice in all | `HashInv`, `ShownIsSaved`, `SavedEditsStay` |
| `refresh` | 2 tabs, 3 calls (1 stream), timeout 1, 3 pairs, one tab may die | `LockInv`, `RefusedOnlyAfterOverlap`, `StoredPairUsable`, `EveryCallSettles` |
| `batch` | groups of 2; batches of 3 or 5, then 3, then 2 tasks; 1 retry | `PanelsInv`, `GroupLimit`, `ResultsAreOwn`, `BatchEnds` |

### Bounds, and why they are enough
* AppTask. `MaxAhead` = 2: the races are about a terminal event and the sentinel of
  one thread against those of the other; a longer queue only adds events in front
  of them. Two nodes: one may be running and one finished when a stop comes. The
  liveness run has Redis up, because a listener whose poll raises leaves at once.
* RateLimit. Two threads suffice for the race between count and add; four ids
  are one more than the bound needs. A larger instance (3 threads, limits 0 and 1)
  was also explored, 671 thousand states, liveness included.
* DocumentIndexing. Two documents in one upload are what it takes for one to be left because of the other; four
  requests about the first pause it, resume it, retry it and delete it, in any order. Two requests at a time and
  two workers on one document are in `documents_shared`, where the flag of a late pause comes to stand. So each of the
  two causes `NeglectedForCause` names happens in one of the runs: TLC refutes the property there when
  the cause is not named.
  Three splittings are the first and two retries, and when they are used up the splitting raises, as any extraction
  may. Larger instances were explored while modelling: one document and seven requests one at a time (what it takes for a
  recovery that overtakes a retry to leave vectors behind: pause, resume, pause, resume, retry, pause and a delete or a
  resume; without the exception for `overtaken` documents TLC then refutes both safety properties), two chunks and
  seven requests (1.9 million states), two concurrent requests and four in all (2.6 million, as long as a delete
  overlaps no other request), three requests with one crash for `SegmentsSearchable` (4.6 million). What the bounds
  of `documents` leave out for its two safety properties is covered by their proofs.
* GraphEngine. A pool of two makes the two outer branches occupy it, with the inner
  branches waiting until a thread is free. The three pairs of limits make the step
  limit, the submit limit or neither be reached. With three threads the safety
  properties hold as well (3.2 million states).
* Chat. Three messages make a tree of two branches or one that goes two deep, an
  earlier, a last and a next answer; one stop is enough to leave a stream behind, and
  what holds for any number of each is proved. The run is the largest: 3.6 million states.
* Canvas. Three operations after any of the three canvases: make, remove or copy, and bring
  back. `MaxBranches` = 2 makes the limit bite at once; the ids suffice for three pastes.
* DraftSync. Three saves: one of each tab and one that overtakes. Two looks away or
  back, so that a backup can be taken while another is put back.
* TokenRefresh. Two tabs for the race on local storage, two calls in one of them for the
  waiting within a tab, three pairs for two renewals in succession. A timeout of one tick: only
  whether an age is beyond it is compared.
* BatchRun. Groups of two; a first batch of a group and a half or of two and a half, so that groups are full,
  partly full and past the end; three runs for a request of the first that is heard, or a text of the first that is
  written, in the second or the third.

### Fairness, and why the code justifies it
* AppTask: the listening thread runs and time passes. Nothing of the worker, since
  a node may hang in a call to a model: `ListenerCloses` must hold even then.
* RateLimit: requests keep arriving at some thread, running ones end, time passes
  (entries age, a flush becomes due). Crashes and changes of the limit are never required.
* DocumentIndexing: workers work, and a request that has arrived is served to its
  end. Nobody need ever ask for anything.
* GraphEngine: a thread that can step does, and a node comes to an end. The clock
  and the consumer's leaving are not fair: a run ends without them. `graph_nested` is
  refuted under the same fairness, by a state in which every thread waits and only
  the clock can go on.

* TokenRefresh: a tab runs its tasks, time passes, and ordinary calls are answered. The
  request to renew need never be: the timer must be enough.
* BatchRun: every request has its timer of a minute, which ends it if nothing else does
  (`result/index.tsx` 191-199, `TimeOut`); nothing else is fair.
* Chat, Canvas, DraftSync: no liveness. A stream may fall silent, a save may fail and is
  not repeated, and the user need not do anything.

### What was found
`graph_nested` is in `findings` of `PROJECT.json`, with the line that promises what it
violates. Beside it, observed while modelling. On the server:
* After the listener has recorded a stop it may still handle a result the worker had
  queued, and replace the status "stopped" (`base_app_queue_manager.py` 68).
* A request that comes with the app's present limit may be counted against an older one
  that `flush_cache` takes from Redis (`rate_limit.py` 50).
* A paused or deleted document ends the loop over its batch: the documents behind it stay
  "parsing" and are not paused (`indexing_runner.py` 87). `EventuallySettles` names this as one of two causes for
  which a document is neglected, and the run `documents` reaches it.
* A retry whose worker dies between the two deletions leaves a completed document whose
  segments cannot be found (`retry_document_indexing_task.py` 76).
* In a parallel the branch goes on behind a failed node whose error nobody handles, until
  the run that reports it is over (`graph_engine.py` 564).
* The pause flag is set after the pause is committed, so a resume in between deletes a flag
  that is not there yet, and the flag then stops a document that is not marked as paused and that nobody can
  resume before it is paused again (`services/dataset_service.py` 984-986). It is the other cause, reached in `documents_shared`.
* `enter()` can exceed the configured limit by the racing threads; `BoundedOvershoot`
  states how far.
* A recovery that is taken while a retry of its document is still to come finds "waiting" and
  starts over on top of the old segments (`recover_document_indexing_task.py` 33-38). When it is paused in "splitting"
  and resumed, `run_in_splitting_status` deletes all the rows but no vectors (`indexing_runner.py` 112-118),
  and nothing leads to those vectors any more: not the retry, nor the deletion of the document. Hence the
  exception of documents in `overtaken`.
* Requests that overlap a delete refute `DeletedLeavesNothing`: a retry that is sent after the clean task has run
  and before the row is deleted indexes the document again, and what it stored stays
  (`services/dataset_service.py` 919-931: the clean task is sent first, the row deleted and committed after it).
* When the vector store fails once while a deleted document is cleaned
  (`tasks/clean_document_task.py` 83), its segments and vectors stay; `DeletedLeavesNothing`
  is checked with a store that deletes.
* A client that leaves during a stream leaves the run "running" for ever
  (`ClientDisconnect`); nothing in the code repairs it, so `TaskEnds` is about the
  blocking mode.

In the console:
* "Only one request can send" (`service/refresh-token.ts`, over getNewAccessToken) does not
  hold of two tabs that look at the sign at the same time, nor after a late timer has
  released the lock of a later renewal; `LockInv` names the causes.
* The error handler of `ssePost` calls `e.toString().errorMessage.includes`, which throws for
  every error but an abort (`service/base.ts` 465): no message is shown, `onError` is not
  called, and a chat keeps responding until it is stopped.
* A stop leaves the stream open, and a new start empties the tree that is shown and not its
  reference, and forgets the task before it would be stopped (`chat/hooks.ts` 158-176): late events
  may drop later messages or bring back the old ones.
* A line of a stream that is cut off between two pieces reaches `onData` without its task
  (`service/base.ts` 176-186), and the hook forgets the task (`chat/hooks.ts` 340): a stop before the next
  piece of the text, or behind the last, does not call the server (161). `StopReaches` says so of no other time.
* The keyboard deletes past the open dialog of a container, and the dialog deletes the
  children of the moment it was opened (`use-nodes-interactions.ts` 579): children may be
  left without their container.
* A connection dropped on the body of an aggregator is not validated and may close a cycle,
  on which `getParallelInfo` does not end (`use-nodes-interactions.ts` 462, `utils/workflow.ts` 224).
* A node inserted between two nodes with two edges between them may take away the other
  edge (`use-nodes-interactions.ts` 990); `AddBetween` takes either, and no property is about it. A pasted child keeps the marks of its old container. A
  copied loop has none of its edges.
* An undo within half a second of an edit drops that edit and then saves the undone canvas.
* The backup taken when older runs or versions are looked at is not saved, as the mode is set
  first; the detail of a run that arrives after going back replaces the canvas.
* A retry, a second report or a request of a run that is over counts towards the next group
  of a batch, which then starts early (`text-generation/index.tsx` 355). A completion app's error
  within the stream ends as a success. A task that fails after any retry is retried at once.
* The stream of a request that has timed out goes on writing the text of its panel: the next report of the panel, of
  a retry or of a task of the next batch, takes along that text, whosoever it is (`result/index.tsx` 364-382).

## 4. The proofs

All are about arbitrary constants under the assumptions the modules name
(finiteness of threads and runners, routes of nodes and parallels, a graph in which every
parallel has a branch, stands in one place and is not nested in itself, an owner that is a
user, at least one tab, limits that are numbers, canvases that are whole when they are opened). TLC evaluates these assumptions in every run.
Each inductive invariant was first checked by TLC on the instance of a run.

* **AppTaskProofs.** `TypeCorrect`. `NotSilent` proves `NeverEndsSilently` from `SilentInv`: a
  sentinel in the queue has a terminal event in front of it, unless one was already
  taken (`Announced`); the property alone is not inductive, as it says nothing of what
  is still queued. `FinishedOnce` proves `OneFinishPerAuthor` from `OnceInv`: between two terminal
  events of one author stands a sentinel, and the first sentinel ends the listening, so
  at most one is recorded. `RecordRefined` proves `Spec => RecordsOneRun`: initial states
  map to initial states and each step to a step of RunRecord or a stutter, with
  `RecordInv` for the link between `run`, `handled` and the messages in flight.
  `RowsAgree` proves `NodesAgreeWithRun` from `AgreeInv`: what the worker knows of a node and what
  its row says differ by the events of the node that are ahead (`Follows`), and an
  outcome is behind the events of all nodes (`OutcomesLast`), so that nothing is ahead when it is
  recorded (`OutcomeRecorded`). A stop by the listener is recorded anywhere before and fails
  rows that are running; the event of the end, still ahead, repairs them.
  The same module is about RateLimit, which admits the requests these runs are for.
  `LimitTypeCorrect` (a limit taken from Redis was once configured).
  `OvershootBounded` from `BoundInv`: when a thread passes the count there are at most
  `MaxLimit - 1` entries, and afterwards an entry is only added in exchange for a thread
  between count and add. `LiveCounted` from `LiveInv`: ids of running requests are
  distinct and in the hash or old.
* **GraphEngineProofs.** One invariant, `EngineInv`: `Positions` (a thread at a node stands
  at a node, one at a parallel at a parallel, the root is in no pool), `PoolHeld` (the
  pool holds each queued branch once), `Counts` and `Messages`. `Counts` is the strengthening:
  `submitted` is at least the unfinished branches plus the runners between
  counting and checking, so that whoever passes the check has room for his branch, and
  `steps` plus the runners between check and count stays within the limit plus the
  threads there are. From it follow `TypeCorrect` (the counter is never negative),
  `PoolStaysBounded` and `StepsStayBounded`, together `LimitsKept`. `Moves` reduces the actions to the seven kinds
  of moves the counters distinguish.

  `JoinComesLast` proves `JoinIsLast` from `JoinInv`. A runner counts the successes that it takes
  from the queue of its parallel; why nothing is left when it has counted all takes three facts about
  the queue. An event in it is of a branch that still runs or whose own end stands behind it
  (`Attributed`); the end of a branch stands in it once and only after the branch is through (`OwnEnds`);
  and events that are passed on only go up (`Upward`, by the depth of nesting that `NestingAssumption`
  gives), so that none comes back. With them the count is that of the branches whose ends are
  no longer in the queue (`Tallied`), and what is behind a runner stays closed (`Behind`). As branches have parallels
  of their own, "closed" must reach down: `Whole` says it of a runner as a set of runners closed
  under submission, without recursion, and `Sorted` that a branch ends in order only when it is whole.
  The proof found a fault of the model: the tally needs the count to be zero when branches are
  submitted, which the code does by a fresh `succeeded_count = 0` and `Submit` at first did not.

  `SuccessComesLast` proves `SuccessIsComplete` from `ReportInv`: a node that was started is run by someone, or its
  end is in a queue, or it was told (`StartedAreRun`, `EndsAreTold`), and what was told is true
  (`QueuedAreTrue`, `SeenAreTrue`), which needs that no node is started twice (`FreshAreIdle`). When the root
  ends it is whole. That all branches ever submitted are then done is shown by a smallest counterexample: of the
  branches that are not, one of least depth was submitted by a runner that is whole (`AllWhole`). That numbers
  have a smallest is the library's theorem on well-founded relations; no induction is used.

* **ChatProofs.** One invariant, `IInv`, in three layers. `Shape`, unconditional: types, `Numbered`
  (parents have smaller numbers than what goes on from them, nothing is known of what was not
  sent) and `Held` (a tree in the hands of callbacks is of earlier messages, closed under
  parents): without `Held`, a late event could put a message back whose parent is gone, so the
  well-formedness in `TypeOK` is not inductive by itself. `Quiet`, as long as there was no
  overlap: a stream that is open is the last answer's, its task and conversation are those
  of the references, or not yet known, or, for the task, forgotten behind a line cut off (`Streaming`), a snapshot it may put back has every message
  before it (`Full`) and none of another conversation (`Good`), and what is shown is the tree
  unless the chat was just started anew (`Showing`). `Fresh`, without any lapse: only after the last
  answer is anything asked for. The proof reduces the actions to a few shapes (send, showing
  callbacks, endings, requests, stop, new start) and shows for each that it keeps each layer;
  `Following`, which quantifies over sets closed under following, needs no induction: only that what is
  taken away follows the message. From `IInv` follow `TypeCorrect`, `KeepsMessages`,
  `KeepsConversation`, `RefersToTheLast` and `SuggestsFresh`.

* **TokenRefreshProofs.** One invariant, `IInv`. `Waits` (a call that asks waits for its answer) and
  `Tokens` (pairs are issued in order, one that was granted is nobody else's) hold always.
  `Usable`: the stored token is one the server takes, or its successor is on the way. It cannot be
  carried through a refusal without `Orderly`: as long as requests did not overlap and no answer was lost,
  the one request that is out carries a live token. `LockHeld` says why they do not overlap before the
  lock is given away: the request that is out holds the sign and its tab's flag, and no call is between
  looking and taking. From it `LockCorrect`, `RefusalsHaveCause`, `PairStaysUsable`.
* **DraftSyncProofs.** `IInv` relates a tab (`TabInv`) and its saves (`PostInv`). What a tab edits is the
  canvas or, while an older graph is looked at, its backup (`Edited`). The hash goes back to what is edited as
  long as the tab follows the draft, or a sound save whose hash is coming makes it do so (`Tracked`);
  what is edited and not in the draft is in a save that is due or out, or a fetch will take it away (`Covered`).
  A sound save between comparison and commit has a hash that is still the draft. From it
  `HashCorrect`, `SoundSavesKeepEdits` (an action property) and `NothingLostUnawares`.
* **DocumentIndexingProofs.** `CompletedIsFound` proves `SegmentsSearchable`. A thread marks a segment some time
  after it has stored its vector, so the same must hold of the segments between the two
  (`Searchable`); such a segment is one its worker holds (`Held`); and a segment that was deleted
  meanwhile does not come back, as only segments that nobody else has held are added
  (`Unborn`). `TypesKept` is the type invariant.

  `CompletedCorrect` proves `CompletedInv` and `DeletedCorrect` proves `DeletedLeavesNothing`, for any number of
  documents, chunks and requests, from two assumptions on the constants: one worker (`OneWorker`; it is what the
  code is started with, `CELERY_WORKER_AMOUNT` being 1 in `api/docker/entrypoint.sh` 20, and nothing but that
  keeps two tasks from one document) and a vector store that deletes when asked. Both properties speak of histories
  without a crash. `DeletedCorrect` assumes besides that a delete overlaps no other request about its document
  (`DeletesAlone`); `CompletedCorrect` assumes nothing of the requests, which may be in any interleaving.

  The invariant behind both is `Parts`: it says, for each place of the worker and each status, what there is
  of a document. `Hands` and `Holds`: what the worker holds is one splitting of the document it works on, added
  row by row. `Fits`: the status is the one it has written itself, or what a retry or a delete has written over
  it. `Backed`: a vector has its row. `Empty`: nothing is stored before it is time to. `Content`: what is
  "indexing" is one splitting, what is "completed" is finished, and of what is being loaded all that is no longer to
  be done is completed. `Start`: nothing is stored before the indexing task, and a document still to be begun has
  nothing. `CleanIsMeant`: a clean task is about a document that is deleted or about to be. None of these can be
  proved alone: that a recovery finds one splitting rests on what the task before left behind when it was paused,
  failed or was overwritten at any of its places. `Doom` adds, for the deletion: the clean task stands in the queue
  behind every other message about its document, or all that can still happen to it is the rest of the cleaning.
  Not being able to prove `Backed` for every document led to the recoveries that overtake a retry, and
  `Doom` to the requests that overlap a delete. TLC found `Parts` and `Doom` true on small instances first.
* **BatchRunProofs.** `PanelsCorrect` and `AnswersAreOwn` from `Uncleared`, which holds unless a batch was cleared with
  requests out: a request that is out is of this batch and of a task that runs or has failed (`OwnSends`), each panel
  has one exactly while it responds (`OneEach`), and the text of each panel is that of this batch or of a request of
  that panel that has timed out (`OwnShown`). The property itself is not inductive:
  it says nothing of the text a panel has before it reports. That a new batch starts with texts of its own rests on
  `handleSend` emptying them, without which TLC refutes the property.
  `GroupsStayBounded` from `Counted`: fewer tasks than a group are unfinished, or the last group was
  started at a multiple of the group size and what is under way and what has ended since fit into one
  group; the limit alone says nothing of when the next group may start. That the
  tasks picked for a group are no more than the group (`SmallestAreFew`) is shown by an injection, without
  induction.
* **CanvasProofs.** All four properties of the canvas. `CanvasInv` says nothing of what undo and redo, the clipboard
  and the dialog may bring back, so `IInv` speaks of every graph that is kept (`Kept`: the canvas and the states of
  the history). Each is `Sound`: of the things that may be wrong with a graph it has only those that the lapses so far
  explain. `Alike`: an id is of one node for ever, in whatever graph it is; without it the children of a container
  would be others after an undo. `ClipInv`: what was copied is as it may still be somewhere, and of several nodes
  none is a child. `DialogInv`: the children that the dialog remembers are in its container or nowhere, so that
  confirming takes no start node from another. `HistoryIsCanvas` and types (`Small`) complete it.

  Whether a canvas has a cycle is computed by the model step by step, `Cyclic` and `Beyond`; what such a computation
  finds would be proved by induction. Instead, each is the last of a row of sets that grow or shrink
  within a finite one (`IsBeyondRow`, `CyclicRow`). A set that stays the same stays so; one that never did would
  have outgrown its bound (`Grown`, `Shrunk`), shown by the smallest place in the row where it fails. So what is
  reached is closed under the edges (`BeyondClosed`), and a graph is cyclic exactly when it has
  a set of nodes each of which leads into the set (`CyclicMeans`, `Looping`). Acyclic then means: no such set, which
  is easy to carry through every operation. A connection is refused when the source is beyond the target; were there
  a looping set afterwards, what of it is beyond the target would be one before (`AcyclicBetween`). Each operation
  of the code is an operation on graphs (nodes put in or taken out, edges put in or taken out), with a lemma on what
  it leaves sound; `PastedNodesSound` and `PastedEdgesAre` are the hard ones, as ids are numbered anew.

  The attempt found two things. Containers pasted in one millisecond share a start node, whose owner is
  any of them; the copied edges of the others then lead from a start node of another level, which the earlier
  `EdgesOnOneLevel` excluded and the model, too narrow, did not show. It now says so only while none were pasted so. And
  the inductive invariant holds only of canvases that are whole when opened, which the model now asks (`WellFormed`).
  TLC found `IInv` true on the instance of `canvas` before it was proved.

Only model-checked:
* liveness (`TaskEnds`, `KeepsServing`, `EventuallySettles`, `RunComesToAnEnd`, `RunIsLimitedInTime`, `EveryCallSettles`,
  `BatchEnds`): fairness and ENABLED are beyond the prover;
* `NeglectedForCause`.

Every other safety property of the passing runs is proved.

## 5. Plan

Done, in this order: AppTask with RunRecord, RateLimit, DocumentIndexing, GraphEngine,
TokenRefresh, DraftSync, Canvas, BatchRun, Chat.

Proved since: TokenRefresh, DraftSync, `SegmentsSearchable`, BatchRun, `NodesAgreeWithRun`,
`JoinIsLast`, `SuccessIsComplete`, the four properties of Canvas, `CompletedInv` and `DeletedLeavesNothing`.

1. A proof of `NeglectedForCause` for one worker, on top of `Parts`: what is missing is that a thread of the pool has
   found a pause only if the flag stands, the document is paused, or a recovery of it is on its way.
2. **LoadBalancer** (`core/model_manager.py`) and **Iteration** (`nodes/iteration/iteration_node.py`), in the
   place of the narrower runs; **GraphParallels**, recursive, TLC only; **RunView** of the console.
3. Message-based tasks beside AppTask, the `RateLimiter` helper, provider quota.

Runs stay small in number: a run for each question, with the modes of a component in one
instance where they can share it.
