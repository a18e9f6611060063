------------------------------ MODULE AppTask ------------------------------
(***************************************************************************)
(* One run of a workflow app.  A worker thread runs the graph and publishes *)
(* events to an in-process queue (WorkflowAppQueueManager); the thread that *)
(* serves the HTTP request listens to the queue, records each event in the  *)
(* database and streams it to the client (WorkflowAppGenerateTaskPipeline). *)
(* A stop request is a flag in Redis that both threads poll.                *)
(*                                                                          *)
(* A publish is not atomic: the event is put first, then the sentinel None  *)
(* that ends the listening, then (for the worker) the stop flag is read.    *)
(* Each of these is a step here, so that the two threads interleave between *)
(* them.                                                                    *)
(***************************************************************************)
EXTENDS Integers, Sequences, FiniteSets

CONSTANTS
    Nodes, NoNode, \* the nodes of the graph; a value that is none of them
    Users, NoUser, \* the users who may ask to stop a task; none of them
    Owner,         \* the user the task was created for
    Streaming,     \* TRUE: response_mode "streaming"; FALSE: "blocking"
    RedisMayFail,  \* TRUE: reading the stop flag may raise a connection error
    MaxPings,      \* bound: ping events the listener publishes
    MaxChunks,     \* bound: text chunk events the worker publishes
    MaxAhead       \* bound: queued messages with which the worker publishes

ASSUME UserAssumption  == Owner \in Users /\ NoUser \notin Users
ASSUME NodeAssumption  == NoNode \notin Nodes
ASSUME ModeAssumption  == Streaming \in BOOLEAN /\ RedisMayFail \in BOOLEAN
ASSUME BoundAssumption == {MaxPings, MaxChunks, MaxAhead} \subseteq Nat

VARIABLES
    queue,     \* AppQueueManager._q, empty once nobody will read it again
    pcW,       \* where the worker thread is
    lastPub,   \* the type of the event the worker published last
    nodeRun,   \* the worker's view of each node
    chunks,    \* text chunks published so far
    pcL,       \* where the listening thread is
    msg,       \* the message the pipeline is processing
    exit,      \* why the listener leaves its loop, "no" while it stays
    pings,     \* pings published so far
    stopFlag,  \* the Redis key generate_task_stopped:<task> exists
    belong,    \* the Redis key generate_task_belong:<task>: a user, or NoUser
    timedOut,  \* APP_MAX_EXECUTION_TIME has elapsed since listen() began
    run,       \* WorkflowRun.status in the database
    nodeExec,  \* the status of each node execution in the database
    handled    \* history: the finishing events the pipeline has recorded

workerVars   == <<pcW, lastPub, nodeRun, chunks>>
listenerVars == <<pcL, msg, exit, pings>>
redisVars    == <<stopFlag, belong>>
dbVars       == <<run, nodeExec, handled>>
vars == <<queue, workerVars, listenerVars, redisVars, timedOut, dbVars>>

-----------------------------------------------------------------------------
(* Messages.  "app" and "pipeline" are PublishFrom.APPLICATION_MANAGER and  *)
(* PublishFrom.TASK_PIPELINE: the worker and the listener.                  *)

Authors == {"app", "pipeline"}

NodeTypes   == {"NodeStarted", "NodeSucceeded", "NodeException", "NodeFailed"}
FinishTypes == {"Succeeded", "PartialSuccess", "Failed", "Stop"}
\* The events after which a publish also puts the sentinel.
TerminalTypes == FinishTypes \cup {"Error"}
OtherTypes  == {"Started", "Chunk", "Ping", "None"}

Messages ==
    [type : NodeTypes, node : Nodes, from : Authors] \cup
    [type : TerminalTypes \cup OtherTypes, node : {NoNode}, from : Authors]

Plain(t, a)   == [type |-> t, node |-> NoNode, from |-> a]
NodeEvent(t, n) == [type |-> t, node |-> n, from |-> "app"]
IsTerminal(m) == m.type \in TerminalTypes
IsNone(m)     == m.type = "None"
NoMessage     == Plain("None", "pipeline")   \* msg between two messages

\* q.put(m).  Once the listener has left nobody reads the queue any more.
Put(q, m) == IF pcL = "closed" THEN q ELSE Append(q, m)

-----------------------------------------------------------------------------
(* The worker thread.                                                       *)

\* Where the worker goes once the publish of event type t has returned.
AfterPublish(t) ==
    IF t \in TerminalTypes THEN "done"
    ELSE IF t = "NodeFailed" THEN "failing" ELSE "run"

\* publish(event, PublishFrom.APPLICATION_MANAGER): the first put.
WorkerPut(m) ==
    /\ Len(queue) < MaxAhead
    /\ queue' = Put(queue, m)
    /\ lastPub' = m.type
    /\ pcW' = IF IsTerminal(m) THEN "putNone" ELSE "check"
    /\ UNCHANGED <<listenerVars, redisVars, timedOut, dbVars>>

WorkerStart ==
    /\ pcW = "run" /\ lastPub = "nothing"
    /\ WorkerPut(Plain("Started", "app"))
    /\ UNCHANGED <<nodeRun, chunks>>

NodeStart(n) ==
    /\ pcW = "run" /\ lastPub # "nothing"
    /\ nodeRun[n] = "fresh"
    /\ nodeRun' = [nodeRun EXCEPT ![n] = "open"]
    /\ WorkerPut(NodeEvent("NodeStarted", n))
    /\ UNCHANGED chunks

NodeFinish(n, t) ==
    /\ pcW = "run"
    /\ nodeRun[n] = "open"
    /\ nodeRun' = [nodeRun EXCEPT ![n] = t]
    /\ WorkerPut(NodeEvent(t, n))
    /\ UNCHANGED chunks

TextChunk ==
    /\ pcW = "run" /\ lastPub # "nothing"
    /\ chunks < MaxChunks
    /\ chunks' = chunks + 1
    /\ WorkerPut(Plain("Chunk", "app"))
    /\ UNCHANGED nodeRun

\* The graph ran to its end.
GraphEnd ==
    /\ pcW = "run" /\ lastPub # "nothing"
    /\ \A n \in Nodes : nodeRun[n] # "open"
    /\ WorkerPut(Plain(IF \E n \in Nodes : nodeRun[n] = "NodeException"
                       THEN "PartialSuccess" ELSE "Succeeded", "app"))
    /\ UNCHANGED <<nodeRun, chunks>>

\* A node failed, or the engine raised (step or time limit, a lost branch).
GraphFail ==
    /\ pcW \in {"run", "failing"} /\ lastPub # "nothing"
    /\ WorkerPut(Plain("Failed", "app"))
    /\ UNCHANGED <<nodeRun, chunks>>

\* The runner raised before the graph started: no app, no workflow, bad graph.
SetupError ==
    /\ pcW = "run" /\ lastPub = "nothing"
    /\ pcW' = "error"
    /\ UNCHANGED <<queue, lastPub, nodeRun, chunks, listenerVars, redisVars,
                   timedOut, dbVars>>

\* The except clauses of _generate_worker.
WorkerPublishError ==
    /\ pcW = "error"
    /\ WorkerPut(Plain("Error", "app"))
    /\ UNCHANGED <<nodeRun, chunks>>

\* stop_listen() of a terminal event.
WorkerPutNone ==
    /\ pcW = "putNone"
    /\ queue' = Put(queue, Plain("None", "app"))
    /\ pcW' = "check"
    /\ UNCHANGED <<lastPub, nodeRun, chunks, listenerVars, redisVars, timedOut,
                   dbVars>>

\* The end of _publish: with the flag set GenerateTaskStoppedError unwinds the
\* thread, which _generate_worker ignores.
WorkerCheckStop ==
    /\ pcW = "check"
    /\ pcW' = IF stopFlag THEN "done" ELSE AfterPublish(lastPub)
    /\ UNCHANGED <<queue, lastPub, nodeRun, chunks, listenerVars, redisVars,
                   timedOut, dbVars>>

\* Reading the flag raised: _generate_worker publishes the error, unless it
\* was publishing one already, and then the exception ends the thread.
WorkerCheckFails ==
    /\ RedisMayFail
    /\ pcW = "check"
    /\ pcW' = IF lastPub = "Error" THEN "done" ELSE "error"
    /\ UNCHANGED <<queue, lastPub, nodeRun, chunks, listenerVars, redisVars,
                   timedOut, dbVars>>

-----------------------------------------------------------------------------
(* The listening thread: listen() and the pipeline that consumes it.        *)

ListenGet ==
    /\ pcL = "get" /\ queue # <<>>
    /\ queue' = Tail(queue)
    /\ IF IsNone(Head(queue))
       THEN /\ exit' = "none" /\ pcL' = "finally" /\ UNCHANGED msg
       ELSE /\ msg' = Head(queue) /\ pcL' = "process" /\ UNCHANGED exit
    /\ UNCHANGED <<workerVars, pings, redisVars, timedOut, dbVars>>

\* get(timeout=1) raised queue.Empty.
ListenEmpty ==
    /\ pcL = "get" /\ queue = <<>>
    /\ pcL' = "finally"
    /\ UNCHANGED <<queue, workerVars, msg, exit, pings, redisVars, timedOut,
                   dbVars>>

\* Mutants of StatusOf: a status the enumeration does not have; a stop recorded
\* as a failure.
StatusOfUnknown(t) ==
    CASE t = "Succeeded"      -> "succeeded"
      [] t = "PartialSuccess" -> "partial_success"
      [] t = "Failed"         -> "failed"
      [] t = "Stop"           -> "stopped"
StatusOfStopFails(t) ==
    CASE t = "Succeeded"      -> "succeeded"
      [] t = "PartialSuccess" -> "partial-succeeded"
      [] t \in {"Failed", "Stop"} -> "failed"

\* The status a finishing event writes to the workflow run.
StatusOf(t) ==
    CASE t = "Succeeded"      -> "succeeded"
      [] t = "PartialSuccess" -> "partial-succeeded"
      [] t = "Failed"         -> "failed"
      [] t = "Stop"           -> "stopped"

\* Mutant of NodeExecAfter: the node executions still running are not failed
\* when the run fails.
NodeExecAfterLeavesRunning(m) ==
    CASE m.type = "NodeStarted"   -> [nodeExec EXCEPT ![m.node] = "running"]
      [] m.type = "NodeSucceeded" -> [nodeExec EXCEPT ![m.node] = "succeeded"]
      [] m.type = "NodeException" -> [nodeExec EXCEPT ![m.node] = "exception"]
      [] m.type = "NodeFailed"    -> [nodeExec EXCEPT ![m.node] = "failed"]
      [] OTHER -> nodeExec

\* What one event does to the node executions of the run.
NodeExecAfter(m) ==
    CASE m.type = "NodeStarted"   -> [nodeExec EXCEPT ![m.node] = "running"]
      [] m.type = "NodeSucceeded" -> [nodeExec EXCEPT ![m.node] = "succeeded"]
      [] m.type = "NodeException" -> [nodeExec EXCEPT ![m.node] = "exception"]
      [] m.type = "NodeFailed"    -> [nodeExec EXCEPT ![m.node] = "failed"]
      [] m.type \in {"Failed", "Stop"} ->
            [n \in Nodes |->
                IF nodeExec[n] = "running" THEN "failed" ELSE nodeExec[n]]
      [] OTHER -> nodeExec

\* Events that need the workflow run to have been created.
NeedsRun(m) == m.type \in NodeTypes \cup FinishTypes

\* "workflow run not initialized.": the ValueError leaves the pipeline.
ProcessRaises ==
    /\ pcL = "process"
    /\ NeedsRun(msg) /\ run = "none"
    /\ exit' = "raised" /\ pcL' = "finally" /\ msg' = NoMessage
    /\ UNCHANGED <<queue, workerVars, pings, redisVars, timedOut, dbVars>>

\* The error response is yielded and the loop is left.
ProcessError ==
    /\ pcL = "process"
    /\ msg.type = "Error"
    /\ exit' = "error" /\ pcL' = "finally" /\ msg' = NoMessage
    /\ UNCHANGED <<queue, workerVars, pings, redisVars, timedOut, dbVars>>

\* Every other event is recorded; then its response is yielded, and the
\* generator is resumed or closed there, as "leaving" tells.
Record(leaving) ==
    /\ pcL = "process"
    /\ msg.type # "Error"
    /\ ~ (NeedsRun(msg) /\ run = "none")
    /\ run' = IF msg.type = "Started" THEN "running"
              ELSE IF msg.type \in FinishTypes THEN StatusOf(msg.type)
              ELSE run
    /\ nodeExec' = NodeExecAfter(msg)
    /\ handled' = IF msg.type \in FinishTypes THEN Append(handled, msg)
                  ELSE handled
    /\ exit' = leaving
    /\ pcL' = "finally" /\ msg' = NoMessage
    /\ UNCHANGED <<queue, workerVars, pings, redisVars, timedOut>>

\* A blocking request returns at the first response that finishes the
\* workflow; a stream goes on to the sentinel.
ProcessEvent ==
    Record(IF ~Streaming /\ msg.type \in FinishTypes THEN "finished" ELSE "no")

\* The client of a stream went away: the generator is closed at its yield.
ClientDisconnect == Streaming /\ Record("disconnected")

\* The end of a turn of the loop, with q in the queue: a ping every ten seconds,
\* then the next turn, or the end of the listening.
EndTurn(q) ==
    /\ pcL' = IF exit = "no" THEN "get" ELSE "closed"
    /\ \/ /\ queue' = IF exit = "no" THEN q ELSE <<>>
          /\ UNCHANGED pings
       \/ /\ exit = "no" /\ pings < MaxPings
          /\ pings' = pings + 1
          /\ queue' = Append(q, Plain("Ping", "pipeline"))

\* Mutant of MustStop: the timeout is not looked at.
MustStopIgnoresTime == stopFlag

\* elapsed_time >= listen_timeout or self._is_stopped()
MustStop == timedOut \/ stopFlag

\* Mutant of ListenCheckStop: the listener calls stop_listen() only.
ListenCheckStopSilent ==
    /\ pcL = "finally" /\ MustStop
    /\ queue' = Append(queue, Plain("None", "pipeline"))
    /\ pcL' = "stopNone"
    /\ UNCHANGED <<workerVars, msg, exit, pings, redisVars, timedOut, dbVars>>

\* The finally clause: on a timeout or a stop request the listener publishes
\* QueueStopEvent itself, the event first and the sentinel in the next step.
ListenCheckStop ==
    /\ pcL = "finally"
    /\ MustStop
    /\ queue' = Append(queue, Plain("Stop", "pipeline"))
    /\ pcL' = "stopNone"
    /\ UNCHANGED <<workerVars, msg, exit, pings, redisVars, timedOut, dbVars>>

\* Mutant of ListenPutNone: QueueStopEvent is not one of the terminal events.
ListenPutNoneForgets ==
    /\ pcL = "stopNone"
    /\ EndTurn(queue)
    /\ UNCHANGED <<workerVars, msg, exit, redisVars, timedOut, dbVars>>

\* The sentinel of the listener's own publish.
ListenPutNone ==
    /\ pcL = "stopNone"
    /\ EndTurn(Append(queue, Plain("None", "pipeline")))
    /\ UNCHANGED <<workerVars, msg, exit, redisVars, timedOut, dbVars>>

ListenGoOn ==
    /\ pcL = "finally"
    /\ ~MustStop
    /\ EndTurn(queue)
    /\ UNCHANGED <<workerVars, msg, exit, redisVars, timedOut, dbVars>>

\* Reading the flag raised in the finally clause (not reached on a timeout,
\* the condition is short-circuited): the client gets the exception, unless
\* the generator was being closed already.
ListenCheckFails ==
    /\ RedisMayFail
    /\ pcL = "finally" /\ ~timedOut
    /\ pcL' = "closed" /\ queue' = <<>>
    /\ exit' = IF exit \in {"no", "none"} THEN "raised" ELSE exit
    /\ UNCHANGED <<workerVars, msg, pings, redisVars, timedOut, dbVars>>

-----------------------------------------------------------------------------
(* The stop request, the expiry of the two keys and the clock.              *)

\* set_stop_flag: only the user the task belongs to can stop it, and only
\* while the belong key lives.
SetStopFlag(u) ==
    /\ belong = u
    /\ stopFlag' = TRUE
    /\ UNCHANGED <<queue, workerVars, listenerVars, belong, timedOut, dbVars>>

StopFlagExpires ==
    /\ stopFlag
    /\ stopFlag' = FALSE
    /\ UNCHANGED <<queue, workerVars, listenerVars, belong, timedOut, dbVars>>

BelongExpires ==
    /\ belong # NoUser
    /\ belong' = NoUser
    /\ UNCHANGED <<queue, workerVars, listenerVars, stopFlag, timedOut, dbVars>>

ListenTimeout ==
    /\ ~timedOut
    /\ timedOut' = TRUE
    /\ UNCHANGED <<queue, workerVars, listenerVars, redisVars, dbVars>>

-----------------------------------------------------------------------------

Init ==
    /\ queue = <<>>
    /\ pcW = "run" /\ lastPub = "nothing"
    /\ nodeRun = [n \in Nodes |-> "fresh"]
    /\ chunks = 0
    /\ pcL = "get" /\ exit = "no" /\ pings = 0
    /\ msg = NoMessage
    /\ stopFlag = FALSE /\ belong = Owner
    /\ timedOut = FALSE
    /\ run = "none" /\ nodeExec = [n \in Nodes |-> "none"]
    /\ handled = <<>>

Worker ==
    \/ WorkerStart \/ TextChunk \/ GraphEnd \/ GraphFail
    \/ SetupError \/ WorkerPublishError
    \/ WorkerPutNone \/ WorkerCheckStop \/ WorkerCheckFails
    \/ \E n \in Nodes : NodeStart(n)
    \/ \E n \in Nodes, t \in NodeTypes \ {"NodeStarted"} : NodeFinish(n, t)

ListenerStep ==
    \/ ListenGet \/ ListenEmpty
    \/ ProcessRaises \/ ProcessError \/ ProcessEvent
    \/ ListenCheckStop \/ ListenPutNone \/ ListenGoOn

Listener == ListenerStep \/ ClientDisconnect \/ ListenCheckFails

Environment ==
    \/ \E u \in Users : SetStopFlag(u)
    \/ StopFlagExpires \/ BelongExpires \/ ListenTimeout

Next == Worker \/ Listener \/ Environment

Spec == Init /\ [][Next]_vars

(* The listening thread is scheduled and time passes.  Nothing is assumed   *)
(* of the worker: a node may hang in a call to a model or a tool.           *)
Fairness == WF_vars(ListenerStep) /\ WF_vars(ListenTimeout)
FairSpec == Spec /\ Fairness

-----------------------------------------------------------------------------
(* Properties.                                                              *)

RunStatuses  == {"none", "running", "succeeded", "partial-succeeded",
                 "failed", "stopped"}
NodeStatuses == {"none", "running", "succeeded", "exception", "failed"}

\* Every variable has its type.
TypeOK ==
    /\ queue \in Seq(Messages)
    /\ pcW \in {"run", "failing", "putNone", "check", "error", "done"}
    /\ lastPub \in {"nothing"} \cup NodeTypes \cup TerminalTypes \cup OtherTypes
    /\ nodeRun \in [Nodes -> {"fresh", "open"} \cup NodeTypes]
    /\ chunks \in 0..MaxChunks
    /\ pcL \in {"get", "process", "finally", "stopNone", "closed"}
    /\ msg \in Messages
    /\ exit \in {"no", "none", "error", "raised", "finished", "disconnected"}
    /\ pings \in 0..MaxPings
    /\ stopFlag \in BOOLEAN
    /\ belong \in Users \cup {NoUser}
    /\ timedOut \in BOOLEAN
    /\ run \in RunStatuses
    /\ nodeExec \in [Nodes -> NodeStatuses]
    /\ handled \in Seq(Messages)

\* The listening never ends on the sentinel before a finishing event has been
\* recorded: the client of a workflow is told how it ended, and "queue
\* listening stopped unexpectedly." (_to_blocking_response) is unreachable.
\* The sentinel is put apart from its event, by either thread.
NeverEndsSilently == exit = "none" => handled # <<>>

\* Each of the two threads finishes a run at most once, although the listener
\* publishes a stop on every turn of its loop while the flag is set and a
\* worker whose last check fails publishes an error after its result.
OneFinishPerAuthor ==
    \A i, j \in DOMAIN handled :
        handled[i].from = handled[j].from => i = j

\* The two tables agree on how a run ended, also when a stop and a result were
\* both recorded: a run that succeeded has no node left running or failed.
NodesAgreeWithRun ==
    /\ run = "succeeded" =>
          \A n \in Nodes : nodeExec[n] \in {"none", "succeeded"}
    /\ run = "partial-succeeded" =>
          /\ \A n \in Nodes : nodeExec[n] \in {"none", "succeeded", "exception"}
          /\ \E n \in Nodes : nodeExec[n] = "exception"
    /\ run = "failed" => \A n \in Nodes : nodeExec[n] # "running"

\* The run's record, abstracted: who has finished it.
FinishedBy == {handled[i].from : i \in DOMAIN handled}
RunRow == INSTANCE RunRecord WITH status <- run, writers <- FinishedBy

\* The record of a run behaves as RunRecord promises.
RecordsOneRun == RunRow!Spec

\* The request always ends, and a run that was created has a final status by
\* then (blocking mode, Redis up): even if the worker hangs for ever, the
\* listener stops itself once APP_MAX_EXECUTION_TIME has passed.
TaskEnds == <>(pcL = "closed" /\ run # "running")
=============================================================================
