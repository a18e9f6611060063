--------------------------- MODULE AppTaskProofs ---------------------------
(***************************************************************************)
(* Proofs about AppTask, for any set of nodes and users and any bounds.     *)
(*   TypeCorrect    the type invariant                                      *)
(*   NotSilent      no sentinel without an outcome     (from SilentInv)     *)
(*   FinishedOnce   one finishing event per thread     (from OnceInv)       *)
(*   RecordRefined  the run's row follows RunRecord    (from RecordInv)     *)
(*   RowsAgree      its nodes' rows agree with it      (from AgreeInv)      *)
(* and about RateLimit, which admits the requests these runs are for.       *)
(*   LimitTypeCorrect  the type invariant                                   *)
(*   OvershootBounded  how far the limit is exceeded   (from BoundInv)      *)
(*   LiveCounted       running requests are counted    (from LiveInv)       *)
(***************************************************************************)
EXTENDS AppTask, RateLimit, FiniteSetTheorems, TLAPS

\* A node event carries a node, every other message none.
LEMMA MessageFacts ==
    ASSUME NEW m \in Messages
    PROVE  /\ m.type \in NodeTypes \cup TerminalTypes \cup OtherTypes
           /\ m.type \in NodeTypes => m.node \in Nodes
           /\ m.from \in Authors
BY DEF Messages, NodeTypes, TerminalTypes, FinishTypes, OtherTypes

\* The messages the two threads make are messages.
LEMMA MadeMessages ==
    /\ \A t \in TerminalTypes \cup OtherTypes, a \in Authors : Plain(t, a) \in Messages
    /\ \A t \in NodeTypes, n \in Nodes : NodeEvent(t, n) \in Messages
BY DEF Messages, Plain, NodeEvent, Authors

\* Whatever the event, every node execution keeps a status of the enumeration.
LEMMA NodeExecType ==
    ASSUME NEW m \in Messages, nodeExec \in [Nodes -> NodeStatuses]
    PROVE  NodeExecAfter(m) \in [Nodes -> NodeStatuses]
BY MessageFacts DEF NodeExecAfter, NodeStatuses, NodeTypes

\* What a put does to the type of the queue.
LEMMA PutType ==
    ASSUME queue \in Seq(Messages), NEW m \in Messages
    PROVE  Put(queue, m) \in Seq(Messages)
BY DEF Put

\* A step of the worker keeps the type invariant.
LEMMA WorkerPutType ==
    ASSUME TypeOK, NEW m \in Messages, WorkerPut(m),
           nodeRun' \in [Nodes -> {"fresh", "open"} \cup NodeTypes],
           chunks' \in 0..MaxChunks
    PROVE  TypeOK'
<1>1. queue' \in Seq(Messages)
  BY PutType DEF WorkerPut, TypeOK
<1>2. lastPub' \in NodeTypes \cup TerminalTypes \cup OtherTypes /\ pcW' \in {"putNone", "check"}
  BY MessageFacts DEF WorkerPut
<1>. QED
  BY <1>1, <1>2 DEF WorkerPut, TypeOK, listenerVars, redisVars, dbVars

\* The empty queue and the sentinel, by name: used all over.
LEMMA EmptyAndNone == <<>> \in Seq(Messages) /\ NoMessage \in Messages
BY MadeMessages DEF NoMessage, OtherTypes, Authors

LEMMA Bounds == MaxPings \in Nat /\ MaxChunks \in Nat /\ MaxAhead \in Nat
BY BoundAssumption

\* Every variable keeps its type in every reachable state.
THEOREM TypeCorrect == Spec => []TypeOK
<1>1. Init => TypeOK
  <2> SUFFICES ASSUME Init PROVE TypeOK
    OBVIOUS
  <2>1. queue \in Seq(Messages) /\ msg \in Messages /\ handled \in Seq(Messages)
    BY EmptyAndNone DEF Init
  <2>2. nodeRun \in [Nodes -> {"fresh", "open"} \cup NodeTypes]
    BY DEF Init
  <2>3. nodeExec \in [Nodes -> NodeStatuses]
    BY DEF Init, NodeStatuses
  <2>4. belong \in Users \cup {NoUser}
    BY UserAssumption DEF Init
  <2>5. chunks \in 0..MaxChunks /\ pings \in 0..MaxPings
    BY Bounds DEF Init
  <2>6. stopFlag \in BOOLEAN /\ timedOut \in BOOLEAN
    BY DEF Init
  <2>7. run \in RunStatuses
    BY DEF Init, RunStatuses
  <2>8. /\ pcW \in {"run", "failing", "putNone", "check", "error", "done"}
        /\ lastPub \in {"nothing"} \cup NodeTypes \cup TerminalTypes \cup OtherTypes
        /\ pcL \in {"get", "process", "finally", "stopNone", "closed"}
        /\ exit \in {"no", "none", "error", "raised", "finished", "disconnected"}
    BY DEF Init
  <2>. QED
    BY <2>1, <2>2, <2>3, <2>4, <2>5, <2>6, <2>7, <2>8 DEF TypeOK
<1>2. TypeOK /\ [Next]_vars => TypeOK'
  <2> SUFFICES ASSUME TypeOK, [Next]_vars PROVE TypeOK'
    OBVIOUS
  <2>1. CASE Worker
    <3>1. CASE WorkerStart
      BY <3>1, MadeMessages, WorkerPutType DEF WorkerStart, TypeOK, OtherTypes, Authors
    <3>2. CASE TextChunk
      BY <3>2, MadeMessages, WorkerPutType, Bounds
      DEF TextChunk, TypeOK, OtherTypes, Authors
    <3>3. CASE GraphEnd
      BY <3>3, MadeMessages, WorkerPutType
      DEF GraphEnd, TypeOK, TerminalTypes, FinishTypes, Authors
    <3>4. CASE GraphFail
      BY <3>4, MadeMessages, WorkerPutType
      DEF GraphFail, TypeOK, TerminalTypes, FinishTypes, Authors
    <3>5. CASE SetupError
      BY <3>5 DEF SetupError, TypeOK, listenerVars, redisVars, dbVars
    <3>6. CASE WorkerPublishError
      BY <3>6, MadeMessages, WorkerPutType
      DEF WorkerPublishError, TypeOK, TerminalTypes, Authors
    <3>7. CASE WorkerPutNone
      BY <3>7, MadeMessages, PutType
      DEF WorkerPutNone, TypeOK, OtherTypes, Authors, listenerVars, redisVars, dbVars
    <3>8. CASE WorkerCheckStop
      BY <3>8 DEF WorkerCheckStop, AfterPublish, TypeOK, listenerVars, redisVars, dbVars
    <3>9. CASE WorkerCheckFails
      BY <3>9 DEF WorkerCheckFails, TypeOK, listenerVars, redisVars, dbVars
    <3>10. ASSUME NEW n \in Nodes, NodeStart(n) PROVE TypeOK'
      BY <3>10, MadeMessages, WorkerPutType DEF NodeStart, TypeOK, NodeTypes
    <3>11. ASSUME NEW n \in Nodes, NEW t \in NodeTypes \ {"NodeStarted"}, NodeFinish(n, t)
           PROVE  TypeOK'
      BY <3>11, MadeMessages, WorkerPutType DEF NodeFinish, TypeOK
    <3>. QED
      BY <2>1, <3>1, <3>2, <3>3, <3>4, <3>5, <3>6, <3>7, <3>8, <3>9, <3>10, <3>11 DEF Worker
  <2>2. CASE Listener
    <3> USE DEF workerVars, redisVars, dbVars
    <3>1. CASE ListenGet
      <4>1. Head(queue) \in Messages /\ Tail(queue) \in Seq(Messages)
        BY <3>1 DEF ListenGet, TypeOK
      <4>. QED
        BY <3>1, <4>1 DEF ListenGet, TypeOK
    <3>2. CASE ListenEmpty
      BY <3>2 DEF ListenEmpty, TypeOK
    <3>3. CASE ProcessRaises
      BY <3>3, MadeMessages DEF ProcessRaises, TypeOK, NoMessage, OtherTypes, Authors
    <3>4. CASE ProcessError
      BY <3>4, MadeMessages DEF ProcessError, TypeOK, NoMessage, OtherTypes, Authors
    <3>5. ASSUME NEW leaving \in {"no", "finished", "disconnected"}, Record(leaving)
          PROVE  TypeOK'
      <4>1. run' \in RunStatuses
        BY <3>5 DEF Record, TypeOK, StatusOf, RunStatuses, FinishTypes
      <4>2. nodeExec' \in [Nodes -> NodeStatuses]
        BY <3>5, NodeExecType DEF Record, TypeOK
      <4>3. handled' \in Seq(Messages)
        BY <3>5 DEF Record, TypeOK
      <4>4. msg' \in Messages
        BY <3>5, MadeMessages DEF Record, NoMessage, OtherTypes, Authors
      <4>. QED
        BY <3>5, <4>1, <4>2, <4>3, <4>4 DEF Record, TypeOK
    <3>6. CASE ProcessEvent
      BY <3>5, <3>6 DEF ProcessEvent
    <3>7. CASE ClientDisconnect
      BY <3>5, <3>7 DEF ClientDisconnect
    <3>8. CASE ListenCheckStop
      BY <3>8, MadeMessages DEF ListenCheckStop, TypeOK, TerminalTypes, FinishTypes, Authors
    <3>9. ASSUME NEW q \in Seq(Messages), EndTurn(q)
          PROVE  /\ queue' \in Seq(Messages)
                 /\ pings' \in 0..MaxPings
                 /\ pcL' \in {"get", "closed"}
      <4>1. Append(q, Plain("Ping", "pipeline")) \in Seq(Messages)
        BY MadeMessages DEF OtherTypes, Authors
      <4>2. queue' \in Seq(Messages)
        BY <3>9, <4>1, EmptyAndNone DEF EndTurn
      <4>. QED
        BY <3>9, <4>2, Bounds DEF EndTurn, TypeOK
    <3>10. CASE ListenPutNone
      <4>1. Append(queue, Plain("None", "pipeline")) \in Seq(Messages)
        BY MadeMessages DEF OtherTypes, Authors, TypeOK
      <4>2. /\ queue' \in Seq(Messages)
            /\ pings' \in 0..MaxPings
            /\ pcL' \in {"get", "closed"}
        BY <3>9, <3>10, <4>1 DEF ListenPutNone
      <4>. QED
        BY <3>10, <4>2 DEF ListenPutNone, TypeOK
    <3>11. CASE ListenGoOn
      BY <3>9, <3>11 DEF ListenGoOn, TypeOK
    <3>12. CASE ListenCheckFails
      <4>1. queue' \in Seq(Messages)
        BY <3>12, EmptyAndNone DEF ListenCheckFails
      <4>. QED
        BY <3>12, <4>1 DEF ListenCheckFails, TypeOK
    <3>. QED
      BY <2>2, <3>1, <3>2, <3>3, <3>4, <3>6, <3>7, <3>8, <3>10, <3>11, <3>12
      DEF Listener, ListenerStep
  <2>3. CASE Environment
    <3>1. ASSUME NEW u \in Users, SetStopFlag(u) PROVE TypeOK'
      BY <3>1 DEF SetStopFlag, TypeOK, workerVars, listenerVars, dbVars
    <3>2. CASE StopFlagExpires
      <4>1. /\ stopFlag' \in BOOLEAN
            /\ UNCHANGED <<queue, workerVars, listenerVars, belong, timedOut, dbVars>>
        BY <3>2, Zenon DEF StopFlagExpires
      <4>. QED
        BY <4>1 DEF TypeOK, workerVars, listenerVars, dbVars
    <3>3. CASE BelongExpires
      BY <3>3 DEF BelongExpires, TypeOK, workerVars, listenerVars, dbVars
    <3>4. CASE ListenTimeout
      <4>1. /\ timedOut' \in BOOLEAN
            /\ UNCHANGED <<queue, workerVars, listenerVars, redisVars, dbVars>>
        BY <3>4, Zenon DEF ListenTimeout
      <4>. QED
        BY <4>1 DEF TypeOK, workerVars, listenerVars, redisVars, dbVars
    <3>. QED
      BY <2>3, <3>1, <3>2, <3>3, <3>4 DEF Environment
  <2>4. CASE UNCHANGED vars
    BY <2>4 DEF vars, workerVars, listenerVars, redisVars, dbVars, TypeOK
  <2>. QED
    BY <2>1, <2>2, <2>3, <2>4 DEF Next
<1>. QED
  BY <1>1, <1>2, PTL DEF Spec

-----------------------------------------------------------------------------
(***************************************************************************)
(* A listening does not end silently.  The sentinel is put by its author    *)
(* after the terminal event, and the queue is first in, first out: so long  *)
(* as no outcome was announced, every sentinel in the queue has a terminal  *)
(* event before it, and an author about to put one has left its event in    *)
(* the queue.                                                               *)
(***************************************************************************)

\* The pipeline has taken a terminal event, or has already left.
Announced ==
    \/ handled # <<>>
    \/ exit # "no"
    \/ pcL = "process" /\ IsTerminal(msg)

HasTerminal(q, n) == \E j \in 1..n : j \in DOMAIN q /\ IsTerminal(q[j])
Covered(q) == \A i \in DOMAIN q : IsNone(q[i]) => HasTerminal(q, i - 1)

SilentInv ==
    /\ exit = "none" => handled # <<>>
    /\ pcL \in {"get", "process"} => exit = "no"
    /\ pcL = "closed" => exit # "no"
    /\ \/ Announced
       \/ /\ Covered(queue)
          /\ pcW = "putNone" \/ pcL = "stopNone" => HasTerminal(queue, Len(queue))

\* Appending an event that is not the sentinel.
LEMMA CoveredPut ==
    ASSUME NEW q \in Seq(Messages), NEW m \in Messages, Covered(q), ~IsNone(m)
    PROVE  /\ Covered(Append(q, m))
           /\ IsTerminal(m) => HasTerminal(Append(q, m), Len(Append(q, m)))
           /\ HasTerminal(q, Len(q)) => HasTerminal(Append(q, m), Len(Append(q, m)))
BY DEF Covered, HasTerminal

\* Appending the sentinel when a terminal event is there.
LEMMA CoveredNone ==
    ASSUME NEW q \in Seq(Messages), NEW m \in Messages, Covered(q),
           HasTerminal(q, Len(q))
    PROVE  /\ Covered(Append(q, m))
           /\ HasTerminal(Append(q, m), Len(Append(q, m)))
BY DEF Covered, HasTerminal

\* Taking a message that is neither.
LEMMA CoveredTail ==
    ASSUME NEW q \in Seq(Messages), q # <<>>, Covered(q), ~IsTerminal(Head(q))
    PROVE  /\ ~IsNone(Head(q))
           /\ Covered(Tail(q))
           /\ HasTerminal(q, Len(q)) => HasTerminal(Tail(q), Len(Tail(q)))
<1>1. ~IsNone(Head(q))
  BY DEF Covered, HasTerminal
<1>2. \A n \in 1..Len(q) : HasTerminal(q, n) => HasTerminal(Tail(q), n - 1)
  <2> SUFFICES ASSUME NEW n \in 1..Len(q), HasTerminal(q, n)
               PROVE  HasTerminal(Tail(q), n - 1)
    OBVIOUS
  <2>1. PICK j \in 1..n : j \in DOMAIN q /\ IsTerminal(q[j])
    BY DEF HasTerminal
  <2>2. j # 1
    BY <2>1
  <2>3. j - 1 \in 1..(n - 1) /\ j - 1 \in DOMAIN Tail(q) /\ Tail(q)[j - 1] = q[j]
    BY <2>1, <2>2
  <2>. QED
    BY <2>1, <2>3 DEF HasTerminal
<1>3. Covered(Tail(q))
  <2> SUFFICES ASSUME NEW i \in DOMAIN Tail(q), IsNone(Tail(q)[i])
               PROVE  HasTerminal(Tail(q), i - 1)
    BY DEF Covered
  <2>1. i + 1 \in DOMAIN q /\ q[i + 1] = Tail(q)[i] /\ i \in 1..Len(q)
    OBVIOUS
  <2>2. HasTerminal(q, i)
    BY <2>1 DEF Covered
  <2>. QED
    BY <1>2, <2>1, <2>2
<1>4. Len(q) \in 1..Len(q) /\ Len(Tail(q)) = Len(q) - 1
  OBVIOUS
<1>. QED
  BY <1>1, <1>2, <1>3, <1>4

\* What the worker may publish: its own messages, except the sentinel.
WorkerMessages == {m \in Messages : m.from = "app" /\ ~IsNone(m)}

LEMMA WorkerMakes ==
    /\ \A t \in (TerminalTypes \cup OtherTypes) \ {"None"} : Plain(t, "app") \in WorkerMessages
    /\ \A t \in NodeTypes, n \in Nodes : NodeEvent(t, n) \in WorkerMessages
<1>1. \A t \in (TerminalTypes \cup OtherTypes) \ {"None"} : Plain(t, "app") \in WorkerMessages
  <2> SUFFICES ASSUME NEW t \in (TerminalTypes \cup OtherTypes) \ {"None"}
               PROVE  Plain(t, "app") \in WorkerMessages
    OBVIOUS
  <2>1. Plain(t, "app") \in Messages
    BY MadeMessages DEF Authors
  <2>2. Plain(t, "app").from = "app" /\ Plain(t, "app").type = t
    BY DEF Plain
  <2>. QED
    BY <2>1, <2>2 DEF WorkerMessages, IsNone
<1>2. \A t \in NodeTypes, n \in Nodes : NodeEvent(t, n) \in WorkerMessages
  <2> SUFFICES ASSUME NEW t \in NodeTypes, NEW n \in Nodes
               PROVE  NodeEvent(t, n) \in WorkerMessages
    OBVIOUS
  <2>1. NodeEvent(t, n) \in Messages
    BY MadeMessages
  <2>2. NodeEvent(t, n).from = "app" /\ NodeEvent(t, n).type = t
    BY DEF NodeEvent
  <2>. QED
    BY <2>1, <2>2 DEF WorkerMessages, IsNone, NodeTypes
<1>. QED
  BY <1>1, <1>2

\* A step of the worker is a publish of a message that is not the sentinel, the
\* sentinel of a terminal event, or leaves the queue alone.
LEMMA WorkerSteps ==
    ASSUME Worker
    PROVE  /\ UNCHANGED <<pcL, msg, exit, handled>>
           /\ \/ \E m \in WorkerMessages : WorkerPut(m) /\ pcW # "putNone"
              \/ WorkerPutNone
              \/ queue' = queue /\ pcW' # "putNone" /\ pcW # "putNone"
<1> DEFINE Publishes == \E m \in WorkerMessages : WorkerPut(m) /\ pcW # "putNone"
<1>1. ASSUME Publishes PROVE UNCHANGED <<pcL, msg, exit, handled>>
  BY <1>1 DEF WorkerPut, listenerVars, dbVars
<1>2. CASE WorkerStart
  <2>1. Plain("Started", "app") \in WorkerMessages
    BY WorkerMakes DEF OtherTypes
  <2>2. Publishes
    BY <1>2, <2>1 DEF WorkerStart
  <2>. QED
    BY <1>1, <2>2
<1>3. CASE TextChunk
  <2>1. Plain("Chunk", "app") \in WorkerMessages
    BY WorkerMakes DEF OtherTypes
  <2>2. Publishes
    BY <1>3, <2>1 DEF TextChunk
  <2>. QED
    BY <1>1, <2>2
<1>4. CASE GraphEnd
  <2> DEFINE t == IF \E n \in Nodes : nodeRun[n] = "NodeException"
                  THEN "PartialSuccess" ELSE "Succeeded"
  <2>1. t \in (TerminalTypes \cup OtherTypes) \ {"None"}
    BY DEF TerminalTypes, FinishTypes
  <2>2. WorkerPut(Plain(t, "app")) /\ pcW = "run"
    BY <1>4 DEF GraphEnd
  <2>. HIDE DEF t
  <2>3. Publishes
    BY <2>1, <2>2, WorkerMakes
  <2>. QED
    BY <1>1, <2>3
<1>5. CASE GraphFail
  <2>1. Plain("Failed", "app") \in WorkerMessages
    BY WorkerMakes DEF TerminalTypes, FinishTypes
  <2>2. Publishes
    BY <1>5, <2>1 DEF GraphFail
  <2>. QED
    BY <1>1, <2>2
<1>6. CASE SetupError
  BY <1>6 DEF SetupError, listenerVars, dbVars
<1>7. CASE WorkerPublishError
  <2>1. Plain("Error", "app") \in WorkerMessages
    BY WorkerMakes DEF TerminalTypes
  <2>2. Publishes
    BY <1>7, <2>1 DEF WorkerPublishError
  <2>. QED
    BY <1>1, <2>2
<1>8. CASE WorkerPutNone
  BY <1>8 DEF WorkerPutNone, listenerVars, dbVars
<1>9. CASE WorkerCheckStop
  BY <1>9 DEF WorkerCheckStop, AfterPublish, listenerVars, dbVars
<1>10. CASE WorkerCheckFails
  BY <1>10 DEF WorkerCheckFails, listenerVars, dbVars
<1>11. ASSUME NEW n \in Nodes, NodeStart(n) PROVE Publishes
  <2>1. NodeEvent("NodeStarted", n) \in WorkerMessages
    BY WorkerMakes DEF NodeTypes
  <2>. QED
    BY <1>11, <2>1 DEF NodeStart
<1>12. ASSUME NEW n \in Nodes, NEW t \in NodeTypes \ {"NodeStarted"}, NodeFinish(n, t)
       PROVE  Publishes
  <2>1. NodeEvent(t, n) \in WorkerMessages
    BY WorkerMakes
  <2>. QED
    BY <1>12, <2>1 DEF NodeFinish
<1>. QED
  BY <1>1, <1>2, <1>3, <1>4, <1>5, <1>6, <1>7, <1>8, <1>9, <1>10, <1>11, <1>12 DEF Worker

\* A turn of the listener's loop ends with q in the queue, or with a ping after
\* it, or the listening is over.
LEMMA EndTurnCases ==
    ASSUME NEW q, EndTurn(q)
    PROVE  \/ exit # "no" /\ pcL' = "closed" /\ queue' = <<>>
           \/ exit = "no" /\ pcL' = "get" /\ queue' = q
           \/ exit = "no" /\ pcL' = "get" /\ queue' = Append(q, Plain("Ping", "pipeline"))
BY DEF EndTurn

LEMMA SilentWorker ==
    ASSUME TypeOK, SilentInv, Worker
    PROVE  SilentInv'
<1>1. UNCHANGED <<pcL, msg, exit, handled>>
  BY WorkerSteps
<1>2. Announced <=> Announced'
  BY <1>1 DEF Announced, IsTerminal
<1>3. CASE Announced
  BY <1>1, <1>2, <1>3 DEF SilentInv
<1>4. CASE ~Announced
  <2>1. pcL # "closed" /\ queue \in Seq(Messages) /\ Covered(queue)
    BY <1>4 DEF SilentInv, Announced, TypeOK
  <2>2. ASSUME NEW m \in WorkerMessages, WorkerPut(m) PROVE SilentInv'
    <3>1. queue' = Append(queue, m) /\ (pcW' = "putNone" => IsTerminal(m))
      BY <2>1, <2>2 DEF WorkerPut, Put
    <3>2. m \in Messages /\ ~IsNone(m)
      BY DEF WorkerMessages
    <3>. QED
      BY <1>1, <1>4, <2>1, <3>1, <3>2, CoveredPut DEF SilentInv
  <2>3. CASE WorkerPutNone
    <3>1. HasTerminal(queue, Len(queue))
      BY <1>4, <2>3 DEF WorkerPutNone, SilentInv
    <3>2. queue' = Append(queue, Plain("None", "app")) /\ Plain("None", "app") \in Messages
      BY <2>1, <2>3, MadeMessages DEF WorkerPutNone, Put, OtherTypes, Authors
    <3>. QED
      BY <1>1, <2>1, <3>1, <3>2, CoveredNone DEF SilentInv
  <2>4. CASE queue' = queue /\ pcW' # "putNone"
    BY <1>1, <1>4, <2>4 DEF SilentInv
  <2>. QED
    BY <2>2, <2>3, <2>4, WorkerSteps
<1>. QED
  BY <1>3, <1>4

LEMMA SilentListener ==
    ASSUME TypeOK, TypeOK', SilentInv, Listener
    PROVE  SilentInv'
<1> USE DEF workerVars, dbVars
<1>1. CASE ListenGet
  <2>1. exit = "no" /\ queue \in Seq(Messages) /\ queue # <<>>
    BY <1>1 DEF ListenGet, SilentInv, TypeOK
  <2>2. CASE IsNone(Head(queue))
    <3>1. handled # <<>>
      BY <1>1, <2>1, <2>2 DEF SilentInv, Announced, Covered, HasTerminal, ListenGet
    <3>. QED
      BY <1>1, <2>2, <3>1 DEF ListenGet, SilentInv, Announced
  <2>3. CASE ~IsNone(Head(queue)) /\ IsTerminal(Head(queue))
    BY <1>1, <2>1, <2>3 DEF ListenGet, SilentInv, Announced
  <2>4. CASE ~IsNone(Head(queue)) /\ ~IsTerminal(Head(queue))
    BY <1>1, <2>1, <2>4, CoveredTail DEF ListenGet, SilentInv, Announced
  <2>. QED
    BY <2>2, <2>3, <2>4
<1>2. CASE ListenEmpty
  BY <1>2 DEF ListenEmpty, SilentInv, Announced
<1>3. CASE ProcessRaises
  BY <1>3 DEF ProcessRaises, SilentInv, Announced
<1>4. CASE ProcessError
  BY <1>4 DEF ProcessError, SilentInv, Announced
<1>5. ASSUME NEW leaving \in {"no", "finished", "disconnected"}, Record(leaving)
      PROVE  SilentInv'
  <2>1. exit = "no" /\ handled \in Seq(Messages)
    BY <1>5 DEF Record, SilentInv, TypeOK
  <2>2. CASE IsTerminal(msg)
    <3>1. handled' # <<>>
      BY <1>5, <2>1, <2>2 DEF Record, IsTerminal, TerminalTypes
    <3>. QED
      BY <1>5, <3>1 DEF Record, SilentInv, Announced
  <2>3. CASE ~IsTerminal(msg)
    <3>1. handled' = handled
      BY <1>5, <2>3 DEF Record, IsTerminal, TerminalTypes
    <3>. QED
      BY <1>5, <2>1, <2>3, <3>1 DEF Record, SilentInv, Announced
  <2>. QED
    BY <2>2, <2>3
<1>6. CASE ProcessEvent
  BY <1>5, <1>6 DEF ProcessEvent
<1>7. CASE ClientDisconnect
  BY <1>5, <1>7 DEF ClientDisconnect
<1>8. CASE ListenCheckStop
  <2>1. Plain("Stop", "pipeline") \in Messages /\ IsTerminal(Plain("Stop", "pipeline"))
        /\ ~IsNone(Plain("Stop", "pipeline"))
    BY MadeMessages DEF TerminalTypes, FinishTypes, Authors, IsTerminal, IsNone, Plain
  <2>2. Announced => Announced'
    BY <1>8 DEF ListenCheckStop, Announced
  <2>. QED
    BY <1>8, <2>1, <2>2, CoveredPut DEF ListenCheckStop, SilentInv, TypeOK, Announced
<1>9. ASSUME NEW q \in Seq(Messages), EndTurn(q), UNCHANGED <<exit, handled, pcW>>,
             pcL # "process",
             exit = "none" => handled # <<>>,
             Announced \/ (Covered(q) /\ (pcW = "putNone" => HasTerminal(q, Len(q))))
      PROVE  SilentInv'
  <2>1. CASE exit # "no" /\ pcL' = "closed" /\ queue' = <<>>
    BY <1>9, <2>1 DEF SilentInv, Announced
  <2>2. CASE exit = "no" /\ pcL' = "get" /\ queue' = q
    BY <1>9, <2>2 DEF SilentInv, Announced
  <2>3. CASE exit = "no" /\ pcL' = "get" /\ queue' = Append(q, Plain("Ping", "pipeline"))
    <3>1. Plain("Ping", "pipeline") \in Messages /\ ~IsNone(Plain("Ping", "pipeline"))
      BY MadeMessages DEF OtherTypes, Authors, IsNone, Plain
    <3>. QED
      BY <1>9, <2>3, <3>1, CoveredPut DEF SilentInv, Announced
  <2>. QED
    BY <1>9, <2>1, <2>2, <2>3, EndTurnCases
<1>10. CASE ListenPutNone
  <2>1. Plain("None", "pipeline") \in Messages
    BY MadeMessages DEF OtherTypes, Authors
  <2>2. queue \in Seq(Messages) /\ pcL = "stopNone"
    BY <1>10 DEF ListenPutNone, TypeOK
  <2>3. Append(queue, Plain("None", "pipeline")) \in Seq(Messages)
    BY <2>1, <2>2
  <2>4. Announced \/ /\ Covered(Append(queue, Plain("None", "pipeline")))
                     /\ HasTerminal(Append(queue, Plain("None", "pipeline")),
                                    Len(Append(queue, Plain("None", "pipeline"))))
    BY <2>1, <2>2, CoveredNone DEF SilentInv
  <2>. QED
    BY <1>9, <1>10, <2>2, <2>3, <2>4 DEF ListenPutNone, SilentInv
<1>11. CASE ListenGoOn
  BY <1>9, <1>11 DEF ListenGoOn, SilentInv, TypeOK
<1>12. CASE ListenCheckFails
  BY <1>12 DEF ListenCheckFails, SilentInv, Announced
<1>. QED
  BY <1>1, <1>2, <1>3, <1>4, <1>6, <1>7, <1>8, <1>10, <1>11, <1>12 DEF Listener, ListenerStep

LEMMA SilentCorrect == Spec => []SilentInv
<1>1. Init => SilentInv
  BY DEF Init, SilentInv, Covered
<1>2. TypeOK /\ TypeOK' /\ SilentInv /\ [Next]_vars => SilentInv'
  <2> SUFFICES ASSUME TypeOK, TypeOK', SilentInv, [Next]_vars PROVE SilentInv'
    OBVIOUS
  <2>1. CASE UNCHANGED <<queue, pcW, pcL, msg, exit, handled>>
    BY <2>1 DEF SilentInv, Announced
  <2>2. CASE Environment
    BY <2>1, <2>2 DEF Environment, SetStopFlag, StopFlagExpires, BelongExpires, ListenTimeout,
                      workerVars, listenerVars, dbVars
  <2>3. CASE UNCHANGED vars
    BY <2>1, <2>3 DEF vars, workerVars, listenerVars, dbVars
  <2>. QED
    BY <2>2, <2>3, SilentWorker, SilentListener DEF Next
<1>. QED
  BY <1>1, <1>2, TypeCorrect, PTL DEF Spec

\* A listening that ends on the sentinel has recorded how the workflow ended.
THEOREM NotSilent == Spec => []NeverEndsSilently
<1>1. SilentInv => NeverEndsSilently
  BY DEF SilentInv, NeverEndsSilently
<1>. QED
  BY <1>1, SilentCorrect, PTL

-----------------------------------------------------------------------------
(***************************************************************************)
(* Each author finishes the run at most once.  An author puts a sentinel    *)
(* between two of its terminal events, and the listening ends at the first  *)
(* sentinel: once a terminal event of an author was taken, a sentinel stands *)
(* in the queue before its next one, or is about to be put.                 *)
(***************************************************************************)

Ends(m, a) == IsTerminal(m) /\ m.from = a

\* Between two terminal events of a there is a sentinel.
Apart(q, a) ==
    \A i, j \in DOMAIN q :
        i < j /\ Ends(q[i], a) /\ Ends(q[j], a)
            => \E k \in DOMAIN q : i < k /\ k < j /\ IsNone(q[k])

\* After (before) each terminal event of a there is a sentinel.
Ended(q, a) ==
    \A i \in DOMAIN q : Ends(q[i], a) => \E k \in DOMAIN q : i < k /\ IsNone(q[k])
Sealed(q, a) ==
    \A i \in DOMAIN q : Ends(q[i], a) => \E k \in DOMAIN q : k < i /\ IsNone(q[k])

HasNone(q) == \E k \in DOMAIN q : IsNone(q[k])

\* a has put its terminal event and not yet the sentinel.
Pending(a) == IF a = "app" THEN pcW = "putNone" ELSE pcL = "stopNone"

Recorded(a) == \E i \in DOMAIN handled : handled[i].from = a
Taken(a)    == Recorded(a) \/ (pcL = "process" /\ Ends(msg, a))

OnceFor(a) ==
    /\ Apart(queue, a)
    /\ ~Pending(a) => Ended(queue, a)
    /\ Taken(a) => Sealed(queue, a)
    /\ Taken(a) /\ ~Pending(a) => HasNone(queue)

OnceInv ==
    /\ OneFinishPerAuthor
    /\ pcL = "process" /\ IsTerminal(msg) => ~Recorded(msg.from)
    /\ exit = "no" => \A a \in Authors : OnceFor(a)

\* Appending a message that does not end the task for a.
LEMMA AppendOther ==
    ASSUME NEW q \in Seq(Messages), NEW m \in Messages, NEW a, ~Ends(m, a)
    PROVE  /\ Apart(q, a) => Apart(Append(q, m), a)
           /\ Ended(q, a) => Ended(Append(q, m), a)
           /\ Sealed(q, a) => Sealed(Append(q, m), a)
           /\ HasNone(q) => HasNone(Append(q, m))
<1> DEFINE r == Append(q, m)
<1>1. /\ DOMAIN q = 1..Len(q) /\ DOMAIN r = 1..(Len(q) + 1) /\ Len(q) \in Nat
      /\ r[Len(q) + 1] = m
      /\ \A i \in 1..Len(q) : r[i] = q[i]
  OBVIOUS
<1>. HIDE DEF r
<1>2. Apart(q, a) => Apart(r, a)
  BY <1>1 DEF Apart
<1>3. Ended(q, a) => Ended(r, a)
  BY <1>1 DEF Ended
<1>4. Sealed(q, a) => Sealed(r, a)
  BY <1>1 DEF Sealed
<1>5. HasNone(q) => HasNone(r)
  BY <1>1 DEF HasNone
<1>. QED
  BY <1>2, <1>3, <1>4, <1>5 DEF r

\* Appending a terminal event of a after a sentinel.
LEMMA AppendEnd ==
    ASSUME NEW q \in Seq(Messages), NEW m \in Messages, NEW a,
           Apart(q, a), Ended(q, a)
    PROVE  /\ Apart(Append(q, m), a)
           /\ Sealed(q, a) /\ HasNone(q) => Sealed(Append(q, m), a)
<1> DEFINE r == Append(q, m)
<1>1. /\ DOMAIN q = 1..Len(q) /\ DOMAIN r = 1..(Len(q) + 1) /\ Len(q) \in Nat
      /\ r[Len(q) + 1] = m
      /\ \A i \in 1..Len(q) : r[i] = q[i]
  OBVIOUS
<1>. HIDE DEF r
<1>2. Apart(r, a)
  BY <1>1 DEF Apart, Ended
<1>3. Sealed(q, a) /\ HasNone(q) => Sealed(r, a)
  BY <1>1 DEF Sealed, HasNone
<1>. QED
  BY <1>2, <1>3 DEF r

\* Appending the sentinel.
LEMMA AppendNone ==
    ASSUME NEW q \in Seq(Messages), NEW m \in Messages, IsNone(m), NEW a
    PROVE  /\ ~Ends(m, a)
           /\ Ended(Append(q, m), a)
           /\ HasNone(Append(q, m))
<1> DEFINE r == Append(q, m)
<1>1. /\ DOMAIN q = 1..Len(q) /\ DOMAIN r = 1..(Len(q) + 1) /\ Len(q) \in Nat
      /\ r[Len(q) + 1] = m
  OBVIOUS
<1>. HIDE DEF r
<1>2. ~Ends(m, a)
  BY DEF Ends, IsNone, IsTerminal, TerminalTypes, FinishTypes
<1>3. Ended(r, a) /\ HasNone(r)
  BY <1>1, <1>2 DEF Ended, HasNone
<1>. QED
  BY <1>2, <1>3 DEF r

\* Taking a message that is not the sentinel.
LEMMA TailApart ==
    ASSUME NEW q \in Seq(Messages), q # <<>>, ~IsNone(Head(q)), NEW a
    PROVE  /\ Apart(q, a) => Apart(Tail(q), a)
           /\ Ended(q, a) => Ended(Tail(q), a)
           /\ Sealed(q, a) => Sealed(Tail(q), a) /\ ~Ends(Head(q), a)
           /\ HasNone(q) => HasNone(Tail(q))
           /\ Ends(Head(q), a) /\ Apart(q, a) => Sealed(Tail(q), a)
           /\ Ends(Head(q), a) /\ Ended(q, a) => HasNone(Tail(q))
<1> DEFINE r == Tail(q)
<1>1. /\ DOMAIN q = 1..Len(q) /\ DOMAIN r = 1..(Len(q) - 1) /\ Len(q) \in Nat \ {0}
      /\ Head(q) = q[1]
      /\ \A i \in 1..(Len(q) - 1) : r[i] = q[i + 1]
  OBVIOUS
<1>2. \A k \in DOMAIN q : IsNone(q[k]) => k - 1 \in DOMAIN r /\ IsNone(r[k - 1])
  BY <1>1
<1>3. \A i \in DOMAIN r : i + 1 \in DOMAIN q /\ r[i] = q[i + 1]
  BY <1>1
<1>. HIDE DEF r
<1>4. Apart(q, a) => Apart(r, a)
  <2> SUFFICES ASSUME Apart(q, a), NEW i \in DOMAIN r, NEW j \in DOMAIN r,
                      i < j, Ends(r[i], a), Ends(r[j], a)
               PROVE  \E k \in DOMAIN r : i < k /\ k < j /\ IsNone(r[k])
    BY DEF Apart
  <2>1. PICK k \in DOMAIN q : i + 1 < k /\ k < j + 1 /\ IsNone(q[k])
    BY <1>1, <1>3 DEF Apart
  <2>. QED
    BY <1>1, <1>2, <2>1
<1>5. Ended(q, a) => Ended(r, a)
  <2> SUFFICES ASSUME Ended(q, a), NEW i \in DOMAIN r, Ends(r[i], a)
               PROVE  \E k \in DOMAIN r : i < k /\ IsNone(r[k])
    BY DEF Ended
  <2>1. PICK k \in DOMAIN q : i + 1 < k /\ IsNone(q[k])
    BY <1>1, <1>3 DEF Ended
  <2>. QED
    BY <1>1, <1>2, <2>1
<1>6. Sealed(q, a) => Sealed(r, a) /\ ~Ends(Head(q), a)
  <2>1. Sealed(q, a) => ~Ends(Head(q), a)
    BY <1>1 DEF Sealed
  <2> SUFFICES ASSUME Sealed(q, a), NEW i \in DOMAIN r, Ends(r[i], a)
               PROVE  \E k \in DOMAIN r : k < i /\ IsNone(r[k])
    BY <2>1 DEF Sealed
  <2>2. PICK k \in DOMAIN q : k < i + 1 /\ IsNone(q[k])
    BY <1>1, <1>3 DEF Sealed
  <2>. QED
    BY <1>1, <1>2, <2>2
<1>7. HasNone(q) => HasNone(r)
  BY <1>2 DEF HasNone
<1>8. Ends(Head(q), a) /\ Apart(q, a) => Sealed(r, a)
  <2> SUFFICES ASSUME Ends(Head(q), a), Apart(q, a), NEW i \in DOMAIN r, Ends(r[i], a)
               PROVE  \E k \in DOMAIN r : k < i /\ IsNone(r[k])
    BY DEF Sealed
  <2>1. PICK k \in DOMAIN q : 1 < k /\ k < i + 1 /\ IsNone(q[k])
    BY <1>1, <1>3 DEF Apart
  <2>. QED
    BY <1>1, <1>2, <2>1
<1>9. Ends(Head(q), a) /\ Ended(q, a) => HasNone(r)
  BY <1>1, <1>2 DEF Ended, HasNone
<1>. QED
  BY <1>4, <1>5, <1>6, <1>7, <1>8, <1>9 DEF r

LEMMA OnceWorker ==
    ASSUME TypeOK, SilentInv, OnceInv, Worker
    PROVE  OnceInv'
<1>1. UNCHANGED <<pcL, msg, exit, handled>>
  BY WorkerSteps
<1>2. /\ OneFinishPerAuthor'
      /\ pcL' = "process" /\ IsTerminal(msg)' => ~Recorded(msg.from)'
      /\ \A a : Taken(a)' <=> Taken(a)
  BY <1>1 DEF OnceInv, OneFinishPerAuthor, IsTerminal, Recorded, Taken, Ends
<1>3. ASSUME exit = "no", NEW a \in Authors PROVE OnceFor(a)'
  <2>1. pcL # "closed" /\ queue \in Seq(Messages) /\ OnceFor(a)
    BY <1>3 DEF SilentInv, TypeOK, OnceInv
  <2>2. a # "app" => (Pending(a)' <=> Pending(a))
    BY <1>1 DEF Pending
  <2>3. ASSUME NEW m \in WorkerMessages, WorkerPut(m), pcW # "putNone" PROVE OnceFor(a)'
    <3>1. m \in Messages /\ m.from = "app" /\ queue' = Append(queue, m)
      BY <2>1, <2>3 DEF WorkerMessages, WorkerPut, Put
    <3>2. CASE Ends(m, a)
      <4>1. a = "app" /\ ~Pending(a) /\ Pending(a)'
        BY <2>3, <3>1, <3>2 DEF Ends, Pending, WorkerPut
      <4>. QED
        BY <1>2, <2>1, <3>1, <4>1, AppendEnd DEF OnceFor
    <3>3. CASE ~Ends(m, a)
      <4>1. Pending(a)' <=> Pending(a)
        BY <2>2, <2>3, <3>1, <3>3 DEF Ends, Pending, WorkerPut
      <4>. QED
        BY <1>2, <2>1, <3>1, <3>3, <4>1, AppendOther DEF OnceFor
    <3>. QED
      BY <3>2, <3>3
  <2>4. CASE WorkerPutNone
    <3>1. /\ queue' = Append(queue, Plain("None", "app"))
          /\ Plain("None", "app") \in Messages /\ IsNone(Plain("None", "app"))
      BY <2>1, <2>4, MadeMessages DEF WorkerPutNone, Put, OtherTypes, Authors, IsNone, Plain
    <3>. QED
      BY <1>2, <2>1, <3>1, AppendOther, AppendNone DEF OnceFor
  <2>5. CASE queue' = queue /\ pcW' # "putNone" /\ pcW # "putNone"
    <3>1. Pending(a)' <=> Pending(a)
      BY <2>2, <2>5 DEF Pending
    <3>. QED
      BY <1>2, <2>1, <2>5, <3>1 DEF OnceFor, Apart, Ended, Sealed, HasNone
  <2>. QED
    BY <2>3, <2>4, <2>5, WorkerSteps
<1>. QED
  BY <1>1, <1>2, <1>3 DEF OnceInv

\* A step of the listener that leaves the loop, or has left it, keeps OnceInv if
\* it records nothing.
LEMMA OnceLeft ==
    ASSUME OnceInv, exit' # "no", pcL' # "process", handled' = handled
    PROVE  OnceInv'
BY DEF OnceInv, OneFinishPerAuthor

LEMMA OnceRecord ==
    ASSUME TypeOK, TypeOK', SilentInv, OnceInv, NEW leaving, Record(leaving)
    PROVE  OnceInv'
<1>1. pcL = "process" /\ pcL' = "finally" /\ exit = "no" /\ queue' = queue /\ pcW' = pcW
  BY DEF Record, SilentInv, workerVars
<1>2. msg \in Messages /\ handled \in Seq(Messages)
  BY DEF TypeOK
<1>3. CASE msg.type \in FinishTypes
  <2>1. handled' = Append(handled, msg) /\ ~Recorded(msg.from)
    BY <1>1, <1>3 DEF Record, OnceInv, IsTerminal, TerminalTypes
  <2>2. OneFinishPerAuthor'
    BY <1>2, <2>1 DEF OnceInv, OneFinishPerAuthor, Recorded
  <2>3. \A a \in Authors : Taken(a)' => Taken(a)
    <3> SUFFICES ASSUME NEW a \in Authors, Recorded(a)' PROVE Recorded(a) \/ msg.from = a
      BY <1>1, <1>3 DEF Taken, Ends, IsTerminal, TerminalTypes
    <3>. QED
      BY <1>2, <2>1 DEF Recorded
  <2>4. \A a \in Authors : Pending(a)' <=> Pending(a)
    BY <1>1 DEF Pending
  <2>. QED
    BY <1>1, <2>2, <2>3, <2>4 DEF OnceInv, OnceFor, Apart, Ended, Sealed, HasNone
<1>4. CASE msg.type \notin FinishTypes
  <2>1. handled' = handled
    BY <1>4 DEF Record
  <2>2. \A a \in Authors : (Taken(a)' => Taken(a)) /\ (Pending(a)' <=> Pending(a))
    BY <1>1, <2>1 DEF Pending, Taken, Recorded
  <2>3. OneFinishPerAuthor'
    BY <2>1 DEF OnceInv, OneFinishPerAuthor
  <2>. QED
    BY <1>1, <2>2, <2>3 DEF OnceInv, OnceFor, Apart, Ended, Sealed, HasNone
<1>. QED
  BY <1>3, <1>4

\* The end of a turn in which q was in the queue.
LEMMA OnceTurn ==
    ASSUME TypeOK, OnceInv, NEW q \in Seq(Messages), EndTurn(q),
           UNCHANGED <<exit, msg, pcW, handled>>,
           pcL \in {"finally", "stopNone"},
           exit = "no" => \A a \in Authors :
              /\ Apart(q, a)
              /\ a = "pipeline" \/ pcW # "putNone" => Ended(q, a)
              /\ Taken(a) => Sealed(q, a)
              /\ Taken(a) /\ (a = "pipeline" \/ pcW # "putNone") => HasNone(q)
    PROVE  OnceInv'
<1>1. CASE exit # "no"
  BY <1>1, OnceLeft DEF EndTurn
<1>2. CASE exit = "no"
  <2>1. pcL' = "get"
    BY <1>2 DEF EndTurn
  <2>2. /\ OneFinishPerAuthor'
        /\ \A a \in Authors : Taken(a)' => Taken(a)
    BY <2>1 DEF OnceInv, OneFinishPerAuthor, Taken, Recorded
  <2>3. \A a \in Authors : Pending(a)' <=> a = "app" /\ pcW = "putNone"
    BY <2>1 DEF Pending
  <2>4. CASE queue' = q
    <3>1. \A a \in Authors : OnceFor(a)'
      BY <1>2, <2>2, <2>3, <2>4 DEF OnceFor, Authors
    <3>. QED
      BY <2>1, <2>2, <3>1 DEF OnceInv
  <2>5. CASE queue' = Append(q, Plain("Ping", "pipeline"))
    <3>1. /\ Plain("Ping", "pipeline") \in Messages
          /\ \A a : ~Ends(Plain("Ping", "pipeline"), a)
      BY MadeMessages DEF OtherTypes, Authors, Ends, IsTerminal, Plain, TerminalTypes, FinishTypes
    <3>2. \A a \in Authors : OnceFor(a)'
      <4> SUFFICES ASSUME NEW a \in Authors PROVE OnceFor(a)'
        OBVIOUS
      <4>1. /\ Apart(queue', a)
            /\ a = "pipeline" \/ pcW # "putNone" => Ended(queue', a)
            /\ Taken(a) => Sealed(queue', a)
            /\ Taken(a) /\ (a = "pipeline" \/ pcW # "putNone") => HasNone(queue')
        BY <1>2, <2>5, <3>1, AppendOther
      <4>. QED
        BY <2>2, <2>3, <4>1 DEF OnceFor, Authors
    <3>. QED
      BY <2>1, <2>2, <3>2 DEF OnceInv
  <2>. QED
    BY <1>2, <2>4, <2>5, EndTurnCases
<1>. QED
  BY <1>1, <1>2

LEMMA OnceListener ==
    ASSUME TypeOK, TypeOK', SilentInv, OnceInv, Listener
    PROVE  OnceInv'
<1> USE DEF workerVars, dbVars
<1>1. CASE ListenGet
  <2>1. exit = "no" /\ queue \in Seq(Messages) /\ queue # <<>> /\ pcL = "get"
    BY <1>1 DEF ListenGet, SilentInv, TypeOK
  <2>2. CASE IsNone(Head(queue))
    BY <1>1, <2>2, OnceLeft DEF ListenGet
  <2>3. CASE ~IsNone(Head(queue))
    <3>1. /\ queue' = Tail(queue) /\ msg' = Head(queue) /\ pcL' = "process" /\ exit' = exit
          /\ pcW' = pcW /\ handled' = handled
      BY <1>1, <2>3 DEF ListenGet
    <3>2. OneFinishPerAuthor'
      BY <3>1 DEF OnceInv, OneFinishPerAuthor
    <3>3. \A a \in Authors : OnceFor(a)'
      <4> SUFFICES ASSUME NEW a \in Authors PROVE OnceFor(a)'
        OBVIOUS
      <4>1. OnceFor(a)
        BY <2>1 DEF OnceInv
      <4>2. Taken(a)' <=> Taken(a) \/ Ends(Head(queue), a)
        BY <2>1, <3>1 DEF Taken, Recorded, Ends, IsTerminal
      <4>3. Pending(a)' <=> Pending(a)
        BY <2>1, <3>1 DEF Pending
      <4>. QED
        BY <2>1, <2>3, <3>1, <4>1, <4>2, <4>3, TailApart DEF OnceFor
    <3>4. (IsTerminal(msg) => ~Recorded(msg.from))'
      <4> SUFFICES ASSUME IsTerminal(Head(queue)), Recorded(Head(queue).from) PROVE FALSE
        BY <3>1 DEF Recorded, IsTerminal
      <4>1. Head(queue) \in Messages
        BY <2>1
      <4> DEFINE a == Head(queue).from
      <4>2. a \in Authors
        BY <4>1, MessageFacts
      <4>3. Sealed(queue, a) /\ Ends(Head(queue), a)
        BY <2>1, <4>2 DEF OnceInv, OnceFor, Taken, Ends
      <4>. QED
        BY <2>1, <2>3, <4>3, TailApart
    <3>. QED
      BY <3>1, <3>2, <3>3, <3>4 DEF OnceInv
  <2>. QED
    BY <2>2, <2>3
<1>2. CASE ListenEmpty
  <2>1. \A a \in Authors : (Taken(a)' => Taken(a)) /\ (Pending(a)' <=> Pending(a))
    BY <1>2 DEF ListenEmpty, Taken, Recorded, Pending
  <2>. QED
    BY <1>2, <2>1
    DEF ListenEmpty, OnceInv, OnceFor, OneFinishPerAuthor, Apart, Ended, Sealed, HasNone
<1>3. CASE ProcessRaises
  BY <1>3, OnceLeft DEF ProcessRaises
<1>4. CASE ProcessError
  BY <1>4, OnceLeft DEF ProcessError
<1>5. CASE ProcessEvent
  BY <1>5, OnceRecord DEF ProcessEvent
<1>6. CASE ClientDisconnect
  BY <1>6, OnceRecord DEF ClientDisconnect
<1>7. CASE ListenCheckStop
  <2>1. CASE exit # "no"
    BY <1>7, <2>1, OnceLeft DEF ListenCheckStop
  <2>2. CASE exit = "no"
    <3> DEFINE m == Plain("Stop", "pipeline")
    <3>1. m \in Messages /\ m.from = "pipeline" /\ queue \in Seq(Messages)
      BY MadeMessages DEF TerminalTypes, FinishTypes, Authors, TypeOK, Plain
    <3>2. queue' = Append(queue, m) /\ pcL' = "stopNone" /\ pcL = "finally" /\ pcW' = pcW
          /\ handled' = handled
      BY <1>7 DEF ListenCheckStop
    <3>. HIDE DEF m
    <3>3. OneFinishPerAuthor'
      BY <3>2 DEF OnceInv, OneFinishPerAuthor
    <3>4. \A a \in Authors : OnceFor(a)'
      <4> SUFFICES ASSUME NEW a \in Authors PROVE OnceFor(a)'
        OBVIOUS
      <4>1. OnceFor(a)
        BY <2>2 DEF OnceInv
      <4>2. Taken(a)' <=> Taken(a)
        BY <3>2 DEF Taken, Recorded
      <4>3. CASE a = "pipeline"
        <5>1. ~Pending(a) /\ Pending(a)'
          BY <3>2, <4>3 DEF Pending
        <5>. QED
          BY <3>1, <3>2, <4>1, <4>2, <5>1, AppendEnd DEF OnceFor
      <4>4. CASE a = "app"
        <5>1. (Pending(a)' <=> Pending(a)) /\ ~Ends(m, a)
          BY <3>1, <3>2, <4>4 DEF Pending, Ends
        <5>. QED
          BY <3>1, <3>2, <4>1, <4>2, <5>1, AppendOther DEF OnceFor
      <4>. QED
        BY <4>3, <4>4 DEF Authors
    <3>. QED
      BY <3>2, <3>3, <3>4 DEF OnceInv
  <2>. QED
    BY <2>1, <2>2
<1>8. CASE ListenPutNone
  <2> DEFINE m == Plain("None", "pipeline")
             q == Append(queue, m)
  <2>1. m \in Messages /\ IsNone(m) /\ queue \in Seq(Messages)
    BY MadeMessages DEF OtherTypes, Authors, TypeOK, Plain, IsNone
  <2>2. EndTurn(q) /\ pcL = "stopNone" /\ UNCHANGED <<exit, msg, pcW, handled>>
    BY <1>8 DEF ListenPutNone
  <2>. HIDE DEF m
  <2>3. q \in Seq(Messages)
    BY <2>1
  <2>4. ASSUME exit = "no", NEW a \in Authors
        PROVE  Apart(q, a) /\ Ended(q, a) /\ (Taken(a) => Sealed(q, a)) /\ HasNone(q)
    <3>1. OnceFor(a)
      BY <2>4 DEF OnceInv
    <3>. QED
      BY <2>1, <3>1, AppendOther, AppendNone DEF OnceFor
  <2>. HIDE DEF q
  <2>. QED
    BY <2>2, <2>3, <2>4, OnceTurn
<1>9. CASE ListenGoOn
  <2>1. EndTurn(queue) /\ pcL = "finally" /\ UNCHANGED <<exit, msg, pcW, handled>>
        /\ queue \in Seq(Messages)
    BY <1>9 DEF ListenGoOn, TypeOK
  <2>2. ASSUME exit = "no", NEW a \in Authors
        PROVE  /\ Apart(queue, a)
               /\ a = "pipeline" \/ pcW # "putNone" => Ended(queue, a)
               /\ Taken(a) => Sealed(queue, a)
               /\ Taken(a) /\ (a = "pipeline" \/ pcW # "putNone") => HasNone(queue)
    BY <2>1, <2>2 DEF OnceInv, OnceFor, Pending, Authors
  <2>. QED
    BY <2>1, <2>2, OnceTurn
<1>10. CASE ListenCheckFails
  <2>1. exit' # "no" /\ pcL' # "process" /\ handled' = handled
    BY <1>10 DEF ListenCheckFails
  <2>. QED
    BY <2>1, OnceLeft
<1>. QED
  BY <1>1, <1>2, <1>3, <1>4, <1>5, <1>6, <1>7, <1>8, <1>9, <1>10 DEF Listener, ListenerStep

LEMMA OnceCorrect == Spec => []OnceInv
<1>1. Init => OnceInv
  BY DEF Init, OnceInv, OnceFor, OneFinishPerAuthor, Taken, Recorded, Apart, Ended, Sealed
<1>2. TypeOK /\ TypeOK' /\ SilentInv /\ OnceInv /\ [Next]_vars => OnceInv'
  <2> SUFFICES ASSUME TypeOK, TypeOK', SilentInv, OnceInv, [Next]_vars PROVE OnceInv'
    OBVIOUS
  <2>1. CASE UNCHANGED <<queue, pcW, pcL, msg, exit, handled>>
    <3>1. \A a : (Taken(a)' <=> Taken(a)) /\ (Pending(a)' <=> Pending(a))
      BY <2>1 DEF Taken, Recorded, Pending, Ends, IsTerminal
    <3>. QED
      BY <2>1, <3>1 DEF OnceInv, OnceFor, OneFinishPerAuthor, Recorded, IsTerminal,
                       Apart, Ended, Sealed, HasNone
  <2>2. CASE Environment
    BY <2>1, <2>2 DEF Environment, SetStopFlag, StopFlagExpires, BelongExpires, ListenTimeout,
                      workerVars, listenerVars, dbVars
  <2>3. CASE UNCHANGED vars
    BY <2>1, <2>3 DEF vars, workerVars, listenerVars, dbVars
  <2>. QED
    BY <2>2, <2>3, OnceWorker, OnceListener DEF Next
<1>. QED
  BY <1>1, <1>2, TypeCorrect, SilentCorrect, PTL DEF Spec

\* Neither the worker nor the listener finishes a run twice.
THEOREM FinishedOnce == Spec => []OneFinishPerAuthor
<1>1. OnceInv => OneFinishPerAuthor
  BY DEF OnceInv
<1>. QED
  BY <1>1, OnceCorrect, PTL
-----------------------------------------------------------------------------
(***************************************************************************)
(* The record of a run implements RunRecord: it is created by the one event *)
(* the worker starts with, and finished once by either author, the listener *)
(* with a stop and the worker with anything else.                           *)
(***************************************************************************)

\* Only the listener publishes a stop, and it publishes no other result.
Honest(m) == m.type \in FinishTypes => (m.type = "Stop" <=> m.from = "pipeline")

Starts(m) == m.type = "Started"

RecordInv ==
    /\ Honest(msg) /\ \A i \in DOMAIN queue : Honest(queue[i])
    /\ lastPub = "nothing" => run = "none"
    /\ Starts(msg) => run = "none" /\ lastPub # "nothing"
    /\ \A i \in DOMAIN queue :
          Starts(queue[i]) => run = "none" /\ ~Starts(msg) /\ lastPub # "nothing"
    /\ \A i, j \in DOMAIN queue : Starts(queue[i]) /\ Starts(queue[j]) => i = j

\* What a publish of the worker leaves in the queue.
LEMMA RecordPut ==
    ASSUME TypeOK, TypeOK', RecordInv, NEW m \in WorkerMessages, WorkerPut(m),
           Honest(m), Starts(m) => lastPub = "nothing" /\ run = "none" /\ ~Starts(msg)
    PROVE  RecordInv'
<1>1. queue \in Seq(Messages) /\ m \in Messages /\ (queue' = queue \/ queue' = Append(queue, m))
  BY DEF WorkerPut, Put, TypeOK, WorkerMessages
<1>2. UNCHANGED <<msg, run>> /\ lastPub' # "nothing"
  BY <1>1, MessageFacts
  DEF WorkerPut, listenerVars, dbVars, NodeTypes, TerminalTypes, FinishTypes, OtherTypes
<1>3. CASE queue' = queue
  BY <1>2, <1>3 DEF RecordInv, Honest, Starts
<1>4. CASE queue' = Append(queue, m)
  <2>1. /\ DOMAIN queue' = 1..(Len(queue) + 1) /\ DOMAIN queue = 1..Len(queue) /\ Len(queue) \in Nat
        /\ queue'[Len(queue) + 1] = m
        /\ \A i \in 1..Len(queue) : queue'[i] = queue[i]
    BY <1>1, <1>4
  <2>2. (\A i \in DOMAIN queue : Honest(queue[i]))'
    BY <2>1 DEF RecordInv, Honest
  <2>3. (\A i \in DOMAIN queue :
            Starts(queue[i]) => run = "none" /\ ~Starts(msg) /\ lastPub # "nothing")'
    BY <1>2, <2>1 DEF RecordInv, Starts
  <2>4. (\A i, j \in DOMAIN queue : Starts(queue[i]) /\ Starts(queue[j]) => i = j)'
    BY <2>1 DEF RecordInv, Starts
  <2>5. Honest(msg)' /\ (Starts(msg) => run = "none" /\ lastPub # "nothing")'
    BY <1>2 DEF RecordInv, Honest, Starts
  <2>. QED
    BY <1>2, <2>2, <2>3, <2>4, <2>5 DEF RecordInv
<1>. QED
  BY <1>1, <1>3, <1>4

\* The other steps put only a sentinel, a ping or a stop of the listener, or
\* take from the queue.
LEMMA RecordRest ==
    ASSUME TypeOK, RecordInv, UNCHANGED <<run, lastPub>>, NEW m \in Messages,
           ~Starts(m), Honest(m), msg' = msg \/ msg' = NoMessage,
           NEW q, q = queue \/ q = Append(queue, m) \/ q = <<>>, queue' = q
    PROVE  RecordInv'
<1>1. queue \in Seq(Messages)
  BY DEF TypeOK
<1>2. Honest(NoMessage) /\ ~Starts(NoMessage)
  BY DEF Honest, Starts, NoMessage, Plain, FinishTypes
<1>3. Honest(msg)' /\ (Starts(msg)' => Starts(msg))
  BY <1>2 DEF RecordInv, Honest, Starts
<1>4. CASE q = queue
  BY <1>3, <1>4 DEF RecordInv, Honest, Starts
<1>5. CASE q = <<>>
  BY <1>3, <1>5 DEF RecordInv
<1>6. CASE q = Append(queue, m)
  <2>1. /\ DOMAIN q = 1..(Len(queue) + 1) /\ DOMAIN queue = 1..Len(queue) /\ Len(queue) \in Nat
        /\ q[Len(queue) + 1] = m
        /\ \A i \in 1..Len(queue) : q[i] = queue[i]
    BY <1>1, <1>6
  <2>2. (\A i \in DOMAIN queue : Honest(queue[i]))'
    BY <2>1 DEF RecordInv, Honest
  <2>3. \A i \in DOMAIN q : Starts(q[i]) => i \in DOMAIN queue /\ Starts(queue[i])
    BY <2>1 DEF Starts
  <2>. HIDE <1>6
  <2>4. (\A i \in DOMAIN queue :
            Starts(queue[i]) => run = "none" /\ ~Starts(msg) /\ lastPub # "nothing")'
    BY <1>3, <2>3 DEF RecordInv
  <2>5. (\A i, j \in DOMAIN queue : Starts(queue[i]) /\ Starts(queue[j]) => i = j)'
    BY <2>3 DEF RecordInv
  <2>. QED
    BY <1>3, <2>2, <2>4, <2>5 DEF RecordInv
<1>. QED
  BY <1>4, <1>5, <1>6

LEMMA RecordWorker ==
    ASSUME TypeOK, TypeOK', RecordInv, Worker
    PROVE  RecordInv'
<1>1. ASSUME NEW t \in (TerminalTypes \cup OtherTypes) \ {"None", "Stop", "Started"},
             WorkerPut(Plain(t, "app"))
      PROVE  RecordInv'
  <2>1. Plain(t, "app") \in WorkerMessages
    BY WorkerMakes
  <2>2. Honest(Plain(t, "app")) /\ ~Starts(Plain(t, "app"))
    BY DEF Plain, Honest, Starts
  <2>. QED
    BY <1>1, <2>1, <2>2, RecordPut
<1>2. ASSUME NEW t \in NodeTypes, NEW n \in Nodes, WorkerPut(NodeEvent(t, n)) PROVE RecordInv'
  <2>1. NodeEvent(t, n) \in WorkerMessages
    BY WorkerMakes
  <2>2. Honest(NodeEvent(t, n)) /\ ~Starts(NodeEvent(t, n))
    BY DEF NodeEvent, Honest, Starts, NodeTypes, FinishTypes
  <2>. QED
    BY <1>2, <2>1, <2>2, RecordPut
<1>3. CASE WorkerStart
  <2>1. Plain("Started", "app") \in WorkerMessages /\ Honest(Plain("Started", "app"))
    BY WorkerMakes DEF OtherTypes, Honest, Plain, FinishTypes
  <2>2. lastPub = "nothing" /\ run = "none" /\ ~Starts(msg) /\ WorkerPut(Plain("Started", "app"))
    BY <1>3 DEF WorkerStart, RecordInv
  <2>. QED
    BY <2>1, <2>2, RecordPut
<1>4. CASE TextChunk
  BY <1>1, <1>4 DEF TextChunk, OtherTypes
<1>5. CASE GraphEnd
  BY <1>1, <1>5 DEF GraphEnd, TerminalTypes, FinishTypes
<1>6. CASE GraphFail
  BY <1>1, <1>6 DEF GraphFail, TerminalTypes, FinishTypes
<1>7. CASE WorkerPublishError
  BY <1>1, <1>7 DEF WorkerPublishError, TerminalTypes
<1>8. CASE WorkerPutNone
  <2>1. /\ Plain("None", "app") \in Messages /\ Honest(Plain("None", "app"))
        /\ ~Starts(Plain("None", "app"))
    BY MadeMessages DEF OtherTypes, Authors, Honest, Starts, Plain, FinishTypes
  <2>2. /\ UNCHANGED <<run, lastPub, msg>>
        /\ queue' = queue \/ queue' = Append(queue, Plain("None", "app"))
    BY <1>8 DEF WorkerPutNone, Put, listenerVars, dbVars
  <2>. QED
    BY <2>1, <2>2, RecordRest
<1>9. CASE SetupError \/ WorkerCheckStop \/ WorkerCheckFails
  BY <1>9 DEF SetupError, WorkerCheckStop, WorkerCheckFails, listenerVars, dbVars,
             RecordInv, Honest, Starts
<1>10. ASSUME NEW n \in Nodes, NodeStart(n) PROVE RecordInv'
  BY <1>2, <1>10 DEF NodeStart, NodeTypes
<1>11. ASSUME NEW n \in Nodes, NEW t \in NodeTypes \ {"NodeStarted"}, NodeFinish(n, t)
       PROVE  RecordInv'
  BY <1>2, <1>11 DEF NodeFinish
<1>. QED
  BY <1>3, <1>4, <1>5, <1>6, <1>7, <1>8, <1>9, <1>10, <1>11 DEF Worker

LEMMA RecordListener ==
    ASSUME TypeOK, TypeOK', RecordInv, Listener
    PROVE  RecordInv'
<1> USE DEF workerVars, dbVars
<1>1. \A t \in {"Stop", "None", "Ping"} :
          /\ Plain(t, "pipeline") \in Messages
          /\ Honest(Plain(t, "pipeline")) /\ ~Starts(Plain(t, "pipeline"))
  <2>1. \A t \in {"Stop", "None", "Ping"} : Plain(t, "pipeline") \in Messages
    BY MadeMessages DEF TerminalTypes, FinishTypes, OtherTypes, Authors
  <2>2. \A t \in {"Stop", "None", "Ping"} :
          Honest(Plain(t, "pipeline")) /\ ~Starts(Plain(t, "pipeline"))
    BY DEF Plain, Honest, Starts, FinishTypes
  <2>. QED
    BY <2>1, <2>2
<1>2. ASSUME UNCHANGED <<run, lastPub>>, msg' = msg \/ msg' = NoMessage, NEW t \in {"Stop", "None", "Ping"},
             queue' = queue \/ queue' = Append(queue, Plain(t, "pipeline")) \/ queue' = <<>>
      PROVE  RecordInv'
  BY <1>1, <1>2, RecordRest
<1>3. CASE ListenGet
  <2>1. queue \in Seq(Messages) /\ queue # <<>> /\ queue' = Tail(queue) /\ UNCHANGED <<run, lastPub>>
        /\ (msg' = msg \/ msg' = Head(queue))
    BY <1>3 DEF ListenGet, TypeOK
  <2> DEFINE q == queue
             r == queue'
  <2>2. /\ DOMAIN q = 1..Len(q) /\ DOMAIN r = 1..(Len(q) - 1) /\ Len(q) \in Nat \ {0}
        /\ Head(q) = q[1]
        /\ \A i \in 1..(Len(q) - 1) : r[i] = q[i + 1]
    BY <2>1
  <2>3. /\ Honest(msg)' /\ (\A i \in DOMAIN queue : Honest(queue[i]))'
    BY <2>1, <2>2 DEF RecordInv, Honest
  <2>4. (lastPub = "nothing" => run = "none")'
        /\ (Starts(msg) => run = "none" /\ lastPub # "nothing")'
    BY <2>1, <2>2 DEF RecordInv, Starts
  <2>5. (\A i \in DOMAIN queue :
            Starts(queue[i]) => run = "none" /\ ~Starts(msg) /\ lastPub # "nothing")'
    BY <2>1, <2>2 DEF RecordInv, Starts
  <2>6. (\A i, j \in DOMAIN queue : Starts(queue[i]) /\ Starts(queue[j]) => i = j)'
    <3> SUFFICES ASSUME NEW i \in DOMAIN r, NEW j \in DOMAIN r, Starts(r[i]), Starts(r[j])
                 PROVE  i = j
      BY DEF Starts
    <3>1. i + 1 \in DOMAIN q /\ j + 1 \in DOMAIN q /\ Starts(q[i + 1]) /\ Starts(q[j + 1])
      BY <2>2
    <3>2. i + 1 = j + 1
      BY <3>1 DEF RecordInv
    <3>. QED
      BY <2>2, <3>2
  <2>. QED
    BY <2>3, <2>4, <2>5, <2>6 DEF RecordInv
<1>4. CASE ListenEmpty
  BY <1>2, <1>4 DEF ListenEmpty
<1>5. CASE ProcessRaises
  BY <1>2, <1>5 DEF ProcessRaises
<1>6. CASE ProcessError
  BY <1>2, <1>6 DEF ProcessError
<1>7. ASSUME NEW leaving, Record(leaving) PROVE RecordInv'
  <2>1. queue' = queue /\ lastPub' = lastPub /\ msg' = NoMessage
    BY <1>7 DEF Record
  <2>2. CASE Starts(msg)
    <3>1. ~Starts(NoMessage) /\ Honest(NoMessage)
      BY DEF Starts, Honest, NoMessage, Plain, FinishTypes
    <3>2. \A i \in DOMAIN queue : ~Starts(queue[i])
      BY <2>2 DEF RecordInv
    <3>. QED
      BY <2>1, <2>2, <3>1, <3>2 DEF RecordInv, Honest, Starts
  <2>3. CASE ~Starts(msg)
    <3>1. ~Starts(NoMessage) /\ Honest(NoMessage)
      BY DEF Starts, Honest, NoMessage, Plain, FinishTypes
    <3>2. run = "none" => run' = "none"
      BY <1>7, <2>3 DEF Record, Starts, NeedsRun
    <3>. QED
      BY <2>1, <3>1, <3>2 DEF RecordInv, Honest, Starts
  <2>. QED
    BY <2>2, <2>3
<1>8. CASE ProcessEvent \/ ClientDisconnect
  BY <1>7, <1>8 DEF ProcessEvent, ClientDisconnect
<1>9. CASE ListenCheckStop
  BY <1>2, <1>9 DEF ListenCheckStop
<1>10. CASE ListenGoOn
  BY <1>2, <1>10, EndTurnCases DEF ListenGoOn
<1>11. CASE ListenPutNone
  <2> DEFINE q == Append(queue, Plain("None", "pipeline"))
  <2>1. EndTurn(q) /\ UNCHANGED <<run, lastPub, msg>> /\ queue \in Seq(Messages)
    BY <1>11 DEF ListenPutNone, TypeOK
  <2>2. queue' = q \/ queue' = Append(q, Plain("Ping", "pipeline")) \/ queue' = <<>>
    BY <2>1, EndTurnCases
  <2>3. queue' # Append(q, Plain("Ping", "pipeline")) => RecordInv'
    BY <1>2, <2>1, <2>2
  <2>4. CASE queue' = Append(q, Plain("Ping", "pipeline"))
    <3> DEFINE x == Plain("None", "pipeline")
               y == Plain("Ping", "pipeline")
    <3>1. Honest(x) /\ Honest(y) /\ ~Starts(x) /\ ~Starts(y) /\ x \in Messages /\ y \in Messages
      BY <1>1
    <3>2. queue' = Append(Append(queue, x), y)
      BY <2>4
    <3>. HIDE DEF x, y
    <3>3. /\ DOMAIN queue' = 1..(Len(queue) + 2) /\ DOMAIN queue = 1..Len(queue) /\ Len(queue) \in Nat
          /\ queue'[Len(queue) + 1] = x /\ queue'[Len(queue) + 2] = y
          /\ \A i \in 1..Len(queue) : queue'[i] = queue[i]
      BY <2>1, <3>1, <3>2
    <3>4. \A i \in DOMAIN queue' : Starts(queue'[i]) => i \in DOMAIN queue /\ Starts(queue[i])
      BY <3>1, <3>3
    <3>5. \A i \in DOMAIN queue' : Honest(queue'[i])
      BY <3>1, <3>3 DEF RecordInv
    <3>6. (\A i \in DOMAIN queue : Honest(queue[i]))'
      BY <3>5 DEF Honest
    <3>7. \A i \in DOMAIN queue' : Starts(queue[i])' => i \in DOMAIN queue /\ Starts(queue[i])
      BY <3>4 DEF Starts
    <3>8. Honest(msg)' /\ (Starts(msg)' <=> Starts(msg))
      BY <2>1 DEF RecordInv, Honest, Starts
    <3>. QED
      BY <2>1, <3>6, <3>7, <3>8 DEF RecordInv
  <2>. QED
    BY <2>3, <2>4
<1>12. CASE ListenCheckFails
  BY <1>2, <1>12 DEF ListenCheckFails
<1>. QED
  BY <1>3, <1>4, <1>5, <1>6, <1>8, <1>9, <1>10, <1>11, <1>12 DEF Listener, ListenerStep

LEMMA RecordCorrect == Spec => []RecordInv
<1>1. Init => RecordInv
  BY DEF Init, RecordInv, Honest, Starts, NoMessage, Plain, FinishTypes
<1>2. TypeOK /\ TypeOK' /\ RecordInv /\ [Next]_vars => RecordInv'
  <2> SUFFICES ASSUME TypeOK, TypeOK', RecordInv, [Next]_vars PROVE RecordInv'
    OBVIOUS
  <2>1. CASE UNCHANGED <<queue, msg, run, lastPub>>
    BY <2>1 DEF RecordInv, Honest, Starts
  <2>2. CASE Environment
    BY <2>1, <2>2 DEF Environment, SetStopFlag, StopFlagExpires, BelongExpires, ListenTimeout,
                      workerVars, listenerVars, dbVars
  <2>3. CASE UNCHANGED vars
    BY <2>1, <2>3 DEF vars, workerVars, listenerVars, dbVars
  <2>. QED
    BY <2>2, <2>3, RecordWorker, RecordListener DEF Next
<1>. QED
  BY <1>1, <1>2, TypeCorrect, PTL DEF Spec

\* An event that is recorded creates the run, finishes it, or leaves it.
LEMMA RecordMaps ==
    ASSUME TypeOK, OnceInv, RecordInv, NEW leaving, Record(leaving)
    PROVE  RunRow!Next \/ UNCHANGED <<run, FinishedBy>>
<1>1. pcL = "process" /\ msg \in Messages /\ handled \in Seq(Messages)
  BY DEF Record, TypeOK
<1>2. CASE Starts(msg)
  <2>1. run = "none" /\ run' = "running" /\ handled' = handled
    BY <1>2 DEF Record, RecordInv, Starts, FinishTypes
  <2>. QED
    BY <2>1 DEF RunRow!Next, RunRow!Create, FinishedBy
<1>3. CASE msg.type \in FinishTypes
  <2>1. run # "none" /\ run' = StatusOf(msg.type) /\ handled' = Append(handled, msg)
    BY <1>3 DEF Record, NeedsRun, FinishTypes
  <2>2. FinishedBy' = FinishedBy \cup {msg.from}
    <3>1. DOMAIN handled' = DOMAIN handled \cup {Len(handled) + 1}
          /\ handled'[Len(handled) + 1] = msg
          /\ \A i \in DOMAIN handled : handled'[i] = handled[i]
      BY <1>1, <2>1
    <3>. QED
      BY <3>1 DEF FinishedBy
  <2>3. msg.from \notin FinishedBy
    BY <1>1, <1>3 DEF OnceInv, Recorded, FinishedBy, IsTerminal, TerminalTypes
  <2>4. msg.from \in Authors
    BY <1>1, MessageFacts
  <2>5. CASE msg.from = "pipeline"
    <3>1. run' = "stopped"
      BY <1>3, <2>1, <2>5 DEF RecordInv, Honest, StatusOf
    <3>. QED
      BY <2>1, <2>2, <2>3, <2>5, <3>1 DEF RunRow!Next, RunRow!ListenerStops
  <2>6. CASE msg.from = "app"
    <3>1. run' \in RunRow!Results
      BY <1>3, <2>1, <2>6 DEF RecordInv, Honest, StatusOf, FinishTypes, RunRow!Results
    <3>. QED
      BY <2>1, <2>2, <2>3, <2>6, <3>1 DEF RunRow!Next, RunRow!WorkerFinishes
  <2>. QED
    BY <2>4, <2>5, <2>6 DEF Authors
<1>4. CASE ~Starts(msg) /\ msg.type \notin FinishTypes
  BY <1>4 DEF Record, Starts, FinishedBy
<1>. QED
  BY <1>2, <1>3, <1>4

\* The record of a run, as the two threads write it, is the one RunRecord
\* describes: created once, then finished at most once by each of the two.
THEOREM RecordRefined == Spec => RecordsOneRun
<1>1. Init => RunRow!Init
  BY DEF Init, RunRow!Init, FinishedBy
<1>2. TypeOK /\ OnceInv /\ RecordInv /\ [Next]_vars => [RunRow!Next]_<<run, FinishedBy>>
  <2> SUFFICES ASSUME TypeOK, OnceInv, RecordInv, [Next]_vars
               PROVE  RunRow!Next \/ UNCHANGED <<run, FinishedBy>>
    OBVIOUS
  <2>1. CASE UNCHANGED <<run, handled>>
    BY <2>1 DEF FinishedBy
  <2>2. CASE Worker
    BY <2>1, <2>2 DEF Worker, WorkerStart, NodeStart, NodeFinish, TextChunk, GraphEnd, GraphFail,
        SetupError, WorkerPublishError, WorkerPutNone, WorkerCheckStop, WorkerCheckFails,
        WorkerPut, dbVars
  <2>3. CASE Environment
    BY <2>1, <2>3 DEF Environment, SetStopFlag, StopFlagExpires, BelongExpires, ListenTimeout,
                      dbVars
  <2>4. CASE ProcessEvent \/ ClientDisconnect
    BY <2>4, RecordMaps DEF ProcessEvent, ClientDisconnect
  <2>5. CASE Listener /\ ~(ProcessEvent \/ ClientDisconnect)
    BY <2>1, <2>5 DEF Listener, ListenerStep, ListenGet, ListenEmpty, ProcessRaises,
        ProcessError, ListenCheckStop, ListenPutNone, ListenGoOn, ListenCheckFails, dbVars
  <2>6. CASE UNCHANGED vars
    BY <2>1, <2>6 DEF vars, dbVars
  <2>. QED
    BY <2>2, <2>3, <2>4, <2>5, <2>6 DEF Next
<1>. QED
  BY <1>1, <1>2, TypeCorrect, OnceCorrect, RecordCorrect, PTL DEF Spec, RecordsOneRun, RunRow!Spec

-----------------------------------------------------------------------------
(***************************************************************************)
(* The rows of the nodes agree with the row of the run.  What the worker    *)
(* knows of a node and what the database says of it differ by the events    *)
(* that are still ahead, in order: of a node there is at most the event of  *)
(* its start and, behind it, the event of its end.  A result is published   *)
(* behind the events of all nodes, and the worker publishes nothing of a    *)
(* node afterwards; so when the result is recorded nothing of a node is     *)
(* ahead, and the rows are what the worker saw when it decided on it.       *)
(* A stop of the listener may be recorded anywhere before, and turns rows   *)
(* that are running into failed ones, which the event of an end repairs.    *)
(***************************************************************************)

\* What the pipeline has before it: the message in hand at place 0, then the queue.
Ahead == [i \in (IF pcL = "process" THEN {0} ELSE {}) \cup DOMAIN queue |->
             IF i = 0 THEN msg ELSE queue[i]]

OfNode(f, n) == {i \in DOMAIN f : f[i].type \in NodeTypes /\ f[i].node = n}

RowOf(t) == CASE t = "NodeSucceeded" -> "succeeded"
              [] t = "NodeException" -> "exception"
              [] t = "NodeFailed"    -> "failed"

\* Node n, of which the worker knows s and whose row says r, while f is ahead.
Follows(f, n, s, r) ==
    /\ \A i \in OfNode(f, n) :
          IF f[i].type = "NodeStarted"
          THEN r = "none" /\ \A j \in OfNode(f, n) : i <= j
          ELSE f[i].type = s /\ \A j \in OfNode(f, n) : j <= i
    /\ s = "fresh" => OfNode(f, n) = {} /\ r = "none"
    /\ s = "open" /\ OfNode(f, n) = {} => r \in {"running", "failed"}
    /\ s \notin {"fresh", "open"} =>
          IF OfNode(f, n) = {} THEN r = RowOf(s)
          ELSE \E i \in OfNode(f, n) : f[i].type = s

Outcomes == {"Succeeded", "PartialSuccess", "Failed"}

\* The worker may still publish events of nodes; it may still start or end nodes.
Working == \/ pcW \in {"run", "failing"}
           \/ pcW = "check" /\ lastPub \notin TerminalTypes
GoingOn == pcW = "run" \/ (pcW = "check" /\ AfterPublish(lastPub) = "run")

\* What the worker knows of its nodes when it publishes an outcome.
Decided(t) ==
    /\ t = "Succeeded" => \A n \in Nodes : nodeRun[n] \in {"fresh", "NodeSucceeded"}
    /\ t = "PartialSuccess" =>
          /\ \A n \in Nodes : nodeRun[n] \in {"fresh", "NodeSucceeded", "NodeException"}
          /\ \E n \in Nodes : nodeRun[n] = "NodeException"

\* An outcome that is ahead is the last that is said of nodes.
OutcomesLast(f) ==
    \A i \in DOMAIN f : f[i].type \in Outcomes =>
        /\ ~Working
        /\ Decided(f[i].type)
        /\ \A j \in DOMAIN f : j > i => f[j].type \notin NodeTypes

\* Of an outcome that is recorded nothing is ahead.
OutcomeRecorded(f) ==
    \A t \in Outcomes : run = StatusOf(t) =>
        /\ ~Working
        /\ Decided(t)
        /\ \A j \in DOMAIN f : f[j].type \notin NodeTypes

WorkerInv ==
    /\ pcW = "putNone" => lastPub \in TerminalTypes
    /\ \A n \in Nodes : nodeRun[n] # "NodeStarted"
    /\ GoingOn => \A n \in Nodes : nodeRun[n] # "NodeFailed"

LinkInv ==
    /\ \A n \in Nodes : Follows(Ahead, n, nodeRun[n], nodeExec[n])
    /\ OutcomesLast(Ahead)
    /\ OutcomeRecorded(Ahead)

AgreeInv ==
    /\ NodesAgreeWithRun
    /\ WorkerInv
    /\ exit = "no" => LinkInv

\* The kinds of messages, as the rows distinguish them.
LEMMA Kinds ==
    ASSUME NEW m \in Messages
    PROVE  /\ m.type \in NodeTypes \/ m.type \in Outcomes \/ m.type = "Stop"
              \/ m.type \in {"Error", "Started", "Chunk", "Ping", "None"}
           /\ m.type \in Outcomes => m.type \notin NodeTypes /\ m.type # "Stop"
           /\ m.type \in NodeTypes <=> m.type \in {"NodeStarted", "NodeSucceeded",
                                                   "NodeException", "NodeFailed"}
BY MessageFacts DEF NodeTypes, TerminalTypes, FinishTypes, OtherTypes, Outcomes

\* What is ahead is a function on integers with messages as values.
LEMMA AheadFacts ==
    ASSUME TypeOK
    PROVE  /\ DOMAIN Ahead = (IF pcL = "process" THEN {0} ELSE {}) \cup DOMAIN queue
           /\ DOMAIN queue = 1..Len(queue) /\ Len(queue) \in Nat
           /\ DOMAIN Ahead \subseteq Int
           /\ \A i \in DOMAIN Ahead : Ahead[i] \in Messages /\ i >= 0
           /\ 0 \in DOMAIN Ahead => pcL = "process" /\ Ahead[0] = msg
           /\ \A i \in DOMAIN queue : Ahead[i] = queue[i]
<1>1. DOMAIN queue = 1..Len(queue) /\ Len(queue) \in Nat
      /\ \A i \in DOMAIN queue : queue[i] \in Messages
  BY DEF TypeOK
<1>2. msg \in Messages
  BY DEF TypeOK
<1>. QED
  BY <1>1, <1>2 DEF Ahead

\* g is f with m behind it; g is f moved up by a place; g is f without its first.
Extended(f, g, m) ==
    \E k \in Int :
        /\ \A i \in DOMAIN f : i < k
        /\ DOMAIN g = DOMAIN f \cup {k}
        /\ g[k] = m
        /\ \A i \in DOMAIN f : g[i] = f[i]
Moved(f, g) ==
    /\ DOMAIN g \subseteq Int
    /\ \A i \in DOMAIN f : i - 1 \in DOMAIN g
    /\ \A i \in DOMAIN g : i + 1 \in DOMAIN f /\ g[i] = f[i + 1]
Shortened(f, g) ==
    /\ 0 \in DOMAIN f /\ \A i \in DOMAIN f : i >= 0
    /\ DOMAIN g = DOMAIN f \ {0}
    /\ \A i \in DOMAIN g : g[i] = f[i]

\* g is f with messages added that say nothing of nodes.
Grows(f, g) ==
    /\ DOMAIN f \subseteq DOMAIN g
    /\ \A i \in DOMAIN f : g[i] = f[i]
    /\ \A i \in DOMAIN g \ DOMAIN f : g[i].type \notin NodeTypes \cup Outcomes

\* What is added about something else changes nothing for a node.
LEMMA FollowsOther ==
    ASSUME NEW f, NEW g, NEW n, NEW s, NEW r, Follows(f, n, s, r),
           \/ Grows(f, g)
           \/ \E m : Extended(f, g, m) /\ ~(m.type \in NodeTypes /\ m.node = n)
    PROVE  Follows(g, n, s, r)
<1>1. OfNode(g, n) = OfNode(f, n) /\ \A i \in OfNode(f, n) : g[i] = f[i]
  BY DEF Extended, Grows, OfNode
<1>. QED
  BY <1>1 DEF Follows

\* The event of the start of a node.
LEMMA FollowsStart ==
    ASSUME NEW f, NEW g, NEW m, NEW n, NEW r, DOMAIN f \subseteq Int,
           Extended(f, g, m), m.type = "NodeStarted", m.node = n,
           Follows(f, n, "fresh", r)
    PROVE  Follows(g, n, "open", r)
<1>1. PICK k \in Int : /\ \A i \in DOMAIN f : i < k
                       /\ DOMAIN g = DOMAIN f \cup {k} /\ g[k] = m
                       /\ \A i \in DOMAIN f : g[i] = f[i]
  BY DEF Extended
<1>2. OfNode(f, n) = {} /\ r = "none"
  BY DEF Follows
<1>3. OfNode(g, n) = {k}
  BY <1>1, <1>2 DEF OfNode, NodeTypes
<1>. QED
  BY <1>1, <1>2, <1>3 DEF Follows

\* The event of its end.
LEMMA FollowsEnd ==
    ASSUME NEW f, NEW g, NEW m, NEW n, NEW r, DOMAIN f \subseteq Int,
           Extended(f, g, m), m.type \in NodeTypes \ {"NodeStarted"}, m.node = n,
           Follows(f, n, "open", r)
    PROVE  Follows(g, n, m.type, r)
<1>1. PICK k \in Int : /\ \A i \in DOMAIN f : i < k
                       /\ DOMAIN g = DOMAIN f \cup {k} /\ g[k] = m
                       /\ \A i \in DOMAIN f : g[i] = f[i]
  BY DEF Extended
<1>2. OfNode(g, n) = OfNode(f, n) \cup {k}
  BY <1>1 DEF OfNode
<1>3. \A i \in OfNode(f, n) : i \in Int /\ i < k /\ f[i].type = "NodeStarted"
  BY <1>1 DEF Follows, OfNode, NodeTypes
<1>4. \A i \in OfNode(f, n) : r = "none" /\ \A j \in OfNode(f, n) : i <= j
  BY <1>3 DEF Follows
<1>5. \A i \in OfNode(f, n) : g[i] = f[i]
  BY <1>1 DEF OfNode
<1>6. m.type \notin {"fresh", "open", "NodeStarted"} /\ k \notin OfNode(f, n)
  BY <1>3 DEF NodeTypes
<1>. QED
  BY <1>1, <1>2, <1>3, <1>4, <1>5, <1>6 DEF Follows

\* The next message is taken in hand: the same messages, a place further up.
LEMMA FollowsMoved ==
    ASSUME NEW f, NEW g, NEW n, NEW s, NEW r, DOMAIN f \subseteq Int, Moved(f, g),
           Follows(f, n, s, r)
    PROVE  Follows(g, n, s, r)
<1>1. \A i \in OfNode(g, n) : i \in Int /\ i + 1 \in OfNode(f, n) /\ g[i] = f[i + 1]
  BY DEF Moved, OfNode
<1>2. \A i \in OfNode(f, n) : i \in Int /\ i - 1 \in OfNode(g, n) /\ g[i - 1] = f[i]
  BY DEF Moved, OfNode
<1>3. OfNode(g, n) = {} <=> OfNode(f, n) = {}
  BY <1>1, <1>2
<1>4. \A i \in OfNode(g, n) :
          IF g[i].type = "NodeStarted"
          THEN r = "none" /\ \A j \in OfNode(g, n) : i <= j
          ELSE g[i].type = s /\ \A j \in OfNode(g, n) : j <= i
  <2> SUFFICES ASSUME NEW i \in OfNode(g, n)
               PROVE  IF g[i].type = "NodeStarted"
                      THEN r = "none" /\ \A j \in OfNode(g, n) : i <= j
                      ELSE g[i].type = s /\ \A j \in OfNode(g, n) : j <= i
    OBVIOUS
  <2>1. IF f[i + 1].type = "NodeStarted"
        THEN r = "none" /\ \A j \in OfNode(f, n) : i + 1 <= j
        ELSE f[i + 1].type = s /\ \A j \in OfNode(f, n) : j <= i + 1
    BY <1>1 DEF Follows
  <2>. QED
    BY <1>1, <2>1
<1>5. s \notin {"fresh", "open"} =>
          IF OfNode(g, n) = {} THEN r = RowOf(s) ELSE \E i \in OfNode(g, n) : g[i].type = s
  <2>1. (\E i \in OfNode(f, n) : f[i].type = s) => \E i \in OfNode(g, n) : g[i].type = s
    BY <1>2
  <2>. QED
    BY <1>3, <2>1 DEF Follows
<1>. QED
  BY <1>3, <1>4, <1>5 DEF Follows

\* What a message does to the row of a node, by what it is.
RowAfter(m, n, r) ==
    CASE m.type \in NodeTypes /\ m.node = n ->
            IF m.type = "NodeStarted" THEN "running" ELSE RowOf(m.type)
      [] m.type \in {"Failed", "Stop"} -> IF r = "running" THEN "failed" ELSE r
      [] OTHER -> r

LEMMA RowAfterIs ==
    ASSUME TypeOK, NEW m \in Messages, NEW n \in Nodes
    PROVE  NodeExecAfter(m)[n] = RowAfter(m, n, nodeExec[n])
<1>1. nodeExec \in [Nodes -> NodeStatuses] /\ (m.type \in NodeTypes => m.node \in Nodes)
  BY MessageFacts DEF TypeOK
<1>2. CASE m.type \in NodeTypes
  <2>1. m.type \notin {"Failed", "Stop"}
    BY <1>2 DEF NodeTypes
  <2>2. m.type \in {"NodeStarted", "NodeSucceeded", "NodeException", "NodeFailed"}
    BY <1>2 DEF NodeTypes
  <2>. QED
    BY <1>1, <1>2, <2>1, <2>2 DEF NodeExecAfter, RowAfter, RowOf
<1>3. CASE m.type \in {"Failed", "Stop"}
  BY <1>1, <1>3 DEF NodeExecAfter, RowAfter, NodeTypes
<1>4. CASE m.type \notin NodeTypes \cup {"Failed", "Stop"}
  BY <1>4 DEF NodeExecAfter, RowAfter, NodeTypes
<1>. QED
  BY <1>2, <1>3, <1>4

\* A message is recorded: the row goes along with what is ahead.
LEMMA FollowsRecord ==
    ASSUME NEW f, NEW g, NEW n, NEW r, DOMAIN f \subseteq Int,
           Shortened(f, g), NEW s \in ({"fresh", "open"} \cup NodeTypes) \ {"NodeStarted"},
           Follows(f, n, s, r)
    PROVE  Follows(g, n, s, RowAfter(f[0], n, r))
<1>1. \A i \in OfNode(g, n) : i \in OfNode(f, n) /\ g[i] = f[i] /\ i # 0
  BY DEF Shortened, OfNode
<1>2. \A i \in OfNode(f, n) : i # 0 => i \in OfNode(g, n)
  BY DEF Shortened, OfNode
<1>3. CASE 0 \in OfNode(f, n) /\ f[0].type = "NodeStarted"
  <2>1. r = "none" /\ RowAfter(f[0], n, r) = "running" /\ s # "fresh"
    BY <1>3 DEF Follows, RowAfter, OfNode
  <2>2. \A i \in OfNode(g, n) : f[i].type # "NodeStarted"
    <3> SUFFICES ASSUME NEW i \in OfNode(g, n), f[i].type = "NodeStarted" PROVE FALSE
      OBVIOUS
    <3>1. i <= 0 /\ i >= 0 /\ i \in Int
      BY <1>1, <1>3 DEF Follows, Shortened, OfNode
    <3>. QED
      BY <1>1, <3>1
  <2>3. s = "open" => OfNode(g, n) = {}
    BY <1>1, <2>2 DEF Follows, OfNode, NodeTypes
  <2>4. s # "open" => \E i \in OfNode(g, n) : g[i].type = s
    <3> SUFFICES ASSUME s # "open" PROVE \E i \in OfNode(g, n) : g[i].type = s
      OBVIOUS
    <3>1. PICK i \in OfNode(f, n) : f[i].type = s
      BY <1>3, <2>1 DEF Follows
    <3>. QED
      BY <1>1, <1>2, <1>3, <3>1
  <2>5. \A i \in OfNode(g, n) : g[i].type = s /\ \A j \in OfNode(g, n) : j <= i
    BY <1>1, <2>2 DEF Follows
  <2>. QED
    BY <1>1, <2>1, <2>2, <2>3, <2>4, <2>5 DEF Follows
<1>4. CASE 0 \in OfNode(f, n) /\ f[0].type # "NodeStarted"
  <2>1. s = f[0].type /\ \A j \in OfNode(f, n) : j <= 0
    BY <1>4 DEF Follows
  <2>2. OfNode(g, n) = {}
    BY <1>1, <2>1 DEF Shortened, OfNode
  <2>3. f[0].type \in NodeTypes /\ f[0].node = n
    BY <1>4 DEF OfNode
  <2>4. RowAfter(f[0], n, r) = RowOf(s) /\ s \in NodeTypes
    BY <1>4, <2>1, <2>3 DEF RowAfter, NodeTypes
  <2>. QED
    BY <2>2, <2>4 DEF Follows, NodeTypes
<1>5. CASE 0 \notin OfNode(f, n)
  <2>1. OfNode(g, n) = OfNode(f, n)
    BY <1>1, <1>2, <1>5
  <2>2. ~(f[0].type \in NodeTypes /\ f[0].node = n)
    BY <1>5 DEF Shortened, OfNode
  <2>3. RowAfter(f[0], n, r) = r \/ (r = "running" /\ RowAfter(f[0], n, r) = "failed")
    BY <2>2 DEF RowAfter
  <2>4. s \notin {"fresh", "open"} => RowOf(s) # "running"
    BY DEF RowOf, NodeTypes
  <2>. QED
    BY <1>1, <2>1, <2>3, <2>4 DEF Follows
<1>. QED
  BY <1>3, <1>4, <1>5

\* A put, by either thread, shows at the end of what is ahead.
LEMMA AheadPut ==
    ASSUME TypeOK, NEW m \in Messages, queue' = Append(queue, m), msg' = msg,
           pcL = "process" <=> pcL' = "process"
    PROVE  Extended(Ahead, Ahead', m)
<1> DEFINE k == Len(queue) + 1
<1>1. /\ DOMAIN queue = 1..Len(queue) /\ DOMAIN queue' = 1..k /\ Len(queue) \in Nat
      /\ queue'[k] = m
      /\ \A i \in 1..Len(queue) : queue'[i] = queue[i]
  BY DEF TypeOK
<1>. HIDE DEF k
<1>2. k \in Int /\ k = Len(queue) + 1
  BY <1>1 DEF k
<1>3. DOMAIN Ahead' = DOMAIN Ahead \cup {k}
  BY <1>1, <1>2 DEF Ahead
<1>4. \A i \in DOMAIN Ahead : i < k /\ Ahead'[i] = Ahead[i]
  BY <1>1, <1>2 DEF Ahead
<1>5. Ahead'[k] = m
  BY <1>1, <1>2 DEF Ahead
<1>. QED
  BY <1>2, <1>3, <1>4, <1>5 DEF Extended

\* Nothing moves.
LEMMA AheadStays ==
    ASSUME queue' = queue, msg' = msg, pcL = "process" <=> pcL' = "process"
    PROVE  Grows(Ahead, Ahead')
BY DEF Ahead, Grows

\* A put that says nothing of nodes.
LEMMA ExtendedGrows ==
    ASSUME NEW f, NEW g, NEW m, Extended(f, g, m), m.type \notin NodeTypes \cup Outcomes
    PROVE  Grows(f, g)
BY DEF Extended, Grows

LEMMA AheadMoves ==
    ASSUME TypeOK, ListenGet, ~IsNone(Head(queue))
    PROVE  Moved(Ahead, Ahead')
<1>1. /\ pcL = "get" /\ pcL' = "process" /\ queue # <<>>
      /\ queue' = Tail(queue) /\ msg' = Head(queue)
  BY DEF ListenGet
<1>2. /\ DOMAIN queue = 1..Len(queue) /\ Len(queue) \in Nat /\ Len(queue) > 0
      /\ DOMAIN queue' = 1..(Len(queue) - 1)
      /\ msg' = queue[1]
      /\ \A i \in 1..(Len(queue) - 1) : queue'[i] = queue[i + 1]
  BY <1>1 DEF TypeOK
<1>3. DOMAIN Ahead = 1..Len(queue) /\ \A i \in DOMAIN Ahead : Ahead[i] = queue[i]
  BY <1>1, <1>2 DEF Ahead
<1>4. DOMAIN Ahead' = 0..(Len(queue) - 1)
  BY <1>1, <1>2 DEF Ahead
<1>5. \A i \in DOMAIN Ahead' : Ahead'[i] = IF i = 0 THEN queue[1] ELSE queue[i + 1]
  BY <1>1, <1>2, <1>4 DEF Ahead
<1>. QED
  BY <1>2, <1>3, <1>4, <1>5 DEF Moved

LEMMA AheadShortens ==
    ASSUME TypeOK, pcL = "process", pcL' # "process", queue' = queue
    PROVE  Shortened(Ahead, Ahead') /\ Ahead[0] = msg
<1>1. DOMAIN queue = 1..Len(queue) /\ Len(queue) \in Nat
  BY DEF TypeOK
<1>. QED
  BY <1>1 DEF Ahead, Shortened

\* Nothing is said of nodes, and the worker does not come back to work.
LEMMA LinkQuiet ==
    ASSUME LinkInv, Grows(Ahead, Ahead'), UNCHANGED <<nodeRun, run, nodeExec>>,
           Working' => Working
    PROVE  LinkInv'
<1>1. /\ DOMAIN Ahead \subseteq DOMAIN Ahead'
      /\ \A i \in DOMAIN Ahead : Ahead'[i] = Ahead[i]
      /\ \A i \in DOMAIN Ahead' \ DOMAIN Ahead :
            Ahead'[i].type \notin NodeTypes /\ Ahead'[i].type \notin Outcomes
  BY DEF Grows
<1>2. \A n \in Nodes : Follows(Ahead', n, nodeRun'[n], nodeExec'[n])
  BY FollowsOther DEF LinkInv
<1>3. OutcomesLast(Ahead)'
  <2> SUFFICES ASSUME NEW i \in DOMAIN Ahead', Ahead'[i].type \in Outcomes
               PROVE  /\ ~Working' /\ Decided(Ahead'[i].type)
                      /\ \A j \in DOMAIN Ahead' : j > i => Ahead'[j].type \notin NodeTypes
    BY DEF OutcomesLast, Decided
  <2>1. i \in DOMAIN Ahead
    BY <1>1
  <2>2. ~Working /\ Decided(Ahead[i].type)
        /\ \A j \in DOMAIN Ahead : j > i => Ahead[j].type \notin NodeTypes
    BY <1>1, <2>1 DEF LinkInv, OutcomesLast
  <2>. QED
    BY <1>1, <2>1, <2>2
<1>4. OutcomeRecorded(Ahead)'
  <2> SUFFICES ASSUME NEW t \in Outcomes, run' = StatusOf(t)
               PROVE  /\ ~Working' /\ Decided(t)
                      /\ \A j \in DOMAIN Ahead' : Ahead'[j].type \notin NodeTypes
    BY DEF OutcomeRecorded, Decided
  <2>1. ~Working /\ Decided(t) /\ \A j \in DOMAIN Ahead : Ahead[j].type \notin NodeTypes
    BY DEF LinkInv, OutcomeRecorded
  <2>. QED
    BY <1>1, <2>1
<1>. QED
  BY <1>2, <1>3, <1>4 DEF LinkInv

\* The worker publishes the outcome it has decided on.
LEMMA LinkOutcome ==
    ASSUME TypeOK, LinkInv, NEW m, Extended(Ahead, Ahead', m),
           m.type \in Outcomes, Decided(m.type), Working, ~Working',
           UNCHANGED <<nodeRun, run, nodeExec>>
    PROVE  LinkInv'
<1>1. PICK k \in Int : /\ \A i \in DOMAIN Ahead : i < k
                       /\ DOMAIN Ahead' = DOMAIN Ahead \cup {k} /\ Ahead'[k] = m
                       /\ \A i \in DOMAIN Ahead : Ahead'[i] = Ahead[i]
  BY DEF Extended
<1>2. DOMAIN Ahead \subseteq Int
  BY AheadFacts
<1>3. m.type \notin NodeTypes
  BY DEF NodeTypes, Outcomes
<1>4. \A n \in Nodes : Follows(Ahead', n, nodeRun'[n], nodeExec'[n])
  BY <1>3, FollowsOther DEF LinkInv
<1>5. \A i \in DOMAIN Ahead : Ahead[i].type \notin Outcomes
  BY DEF LinkInv, OutcomesLast
<1>6. OutcomesLast(Ahead)'
  <2> SUFFICES ASSUME NEW i \in DOMAIN Ahead', Ahead'[i].type \in Outcomes
               PROVE  /\ ~Working' /\ Decided(Ahead'[i].type)
                      /\ \A j \in DOMAIN Ahead' : j > i => Ahead'[j].type \notin NodeTypes
    BY DEF OutcomesLast, Decided
  <2>1. i = k
    BY <1>1, <1>5
  <2>2. \A j \in DOMAIN Ahead' : ~(j > k)
    BY <1>1, <1>2
  <2>. QED
    BY <1>1, <2>1, <2>2
<1>7. OutcomeRecorded(Ahead)'
  BY DEF LinkInv, OutcomeRecorded
<1>. QED
  BY <1>4, <1>6, <1>7 DEF LinkInv

\* The worker starts or ends a node, while it works.
LEMMA LinkNode ==
    ASSUME TypeOK, LinkInv, NEW m \in Messages, Extended(Ahead, Ahead', m),
           Working, NEW n \in Nodes, m.type \in NodeTypes, m.node = n,
           \/ m.type = "NodeStarted" /\ nodeRun[n] = "fresh"
                  /\ nodeRun' = [nodeRun EXCEPT ![n] = "open"]
           \/ m.type # "NodeStarted" /\ nodeRun[n] = "open"
                  /\ nodeRun' = [nodeRun EXCEPT ![n] = m.type],
           UNCHANGED <<run, nodeExec>>
    PROVE  LinkInv'
<1>1. DOMAIN Ahead \subseteq Int /\ nodeRun \in [Nodes -> {"fresh", "open"} \cup NodeTypes]
  BY AheadFacts DEF TypeOK
<1>2. \A o \in Nodes : Follows(Ahead', o, nodeRun'[o], nodeExec'[o])
  <2> SUFFICES ASSUME NEW o \in Nodes
               PROVE  Follows(Ahead', o, nodeRun'[o], nodeExec'[o])
    OBVIOUS
  <2>1. CASE o # n
    <3>1. nodeRun'[o] = nodeRun[o] /\ nodeExec'[o] = nodeExec[o]
      BY <1>1, <2>1
    <3>. QED
      BY <1>1, <2>1, <3>1, FollowsOther DEF LinkInv
  <2>2. CASE o = n /\ m.type = "NodeStarted"
    <3>1. nodeRun[n] = "fresh" /\ nodeRun'[n] = "open" /\ nodeExec'[n] = nodeExec[n]
      BY <1>1, <2>2
    <3>. QED
      BY <1>1, <2>2, <3>1, FollowsStart DEF LinkInv
  <2>3. CASE o = n /\ m.type # "NodeStarted"
    <3>1. nodeRun[n] = "open" /\ nodeRun'[n] = m.type /\ nodeExec'[n] = nodeExec[n]
      BY <1>1, <2>3
    <3>. QED
      BY <1>1, <2>3, <3>1, FollowsEnd DEF LinkInv
  <2>. QED
    BY <2>1, <2>2, <2>3
<1>3. m.type \notin Outcomes
  BY Kinds
<1>4. \A i \in DOMAIN Ahead' : Ahead'[i].type \notin Outcomes
  BY <1>3 DEF LinkInv, OutcomesLast, Extended
<1>5. \A t \in Outcomes : run' # StatusOf(t)
  BY DEF LinkInv, OutcomeRecorded
<1>. QED
  BY <1>2, <1>4, <1>5 DEF LinkInv, OutcomesLast, OutcomeRecorded

\* Every step of the worker keeps what is known of the worker alone.
LEMMA WorkerInvWorker ==
    ASSUME TypeOK, WorkerInv, Worker
    PROVE  WorkerInv'
<1>0. nodeRun \in [Nodes -> {"fresh", "open"} \cup NodeTypes]
  BY DEF TypeOK
<1>1. ASSUME NEW m \in Messages, WorkerPut(m), nodeRun' = nodeRun, GoingOn' => GoingOn
      PROVE  WorkerInv'
  BY <1>1 DEF WorkerInv, WorkerPut, IsTerminal
<1>2. CASE WorkerStart \/ TextChunk
  <2>1. PICK m \in {Plain("Started", "app"), Plain("Chunk", "app")} : WorkerPut(m)
    BY <1>2 DEF WorkerStart, TextChunk
  <2>2. m \in Messages /\ pcW = "run"
    BY <1>2, MadeMessages DEF WorkerStart, TextChunk, OtherTypes, Authors
  <2>. QED
    BY <1>1, <1>2, <2>1, <2>2 DEF WorkerStart, TextChunk, GoingOn
<1>3. CASE GraphEnd \/ GraphFail \/ WorkerPublishError
  <2>1. PICK t \in TerminalTypes : WorkerPut(Plain(t, "app"))
    BY <1>3 DEF GraphEnd, GraphFail, WorkerPublishError, TerminalTypes, FinishTypes
  <2>2. Plain(t, "app") \in Messages /\ IsTerminal(Plain(t, "app"))
    BY MadeMessages DEF Authors, IsTerminal, Plain
  <2>3. pcW' = "putNone" /\ nodeRun' = nodeRun
    BY <1>3, <2>1, <2>2 DEF WorkerPut, GraphEnd, GraphFail, WorkerPublishError
  <2>. QED
    BY <1>1, <2>1, <2>2, <2>3 DEF GoingOn
<1>4. CASE SetupError \/ WorkerCheckFails
  BY <1>4 DEF SetupError, WorkerCheckFails, WorkerInv, GoingOn
<1>5. CASE WorkerPutNone
  BY <1>5 DEF WorkerPutNone, WorkerInv, GoingOn, AfterPublish
<1>6. CASE WorkerCheckStop
  BY <1>6 DEF WorkerCheckStop, WorkerInv, GoingOn, AfterPublish
<1>7. ASSUME NEW n \in Nodes, NodeStart(n) PROVE WorkerInv'
  <2>1. /\ nodeRun' = [nodeRun EXCEPT ![n] = "open"] /\ pcW = "run"
        /\ pcW' = "check" /\ lastPub' = "NodeStarted"
    BY <1>7 DEF NodeStart, WorkerPut, NodeEvent, IsTerminal, TerminalTypes, FinishTypes
  <2>. QED
    BY <1>0, <2>1 DEF WorkerInv, GoingOn
<1>8. ASSUME NEW n \in Nodes, NEW t \in NodeTypes \ {"NodeStarted"}, NodeFinish(n, t)
      PROVE  WorkerInv'
  <2>1. t \notin TerminalTypes
    BY DEF NodeTypes, TerminalTypes, FinishTypes
  <2>2. /\ nodeRun' = [nodeRun EXCEPT ![n] = t] /\ pcW = "run"
        /\ pcW' = "check" /\ lastPub' = t
    BY <1>8, <2>1 DEF NodeFinish, WorkerPut, NodeEvent, IsTerminal
  <2>3. t = "NodeFailed" => ~GoingOn'
    BY <2>1, <2>2 DEF GoingOn, AfterPublish
  <2>. QED
    BY <1>0, <2>2, <2>3 DEF WorkerInv, GoingOn
<1>. QED
  BY <1>2, <1>3, <1>4, <1>5, <1>6, <1>7, <1>8 DEF Worker

LEMMA LinkWorker ==
    ASSUME TypeOK, SilentInv, WorkerInv, LinkInv, exit = "no", Worker
    PROVE  LinkInv'
<1>1. UNCHANGED <<pcL, msg, run, nodeExec>> /\ pcL # "closed"
  BY DEF SilentInv, Worker, WorkerStart, NodeStart, NodeFinish, TextChunk, GraphEnd, GraphFail,
     SetupError, WorkerPublishError, WorkerPutNone, WorkerCheckStop, WorkerCheckFails,
     WorkerPut, dbVars, listenerVars
<1>2. ASSUME NEW m \in Messages, queue' = Put(queue, m)
      PROVE  Extended(Ahead, Ahead', m)
  BY <1>1, <1>2, AheadPut DEF Put
<1>3. ASSUME NEW m \in Messages, WorkerPut(m) PROVE Extended(Ahead, Ahead', m)
  BY <1>2, <1>3 DEF WorkerPut
<1>4. ASSUME queue' = queue PROVE Grows(Ahead, Ahead')
  BY <1>1, <1>4, AheadStays
<1>5. CASE WorkerStart \/ TextChunk
  <2>1. PICK t \in {"Started", "Chunk"} : WorkerPut(Plain(t, "app"))
    BY <1>5 DEF WorkerStart, TextChunk
  <2>2. Plain(t, "app") \in Messages
    BY MadeMessages DEF OtherTypes, Authors
  <2>3. Plain(t, "app").type = t /\ t \notin NodeTypes /\ t \notin Outcomes
    BY DEF Plain, NodeTypes, Outcomes
  <2>4. Working /\ nodeRun' = nodeRun
    BY <1>5 DEF WorkerStart, TextChunk, Working
  <2>. QED
    BY <1>1, <1>3, <2>1, <2>2, <2>3, <2>4, ExtendedGrows, LinkQuiet
<1>6. CASE GraphEnd \/ GraphFail
  <2>1. PICK t \in Outcomes : WorkerPut(Plain(t, "app")) /\ Decided(t)
    <3>1. CASE GraphEnd /\ \E n \in Nodes : nodeRun[n] = "NodeException"
      <4>1. Decided("PartialSuccess")
        BY <3>1 DEF GraphEnd, Decided, WorkerInv, GoingOn, TypeOK, NodeTypes
      <4>. QED
        BY <3>1, <4>1 DEF GraphEnd, Outcomes
    <3>2. CASE GraphEnd /\ ~\E n \in Nodes : nodeRun[n] = "NodeException"
      <4>1. Decided("Succeeded")
        BY <3>2 DEF GraphEnd, Decided, WorkerInv, GoingOn, TypeOK, NodeTypes
      <4>. QED
        BY <3>2, <4>1 DEF GraphEnd, Outcomes
    <3>3. CASE GraphFail
      BY <3>3 DEF GraphFail, Decided, Outcomes
    <3>. QED
      BY <1>6, <3>1, <3>2, <3>3
  <2>2. Plain(t, "app") \in Messages
    BY MadeMessages DEF TerminalTypes, FinishTypes, Outcomes, Authors
  <2>3. Plain(t, "app").type = t /\ t \notin NodeTypes /\ t \in TerminalTypes
    BY DEF Plain, NodeTypes, Outcomes, TerminalTypes, FinishTypes
  <2>4. Working /\ ~Working' /\ nodeRun' = nodeRun
    BY <1>6, <2>1, <2>3 DEF GraphEnd, GraphFail, Working, WorkerPut, IsTerminal
  <2>. QED
    BY <1>1, <1>3, <2>1, <2>2, <2>3, <2>4, LinkOutcome
<1>7. CASE WorkerPublishError
  <2>1. Plain("Error", "app") \in Messages
    BY MadeMessages DEF TerminalTypes, Authors
  <2>2. /\ Plain("Error", "app").type = "Error"
        /\ "Error" \notin NodeTypes /\ "Error" \notin Outcomes /\ "Error" \in TerminalTypes
    BY DEF Plain, NodeTypes, Outcomes, TerminalTypes
  <2>3. WorkerPut(Plain("Error", "app")) /\ ~Working' /\ nodeRun' = nodeRun
    BY <1>7, <2>2 DEF WorkerPublishError, Working, WorkerPut, IsTerminal
  <2>. QED
    BY <1>1, <1>3, <2>1, <2>2, <2>3, ExtendedGrows, LinkQuiet
<1>8. CASE WorkerPutNone
  <2>1. Plain("None", "app") \in Messages
    BY MadeMessages DEF OtherTypes, Authors
  <2>2. Plain("None", "app").type = "None" /\ "None" \notin NodeTypes /\ "None" \notin Outcomes
    BY DEF Plain, NodeTypes, Outcomes
  <2>3. queue' = Put(queue, Plain("None", "app")) /\ nodeRun' = nodeRun /\ ~Working'
    BY <1>8 DEF WorkerPutNone, Working, WorkerInv
  <2>. QED
    BY <1>1, <1>2, <2>1, <2>2, <2>3, ExtendedGrows, LinkQuiet
<1>9. CASE SetupError \/ WorkerCheckStop \/ WorkerCheckFails
  <2>1. queue' = queue /\ nodeRun' = nodeRun
    BY <1>9 DEF SetupError, WorkerCheckStop, WorkerCheckFails
  <2>2. Working' => Working
    BY <1>9 DEF SetupError, WorkerCheckStop, WorkerCheckFails, Working, AfterPublish
  <2>. QED
    BY <1>1, <1>4, <2>1, <2>2, LinkQuiet
<1>10. ASSUME NEW n \in Nodes, NodeStart(n) PROVE LinkInv'
  <2>1. NodeEvent("NodeStarted", n) \in Messages
    BY MadeMessages DEF NodeTypes
  <2>2. NodeEvent("NodeStarted", n).type = "NodeStarted" /\ NodeEvent("NodeStarted", n).node = n
    BY DEF NodeEvent
  <2>3. /\ WorkerPut(NodeEvent("NodeStarted", n)) /\ Working /\ nodeRun[n] = "fresh"
        /\ nodeRun' = [nodeRun EXCEPT ![n] = "open"] /\ "NodeStarted" \in NodeTypes
    BY <1>10 DEF NodeStart, Working, NodeTypes
  <2>. QED
    BY <1>1, <1>3, <2>1, <2>2, <2>3, LinkNode
<1>11. ASSUME NEW n \in Nodes, NEW t \in NodeTypes \ {"NodeStarted"}, NodeFinish(n, t)
       PROVE  LinkInv'
  <2>1. NodeEvent(t, n) \in Messages
    BY MadeMessages
  <2>2. NodeEvent(t, n).type = t /\ NodeEvent(t, n).node = n
    BY DEF NodeEvent
  <2>3. /\ WorkerPut(NodeEvent(t, n)) /\ Working /\ nodeRun[n] = "open"
        /\ nodeRun' = [nodeRun EXCEPT ![n] = t]
    BY <1>11 DEF NodeFinish, Working
  <2>. QED
    BY <1>1, <1>3, <2>1, <2>2, <2>3, LinkNode
<1>. QED
  BY <1>5, <1>6, <1>7, <1>8, <1>9, <1>10, <1>11 DEF Worker

\* When nothing of a node is ahead, its row is what the worker knows.
LEMMA RowIsKnown ==
    ASSUME NEW f, NEW n, NEW s, NEW r, Follows(f, n, s, r),
           \A j \in DOMAIN f : f[j].type \notin NodeTypes
    PROVE  /\ s = "fresh" => r = "none"
           /\ s = "NodeSucceeded" => r = "succeeded"
           /\ s = "NodeException" => r = "exception"
BY DEF Follows, OfNode, RowOf

\* A message in hand is recorded.
LEMMA AgreeRecord ==
    ASSUME TypeOK, AgreeInv, exit = "no", NEW leaving, Record(leaving)
    PROVE  NodesAgreeWithRun' /\ LinkInv'
<1>1. /\ Shortened(Ahead, Ahead') /\ Ahead[0] = msg
      /\ DOMAIN Ahead \subseteq Int /\ \A i \in DOMAIN Ahead : i >= 0
      /\ nodeRun' = nodeRun /\ (Working' <=> Working)
      /\ msg \in Messages
      /\ nodeExec' = NodeExecAfter(msg)
      /\ nodeRun \in [Nodes -> {"fresh", "open"} \cup NodeTypes]
      /\ nodeExec \in [Nodes -> NodeStatuses]
  BY AheadShortens, AheadFacts DEF Record, Working, workerVars, TypeOK
<1>2. LinkInv /\ WorkerInv /\ NodesAgreeWithRun
  BY DEF AgreeInv
<1>3. \A n \in Nodes : Follows(Ahead', n, nodeRun'[n], nodeExec'[n])
  <2> SUFFICES ASSUME NEW n \in Nodes PROVE Follows(Ahead', n, nodeRun[n], nodeExec'[n])
    BY <1>1
  <2>1. nodeExec'[n] = RowAfter(Ahead[0], n, nodeExec[n])
    BY <1>1, RowAfterIs
  <2>2. nodeRun[n] \in ({"fresh", "open"} \cup NodeTypes) \ {"NodeStarted"}
    BY <1>1, <1>2 DEF WorkerInv
  <2>3. Follows(Ahead, n, nodeRun[n], nodeExec[n])
    BY <1>2 DEF LinkInv
  <2>4. Shortened(Ahead, Ahead') /\ DOMAIN Ahead \subseteq Int
    BY <1>1
  <2>5. Follows(Ahead', n, nodeRun[n], RowAfter(Ahead[0], n, nodeExec[n]))
    BY ONLY <2>2, <2>3, <2>4, FollowsRecord
  <2>. QED
    BY ONLY <2>1, <2>5
<1>4. /\ \A j \in DOMAIN Ahead' : j \in DOMAIN Ahead /\ j > 0 /\ Ahead'[j] = Ahead[j]
      /\ 0 \in DOMAIN Ahead
  BY <1>1 DEF Shortened
<1>5. OutcomesLast(Ahead)'
  BY <1>1, <1>2, <1>4 DEF OutcomesLast, LinkInv, Decided
<1>6. \A t \in Outcomes : run' = StatusOf(t) =>
          \/ msg.type = t
          \/ msg.type \notin FinishTypes /\ run' = run
  <2> SUFFICES ASSUME NEW t \in Outcomes, run' = StatusOf(t), msg.type # t
               PROVE  msg.type \notin FinishTypes /\ run' = run
    OBVIOUS
  <2>1. StatusOf(t) \in {"succeeded", "partial-succeeded", "failed"}
    BY DEF StatusOf, Outcomes
  <2>2. msg.type # "Started"
    BY <2>1 DEF Record
  <2>3. ASSUME msg.type \in FinishTypes PROVE StatusOf(msg.type) # StatusOf(t)
    BY <2>3 DEF StatusOf, Outcomes, FinishTypes
  <2>. QED
    BY <2>2, <2>3 DEF Record
<1>7. OutcomeRecorded(Ahead)'
  <2> SUFFICES ASSUME NEW t \in Outcomes, run' = StatusOf(t)
               PROVE  /\ ~Working' /\ Decided(t)'
                      /\ \A j \in DOMAIN Ahead' : Ahead'[j].type \notin NodeTypes
    BY DEF OutcomeRecorded
  <2>1. CASE msg.type = t
    <3>1. ~Working /\ Decided(t) /\ \A j \in DOMAIN Ahead : j > 0 => Ahead[j].type \notin NodeTypes
      BY <1>1, <1>2, <1>4, <2>1 DEF LinkInv, OutcomesLast
    <3>. QED
      BY <1>1, <1>4, <3>1 DEF Decided
  <2>2. CASE run' = run
    <3>1. ~Working /\ Decided(t) /\ \A j \in DOMAIN Ahead : Ahead[j].type \notin NodeTypes
      BY <1>2, <2>2 DEF LinkInv, OutcomeRecorded
    <3>. QED
      BY <1>1, <1>4, <3>1 DEF Decided
  <2>. QED
    BY <1>6, <2>1, <2>2
<1>8. LinkInv'
  BY <1>3, <1>5, <1>7 DEF LinkInv
<1>9. run' = "succeeded" => \A n \in Nodes : nodeExec'[n] \in {"none", "succeeded"}
  <2> SUFFICES ASSUME run' = "succeeded", NEW n \in Nodes
               PROVE  nodeExec'[n] \in {"none", "succeeded"}
    OBVIOUS
  <2>1. /\ nodeRun'[n] \in {"fresh", "NodeSucceeded"}
        /\ \A j \in DOMAIN Ahead' : Ahead'[j].type \notin NodeTypes
    BY <1>7 DEF OutcomeRecorded, Outcomes, StatusOf, Decided
  <2>. QED
    BY <1>3, <2>1, RowIsKnown
<1>10. run' = "partial-succeeded" =>
           /\ \A n \in Nodes : nodeExec'[n] \in {"none", "succeeded", "exception"}
           /\ \E n \in Nodes : nodeExec'[n] = "exception"
  <2> SUFFICES ASSUME run' = "partial-succeeded"
               PROVE  /\ \A n \in Nodes : nodeExec'[n] \in {"none", "succeeded", "exception"}
                      /\ \E n \in Nodes : nodeExec'[n] = "exception"
    OBVIOUS
  <2>1. /\ \A n \in Nodes : nodeRun'[n] \in {"fresh", "NodeSucceeded", "NodeException"}
        /\ \E n \in Nodes : nodeRun'[n] = "NodeException"
        /\ \A j \in DOMAIN Ahead' : Ahead'[j].type \notin NodeTypes
    BY <1>7 DEF OutcomeRecorded, Outcomes, StatusOf, Decided
  <2>2. \A n \in Nodes : /\ nodeRun'[n] = "fresh" => nodeExec'[n] = "none"
                         /\ nodeRun'[n] = "NodeSucceeded" => nodeExec'[n] = "succeeded"
                         /\ nodeRun'[n] = "NodeException" => nodeExec'[n] = "exception"
    BY <1>3, <2>1, RowIsKnown
  <2>. QED
    BY <2>1, <2>2
<1>11. run' = "failed" => \A n \in Nodes : nodeExec'[n] # "running"
  <2> SUFFICES ASSUME run' = "failed", NEW n \in Nodes PROVE nodeExec'[n] # "running"
    OBVIOUS
  <2>1. nodeExec'[n] = RowAfter(msg, n, nodeExec[n])
    BY <1>1, RowAfterIs
  <2>2. CASE msg.type = "Failed"
    BY <2>1, <2>2 DEF RowAfter, NodeTypes
  <2>3. CASE msg.type \notin FinishTypes /\ run' = run
    <3>1. msg.type \notin NodeTypes /\ nodeExec[n] # "running"
      BY <1>1, <1>2, <1>4, <2>3 DEF LinkInv, OutcomeRecorded, Outcomes, StatusOf,
                                    NodesAgreeWithRun
    <3>. QED
      BY <2>1, <2>3, <3>1 DEF RowAfter, FinishTypes
  <2>4. "Failed" \in Outcomes /\ StatusOf("Failed") = "failed"
    BY DEF Outcomes, StatusOf
  <2>. QED
    BY <1>6, <2>2, <2>3, <2>4
<1>. QED
  BY <1>8, <1>9, <1>10, <1>11 DEF NodesAgreeWithRun

\* The next message is taken in hand.
LEMMA LinkMoves ==
    ASSUME TypeOK, LinkInv, Moved(Ahead, Ahead'), UNCHANGED <<nodeRun, run, nodeExec>>,
           Working' <=> Working
    PROVE  LinkInv'
<1>1. DOMAIN Ahead \subseteq Int
  BY AheadFacts
<1>2. \A n \in Nodes : Follows(Ahead', n, nodeRun'[n], nodeExec'[n])
  BY <1>1, FollowsMoved DEF LinkInv
<1>3. /\ DOMAIN Ahead' \subseteq Int
      /\ \A i \in DOMAIN Ahead' : i + 1 \in DOMAIN Ahead /\ Ahead'[i] = Ahead[i + 1]
  BY DEF Moved
<1>4. OutcomesLast(Ahead)'
  <2> SUFFICES ASSUME NEW i \in DOMAIN Ahead', Ahead'[i].type \in Outcomes
               PROVE  /\ ~Working' /\ Decided(Ahead'[i].type)
                      /\ \A j \in DOMAIN Ahead' : j > i => Ahead'[j].type \notin NodeTypes
    BY DEF OutcomesLast, Decided
  <2>1. /\ ~Working /\ Decided(Ahead[i + 1].type)
        /\ \A j \in DOMAIN Ahead : j > i + 1 => Ahead[j].type \notin NodeTypes
    BY <1>3 DEF LinkInv, OutcomesLast
  <2>. QED
    BY <1>3, <2>1
<1>5. OutcomeRecorded(Ahead)'
  BY <1>3 DEF LinkInv, OutcomeRecorded, Decided
<1>. QED
  BY <1>2, <1>4, <1>5 DEF LinkInv

LEMMA AgreeListener ==
    ASSUME TypeOK, SilentInv, AgreeInv, Listener
    PROVE  AgreeInv'
<1> USE DEF workerVars, dbVars
<1>1. WorkerInv' /\ nodeRun' = nodeRun /\ (Working' <=> Working)
  <2>1. UNCHANGED <<pcW, lastPub, nodeRun>>
    BY DEF Listener, ListenerStep, ListenGet, ListenEmpty, ProcessRaises, ProcessError,
       ProcessEvent, ClientDisconnect, Record, ListenCheckStop, ListenPutNone, ListenGoOn,
       ListenCheckFails
  <2>. QED
    BY <2>1 DEF AgreeInv, WorkerInv, GoingOn, Working
<1>2. ASSUME UNCHANGED <<run, nodeExec>>, exit' = "no" => LinkInv' PROVE AgreeInv'
  BY <1>1, <1>2 DEF AgreeInv, NodesAgreeWithRun
<1>3. ASSUME NEW m, m.type \notin NodeTypes, m.type \notin Outcomes,
             Extended(Ahead, Ahead', m)
      PROVE  Grows(Ahead, Ahead')
  BY <1>3, ExtendedGrows
<1>4. ASSUME Grows(Ahead, Ahead'), UNCHANGED <<run, nodeExec>>, LinkInv PROVE LinkInv'
  BY <1>1, <1>4, LinkQuiet
<1>5. /\ \A t \in {"Stop", "None", "Ping"} :
            /\ Plain(t, "pipeline") \in Messages
            /\ Plain(t, "pipeline").type \notin NodeTypes
            /\ Plain(t, "pipeline").type \notin Outcomes
  <2> SUFFICES ASSUME NEW t \in {"Stop", "None", "Ping"}
               PROVE  /\ Plain(t, "pipeline") \in Messages
                      /\ Plain(t, "pipeline").type \notin NodeTypes
                      /\ Plain(t, "pipeline").type \notin Outcomes
    OBVIOUS
  <2>1. Plain(t, "pipeline") \in Messages
    BY MadeMessages DEF TerminalTypes, FinishTypes, OtherTypes, Authors
  <2>2. Plain(t, "pipeline").type = t
    BY DEF Plain
  <2>. QED
    BY <2>1, <2>2 DEF NodeTypes, Outcomes
<1>6. CASE ListenGet
  <2>1. exit = "no" /\ UNCHANGED <<run, nodeExec>>
    BY <1>6 DEF ListenGet, SilentInv
  <2>2. exit' = "no" => ~IsNone(Head(queue))
    BY <1>6 DEF ListenGet
  <2>. QED
    BY <1>1, <1>2, <1>6, <2>1, <2>2, AheadMoves, LinkMoves DEF AgreeInv
<1>7. CASE ListenEmpty
  <2>1. Grows(Ahead, Ahead') /\ exit' = exit /\ UNCHANGED <<run, nodeExec>>
    BY <1>7, AheadStays DEF ListenEmpty
  <2>. QED
    BY <1>2, <1>4, <2>1 DEF AgreeInv
<1>8. CASE ProcessRaises
  BY <1>2, <1>8 DEF ProcessRaises
<1>9. CASE ProcessError
  BY <1>2, <1>9 DEF ProcessError
<1>10. ASSUME NEW leaving, Record(leaving) PROVE AgreeInv'
  <2>1. exit = "no"
    BY <1>10 DEF Record, SilentInv
  <2>. QED
    BY <1>1, <1>10, <2>1, AgreeRecord DEF AgreeInv
<1>11. CASE ProcessEvent
  BY <1>10, <1>11 DEF ProcessEvent
<1>12. CASE ClientDisconnect
  BY <1>10, <1>12 DEF ClientDisconnect
<1>13. CASE ListenCheckStop
  <2>1. Extended(Ahead, Ahead', Plain("Stop", "pipeline"))
    BY <1>5, <1>13, AheadPut DEF ListenCheckStop
  <2>. QED
    BY <1>2, <1>3, <1>4, <1>5, <1>13, <2>1 DEF ListenCheckStop, AgreeInv
<1>14. CASE ListenPutNone
  <2> DEFINE none == Plain("None", "pipeline")
             ping == Plain("Ping", "pipeline")
             q    == Append(queue, none)
  <2>1. UNCHANGED <<run, nodeExec, exit, msg>> /\ pcL # "process" /\ EndTurn(q)
    BY <1>14 DEF ListenPutNone
  <2>2. CASE exit # "no"
    BY <1>2, <2>1, <2>2
  <2>3. CASE exit = "no" /\ pcL' = "get" /\ queue' = q
    <3>1. Extended(Ahead, Ahead', none)
      BY <1>5, <2>1, <2>3, AheadPut
    <3>. QED
      BY <1>2, <1>3, <1>4, <1>5, <2>1, <2>3, <3>1 DEF AgreeInv
  <2>4. CASE exit = "no" /\ pcL' = "get" /\ queue' = Append(q, ping)
    <3>1. /\ DOMAIN queue = 1..Len(queue) /\ Len(queue) \in Nat
          /\ DOMAIN queue' = 1..(Len(queue) + 2)
          /\ \A i \in 1..Len(queue) : queue'[i] = queue[i]
          /\ queue'[Len(queue) + 1] = none /\ queue'[Len(queue) + 2] = ping
      BY <2>4 DEF TypeOK
    <3>2. none.type \notin NodeTypes \cup Outcomes /\ ping.type \notin NodeTypes \cup Outcomes
      BY <1>5
    <3>. HIDE DEF none, ping, q
    <3>3. \A i \in DOMAIN queue' \ DOMAIN queue : queue'[i].type \notin NodeTypes \cup Outcomes
      <4>1. \A i \in DOMAIN queue' \ DOMAIN queue : i = Len(queue) + 1 \/ i = Len(queue) + 2
        BY <3>1
      <4>. QED
        BY <3>1, <3>2, <4>1
    <3>4. Grows(Ahead, Ahead')
      BY <2>1, <2>4, <3>1, <3>3 DEF Grows, Ahead
    <3>. QED
      BY <1>2, <1>4, <2>1, <2>4, <3>4 DEF AgreeInv
  <2>. QED
    BY <2>1, <2>2, <2>3, <2>4, EndTurnCases
<1>15. CASE ListenGoOn
  <2>1. UNCHANGED <<run, nodeExec, exit, msg>> /\ pcL # "process" /\ EndTurn(queue)
    BY <1>15 DEF ListenGoOn
  <2>2. CASE exit # "no"
    BY <1>2, <2>1, <2>2
  <2>3. CASE exit = "no" /\ pcL' = "get" /\ queue' = queue
    <3>1. Grows(Ahead, Ahead')
      BY <2>1, <2>3, AheadStays
    <3>. QED
      BY <1>2, <1>4, <2>1, <2>3, <3>1 DEF AgreeInv
  <2>4. CASE exit = "no" /\ pcL' = "get" /\ queue' = Append(queue, Plain("Ping", "pipeline"))
    <3>1. Extended(Ahead, Ahead', Plain("Ping", "pipeline"))
      BY <1>5, <2>1, <2>4, AheadPut
    <3>. QED
      BY <1>2, <1>3, <1>4, <1>5, <2>1, <2>4, <3>1 DEF AgreeInv
  <2>. QED
    BY <2>1, <2>2, <2>3, <2>4, EndTurnCases
<1>16. CASE ListenCheckFails
  BY <1>2, <1>16 DEF ListenCheckFails
<1>. QED
  BY <1>6, <1>7, <1>8, <1>9, <1>11, <1>12, <1>13, <1>14, <1>15, <1>16 DEF Listener, ListenerStep

LEMMA AgreeCorrect == Spec => []AgreeInv
<1>1. Init => AgreeInv
  <2> SUFFICES ASSUME Init PROVE AgreeInv
    OBVIOUS
  <2>1. DOMAIN Ahead = {}
    BY DEF Init, Ahead
  <2>2. \A n \in Nodes : nodeRun[n] = "fresh" /\ nodeExec[n] = "none"
    BY DEF Init
  <2>3. \A n \in Nodes : Follows(Ahead, n, nodeRun[n], nodeExec[n])
    BY <2>1, <2>2 DEF Follows, OfNode
  <2>4. OutcomesLast(Ahead)
    BY <2>1 DEF OutcomesLast
  <2>5. run = "none" /\ pcW = "run"
    BY DEF Init
  <2>6. OutcomeRecorded(Ahead)
    BY <2>5 DEF OutcomeRecorded, Outcomes, StatusOf
  <2>7. NodesAgreeWithRun
    BY <2>5 DEF NodesAgreeWithRun
  <2>8. WorkerInv
    BY <2>2, <2>5 DEF WorkerInv
  <2>. QED
    BY <2>3, <2>4, <2>6, <2>7, <2>8 DEF AgreeInv, LinkInv
<1>2. TypeOK /\ SilentInv /\ AgreeInv /\ [Next]_vars => AgreeInv'
  <2> SUFFICES ASSUME TypeOK, SilentInv, AgreeInv, [Next]_vars PROVE AgreeInv'
    OBVIOUS
  <2>1. CASE Worker
    <3>1. UNCHANGED <<exit, run, nodeExec>>
      BY <2>1 DEF Worker, WorkerStart, NodeStart, NodeFinish, TextChunk, GraphEnd, GraphFail,
         SetupError, WorkerPublishError, WorkerPutNone, WorkerCheckStop, WorkerCheckFails,
         WorkerPut, dbVars, listenerVars
    <3>2. NodesAgreeWithRun'
      BY <3>1 DEF AgreeInv, NodesAgreeWithRun
    <3>3. WorkerInv'
      BY <2>1, WorkerInvWorker DEF AgreeInv
    <3>4. exit' = "no" => LinkInv'
      BY <2>1, <3>1, LinkWorker DEF AgreeInv
    <3>. QED
      BY <3>2, <3>3, <3>4 DEF AgreeInv
  <2>2. CASE Listener
    BY <2>2, AgreeListener
  <2>3. CASE UNCHANGED <<queue, workerVars, listenerVars, dbVars>>
    <3>1. UNCHANGED <<queue, pcW, lastPub, nodeRun, pcL, msg, exit, run, nodeExec>>
      BY <2>3 DEF workerVars, listenerVars, dbVars
    <3>2. NodesAgreeWithRun' /\ WorkerInv'
      BY <3>1 DEF AgreeInv, NodesAgreeWithRun, WorkerInv, GoingOn
    <3>3. LinkInv => LinkInv'
      BY <3>1, AheadStays, LinkQuiet DEF Working
    <3>. QED
      BY <3>1, <3>2, <3>3 DEF AgreeInv
  <2>4. CASE Environment
    BY <2>3, <2>4 DEF Environment, SetStopFlag, StopFlagExpires, BelongExpires, ListenTimeout
  <2>5. CASE UNCHANGED vars
    BY <2>3, <2>5 DEF vars
  <2>. QED
    BY <2>1, <2>2, <2>4, <2>5 DEF Next
<1>. QED
  BY <1>1, <1>2, TypeCorrect, SilentCorrect, PTL DEF Spec

\* The row of the run and the rows of its nodes agree on how the run ended,
\* whatever was recorded before: of a run that succeeded no node is left running
\* or failed, of one that succeeded in part some node has an exception, of one
\* that failed no node runs.
THEOREM RowsAgree == Spec => []NodesAgreeWithRun
<1>1. AgreeInv => NodesAgreeWithRun
  BY DEF AgreeInv
<1>. QED
  BY <1>1, AgreeCorrect, PTL

-----------------------------------------------------------------------------
(***************************************************************************)
(* The requests of one app, each of which is such a run: how many of them   *)
(* are admitted at a time, for any number of processes and threads and any  *)
(* limits.                                                                  *)
(***************************************************************************)

\* What the assumptions say of a limit.
LEMMA LimitBounds ==
    /\ \A l \in Limits \cup {0} : l \in 0..MaxLimit
    /\ NoLimit \notin Limits
    /\ MaxLimit \in Nat \ {0}
<1>1. MaxLimit \in Nat \ {0} /\ NoLimit \notin Limits
  BY LimitAssumption
<1>2. ASSUME NEW l \in Limits \cup {0} PROVE l \in 0..MaxLimit
  BY <1>1, LimitAssumption
<1>. QED
  BY <1>1, <1>2

\* A new id is one that is in use nowhere.
LEMMA NewIdFresh == FreshIds # {} => NewId \in Ids /\ NewId \notin active
BY DEF NewId, FreshIds

\* Every variable has its type in every reachable state.
THEOREM LimitTypeCorrect == LimitSpec => []LimitTypeOK
<1> USE DEF LimitTypeOK
<1>1. LimitInit => LimitTypeOK
  BY CrashAssumption DEF LimitInit
<1>2. LimitTypeOK /\ [LimitNext]_limitVars => LimitTypeOK'
  <2> SUFFICES ASSUME LimitTypeOK, [LimitNext]_limitVars PROVE LimitTypeOK'
    OBVIOUS
  <2> USE DEF shared, local
  <2>1. ASSUME NEW t \in Threads, Admission(t) \/ Exit(t) \/ ProviderLimit(t) PROVE LimitTypeOK'
    <3> DEFINE p == ProcessOf[t]
    <3>0. p \in Processes
      BY ThreadAssumption
    <3>1. CASE Construct(t)
      BY <3>0, <3>1 DEF Construct, Flush
    <3>2. CASE EnterUnlimited(t)
      BY <3>2 DEF EnterUnlimited
    <3>3. CASE Enter(t)
      <4>1. localMax[p] \in Limits /\ localMax[p] # 0
        BY <3>0, <3>3 DEF Enter, Disabled
      <4>. QED
        BY <3>0, <3>3, <4>1 DEF Enter, Flush
    <3>4. CASE Reject(t)
      BY <3>4 DEF Reject
    <3>5. CASE Pass(t)
      BY <3>5 DEF Pass
    <3>6. CASE Add(t)
      BY <3>6, NewIdFresh DEF Add
    <3>7. CASE Exit(t)
      BY <3>7 DEF Exit
    <3>8. CASE ProviderLimit(t)
      BY <3>8 DEF ProviderLimit
    <3>. QED
      BY <2>1, <3>1, <3>2, <3>3, <3>4, <3>5, <3>6, <3>7, <3>8 DEF Admission
  <2>2. ASSUME NEW p \in Processes, Crash(p) PROVE LimitTypeOK'
    BY <2>2, CrashAssumption DEF Crash
  <2>3. ASSUME NEW l \in Limits, Configure(l) PROVE LimitTypeOK'
    BY <2>3 DEF Configure
  <2>4. ASSUME NEW i \in Ids, Age(i) PROVE LimitTypeOK'
    BY <2>4 DEF Age
  <2>5. ASSUME NEW p \in Processes, FlushDue(p) PROVE LimitTypeOK'
    BY <2>5 DEF FlushDue
  <2>6. CASE RedisMaxExpires
    BY <2>6 DEF RedisMaxExpires
  <2>7. CASE UNCHANGED limitVars
    BY <2>7 DEF limitVars
  <2>. QED
    BY <2>1, <2>2, <2>3, <2>4, <2>5, <2>6, <2>7 DEF LimitNext, Time
<1>. QED
  BY <1>1, <1>2, PTL DEF LimitSpec

-----------------------------------------------------------------------------
(***************************************************************************)
(* The bound.  A thread that passes the count sees fewer entries than its   *)
(* limit, so at that moment the entries are at most MaxLimit - 1 and the     *)
(* threads about to add at most all of them; after it an entry is only      *)
(* added in exchange for one of these threads.                              *)
(***************************************************************************)

BoundInv == IsFiniteSet(active) /\ BoundedOvershoot

LEMMA AddingFinite ==
    /\ IsFiniteSet(Adding) /\ Cardinality(Adding) \in Nat
    /\ IsFiniteSet(Threads) /\ Cardinality(Threads) \in Nat
    /\ Cardinality(Adding) <= Cardinality(Threads)
BY ThreadAssumption, FS_Subset, FS_CardinalityType DEF Adding

\* Entries leave, and threads leave the gap between the two calls.
LEMMA Shrinks ==
    ASSUME BoundInv, active' \subseteq active, Adding' \subseteq Adding
    PROVE  BoundInv'
<1>1. IsFiniteSet(active') /\ Cardinality(active') <= Cardinality(active)
      /\ Cardinality(active) \in Nat /\ Cardinality(active') \in Nat
  BY FS_Subset, FS_CardinalityType DEF BoundInv
<1>2. Cardinality(Adding') <= Cardinality(Adding) /\ Cardinality(Adding') \in Nat
  BY AddingFinite, FS_Subset, FS_CardinalityType
<1>. QED
  BY <1>1, <1>2, AddingFinite, LimitBounds DEF BoundInv, BoundedOvershoot

\* The requests counted at the same time exceed no limit by more than the
\* threads that race between the count and the addition.
THEOREM OvershootBounded == LimitSpec => []BoundedOvershoot
<1>1. LimitInit => BoundInv
  <2> SUFFICES ASSUME LimitInit PROVE BoundInv
    OBVIOUS
  <2>1. active = {} /\ Adding = {}
    BY DEF LimitInit, Adding
  <2>2. Cardinality(active) = 0 /\ Cardinality(Adding) = 0 /\ IsFiniteSet(active)
    BY <2>1, FS_EmptySet
  <2>. QED
    BY <2>2, AddingFinite, LimitBounds DEF BoundInv, BoundedOvershoot
<1>2. LimitTypeOK /\ BoundInv /\ [LimitNext]_limitVars => BoundInv'
  <2> SUFFICES ASSUME LimitTypeOK, BoundInv, [LimitNext]_limitVars PROVE BoundInv'
    OBVIOUS
  <2>1. ASSUME NEW t \in Threads, Pass(t) PROVE BoundInv'
    <3>1. localMax[ProcessOf[t]] <= MaxLimit /\ localMax[ProcessOf[t]] \in Nat
      BY ThreadAssumption, LimitBounds DEF LimitTypeOK
    <3>2. Cardinality(active) \in Nat /\ Cardinality(active) <= MaxLimit - 1
      BY <2>1, <3>1, FS_CardinalityType, LimitBounds DEF Pass, Full, BoundInv
    <3>3. Adding' \subseteq Threads /\ active' = active
      BY <2>1 DEF Adding, Pass, shared
    <3>4. Cardinality(Adding') <= Cardinality(Threads) /\ Cardinality(Adding') \in Nat
      BY <3>3, AddingFinite, FS_Subset, FS_CardinalityType
    <3>. QED
      BY <3>2, <3>3, <3>4, AddingFinite, LimitBounds DEF BoundInv, BoundedOvershoot
  <2>2. ASSUME NEW t \in Threads, Add(t) PROVE BoundInv'
    <3>1. active' = active \cup {NewId} /\ NewId \notin active
      BY <2>2, NewIdFresh DEF Add
    <3>2. IsFiniteSet(active') /\ Cardinality(active') = Cardinality(active) + 1
          /\ Cardinality(active) \in Nat
      BY <3>1, FS_AddElement, FS_CardinalityType DEF BoundInv
    <3>3. Adding' = Adding \ {t} /\ t \in Adding
      BY <2>2 DEF Adding, Add, LimitTypeOK
    <3>4. Cardinality(Adding') = Cardinality(Adding) - 1
      BY <3>3, AddingFinite, FS_RemoveElement
    <3>. QED
      BY <3>2, <3>4, AddingFinite, LimitBounds DEF BoundInv, BoundedOvershoot
  <2>3. ASSUME NEW t \in Threads,
               \/ Construct(t) \/ EnterUnlimited(t) \/ Enter(t) \/ Reject(t)
               \/ Exit(t) \/ ProviderLimit(t)
        PROVE  BoundInv'
    <3>1. active' \subseteq active
      BY <2>3 DEF Construct, EnterUnlimited, Enter, Reject, Exit, ProviderLimit, Flush, shared
    <3>2. Adding' \subseteq Adding
      BY <2>3 DEF Construct, EnterUnlimited, Enter, Reject, Exit, ProviderLimit, Adding, LimitTypeOK
    <3>. QED
      BY <3>1, <3>2, Shrinks
  <2>4. ASSUME NEW p \in Processes, Crash(p) PROVE BoundInv'
    BY <2>4, Shrinks DEF Crash, Adding
  <2>5. CASE Time \/ RedisMaxExpires \/ \E l \in Limits : Configure(l)
    BY <2>5, Shrinks DEF Time, Age, FlushDue, RedisMaxExpires, Configure, Adding, shared, local
  <2>6. CASE UNCHANGED limitVars
    BY <2>6, Shrinks DEF limitVars, Adding, shared, local
  <2>. QED
    BY <2>1, <2>2, <2>3, <2>4, <2>5, <2>6 DEF LimitNext, Admission
<1>3. BoundInv => BoundedOvershoot
  BY DEF BoundInv
<1>. QED
  BY <1>1, <1>2, <1>3, LimitTypeCorrect, PTL DEF LimitSpec

-----------------------------------------------------------------------------
(***************************************************************************)
(* A running request keeps its entry: no two threads hold one id, so what   *)
(* another request removes is never its own.                                *)
(***************************************************************************)

LiveInv ==
    /\ \A t \in Threads : id[t] # NoId => pc[t] = "running" /\ id[t] \in active \cup aged
    /\ \A t, u \in Threads : id[t] = id[u] /\ id[t] # NoId => t = u

\* The request of a thread is over, and the ids in "gone" may go with it.
LEMMA LiveLeaves ==
    ASSUME LimitTypeOK, LiveInv, NEW S \in SUBSET Threads,
           \A t \in Threads : id'[t] = IF t \in S THEN NoId ELSE id[t],
           \A t \in Threads \ S : pc'[t] = pc[t],
           \A t \in Threads \ S : id[t] \in active \cup aged => id[t] \in active' \cup aged'
    PROVE  LiveInv'
BY DEF LiveInv

\* A counted request that runs is in the hash until it is ten minutes old.
THEOREM LiveCounted == LimitSpec => []LiveAreCounted
<1>1. LimitInit => LiveInv
  BY DEF LimitInit, LiveInv
<1>2. LimitTypeOK /\ LiveInv /\ [LimitNext]_limitVars => LiveInv'
  <2> SUFFICES ASSUME LimitTypeOK, LiveInv, [LimitNext]_limitVars PROVE LiveInv'
    OBVIOUS
  <2> USE DEF shared, local
  <2>1. ASSUME NEW t \in Threads, Construct(t) \/ Enter(t) \/ EnterUnlimited(t) \/ Reject(t) \/ Pass(t)
        PROVE  LiveInv'
    <3>1. id' = id /\ pc[t] # "running" /\ \A u \in Threads \ {t} : pc'[u] = pc[u]
      BY <2>1 DEF Construct, Enter, EnterUnlimited, Reject, Pass, LimitTypeOK
    <3>2. \A u \in Threads : id[u] \in active \cup aged => id[u] \in active' \cup aged'
      BY <2>1 DEF Construct, Enter, EnterUnlimited, Reject, Pass, Flush, InHand
    <3>3. id[t] = NoId
      BY <3>1 DEF LiveInv
    <3>. QED
      BY <3>1, <3>2, <3>3 DEF LiveInv
  <2>2. ASSUME NEW t \in Threads, Add(t) PROVE LiveInv'
    <3>1. NewId \notin InHand /\ active' = active \cup {NewId} /\ aged' = aged
      BY <2>2, IdAssumption DEF Add, NewId, FreshIds
    <3>2. /\ id' = [id EXCEPT ![t] = NewId] /\ pc' = [pc EXCEPT ![t] = "running"]
          /\ pc \in [Threads -> {"idle", "enter", "count", "add", "running"}]
          /\ id \in [Threads -> Ids \cup {NoId}]
      BY <2>2 DEF Add, LimitTypeOK
    <3>3. \A u \in Threads : id[u] # NewId
      BY <3>1 DEF InHand
    <3>. QED
      BY <3>1, <3>2, <3>3 DEF LiveInv
  <2>3. ASSUME NEW t \in Threads, Exit(t) PROVE LiveInv'
    <3>1. /\ \A u \in Threads : id'[u] = IF u \in {t} THEN NoId ELSE id[u]
          /\ \A u \in Threads \ {t} : pc'[u] = pc[u]
      BY <2>3 DEF Exit, LimitTypeOK
    <3>2. \A u \in Threads \ {t} : id[u] \in active \cup aged => id[u] \in active' \cup aged'
      BY <2>3, IdAssumption DEF Exit, LiveInv, LimitTypeOK
    <3>. QED
      BY <3>1, <3>2, LiveLeaves
  <2>4. ASSUME NEW t \in Threads, ProviderLimit(t) PROVE LiveInv'
    <3>1. /\ \A u \in Threads : id'[u] = IF u \in {t} THEN NoId ELSE id[u]
          /\ \A u \in Threads \ {t} : pc'[u] = pc[u]
      BY <2>4 DEF ProviderLimit, LimitTypeOK
    <3>2. \A u \in Threads \ {t} : id[u] \in active \cup aged => id[u] \in active' \cup aged'
      BY <2>4 DEF ProviderLimit
    <3>. QED
      BY <3>1, <3>2, LiveLeaves
  <2>5. ASSUME NEW p \in Processes, Crash(p) PROVE LiveInv'
    <3> DEFINE S == {t \in Threads : ProcessOf[t] = p}
    <3>1. /\ \A u \in Threads : id'[u] = IF u \in S THEN NoId ELSE id[u]
          /\ \A u \in Threads \ S : pc'[u] = pc[u]
      BY <2>5 DEF Crash
    <3>2. \A u \in Threads \ S : id[u] \in active \cup aged => id[u] \in active' \cup aged'
      BY <2>5 DEF Crash
    <3>. QED
      BY <3>1, <3>2, LiveLeaves
  <2>6. CASE Time \/ RedisMaxExpires \/ \E l \in Limits : Configure(l)
    BY <2>6 DEF Time, Age, FlushDue, RedisMaxExpires, Configure, LiveInv
  <2>7. CASE UNCHANGED limitVars
    BY <2>7 DEF limitVars, LiveInv
  <2>. QED
    BY <2>1, <2>2, <2>3, <2>4, <2>5, <2>6, <2>7 DEF LimitNext, Admission
<1>3. LiveInv => LiveAreCounted
  BY DEF LiveInv, LiveAreCounted
<1>. QED
  BY <1>1, <1>2, <1>3, LimitTypeCorrect, PTL DEF LimitSpec

=============================================================================
