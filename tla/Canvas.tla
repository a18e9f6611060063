------------------------------- MODULE Canvas -------------------------------
(***************************************************************************)
(* The canvas of the workflow editor: nodes, the edges between their       *)
(* handles, iteration and loop containers with their children, the         *)
(* clipboard, the dialog that confirms the deletion of a container, and    *)
(* the history that undo and redo go through.                              *)
(* src/web/app/components/workflow: hooks/use-nodes-interactions.ts,       *)
(* use-edges-interactions.ts, use-workflow-history.ts, utils/workflow.ts.  *)
(*                                                                         *)
(* Positions, selection and the lists of connected handles, which the code *)
(* derives from the edges to draw them, are left out.                      *)
(***************************************************************************)
EXTENDS Naturals, Sequences, FiniteSets, SequencesExt

CONSTANTS
  Templates,      \* graphs the editor may be opened with
  AddKinds,       \* kinds of nodes the user adds
  MaxBranches,    \* PARALLEL_LIMIT
  OpsOn,          \* bound: operations of the user on each
  MaxId           \* bound: node ids

None == 999

ASSUME BoundsAssumption ==
  OpsOn \in [Templates -> Nat] /\ MaxBranches \in Nat /\ MaxId \in Nat /\ MaxId < None

VARIABLES
  canvas,         \* the store: nodes by id, and edges <<source, handle, target>>
  clip,           \* clipboardElements: nodes as they were when copied, by id
  dialog,         \* showConfirm: the container to delete, and its children by then
  past, present, future,   \* workflowHistoryStore and its temporal states
  pending,        \* the debounced save to the history
  next,           \* ids given so far
  ops,            \* bound: operations left
  lapses,         \* history: what the user did that nothing in the code minds
  hung            \* a loop of getParallelInfo does not end

vars == <<canvas, clip, dialog, past, present, future, pending, next, ops, lapses, hung>>
hist == <<past, present, future>>

Ids == 0..MaxId
Containers == {"iter", "loop"}
Kinds == {"start", "first", "code", "if", "join"} \cup Containers
Node == [kind : Kinds,
         parent : Ids \cup {None},    \* parentId
         mark : Ids \cup {None},      \* data.iteration_id or data.loop_id
         first : Ids \cup {None}]     \* data.start_node_id
HandleNames == {"source", "true", "false"}
NoDialog == [of |-> None, children |-> {}]

Handles(kind) == IF kind = "if" THEN {"true", "false"} ELSE {"source"}

IsGraph(g) ==
  /\ g = [nodes |-> g.nodes, edges |-> g.edges]
  /\ DOMAIN g.nodes \subseteq Ids /\ g.nodes \in [DOMAIN g.nodes -> Node]
  /\ g.edges \subseteq Ids \X HandleNames \X Ids

TypeOK ==
  /\ IsGraph(canvas) /\ IsGraph(present)
  /\ \A h \in {past, future} : \A i \in DOMAIN h : IsGraph(h[i])
  /\ DOMAIN clip \subseteq Ids /\ clip \in [DOMAIN clip -> Node]
  /\ dialog.of \in Ids \cup {None} /\ dialog.children \subseteq Ids
  /\ pending \in BOOLEAN /\ hung \in BOOLEAN
  /\ next \in Ids /\ ops \in Nat
  /\ lapses \subseteq {"forced", "dropped", "child pasted", "two pasted", "while open"}

Init ==
  /\ canvas \in Templates
  /\ clip = << >> /\ dialog = NoDialog
  /\ past = << >> /\ present = canvas /\ future = << >> /\ pending = FALSE
  /\ next = CHOOSE i \in DOMAIN canvas.nodes : \A j \in DOMAIN canvas.nodes : j <= i
  /\ ops = OpsOn[canvas] /\ lapses = {} /\ hung = FALSE

-----------------------------------------------------------------------------
(* Graphs *)
On(g) == DOMAIN g.nodes
Children(g, c) == {n \in On(g) : g.nodes[n].parent = c}
Joining(g, S) == {e \in g.edges : e[1] \in S \/ e[3] \in S}
Nexts(g, S) == {e[3] : e \in {d \in g.edges : d[1] \in S}}

(* What can be reached from a node by edges, itself only through a cycle *)
Beyond(g, n) ==
  LET B[k \in 0..Cardinality(On(g))] ==
        IF k = 0 THEN Nexts(g, {n}) ELSE LET b == B[k - 1] IN b \cup Nexts(g, b)
  IN B[Cardinality(On(g))]

(* What is left of S when nodes that lead to nothing in it are taken away, *)
(* again and again, is what leads to a cycle.                              *)
Cyclic(g, S) ==
  LET R[k \in 0..Cardinality(S)] ==
        IF k = 0 THEN S ELSE LET r == R[k - 1] IN {n \in r : Nexts(g, {n}) \cap r # {}}
  IN R[Cardinality(S)] # {}

(* The editor opens a graph that is whole: preprocessNodesAndEdges gives the *)
(* containers their start nodes, initialEdges leaves the edges of cycles out.*)
OneStart(g) == \E s \in On(g) : {n \in On(g) : g.nodes[n].kind = "start"} = {s}
OwnFirsts(g) ==
  \A n \in On(g) : g.nodes[n].kind \in Containers =>
    {c \in Children(g, n) : g.nodes[c].kind = "first"} = {g.nodes[n].first}
Marked(g) == \A n \in On(g) : g.nodes[n].kind # "first" => g.nodes[n].mark = g.nodes[n].parent
Level(g, e) == g.nodes[e[1]].parent = g.nodes[e[3]].parent

WellFormed(g) ==
  /\ IsGraph(g) /\ OneStart(g) /\ OwnFirsts(g) /\ Marked(g)
  /\ \A n \in On(g) : LET p == g.nodes[n].parent IN
       /\ g.nodes[n].kind \in Containers \cup {"start"} => p = None
       /\ p # None => p \in On(g) /\ g.nodes[p].kind \in Containers
  /\ \A e \in g.edges : /\ {e[1], e[3]} \subseteq On(g) /\ Level(g, e)
                         /\ g.nodes[e[3]].kind \notin {"start", "first"}
  /\ ~Cyclic(g, On(g))

ASSUME TemplateAssumption == \A g \in Templates : WellFormed(g)
ASSUME KindAssumption == AddKinds \subseteq Kinds \ {"start", "first"}

Fresh(kind, parent, mark) == [kind |-> kind, parent |-> parent, mark |-> mark, first |-> None]

(* generateNewNode: a container comes with its start node. *)
Generated(id, kind, parent, mark) ==
  IF kind \in Containers
  THEN [i \in {id, id + 1} |->
          IF i = id THEN [Fresh(kind, parent, mark) EXCEPT !.first = id + 1]
                    ELSE Fresh("first", id, None)]
  ELSE [i \in {id} |-> Fresh(kind, parent, mark)]

IdsFor(kind) == IF kind \in Containers THEN 2 ELSE 1

WithNodes(g, new) ==
  [g EXCEPT !.nodes = [n \in On(g) \cup DOMAIN new |-> IF n \in DOMAIN new THEN new[n] ELSE g.nodes[n]]]
WithEdges(g, E) == [g EXCEPT !.edges = @ \cup E]
WithoutEdges(g, E) == [g EXCEPT !.edges = @ \ E]

(* The nodes and the edges at them, children not minded *)
Without(g, S) ==
  [nodes |-> [n \in On(g) \ S |-> g.nodes[n]], edges |-> g.edges \ Joining(g, S)]

(* getParallelInfo walks from the start node of a level; it throws when the *)
(* container or its start node is missing, and never ends on a cycle.       *)
LevelStart(g, parent) ==
  IF parent = None THEN {n \in On(g) : g.nodes[n].kind = "start"}
  ELSE IF parent \in On(g) THEN {g.nodes[parent].first} \cap On(g) ELSE {}
Walked(g, parent) == LET s == LevelStart(g, parent) IN s \cup UNION {Beyond(g, n) : n \in s}
Throws(g, parent) == LevelStart(g, parent) = {}
Endless(g, parent) == Cyclic(g, Walked(g, parent))

(* hasAbnormalEdges: a branch of several that leads into a join *)
Abnormal(g, parent) ==
  \E n \in Walked(g, parent), h \in HandleNames :
    LET out == {e[3] : e \in {d \in g.edges : d[1] = n /\ d[2] = h}} IN
    /\ Cardinality(out) > 1
    /\ \E t \in out : Cardinality({e[1] : e \in {d \in g.edges : d[3] = t}}) > 1

-----------------------------------------------------------------------------
(* The canvas becomes g and its save to the history is put off. *)
Becomes(g) == canvas' = g /\ pending' = TRUE /\ UNCHANGED <<hist, hung>>
Stays == UNCHANGED <<canvas, pending, hist, hung>>

(* checkNestedParallelLimit, then the canvas becomes g; depths within it.    *)
(* The walk may leave its loop before it comes to an abnormal edge.          *)
Checked(g, parent) ==
  IF Throws(g, parent) THEN Stays
  ELSE IF Endless(g, parent) THEN hung' = TRUE /\ UNCHANGED <<canvas, pending, hist>>
  ELSE \/ Becomes(g)
       \/ Abnormal(g, parent) /\ Stays

(* isValidConnection *)
BranchFree(s, h) == Cardinality({e \in canvas.edges : e[1] = s /\ e[2] = h}) < MaxBranches
\* Mutant of ValidConnection: a cycle is looked for from the wrong end.
ValidBackwards(s, h, t) ==
  /\ BranchFree(s, h)
  /\ canvas.nodes[s].parent = canvas.nodes[t].parent
  /\ canvas.nodes[t].kind \notin {"start", "first"}
  /\ t \notin Beyond(canvas, s)

ValidConnection(s, h, t) ==
  /\ BranchFree(s, h)
  /\ canvas.nodes[s].parent = canvas.nodes[t].parent
  /\ canvas.nodes[t].kind \notin {"start", "first"}
  /\ s \notin Beyond(canvas, t)

(* handleNodeConnect *)
NodeConnect(s, h, t) ==
  /\ s # t /\ canvas.nodes[s].parent = canvas.nodes[t].parent
  /\ <<s, h, t>> \notin canvas.edges
  /\ Checked(WithEdges(canvas, {<<s, h, t>>}), canvas.nodes[t].parent)

Connect(s, h, t) ==
  /\ h \in Handles(canvas.nodes[s].kind)
  /\ ValidConnection(s, h, t)
  /\ NodeConnect(s, h, t)
  /\ UNCHANGED <<clip, dialog, next, lapses>>

(* handleNodeConnectEnd over the body of an aggregator: not asked whether it *)
(* is a valid connection.                                                    *)
DropOnJoin(s, h, t) ==
  /\ h \in Handles(canvas.nodes[s].kind) /\ canvas.nodes[t].kind = "join"
  /\ NodeConnect(s, h, t)
  /\ lapses' = IF ValidConnection(s, h, t) THEN lapses ELSE lapses \cup {"dropped"}
  /\ UNCHANGED <<clip, dialog, next>>

-----------------------------------------------------------------------------
Allowed(kind, parent) == kind \in Containers => parent = None
Takes(kind) == next + IdsFor(kind) <= MaxId /\ next' = next + IdsFor(kind)
NewNode(kind, parent) == Generated(next + 1, kind, parent, parent)

(* handleNodeAdd behind a handle *)
AddAfter(p, h, kind) ==
  LET parent == canvas.nodes[p].parent IN
  /\ Takes(kind) /\ Allowed(kind, parent)
  /\ h \in Handles(canvas.nodes[p].kind) /\ BranchFree(p, h)
  /\ Checked(WithEdges(WithNodes(canvas, NewNode(kind, parent)), {<<p, h, next + 1>>}), parent)
  /\ UNCHANGED <<clip, dialog, lapses>>

(* ... before a node: what branches is not connected, and then the top level *)
(* is checked.                                                               *)
AddBefore(n, kind) ==
  LET parent == canvas.nodes[n].parent
      g == WithNodes(canvas, NewNode(kind, parent)) IN
  /\ Takes(kind) /\ Allowed(kind, parent)
  /\ canvas.nodes[n].kind \notin {"start", "first"}
  /\ IF kind = "if" THEN Checked(g, None) ELSE Checked(WithEdges(g, {<<next + 1, "source", n>>}), parent)
  /\ UNCHANGED <<clip, dialog, lapses>>

(* ... on an edge: the edge taken away is the first between the two nodes,   *)
(* whatever its handle.  Edges are kept without their order: any of them.    *)
AddBetween(e, kind) ==
  LET parent == canvas.nodes[e[1]].parent IN
  /\ Takes(kind) /\ Allowed(kind, parent)
  /\ e \in canvas.edges
  /\ \E d \in canvas.edges :
       /\ d[1] = e[1] /\ d[3] = e[3]
       /\ Becomes(WithEdges(WithoutEdges(WithNodes(canvas, NewNode(kind, parent)), {d}),
                            {<<e[1], e[2], next + 1>>}
                              \cup IF kind = "if" THEN {} ELSE {<<next + 1, "source", e[3]>>}))
  /\ UNCHANGED <<clip, dialog, lapses>>

\* Mutant of Change: the edges of the node that is replaced stay.
ChangeAlone(n, kind) ==
  LET was == canvas.nodes[n] IN
  /\ Takes(kind) /\ Allowed(kind, was.parent)
  /\ was.kind \notin {"start", "first"} \cup Containers
  /\ Becomes([WithNodes(Without(canvas, {n}), Generated(next + 1, kind, was.parent, was.mark))
                EXCEPT !.edges = canvas.edges])
  /\ UNCHANGED <<clip, dialog, lapses>>

(* handleNodeChange: a new node in the place of one that is no container, *)
(* without its edges.                                                     *)
Change(n, kind) ==
  LET was == canvas.nodes[n] IN
  /\ Takes(kind) /\ Allowed(kind, was.parent)
  /\ was.kind \notin {"start", "first"} \cup Containers
  /\ Becomes(WithNodes(Without(canvas, {n}), Generated(next + 1, kind, was.parent, was.mark)))
  /\ UNCHANGED <<clip, dialog, lapses>>

-----------------------------------------------------------------------------
(* handleNodeDelete of a node: a container with children of its own asks     *)
(* first, unless the dialog is open already.                                 *)
Delete(n) ==
  LET kids == Children(canvas, n) IN
  /\ canvas.nodes[n].kind \notin {"start", "first"}
  /\ \/ /\ Cardinality(kids) > 1 /\ dialog = NoDialog
        /\ dialog' = [of |-> n, children |-> kids]
        /\ Stays /\ UNCHANGED lapses
     \/ /\ Cardinality(kids) > 1 /\ dialog # NoDialog
        /\ Becomes(Without(canvas, {n}))
        /\ lapses' = lapses \cup {"forced"} /\ UNCHANGED dialog
     \/ /\ Cardinality(kids) <= 1
        /\ Becomes(Without(canvas, {n} \cup kids))
        /\ UNCHANGED <<dialog, lapses>>
  /\ UNCHANGED <<clip, next>>

(* onConfirm deletes the children there were when the dialog was opened, and *)
(* then the container: the dialog counts as open, so what it has besides     *)
(* stays, unless it is a single node.                                        *)
Confirm ==
  /\ ~hung /\ dialog # NoDialog
  /\ LET g == Without(canvas, dialog.children)
         kids == Children(g, dialog.of) IN
     IF dialog.of \notin On(canvas)
     THEN (IF g = canvas THEN Stays ELSE Becomes(g)) /\ UNCHANGED lapses
     ELSE IF Cardinality(kids) > 1
     THEN Becomes(Without(g, {dialog.of})) /\ lapses' = lapses \cup {"while open"}
     ELSE Becomes(Without(g, {dialog.of} \cup kids)) /\ UNCHANGED lapses
  /\ dialog' = NoDialog
  /\ UNCHANGED <<clip, next, ops>>

Cancel ==
  /\ ~hung /\ dialog # NoDialog
  /\ dialog' = NoDialog
  /\ UNCHANGED <<canvas, clip, hist, pending, next, ops, lapses, hung>>

\* Mutant of DeleteBundle: the children are not looked for.
DeleteBundleAlone(S) ==
  /\ Cardinality(S) > 1 /\ \A n \in S : canvas.nodes[n].kind \notin {"start", "first"}
  /\ Becomes(Without(canvas, S))
  /\ UNCHANGED <<clip, dialog, next, lapses>>

(* Nodes selected together are deleted without a question, with children. *)
DeleteBundle(S) ==
  /\ Cardinality(S) > 1 /\ \A n \in S : canvas.nodes[n].kind \notin {"start", "first"}
  /\ Becomes(Without(canvas, S \cup UNION {Children(canvas, n) : n \in S}))
  /\ UNCHANGED <<clip, dialog, next, lapses>>

(* handleNodeDisconnect, handleEdgeDelete, handleEdgeDeleteByDeleteBranch *)
Disconnect(n) ==
  /\ Becomes(WithoutEdges(canvas, Joining(canvas, {n})))
  /\ UNCHANGED <<clip, dialog, next, lapses>>

EdgeDelete(e) ==
  /\ Becomes(WithoutEdges(canvas, {e}))
  /\ UNCHANGED <<clip, dialog, next, lapses>>

DeleteBranch(n, h) ==
  LET E == {e \in canvas.edges : e[1] = n /\ e[2] = h} IN
  /\ canvas.nodes[n].kind = "if" /\ E # {}
  /\ Becomes(WithoutEdges(canvas, E))
  /\ UNCHANGED <<clip, dialog, next, lapses>>

-----------------------------------------------------------------------------
(* handleNodesCopy: one node, or those selected together on the top level *)
Copied(S) == [n \in S |-> canvas.nodes[n]]
MayCopy(S) ==
  /\ S # {}
  /\ \A n \in S : canvas.nodes[n].kind \notin {"start", "first"}
  /\ Cardinality(S) > 1 => \A n \in S : canvas.nodes[n].mark = None

Copy(S) ==
  /\ MayCopy(S)
  /\ clip' = Copied(S)
  /\ Stays /\ UNCHANGED <<dialog, next, lapses>>

(* handleNodesPaste: new nodes on the top level, which keep what the old     *)
(* ones said about the container they were in, a container with copies of    *)
(* the children it has now, an iteration also with the edges between them.   *)
(* A start node is named by the time alone: containers pasted together in    *)
(* one millisecond get the same, and the last of them keeps it.  Nodes are   *)
(* kept without their order, so it may be any.  Without the start node of    *)
(* the copied iteration the handler throws.                                  *)
Old(n) == {c \in Children(canvas, n) : canvas.nodes[c].kind # "first"}
ClipOf(kinds) == {n \in DOMAIN clip : clip[n].kind \in kinds}
Copies == DOMAIN clip \cup UNION {Old(n) : n \in ClipOf(Containers)}

Pasted(id, start, keeper) ==
  [i \in {id[n] : n \in Copies} \cup {start[n] : n \in DOMAIN start} |->
     IF \E n \in Copies : id[n] = i
     THEN LET n == CHOOSE m \in Copies : id[m] = i IN
          IF n \in DOMAIN clip
          THEN [clip[n] EXCEPT !.parent = None,
                               !.first = IF n \in DOMAIN start THEN start[n] ELSE None]
          ELSE LET c == id[canvas.nodes[n].parent] IN [canvas.nodes[n] EXCEPT !.parent = c, !.mark = c]
     ELSE Fresh("first", id[keeper[i]], None)]

PastedEdges(id, start) ==
  LET new(n) == IF n \in Copies THEN id[n] ELSE start[canvas.nodes[n].parent] IN
  {<<new(e[1]), e[2], new(e[3])>> :
     e \in {d \in canvas.edges : \E c \in ClipOf({"iter"}) : {d[1], d[3]} \subseteq Children(canvas, c)}}
NumberedFrom(k, S) == [n \in S |-> k + Cardinality({m \in S : m <= n})]

Paste ==
  /\ clip # << >>
  /\ IF \E n \in ClipOf({"iter"}) : Children(canvas, n) = Old(n)
     THEN Stays /\ UNCHANGED <<next, lapses>>
     ELSE \E same \in BOOLEAN :
       LET boxes == ClipOf(Containers)
           id == NumberedFrom(next, Copies)
           last == next + Cardinality(Copies)
           start == IF same THEN [n \in boxes |-> last + 1] ELSE NumberedFrom(last, boxes)
           starts == {start[n] : n \in boxes} IN
       /\ same => Cardinality(boxes) > 1
       /\ next' = last + Cardinality(starts) /\ next' <= MaxId
       /\ \E keeper \in [starts -> boxes] :
            /\ \A i \in starts : start[keeper[i]] = i
            /\ Becomes(WithEdges(WithNodes(canvas, Pasted(id, start, keeper)), PastedEdges(id, start)))
       /\ lapses' = lapses \cup (IF same THEN {"two pasted"} ELSE {})
                           \cup (IF \E n \in DOMAIN clip : clip[n].mark # None THEN {"child pasted"} ELSE {})
  /\ UNCHANGED <<clip, dialog>>

-----------------------------------------------------------------------------
(* Half a second after the last operation saveStateToHistory writes what the *)
(* canvas is by then; a state that is the same is kept when its event is not.*)
SaveHistory ==
  /\ pending /\ ~hung
  /\ pending' = FALSE
  /\ \/ past' = Append(past, present) /\ present' = canvas /\ future' = << >>
     \/ canvas = present /\ UNCHANGED hist
  /\ UNCHANGED <<canvas, clip, dialog, next, ops, lapses, hung>>

\* Mutant of Undo: with nothing to undo the canvas is left alone, the history not.
UndoPast ==
  /\ past # << >> /\ future' = <<canvas>> \o future
  /\ present' = Last(past) /\ past' = Front(past)
  /\ canvas' = IF pending THEN canvas ELSE present
  /\ UNCHANGED <<clip, dialog, pending, next, lapses, hung>>

(* handleHistoryBack: the canvas is what the history says afterwards, also *)
(* when there was nothing to undo.                                         *)
Undo ==
  /\ (past # << >> \/ canvas # present)
  /\ IF past = << >> THEN UNCHANGED hist
     ELSE present' = Last(past) /\ past' = Front(past) /\ future' = <<present>> \o future
  /\ canvas' = present'
  /\ UNCHANGED <<clip, dialog, pending, next, lapses, hung>>

(* handleHistoryForward *)
Redo ==
  /\ (future # << >> \/ canvas # present)
  /\ IF future = << >> THEN UNCHANGED hist
     ELSE present' = Head(future) /\ future' = Tail(future) /\ past' = Append(past, present)
  /\ canvas' = present'
  /\ UNCHANGED <<clip, dialog, pending, next, lapses, hung>>

-----------------------------------------------------------------------------
Mouse ==
  \/ \E s, t \in On(canvas), h \in HandleNames : Connect(s, h, t) \/ DropOnJoin(s, h, t)
  \/ \E n \in On(canvas), k \in AddKinds, h \in HandleNames : AddAfter(n, h, k)
  \/ \E n \in On(canvas), k \in AddKinds : AddBefore(n, k) \/ Change(n, k)
  \/ \E e \in canvas.edges, k \in AddKinds : AddBetween(e, k)
  \/ \E n \in On(canvas) : Disconnect(n)
  \/ \E n \in On(canvas), h \in HandleNames : DeleteBranch(n, h)

Keyboard ==
  \/ \E n \in On(canvas) : Delete(n)
  \/ \E e \in canvas.edges : EdgeDelete(e)
  \/ \E S \in SUBSET On(canvas) : DeleteBundle(S) \/ Copy(S)
  \/ Paste \/ Undo \/ Redo

(* The dialog keeps the mouse from the canvas, not the keyboard. *)
User ==
  /\ ~hung /\ ops > 0
  /\ ops' = ops - 1
  /\ Keyboard \/ (dialog = NoDialog /\ Mouse)

Next == User \/ Confirm \/ Cancel \/ SaveHistory

Spec == Init /\ [][Next]_vars

-----------------------------------------------------------------------------
(* An edge joins two nodes that are both on the canvas, and of one level    *)
(* unless containers were pasted together in one millisecond.               *)
EdgesOnOneLevel ==
  \A e \in canvas.edges :
    /\ {e[1], e[3]} \subseteq On(canvas)
    /\ "two pasted" \notin lapses => Level(canvas, e)

(* A node is left without its container only where a deletion was forced    *)
(* past the open dialog, or children came back while it was open.           *)
OrphansHaveCause ==
  (\E n \in On(canvas) : canvas.nodes[n].parent \notin On(canvas) \cup {None})
    => lapses \cap {"forced", "while open"} # {}

(* There is one start node, and every container has a start node of its own *)
(* unless containers were pasted together in one millisecond.               *)
StartsInPlace ==
  /\ OneStart(canvas)
  /\ "two pasted" \notin lapses => OwnFirsts(canvas)

(* There is no cycle, and the page never hangs over one, unless a           *)
(* connection was dropped on an aggregator's body that would be invalid.    *)
CyclesHaveCause == hung \/ Cyclic(canvas, On(canvas)) => "dropped" \in lapses

(* A node says it is in the container it is in, unless it is a pasted copy  *)
(* of one that was in a container.                                          *)
MarksAgree == "child pasted" \notin lapses => Marked(canvas)

(* The canvas is a graph of levels: nodes, edges and containers agree. *)
CanvasInv == TypeOK /\ EdgesOnOneLevel /\ StartsInPlace /\ MarksAgree

(* When no save is put off, undo goes back from what the canvas shows: the  *)
(* history and the canvas have not come apart.                              *)
HistoryIsCanvas == pending \/ hung \/ present = canvas
=============================================================================
