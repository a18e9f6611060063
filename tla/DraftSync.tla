----------------------------- MODULE DraftSync -----------------------------
(***************************************************************************)
(* How the workflow editor keeps the draft of a workflow in step with its  *)
(* canvas.  Browser tabs edit copies of one draft; a save carries the hash *)
(* of the draft the tab has last seen and is refused when the draft has    *)
(* another, whereupon the tab loads the draft anew.  Tabs also look at     *)
(* older versions and at the graphs of earlier runs on the same canvas,    *)
(* put a backup back afterwards, save by beacon when they are hidden and   *)
(* load the draft when they come back.                                     *)
(* src/web/app/components/workflow-app/hooks and workflow/, and            *)
(* sync_draft_workflow of src/api/services/workflow_service.py.            *)
(*                                                                         *)
(* A graph is the set of the edits it contains; its hash is the graph.     *)
(***************************************************************************)
EXTENDS Naturals, FiniteSets

CONSTANTS
  Tabs,                \* tabs with the editor open
  Edits, EditorOf,     \* edits the users make, each once, and the tab of each
  Old,                 \* what tells the graph of an older version or run
  Viewers, Runners,    \* bound: tabs that look at older graphs, tabs that run the draft,
  Wanderers,           \* tabs that are hidden, or left
  MaxLooks,            \* bound: how often a tab runs the draft, looks at an older
                       \* graph, or is hidden
  Ids                  \* bound: one for each save that is sent

ASSUME EditsAssumption == EditorOf \in [Edits -> Tabs] /\ Old \notin Edits
ASSUME UsersAssumption == MaxLooks \in Nat /\ Wanderers \subseteq Tabs /\ Viewers \subseteq Tabs /\ Runners \subseteq Tabs
ASSUME TabsAssumption == Tabs # {}

VARIABLES
  draft,      \* the server: graph of the draft
  posts,      \* saves sent, and how far each is
  canvas,     \* nodes and edges of each tab
  hash,       \* syncWorkflowDraftHash of each tab
  mode,       \* editing, or showing an older run or version
  backup,     \* backupDraft
  run,        \* not running, saving before the run, running
  due,        \* the debounced save is pending
  gone,       \* the tab is closed, or shows another page
  fetch,      \* the refresh of a tab
  detail,     \* a tab waits for the detail of an earlier run
  made,       \* history: edits made
  looks,      \* history: runs, looks at older graphs and away of each tab
  follows,    \* history: the canvas goes back to the draft the hash stands for
  lapsed,     \* history: a save of the tab was left out or failed
  unsound     \* history: a save was committed that was not sound

ghosts == <<made, looks, follows, lapsed, unsound>>
vars == <<draft, posts, canvas, hash, mode, backup, run, due, gone, fetch, detail,
          made, looks, follows, lapsed, unsound>>

Graphs == SUBSET (Edits \cup {Old})
NoBackup == [on |-> FALSE, graph |-> {}]
NoFetch == [st |-> "none", graph |-> {}]
Posts == [tab : Tabs, kind : {"save", "run", "beacon"},
          st : {"none", "sent", "checked", "saved", "refused", "over"},
          graph : Graphs, hash : Graphs,
          sound : BOOLEAN,     \* the graph goes back to the hash, and no other save came
                               \* between the check and the commit
          replaced : BOOLEAN]  \* the canvas was replaced since it was sent

TypeOK ==
  /\ draft \in Graphs /\ made \subseteq Edits /\ looks \in [Tabs -> 0..MaxLooks]
  /\ posts \in [Ids -> Posts]
  /\ canvas \in [Tabs -> Graphs]
  /\ hash \in [Tabs -> Graphs]
  /\ mode \in [Tabs -> {"edit", "history", "restoring"}]
  /\ backup \in [Tabs -> [on : BOOLEAN, graph : Graphs]]
  /\ run \in [Tabs -> {"no", "saving", "running"}]
  /\ due \in [Tabs -> BOOLEAN]
  /\ gone \in [Tabs -> BOOLEAN]
  /\ fetch \in [Tabs -> [st : {"none", "due", "asked", "answered"}, graph : Graphs]]
  /\ detail \in [Tabs -> BOOLEAN]
  /\ follows \in [Tabs -> BOOLEAN]
  /\ lapsed \in [Tabs -> BOOLEAN] /\ unsound \in BOOLEAN

Blank(st) == [tab |-> CHOOSE t \in Tabs : TRUE, kind |-> "save", st |-> st, graph |-> {},
              hash |-> {}, sound |-> TRUE, replaced |-> FALSE]
(* A save whose answer has been read, or is not waited for *)
Over == Blank("over")

(* Every tab has loaded the draft (useWorkflowInit). *)
Init ==
  /\ draft = {} /\ made = {} /\ looks = [t \in Tabs |-> 0]
  /\ posts = [i \in Ids |-> Blank("none")]
  /\ canvas = [t \in Tabs |-> {}]
  /\ hash = [t \in Tabs |-> {}]
  /\ mode = [t \in Tabs |-> "edit"]
  /\ backup = [t \in Tabs |-> NoBackup]
  /\ run = [t \in Tabs |-> "no"]
  /\ due = [t \in Tabs |-> FALSE]
  /\ gone = [t \in Tabs |-> FALSE]
  /\ fetch = [t \in Tabs |-> NoFetch]
  /\ detail = [t \in Tabs |-> FALSE]
  /\ follows = [t \in Tabs |-> TRUE]
  /\ lapsed = [t \in Tabs |-> FALSE] /\ unsound = FALSE

-----------------------------------------------------------------------------
(* getNodesReadOnly *)
ReadOnly(t) == run[t] = "running" \/ mode[t] # "edit"

(* isSyncingWorkflowDraft: the modal is over the canvas. *)
Syncing(t) == fetch[t].st \in {"asked", "answered"}

(* The user can reach the canvas and the header. *)
AtHand(t) == ~gone[t] /\ ~Syncing(t) /\ run[t] # "running"

(* getPostParams: the canvas g with the hash as it is *)
Post(t, kind, g) ==
  [tab |-> t, kind |-> kind, st |-> "sent", graph |-> g, hash |-> hash[t],
   sound |-> follows[t], replaced |-> FALSE]

Sends(post) == \E i \in Ids : posts[i].st = "none" /\ posts' = [posts EXCEPT ![i] = post]

(* Posts of t in flight when the canvas is replaced under them *)
Outdated(t, ps) ==
  [i \in Ids |-> IF ps[i].tab = t /\ ps[i].st \notin {"none", "over"} THEN [ps[i] EXCEPT !.replaced = TRUE] ELSE ps[i]]

(* An edit, saved at once or by the debounced save. *)
Edit(t, e) ==
  /\ AtHand(t) /\ mode[t] = "edit"
  /\ e \notin made /\ EditorOf[e] = t
  /\ made' = made \cup {e}
  /\ canvas' = [canvas EXCEPT ![t] = @ \cup {e}]
  /\ \/ due' = [due EXCEPT ![t] = TRUE] /\ UNCHANGED posts
     \/ Sends(Post(t, "save", canvas'[t])) /\ UNCHANGED due
  /\ UNCHANGED <<draft, hash, mode, backup, run, gone, fetch, detail, looks, follows, lapsed, unsound>>

\* Mutant of Debounced: the save is left out when another is on its way.
DebouncedAlone(t) ==
  /\ due[t] /\ ~gone[t]
  /\ due' = [due EXCEPT ![t] = FALSE]
  /\ IF ReadOnly(t) THEN lapsed' = [lapsed EXCEPT ![t] = TRUE] /\ UNCHANGED posts
     ELSE IF \E i \in Ids : posts[i].tab = t /\ posts[i].st \in {"sent", "checked"}
     THEN UNCHANGED <<posts, lapsed>>
     ELSE Sends(Post(t, "save", canvas[t])) /\ UNCHANGED lapsed
  /\ UNCHANGED <<draft, canvas, hash, mode, backup, run, gone, fetch, detail, made, looks, follows, unsound>>

(* Five seconds after the last edit: doSyncWorkflowDraft. *)
Debounced(t) ==
  /\ due[t] /\ ~gone[t]
  /\ due' = [due EXCEPT ![t] = FALSE]
  /\ IF ReadOnly(t)
     THEN lapsed' = [lapsed EXCEPT ![t] = TRUE] /\ UNCHANGED posts
     ELSE Sends(Post(t, "save", canvas[t])) /\ UNCHANGED lapsed
  /\ UNCHANGED <<draft, canvas, hash, mode, backup, run, gone, fetch, detail, made, looks, follows, unsound>>

(* handleRun saves first and waits for the outcome, whatever it is. *)
StartRun(t) ==
  /\ t \in Runners /\ AtHand(t) /\ mode[t] = "edit" /\ run[t] = "no"
  /\ looks[t] < MaxLooks /\ looks' = [looks EXCEPT ![t] = @ + 1]
  /\ run' = [run EXCEPT ![t] = "saving"]
  /\ Sends(Post(t, "run", canvas[t]))
  /\ UNCHANGED <<draft, canvas, hash, mode, backup, due, gone, fetch, detail, made, follows, lapsed, unsound>>

EndRun(t) ==
  /\ run[t] = "running"
  /\ run' = [run EXCEPT ![t] = "no"]
  /\ UNCHANGED <<draft, posts, canvas, hash, mode, backup, due, gone, fetch, detail, ghosts>>

-----------------------------------------------------------------------------
Waits(i) == posts[i].kind # "beacon" /\ ~gone[posts[i].tab]

\* Mutant of Check: a beacon, which nobody can refresh for, is not compared.
CheckSaves(i) ==
  /\ posts[i].st = "sent"
  /\ posts' = [posts EXCEPT ![i] =
                 IF draft = @.hash \/ @.kind = "beacon" THEN [@ EXCEPT !.st = "checked"]
                 ELSE IF Waits(i) THEN [@ EXCEPT !.st = "refused"] ELSE Over]
  /\ UNCHANGED <<draft, canvas, hash, mode, backup, run, due, gone, fetch, detail, ghosts>>

(* sync_draft_workflow compares the hash ... *)
Check(i) ==
  /\ posts[i].st = "sent"
  /\ posts' = [posts EXCEPT ![i] =
                 IF draft = @.hash THEN [@ EXCEPT !.st = "checked"]
                 ELSE IF Waits(i) THEN [@ EXCEPT !.st = "refused"] ELSE Over]
  /\ UNCHANGED <<draft, canvas, hash, mode, backup, run, due, gone, fetch, detail, ghosts>>

(* ... and commits; a save that was checked before does not look again. *)
Commit(i) ==
  /\ posts[i].st = "checked"
  /\ draft' = posts[i].graph
  /\ posts' = [j \in Ids |->
                 IF j = i
                 THEN IF Waits(i) THEN [posts[j] EXCEPT !.st = "saved"] ELSE Over
                 ELSE IF posts[j].st = "checked" THEN [posts[j] EXCEPT !.sound = FALSE]
                 ELSE posts[j]]
  /\ unsound' = (unsound \/ ~posts[i].sound)
  /\ UNCHANGED <<canvas, hash, mode, backup, run, due, gone, fetch, detail, made, looks, follows, lapsed>>

(* The tab goes on when the save is settled: a run is begun. *)
Settles(t, kind) ==
  run' = IF kind = "run" /\ run[t] = "saving" THEN [run EXCEPT ![t] = "running"] ELSE run

(* The answer: the hash of what was saved is kept. *)
Saved(i) ==
  LET p == posts[i]
      t == p.tab IN
  /\ p.st = "saved" /\ Waits(i)
  /\ hash' = [hash EXCEPT ![t] = p.graph]
  /\ follows' = [follows EXCEPT ![t] = ~p.replaced]
  /\ lapsed' = [lapsed EXCEPT ![t] = @ /\ canvas[t] # p.graph]
  /\ posts' = [posts EXCEPT ![i] = Over]
  /\ Settles(t, p.kind)
  /\ UNCHANGED <<draft, canvas, mode, backup, due, gone, fetch, detail, made, looks, unsound>>

(* The answer is draft_workflow_not_sync: the draft is loaded anew, once the *)
(* refresh under way is over.                                                *)
Refused(i) ==
  LET t == posts[i].tab IN
  /\ posts[i].st = "refused" /\ Waits(i)
  /\ ~Syncing(t)
  /\ fetch' = [fetch EXCEPT ![t] = [st |-> "asked", graph |-> {}]]
  /\ posts' = [posts EXCEPT ![i] = Over]
  /\ Settles(t, posts[i].kind)
  /\ UNCHANGED <<draft, canvas, hash, mode, backup, due, gone, detail, ghosts>>

(* The connection fails before the server has it or after: nothing is done *)
(* about it, and nothing is sent again.                                    *)
Broken(i) ==
  LET t == posts[i].tab IN
  /\ posts[i].st \in {"sent", "saved"} /\ Waits(i)
  /\ lapsed' = [lapsed EXCEPT ![t] = TRUE]
  /\ posts' = [posts EXCEPT ![i] = Over]
  /\ Settles(t, posts[i].kind)
  /\ UNCHANGED <<draft, canvas, hash, mode, backup, due, gone, fetch, detail, made, looks, follows, unsound>>

-----------------------------------------------------------------------------
(* handleRefreshWorkflowDraft: half a second after the tab is back ... *)
Refresh(t) ==
  /\ fetch[t].st = "due" /\ ~gone[t]
  /\ fetch' = [fetch EXCEPT ![t].st = "asked"]
  /\ UNCHANGED <<draft, posts, canvas, hash, mode, backup, run, due, gone, detail, ghosts>>

Read(t) ==
  /\ fetch[t].st = "asked"
  /\ fetch' = [fetch EXCEPT ![t] = [st |-> "answered", graph |-> draft]]
  /\ UNCHANGED <<draft, posts, canvas, hash, mode, backup, run, due, gone, detail, ghosts>>

\* Mutant of Refreshed: a canvas with a save pending is not replaced.
RefreshedUnlessDue(t) ==
  /\ fetch[t].st = "answered" /\ ~gone[t]
  /\ fetch' = [fetch EXCEPT ![t] = NoFetch]
  /\ canvas' = IF due[t] THEN canvas ELSE [canvas EXCEPT ![t] = fetch[t].graph]
  /\ hash' = [hash EXCEPT ![t] = fetch[t].graph]
  /\ posts' = Outdated(t, posts)
  /\ follows' = [follows EXCEPT ![t] = mode[t] = "edit"]
  /\ lapsed' = [lapsed EXCEPT ![t] = @ /\ mode[t] # "edit"]
  /\ UNCHANGED <<draft, mode, backup, run, due, gone, detail, made, looks, unsound>>

(* ... the canvas and the hash become those of the draft, in every mode. *)
Refreshed(t) ==
  /\ fetch[t].st = "answered" /\ ~gone[t]
  /\ fetch' = [fetch EXCEPT ![t] = NoFetch]
  /\ canvas' = [canvas EXCEPT ![t] = fetch[t].graph]
  /\ hash' = [hash EXCEPT ![t] = fetch[t].graph]
  /\ posts' = Outdated(t, posts)
  /\ follows' = [follows EXCEPT ![t] = mode[t] = "edit"]
  /\ lapsed' = [lapsed EXCEPT ![t] = @ /\ mode[t] # "edit"]
  /\ UNCHANGED <<draft, mode, backup, run, due, gone, detail, made, looks, unsound>>

(* It fails: finally takes the modal away. *)
RefreshFails(t) ==
  /\ Syncing(t) /\ ~gone[t]
  /\ fetch' = [fetch EXCEPT ![t] = NoFetch]
  /\ lapsed' = [lapsed EXCEPT ![t] = TRUE]
  /\ UNCHANGED <<draft, posts, canvas, hash, mode, backup, run, due, gone, detail, made, looks, follows, unsound>>

-----------------------------------------------------------------------------
(* handleBackupDraft: the save it asks for is left out, as the mode is set *)
(* before and makes the canvas read-only.                                  *)
View(t, m) ==
  /\ t \in Viewers /\ AtHand(t) /\ run[t] = "no" /\ mode[t] = "edit"
  /\ looks[t] < MaxLooks /\ looks' = [looks EXCEPT ![t] = @ + 1]
  /\ mode' = [mode EXCEPT ![t] = m]
  /\ IF backup[t].on THEN UNCHANGED <<backup, lapsed>>
     ELSE /\ backup' = [backup EXCEPT ![t] = [on |-> TRUE, graph |-> canvas[t]]]
          /\ lapsed' = [lapsed EXCEPT ![t] = @ \/ canvas[t] # hash[t]]
  /\ detail' = [detail EXCEPT ![t] = @ \/ m = "history"]
  /\ UNCHANGED <<draft, posts, canvas, hash, run, due, gone, fetch, made, follows, unsound>>

(* A version of the list is clicked: handleRestoreFromPublishedWorkflow. *)
ShowVersion(t) ==
  /\ AtHand(t) /\ mode[t] = "restoring"
  /\ canvas' = [canvas EXCEPT ![t] = {Old}]
  /\ UNCHANGED <<draft, posts, hash, mode, backup, run, due, gone, fetch, detail, ghosts>>

(* The detail of the run arrives: getResultCallback puts its graph on the  *)
(* canvas, also when the user has gone back to editing since.              *)
ShowRun(t) ==
  /\ detail[t] /\ ~gone[t]
  /\ detail' = [detail EXCEPT ![t] = FALSE]
  /\ canvas' = [canvas EXCEPT ![t] = {Old}]
  /\ posts' = IF mode[t] = "edit" THEN Outdated(t, posts) ELSE posts
  /\ follows' = IF mode[t] = "edit" THEN [follows EXCEPT ![t] = FALSE] ELSE follows
  /\ UNCHANGED <<draft, hash, mode, backup, run, due, gone, fetch, made, looks, lapsed, unsound>>

(* handleLoadBackupDraft, then the mode is left. *)
GoBack(t) ==
  /\ AtHand(t) /\ mode[t] # "edit"
  /\ mode' = [mode EXCEPT ![t] = "edit"]
  /\ canvas' = IF backup[t].on THEN [canvas EXCEPT ![t] = backup[t].graph] ELSE canvas
  /\ backup' = [backup EXCEPT ![t] = NoBackup]
  /\ UNCHANGED <<draft, posts, hash, run, due, gone, fetch, detail, ghosts>>

(* handleRestore: the version on the canvas is saved as the draft. *)
Restore(t) ==
  /\ AtHand(t) /\ mode[t] = "restoring" /\ canvas[t] = {Old}
  /\ mode' = [mode EXCEPT ![t] = "edit"]
  /\ backup' = [backup EXCEPT ![t] = NoBackup]
  /\ follows' = [follows EXCEPT ![t] = FALSE]
  /\ \E i \in Ids :
       /\ posts[i].st = "none"
       /\ posts' = [Outdated(t, posts) EXCEPT
                      ![i] = [Post(t, "save", canvas[t]) EXCEPT !.sound = FALSE]]
  /\ UNCHANGED <<draft, canvas, hash, run, due, gone, fetch, detail, made, looks, lapsed, unsound>>

-----------------------------------------------------------------------------
(* visibilitychange: a beacon saves when the tab is hidden, and nobody      *)
(* reads its answer; when the tab is shown again a refresh is due.  What    *)
(* happens while it is hidden can as well happen before the refresh.        *)
LookAway(t) ==
  /\ t \in Wanderers /\ ~gone[t] /\ fetch[t].st = "none"
  /\ looks[t] < MaxLooks /\ looks' = [looks EXCEPT ![t] = @ + 1]
  /\ fetch' = [fetch EXCEPT ![t] = [st |-> "due", graph |-> {}]]
  /\ IF ReadOnly(t) THEN UNCHANGED posts ELSE Sends(Post(t, "beacon", canvas[t]))
  /\ UNCHANGED <<draft, canvas, hash, mode, backup, run, due, gone, detail, made, follows, lapsed, unsound>>

(* The tab is closed, which hides it first, or the editor is left for       *)
(* another page of the console, which saves a last time without minding     *)
(* the outcome (notRefreshWhenSyncError).                                   *)
Leave(t) ==
  /\ t \in Wanderers /\ ~gone[t]
  /\ gone' = [gone EXCEPT ![t] = TRUE]
  /\ IF ReadOnly(t) THEN UNCHANGED posts
     ELSE Sends(Post(t, "beacon", canvas[t]))
  /\ due' = [due EXCEPT ![t] = FALSE]
  /\ fetch' = [fetch EXCEPT ![t] = NoFetch]
  /\ detail' = [detail EXCEPT ![t] = FALSE]
  /\ canvas' = [canvas EXCEPT ![t] = {}]      \* nobody sees these any more
  /\ hash' = [hash EXCEPT ![t] = {}]
  /\ mode' = [mode EXCEPT ![t] = "edit"]
  /\ backup' = [backup EXCEPT ![t] = NoBackup]
  /\ run' = [run EXCEPT ![t] = "no"]
  /\ follows' = [follows EXCEPT ![t] = TRUE]
  /\ lapsed' = [lapsed EXCEPT ![t] = FALSE]
  /\ UNCHANGED <<draft, made, looks, unsound>>

-----------------------------------------------------------------------------
UserActs(t) ==
  \/ \E e \in Edits : Edit(t, e)
  \/ StartRun(t) \/ ShowVersion(t) \/ GoBack(t) \/ Restore(t)
  \/ \E m \in {"history", "restoring"} : View(t, m)
  \/ LookAway(t) \/ Leave(t)

TabRuns(t) == Debounced(t) \/ EndRun(t) \/ Refresh(t) \/ Refreshed(t) \/ ShowRun(t)
Answered(i) == Saved(i) \/ Refused(i)

Next ==
  \/ \E t \in Tabs : UserActs(t) \/ TabRuns(t) \/ Read(t) \/ RefreshFails(t)
  \/ \E i \in Ids : Check(i) \/ Commit(i) \/ Answered(i) \/ Broken(i)

Spec == Init /\ [][Next]_vars

-----------------------------------------------------------------------------
(* The hash a tab would send stands for a graph its canvas goes back to, or  *)
(* for one the backup it will put back goes back to, unless the canvas has   *)
(* been replaced since by something else than a refresh of the edited draft. *)
HashStandsForCanvas ==
  \A t \in Tabs : follows[t] => hash[t] \subseteq IF mode[t] = "edit" THEN canvas[t] ELSE backup[t].graph

(* The tabs are well formed, and their hashes go with what they would send. *)
HashInv == TypeOK /\ HashStandsForCanvas

(* A save that was refused nothing keeps every edit the draft had, whoever   *)
(* made it and however stale the tab, if its graph goes back to the hash it  *)
(* carried and no other save was committed since the hashes were compared.   *)
SavedEditsStay ==
  [][\A i \in Ids : posts[i].st = "checked" /\ posts[i].sound /\ posts'[i].st # "checked"
       => draft \subseteq draft']_vars

InFlight(t) == \E i \in Ids : posts[i].tab = t /\ posts[i].st \notin {"none", "over"}

(* No edit is lost unawares: when nothing is under way in a tab, and none of *)
(* its saves was left out or failed, the draft has what the tab shows,       *)
(* unless somebody's save that was not sound came over it.                   *)
ShownIsSaved ==
  \A t \in Tabs :
    /\ mode[t] = "edit" /\ run[t] = "no" /\ ~due[t] /\ fetch[t].st = "none" /\ ~InFlight(t)
    /\ follows[t] /\ ~lapsed[t] /\ ~unsound
    => canvas[t] \subseteq draft
=============================================================================
