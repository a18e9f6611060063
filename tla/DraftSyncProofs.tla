--------------------------- MODULE DraftSyncProofs ---------------------------
(***************************************************************************)
(* Theorems about DraftSync: with any number of tabs, edits and saves, the *)
(* hash of a tab goes with its canvas, a sound save loses nobody's edits,  *)
(* and what a tab shows is saved unless there is a cause that is named.    *)
(***************************************************************************)
EXTENDS DraftSync, TLAPS

(* The graph a tab edits: it is put back when an older one has been looked at. *)
Edited(t) == IF mode[t] = "edit" THEN canvas[t] ELSE backup[t].graph

OnItsWay(i) == posts[i].st \notin {"none", "over"}

(* The canvas goes back to the draft of the hash, or of a hash that is coming. *)
Tracked(t) ==
  follows[t] \/ \E i \in Ids : posts[i].tab = t /\ OnItsWay(i) /\ posts[i].sound /\ ~posts[i].replaced

(* A save of t has what t edits, and its outcome will be looked at. *)
Covers(t, i) ==
  /\ posts[i].tab = t /\ posts[i].kind # "beacon" /\ posts[i].st \in {"sent", "checked", "refused"}
  /\ Edited(t) \subseteq posts[i].graph

Covered(t) == due[t] \/ fetch[t].st # "none" \/ Edited(t) \subseteq draft \/ \E i \in Ids : Covers(t, i)

(* What holds of a tab *)
TabInv(t) ==
  /\ backup[t].on <=> mode[t] # "edit"
  /\ gone[t] => canvas[t] = {} /\ mode[t] = "edit"
  /\ follows[t] => hash[t] \subseteq Edited(t)
  /\ ~unsound =>
       /\ fetch[t].st = "answered" => fetch[t].graph \subseteq draft
       /\ Tracked(t) /\ ~gone[t] =>
            /\ Old \notin Edited(t)
            /\ mode[t] # "edit" => canvas[t] \in {backup[t].graph, {Old}}
            /\ ~lapsed[t] => Covered(t)

(* What holds of a save *)
PostInv(i) ==
  /\ OnItsWay(i) /\ ~posts[i].replaced /\ ~gone[posts[i].tab] => posts[i].graph \subseteq Edited(posts[i].tab)
  /\ posts[i].st \in {"sent", "checked"} /\ posts[i].sound =>
       /\ posts[i].hash \subseteq posts[i].graph
       /\ posts[i].st = "checked" => draft = posts[i].hash
       /\ unsound \/ Old \notin posts[i].graph
  /\ posts[i].st = "saved" => unsound \/ (posts[i].sound /\ posts[i].graph \subseteq draft)

(* The inductive invariant *)
IInv ==
  /\ TypeOK
  /\ unsound \/ Old \notin draft
  /\ \A t \in Tabs : TabInv(t)
  /\ \A i \in Ids : PostInv(i)

-----------------------------------------------------------------------------
(* The saves as records *)

Stages == {"none", "sent", "checked", "saved", "refused", "over"}

(* q is p but for how far it is, whether it is sound and still counts *)
Like(q, p) == q.tab = p.tab /\ q.kind = p.kind /\ q.graph = p.graph /\ q.hash = p.hash

LEMMA Records ==
    /\ Over \in Posts /\ Over.st = "over"
    /\ Blank("none") \in Posts /\ Blank("none").st = "none"
    /\ \A p \in Posts, st \in Stages :
         /\ [p EXCEPT !.st = st] \in Posts /\ Like([p EXCEPT !.st = st], p)
         /\ [p EXCEPT !.st = st].st = st
         /\ [p EXCEPT !.st = st].sound = p.sound /\ [p EXCEPT !.st = st].replaced = p.replaced
    /\ \A p \in Posts :
         /\ [p EXCEPT !.replaced = TRUE] \in Posts /\ Like([p EXCEPT !.replaced = TRUE], p)
         /\ [p EXCEPT !.replaced = TRUE].replaced
         /\ [p EXCEPT !.replaced = TRUE].st = p.st /\ [p EXCEPT !.replaced = TRUE].sound = p.sound
    /\ \A p \in Posts :
         /\ [p EXCEPT !.sound = FALSE] \in Posts /\ Like([p EXCEPT !.sound = FALSE], p)
         /\ ~[p EXCEPT !.sound = FALSE].sound
         /\ [p EXCEPT !.sound = FALSE].st = p.st /\ [p EXCEPT !.sound = FALSE].replaced = p.replaced
<1>1. (CHOOSE t \in Tabs : TRUE) \in Tabs
  BY TabsAssumption
<1>2. {} \in Graphs
  BY DEF Graphs
<1>3. /\ Over \in Posts /\ Over.st = "over"
      /\ Blank("none") \in Posts /\ Blank("none").st = "none"
  BY <1>1, <1>2 DEF Over, Blank, Posts
<1>4. ASSUME NEW p \in Posts, NEW st \in Stages
      PROVE  /\ [p EXCEPT !.st = st] \in Posts /\ Like([p EXCEPT !.st = st], p)
             /\ [p EXCEPT !.st = st].st = st
             /\ [p EXCEPT !.st = st].sound = p.sound /\ [p EXCEPT !.st = st].replaced = p.replaced
  BY DEF Posts, Stages, Like
<1>5. ASSUME NEW p \in Posts
      PROVE  /\ [p EXCEPT !.replaced = TRUE] \in Posts /\ Like([p EXCEPT !.replaced = TRUE], p)
             /\ [p EXCEPT !.replaced = TRUE].replaced
             /\ [p EXCEPT !.replaced = TRUE].st = p.st /\ [p EXCEPT !.replaced = TRUE].sound = p.sound
  BY DEF Posts, Like
<1>6. ASSUME NEW p \in Posts
      PROVE  /\ [p EXCEPT !.sound = FALSE] \in Posts /\ Like([p EXCEPT !.sound = FALSE], p)
             /\ ~[p EXCEPT !.sound = FALSE].sound
             /\ [p EXCEPT !.sound = FALSE].st = p.st /\ [p EXCEPT !.sound = FALSE].replaced = p.replaced
  BY DEF Posts, Like
<1>. QED
  BY <1>3, <1>4, <1>5, <1>6

LEMMA SendsShape ==
    ASSUME TypeOK, NEW post \in Posts, Sends(post)
    PROVE  /\ posts' \in [Ids -> Posts]
           /\ \E i \in Ids : posts[i].st = "none" /\ posts'[i] = post /\ \A j \in Ids \ {i} : posts'[j] = posts[j]
BY DEF TypeOK, Sends

LEMMA OutdatedShape ==
    ASSUME TypeOK, NEW t \in Tabs
    PROVE  /\ Outdated(t, posts) \in [Ids -> Posts]
           /\ \A i \in Ids :
                /\ posts[i].tab = t /\ OnItsWay(i) =>
                     /\ Like(Outdated(t, posts)[i], posts[i]) /\ Outdated(t, posts)[i].replaced
                     /\ Outdated(t, posts)[i].st = posts[i].st /\ Outdated(t, posts)[i].sound = posts[i].sound
                /\ posts[i].tab # t \/ ~OnItsWay(i) => Outdated(t, posts)[i] = posts[i]
<1>1. ASSUME NEW i \in Ids
      PROVE  /\ posts[i] \in Posts
             /\ posts[i].tab = t /\ OnItsWay(i) => Outdated(t, posts)[i] = [posts[i] EXCEPT !.replaced = TRUE]
             /\ posts[i].tab # t \/ ~OnItsWay(i) => Outdated(t, posts)[i] = posts[i]
  BY DEF TypeOK, Outdated, OnItsWay
<1>2. \A i \in Ids : Outdated(t, posts)[i] \in Posts
  BY <1>1, Records
<1>3. Outdated(t, posts) \in [Ids -> Posts]
  BY <1>2 DEF Outdated
<1>4. ASSUME NEW i \in Ids, posts[i].tab = t, OnItsWay(i)
      PROVE  /\ Like(Outdated(t, posts)[i], posts[i]) /\ Outdated(t, posts)[i].replaced
             /\ Outdated(t, posts)[i].st = posts[i].st /\ Outdated(t, posts)[i].sound = posts[i].sound
  <2>1. Outdated(t, posts)[i] = [posts[i] EXCEPT !.replaced = TRUE] /\ posts[i] \in Posts
    BY <1>1, <1>4
  <2>. QED
    BY <2>1 DEF Posts, Like
<1>. QED
  BY <1>1, <1>3, <1>4

-----------------------------------------------------------------------------
(* A step of one tab leaves the others alone. *)

TabSame(s) ==
  /\ canvas'[s] = canvas[s] /\ hash'[s] = hash[s] /\ mode'[s] = mode[s] /\ backup'[s] = backup[s]
  /\ due'[s] = due[s] /\ gone'[s] = gone[s] /\ fetch'[s] = fetch[s]
  /\ follows'[s] = follows[s] /\ lapsed'[s] = lapsed[s]

OnlyPostsOf(t) ==
  \A i \in Ids :
    \/ posts'[i] = posts[i]
    \/ /\ posts[i].tab = t \/ ~OnItsWay(i)
       /\ posts'[i].tab = t \/ posts'[i].st \in {"none", "over"}

StepOf(t) ==
  /\ UNCHANGED <<draft, unsound>>
  /\ OnlyPostsOf(t)
  /\ \A s \in Tabs \ {t} : TabSame(s)

LEMMA OtherTabs ==
    ASSUME NEW t \in Tabs, StepOf(t), NEW s \in Tabs \ {t}, TabInv(s)
    PROVE  TabInv(s)'
<1>1. TabSame(s) /\ draft' = draft /\ unsound' = unsound
  BY DEF StepOf
<1>2. ASSUME NEW i \in Ids, (posts[i].tab = s /\ OnItsWay(i)) \/ (posts'[i].tab = s /\ OnItsWay(i)')
      PROVE  posts'[i] = posts[i]
  BY <1>2 DEF StepOf, OnlyPostsOf, OnItsWay
<1>3. Edited(s)' = Edited(s)
  BY <1>1 DEF TabSame, Edited
<1>4. Tracked(s)' <=> Tracked(s)
  BY <1>1, <1>2 DEF Tracked, TabSame, OnItsWay
<1>5. Covered(s) => Covered(s)'
  <2>1. ASSUME NEW i \in Ids, Covers(s, i) PROVE Covers(s, i)'
    <3>1. posts'[i] = posts[i]
      BY <1>2, <2>1 DEF Covers, OnItsWay
    <3>. QED
      BY <1>3, <2>1, <3>1 DEF Covers
  <2>. QED
    BY <1>1, <1>3, <2>1 DEF Covered, TabSame
<1>. QED
  BY <1>1, <1>3, <1>4, <1>5 DEF TabInv, TabSame

(* A save that is left alone, with a tab that still has what it had *)
LEMMA SamePost ==
    ASSUME NEW i \in Ids, PostInv(i), posts'[i] = posts[i], UNCHANGED <<draft, unsound>>,
           OnItsWay(i) /\ ~posts[i].replaced =>
             LET t == posts[i].tab IN
             gone'[t] \/ (~gone[t] /\ Edited(t) \subseteq Edited(t)')
    PROVE  PostInv(i)'
BY DEF PostInv, OnItsWay

LEMMA OtherPosts ==
    ASSUME TypeOK, NEW t \in Tabs, StepOf(t), NEW i \in Ids, PostInv(i), posts'[i] = posts[i],
           posts[i].tab = t /\ OnItsWay(i) /\ ~posts[i].replaced =>
              gone'[t] \/ (~gone[t] /\ Edited(t) \subseteq Edited(t)')
    PROVE  PostInv(i)'
<1>1. posts[i].tab \in Tabs
  BY DEF TypeOK, Posts
<1>2. CASE posts[i].tab = t
  BY <1>2, SamePost DEF StepOf
<1>3. CASE posts[i].tab # t
  <2> DEFINE s == posts[i].tab
  <2>1. TabSame(s)
    BY <1>1, <1>3 DEF StepOf
  <2>2. Edited(s)' = Edited(s) /\ gone'[s] = gone[s]
    BY <2>1 DEF TabSame, Edited
  <2>3. gone'[s] \/ (~gone[s] /\ Edited(s) \subseteq Edited(s)')
    BY <1>1, <2>2 DEF TypeOK
  <2>4. UNCHANGED <<draft, unsound>>
    BY DEF StepOf
  <2>. QED
    BY <2>3, <2>4, SamePost
<1>. QED
  BY <1>2, <1>3

(* What a step of a tab has to show *)
LEMMA TabSteps ==
    ASSUME IInv, TypeOK', NEW t \in Tabs, StepOf(t), TabInv(t)', \A i \in Ids : PostInv(i)'
    PROVE  IInv'
<1>1. \A s \in Tabs \ {t} : TabInv(s)'
  BY OtherTabs DEF IInv
<1>2. unsound' \/ Old \notin draft'
  BY DEF IInv, StepOf
<1>. QED
  BY <1>1, <1>2 DEF IInv

(* No save is sent, and the tab keeps what it edits or turns away from it. *)
LEMMA PostsStay ==
    ASSUME IInv, NEW t \in Tabs, StepOf(t), posts' = posts, gone'[t] \/ (~gone[t] /\ Edited(t) \subseteq Edited(t)')
    PROVE  \A i \in Ids : PostInv(i)'
<1> TAKE i \in Ids
<1>. QED
  BY OtherPosts DEF IInv

(* A save of what is edited is sent. *)
LEMMA PostSent ==
    ASSUME IInv, NEW t \in Tabs, StepOf(t), ~gone[t], mode[t] = "edit",
           NEW kind \in {"save", "run", "beacon"}, NEW g \in Graphs, Sends(Post(t, kind, g)),
           canvas[t] \subseteq g, Old \in g => Old \in canvas[t],
           gone'[t] \/ Edited(t)' = g
    PROVE  /\ \A i \in Ids : PostInv(i)'
           /\ \E i \in Ids : posts[i].st = "none" /\ posts'[i] = Post(t, kind, g) /\ \A j \in Ids \ {i} : posts'[j] = posts[j]
<1>1. TypeOK /\ \A i \in Ids : PostInv(i)
  BY DEF IInv
<1>2. /\ Post(t, kind, g) \in Posts
      /\ Post(t, kind, g).tab = t /\ Post(t, kind, g).kind = kind /\ Post(t, kind, g).st = "sent"
      /\ Post(t, kind, g).graph = g /\ Post(t, kind, g).hash = hash[t]
      /\ Post(t, kind, g).sound = follows[t] /\ Post(t, kind, g).replaced = FALSE
  BY <1>1 DEF Post, TypeOK, Posts
<1>3. PICK n \in Ids : posts[n].st = "none" /\ posts'[n] = Post(t, kind, g) /\ \A j \in Ids \ {n} : posts'[j] = posts[j]
  BY <1>1, <1>2, SendsShape
<1>4. Edited(t) = canvas[t]
  BY DEF Edited
<1>5. ASSUME NEW i \in Ids \ {n} PROVE PostInv(i)'
  BY <1>1, <1>3, <1>4, OtherPosts
<1>6. PostInv(n)'
  <2>1. follows[t] => hash[t] \subseteq g
    BY <1>4 DEF IInv, TabInv
  <2>2. follows[t] => unsound \/ Old \notin g
    BY <1>4 DEF IInv, TabInv, Tracked
  <2>3. unsound' = unsound
    BY DEF StepOf
  <2>. QED
    BY <1>2, <1>3, <2>1, <2>2, <2>3 DEF PostInv
<1>. QED
  BY <1>3, <1>5, <1>6

-----------------------------------------------------------------------------
(* Steps after which the tab edits what it edited before, and no save is sent *)

SameEdited(t) ==
  /\ posts' = posts /\ hash'[t] = hash[t] /\ follows'[t] = follows[t] /\ gone'[t] = gone[t]
  /\ Edited(t)' = Edited(t)
  /\ backup'[t].on <=> mode'[t] # "edit"
  /\ gone[t] => canvas'[t] = canvas[t] /\ mode'[t] = mode[t]
  /\ fetch'[t].st = "answered" => fetch'[t] = fetch[t] \/ fetch'[t].graph = draft
  /\ mode'[t] # "edit" =>
       \/ canvas'[t] \in {backup'[t].graph, {Old}}
       \/ mode[t] # "edit" /\ canvas'[t] = canvas[t] /\ backup'[t] = backup[t]
  /\ \/ lapsed'[t]
     \/ ~lapsed[t] /\ (due[t] => due'[t]) /\ (fetch[t].st # "none" => fetch'[t].st # "none")

LEMMA SameKeeps ==
    ASSUME IInv, TypeOK', NEW t \in Tabs, StepOf(t), SameEdited(t)
    PROVE  IInv'
<1>1. TypeOK /\ TabInv(t) /\ UNCHANGED <<draft, unsound>>
  BY DEF IInv, StepOf
<1>2. Tracked(t)' <=> Tracked(t)
  BY DEF SameEdited, Tracked, OnItsWay
<1>3. ASSUME ~lapsed'[t], Covered(t) PROVE Covered(t)'
  <2>1. ~lapsed[t] /\ (due[t] => due'[t]) /\ (fetch[t].st # "none" => fetch'[t].st # "none")
    BY <1>3 DEF SameEdited
  <2>2. ASSUME NEW i \in Ids, Covers(t, i) PROVE Covers(t, i)'
    BY <2>2 DEF SameEdited, Covers
  <2>. QED
    BY <1>1, <1>3, <2>1, <2>2 DEF Covered, SameEdited
<1>4. ~lapsed'[t] => ~lapsed[t]
  BY DEF SameEdited
<1>5. TabInv(t)'
  BY <1>1, <1>2, <1>3, <1>4 DEF TabInv, SameEdited
<1>6. gone'[t] \/ (~gone[t] /\ Edited(t) \subseteq Edited(t)')
  BY <1>1 DEF SameEdited, TypeOK
<1>7. \A i \in Ids : PostInv(i)'
  BY <1>6, PostsStay DEF SameEdited
<1>. QED
  BY <1>5, <1>7, TabSteps

LEMMA QuietStep ==
    ASSUME IInv, NEW t \in Tabs,
           \/ EndRun(t) \/ Refresh(t) \/ Read(t) \/ RefreshFails(t) \/ ShowVersion(t) \/ GoBack(t)
           \/ ShowRun(t) /\ mode[t] # "edit"
           \/ Debounced(t) /\ ReadOnly(t)
           \/ LookAway(t) /\ ReadOnly(t)
           \/ \E m \in {"history", "restoring"} : View(t, m)
    PROVE  IInv'
<1>1. TypeOK /\ (backup[t].on <=> mode[t] # "edit") /\ (gone[t] => canvas[t] = {} /\ mode[t] = "edit")
  BY DEF IInv, TabInv
<1>2. OnlyPostsOf(t) \/ posts' # posts
  BY DEF OnlyPostsOf
<1>3. CASE EndRun(t)
  BY <1>1, <1>2, <1>3, SameKeeps DEF EndRun, ghosts, TypeOK, StepOf, TabSame, SameEdited, Edited
<1>4. CASE Refresh(t)
  BY <1>1, <1>2, <1>4, SameKeeps DEF Refresh, ghosts, TypeOK, StepOf, TabSame, SameEdited, Edited
<1>5. CASE Read(t)
  BY <1>1, <1>2, <1>5, SameKeeps DEF Read, ghosts, TypeOK, StepOf, TabSame, SameEdited, Edited
<1>6. CASE RefreshFails(t)
  BY <1>1, <1>2, <1>6, SameKeeps DEF RefreshFails, NoFetch, Graphs, TypeOK, StepOf, TabSame, SameEdited, Edited
<1>7. CASE ShowVersion(t)
  BY <1>1, <1>2, <1>7, SameKeeps DEF ShowVersion, AtHand, ghosts, Graphs, TypeOK, StepOf, TabSame, SameEdited, Edited
<1>8. CASE GoBack(t)
  BY <1>1, <1>2, <1>8, SameKeeps DEF GoBack, AtHand, NoBackup, ghosts, Graphs, TypeOK, StepOf, TabSame, SameEdited, Edited
<1>9. CASE ShowRun(t) /\ mode[t] # "edit"
  BY <1>1, <1>2, <1>9, SameKeeps DEF ShowRun, Graphs, TypeOK, StepOf, TabSame, SameEdited, Edited
<1>10. CASE Debounced(t) /\ ReadOnly(t)
  BY <1>1, <1>2, <1>10, SameKeeps DEF Debounced, TypeOK, StepOf, TabSame, SameEdited, Edited
<1>11. CASE LookAway(t) /\ ReadOnly(t)
  BY <1>1, <1>2, <1>11, SameKeeps, UsersAssumption DEF LookAway, Graphs, TypeOK, StepOf, TabSame, SameEdited, Edited
<1>12. ASSUME NEW m \in {"history", "restoring"}, View(t, m) PROVE IInv'
  <2>1. /\ mode[t] = "edit" /\ looks[t] < MaxLooks /\ looks' = [looks EXCEPT ![t] = looks[t] + 1]
        /\ mode' = [mode EXCEPT ![t] = m]
        /\ backup' = [backup EXCEPT ![t] = [on |-> TRUE, graph |-> canvas[t]]]
        /\ lapsed' = [lapsed EXCEPT ![t] = lapsed[t] \/ canvas[t] # hash[t]]
        /\ detail' = [detail EXCEPT ![t] = detail[t] \/ m = "history"]
        /\ UNCHANGED <<draft, posts, canvas, hash, run, due, gone, fetch, made, follows, unsound>>
    BY <1>1, <1>12 DEF View
  <2>2. ~gone[t]
    BY <1>12 DEF View, AtHand
  <2>3. looks' \in [Tabs -> 0..MaxLooks]
    BY <1>1, <2>1, UsersAssumption DEF TypeOK
  <2>4. TypeOK'
    BY <1>1, <2>1, <2>3 DEF TypeOK
  <2>5. StepOf(t)
    BY <1>1, <1>2, <2>1 DEF TypeOK, StepOf, TabSame
  <2>6. SameEdited(t)
    BY <1>1, <2>1, <2>2 DEF TypeOK, SameEdited, Edited
  <2>. QED
    BY <2>4, <2>5, <2>6, SameKeeps
<1>. QED
  BY <1>3, <1>4, <1>5, <1>6, <1>7, <1>8, <1>9, <1>10, <1>11, <1>12

-----------------------------------------------------------------------------
(* Steps that send a save of what the tab edits *)

LEMMA SentStepOf ==
    ASSUME TypeOK, NEW t \in Tabs, NEW kind \in {"save", "run", "beacon"}, NEW g \in Graphs, Sends(Post(t, kind, g))
    PROVE  posts' \in [Ids -> Posts] /\ OnlyPostsOf(t)
<1>1. Post(t, kind, g) \in Posts /\ Post(t, kind, g).tab = t
  BY DEF Post, TypeOK, Posts
<1>2. posts' \in [Ids -> Posts]
  BY <1>1, SendsShape
<1>3. PICK n \in Ids : posts[n].st = "none" /\ posts'[n] = Post(t, kind, g) /\ \A j \in Ids \ {n} : posts'[j] = posts[j]
  BY <1>1, SendsShape
<1>. QED
  BY <1>1, <1>2, <1>3 DEF OnlyPostsOf, OnItsWay

(* The tab stays open and edits what it sends. *)
LEMMA SentKeeps ==
    ASSUME IInv, TypeOK', NEW t \in Tabs, StepOf(t), ~gone[t], mode[t] = "edit",
           NEW kind \in {"save", "run", "beacon"}, NEW g \in Graphs, Sends(Post(t, kind, g)),
           canvas[t] \subseteq g, Old \in g => Old \in canvas[t],
           canvas'[t] = g, UNCHANGED <<hash, mode, backup, gone, follows, lapsed>>,
           fetch'[t].st = "answered" => fetch'[t] = fetch[t],
           kind # "beacon" \/ fetch'[t].st # "none"
    PROVE  IInv'
<1>1. TypeOK /\ TabInv(t) /\ UNCHANGED <<draft, unsound>>
  BY DEF IInv, StepOf
<1>2. Edited(t)' = g /\ Edited(t) = canvas[t]
  BY DEF Edited
<1>3. /\ \A i \in Ids : PostInv(i)'
      /\ \E i \in Ids : posts[i].st = "none" /\ posts'[i] = Post(t, kind, g) /\ \A j \in Ids \ {i} : posts'[j] = posts[j]
  BY <1>2, PostSent
<1>4. PICK n \in Ids : posts[n].st = "none" /\ posts'[n] = Post(t, kind, g) /\ \A j \in Ids \ {n} : posts'[j] = posts[j]
  BY <1>3
<1>5. /\ posts'[n].tab = t /\ posts'[n].kind = kind /\ posts'[n].st = "sent" /\ posts'[n].graph = g
      /\ posts'[n].sound = follows[t]
  BY <1>4 DEF Post
<1>6. Tracked(t)' => Tracked(t)
  BY <1>1, <1>4, <1>5 DEF Tracked, OnItsWay
<1>7. Covered(t)'
  <2>1. kind # "beacon" => Covers(t, n)'
    BY <1>2, <1>5 DEF Covers
  <2>. QED
    BY <2>1 DEF Covered
<1>8. TabInv(t)'
  BY <1>1, <1>2, <1>6, <1>7 DEF TabInv
<1>. QED
  BY <1>3, <1>8, TabSteps

LEMMA EditKeeps ==
    ASSUME IInv, NEW t \in Tabs, NEW e \in Edits, Edit(t, e)
    PROVE  IInv'
<1>1. TypeOK /\ TabInv(t)
  BY DEF IInv
<1>2. /\ mode[t] = "edit" /\ ~gone[t] /\ made' = made \cup {e}
      /\ canvas' = [canvas EXCEPT ![t] = canvas[t] \cup {e}]
      /\ UNCHANGED <<draft, hash, mode, backup, run, gone, fetch, detail, looks, follows, lapsed, unsound>>
  BY DEF Edit, AtHand
<1>3. canvas' \in [Tabs -> Graphs] /\ canvas'[t] = canvas[t] \cup {e} /\ canvas'[t] \in Graphs /\ canvas[t] \in Graphs
  BY <1>1, <1>2 DEF TypeOK, Graphs
<1>4. Edited(t)' = Edited(t) \cup {e}
  BY <1>2, <1>3 DEF Edited
<1>5. e # Old
  BY EditsAssumption
<1>6. CASE due' = [due EXCEPT ![t] = TRUE] /\ UNCHANGED posts
  <2>1. TypeOK'
    BY <1>1, <1>2, <1>3, <1>6 DEF TypeOK
  <2>2. StepOf(t)
    BY <1>1, <1>2, <1>6 DEF StepOf, OnlyPostsOf, TabSame, TypeOK
  <2>3. \A i \in Ids : PostInv(i)'
    BY <1>2, <1>4, <1>6, <2>2, PostsStay
  <2>4. Tracked(t)' => Tracked(t)
    BY <1>2, <1>6 DEF Tracked, OnItsWay
  <2>5. Covered(t)'
    BY <1>1, <1>6 DEF Covered, TypeOK
  <2>6. TabInv(t)'
    BY <1>1, <1>2, <1>4, <1>5, <2>4, <2>5 DEF TabInv
  <2>. QED
    BY <2>1, <2>2, <2>3, <2>6, TabSteps
<1>7. CASE Sends(Post(t, "save", canvas'[t])) /\ UNCHANGED due
  <2>1. PICK g \in Graphs : g = canvas'[t]
    BY <1>3
  <2>2. Sends(Post(t, "save", g))
    BY <1>7, <2>1
  <2>3. posts' \in [Ids -> Posts] /\ OnlyPostsOf(t)
    BY <1>1, <2>2, SentStepOf
  <2>4. TypeOK'
    BY <1>1, <1>2, <1>3, <1>7, <2>3 DEF TypeOK
  <2>5. StepOf(t)
    BY <1>1, <1>2, <1>7, <2>3 DEF StepOf, TabSame, TypeOK
  <2>. QED
    BY <1>2, <1>3, <1>5, <2>1, <2>2, <2>4, <2>5, SentKeeps
<1>. QED
  BY <1>6, <1>7 DEF Edit

LEMMA SendingKeeps ==
    ASSUME IInv, NEW t \in Tabs,
           \/ Debounced(t) /\ ~ReadOnly(t)
           \/ StartRun(t)
           \/ LookAway(t) /\ ~ReadOnly(t)
    PROVE  IInv'
<1>1. TypeOK
  BY DEF IInv
<1>2. canvas[t] \in Graphs /\ canvas[t] \subseteq canvas[t]
  BY <1>1 DEF TypeOK
<1>3. PICK g \in Graphs : g = canvas[t]
  BY <1>2
<1>4. CASE Debounced(t) /\ ~ReadOnly(t)
  <2>1. /\ Sends(Post(t, "save", g)) /\ mode[t] = "edit" /\ ~gone[t] /\ due' = [due EXCEPT ![t] = FALSE]
        /\ UNCHANGED <<draft, canvas, hash, mode, backup, run, gone, fetch, detail, made, looks, follows, lapsed, unsound>>
    BY <1>3, <1>4 DEF Debounced, ReadOnly
  <2>2. posts' \in [Ids -> Posts] /\ OnlyPostsOf(t)
    BY <1>1, <2>1, SentStepOf
  <2>3. TypeOK' /\ StepOf(t)
    BY <1>1, <2>1, <2>2 DEF TypeOK, StepOf, TabSame
  <2>. QED
    BY <1>2, <1>3, <2>1, <2>3, SentKeeps
<1>5. CASE StartRun(t)
  <2>1. /\ Sends(Post(t, "run", g)) /\ mode[t] = "edit" /\ ~gone[t] /\ run' = [run EXCEPT ![t] = "saving"]
        /\ looks[t] < MaxLooks /\ looks' = [looks EXCEPT ![t] = looks[t] + 1]
        /\ UNCHANGED <<draft, canvas, hash, mode, backup, due, gone, fetch, detail, made, follows, lapsed, unsound>>
    BY <1>3, <1>5 DEF StartRun, AtHand
  <2>2. posts' \in [Ids -> Posts] /\ OnlyPostsOf(t)
    BY <1>1, <2>1, SentStepOf
  <2>3. looks' \in [Tabs -> 0..MaxLooks]
    BY <1>1, <2>1, UsersAssumption DEF TypeOK
  <2>4. TypeOK' /\ StepOf(t)
    BY <1>1, <2>1, <2>2, <2>3 DEF TypeOK, StepOf, TabSame
  <2>. QED
    BY <1>2, <1>3, <2>1, <2>4, SentKeeps
<1>6. CASE LookAway(t) /\ ~ReadOnly(t)
  <2>1. /\ Sends(Post(t, "beacon", g)) /\ mode[t] = "edit" /\ ~gone[t]
        /\ fetch' = [fetch EXCEPT ![t] = [st |-> "due", graph |-> {}]]
        /\ looks[t] < MaxLooks /\ looks' = [looks EXCEPT ![t] = looks[t] + 1]
        /\ UNCHANGED <<draft, canvas, hash, mode, backup, run, due, gone, detail, made, follows, lapsed, unsound>>
    BY <1>3, <1>6 DEF LookAway, ReadOnly
  <2>2. posts' \in [Ids -> Posts] /\ OnlyPostsOf(t)
    BY <1>1, <2>1, SentStepOf
  <2>3. looks' \in [Tabs -> 0..MaxLooks]
    BY <1>1, <2>1, UsersAssumption DEF TypeOK
  <2>4. TypeOK' /\ StepOf(t) /\ fetch'[t].st = "due"
    BY <1>1, <2>1, <2>2, <2>3 DEF TypeOK, StepOf, TabSame, Graphs
  <2>. QED
    BY <1>2, <1>3, <2>1, <2>4, SentKeeps
<1>. QED
  BY <1>4, <1>5, <1>6

LEMMA LeaveKeeps ==
    ASSUME IInv, NEW t \in Tabs, Leave(t)
    PROVE  IInv'
<1>1. TypeOK /\ TabInv(t)
  BY DEF IInv
<1>2. /\ ~gone[t] /\ gone' = [gone EXCEPT ![t] = TRUE]
      /\ due' = [due EXCEPT ![t] = FALSE] /\ fetch' = [fetch EXCEPT ![t] = NoFetch]
      /\ detail' = [detail EXCEPT ![t] = FALSE] /\ canvas' = [canvas EXCEPT ![t] = {}]
      /\ hash' = [hash EXCEPT ![t] = {}] /\ mode' = [mode EXCEPT ![t] = "edit"]
      /\ backup' = [backup EXCEPT ![t] = NoBackup] /\ run' = [run EXCEPT ![t] = "no"]
      /\ follows' = [follows EXCEPT ![t] = TRUE] /\ lapsed' = [lapsed EXCEPT ![t] = FALSE]
      /\ UNCHANGED <<draft, made, looks, unsound>>
  BY DEF Leave
<1>3. canvas[t] \in Graphs
  BY <1>1 DEF TypeOK
<1>4. ASSUME posts' \in [Ids -> Posts], OnlyPostsOf(t) PROVE TypeOK' /\ StepOf(t) /\ gone'[t] /\ TabInv(t)'
  <2>1. TypeOK'
    BY <1>1, <1>2, <1>4 DEF TypeOK, NoFetch, NoBackup, Graphs
  <2>2. StepOf(t)
    BY <1>1, <1>2, <1>4 DEF TypeOK, StepOf, TabSame
  <2>3. gone'[t] /\ canvas'[t] = {} /\ mode'[t] = "edit" /\ backup'[t].on = FALSE /\ hash'[t] = {} /\ fetch'[t].st = "none"
    BY <1>1, <1>2 DEF TypeOK, NoBackup, NoFetch
  <2>4. TabInv(t)'
    BY <2>3 DEF TabInv, Edited
  <2>. QED
    BY <2>1, <2>2, <2>3, <2>4
<1>5. CASE UNCHANGED posts
  <2>1. posts' \in [Ids -> Posts] /\ OnlyPostsOf(t)
    BY <1>1, <1>5 DEF TypeOK, OnlyPostsOf
  <2>2. \A i \in Ids : PostInv(i)'
    BY <1>4, <1>5, <2>1, PostsStay
  <2>. QED
    BY <1>4, <2>1, <2>2, TabSteps
<1>6. CASE ~ReadOnly(t) /\ Sends(Post(t, "beacon", canvas[t]))
  <2>1. PICK g \in Graphs : g = canvas[t]
    BY <1>3
  <2>2. Sends(Post(t, "beacon", g)) /\ mode[t] = "edit" /\ canvas[t] \subseteq g /\ (Old \in g => Old \in canvas[t])
    BY <1>6, <2>1 DEF ReadOnly
  <2>3. posts' \in [Ids -> Posts] /\ OnlyPostsOf(t)
    BY <1>1, <2>2, SentStepOf
  <2>4. \A i \in Ids : PostInv(i)'
    BY <1>2, <1>4, <2>2, <2>3, PostSent
  <2>. QED
    BY <1>4, <2>3, <2>4, TabSteps
<1>. QED
  BY <1>5, <1>6 DEF Leave

-----------------------------------------------------------------------------
(* Steps of a save *)

(* One save goes a step further, or its outcome is settled. *)
LEMMA OnePost ==
    ASSUME TypeOK, NEW i \in Ids, OnItsWay(i), NEW t \in Tabs, t = posts[i].tab,
           NEW p \in Posts, posts' = [posts EXCEPT ![i] = p], p.tab = t \/ p.st = "over"
    PROVE  /\ posts' \in [Ids -> Posts] /\ posts'[i] = p /\ \A j \in Ids \ {i} : posts'[j] = posts[j]
           /\ OnlyPostsOf(t)
<1>1. posts' \in [Ids -> Posts] /\ posts'[i] = p /\ \A j \in Ids \ {i} : posts'[j] = posts[j]
  BY DEF TypeOK
<1>. QED
  BY <1>1 DEF OnlyPostsOf, OnItsWay

(* Whatever becomes of one save, the tab is still tracked by what it was. *)
LEMMA TrackedAfter ==
    ASSUME NEW i \in Ids, NEW t \in Tabs, NEW p \in Posts, posts'[i] = p, \A j \in Ids \ {i} : posts'[j] = posts[j],
           OnItsWay(i), posts[i].tab = t, p.st = "over" \/ (Like(p, posts[i]) /\ p.sound = posts[i].sound /\ p.replaced = posts[i].replaced),
           follows'[t] = follows[t] \/ (posts[i].sound /\ follows'[t] = ~posts[i].replaced),
           Tracked(t)'
    PROVE  Tracked(t)
<1>1. CASE follows'[t]
  BY <1>1 DEF Tracked
<1>2. ASSUME NEW j \in Ids, posts'[j].tab = t, OnItsWay(j)', posts'[j].sound, ~posts'[j].replaced PROVE Tracked(t)
  <2>1. CASE j # i
    BY <1>2, <2>1 DEF Tracked, OnItsWay
  <2>2. CASE j = i
    <3>1. p.st # "over"
      BY <1>2, <2>2 DEF OnItsWay
    <3>. QED
      BY <1>2, <2>2, <3>1 DEF Tracked, OnItsWay
  <2>. QED
    BY <2>1, <2>2
<1>. QED
  BY <1>1, <1>2 DEF Tracked

LEMMA CheckKeeps ==
    ASSUME IInv, NEW i \in Ids, NEW t \in Tabs, t = posts[i].tab, Check(i)
    PROVE  IInv'
<1> DEFINE checked == [posts[i] EXCEPT !.st = "checked"]
           refused == [posts[i] EXCEPT !.st = "refused"]
<1>1. TypeOK /\ posts[i] \in Posts /\ posts[i].st = "sent" /\ OnItsWay(i) /\ t \in Tabs
  BY DEF IInv, TypeOK, Check, OnItsWay, Posts
<1>2. PICK p \in {checked, refused, Over} :
        /\ posts' = [posts EXCEPT ![i] = p]
        /\ \/ p = checked /\ draft = posts[i].hash
           \/ p = refused
           \/ p = Over /\ ~Waits(i)
  <2>1. CASE draft = posts[i].hash
    BY <2>1 DEF Check
  <2>2. CASE draft # posts[i].hash /\ Waits(i)
    BY <2>2 DEF Check
  <2>3. CASE draft # posts[i].hash /\ ~Waits(i)
    BY <2>3 DEF Check
  <2>. QED
    BY <2>1, <2>2, <2>3
<1>3. UNCHANGED <<draft, canvas, hash, mode, backup, run, due, gone, fetch, detail, ghosts>>
  BY DEF Check
<1>4. /\ p \in Posts
      /\ p = Over \/ (Like(p, posts[i]) /\ p.sound = posts[i].sound /\ p.replaced = posts[i].replaced)
      /\ p.st \in {"checked", "refused", "over"}
      /\ p.st = "checked" => draft = posts[i].hash
      /\ p.st = "over" => ~Waits(i)
  <2>1. "checked" \in Stages /\ "refused" \in Stages
    BY DEF Stages
  <2>2. /\ checked \in Posts /\ Like(checked, posts[i]) /\ checked.st = "checked"
        /\ checked.sound = posts[i].sound /\ checked.replaced = posts[i].replaced
        /\ refused \in Posts /\ Like(refused, posts[i]) /\ refused.st = "refused"
        /\ refused.sound = posts[i].sound /\ refused.replaced = posts[i].replaced
    BY <1>1, <2>1, Records
  <2> HIDE DEF checked, refused
  <2>. QED
    BY <1>2, <2>2, Records
<1> HIDE DEF checked, refused
<1>5. p.st = "over" \/ Like(p, posts[i])
  BY <1>4, Records
<1>6. posts' \in [Ids -> Posts] /\ posts'[i] = p /\ (\A j \in Ids \ {i} : posts'[j] = posts[j]) /\ OnlyPostsOf(t)
  BY <1>1, <1>2, <1>4, <1>5, OnePost DEF Like
<1>7. TypeOK' /\ StepOf(t) /\ TabSame(t)
  BY <1>1, <1>3, <1>6 DEF TypeOK, ghosts, StepOf, TabSame
<1>8. Edited(t)' = Edited(t) /\ TabInv(t) /\ PostInv(i) /\ UNCHANGED <<draft, unsound>>
  BY <1>1, <1>3 DEF Edited, IInv, ghosts
<1>9. Tracked(t)' => Tracked(t)
  BY <1>1, <1>4, <1>6, <1>7, Records, TrackedAfter DEF TabSame
<1>10. ASSUME ~gone[t], Covered(t) PROVE Covered(t)'
  <2>1. ASSUME NEW j \in Ids, Covers(t, j) PROVE Covers(t, j)'
    <3>1. CASE j = i
      <4>1. Waits(i)
        BY <1>10, <2>1, <3>1 DEF Waits, Covers
      <4>2. Like(p, posts[i]) /\ p.st \in {"checked", "refused"}
        BY <1>4, <1>5, <4>1
      <4>. QED
        BY <1>6, <1>8, <2>1, <3>1, <4>2 DEF Covers, Like
    <3>2. CASE j # i
      BY <1>6, <1>8, <2>1, <3>2 DEF Covers
    <3>. QED
      BY <3>1, <3>2
  <2>. QED
    BY <1>7, <1>8, <1>10, <2>1 DEF Covered, TabSame
<1>11. TabInv(t)'
  BY <1>7, <1>8, <1>9, <1>10 DEF TabInv, TabSame
<1>12. ASSUME NEW j \in Ids PROVE PostInv(j)'
  <2>1. CASE j # i
    <3>1. gone'[t] \/ (~gone[t] /\ Edited(t) \subseteq Edited(t)')
      BY <1>1, <1>7, <1>8 DEF TabSame, TypeOK
    <3>. QED
      BY <1>1, <1>6, <1>7, <2>1, <3>1, OtherPosts DEF IInv
  <2>2. CASE j = i
    <3>1. CASE p.st = "over"
      BY <1>6, <2>2, <3>1 DEF PostInv, OnItsWay
    <3>2. CASE p.st # "over"
      <4>1. /\ p.tab = t /\ p.graph = posts[i].graph /\ p.hash = posts[i].hash
            /\ p.sound = posts[i].sound /\ p.replaced = posts[i].replaced
            /\ p.st \in {"checked", "refused"} /\ (p.st = "checked" => draft = posts[i].hash)
        BY <1>4, <3>2, Records DEF Like
      <4>2. gone'[t] = gone[t]
        BY <1>7 DEF TabSame
      <4>. QED
        BY <1>1, <1>6, <1>8, <2>2, <4>1, <4>2 DEF PostInv, OnItsWay
    <3>. QED
      BY <3>1, <3>2
  <2>. QED
    BY <2>1, <2>2
<1>. QED
  BY <1>1, <1>7, <1>11, <1>12, TabSteps

(* The outcome of a save is known in the tab: it is over. *)
LEMMA OverPosts ==
    ASSUME IInv, NEW i \in Ids, OnItsWay(i), posts' = [posts EXCEPT ![i] = Over],
           NEW t \in Tabs, t = posts[i].tab, StepOf(t), ~gone[t], Edited(t)' = Edited(t)
    PROVE  \A j \in Ids : PostInv(j)'
<1>1. TypeOK
  BY DEF IInv
<1>2. posts'[i] = Over /\ Over.st = "over" /\ \A j \in Ids \ {i} : posts'[j] = posts[j]
  BY <1>1, Records DEF TypeOK
<1>3. ASSUME NEW j \in Ids \ {i} PROVE PostInv(j)'
  BY <1>1, <1>2, OtherPosts DEF IInv
<1>4. PostInv(i)'
  BY <1>2 DEF PostInv, OnItsWay
<1>. QED
  BY <1>3, <1>4

LEMMA SavedKeeps ==
    ASSUME IInv, NEW i \in Ids, NEW t \in Tabs, t = posts[i].tab, Saved(i)
    PROVE  IInv'
<1>1. TypeOK /\ posts[i] \in Posts /\ t \in Tabs /\ Over \in Posts /\ Over.st = "over"
  BY Records DEF IInv, TypeOK, Posts
<1>2. /\ posts[i].st = "saved" /\ ~gone[t] /\ OnItsWay(i)
      /\ hash' = [hash EXCEPT ![t] = posts[i].graph]
      /\ follows' = [follows EXCEPT ![t] = ~posts[i].replaced]
      /\ lapsed' = [lapsed EXCEPT ![t] = lapsed[t] /\ canvas[t] # posts[i].graph]
      /\ posts' = [posts EXCEPT ![i] = Over]
      /\ Settles(t, posts[i].kind)
      /\ UNCHANGED <<draft, canvas, mode, backup, due, gone, fetch, detail, made, looks, unsound>>
  BY DEF Saved, Waits, OnItsWay
<1>3. posts' \in [Ids -> Posts] /\ posts'[i] = Over /\ (\A j \in Ids \ {i} : posts'[j] = posts[j]) /\ OnlyPostsOf(t)
  BY <1>1, <1>2, OnePost
<1>4. hash' \in [Tabs -> Graphs] /\ follows' \in [Tabs -> BOOLEAN] /\ lapsed' \in [Tabs -> BOOLEAN] /\ run' \in [Tabs -> {"no", "saving", "running"}]
  BY <1>1, <1>2 DEF TypeOK, Posts, Settles
<1>5. TypeOK' /\ StepOf(t)
  BY <1>1, <1>2, <1>3, <1>4 DEF TypeOK, StepOf, TabSame
<1>6. Edited(t)' = Edited(t)
  BY <1>2 DEF Edited
<1>7. TabInv(t) /\ PostInv(i)
  BY <1>1 DEF IInv
<1>8. \A j \in Ids : PostInv(j)'
  BY <1>2, <1>5, <1>6, OverPosts
<1>9. follows'[t] = ~posts[i].replaced /\ hash'[t] = posts[i].graph /\ (lapsed'[t] <=> lapsed[t] /\ canvas[t] # posts[i].graph)
  BY <1>1, <1>2 DEF TypeOK
<1>10. follows'[t] => hash'[t] \subseteq Edited(t)'
  BY <1>2, <1>6, <1>7, <1>9 DEF PostInv
<1>11. ASSUME ~unsound PROVE Tracked(t)' => Tracked(t)
  <2>1. posts[i].sound
    BY <1>2, <1>7, <1>11 DEF PostInv
  <2>. QED
    BY <1>1, <1>2, <1>3, <1>9, <2>1, TrackedAfter
<1>12. ASSUME ~unsound, Tracked(t)', ~lapsed'[t] PROVE Covered(t)'
  <2>1. CASE ~lapsed[t]
    <3>1. Covered(t)
      BY <1>2, <1>7, <1>11, <1>12, <2>1 DEF TabInv
    <3>2. \A j \in Ids : Covers(t, j) => Covers(t, j)'
      BY <1>2, <1>3, <1>6 DEF Covers
    <3>. QED
      BY <1>2, <1>6, <3>1, <3>2 DEF Covered
  <2>2. CASE lapsed[t]
    <3>1. canvas[t] = posts[i].graph
      BY <1>9, <1>12, <2>2
    <3>2. canvas[t] \subseteq draft
      BY <1>2, <1>7, <1>12, <3>1 DEF PostInv
    <3>3. Old \notin draft
      BY <1>12 DEF IInv
    <3>4. mode[t] # "edit" => canvas[t] \in {backup[t].graph, {Old}}
      BY <1>2, <1>7, <1>11, <1>12 DEF TabInv
    <3>5. Edited(t) \subseteq draft
      BY <3>2, <3>3, <3>4 DEF Edited
    <3>. QED
      BY <1>2, <1>6, <3>5 DEF Covered
  <2>. QED
    BY <2>1, <2>2
<1>13. TabInv(t)'
  BY <1>2, <1>6, <1>7, <1>10, <1>11, <1>12 DEF TabInv
<1>. QED
  BY <1>1, <1>5, <1>8, <1>13, TabSteps

LEMMA FailedKeeps ==
    ASSUME IInv, NEW i \in Ids, NEW t \in Tabs, t = posts[i].tab, Refused(i) \/ Broken(i)
    PROVE  IInv'
<1>1. TypeOK /\ posts[i] \in Posts /\ t \in Tabs /\ Over \in Posts /\ Over.st = "over"
  BY Records DEF IInv, TypeOK, Posts
<1>2. /\ ~gone[t] /\ OnItsWay(i)
      /\ posts' = [posts EXCEPT ![i] = Over]
      /\ Settles(t, posts[i].kind)
      /\ UNCHANGED <<draft, canvas, hash, mode, backup, due, gone, detail, made, looks, follows, unsound>>
      /\ \/ fetch' = [fetch EXCEPT ![t] = [st |-> "asked", graph |-> {}]] /\ UNCHANGED lapsed
         \/ lapsed' = [lapsed EXCEPT ![t] = TRUE] /\ UNCHANGED fetch
  BY DEF Refused, Broken, Waits, OnItsWay, ghosts
<1>3. posts' \in [Ids -> Posts] /\ posts'[i] = Over /\ (\A j \in Ids \ {i} : posts'[j] = posts[j]) /\ OnlyPostsOf(t)
  BY <1>1, <1>2, OnePost
<1>4. run' \in [Tabs -> {"no", "saving", "running"}]
  BY <1>1, <1>2 DEF TypeOK, Settles
<1>5. TypeOK' /\ StepOf(t)
  <2>1. /\ fetch' \in [Tabs -> [st : {"none", "due", "asked", "answered"}, graph : Graphs]]
        /\ lapsed' \in [Tabs -> BOOLEAN]
        /\ \A s \in Tabs \ {t} : fetch'[s] = fetch[s] /\ lapsed'[s] = lapsed[s]
    <3>1. [st |-> "asked", graph |-> {}] \in [st : {"none", "due", "asked", "answered"}, graph : Graphs]
      BY DEF Graphs
    <3>2. CASE fetch' = [fetch EXCEPT ![t] = [st |-> "asked", graph |-> {}]] /\ UNCHANGED lapsed
      BY <1>1, <3>1, <3>2 DEF TypeOK
    <3>3. CASE lapsed' = [lapsed EXCEPT ![t] = TRUE] /\ UNCHANGED fetch
      BY <1>1, <3>3 DEF TypeOK
    <3>. QED
      BY <1>2, <3>2, <3>3
  <2>2. TypeOK'
    BY <1>1, <1>2, <1>3, <1>4, <2>1 DEF TypeOK
  <2>3. StepOf(t)
    BY <1>2, <1>3, <2>1 DEF StepOf, TabSame
  <2>. QED
    BY <2>2, <2>3
<1>6. Edited(t)' = Edited(t)
  BY <1>2 DEF Edited
<1>7. TabInv(t)
  BY <1>1 DEF IInv
<1>8. \A j \in Ids : PostInv(j)'
  BY <1>2, <1>5, <1>6, OverPosts
<1>9. Tracked(t)' => Tracked(t)
  BY <1>1, <1>2, <1>3, TrackedAfter
<1>10. lapsed'[t] \/ fetch'[t].st = "asked"
  BY <1>1, <1>2 DEF TypeOK, Graphs
<1>11. ~lapsed'[t] => Covered(t)'
  BY <1>10 DEF Covered
<1>12. fetch'[t].st = "answered" => fetch'[t] = fetch[t]
  BY <1>1, <1>2 DEF TypeOK
<1>13. TabInv(t)'
  BY <1>2, <1>6, <1>7, <1>9, <1>11, <1>12 DEF TabInv
<1>. QED
  BY <1>1, <1>5, <1>8, <1>13, TabSteps

(* What a sound save that is committed had when it was checked is in it. *)
LEMMA CommitShape ==
    ASSUME IInv, NEW i \in Ids, Commit(i)
    PROVE  /\ TypeOK' /\ draft' = posts[i].graph /\ posts[i].st = "checked" /\ (unsound' <=> unsound \/ ~posts[i].sound)
           /\ UNCHANGED <<canvas, hash, mode, backup, run, due, gone, fetch, detail, made, looks, follows, lapsed>>
           /\ posts[i].sound => draft \subseteq draft' /\ (unsound \/ Old \notin draft')
           /\ posts'[i] = Over \/ (Waits(i) /\ Like(posts'[i], posts[i]) /\ posts'[i].st = "saved"
                                   /\ posts'[i].sound = posts[i].sound /\ posts'[i].replaced = posts[i].replaced)
           /\ \A j \in Ids \ {i} :
                \/ posts'[j] = posts[j] /\ posts[j].st # "checked"
                \/ /\ posts[j].st = "checked" /\ posts'[j].st = "checked" /\ Like(posts'[j], posts[j])
                   /\ posts'[j].sound = FALSE /\ posts'[j].replaced = posts[j].replaced
<1>1. TypeOK /\ \A j \in Ids : posts[j] \in Posts
  BY DEF IInv, TypeOK
<1>2. /\ posts[i].st = "checked" /\ draft' = posts[i].graph /\ (unsound' <=> unsound \/ ~posts[i].sound)
      /\ posts' = [j \in Ids |->
                    IF j = i
                    THEN IF Waits(i) THEN [posts[j] EXCEPT !.st = "saved"] ELSE Over
                    ELSE IF posts[j].st = "checked" THEN [posts[j] EXCEPT !.sound = FALSE]
                    ELSE posts[j]]
      /\ UNCHANGED <<canvas, hash, mode, backup, run, due, gone, fetch, detail, made, looks, follows, lapsed>>
  BY DEF Commit
<1>3. \A j \in Ids \ {i} : IF posts[j].st = "checked" THEN posts'[j] = [posts[j] EXCEPT !.sound = FALSE] ELSE posts'[j] = posts[j]
  BY <1>2
<1>4. IF Waits(i) THEN posts'[i] = [posts[i] EXCEPT !.st = "saved"] ELSE posts'[i] = Over
  BY <1>2
<1>5. "saved" \in Stages
  BY DEF Stages
<1>6. ASSUME NEW j \in Ids \ {i}
      PROVE  /\ posts'[j] \in Posts
             /\ \/ posts'[j] = posts[j] /\ posts[j].st # "checked"
                \/ /\ posts[j].st = "checked" /\ posts'[j].st = "checked" /\ Like(posts'[j], posts[j])
                   /\ posts'[j].sound = FALSE /\ posts'[j].replaced = posts[j].replaced
  <2>1. CASE posts[j].st = "checked"
    <3>1. posts'[j] = [posts[j] EXCEPT !.sound = FALSE] /\ posts[j] \in Posts
      BY <1>1, <1>3, <2>1
    <3>. QED
      BY <2>1, <3>1 DEF Posts, Like
  <2>2. CASE posts[j].st # "checked"
    BY <1>1, <1>3, <2>2
  <2>. QED
    BY <2>1, <2>2
<1>7. /\ posts'[i] \in Posts
      /\ posts'[i] = Over \/ (Waits(i) /\ Like(posts'[i], posts[i]) /\ posts'[i].st = "saved"
                              /\ posts'[i].sound = posts[i].sound /\ posts'[i].replaced = posts[i].replaced)
  <2>1. CASE Waits(i)
    <3>1. posts'[i] = [posts[i] EXCEPT !.st = "saved"] /\ posts[i] \in Posts
      BY <1>1, <1>4, <2>1
    <3>. QED
      BY <2>1, <3>1 DEF Posts, Like
  <2>2. CASE ~Waits(i)
    BY <1>4, <2>2, Records
  <2>. QED
    BY <2>1, <2>2
<1>8. posts' \in [Ids -> Posts]
  BY <1>2, <1>6, <1>7
<1>9. unsound' \in BOOLEAN /\ draft' \in Graphs
  BY <1>1, <1>2 DEF TypeOK, Posts, Commit
<1>10. TypeOK'
  BY <1>1, <1>2, <1>8, <1>9 DEF TypeOK
<1>11. posts[i].sound => draft \subseteq draft' /\ (unsound \/ Old \notin draft')
  BY <1>2 DEF IInv, PostInv
<1>. QED
  BY <1>2, <1>6, <1>7, <1>10, <1>11

LEMMA CommitKeeps ==
    ASSUME IInv, NEW i \in Ids, Commit(i)
    PROVE  IInv'
<1>1. /\ TypeOK' /\ draft' = posts[i].graph /\ posts[i].st = "checked" /\ (unsound' <=> unsound \/ ~posts[i].sound)
      /\ UNCHANGED <<canvas, hash, mode, backup, run, due, gone, fetch, detail, made, looks, follows, lapsed>>
      /\ posts[i].sound => draft \subseteq draft' /\ (unsound \/ Old \notin draft')
      /\ posts'[i] = Over \/ (Waits(i) /\ Like(posts'[i], posts[i]) /\ posts'[i].st = "saved"
                              /\ posts'[i].sound = posts[i].sound /\ posts'[i].replaced = posts[i].replaced)
  BY CommitShape
<1>2. \A j \in Ids \ {i} :
        \/ posts'[j] = posts[j] /\ posts[j].st # "checked"
        \/ /\ posts[j].st = "checked" /\ posts'[j].st = "checked" /\ Like(posts'[j], posts[j])
           /\ posts'[j].sound = FALSE /\ posts'[j].replaced = posts[j].replaced
  BY CommitShape
<1>3. ~unsound' => ~unsound /\ posts[i].sound /\ draft \subseteq draft' /\ Old \notin draft'
  BY <1>1
<1>4. \A t \in Tabs : Edited(t)' = Edited(t)
  BY <1>1 DEF Edited
<1>5. ASSUME NEW t \in Tabs PROVE TabInv(t)'
  <2>1. TabInv(t)
    BY DEF IInv
  <2>2. Tracked(t)' => Tracked(t)
    <3>1. ASSUME NEW j \in Ids, posts'[j].tab = t, OnItsWay(j)', posts'[j].sound, ~posts'[j].replaced
          PROVE  posts[j].tab = t /\ OnItsWay(j) /\ posts[j].sound /\ ~posts[j].replaced
      BY <1>1, <1>2, <3>1, Records DEF OnItsWay, Like
    <3>. QED
      BY <1>1, <3>1 DEF Tracked
  <2>3. ASSUME ~unsound', Covered(t) PROVE Covered(t)'
    <3>1. ASSUME NEW j \in Ids, Covers(t, j) PROVE Covered(t)'
      <4>1. CASE j = i
        BY <1>1, <1>4, <3>1, <4>1 DEF Covered, Covers
      <4>2. CASE j # i
        <5>1. Covers(t, j)'
          BY <1>2, <1>4, <3>1, <4>2 DEF Covers, Like
        <5>. QED
          BY <5>1 DEF Covered
      <4>. QED
        BY <4>1, <4>2
    <3>2. CASE due[t] \/ fetch[t].st # "none" \/ Edited(t) \subseteq draft
      BY <1>1, <1>3, <1>4, <2>3, <3>2 DEF Covered
    <3>. QED
      BY <2>3, <3>1, <3>2 DEF Covered
  <2>. QED
    BY <1>1, <1>3, <1>4, <2>1, <2>2, <2>3 DEF TabInv
<1>6. ASSUME NEW j \in Ids PROVE PostInv(j)'
  <2>1. PostInv(j) /\ posts[j].tab \in Tabs
    BY DEF IInv, TypeOK, Posts
  <2>2. CASE j = i
    <3>1. CASE posts'[i] = Over
      BY <2>2, <3>1, Records DEF PostInv, OnItsWay
    <3>2. CASE posts'[i] # Over
      BY <1>1, <1>3, <1>4, <2>1, <2>2, <3>2 DEF PostInv, OnItsWay, Like
    <3>. QED
      BY <3>1, <3>2
  <2>3. CASE j # i /\ posts'[j] = posts[j] /\ posts[j].st # "checked"
    BY <1>1, <1>3, <1>4, <2>1, <2>3 DEF PostInv, OnItsWay
  <2>4. CASE j # i /\ posts[j].st = "checked"
    BY <1>1, <1>2, <1>4, <2>1, <2>4 DEF PostInv, OnItsWay, Like
  <2>. QED
    BY <1>2, <2>2, <2>3, <2>4
<1>7. unsound' \/ Old \notin draft'
  BY <1>3
<1>. QED
  BY <1>1, <1>5, <1>6, <1>7 DEF IInv

-----------------------------------------------------------------------------
(* Steps that put another graph on the canvas that is edited *)

LEMMA OutdatedStep ==
    ASSUME TypeOK, NEW t \in Tabs, posts' = Outdated(t, posts)
    PROVE  /\ posts' \in [Ids -> Posts] /\ OnlyPostsOf(t)
           /\ Tracked(t)' => follows'[t]
<1>1. posts' \in [Ids -> Posts]
  BY OutdatedShape
<1>2. ASSUME NEW i \in Ids, posts[i].tab = t, OnItsWay(i) PROVE posts'[i].tab = t /\ posts'[i].replaced
  BY <1>2, OutdatedShape DEF Like
<1>3. ASSUME NEW i \in Ids, posts[i].tab # t \/ ~OnItsWay(i) PROVE posts'[i] = posts[i]
  BY <1>3, OutdatedShape
<1>. QED
  BY <1>1, <1>2, <1>3 DEF OnlyPostsOf, Tracked, OnItsWay

LEMMA OutdatedPost ==
    ASSUME IInv, NEW t \in Tabs, StepOf(t), NEW i \in Ids, posts'[i] = Outdated(t, posts)[i]
    PROVE  PostInv(i)'
<1>1. TypeOK /\ PostInv(i) /\ UNCHANGED <<draft, unsound>>
  BY DEF IInv, StepOf
<1>2. CASE posts[i].tab = t /\ OnItsWay(i)
  <2>1. /\ Like(posts'[i], posts[i]) /\ posts'[i].replaced
        /\ posts'[i].st = posts[i].st /\ posts'[i].sound = posts[i].sound
    BY <1>1, <1>2, OutdatedShape
  <2>. QED
    BY <1>1, <2>1 DEF PostInv, Like
<1>3. CASE posts[i].tab # t \/ ~OnItsWay(i)
  <2>1. posts'[i] = posts[i]
    BY <1>1, <1>3, OutdatedShape
  <2>. QED
    BY <1>1, <1>3, <2>1, OtherPosts
<1>. QED
  BY <1>2, <1>3

LEMMA RefreshedKeeps ==
    ASSUME IInv, NEW t \in Tabs, Refreshed(t)
    PROVE  IInv'
<1>1. TypeOK /\ TabInv(t)
  BY DEF IInv
<1>2. /\ fetch[t].st = "answered" /\ ~gone[t]
      /\ fetch' = [fetch EXCEPT ![t] = NoFetch]
      /\ canvas' = [canvas EXCEPT ![t] = fetch[t].graph]
      /\ hash' = [hash EXCEPT ![t] = fetch[t].graph]
      /\ posts' = Outdated(t, posts)
      /\ follows' = [follows EXCEPT ![t] = (mode[t] = "edit")]
      /\ lapsed' = [lapsed EXCEPT ![t] = lapsed[t] /\ mode[t] # "edit"]
      /\ UNCHANGED <<draft, mode, backup, run, due, gone, detail, made, looks, unsound>>
  BY DEF Refreshed
<1>3. posts' \in [Ids -> Posts] /\ OnlyPostsOf(t) /\ (Tracked(t)' => follows'[t])
  BY <1>1, <1>2, OutdatedStep
<1>4. TypeOK'
  <2>1. fetch[t].graph \in Graphs /\ NoFetch \in [st : {"none", "due", "asked", "answered"}, graph : Graphs]
    BY <1>1 DEF TypeOK, NoFetch, Graphs
  <2>2. follows' \in [Tabs -> BOOLEAN] /\ lapsed' \in [Tabs -> BOOLEAN]
    BY <1>1, <1>2 DEF TypeOK
  <2>. QED
    BY <1>1, <1>2, <1>3, <2>1, <2>2 DEF TypeOK
<1>5. StepOf(t)
  BY <1>1, <1>2, <1>3 DEF StepOf, TabSame, TypeOK
<1>6. \A i \in Ids : PostInv(i)'
  BY <1>2, <1>5, OutdatedPost
<1>7. /\ canvas'[t] = fetch[t].graph /\ hash'[t] = fetch[t].graph /\ fetch'[t].st = "none"
      /\ follows'[t] <=> mode[t] = "edit"
  BY <1>1, <1>2 DEF TypeOK, NoFetch
<1>8. mode[t] = "edit" => Edited(t)' = fetch[t].graph
  BY <1>2, <1>7 DEF Edited
<1>9. ~unsound => fetch[t].graph \subseteq draft /\ Old \notin draft
  BY <1>1, <1>2 DEF TabInv, IInv
<1>10. TabInv(t)'
  BY <1>1, <1>2, <1>3, <1>7, <1>8, <1>9 DEF TabInv, Covered
<1>. QED
  BY <1>4, <1>5, <1>6, <1>10, TabSteps

(* The tab turns from what it edited, and knows that it does not go back. *)
LEMMA TurnedAway ==
    ASSUME IInv, NEW t \in Tabs, ~gone'[t], ~follows'[t], ~Tracked(t)', backup'[t].on <=> mode'[t] # "edit",
           fetch' = fetch, draft' = draft, unsound' = unsound
    PROVE  TabInv(t)'
<1>1. TabInv(t)
  BY DEF IInv
<1>. QED
  BY <1>1 DEF TabInv

LEMMA ShowRunKeeps ==
    ASSUME IInv, NEW t \in Tabs, ShowRun(t), mode[t] = "edit"
    PROVE  IInv'
<1>1. TypeOK /\ TabInv(t)
  BY DEF IInv
<1>2. /\ ~gone[t] /\ detail' = [detail EXCEPT ![t] = FALSE]
      /\ canvas' = [canvas EXCEPT ![t] = {Old}]
      /\ posts' = Outdated(t, posts)
      /\ follows' = [follows EXCEPT ![t] = FALSE]
      /\ UNCHANGED <<draft, hash, mode, backup, run, due, gone, fetch, made, looks, lapsed, unsound>>
  BY DEF ShowRun
<1>3. posts' \in [Ids -> Posts] /\ OnlyPostsOf(t) /\ (Tracked(t)' => follows'[t])
  BY <1>1, <1>2, OutdatedStep
<1>4. TypeOK'
  BY <1>1, <1>2, <1>3 DEF TypeOK, Graphs
<1>5. StepOf(t)
  BY <1>1, <1>2, <1>3 DEF StepOf, TabSame, TypeOK
<1>6. \A i \in Ids : PostInv(i)'
  BY <1>2, <1>5, OutdatedPost
<1>7. ~follows'[t] /\ ~Tracked(t)' /\ ~gone'[t] /\ (backup'[t].on <=> mode'[t] # "edit")
  BY <1>1, <1>2, <1>3 DEF TypeOK, TabInv
<1>8. TabInv(t)'
  BY <1>2, <1>7, TurnedAway
<1>. QED
  BY <1>4, <1>5, <1>6, <1>8, TabSteps

LEMMA RestoreKeeps ==
    ASSUME IInv, NEW t \in Tabs, Restore(t)
    PROVE  IInv'
<1> DEFINE post == [Post(t, "save", canvas[t]) EXCEPT !.sound = FALSE]
<1>1. TypeOK /\ TabInv(t)
  BY DEF IInv
<1>2. /\ ~gone[t] /\ mode' = [mode EXCEPT ![t] = "edit"] /\ backup' = [backup EXCEPT ![t] = NoBackup]
      /\ follows' = [follows EXCEPT ![t] = FALSE]
      /\ UNCHANGED <<draft, canvas, hash, run, due, gone, fetch, detail, made, looks, lapsed, unsound>>
  BY DEF Restore, AtHand
<1>3. PICK n \in Ids : posts[n].st = "none" /\ posts' = [Outdated(t, posts) EXCEPT ![n] = post]
  BY DEF Restore
<1>4. /\ Post(t, "save", canvas[t]) \in Posts /\ Post(t, "save", canvas[t]).tab = t
      /\ Post(t, "save", canvas[t]).st = "sent" /\ Post(t, "save", canvas[t]).graph = canvas[t]
  BY <1>1 DEF Post, TypeOK, Posts
<1>5. PICK sent \in Posts : sent = Post(t, "save", canvas[t])
  BY <1>4
<1>6. post \in Posts /\ post.tab = t /\ post.st = "sent" /\ post.sound = FALSE /\ post.graph = canvas[t]
  <2>1. post = [sent EXCEPT !.sound = FALSE]
    BY <1>5
  <2>. QED
    BY <1>4, <1>5, <2>1 DEF Posts
<1> HIDE DEF post
<1>7. /\ posts' \in [Ids -> Posts] /\ posts'[n] = post
      /\ \A i \in Ids \ {n} : posts'[i] = Outdated(t, posts)[i]
  BY <1>1, <1>3, <1>6, OutdatedShape
<1>8. OnlyPostsOf(t)
  <2>1. ASSUME NEW i \in Ids \ {n}, posts[i].tab = t, OnItsWay(i) PROVE posts'[i].tab = t
    BY <1>1, <1>7, <2>1, OutdatedShape DEF Like
  <2>2. ASSUME NEW i \in Ids \ {n}, posts[i].tab # t \/ ~OnItsWay(i) PROVE posts'[i] = posts[i]
    BY <1>1, <1>7, <2>2, OutdatedShape
  <2>. QED
    BY <1>3, <1>6, <1>7, <2>1, <2>2 DEF OnlyPostsOf, OnItsWay
<1>9. TypeOK'
  <2>1. NoBackup \in [on : BOOLEAN, graph : Graphs]
    BY DEF NoBackup, Graphs
  <2>. QED
    BY <1>1, <1>2, <1>7, <2>1 DEF TypeOK
<1>10. StepOf(t)
  BY <1>1, <1>2, <1>8 DEF StepOf, TabSame, TypeOK
<1>11. /\ mode'[t] = "edit" /\ canvas'[t] = canvas[t] /\ follows'[t] = FALSE /\ ~gone'[t]
       /\ backup'[t].on = FALSE /\ Edited(t)' = canvas[t]
  BY <1>1, <1>2 DEF TypeOK, NoBackup, Edited
<1>12. ~Tracked(t)'
  <2>1. ASSUME NEW i \in Ids \ {n}, posts'[i].tab = t, OnItsWay(i)' PROVE posts'[i].replaced
    <3>1. CASE posts[i].tab = t /\ OnItsWay(i)
      BY <1>1, <1>7, <3>1, OutdatedShape
    <3>2. CASE posts[i].tab # t \/ ~OnItsWay(i)
      BY <1>1, <1>7, <2>1, <3>2, OutdatedShape DEF OnItsWay
    <3>. QED
      BY <3>1, <3>2
  <2>. QED
    BY <1>6, <1>7, <1>11, <2>1 DEF Tracked
<1>13. TabInv(t)'
  BY <1>2, <1>11, <1>12, TurnedAway
<1>14. ASSUME NEW i \in Ids PROVE PostInv(i)'
  <2>1. CASE i = n
    BY <1>6, <1>7, <1>11, <2>1 DEF PostInv, OnItsWay
  <2>2. CASE i # n
    BY <1>7, <1>10, <2>2, OutdatedPost
  <2>. QED
    BY <2>1, <2>2
<1>. QED
  BY <1>9, <1>10, <1>13, <1>14, TabSteps

-----------------------------------------------------------------------------
LEMMA InitInv == Init => IInv
<1> SUFFICES ASSUME Init PROVE IInv
  OBVIOUS
<1>1. \A i \in Ids : posts[i] \in Posts /\ posts[i].st = "none"
  BY Records DEF Init
<1>2. TypeOK
  <2>1. posts \in [Ids -> Posts]
    BY <1>1 DEF Init
  <2>2. {} \in Graphs /\ NoBackup \in [on : BOOLEAN, graph : Graphs] /\ NoFetch \in [st : {"none", "due", "asked", "answered"}, graph : Graphs]
    BY DEF Graphs, NoBackup, NoFetch
  <2>3. 0 \in 0..MaxLooks
    BY UsersAssumption
  <2>. QED
    BY <2>1, <2>2, <2>3 DEF Init, TypeOK
<1>3. Old \notin draft
  BY DEF Init
<1>4. ASSUME NEW t \in Tabs PROVE TabInv(t)
  BY DEF Init, TabInv, Edited, Covered, NoBackup, NoFetch
<1>5. \A i \in Ids : PostInv(i)
  BY <1>1 DEF PostInv, OnItsWay
<1>. QED
  BY <1>2, <1>3, <1>4, <1>5 DEF IInv

LEMMA NextInv == IInv /\ [Next]_vars => IInv'
<1> SUFFICES ASSUME IInv, [Next]_vars PROVE IInv'
  OBVIOUS
<1>1. CASE UNCHANGED vars
  <2>1. TypeOK'
    BY <1>1 DEF vars, IInv, TypeOK
  <2>2. ASSUME NEW t \in Tabs PROVE TabInv(t)'
    <3>1. Edited(t)' = Edited(t) /\ (Tracked(t)' <=> Tracked(t))
      BY <1>1 DEF vars, Edited, Tracked, OnItsWay
    <3>2. \A i \in Ids : Covers(t, i) => Covers(t, i)'
      BY <1>1, <3>1 DEF vars, Covers
    <3>3. Covered(t) => Covered(t)'
      BY <1>1, <3>1, <3>2 DEF vars, Covered
    <3>. QED
      BY <1>1, <3>1, <3>3 DEF vars, IInv, TabInv
  <2>3. ASSUME NEW i \in Ids PROVE PostInv(i)'
    BY <1>1 DEF vars, IInv, PostInv, OnItsWay, Edited
  <2>. QED
    BY <1>1, <2>1, <2>2, <2>3 DEF vars, IInv
<1>2. ASSUME NEW t \in Tabs, NEW e \in Edits, Edit(t, e) PROVE IInv'
  BY <1>2, EditKeeps
<1>3. ASSUME NEW t \in Tabs, Debounced(t) PROVE IInv'
  BY <1>3, QuietStep, SendingKeeps
<1>4. ASSUME NEW t \in Tabs, StartRun(t) PROVE IInv'
  BY <1>4, SendingKeeps
<1>5. ASSUME NEW t \in Tabs, LookAway(t) PROVE IInv'
  BY <1>5, QuietStep, SendingKeeps
<1>6. ASSUME NEW t \in Tabs,
             \/ EndRun(t) \/ Refresh(t) \/ Read(t) \/ RefreshFails(t) \/ ShowVersion(t) \/ GoBack(t)
             \/ \E m \in {"history", "restoring"} : View(t, m)
      PROVE  IInv'
  BY <1>6, QuietStep
<1>7. ASSUME NEW t \in Tabs, ShowRun(t) PROVE IInv'
  BY <1>7, QuietStep, ShowRunKeeps
<1>8. ASSUME NEW t \in Tabs, Leave(t) PROVE IInv'
  BY <1>8, LeaveKeeps
<1>9. ASSUME NEW t \in Tabs, Restore(t) PROVE IInv'
  BY <1>9, RestoreKeeps
<1>10. ASSUME NEW t \in Tabs, Refreshed(t) PROVE IInv'
  BY <1>10, RefreshedKeeps
<1>11. ASSUME NEW i \in Ids, Check(i) \/ Saved(i) \/ Refused(i) \/ Broken(i) PROVE IInv'
  <2>1. PICK t \in Tabs : t = posts[i].tab
    BY DEF IInv, TypeOK, Posts
  <2>. QED
    BY <1>11, <2>1, CheckKeeps, SavedKeeps, FailedKeeps
<1>12. ASSUME NEW i \in Ids, Commit(i) PROVE IInv'
  BY <1>12, CommitKeeps
<1>. QED
  BY <1>1, <1>2, <1>3, <1>4, <1>5, <1>6, <1>7, <1>8, <1>9, <1>10, <1>11, <1>12 DEF Next, UserActs, TabRuns, Answered

(* IInv holds throughout. *)
THEOREM Invariance == Spec => []IInv
BY InitInv, NextInv, PTL DEF Spec

-----------------------------------------------------------------------------
(* The editor of a tab is well formed, and the hash it would send stands    *)
(* for a graph that is part of what it would save.                          *)
THEOREM HashCorrect == Spec => []HashInv
<1>1. IInv => HashInv
  BY DEF IInv, TabInv, Edited, HashInv, HashStandsForCanvas
<1>. QED
  BY <1>1, Invariance, PTL

(* Only a commit changes the draft (sync_draft_workflow). *)
LEMMA DraftStays ==
    ASSUME [Next]_vars, \A i \in Ids : ~Commit(i)
    PROVE  draft' = draft
<1>1. CASE UNCHANGED vars
  BY <1>1 DEF vars
<1>2. ASSUME NEW t \in Tabs, UserActs(t) PROVE draft' = draft
  BY <1>2 DEF UserActs, Edit, StartRun, ShowVersion, GoBack, Restore, View, LookAway, Leave
<1>3. ASSUME NEW t \in Tabs, TabRuns(t) \/ Read(t) \/ RefreshFails(t) PROVE draft' = draft
  BY <1>3 DEF TabRuns, Debounced, EndRun, Refresh, Refreshed, ShowRun, Read, RefreshFails
<1>4. ASSUME NEW i \in Ids, Check(i) \/ Answered(i) \/ Broken(i) PROVE draft' = draft
  BY <1>4 DEF Check, Answered, Saved, Refused, Broken
<1>. QED
  BY <1>1, <1>2, <1>3, <1>4 DEF Next

(* A sound save that is committed keeps every edit the draft had: nobody    *)
(* else's save came in after its hash was compared in sync_draft_workflow,  *)
(* and its graph goes back to the draft the hash stands for.                *)
THEOREM SoundSavesKeepEdits == Spec => SavedEditsStay
<1> DEFINE Kept == \A i \in Ids : posts[i].st = "checked" /\ posts[i].sound /\ posts'[i].st # "checked"
                                  => draft \subseteq draft'
<1>1. IInv /\ [Next]_vars => Kept
  <2> SUFFICES ASSUME IInv, [Next]_vars, NEW i \in Ids,
                      posts[i].st = "checked", posts[i].sound, posts'[i].st # "checked"
               PROVE  draft \subseteq draft'
    OBVIOUS
  <2>1. CASE \A j \in Ids : ~Commit(j)
    BY <2>1, DraftStays
  <2>2. ASSUME NEW j \in Ids, Commit(j) PROVE draft \subseteq draft'
    <3>1. CASE j = i
      BY <2>2, <3>1, CommitShape
    <3>2. CASE j # i
      BY <2>2, <3>2, CommitShape
    <3>. QED
      BY <3>1, <3>2
  <2>. QED
    BY <2>1, <2>2
<1>2. IInv /\ [Next]_vars => [Kept]_vars
  BY <1>1
<1>. QED
  BY <1>2, Invariance, PTL DEF Spec, SavedEditsStay

(* When a tab is at rest and none of its saves was left out or failed, the  *)
(* draft has what it shows, unless an unsound save came over it: debounced  *)
(* saves, saves before a run, refusals with their refresh, beacons and the  *)
(* backup of the canvas lose no edit unawares.                              *)
THEOREM NothingLostUnawares == Spec => []ShownIsSaved
<1>1. ASSUME IInv, NEW t \in Tabs, mode[t] = "edit", ~due[t], fetch[t].st = "none", ~InFlight(t),
             follows[t], ~lapsed[t], ~unsound
      PROVE  canvas[t] \subseteq draft
  <2>1. TabInv(t) /\ Tracked(t) /\ Edited(t) = canvas[t]
    BY <1>1 DEF IInv, Tracked, Edited
  <2>2. CASE gone[t]
    BY <2>1, <2>2 DEF TabInv
  <2>3. CASE ~gone[t]
    <3>1. Covered(t)
      BY <1>1, <2>1, <2>3 DEF TabInv
    <3>2. \A i \in Ids : ~Covers(t, i)
      BY <1>1 DEF Covers, InFlight
    <3>. QED
      BY <1>1, <2>1, <3>1, <3>2 DEF Covered
  <2>. QED
    BY <2>2, <2>3
<1>2. IInv => ShownIsSaved
  BY <1>1 DEF ShownIsSaved
<1>. QED
  BY <1>2, Invariance, PTL
=============================================================================
