----------------------------- MODULE ChatProofs -----------------------------
(***************************************************************************)
(* Theorems about Chat: with any number of messages, stops and restarts,   *)
(* the tree is well formed, and as long as no message is sent into an      *)
(* answer that was stopped and still comes in, it keeps what it has, the   *)
(* shared references are about the last message, and no stale question is  *)
(* suggested.                                                              *)
(***************************************************************************)
EXTENDS Chat, TLAPS

(* Parents come before their messages; what is not sent yet is blank. *)
Numbered ==
  /\ before <= sent /\ DOMAIN tree \subseteq 1..sent
  /\ \A m \in Msgs : parent[m] < m
  /\ \A m \in Msgs : m <= sent => conv[m] # 0
  /\ \A m \in Msgs : m > sent => stream[m] = "none" /\ fetch[m] = "none" /\ parent[m] = 0 /\ snapshot[m] = Empty

(* A tree held by callbacks is of earlier messages, with their parents. *)
Held ==
  \A m \in Msgs : /\ DOMAIN snapshot[m] \subseteq 1..m - 1
                  /\ \A x \in DOMAIN snapshot[m] : parent[x] \in DOMAIN snapshot[m] \cup {0}

Good(t) == \A x \in DOMAIN t : t[x] # "asked" => conv[x] = conversation
Full(t, S) == \A x \in S : x \in DOMAIN t /\ (stream[x] \in {"ended", "over"} => t[x] = "whole")

(* What holds of the stream of an answer that is coming in *)
LastComes(m) == m = sent /\ sent > before /\ (responding \/ stopped)
TaskIs(m) == stream[m] # "sent" => task = IF torn THEN 0 ELSE m
ConvIs(m) == conv[m] = conversation \/ (conversation = 0 /\ stream[m] \in {"sent", "started"})
Grounded(m) ==
  IF parent[m] = 0 THEN Good(snapshot[m]) /\ Full(snapshot[m], before + 1..m - 1) ELSE Answered(tree, parent[m])
Streaming(m) == LastComes(m) /\ TaskIs(m) /\ ConvIs(m) /\ Grounded(m)

(* Only a chat that was started anew does not show the tree. *)
Showing == chatTree = tree \/ (sent = before /\ \A m \in Msgs : fetch[m] # "messages")

(* What holds as long as no answer comes in that the chat has turned from *)
Quiet ==
  /\ \A m \in Msgs : stream[m] \in Open => Streaming(m)
  /\ responding => sent > before /\ stream[sent] \in Open \cup {"lost"}
  /\ Good(chatTree) /\ Full(chatTree, before + 1..sent)
  /\ Showing

Fresh == \A m \in Msgs : fetch[m] # "none" => m = sent

Shape == TypeOK /\ Numbered /\ Held

(* The inductive invariant *)
IInv ==
  /\ Shape
  /\ "overlap" \notin lapses => Quiet
  /\ lapses = {} => Fresh /\ suggested \in {0, sent}

-----------------------------------------------------------------------------
LEMMA TreeSet ==
    ASSUME NEW t
    PROVE  t \in Trees <=> DOMAIN t \subseteq Msgs /\ t \in [DOMAIN t -> Copies]
BY DEF Trees

LEMMA EmptyTree == Empty \in Trees /\ DOMAIN Empty = {}
BY DEF Empty, Trees

(* Put changes one message only. *)
LEMMA PutTree ==
    ASSUME NEW t \in Trees, NEW m \in Msgs, NEW copy \in Copies
    PROVE  /\ Put(t, m, copy) \in Trees
           /\ DOMAIN Put(t, m, copy) = DOMAIN t \cup {m}
           /\ Put(t, m, copy)[m] = copy
           /\ \A x \in DOMAIN t : x # m => Put(t, m, copy)[x] = t[x]
<1>1. DOMAIN t \subseteq Msgs /\ t \in [DOMAIN t -> Copies]
  BY TreeSet
<1>2. Put(t, m, copy) \in [DOMAIN t \cup {m} -> Copies]
  BY <1>1 DEF Put
<1>. QED
  BY <1>1, <1>2, TreeSet DEF Put

LEMMA PartTree ==
    ASSUME NEW t \in Trees, NEW S
    PROVE  [x \in DOMAIN t \ S |-> t[x]] \in Trees
<1>1. DOMAIN t \subseteq Msgs /\ t \in [DOMAIN t -> Copies]
  BY TreeSet
<1>2. [x \in DOMAIN t \ S |-> t[x]] \in [DOMAIN t \ S -> Copies]
  BY <1>1
<1>. QED
  BY <1>1, <1>2 DEF Trees

(* What follows a message was sent after it, and includes what follows that. *)
LEMMA FollowingLater ==
    ASSUME NEW m \in Msgs, parent \in [Msgs -> Some], \A x \in Msgs : parent[x] < x
    PROVE  /\ Following(m) \subseteq Msgs
           /\ \A x \in Following(m) : m < x
           /\ \A x \in Msgs : parent[x] \in Following(m) => x \in Following(m)
<1> DEFINE S == {x \in Msgs : m < x}
<1>1. Following(m) \subseteq Msgs
  BY DEF Following
<1>2. ASSUME NEW y \in Msgs, parent[y] \in S \cup {m} PROVE y \in S
  BY <1>2, BoundsAssumption DEF Msgs, Some
<1>3. Following(m) \subseteq S
  BY <1>2 DEF Following
<1>4. ASSUME NEW x \in Msgs, parent[x] \in Following(m) PROVE x \in Following(m)
  <2> SUFFICES ASSUME NEW T \in SUBSET Msgs, \A y \in Msgs : parent[y] \in T \cup {m} => y \in T
               PROVE  x \in T
    BY DEF Following
  <2>1. parent[x] \in T
    BY <1>4 DEF Following
  <2>. QED
    BY <2>1
<1>. QED
  BY <1>1, <1>3, <1>4

(* An update of the tree by a callback leaves it well formed. *)
LEMMA ShownTree ==
    ASSUME TypeOK, Numbered, Held, NEW m \in Msgs, m <= sent, NEW copy \in Copies, Shown(m, copy)
    PROVE  /\ tree' \in Trees /\ DOMAIN tree' \subseteq 1..sent
           /\ \A x \in DOMAIN tree' : parent[x] \in DOMAIN tree' \cup {0}
<1>1. tree \in Trees /\ snapshot[m] \in Trees /\ parent \in [Msgs -> Some] /\ sent \in Some /\ m \in Nat
  BY DEF TypeOK, Msgs
<1>2. CASE parent[m] = 0
  <2>1. tree' = Put(snapshot[m], m, copy)
    BY <1>2 DEF Shown, Update
  <2>2. tree' \in Trees /\ DOMAIN tree' = DOMAIN snapshot[m] \cup {m}
    BY <1>1, <2>1, PutTree
  <2>3. DOMAIN snapshot[m] \subseteq 1..m - 1 /\ m \in 1..sent
    BY BoundsAssumption DEF Held, Msgs, Some, TypeOK
  <2>. QED
    BY <1>1, <1>2, <2>2, <2>3, BoundsAssumption DEF Held, Some, Msgs
<1>3. CASE parent[m] # 0 /\ ~Answered(tree, parent[m])
  BY <1>1, <1>3 DEF Shown, Update, TypeOK, Numbered
<1>4. CASE parent[m] # 0 /\ Answered(tree, parent[m])
  <2> DEFINE rest == [x \in DOMAIN tree \ Following(m) |-> tree[x]]
  <2>1. tree' = Put(rest, m, copy)
    BY <1>4 DEF Shown, Update
  <2>2. rest \in Trees /\ DOMAIN rest = DOMAIN tree \ Following(m)
    BY <1>1, PartTree
  <2>3. tree' \in Trees /\ DOMAIN tree' = (DOMAIN tree \ Following(m)) \cup {m}
    <3> HIDE DEF rest
    <3>. QED
      BY <2>1, <2>2, PutTree
  <2>4. \A x \in Following(m) : m < x
    BY <1>1, FollowingLater DEF Numbered
  <2>5. parent[m] \in DOMAIN tree \ Following(m)
    BY <1>1, <1>4, <2>4, BoundsAssumption DEF Numbered, Answered, Msgs, Some
  <2>6. DOMAIN tree \subseteq 1..sent /\ m \in 1..sent
    BY BoundsAssumption DEF Numbered, Msgs, Some, TypeOK
  <2>7. \A x \in DOMAIN tree \ Following(m) : parent[x] \in (DOMAIN tree \ Following(m)) \cup {0}
    <3>1. DOMAIN tree \subseteq Msgs /\ \A x \in DOMAIN tree : parent[x] \in DOMAIN tree \cup {0}
      BY <1>1, TreeSet DEF TypeOK
    <3>2. \A x \in Msgs : parent[x] \in Following(m) => x \in Following(m)
      BY <1>1, FollowingLater DEF Numbered
    <3>. QED
      BY <3>1, <3>2
  <2>. QED
    BY <2>3, <2>5, <2>6, <2>7
<1>. QED
  BY <1>2, <1>3, <1>4

-----------------------------------------------------------------------------
(* What a callback does besides the tree and the references *)
LEMMA BecomesShape ==
    ASSUME Shape, NEW m \in Msgs, NEW state \in Streams, stream[m] # "none", Becomes(m, state), UNCHANGED user
    PROVE  /\ m <= sent
           /\ stream' \in [Msgs -> Streams] /\ snapshot' \in [Msgs -> Trees] /\ Held'
           /\ \A x \in Msgs : x > sent => x # m /\ stream'[x] = stream[x] /\ snapshot'[x] = snapshot[x]
<1>1. m <= sent
  BY BoundsAssumption DEF Shape, Numbered, TypeOK, Some, Msgs
<1>2. stream' \in [Msgs -> Streams] /\ snapshot' \in [Msgs -> Trees]
  BY EmptyTree DEF Shape, TypeOK, Becomes
<1>3. ASSUME NEW x \in Msgs PROVE snapshot'[x] = snapshot[x] \/ snapshot'[x] = Empty
  BY <1>2 DEF Shape, TypeOK, Becomes
<1>4. Held'
  BY <1>2, <1>3, EmptyTree DEF Held, Shape, user
<1>5. ASSUME NEW x \in Msgs, x > sent PROVE x # m /\ stream'[x] = stream[x] /\ snapshot'[x] = snapshot[x]
  BY <1>1, <1>5, BoundsAssumption DEF Shape, TypeOK, Becomes, Msgs, Some
<1>. QED
  BY <1>1, <1>2, <1>4, <1>5

(* A step of a stream that shows something keeps the shape. *)
LEMMA CallbackShape ==
    ASSUME Shape, NEW m \in Msgs, NEW state \in Streams, stream[m] # "none", NEW copy \in Copies,
           Becomes(m, state), Shown(m, copy), UNCHANGED user, UNCHANGED after, UNCHANGED stopped,
           {conversation', task'} \subseteq Some, {torn', responding'} \subseteq BOOLEAN
    PROVE  Shape'
<1>1. /\ m <= sent
      /\ stream' \in [Msgs -> Streams] /\ snapshot' \in [Msgs -> Trees] /\ Held'
      /\ \A x \in Msgs : x > sent => x # m /\ stream'[x] = stream[x] /\ snapshot'[x] = snapshot[x]
  BY BecomesShape
<1>2. /\ tree' \in Trees /\ DOMAIN tree' \subseteq 1..sent
      /\ \A x \in DOMAIN tree' : parent[x] \in DOMAIN tree' \cup {0}
      /\ chatTree' = tree'
  BY <1>1, ShownTree DEF Shape, Shown, Update
<1>3. TypeOK'
  BY <1>1, <1>2 DEF Shape, TypeOK, user, after
<1>4. Numbered'
  BY <1>1, <1>2 DEF Shape, Numbered, user, after
<1>. QED
  BY <1>1, <1>3, <1>4 DEF Shape

(* The types, one by one *)
LEMMA Types ==
    ASSUME Shape
    PROVE  /\ tree \in Trees /\ DOMAIN tree \subseteq Msgs /\ tree \in [DOMAIN tree -> Copies]
           /\ chatTree \in {tree, Empty} /\ chatTree \in Trees /\ DOMAIN chatTree \subseteq DOMAIN tree
           /\ parent \in [Msgs -> Some] /\ conv \in [Msgs -> Some] /\ stream \in [Msgs -> Streams]
           /\ snapshot \in [Msgs -> Trees] /\ fetch \in [Msgs -> {"none", "messages", "questions"}]
           /\ sent \in Nat /\ sent <= MaxSends /\ before \in Nat /\ before <= sent
           /\ MaxSends \in Nat /\ \A x : x \in Msgs <=> x \in Nat /\ 1 <= x /\ x <= MaxSends
<1>1. sent \in Some /\ before \in Some /\ before <= sent
  BY DEF Shape, TypeOK, Numbered
<1>2. \A x : x \in Msgs <=> x \in Nat /\ 1 <= x /\ x <= MaxSends
  BY BoundsAssumption DEF Msgs
<1>3. tree \in Trees /\ parent \in [Msgs -> Some] /\ conv \in [Msgs -> Some] /\ stream \in [Msgs -> Streams]
      /\ snapshot \in [Msgs -> Trees] /\ fetch \in [Msgs -> {"none", "messages", "questions"}]
  BY DEF Shape, TypeOK
<1>4. DOMAIN tree \subseteq Msgs /\ tree \in [DOMAIN tree -> Copies]
  BY <1>3, TreeSet
<1>5. sent \in Nat /\ sent <= MaxSends /\ before \in Nat
  BY <1>1, BoundsAssumption DEF Some
<1>6. chatTree \in {tree, Empty} /\ chatTree \in Trees /\ DOMAIN chatTree \subseteq DOMAIN tree
  BY <1>3, EmptyTree DEF Shape, TypeOK
<1>. QED
  BY <1>1, <1>2, <1>3, <1>4, <1>5, <1>6, BoundsAssumption

(* What has been sent has a conversation. *)
LEMMA Named == ASSUME Shape PROVE \A x \in 1..sent : x \in Msgs /\ conv[x] # 0
<1>1. sent \in Nat /\ sent <= MaxSends /\ MaxSends \in Nat /\ \A x : x \in Msgs <=> x \in Nat /\ 1 <= x /\ x <= MaxSends
  BY Types
<1>2. ASSUME NEW x \in 1..sent PROVE x \in Msgs /\ x <= sent
  BY <1>1
<1>. QED
  BY <1>2 DEF Shape, Numbered

(* What sending does: nothing follows a message that is not sent yet. *)
LEMMA SendFacts ==
    ASSUME Shape, NEW p \in Some, p = 0 \/ Answered(chatTree, p), Send(p), NEW m, m = sent + 1
    PROVE  /\ m \in Msgs /\ sent' = m /\ m \notin DOMAIN tree /\ p < m
           /\ tree' = Put(chatTree, m, "asked") /\ chatTree' = tree' /\ tree' \in Trees
           /\ DOMAIN tree' = DOMAIN chatTree \cup {m}
           /\ parent' \in [Msgs -> Some] /\ parent'[m] = p
           /\ conv' \in [Msgs -> Some] /\ conv'[m] = IF conversation = 0 THEN m ELSE conversation
           /\ stream' \in [Msgs -> Streams] /\ stream'[m] = "sent"
           /\ snapshot' \in [Msgs -> Trees] /\ snapshot'[m] = IF p = 0 THEN chatTree ELSE Empty
           /\ \A x \in Msgs : x # m => /\ parent'[x] = parent[x] /\ conv'[x] = conv[x]
                                       /\ stream'[x] = stream[x] /\ snapshot'[x] = snapshot[x]
<1>t. /\ chatTree \in {tree, Empty} /\ chatTree \in Trees /\ DOMAIN chatTree \subseteq DOMAIN tree
      /\ tree \in Trees /\ DOMAIN tree \subseteq Msgs /\ tree \in [DOMAIN tree -> Copies]
      /\ parent \in [Msgs -> Some] /\ conv \in [Msgs -> Some] /\ stream \in [Msgs -> Streams]
      /\ snapshot \in [Msgs -> Trees]
      /\ sent \in Nat /\ sent <= MaxSends
      /\ \A x : x \in Msgs <=> x \in Nat /\ 1 <= x /\ x <= MaxSends
  BY Types
<1>s. /\ sent < MaxSends /\ sent' = m
      /\ parent' = [parent EXCEPT ![m] = p]
      /\ snapshot' = [snapshot EXCEPT ![m] = IF p = 0 THEN chatTree ELSE Empty]
      /\ conv' = [conv EXCEPT ![m] = IF conversation = 0 THEN m ELSE conversation]
      /\ Update(p, chatTree, m, "asked")
      /\ stream' = [stream EXCEPT ![m] = "sent"]
  BY DEF Send
<1>1. m \in Msgs /\ m \in Nat /\ m > sent
  BY <1>t, <1>s, BoundsAssumption
<1>2. DOMAIN tree \subseteq 1..sent /\ (\A x \in Msgs : parent[x] < x) /\ conversation \in Some
  BY DEF Shape, Numbered, TypeOK
<1>3. m \notin DOMAIN tree /\ p < m
  BY <1>t, <1>1, <1>2, BoundsAssumption DEF Answered, Some
<1>4. tree' = Put(chatTree, m, "asked") /\ chatTree' = tree'
  <2>1. CASE p = 0
    BY <1>s, <2>1 DEF Update
  <2>2. CASE p # 0
    <3>1. Following(m) \cap DOMAIN tree = {}
      <4>1. \A x \in Following(m) : m < x
        BY <1>t, <1>1, <1>2, FollowingLater
      <4>. QED
        BY <1>t, <1>1, <1>2, <4>1
    <3>2. [x \in DOMAIN tree \ Following(m) |-> tree[x]] = tree
      BY <1>t, <3>1
    <3>3. chatTree = tree
      BY <1>t, <2>2, EmptyTree DEF Answered
    <3>. QED
      BY <1>s, <2>2, <3>2, <3>3 DEF Update
  <2>. QED
    BY <2>1, <2>2
<1>5. tree' \in Trees /\ DOMAIN tree' = DOMAIN chatTree \cup {m}
  BY <1>t, <1>1, <1>4, PutTree DEF Copies
<1>6. /\ parent' \in [Msgs -> Some] /\ parent'[m] = p
      /\ \A x \in Msgs : x # m => parent'[x] = parent[x]
  BY <1>t, <1>s, <1>1
<1>7. /\ conv' \in [Msgs -> Some] /\ conv'[m] = IF conversation = 0 THEN m ELSE conversation
      /\ \A x \in Msgs : x # m => conv'[x] = conv[x]
  <2>1. m \in Some
    BY <1>1 DEF Msgs, Some
  <2>. QED
    BY <1>t, <1>s, <1>1, <1>2, <2>1
<1>8. /\ stream' \in [Msgs -> Streams] /\ stream'[m] = "sent"
      /\ \A x \in Msgs : x # m => stream'[x] = stream[x]
  BY <1>t, <1>s, <1>1 DEF Streams, Open
<1>9. /\ snapshot' \in [Msgs -> Trees] /\ snapshot'[m] = IF p = 0 THEN chatTree ELSE Empty
      /\ \A x \in Msgs : x # m => snapshot'[x] = snapshot[x]
  BY <1>t, <1>s, <1>1, EmptyTree
<1>. QED
  BY <1>s, <1>1, <1>3, <1>4, <1>5, <1>6, <1>7, <1>8, <1>9

LEMMA SendShape == ASSUME Shape, NEW p \in Some, p = 0 \/ Answered(chatTree, p), Send(p) PROVE Shape'
<1>1. PICK m : m = sent + 1
  OBVIOUS
<1>2. /\ m \in Msgs /\ sent' = m /\ m \notin DOMAIN tree /\ p < m
      /\ tree' \in Trees /\ chatTree' = tree' /\ DOMAIN tree' = DOMAIN chatTree \cup {m}
      /\ parent' \in [Msgs -> Some] /\ parent'[m] = p
      /\ conv' \in [Msgs -> Some] /\ conv'[m] = IF conversation = 0 THEN m ELSE conversation
      /\ stream' \in [Msgs -> Streams]
      /\ snapshot' \in [Msgs -> Trees] /\ snapshot'[m] = IF p = 0 THEN chatTree ELSE Empty
      /\ \A x \in Msgs : x # m => /\ parent'[x] = parent[x] /\ conv'[x] = conv[x]
                                  /\ stream'[x] = stream[x] /\ snapshot'[x] = snapshot[x]
  BY <1>1, SendFacts
<1>3. /\ chatTree \in {tree, Empty} /\ DOMAIN chatTree \subseteq DOMAIN tree /\ DOMAIN tree \subseteq Msgs /\ sent \in Nat /\ before \in Nat /\ before <= sent
      /\ \A x : x \in Msgs <=> x \in Nat /\ 1 <= x /\ x <= MaxSends
  BY Types
<1>4. m \in Nat /\ sent < m /\ \A x \in Nat : x <= m <=> x <= sent \/ x = m
  BY <1>1, <1>3
<1>5. TypeOK'
  <2>1. \A x \in DOMAIN tree' : parent'[x] \in DOMAIN tree' \cup {0}
    <3>1. \A x \in DOMAIN chatTree : parent[x] \in DOMAIN chatTree \cup {0}
      BY <1>3, EmptyTree DEF Shape, TypeOK
    <3>. QED
      BY <1>2, <1>3, <3>1 DEF Answered
  <2>2. lapses' \subseteq {"overlap", "early"}
    BY DEF Send, LapsesOfSending, Shape, TypeOK
  <2>3. {conversation', task', suggested', messagesOf', questionsOf', sent', before'} \subseteq Some
    <3>1. m \in Some /\ 0 \in Some
      BY <1>2, BoundsAssumption DEF Msgs, Some
    <3>. QED
      BY <1>2, <3>1 DEF Send, Shape, TypeOK
  <2>4. /\ {torn', responding', stopped'} \subseteq BOOLEAN /\ halts' \in 0..MaxHalts
        /\ fetch' \in [Msgs -> {"none", "messages", "questions"}]
    BY DEF Send, Shape, TypeOK
  <2>. QED
    BY <1>2, <2>1, <2>2, <2>3, <2>4 DEF TypeOK
<1>6. Numbered'
  <2>1. before' <= sent'
    BY <1>2, <1>3, <1>4 DEF Send
  <2>2. DOMAIN tree' \subseteq 1..sent'
    BY <1>2, <1>3, <1>4 DEF Shape, Numbered
  <2>3. \A x \in Msgs : parent'[x] < x
    BY <1>2 DEF Shape, Numbered
  <2>4. \A x \in Msgs : x <= sent' => conv'[x] # 0
    BY <1>2, <1>3, <1>4 DEF Shape, Numbered
  <2>5. \A x \in Msgs : x > sent' => /\ stream'[x] = "none" /\ fetch'[x] = "none" /\ parent'[x] = 0
                                     /\ snapshot'[x] = Empty
    BY <1>2, <1>3, <1>4 DEF Shape, Numbered, Send
  <2>. QED
    BY <2>1, <2>2, <2>3, <2>4, <2>5 DEF Numbered
<1>7. Held'
  <2> SUFFICES ASSUME NEW k \in Msgs
               PROVE  /\ DOMAIN snapshot'[k] \subseteq 1..k - 1
                      /\ \A x \in DOMAIN snapshot'[k] : parent'[x] \in DOMAIN snapshot'[k] \cup {0}
    BY DEF Held
  <2>1. CASE k = m /\ p = 0
    <3>1. snapshot'[k] = chatTree /\ DOMAIN chatTree \subseteq 1..k - 1
      BY <1>1, <1>2, <1>3, <2>1 DEF Shape, Numbered
    <3>2. \A x \in DOMAIN chatTree : x # m /\ parent[x] \in DOMAIN chatTree \cup {0}
      BY <1>2, <1>3, EmptyTree DEF Shape, TypeOK
    <3>. QED
      BY <1>2, <1>3, <3>1, <3>2
  <2>2. CASE k > m \/ (k = m /\ p # 0)
    <3>1. snapshot'[k] = Empty
      BY <1>2, <1>3, <1>4, <2>2 DEF Shape, Numbered
    <3>. QED
      BY <3>1, EmptyTree
  <2>3. CASE k < m
    <3>1. /\ snapshot'[k] = snapshot[k] /\ DOMAIN snapshot[k] \subseteq 1..k - 1
          /\ \A x \in DOMAIN snapshot[k] : parent[x] \in DOMAIN snapshot[k] \cup {0}
      BY <1>2, <1>3, <1>4, <2>3 DEF Shape, Held
    <3>2. ASSUME NEW x \in DOMAIN snapshot[k] PROVE x \in Msgs /\ x # m
      <4>1. x \in 1..k - 1 /\ k \in Nat /\ k <= MaxSends
        BY <1>3, <3>1
      <4>. QED
        BY <1>3, <1>4, <2>3, <4>1, BoundsAssumption
    <3>. QED
      BY <1>2, <3>1, <3>2
  <2>. QED
    BY <1>3, <1>4, <2>1, <2>2, <2>3
<1>. QED
  BY <1>5, <1>6, <1>7 DEF Shape

LEMMA CalmShape ==
    ASSUME Shape, UNCHANGED <<parent, snapshot, stream, conv, sent>>,
           tree' \in Trees, DOMAIN tree' \subseteq DOMAIN tree, chatTree' \in {tree', Empty},
           \A x \in DOMAIN tree' : parent[x] \in DOMAIN tree' \cup {0},
           {conversation', task', suggested', messagesOf', questionsOf'} \subseteq Some,
           before' \in {before, sent}, {torn', responding', stopped'} \subseteq BOOLEAN, halts' \in 0..MaxHalts,
           lapses' \subseteq {"overlap", "early"},
           fetch' \in [Msgs -> {"none", "messages", "questions"}],
           \A x \in Msgs : fetch[x] = "none" /\ x > sent => fetch'[x] = "none"
    PROVE  Shape'
<1>1. TypeOK'
  BY DEF Shape, TypeOK
<1>2. Numbered'
  <2>1. before' <= sent'
    BY Types
  <2>. QED
    BY <2>1 DEF Shape, Numbered
<1>3. Held'
  BY DEF Shape, Held
<1>. QED
  BY <1>1, <1>2, <1>3 DEF Shape

(* Every step but that of sending, and those of the callbacks, keeps the shape. *)
LEMMA OtherShape ==
    ASSUME Shape,
           \/ SendRefused \/ Stop \/ Restart
           \/ \E m \in Msgs : GetMessages(m) \/ GetQuestions(m)
    PROVE  Shape'
<1>0. /\ 0 \in Some /\ \A m \in Msgs : m \in Some
  BY BoundsAssumption DEF Msgs, Some
<1>1. CASE SendRefused
  BY <1>0, <1>1, CalmShape DEF SendRefused, refs, user, Shape, TypeOK, Numbered
<1>h. ASSUME Halt
      PROVE  /\ responding' \in BOOLEAN /\ stopped' \in BOOLEAN /\ halts' \in 0..MaxHalts
             /\ fetch' \in [Msgs -> {"none", "messages", "questions"}]
             /\ \A x \in Msgs : fetch[x] = "none" => fetch'[x] = "none"
             /\ messagesOf' = 0 /\ questionsOf' = 0 /\ UNCHANGED <<parent, snapshot, conv, sent, stream>>
  <2>1. halts' \in 0..MaxHalts
    BY <1>h, BoundsAssumption DEF Halt, Shape, TypeOK
  <2>2. fetch \in [Msgs -> {"none", "messages", "questions"}]
    BY DEF Shape, TypeOK
  <2>. QED
    BY <1>h, <2>1, <2>2 DEF Halt
<1>2. CASE Stop
  BY <1>0, <1>2, <1>h, CalmShape DEF Stop, Shape, TypeOK, Numbered
<1>3. CASE Restart
  <2>1. lapses' \subseteq {"overlap", "early"}
    BY <1>3 DEF Restart, Shape, TypeOK
  <2>. QED
    BY <1>0, <1>3, <1>h, <2>1, CalmShape DEF Restart, Shape, TypeOK, Numbered
<1>4. ASSUME NEW m \in Msgs, GetMessages(m) PROVE Shape'
  <2>1. tree' \in Trees /\ DOMAIN tree' = DOMAIN tree /\ chatTree' \in {tree', Empty}
    <3>0. chatTree' = tree' \/ UNCHANGED <<tree, chatTree>>
      BY <1>4 DEF GetMessages
    <3>1. tree \in Trees /\ chatTree \in {tree, Empty}
      BY DEF Shape, TypeOK
    <3>2. tree' = tree \/ (m \in DOMAIN tree /\ tree' = Put(tree, m, "whole"))
      BY <1>4 DEF GetMessages, Answered
    <3>3. Put(tree, m, "whole") \in Trees /\ DOMAIN Put(tree, m, "whole") = DOMAIN tree \cup {m}
      BY <3>1, PutTree DEF Copies
    <3>. QED
      BY <3>0, <3>1, <3>2, <3>3
  <2>2. fetch' \in [Msgs -> {"none", "messages", "questions"}] /\ \A x \in Msgs : x # m => fetch'[x] = fetch[x]
    BY <1>4 DEF GetMessages, Shape, TypeOK
  <2>. QED
    BY <1>0, <1>4, <2>1, <2>2, CalmShape DEF GetMessages, refs, user, Shape, TypeOK, Numbered
<1>5. ASSUME NEW m \in Msgs, GetQuestions(m) PROVE Shape'
  <2>1. fetch' \in [Msgs -> {"none", "messages", "questions"}] /\ \A x \in Msgs : x # m => fetch'[x] = fetch[x]
    BY <1>5 DEF GetQuestions, Shape, TypeOK
  <2>. QED
    BY <1>0, <1>5, <2>1, CalmShape DEF GetQuestions, refs, user, Shape, TypeOK, Numbered
<1>. QED
  BY <1>1, <1>2, <1>3, <1>4, <1>5

(* The end of a stream that leaves the tree *)
LEMMA EndingShape ==
    ASSUME Shape, NEW m \in Msgs, Complete(m) \/ Lose(m)
    PROVE  Shape'
<1>1. stream[m] # "none" /\ stream[m] \in Open /\ UNCHANGED user /\ UNCHANGED <<tree, chatTree>>
  BY DEF Complete, Lose, Open
<1>2. PICK st \in Streams : Becomes(m, st)
  BY DEF Complete, Lose, Streams
<1>3. /\ m <= sent
      /\ stream' \in [Msgs -> Streams] /\ snapshot' \in [Msgs -> Trees] /\ Held'
      /\ \A x \in Msgs : x > sent => x # m /\ stream'[x] = stream[x] /\ snapshot'[x] = snapshot[x]
  BY <1>1, <1>2, BecomesShape
<1>4. /\ fetch' \in [Msgs -> {"none", "messages", "questions"}] /\ \A x \in Msgs : x # m => fetch'[x] = fetch[x]
      /\ {conversation', task', suggested', messagesOf', questionsOf'} \subseteq Some
      /\ {torn', responding', stopped'} \subseteq BOOLEAN
  <2>1. m \in Some
    BY BoundsAssumption DEF Msgs, Some
  <2>. QED
    BY <2>1 DEF Complete, Lose, Shape, TypeOK, refs, after
<1>5. TypeOK'
  BY <1>1, <1>3, <1>4 DEF Shape, TypeOK, user
<1>6. Numbered'
  BY <1>1, <1>3, <1>4 DEF Shape, Numbered, user
<1>. QED
  BY <1>3, <1>5, <1>6 DEF Shape

(* A line that is cut off is shown as any other. *)
LEMMA CutOffBecomes ==
    ASSUME Shape, NEW m \in Msgs, CutOff(m)
    PROVE  \E state \in Open, copy \in Copies :
             /\ Becomes(m, state) /\ Shown(m, copy)
             /\ state = stream[m] \/ (stream[m] = "started" /\ state = "named")
             /\ copy = IF state = "named" THEN "partial" ELSE Known(m)
             /\ conversation' = IF state = "named" THEN conv[m] ELSE conversation
<1>0. stream[m] \in Open /\ stream \in [Msgs -> Streams]
  BY DEF CutOff, Shape, TypeOK
<1>1. CASE stream[m] = "started"
  BY <1>1 DEF CutOff, Open, Copies
<1>2. CASE stream[m] # "started"
  <2>1. Becomes(m, stream[m]) /\ Shown(m, Known(m))
    BY <1>0, <1>2 DEF CutOff, Becomes
  <2>2. Known(m) \in Copies /\ (stream[m] = "named" => Known(m) = "partial")
    BY DEF Known, Copies
  <2>3. conversation' = IF stream[m] = "named" THEN conv[m] ELSE conversation
    BY <1>2 DEF CutOff
  <2>. QED
    BY <1>0, <2>1, <2>2, <2>3
<1>. QED
  BY <1>1, <1>2

LEMMA ShowingShape ==
    ASSUME Shape, NEW m \in Msgs, Begin(m) \/ Say(m) \/ CutOff(m) \/ End(m) \/ Fail(m)
    PROVE  Shape'
<1>0. m \in Some /\ conv[m] \in Some /\ 0 \in Some
  BY BoundsAssumption DEF Msgs, Some, Shape, TypeOK
<1>1. CASE Begin(m)
  BY <1>0, <1>1, CallbackShape DEF Begin, Streams, Open, Copies, Shape, TypeOK
<1>2. CASE Say(m)
  BY <1>0, <1>2, CallbackShape DEF Say, Streams, Open, Copies, Shape, TypeOK
<1>3. CASE End(m)
  BY <1>0, <1>3, CallbackShape DEF End, refs, Streams, Open, Copies, Shape, TypeOK
<1>4. CASE Fail(m)
  <2>1. Known(m) \in Copies /\ stream[m] # "none"
    BY <1>4 DEF Fail, Known, Copies, Open
  <2>. QED
    BY <1>0, <1>4, <2>1, CallbackShape DEF Fail, Streams, Shape, TypeOK
<1>5. CASE CutOff(m)
  <2>1. PICK state \in Open, copy \in Copies :
          /\ Becomes(m, state) /\ Shown(m, copy)
          /\ conversation' = IF state = "named" THEN conv[m] ELSE conversation
    BY <1>5, CutOffBecomes
  <2>2. state \in Streams /\ stream[m] # "none" /\ {conversation', task'} \subseteq Some
    BY <1>0, <1>5, <2>1 DEF CutOff, Streams, Open, Shape, TypeOK
  <2>3. /\ {torn', responding'} \subseteq BOOLEAN
        /\ UNCHANGED user /\ UNCHANGED after /\ UNCHANGED stopped
    BY <1>5 DEF CutOff, Shape, TypeOK
  <2>. QED
    BY <2>1, <2>2, <2>3, CallbackShape
<1>. QED
  BY <1>1, <1>2, <1>3, <1>4, <1>5

LEMMA NextShape == Shape /\ [Next]_vars => Shape'
<1> SUFFICES ASSUME Shape, [Next]_vars PROVE Shape'
  OBVIOUS
<1>1. CASE UNCHANGED vars
  BY <1>1 DEF vars, Shape, TypeOK, Numbered, Held
<1>2. ASSUME NEW p \in {0} \cup {m \in DOMAIN chatTree : Answered(chatTree, m)}, Send(p) PROVE Shape'
  <2>1. p \in Some /\ (p = 0 \/ Answered(chatTree, p))
    BY Types, BoundsAssumption DEF Msgs, Some
  <2>. QED
    BY <1>2, <2>1, SendShape
<1>. QED
  BY <1>1, <1>2, OtherShape, EndingShape, ShowingShape DEF Next

-----------------------------------------------------------------------------
(* As long as nothing unforeseen has happened, the tree a callback starts    *)
(* from has all the other messages, the answered ones of the conversation.   *)
LEMMA ShownLast ==
    ASSUME Shape, Quiet, NEW m \in Msgs, stream[m] \in Open, NEW copy \in Copies, Shown(m, copy)
    PROVE  /\ m = sent /\ sent > before
           /\ tree' \in Trees /\ m \in DOMAIN tree' /\ tree'[m] = copy
           /\ \A x \in DOMAIN tree' : x # m /\ tree'[x] # "asked" => conv[x] = conversation
           /\ \A x \in before + 1..m - 1 :
                x \in DOMAIN tree' /\ (stream[x] \in {"ended", "over"} => tree'[x] = "whole")
           /\ parent[m] # 0 => Answered(tree', parent[m])
<1>1. m = sent /\ sent > before /\ Grounded(m) /\ Good(tree) /\ Full(tree, before + 1..sent)
  <2>1. m = sent /\ sent > before /\ Grounded(m)
    BY DEF Quiet, Streaming, LastComes
  <2>2. chatTree = tree
    BY <2>1, Types DEF Quiet, Showing
  <2>. QED
    BY <2>1, <2>2 DEF Quiet
<1>2. /\ tree \in Trees /\ DOMAIN tree \subseteq Msgs /\ parent \in [Msgs -> Some] /\ snapshot \in [Msgs -> Trees]
      /\ sent \in Nat /\ before \in Nat /\ MaxSends \in Nat /\ \A x : x \in Msgs <=> x \in Nat /\ 1 <= x /\ x <= MaxSends
  BY Types
<1>3. parent[m] < m
  BY DEF Shape, Numbered
<1>4. CASE parent[m] = 0
  <2>1. tree' = Put(snapshot[m], m, copy) /\ Good(snapshot[m]) /\ Full(snapshot[m], before + 1..m - 1)
    BY <1>1, <1>4 DEF Shown, Update, Grounded
  <2>2. /\ tree' \in Trees /\ DOMAIN tree' = DOMAIN snapshot[m] \cup {m} /\ tree'[m] = copy
        /\ \A x \in DOMAIN snapshot[m] : x # m => tree'[x] = snapshot[m][x]
    <3>1. snapshot[m] \in Trees
      BY <1>2
    <3>. QED
      BY <2>1, <3>1, PutTree, ZenonT(40)
  <2>3. \A x \in before + 1..m - 1 : x # m /\ x \in DOMAIN snapshot[m]
    BY <1>1, <1>2, <2>1 DEF Full
  <2>. QED
    BY <1>1, <1>4, <2>1, <2>2, <2>3 DEF Good, Full
<1>5. CASE parent[m] # 0
  <2>1. Answered(tree, parent[m])
    BY <1>1, <1>5 DEF Grounded
  <2>2. [x \in DOMAIN tree \ Following(m) |-> tree[x]] = tree
    <3>1. DOMAIN tree \subseteq 1..sent /\ (\A x \in Msgs : parent[x] < x)
      BY DEF Shape, Numbered
    <3>2. \A x \in Following(m) : m < x
      BY <1>2, <3>1, FollowingLater
    <3>3. Following(m) \cap DOMAIN tree = {}
      BY <1>1, <1>2, <3>1, <3>2
    <3>4. tree \in [DOMAIN tree -> Copies]
      BY Types
    <3>. QED
      BY <3>3, <3>4
  <2>3. tree' = Put(tree, m, copy)
    BY <1>5, <2>1, <2>2 DEF Shown, Update
  <2>4. /\ tree' \in Trees /\ DOMAIN tree' = DOMAIN tree \cup {m} /\ tree'[m] = copy
        /\ \A x \in DOMAIN tree : x # m => tree'[x] = tree[x]
    BY <1>2, <2>3, PutTree, ZenonT(40)
  <2>5. parent[m] # m /\ \A x \in before + 1..m - 1 : x # m /\ x \in before + 1..sent
    BY <1>1, <1>2, <1>3
  <2>. QED
    BY <1>1, <2>1, <2>4, <2>5 DEF Good, Full, Answered
<1>. QED
  BY <1>4, <1>5

LEMMA CallbackQuiet ==
    ASSUME Shape, Quiet, NEW m \in Msgs, stream[m] \in Open, NEW state \in Streams, Becomes(m, state),
           NEW copy \in Copies, Shown(m, copy), UNCHANGED user, UNCHANGED stopped,
           conversation' = conversation \/ conversation = 0,
           copy # "asked" => conv[m] = conversation',
           state \in {"ended", "over"} => copy = "whole",
           state \in Open => /\ UNCHANGED responding
                             /\ state # "sent" => task' = IF torn' THEN 0 ELSE m
                             /\ conv[m] = conversation' \/ (conversation' = 0 /\ state \in {"sent", "started"}),
           state \notin Open => responding' = FALSE
    PROVE  Quiet'
<1>1. /\ m = sent /\ sent > before
      /\ tree' \in Trees /\ chatTree' = tree' /\ m \in DOMAIN tree' /\ tree'[m] = copy
      /\ \A x \in DOMAIN tree' : x # m /\ tree'[x] # "asked" => conv[x] = conversation
      /\ \A x \in before + 1..m - 1 :
           x \in DOMAIN tree' /\ (stream[x] \in {"ended", "over"} => tree'[x] = "whole")
      /\ parent[m] # 0 => Answered(tree', parent[m])
  BY ShownLast DEF Shown, Update
<1>2. /\ stream \in [Msgs -> Streams] /\ snapshot \in [Msgs -> Trees]
      /\ sent \in Nat /\ before \in Nat /\ MaxSends \in Nat /\ \A x : x \in Msgs <=> x \in Nat /\ 1 <= x /\ x <= MaxSends
  BY Types
<1>3. stream'[m] = state /\ \A x \in Msgs : x # m => stream'[x] = stream[x] /\ stream'[x] \notin Open
  BY <1>1, <1>2 DEF Becomes, Quiet, Streaming, LastComes
<1>4. UNCHANGED <<parent, conv, sent, before>>
  BY DEF user
<1>5. \A x \in DOMAIN tree' : x # m /\ tree'[x] # "asked" => conv[x] = conversation'
  <2>1. \A x \in DOMAIN tree' : conv[x] # 0
    <3>1. DOMAIN tree' \subseteq 1..sent
      BY <1>1, <1>2, ShownTree DEF Shape
    <3>. QED
      BY <3>1, Named
  <2>. QED
    BY <1>1, <2>1
<1>6. Good(chatTree)'
  BY <1>1, <1>4, <1>5 DEF Good
<1>7. Full(chatTree, before + 1..sent)'
  <2> SUFFICES ASSUME NEW x \in before + 1..sent
               PROVE  x \in DOMAIN tree' /\ (stream'[x] \in {"ended", "over"} => tree'[x] = "whole")
    BY <1>1, <1>4 DEF Full
  <2>1. CASE x = m
    BY <1>1, <1>3, <2>1
  <2>2. CASE x # m
    <3>1. x \in before + 1..m - 1 /\ x \in Msgs
      BY <1>1, <1>2, <2>2
    <3>. QED
      BY <1>1, <1>3, <2>2, <3>1
  <2>. QED
    BY <2>1, <2>2
<1>8. ASSUME state \in Open PROVE Streaming(m)'
  <2>1. responding \/ stopped
    BY DEF Quiet, Streaming, LastComes
  <2>2. LastComes(m)' /\ TaskIs(m)' /\ ConvIs(m)'
    <3>1. /\ state # "sent" => task' = IF torn' THEN 0 ELSE m
          /\ conv[m] = conversation' \/ (conversation' = 0 /\ state \in {"sent", "started"})
      BY <1>8
    <3>2. responding' \/ stopped'
      <4>1. responding' = responding /\ stopped' = stopped
        BY <1>8
      <4>2. responding \in BOOLEAN /\ stopped \in BOOLEAN
        BY DEF Shape, TypeOK
      <4>. QED
        BY <2>1, <4>1, <4>2
    <3>3. LastComes(m)'
      BY <1>1, <1>4, <3>2 DEF LastComes
    <3>4. TaskIs(m)'
      BY <1>3, <3>1 DEF TaskIs
    <3>5. ConvIs(m)'
      BY <1>3, <1>4, <3>1 DEF ConvIs
    <3>. QED
      BY <3>3, <3>4, <3>5
  <2>3. CASE parent[m] = 0
    <3>1. Good(snapshot[m]) /\ Full(snapshot[m], before + 1..m - 1) /\ snapshot' = snapshot
      BY <1>8, <2>3 DEF Quiet, Streaming, Grounded, Becomes
    <3>2. \A x \in DOMAIN snapshot[m] : conv[x] # 0
      <4>1. DOMAIN snapshot[m] \subseteq 1..m - 1
        BY DEF Shape, Held
      <4>2. DOMAIN snapshot[m] \subseteq 1..sent
        BY <1>1, <1>2, <4>1
      <4>. QED
        BY <4>2, Named
    <3>3. Good(snapshot[m])'
      BY <1>4, <3>1, <3>2 DEF Good
    <3>4. Full(snapshot[m], before + 1..m - 1)'
      <4>1. \A x \in before + 1..m - 1 : x \in Msgs /\ x # m
        BY <1>1, <1>2
      <4>. QED
        BY <1>3, <1>4, <3>1, <4>1 DEF Full
    <3>. QED
      BY <1>4, <2>2, <2>3, <3>3, <3>4 DEF Streaming, Grounded
  <2>4. CASE parent[m] # 0
    BY <1>1, <1>4, <2>2, <2>4 DEF Streaming, Grounded, Answered
  <2>. QED
    BY <2>3, <2>4
<1>9. responding' => sent' > before' /\ stream'[sent'] \in Open \cup {"lost"}
  BY <1>1, <1>3, <1>4
<1>10. \A x \in Msgs : stream'[x] \in Open => Streaming(x)'
  BY <1>3, <1>8
<1>. QED
  BY <1>1, <1>6, <1>7, <1>9, <1>10 DEF Quiet, Showing

(* The callbacks that show something *)
LEMMA ShowingQuiet ==
    ASSUME Shape, Quiet, NEW m \in Msgs, Begin(m) \/ Say(m) \/ CutOff(m) \/ End(m) \/ Fail(m)
    PROVE  Quiet'
<1>1. stream[m] \in Open
  BY DEF Begin, Say, CutOff, End, Fail, Open
<1>2. TaskIs(m) /\ ConvIs(m)
  BY <1>1 DEF Quiet, Streaming
<1>3. CASE Begin(m)
  BY <1>1, <1>2, <1>3, CallbackQuiet DEF Begin, ConvIs, Streams, Open, Copies
<1>4. CASE Say(m)
  BY <1>1, <1>2, <1>4, CallbackQuiet DEF Say, ConvIs, Streams, Open, Copies
<1>5. CASE End(m)
  BY <1>1, <1>2, <1>5, CallbackQuiet DEF End, refs, ConvIs, TaskIs, Streams, Open, Copies
<1>6. CASE Fail(m)
  <2>1. Known(m) \in Copies
    BY DEF Known, Copies
  <2>2. Known(m) # "asked" => conv[m] = conversation
    BY <1>1, <1>2 DEF Known, ConvIs, Open
  <2>3. stream[m] = "ended" => Known(m) = "whole"
    BY DEF Known
  <2>4. PICK state \in {"over", "cut"} : Becomes(m, state) /\ (state = "over" => stream[m] = "ended")
    BY <1>6 DEF Fail
  <2>5. state \in Streams /\ state \notin Open /\ (state \in {"ended", "over"} => Known(m) = "whole")
    BY <2>3, <2>4 DEF Streams, Open
  <2>6. /\ responding' = FALSE /\ conversation' = conversation
        /\ UNCHANGED user /\ UNCHANGED stopped /\ Shown(m, Known(m))
    BY <1>6 DEF Fail
  <2>. QED
    BY <1>1, <2>1, <2>2, <2>4, <2>5, <2>6, CallbackQuiet
<1>7. CASE CutOff(m)
  <2>1. PICK state \in Open, copy \in Copies :
          /\ Becomes(m, state) /\ Shown(m, copy)
          /\ state = stream[m] \/ (stream[m] = "started" /\ state = "named")
          /\ copy = IF state = "named" THEN "partial" ELSE Known(m)
          /\ conversation' = IF state = "named" THEN conv[m] ELSE conversation
    BY <1>7, CutOffBecomes
  <2>2. UNCHANGED <<responding, stopped>> /\ UNCHANGED user /\ task' = IF torn' THEN 0 ELSE m
    BY <1>7 DEF CutOff
  <2>3. conversation' = conversation \/ conversation = 0
    BY <1>2, <2>1 DEF ConvIs
  <2>4. copy # "asked" => conv[m] = conversation'
    BY <1>2, <2>1 DEF ConvIs, Known, Open
  <2>5. state \in {"ended", "over"} => copy = "whole"
    BY <2>1 DEF Known, Open
  <2>6. conv[m] = conversation' \/ (conversation' = 0 /\ state \in {"sent", "started"})
    BY <1>2, <2>1 DEF ConvIs
  <2>7. state \in Streams
    BY DEF Streams
  <2>. QED
    BY <1>1, <2>1, <2>2, <2>3, <2>4, <2>5, <2>6, <2>7, CallbackQuiet
<1>. QED
  BY <1>3, <1>4, <1>5, <1>6, <1>7

LEMMA SendQuiet ==
    ASSUME Shape, Quiet, NEW p \in Some, p = 0 \/ Answered(chatTree, p), Send(p), "overlap" \notin lapses'
    PROVE  Quiet'
<1>1. PICK m : m = sent + 1
  OBVIOUS
<1>2. /\ m \in Msgs /\ sent' = m /\ m \notin DOMAIN tree /\ p < m
      /\ tree' = Put(chatTree, m, "asked") /\ chatTree' = tree' /\ tree' \in Trees
      /\ DOMAIN tree' = DOMAIN chatTree \cup {m}
      /\ parent'[m] = p /\ conv'[m] = IF conversation = 0 THEN m ELSE conversation
      /\ stream'[m] = "sent" /\ snapshot'[m] = IF p = 0 THEN chatTree ELSE Empty
      /\ \A x \in Msgs : x # m => /\ parent'[x] = parent[x] /\ conv'[x] = conv[x]
                                  /\ stream'[x] = stream[x] /\ snapshot'[x] = snapshot[x]
  BY <1>1, SendFacts
<1>3. /\ chatTree \in Trees /\ DOMAIN chatTree \subseteq DOMAIN tree /\ DOMAIN tree \subseteq Msgs
      /\ sent \in Nat /\ before \in Nat /\ before <= sent
      /\ MaxSends \in Nat /\ \A x : x \in Msgs <=> x \in Nat /\ 1 <= x /\ x <= MaxSends
  BY Types
<1>4. tree'[m] = "asked" /\ \A x \in DOMAIN chatTree : tree'[x] = chatTree[x]
  <2>1. "asked" \in Copies /\ \A x \in DOMAIN chatTree : x # m
    BY <1>2, <1>3 DEF Copies
  <2>2. /\ Put(chatTree, m, "asked")[m] = "asked"
        /\ \A x \in DOMAIN chatTree : x # m => Put(chatTree, m, "asked")[x] = chatTree[x]
    <3>1. m \in Msgs /\ chatTree \in Trees
      BY <1>2, <1>3
    <3>. QED
      BY <2>1, <3>1, PutTree, ZenonT(40)
  <2>. QED
    BY <1>2, <2>1, <2>2
<1>5. UNCHANGED <<conversation, before>> /\ responding' = TRUE
  BY DEF Send
<1>6. \A x \in Msgs : stream[x] \notin Open
  BY DEF Send, LapsesOfSending, Coming, Quiet, Streaming, LastComes
<1>7. Good(chatTree) /\ Full(chatTree, before + 1..sent)
  BY DEF Quiet
<1>8. /\ \A x \in DOMAIN chatTree : chatTree[x] # "asked" => conv'[x] = conversation
      /\ \A x \in before + 1..sent : x \in DOMAIN chatTree /\ (stream'[x] \in {"ended", "over"} => chatTree[x] = "whole")
  BY <1>2, <1>3, <1>7 DEF Good, Full
<1>9. Good(chatTree)'
  BY <1>2, <1>4, <1>5, <1>8 DEF Good
<1>10. Full(chatTree, before + 1..sent)'
  <2>1. \A x \in before' + 1..sent' : x = m \/ x \in before + 1..sent
    BY <1>1, <1>2, <1>3, <1>5
  <2>. QED
    BY <1>2, <1>4, <1>8, <2>1 DEF Full
<1>11. Streaming(m)'
  <2>1. LastComes(m)' /\ TaskIs(m)' /\ ConvIs(m)'
    BY <1>1, <1>2, <1>3, <1>5 DEF LastComes, TaskIs, ConvIs
  <2>2. CASE p = 0
    <3>1. snapshot'[m] = chatTree /\ m - 1 = sent
      BY <1>1, <1>2, <1>3, <2>2
    <3>. QED
      BY <1>2, <1>5, <1>8, <2>1, <2>2, <3>1 DEF Streaming, Grounded, Good, Full
  <2>3. CASE p # 0
    BY <1>2, <1>4, <2>1, <2>3 DEF Streaming, Grounded, Answered
  <2>. QED
    BY <2>2, <2>3
<1>12. \A x \in Msgs : stream'[x] \in Open => Streaming(x)'
  BY <1>2, <1>6, <1>11
<1>. QED
  BY <1>1, <1>2, <1>3, <1>5, <1>9, <1>10, <1>12 DEF Quiet, Open, Showing

(* The end of a stream that leaves the tree *)
LEMMA EndingQuiet ==
    ASSUME Shape, Quiet, NEW m \in Msgs, Complete(m) \/ Lose(m)
    PROVE  Quiet'
<1>1. stream[m] \in Open /\ UNCHANGED <<tree, chatTree, conversation, task, torn, stopped, parent, conv, sent, before>>
  BY DEF Complete, Lose, refs, user
<1>2. PICK state \in {"over", "cut", "lost"} :
        /\ Becomes(m, state) /\ (state = "over" => stream[m] = "ended")
        /\ responding' = FALSE \/ (state = "lost" /\ UNCHANGED responding)
  BY DEF Complete, Lose, refs
<1>3. stream \in [Msgs -> Streams] /\ m = sent /\ sent > before /\ Good(chatTree) /\ Full(chatTree, before + 1..sent)
  BY <1>1 DEF Shape, TypeOK, Quiet, Streaming, LastComes
<1>4. stream'[m] = state /\ \A x \in Msgs : x # m => stream'[x] = stream[x] /\ stream'[x] \notin Open
  BY <1>1, <1>2, <1>3 DEF Becomes, Quiet, Streaming, LastComes
<1>5. \A x \in Msgs : stream'[x] \notin Open
  BY <1>2, <1>4 DEF Open
<1>6. Good(chatTree)'
  BY <1>1, <1>3 DEF Good
<1>7. Full(chatTree, before + 1..sent)'
  <2>1. \A x \in before + 1..sent : x \in Msgs
    BY Types
  <2>2. \A x \in Msgs : stream'[x] \in {"ended", "over"} => stream[x] \in {"ended", "over"}
    BY <1>2, <1>4
  <2>. QED
    BY <1>1, <1>3, <2>1, <2>2 DEF Full
<1>8. responding' => sent' > before' /\ stream'[sent'] \in Open \cup {"lost"}
  BY <1>1, <1>2, <1>3, <1>4
<1>9. chatTree' = tree'
  BY <1>1, <1>3, Types DEF Quiet, Showing
<1>. QED
  BY <1>5, <1>6, <1>7, <1>8, <1>9 DEF Quiet, Showing

(* The requests that follow an answer *)
LEMMA FetchQuiet ==
    ASSUME Shape, Quiet, NEW m \in Msgs, GetMessages(m) \/ GetQuestions(m)
    PROVE  Quiet'
<1>1. UNCHANGED <<conversation, task, torn, responding, stopped, parent, conv, sent, before, stream, snapshot>>
  BY DEF GetMessages, GetQuestions, refs, user
<1>2. Good(chatTree) /\ Full(chatTree, before + 1..sent) /\ tree \in Trees
  BY DEF Quiet, Shape, TypeOK
<1>3. /\ DOMAIN tree' = DOMAIN tree
      /\ \A x \in DOMAIN tree : tree'[x] = tree[x] \/ (tree'[x] = "whole" /\ tree[x] # "asked")
  <2>1. CASE tree' = tree
    BY <2>1
  <2>2. CASE Answered(tree, m) /\ tree' = Put(tree, m, "whole")
    <3>1. /\ DOMAIN Put(tree, m, "whole") = DOMAIN tree \cup {m} /\ Put(tree, m, "whole")[m] = "whole"
          /\ \A x \in DOMAIN tree : x # m => Put(tree, m, "whole")[x] = tree[x]
      <4>1. "whole" \in Copies
        BY DEF Copies
      <4>. QED
        BY <1>2, <4>1, PutTree, ZenonT(40)
    <3>. QED
      BY <2>2, <3>1 DEF Answered
  <2>. QED
    BY <2>1, <2>2 DEF GetMessages, GetQuestions
<1>s. UNCHANGED <<tree, chatTree>> \/ (chatTree = tree /\ chatTree' = tree')
  BY DEF GetMessages, GetQuestions, Quiet, Showing
<1>4. Good(chatTree)' /\ Full(chatTree, before + 1..sent)'
  <2>1. CASE UNCHANGED <<tree, chatTree>>
    BY <1>1, <1>2, <2>1 DEF Good, Full
  <2>2. CASE chatTree = tree /\ chatTree' = tree'
    BY <1>1, <1>2, <1>3, <2>2 DEF Good, Full
  <2>. QED
    BY <1>s, <2>1, <2>2
<1>5. Showing'
  <2>1. CASE GetMessages(m)
    BY <1>s, <2>1 DEF GetMessages, Quiet, Showing
  <2>2. CASE GetQuestions(m)
    <3>1. \A x \in Msgs : fetch'[x] = "messages" => fetch[x] = "messages"
      BY <2>2 DEF GetQuestions, Shape, TypeOK
    <3>. QED
      BY <1>1, <2>2, <3>1 DEF GetQuestions, Quiet, Showing
  <2>. QED
    BY <2>1, <2>2
<1>6. ASSUME NEW x \in Msgs, stream[x] \in Open PROVE Streaming(x)'
  <2>1. LastComes(x) /\ TaskIs(x) /\ ConvIs(x) /\ Grounded(x)
    BY <1>6 DEF Quiet, Streaming
  <2>2. LastComes(x)' /\ TaskIs(x)' /\ ConvIs(x)'
    BY <1>1, <2>1 DEF LastComes, TaskIs, ConvIs
  <2>3. Grounded(x)'
    BY <1>1, <1>3, <2>1 DEF Grounded, Good, Full, Answered
  <2>. QED
    BY <2>2, <2>3 DEF Streaming
<1>. QED
  BY <1>1, <1>4, <1>5, <1>6 DEF Quiet

LEMMA StopQuiet == ASSUME Shape, Quiet, Stop PROVE Quiet'
<1>1. /\ UNCHANGED <<tree, chatTree, conversation, task, torn, parent, conv, sent, before, stream, snapshot>>
      /\ stopped' = TRUE /\ responding' = FALSE
  BY DEF Stop, Halt
<1>2. ASSUME NEW x \in Msgs, stream[x] \in Open PROVE Streaming(x)'
  <2>1. LastComes(x) /\ TaskIs(x) /\ ConvIs(x) /\ Grounded(x)
    BY <1>2 DEF Quiet, Streaming
  <2>2. LastComes(x)' /\ TaskIs(x)' /\ ConvIs(x)'
    BY <1>1, <2>1 DEF LastComes, TaskIs, ConvIs
  <2>3. Grounded(x)'
    BY <1>1, <2>1 DEF Grounded, Good, Full, Answered
  <2>. QED
    BY <2>2, <2>3 DEF Streaming
<1>3. Good(chatTree)' /\ Full(chatTree, before + 1..sent)'
  BY <1>1 DEF Quiet, Good, Full
<1>4. Showing'
  <2>1. \A x \in Msgs : fetch'[x] = "messages" => fetch[x] = "messages"
    BY DEF Stop, Halt
  <2>. QED
    BY <1>1, <2>1 DEF Quiet, Showing
<1>. QED
  BY <1>1, <1>2, <1>3, <1>4 DEF Quiet

LEMMA RestartQuiet == ASSUME Shape, Quiet, Restart, "overlap" \notin lapses' PROVE Quiet'
<1>1. \A x \in Msgs : stream'[x] \notin Open
  BY DEF Restart, Halt, Coming
<1>2. Good(chatTree)' /\ responding' = FALSE
  BY EmptyTree DEF Restart, Halt, Good
<1>3. before' + 1..sent' = {}
  BY Types DEF Restart, Halt
<1>4. Showing'
  BY DEF Restart, Halt, Showing
<1>. QED
  BY <1>1, <1>2, <1>3, <1>4 DEF Quiet, Full

LEMMA NextQuiet == Shape /\ Quiet /\ [Next]_vars /\ "overlap" \notin lapses' => Quiet'
<1> SUFFICES ASSUME Shape, Quiet, [Next]_vars, "overlap" \notin lapses' PROVE Quiet'
  OBVIOUS
<1>1. CASE UNCHANGED vars
  BY <1>1 DEF vars, Quiet, Showing, Streaming, LastComes, TaskIs, ConvIs, Grounded, Good, Full, Answered
<1>2. ASSUME NEW p \in {0} \cup {m \in DOMAIN chatTree : Answered(chatTree, m)}, Send(p) PROVE Quiet'
  <2>1. p \in Some /\ (p = 0 \/ Answered(chatTree, p))
    BY Types, BoundsAssumption DEF Msgs, Some
  <2>. QED
    BY <1>2, <2>1, SendQuiet
<1>3. CASE SendRefused
  BY <1>3 DEF SendRefused, refs, user, Quiet, Showing, Streaming, LastComes, TaskIs, ConvIs, Grounded, Good, Full, Answered
<1>. QED
  BY <1>1, <1>2, <1>3, StopQuiet, RestartQuiet, ShowingQuiet, EndingQuiet, FetchQuiet DEF Next

(* Lapses are not forgotten. *)
LEMMA NextLapses == ASSUME [Next]_vars PROVE lapses \subseteq lapses'
BY DEF Next, vars, Send, LapsesOfSending, SendRefused, Stop, Restart, Begin, Say, CutOff, End, Complete, Fail, Lose,
       GetMessages, GetQuestions, user

LEMMA NextFresh ==
    ASSUME Shape, Quiet, Fresh, suggested \in {0, sent}, [Next]_vars, lapses' = {}
    PROVE  Fresh' /\ suggested' \in {0, sent'}
<1>1. CASE UNCHANGED vars
  BY <1>1 DEF vars, Fresh
<1>2. ASSUME NEW p, Send(p) PROVE Fresh' /\ suggested' \in {0, sent'}
  BY <1>2 DEF Send, LapsesOfSending, Fresh
<1>3. CASE SendRefused
  BY <1>3 DEF SendRefused, user, Fresh
<1>4. CASE Stop \/ Restart
  <2>1. fetch' \in [Msgs -> {"none", "messages", "questions"}] /\ sent' = sent
    BY <1>4, OtherShape DEF Stop, Restart, Halt, Shape, TypeOK
  <2>2. \A m \in Msgs : fetch'[m] # "none" => fetch[m] # "none"
    BY <1>4 DEF Stop, Restart, Halt
  <2>. QED
    BY <1>4, <2>1, <2>2 DEF Stop, Restart, Fresh
<1>5. ASSUME NEW m \in Msgs, Begin(m) \/ Say(m) \/ CutOff(m) \/ End(m) \/ Fail(m) \/ Lose(m)
      PROVE  Fresh' /\ suggested' \in {0, sent'}
  BY <1>5 DEF Begin, Say, CutOff, End, Fail, Lose, user, after, Fresh
<1>6. ASSUME NEW m \in Msgs, Complete(m) PROVE Fresh' /\ suggested' \in {0, sent'}
  <2>1. m = sent
    BY <1>6 DEF Complete, Quiet, Streaming, LastComes
  <2>2. UNCHANGED <<sent, suggested>> /\ \A x \in Msgs : x # m => fetch'[x] = fetch[x]
    BY <1>6 DEF Complete, user, after, Shape, TypeOK
  <2>. QED
    BY <2>1, <2>2 DEF Fresh
<1>7. ASSUME NEW m \in Msgs, GetMessages(m) \/ GetQuestions(m) PROVE Fresh' /\ suggested' \in {0, sent'}
  <2>1. m = sent
    BY <1>7 DEF GetMessages, GetQuestions, Fresh
  <2>2. sent' = sent /\ suggested' \in {0, m, suggested} /\ \A x \in Msgs : x # m => fetch'[x] = fetch[x]
    BY <1>7 DEF GetMessages, GetQuestions, user, Shape, TypeOK
  <2>. QED
    BY <2>1, <2>2 DEF Fresh
<1>. QED
  BY <1>1, <1>2, <1>3, <1>4, <1>5, <1>6, <1>7 DEF Next

-----------------------------------------------------------------------------
LEMMA InitInv == Init => IInv
<1> SUFFICES ASSUME Init PROVE IInv
  OBVIOUS
<1>1. 0 \in Some /\ sent = 0 /\ before = 0 /\ tree = Empty /\ DOMAIN tree = {} /\ tree \in Trees
  BY EmptyTree, BoundsAssumption DEF Init, Some
<1>2. \A m \in Msgs : /\ m \in Nat /\ m > 0 /\ parent[m] = 0 /\ conv[m] = 0 /\ stream[m] = "none" /\ fetch[m] = "none"
                      /\ snapshot[m] = Empty
  BY BoundsAssumption DEF Init, Msgs
<1>3. TypeOK
  <2>1. snapshot \in [Msgs -> Trees]
    BY EmptyTree DEF Init
  <2>2. parent \in [Msgs -> Some] /\ conv \in [Msgs -> Some]
    BY <1>1 DEF Init
  <2>3. stream \in [Msgs -> Streams] /\ fetch \in [Msgs -> {"none", "messages", "questions"}]
    BY DEF Init, Streams
  <2>4. halts \in 0..MaxHalts
    BY BoundsAssumption DEF Init
  <2>. QED
    BY <1>1, <2>1, <2>2, <2>3, <2>4 DEF Init, TypeOK
<1>4. Numbered
  BY <1>1, <1>2 DEF Numbered
<1>5. Held
  BY <1>2, EmptyTree DEF Held
<1>6. Quiet
  BY <1>1, <1>2 DEF Init, Quiet, Showing, Good, Full, Open
<1>7. Fresh /\ suggested = 0
  BY <1>2 DEF Init, Fresh
<1>. QED
  BY <1>3, <1>4, <1>5, <1>6, <1>7 DEF IInv, Shape

LEMMA NextInv == IInv /\ [Next]_vars => IInv'
<1> SUFFICES ASSUME IInv, [Next]_vars PROVE IInv'
  OBVIOUS
<1>1. Shape' /\ lapses \subseteq lapses'
  BY NextShape, NextLapses DEF IInv
<1>2. "overlap" \notin lapses' => Quiet'
  BY <1>1, NextQuiet DEF IInv
<1>3. ASSUME lapses' = {} PROVE Fresh' /\ suggested' \in {0, sent'}
  <2>1. Shape /\ Quiet /\ Fresh /\ suggested \in {0, sent}
    BY <1>1, <1>3 DEF IInv
  <2>. QED
    BY <1>3, <2>1, NextFresh
<1>. QED
  BY <1>1, <1>2, <1>3 DEF IInv

(* IInv holds in every state the chat reaches. *)
THEOREM Invariance == Spec => []IInv
BY InitInv, NextInv, PTL DEF Spec

(* The tree of the chat is well formed: whatever streams come in late, no    *)
(* message is in it without the answer it goes on from.                      *)
THEOREM TypeCorrect == Spec => []TypeOK
<1>1. IInv => TypeOK
  BY DEF IInv, Shape
<1>. QED
  BY <1>1, Invariance, PTL

(* As long as no message is sent into an answer that was stopped and still   *)
(* comes in, the tree keeps every message, and what has ended as a whole.    *)
THEOREM KeepsMessages == Spec => []MessagesKept
<1>1. IInv => MessagesKept
  BY DEF IInv, Quiet, Full, MessagesKept
<1>. QED
  BY <1>1, Invariance, PTL

(* ... and is of one conversation, that of the next message. *)
THEOREM KeepsConversation == Spec => []OneConversation
<1>1. IInv => OneConversation
  BY DEF IInv, Quiet, Good, OneConversation
<1>. QED
  BY <1>1, Invariance, PTL

(* ... and the chat responds while its last answer comes in, unless stopped. *)
THEOREM RespondsWhileOpen == Spec => []RespondingIsOpen
<1>1. IInv => RespondingIsOpen
  BY DEF IInv, Quiet, Streaming, LastComes, RespondingIsOpen
<1>. QED
  BY <1>1, Invariance, PTL

(* ... and a stop ends the task of the last answer, once that has begun, and *)
(* but for the time after a line that was cut off, when it ends none.        *)
THEOREM StopsTheLast == Spec => []StopReaches
<1>1. IInv => StopReaches
  <2> SUFFICES ASSUME IInv, "overlap" \notin lapses, sent > before, stream[sent] \in Open \ {"sent"}
               PROVE  task = IF torn THEN 0 ELSE sent
    BY DEF StopReaches
  <2>1. sent \in Msgs
    BY Types DEF IInv
  <2>. QED
    BY <2>1 DEF IInv, Quiet, Streaming, TaskIs, Open
<1>. QED
  BY <1>1, Invariance, PTL

(* ... both: the references are those of the last answer. *)
THEOREM RefersToTheLast == Spec => []LastInv
BY RespondsWhileOpen, StopsTheLast, PTL DEF LastInv

(* As long as nothing is sent while something is asked for after an answer   *)
(* either, the suggested questions are about the last message.               *)
THEOREM SuggestsFresh == Spec => []SuggestionsAreFresh
<1>1. IInv => SuggestionsAreFresh
  BY DEF IInv, SuggestionsAreFresh
<1>. QED
  BY <1>1, Invariance, PTL
====
