---------------------------- MODULE CanvasProofs ----------------------------
(***************************************************************************)
(* Proofs about Canvas, for any graphs the editor is opened with, any kinds *)
(* of nodes, and any bounds.                                                *)
(*   CanvasCorrect     nodes, edges and containers agree                    *)
(*   OrphansExplained  what leaves a node without its container             *)
(*   CyclesExplained   what closes a cycle, and what hangs over one         *)
(*   HistoryTrue       undo goes back from what the canvas shows            *)
(* Each is a conjunct or a consequence of IInv.                             *)
(***************************************************************************)
EXTENDS Canvas, FiniteSetTheorems, WellFoundedInduction, TLAPS


-----------------------------------------------------------------------------
(* Cycles as sets: in T everything leads to something in T.                 *)
Looping(g, T) == T # {} /\ \A n \in T : \E e \in g.edges : e[1] = n /\ e[3] \in T
Acyclic(g) == \A T \in SUBSET Ids : ~Looping(g, T)

\* Where the nodes are: containers and the start on the top, others also in
\* containers, the ids given so far up to k.
Housed(g, k) ==
  \A n \in On(g) :
    /\ n \in 0..k /\ g.nodes[n].parent \in 0..k \cup {None}
    /\ g.nodes[n].kind \in Containers \cup {"start"} => g.nodes[n].parent = None
    /\ g.nodes[n].parent \in On(g) => g.nodes[g.nodes[n].parent].kind \in Containers
    /\ g.nodes[n].kind # "first" /\ g.nodes[n].mark = None => g.nodes[n].parent = None
Joined(g) ==
  \A e \in g.edges : {e[1], e[3]} \subseteq On(g) /\ g.nodes[e[3]].kind \notin {"start", "first"}
Levelled(g) == \A e \in g.edges : Level(g, e)
Parented(g) == \A n \in On(g) : g.nodes[n].parent \in On(g) \cup {None}

\* A graph in which only the lapses L have left something wrong.
Sound(g, k, L) ==
  /\ IsGraph(g) /\ OneStart(g) /\ Housed(g, k) /\ Joined(g)
  /\ "two pasted" \notin L => OwnFirsts(g) /\ Levelled(g)
  /\ "child pasted" \notin L => Marked(g)
  /\ L \cap {"forced", "while open"} = {} => Parented(g)
  /\ "dropped" \notin L => Acyclic(g)

\* The canvas and what undo and redo may bring back.
Kept == {canvas, present} \cup {past[i] : i \in DOMAIN past} \cup {future[i] : i \in DOMAIN future}
AllSound == \A g \in Kept : Sound(g, next, lapses)

\* An id is of one node for ever: ids are not given twice, nodes not changed.
Alike == \A g, h \in Kept : \A n \in On(g) \cap On(h) : g.nodes[n] = h.nodes[n]

\* What was copied, as it may still be somewhere.
ClipInv ==
  /\ clip \in [DOMAIN clip -> Node] /\ DOMAIN clip \subseteq 0..next
  /\ \A n \in DOMAIN clip :
       /\ clip[n].kind \notin {"start", "first"}
       /\ clip[n].mark = None => clip[n].parent = None
       /\ \A g \in Kept : n \in On(g) => g.nodes[n] = clip[n]
  /\ Cardinality(DOMAIN clip) > 1 => \A n \in DOMAIN clip : clip[n].mark = None

\* What the dialog is about: a container, and nodes that are in it if anywhere.
DialogInv ==
  dialog # NoDialog =>
    /\ dialog = [of |-> dialog.of, children |-> dialog.children]
    /\ dialog.of \in 0..next /\ dialog.children \subseteq 0..next
    /\ \A g \in Kept :
         /\ dialog.of \in On(g) => g.nodes[dialog.of].kind \notin {"start", "first"}
         /\ \A n \in dialog.children \cap On(g) : g.nodes[n].parent = dialog.of

AnyGraph == [nodes : UNION {[S -> Node] : S \in SUBSET Ids}, edges : SUBSET (Ids \X HandleNames \X Ids)]
Small ==
  /\ past \in Seq(AnyGraph) /\ future \in Seq(AnyGraph)
  /\ pending \in BOOLEAN /\ hung \in BOOLEAN /\ next \in Ids /\ ops \in Nat
  /\ lapses \subseteq {"forced", "dropped", "child pasted", "two pasted", "while open"}
  /\ hung => "dropped" \in lapses

\* The inductive invariant.
IInv == Small /\ AllSound /\ Alike /\ ClipInv /\ DialogInv /\ HistoryIsCanvas

-----------------------------------------------------------------------------
(* What Cyclic and Beyond compute.                                          *)

LEMMA IdsFinite ==
  /\ IsFiniteSet(Ids) /\ Ids \subseteq Nat /\ None \notin Ids
  /\ \A S \in SUBSET Ids : IsFiniteSet(S) /\ Cardinality(S) \in Nat
<1>1. IsFiniteSet(Ids) /\ Ids \subseteq Nat /\ None \notin Ids
  BY BoundsAssumption, FS_Interval DEF Ids, None
<1>. QED
  BY <1>1, FS_Subset, FS_CardinalityType

\* Of numbers there is a smallest.
LEMMA Smallest ==
    ASSUME NEW S \in SUBSET Nat, S # {}
    PROVE  \E n \in S : \A m \in S : n <= m
<1> DEFINE R == {ss \in Nat \X Nat : ss[1] < ss[2]}
<1>1. IsWellFoundedOn(R, Nat)
  BY NatLessThanWellFounded DEF OpToRel
<1>. HIDE DEF R
<1>2. PICK n \in S : \A m \in S : <<m, n>> \notin R
  <2>1. \E n \in S : \A m \in S : <<m, n>> \notin R
    BY <1>1, WFMin
  <2>. QED
    BY <2>1
<1>3. ASSUME NEW m \in S PROVE n <= m
  <2>1. <<m, n>> \notin R /\ m \in Nat /\ n \in Nat
    BY <1>2
  <2>2. ~(m < n)
    BY <2>1 DEF R
  <2>. QED
    BY <2>1, <2>2
<1>. QED
  BY <1>2, <1>3

\* What holds of 0 and of k + 1 when of k holds of all numbers up to n.
LEMMA UpTo ==
    ASSUME NEW n \in Nat, NEW S, 0 \in S, \A k \in 0..n : k < n /\ k \in S => k + 1 \in S
    PROVE  0..n \subseteq S
<1> DEFINE Missing == {k \in 0..n : k \notin S}
<1>1. SUFFICES ASSUME Missing # {} PROVE FALSE
  OBVIOUS
<1>2. PICK k \in Missing : \A m \in Missing : k <= m
  <2>1. Missing \in SUBSET Nat
    OBVIOUS
  <2>. HIDE DEF Missing
  <2>. QED
    BY <1>1, <2>1, Smallest
<1>3. k \in 0..n /\ k # 0
  BY <1>2
<1>4. k - 1 \in 0..n /\ k - 1 < n /\ k - 1 \notin Missing
  BY <1>2, <1>3
<1>5. k - 1 + 1 \in S
  BY <1>4
<1>. QED
  BY <1>2, <1>3, <1>5

\* A row of n + 1 elements of X, each given by the one before, exists.
Maps(F, X) == F \in [X -> X]
Row(f, n, X, a, F) == f \in [0..n -> X] /\ f[0] = a /\ \A k \in 0..n : k # 0 => f[k] = F[f[k - 1]]
LEMMA Stepwise ==
    ASSUME NEW n \in Nat, NEW X, NEW a \in X, NEW F, Maps(F, X)
    PROVE  \E f : Row(f, n, X, a, F)
<1>. USE DEF Maps, Row
<1> DEFINE Is(f, m) == f[0] = a /\ \A k \in 0..m : k # 0 => f[k] = F[f[k - 1]]
           S == {m \in 0..n : \E f \in [0..m -> X] : Is(f, m)}
<1>1. 0 \in S
  <2>1. [k \in 0..0 |-> a] \in [0..0 -> X] /\ Is([k \in 0..0 |-> a], 0) /\ 0 \in 0..n
    OBVIOUS
  <2>. QED
    BY <2>1
<1>2. ASSUME NEW m \in 0..n, m < n, m \in S PROVE m + 1 \in S
  <2>1. PICK f \in [0..m -> X] : Is(f, m)
    BY <1>2
  <2> DEFINE h == [k \in 0..(m + 1) |-> IF k = m + 1 THEN F[f[m]] ELSE f[k]]
  <2>2. h \in [0..(m + 1) -> X]
    <3>1. \A k \in 0..(m + 1) : k # m + 1 => k \in 0..m
      OBVIOUS
    <3>. QED
      BY <3>1
  <2>3. \A k \in 0..m : h[k] = f[k]
    OBVIOUS
  <2>4. ASSUME NEW k \in 0..(m + 1), k # 0 PROVE h[k] = F[h[k - 1]]
    <3>1. CASE k = m + 1
      <4>1. h[k] = F[f[m]] /\ k - 1 = m /\ h[m] = f[m]
        BY <3>1, <2>3
      <4>. QED
        BY <4>1
    <3>2. CASE k # m + 1
      <4>1. k \in 0..m /\ k - 1 \in 0..m
        BY <2>4, <3>2
      <4>2. h[k] = f[k] /\ h[k - 1] = f[k - 1]
        BY <4>1, <2>3
      <4>. QED
        BY <4>1, <4>2, <2>1, <2>4
    <3>. QED
      BY <3>1, <3>2
  <2>5. h[0] = a
    BY <2>1, <2>3
  <2>6. m + 1 \in 0..n
    BY <1>2
  <2>. HIDE DEF h
  <2>. QED
    BY <2>2, <2>4, <2>5, <2>6
<1>. HIDE DEF S
<1>3. n \in S
  BY <1>1, <1>2, UpTo
<1>. QED
  BY <1>3 DEF S

LEMMA NextsType ==
    ASSUME NEW g, IsGraph(g), NEW S
    PROVE  Nexts(g, S) \in SUBSET Ids
BY DEF IsGraph, Nexts

\* Beyond and Cyclic are the last of a row of sets, each given by the one before.
IsBeyondRow(B, g, n) ==
  /\ B \in [0..Cardinality(On(g)) -> SUBSET Ids]
  /\ Beyond(g, n) = B[Cardinality(On(g))]
  /\ B[0] = Nexts(g, {n})
  /\ \A k \in 0..Cardinality(On(g)) : k # 0 => B[k] = B[k - 1] \cup Nexts(g, B[k - 1])
LEMMA BeyondRow ==
    ASSUME NEW g, IsGraph(g), NEW n
    PROVE  \E B : IsBeyondRow(B, g, n)
<1> DEFINE N == Cardinality(On(g))
           Is(B) == B = [k \in 0..N |-> IF k = 0 THEN Nexts(g, {n})
                                        ELSE LET b == B[k - 1] IN b \cup Nexts(g, b)]
           F == [b \in SUBSET Ids |-> b \cup Nexts(g, b)]
<1>1. N \in Nat
  BY IdsFinite DEF IsGraph, On
<1>2. F \in [SUBSET Ids -> SUBSET Ids] /\ Nexts(g, {n}) \in SUBSET Ids
  BY NextsType
<1>3. PICK f \in [0..N -> SUBSET Ids] : f[0] = Nexts(g, {n}) /\ \A k \in 0..N : k # 0 => f[k] = F[f[k - 1]]
  <2> DEFINE X == SUBSET Ids
             a == Nexts(g, {n})
  <2>1. a \in X /\ Maps(F, X)
    BY <1>2 DEF Maps
  <2>. HIDE DEF F, N, X, a
  <2>2. \E f : Row(f, N, X, a, F)
    BY <1>1, <2>1, Stepwise
  <2>. QED
    BY <2>2 DEF X, a, Row
<1>. HIDE DEF N
<1>4. \A k \in 0..N : k # 0 => f[k - 1] \in SUBSET Ids
  BY <1>1, <1>3
<1>5. Is(f)
  <2>1. f = [k \in 0..N |-> f[k]]
    BY <1>3
  <2>2. \A k \in 0..N : f[k] = IF k = 0 THEN Nexts(g, {n}) ELSE LET b == f[k - 1] IN b \cup Nexts(g, b)
    BY <1>3, <1>4
  <2>. QED
    BY <2>1, <2>2
<1>6. Is(CHOOSE B : Is(B))
  <2>. HIDE DEF Is
  <2>. QED
    BY <1>5
<1> DEFINE h == CHOOSE B : Is(B)
<1>7. Beyond(g, n) = h[N]
  BY DEF Beyond, N
<1>. HIDE DEF h
<1>8. Is(h)
  BY <1>6 DEF h
<1>9. h = f
  <2> DEFINE S == {k \in 0..N : h[k] = f[k]}
  <2>1. 0 \in S
    BY <1>1, <1>5, <1>8
  <2>2. ASSUME NEW k \in 0..N, k < N, k \in S PROVE k + 1 \in S
    <3>1. k + 1 \in 0..N /\ k + 1 # 0 /\ k + 1 - 1 = k /\ h[k] = f[k]
      BY <1>1, <2>2
    <3>2. h[k + 1] = h[k] \cup Nexts(g, h[k]) /\ f[k + 1] = f[k] \cup Nexts(g, f[k])
      <4>1. \A i \in 0..N : i # 0 => h[i] = h[i - 1] \cup Nexts(g, h[i - 1])
        BY <1>8
      <4>2. \A i \in 0..N : i # 0 => f[i] = f[i - 1] \cup Nexts(g, f[i - 1])
        BY <1>5
      <4>. HIDE DEF Is
      <4>. QED
        BY <4>1, <4>2, <3>1
    <3>. QED
      BY <3>1, <3>2
  <2>. HIDE DEF S
  <2>3. 0..N \subseteq S
    BY <1>1, <2>1, <2>2, UpTo
  <2>4. \A k \in 0..N : h[k] = f[k]
    BY <2>3 DEF S
  <2>. QED
    BY <1>3, <1>8, <2>4
<1>10. N \in 0..N
  BY <1>1
<1>. QED
  BY <1>3, <1>4, <1>7, <1>9 DEF N, IsBeyondRow

IsCyclicRow(R, g, S) ==
  /\ R \in [0..Cardinality(S) -> SUBSET S]
  /\ Cyclic(g, S) <=> R[Cardinality(S)] # {}
  /\ R[0] = S
  /\ \A k \in 0..Cardinality(S) :
       k # 0 => R[k] = {n \in R[k - 1] : Nexts(g, {n}) \cap R[k - 1] # {}}
LEMMA CyclicRow ==
    ASSUME NEW g, NEW S \in SUBSET Ids
    PROVE  \E R : IsCyclicRow(R, g, S)
<1> DEFINE N == Cardinality(S)
           Is(R) == R = [k \in 0..N |-> IF k = 0 THEN S
                                        ELSE LET r == R[k - 1] IN {n \in r : Nexts(g, {n}) \cap r # {}}]
           F == [r \in SUBSET S |-> {n \in r : Nexts(g, {n}) \cap r # {}}]
<1>1. N \in Nat
  BY IdsFinite
<1>2. F \in [SUBSET S -> SUBSET S] /\ S \in SUBSET S
  OBVIOUS
<1>3. PICK f \in [0..N -> SUBSET S] : f[0] = S /\ \A k \in 0..N : k # 0 => f[k] = F[f[k - 1]]
  <2> DEFINE X == SUBSET S
             a == S
  <2>1. a \in X /\ Maps(F, X)
    BY <1>2 DEF Maps
  <2>. HIDE DEF F, N, X, a
  <2>2. \E f : Row(f, N, X, a, F)
    BY <1>1, <2>1, Stepwise
  <2>. QED
    BY <2>2 DEF X, a, Row
<1>. HIDE DEF N
<1>4. \A k \in 0..N : k # 0 => f[k - 1] \in SUBSET S
  BY <1>1, <1>3
<1>5. Is(f)
  <2>1. f = [k \in 0..N |-> f[k]]
    BY <1>3
  <2>2. \A k \in 0..N : f[k] = IF k = 0 THEN S ELSE LET r == f[k - 1] IN {n \in r : Nexts(g, {n}) \cap r # {}}
    BY <1>3, <1>4
  <2>. QED
    BY <2>1, <2>2
<1>6. Is(CHOOSE R : Is(R))
  <2>. HIDE DEF Is
  <2>. QED
    BY <1>5
<1> DEFINE h == CHOOSE R : Is(R)
<1>7. Cyclic(g, S) <=> h[N] # {}
  BY DEF Cyclic, N
<1>. HIDE DEF h
<1>8. Is(h)
  BY <1>6 DEF h
<1>9. h = f
  <2> DEFINE Same == {k \in 0..N : h[k] = f[k]}
  <2>1. 0 \in Same
    BY <1>1, <1>5, <1>8
  <2>2. ASSUME NEW k \in 0..N, k < N, k \in Same PROVE k + 1 \in Same
    <3>1. k + 1 \in 0..N /\ k + 1 # 0 /\ k + 1 - 1 = k /\ h[k] = f[k]
      BY <1>1, <2>2
    <3>2. /\ h[k + 1] = {n \in h[k] : Nexts(g, {n}) \cap h[k] # {}}
          /\ f[k + 1] = {n \in f[k] : Nexts(g, {n}) \cap f[k] # {}}
      <4> DEFINE Step(r) == {n \in r : Nexts(g, {n}) \cap r # {}}
      <4>1. \A i \in 0..N : i # 0 => h[i] = Step(h[i - 1])
        BY <1>8
      <4>2. \A i \in 0..N : i # 0 => f[i] = Step(f[i - 1])
        BY <1>5
      <4>. HIDE DEF Is, Step
      <4>3. h[k + 1] = Step(h[k]) /\ f[k + 1] = Step(f[k])
        BY <4>1, <4>2, <3>1
      <4>. QED
        BY <4>3 DEF Step
    <3>. QED
      BY <3>1, <3>2
  <2>. HIDE DEF Same
  <2>3. 0..N \subseteq Same
    BY <1>1, <2>1, <2>2, UpTo
  <2>4. \A k \in 0..N : h[k] = f[k]
    BY <2>3 DEF Same
  <2>. QED
    BY <1>3, <1>8, <2>4
<1>10. \A k \in 0..N : k # 0 => f[k] = {n \in f[k - 1] : Nexts(g, {n}) \cap f[k - 1] # {}}
  BY <1>3, <1>4
<1>. HIDE DEF F, Is
<1>11. IsCyclicRow(f, g, S)
  <2>1. f \in [0..Cardinality(S) -> SUBSET S] /\ f[0] = S /\ (Cyclic(g, S) <=> f[Cardinality(S)] # {})
    BY <1>3, <1>7, <1>9 DEF N
  <2>. QED
    BY <1>10, <2>1 DEF N, IsCyclicRow
<1>. QED
  BY <1>11

\* Sets within U that grow until they no longer do have stopped after as many
\* steps as U has elements.
Grows(B, U, n) ==
  /\ \A k \in 0..n : B[k] \in SUBSET U
  /\ \A k \in 0..n : k < n => B[k] \subseteq B[k + 1]
  /\ \A k \in 0..n : k + 1 < n /\ B[k] = B[k + 1] => B[k + 1] = B[k + 2]
LEMMA Grown ==
    ASSUME NEW U, IsFiniteSet(U), NEW n \in Nat, n = Cardinality(U), NEW B, Grows(B, U, n)
    PROVE  B[n] = U \/ (n > 0 /\ B[n - 1] = B[n])
<1>. USE DEF Grows
<1> DEFINE S == {k \in 0..n : Cardinality(B[k]) >= k \/ (k > 0 /\ B[k - 1] = B[k])}
<1>1. \A k \in 0..n : IsFiniteSet(B[k]) /\ Cardinality(B[k]) \in Nat
  BY FS_Subset, FS_CardinalityType
<1>2. 0 \in S
  <2>1. 0 \in 0..n /\ Cardinality(B[0]) \in Nat
    BY <1>1
  <2>. QED
    BY <2>1
<1>3. ASSUME NEW k \in 0..n, k < n, k \in S PROVE k + 1 \in S
  <2>1. k + 1 \in 0..n /\ k + 1 - 1 = k
    BY <1>3
  <2>2. CASE B[k] = B[k + 1]
    BY <2>1, <2>2
  <2>3. CASE B[k] # B[k + 1] /\ k > 0 /\ B[k - 1] = B[k]
    <3>1. k - 1 \in 0..n /\ (k - 1) + 1 = k /\ (k - 1) + 2 = k + 1 /\ (k - 1) + 1 < n
      BY <1>3, <2>3
    <3>2. B[k - 1] = B[(k - 1) + 1] => B[(k - 1) + 1] = B[(k - 1) + 2]
      BY <3>1
    <3>. QED
      BY <2>3, <3>1, <3>2
  <2>4. CASE B[k] # B[k + 1] /\ ~(k > 0 /\ B[k - 1] = B[k])
    <3>1. Cardinality(B[k]) >= k
      BY <1>3, <2>4
    <3>2. B[k] \subseteq B[k + 1]
      BY <1>3
    <3>3. Cardinality(B[k]) < Cardinality(B[k + 1])
      BY <1>1, <2>1, <2>4, <3>2, FS_Subset
    <3>4. Cardinality(B[k]) \in Nat /\ Cardinality(B[k + 1]) \in Nat
      BY <1>1, <2>1
    <3>5. Cardinality(B[k + 1]) >= k + 1
      BY <3>1, <3>3, <3>4
    <3>. QED
      BY <2>1, <3>5
  <2>. QED
    BY <2>2, <2>3, <2>4
<1>. HIDE DEF S
<1>4. n \in S
  BY <1>2, <1>3, UpTo
<1>5. n \in 0..n
  OBVIOUS
<1>6. Cardinality(B[n]) >= n => B[n] = U
  BY <1>1, <1>5, FS_Subset
<1>. QED
  BY <1>4, <1>6 DEF S

\* ... and the same for sets that shrink.
Shrinks(R, U, n) ==
  /\ \A k \in 0..n : R[k] \in SUBSET U
  /\ \A k \in 0..n : k < n => R[k + 1] \subseteq R[k]
  /\ \A k \in 0..n : k + 1 < n /\ R[k] = R[k + 1] => R[k + 1] = R[k + 2]
LEMMA Shrunk ==
    ASSUME NEW U, IsFiniteSet(U), NEW n \in Nat, n = Cardinality(U), NEW R, Shrinks(R, U, n)
    PROVE  R[n] = {} \/ (n > 0 /\ R[n - 1] = R[n])
<1>. USE DEF Shrinks
<1> DEFINE B == [k \in 0..n |-> U \ R[k]]
<1>1. \A k \in 0..n : B[k] = U \ R[k]
  OBVIOUS
<1>. HIDE DEF B
<1>2. \A k \in 0..n : B[k] \in SUBSET U
  BY <1>1
<1>3. ASSUME NEW k \in 0..n, k < n PROVE B[k] \subseteq B[k + 1]
  <2>1. k + 1 \in 0..n
    BY <1>3
  <2>. QED
    BY <1>1, <1>3, <2>1
<1>4. ASSUME NEW k \in 0..n, NEW j \in 0..n PROVE B[k] = B[j] <=> R[k] = R[j]
  <2>1. R[k] \in SUBSET U /\ R[j] \in SUBSET U /\ B[k] = U \ R[k] /\ B[j] = U \ R[j]
    BY <1>1
  <2>2. R[k] = U \ B[k] /\ R[j] = U \ B[j]
    BY <2>1
  <2>. QED
    BY <2>1, <2>2
<1>5. ASSUME NEW k \in 0..n, k + 1 < n, B[k] = B[k + 1] PROVE B[k + 1] = B[k + 2]
  <2>1. k + 1 \in 0..n /\ k + 2 \in 0..n
    BY <1>5
  <2>2. R[k] = R[k + 1]
    BY <1>4, <1>5, <2>1
  <2>. QED
    BY <1>4, <1>5, <2>1, <2>2
<1>6. B[n] = U \/ (n > 0 /\ B[n - 1] = B[n])
  <2>1. Grows(B, U, n)
    BY <1>2, <1>3, <1>5 DEF Grows
  <2>. QED
    BY <2>1, Grown
<1>7. CASE B[n] = U
  <2>1. n \in 0..n
    OBVIOUS
  <2>2. B[n] = U \ R[n] /\ R[n] \in SUBSET U
    BY <1>1, <2>1
  <2>. QED
    BY <1>7, <2>2
<1>8. CASE n > 0 /\ B[n - 1] = B[n]
  <2>1. n \in 0..n /\ n - 1 \in 0..n
    BY <1>8
  <2>. QED
    BY <1>4, <1>8, <2>1
<1>. QED
  BY <1>6, <1>7, <1>8

\* What can be reached is closed under the edges.
LEMMA BeyondClosed ==
    ASSUME NEW g, IsGraph(g), Joined(g), NEW n
    PROVE  /\ Beyond(g, n) \in SUBSET On(g)
           /\ \A e \in g.edges : e[1] = n \/ e[1] \in Beyond(g, n) => e[3] \in Beyond(g, n)
<1> DEFINE N == Cardinality(On(g))
<1>1. On(g) \in SUBSET Ids /\ IsFiniteSet(On(g)) /\ N \in Nat
  BY IdsFinite DEF IsGraph, On
<1>2. PICK B \in [0..N -> SUBSET Ids] :
         /\ Beyond(g, n) = B[N]
         /\ B[0] = Nexts(g, {n})
         /\ \A k \in 0..N : k # 0 => B[k] = B[k - 1] \cup Nexts(g, B[k - 1])
  <2>1. PICK B : IsBeyondRow(B, g, n)
    BY BeyondRow
  <2>. QED
    BY <2>1 DEF IsBeyondRow
<1>. HIDE DEF N
<1>3. \A S : Nexts(g, S) \in SUBSET On(g)
  BY DEF Joined, Nexts
<1>4. \A k \in 0..N : k < N => B[k + 1] = B[k] \cup Nexts(g, B[k])
  <2>1. ASSUME NEW k \in 0..N, k < N PROVE B[k + 1] = B[k] \cup Nexts(g, B[k])
    <3>1. k + 1 \in 0..N /\ k + 1 # 0 /\ k + 1 - 1 = k
      BY <1>1, <2>1
    <3>. QED
      BY <1>2, <3>1
  <2>. QED
    BY <2>1
<1>5. \A k \in 0..N : B[k] \in SUBSET On(g)
  <2> DEFINE S == {k \in 0..N : B[k] \in SUBSET On(g)}
  <2>1. 0 \in S
    BY <1>1, <1>2, <1>3
  <2>2. ASSUME NEW k \in 0..N, k < N, k \in S PROVE k + 1 \in S
    <3>1. k + 1 \in 0..N
      BY <1>1, <2>2
    <3>. QED
      BY <1>3, <1>4, <2>2, <3>1
  <2>. HIDE DEF S
  <2>3. 0..N \subseteq S
    BY <1>1, <2>1, <2>2, UpTo
  <2>. QED
    BY <2>3 DEF S
<1>6. Grows(B, On(g), N)
  <2>1. \A k \in 0..N : k < N => B[k] \subseteq B[k + 1]
    BY <1>4
  <2>2. ASSUME NEW k \in 0..N, k + 1 < N, B[k] = B[k + 1] PROVE B[k + 1] = B[k + 2]
    <3>1. k + 1 \in 0..N /\ k < N /\ k + 1 + 1 = k + 2
      BY <1>1, <2>2
    <3>2. B[k + 1] = B[k] \cup Nexts(g, B[k]) /\ B[k + 2] = B[k + 1] \cup Nexts(g, B[k + 1])
      BY <1>4, <2>2, <3>1
    <3>. QED
      BY <2>2, <3>2
  <2>. QED
    BY <1>5, <2>1, <2>2 DEF Grows
<1>7. N \in 0..N
  BY <1>1
<1>8. Nexts(g, B[N]) \subseteq B[N]
  <2>1. B[N] = On(g) \/ (N > 0 /\ B[N - 1] = B[N])
    BY <1>1, <1>6, Grown DEF N
  <2>2. CASE B[N] = On(g)
    BY <1>3, <2>2
  <2>3. CASE N > 0 /\ B[N - 1] = B[N]
    <3>1. B[N] = B[N - 1] \cup Nexts(g, B[N - 1])
      BY <1>2, <1>7, <2>3
    <3>. QED
      BY <2>3, <3>1
  <2>. QED
    BY <2>1, <2>2, <2>3
<1>9. Nexts(g, {n}) \subseteq B[N]
  <2> DEFINE S == {k \in 0..N : Nexts(g, {n}) \subseteq B[k]}
  <2>1. 0 \in S
    BY <1>1, <1>2
  <2>2. ASSUME NEW k \in 0..N, k < N, k \in S PROVE k + 1 \in S
    <3>1. k + 1 \in 0..N
      BY <1>1, <2>2
    <3>. QED
      BY <1>4, <2>2, <3>1
  <2>. HIDE DEF S
  <2>3. 0..N \subseteq S
    BY <1>1, <2>1, <2>2, UpTo
  <2>. QED
    BY <1>7, <2>3 DEF S
<1>. QED
  BY <1>2, <1>5, <1>7, <1>8, <1>9 DEF Nexts

\* There is a cycle in a set where there is a part of it in which everything
\* leads on.
LEMMA CyclicMeans ==
    ASSUME NEW g, NEW S \in SUBSET Ids
    PROVE  Cyclic(g, S) <=> \E T \in SUBSET S : Looping(g, T)
<1> DEFINE N == Cardinality(S)
           Led(r) == {n \in r : Nexts(g, {n}) \cap r # {}}
<1>1. IsFiniteSet(S) /\ N \in Nat
  BY IdsFinite
<1>2. PICK R \in [0..N -> SUBSET S] :
         /\ Cyclic(g, S) <=> R[N] # {}
         /\ R[0] = S
         /\ \A k \in 0..N : k # 0 => R[k] = Led(R[k - 1])
  <2>1. PICK R : IsCyclicRow(R, g, S)
    BY CyclicRow
  <2>. QED
    BY <2>1 DEF IsCyclicRow
<1>. HIDE DEF N
<1>3. \A k \in 0..N : k < N => R[k + 1] = Led(R[k])
  <2>1. ASSUME NEW k \in 0..N, k < N PROVE R[k + 1] = Led(R[k])
    <3>1. k + 1 \in 0..N /\ k + 1 # 0 /\ k + 1 - 1 = k
      BY <1>1, <2>1
    <3>. HIDE DEF Led
    <3>. QED
      BY <1>2, <3>1
  <2>. QED
    BY <2>1
<1>4. \A r : Led(r) \subseteq r
  OBVIOUS
<1>5. \A r : r # {} /\ Led(r) = r => Looping(g, r)
  BY DEF Looping, Nexts
<1>6. \A T, r : Looping(g, T) /\ T \subseteq r => T \subseteq Led(r)
  <2>1. ASSUME NEW T, NEW r, Looping(g, T), T \subseteq r, NEW n \in T PROVE n \in Led(r)
    <3>1. PICK e \in g.edges : e[1] = n /\ e[3] \in T
      BY <2>1 DEF Looping
    <3>2. e[3] \in Nexts(g, {n})
      BY <3>1 DEF Nexts
    <3>. QED
      BY <2>1, <3>1, <3>2
  <2>. QED
    BY <2>1
<1>. HIDE DEF Led
<1>7. Shrinks(R, S, N)
  <2>1. \A k \in 0..N : k < N => R[k + 1] \subseteq R[k]
    BY <1>3, <1>4
  <2>2. ASSUME NEW k \in 0..N, k + 1 < N, R[k] = R[k + 1] PROVE R[k + 1] = R[k + 2]
    <3>1. k + 1 \in 0..N /\ k < N /\ k + 1 + 1 = k + 2
      BY <1>1, <2>2
    <3>2. R[k + 1] = Led(R[k]) /\ R[k + 2] = Led(R[k + 1])
      BY <1>3, <2>2, <3>1
    <3>. QED
      BY <2>2, <3>2
  <2>. QED
    BY <1>2, <2>1, <2>2 DEF Shrinks
<1>8. N \in 0..N
  BY <1>1
<1>9. ASSUME Cyclic(g, S) PROVE \E T \in SUBSET S : Looping(g, T)
  <2>1. R[N] # {} /\ R[N] \in SUBSET S
    BY <1>2, <1>8, <1>9
  <2>2. N > 0 /\ R[N - 1] = R[N]
    BY <1>1, <1>7, <2>1, Shrunk DEF N
  <2>3. R[N] = Led(R[N - 1])
    BY <1>2, <1>8, <2>2
  <2>. QED
    BY <1>5, <2>1, <2>2, <2>3
<1>10. ASSUME NEW T \in SUBSET S, Looping(g, T) PROVE Cyclic(g, S)
  <2> DEFINE Has == {k \in 0..N : T \subseteq R[k]}
  <2>1. 0 \in Has
    BY <1>1, <1>2
  <2>2. ASSUME NEW k \in 0..N, k < N, k \in Has PROVE k + 1 \in Has
    <3>1. k + 1 \in 0..N /\ R[k + 1] = Led(R[k]) /\ T \subseteq R[k]
      BY <1>1, <1>3, <2>2
    <3>2. T \subseteq Led(R[k])
      BY <1>6, <1>10, <3>1
    <3>. QED
      BY <3>1, <3>2
  <2>. HIDE DEF Has
  <2>3. 0..N \subseteq Has
    BY <1>1, <2>1, <2>2, UpTo
  <2>4. T \subseteq R[N]
    BY <1>8, <2>3 DEF Has
  <2>5. T # {}
    BY <1>10 DEF Looping
  <2>. QED
    BY <1>2, <2>4, <2>5
<1>. QED
  BY <1>9, <1>10

-----------------------------------------------------------------------------
(* What the operations on graphs leave sound.                               *)

LEMMA SoundMore ==
    ASSUME NEW g, NEW k \in Nat, NEW j \in Nat, k <= j, NEW L, NEW M, L \subseteq M, Sound(g, k, L)
    PROVE  Sound(g, j, M)
<1>1. 0..k \subseteq 0..j
  OBVIOUS
<1>2. Housed(g, j)
  BY <1>1 DEF Sound, Housed
<1>. QED
  BY <1>2 DEF Sound

LEMMA AcyclicLess ==
    ASSUME NEW g, NEW h, Acyclic(g), h.edges \subseteq g.edges
    PROVE  Acyclic(h)
BY DEF Acyclic, Looping

\* A graph without some of its edges
LEMMA WithoutEdgesIs ==
    ASSUME NEW g, IsGraph(g), NEW E
    PROVE  WithoutEdges(g, E) = [nodes |-> g.nodes, edges |-> g.edges \ E]
<1>1. g = [nodes |-> g.nodes, edges |-> g.edges]
  BY DEF IsGraph
<1>2. WithoutEdges(g, E) = [g EXCEPT !.edges = g.edges \ E]
  BY <1>1 DEF WithoutEdges
<1>. QED
  BY <1>1, <1>2

LEMMA WithoutEdgesSound ==
    ASSUME NEW g, NEW k, NEW L, NEW E, Sound(g, k, L)
    PROVE  Sound(WithoutEdges(g, E), k, L)
<1> DEFINE h == WithoutEdges(g, E)
<1>1. h = [nodes |-> h.nodes, edges |-> h.edges] /\ h.nodes = g.nodes /\ h.edges = g.edges \ E
  <2>1. h = [nodes |-> g.nodes, edges |-> g.edges \ E]
    BY WithoutEdgesIs DEF Sound
  <2>. QED
    BY <2>1
<1>. HIDE DEF h
<1>2. IsGraph(h)
  BY <1>1 DEF Sound, IsGraph
<1>3. On(h) = On(g) /\ \A n : Children(h, n) = Children(g, n)
  BY <1>1 DEF On, Children
<1>4. OneStart(h)
  BY <1>1, <1>3 DEF Sound, OneStart
<1>5. Housed(h, k)
  BY <1>1, <1>3 DEF Sound, Housed
<1>6. OwnFirsts(g) => OwnFirsts(h)
  BY <1>1, <1>3 DEF OwnFirsts
<1>7. (Marked(g) => Marked(h)) /\ (Parented(g) => Parented(h))
  BY <1>1, <1>3 DEF Marked, Parented
<1>8. Joined(h) /\ (Levelled(g) => Levelled(h))
  BY <1>1 DEF Sound, Joined, Levelled, Level, On
<1>9. Acyclic(g) => Acyclic(h)
  BY <1>1, AcyclicLess
<1>10. Sound(h, k, L)
  BY <1>2, <1>4, <1>5, <1>6, <1>7, <1>8, <1>9 DEF Sound
<1>. QED
  BY <1>10 DEF h

\* ... without some of its nodes: no start node, and the start node of a
\* container only with its container.
LEMMA WithoutSound ==
    ASSUME NEW g, NEW k, NEW L, NEW M, NEW S, Sound(g, k, L), L \subseteq M,
           \A n \in S \cap On(g) : g.nodes[n].kind # "start",
           \A n \in S \cap On(g) : g.nodes[n].kind = "first" => g.nodes[n].parent \notin On(g) \ S,
           M \cap {"forced", "while open"} = {} => \A n \in On(g) \ S : g.nodes[n].parent \notin S
    PROVE  Sound(Without(g, S), k, M)
<1> DEFINE h == Without(g, S)
<1>1. /\ h = [nodes |-> h.nodes, edges |-> h.edges] /\ h.nodes \in [On(g) \ S -> Node]
      /\ On(h) = On(g) \ S /\ \A n \in On(h) : h.nodes[n] = g.nodes[n]
      /\ h.edges \subseteq g.edges /\ \A e \in h.edges : e[1] \notin S /\ e[3] \notin S
  <2>1. g.nodes \in [On(g) -> Node]
    BY DEF Sound, IsGraph, On
  <2>. QED
    BY <2>1 DEF Without, On, Joining
<1>. HIDE DEF h
<1>2. IsGraph(h)
  BY <1>1 DEF Sound, IsGraph, On
<1>3. OneStart(h)
  <2>1. PICK s \in On(g) : {n \in On(g) : g.nodes[n].kind = "start"} = {s}
    BY DEF Sound, OneStart
  <2>2. s \in On(h)
    BY <1>1, <2>1
  <2>3. {n \in On(h) : h.nodes[n].kind = "start"} = {s}
    BY <1>1, <2>1, <2>2
  <2>. QED
    BY <2>2, <2>3 DEF OneStart
<1>4. Housed(h, k) /\ (Marked(g) => Marked(h))
  <2>1. Housed(h, k)
    <3>1. ASSUME NEW n \in On(h)
          PROVE  /\ n \in 0..k /\ h.nodes[n].parent \in 0..k \cup {None}
                 /\ h.nodes[n].kind \in Containers \cup {"start"} => h.nodes[n].parent = None
                 /\ h.nodes[n].parent \in On(h) => h.nodes[h.nodes[n].parent].kind \in Containers
                 /\ h.nodes[n].kind # "first" /\ h.nodes[n].mark = None => h.nodes[n].parent = None
      <4>1. n \in On(g) /\ h.nodes[n] = g.nodes[n]
        BY <1>1
      <4>2. /\ n \in 0..k /\ g.nodes[n].parent \in 0..k \cup {None}
            /\ g.nodes[n].kind \in Containers \cup {"start"} => g.nodes[n].parent = None
            /\ g.nodes[n].parent \in On(g) => g.nodes[g.nodes[n].parent].kind \in Containers
            /\ g.nodes[n].kind # "first" /\ g.nodes[n].mark = None => g.nodes[n].parent = None
        BY <4>1 DEF Sound, Housed
      <4>. QED
        BY <1>1, <4>1, <4>2
    <3>. QED
      BY <3>1 DEF Housed
  <2>. QED
    BY <1>1, <2>1 DEF Marked
<1>5. Joined(h) /\ (Levelled(g) => Levelled(h))
  <2>1. ASSUME NEW e \in h.edges
        PROVE  /\ e[1] \in On(h) /\ e[3] \in On(h) /\ h.nodes[e[3]].kind \notin {"start", "first"}
               /\ h.nodes[e[1]] = g.nodes[e[1]] /\ h.nodes[e[3]] = g.nodes[e[3]] /\ e \in g.edges
    <3>1. e \in g.edges /\ e[1] \in On(g) /\ e[3] \in On(g) /\ g.nodes[e[3]].kind \notin {"start", "first"}
      BY <1>1 DEF Sound, Joined
    <3>. QED
      BY <1>1, <3>1
  <2>2. Joined(h)
    BY <2>1 DEF Joined
  <2>. QED
    BY <2>1, <2>2 DEF Levelled, Level
<1>6. ASSUME OwnFirsts(g) PROVE OwnFirsts(h)
  <2>1. ASSUME NEW n \in On(h), h.nodes[n].kind \in Containers
        PROVE  {c \in Children(h, n) : h.nodes[c].kind = "first"} = {h.nodes[n].first}
    <3>1. {c \in Children(g, n) : g.nodes[c].kind = "first"} = {g.nodes[n].first}
      BY <1>1, <1>6, <2>1 DEF OwnFirsts
    <3>2. {c \in Children(h, n) : h.nodes[c].kind = "first"} \subseteq {c \in Children(g, n) : g.nodes[c].kind = "first"}
      BY <1>1 DEF Children
    <3>3. {c \in Children(g, n) : g.nodes[c].kind = "first"} \subseteq {c \in Children(h, n) : h.nodes[c].kind = "first"}
      <4>1. ASSUME NEW c \in Children(g, n), g.nodes[c].kind = "first" PROVE c \in Children(h, n) /\ h.nodes[c].kind = "first"
        <5>1. c \in On(g) /\ g.nodes[c].parent = n /\ n \in On(g) \ S
          BY <1>1, <2>1, <4>1 DEF Children
        <5>2. c \notin S
          BY <4>1, <5>1
        <5>. QED
          BY <1>1, <4>1, <5>1, <5>2 DEF Children
      <4>. QED
        BY <4>1
    <3>4. h.nodes[n].first = g.nodes[n].first
      BY <1>1, <2>1
    <3>. QED
      BY <3>1, <3>2, <3>3, <3>4
  <2>. QED
    BY <2>1 DEF OwnFirsts
<1>7. ASSUME M \cap {"forced", "while open"} = {} PROVE Parented(h)
  <2>1. Parented(g)
    BY <1>7 DEF Sound
  <2>. QED
    BY <1>1, <1>7, <2>1 DEF Parented
<1>8. Acyclic(g) => Acyclic(h)
  BY <1>1, AcyclicLess
<1>9. Sound(h, k, M)
  BY <1>2, <1>3, <1>4, <1>5, <1>6, <1>7, <1>8 DEF Sound
<1>. QED
  BY <1>9 DEF h

LEMMA WithoutTwice ==
    ASSUME NEW g, NEW S, NEW R
    PROVE  Without(Without(g, S), R) = Without(g, S \cup R)
<1> DEFINE h == Without(g, S)
<1>1. On(h) = On(g) \ S /\ (\A n \in On(h) : h.nodes[n] = g.nodes[n]) /\ h.edges = g.edges \ Joining(g, S)
  BY DEF Without, On
<1>. HIDE DEF h
<1>2. On(h) \ R = On(g) \ (S \cup R)
  BY <1>1
<1>3. [n \in On(h) \ R |-> h.nodes[n]] = [n \in On(g) \ (S \cup R) |-> g.nodes[n]]
  BY <1>1, <1>2
<1>4. h.edges \ Joining(h, R) = g.edges \ Joining(g, S \cup R)
  BY <1>1 DEF Joining
<1>5. Without(h, R) = Without(g, S \cup R)
  BY <1>3, <1>4 DEF Without
<1>. QED
  BY <1>5 DEF h

LEMMA WithNodesIs ==
    ASSUME NEW g, IsGraph(g), NEW D, NEW new, new = [n \in D |-> new[n]], D \cap On(g) = {}
    PROVE  LET h == WithNodes(g, new) IN
           /\ h = [nodes |-> h.nodes, edges |-> h.edges] /\ h.edges = g.edges
           /\ On(h) = On(g) \cup D /\ h.nodes = [n \in On(h) |-> h.nodes[n]]
           /\ \A n \in On(g) : h.nodes[n] = g.nodes[n]
           /\ \A n \in D : h.nodes[n] = new[n]
<1> DEFINE nodes == [n \in On(g) \cup DOMAIN new |-> IF n \in DOMAIN new THEN new[n] ELSE g.nodes[n]]
<1>1. g = [nodes |-> g.nodes, edges |-> g.edges] /\ DOMAIN new = D
  BY DEF IsGraph
<1>2. WithNodes(g, new) = [g EXCEPT !.nodes = nodes]
  BY DEF WithNodes
<1>3. /\ DOMAIN nodes = On(g) \cup D
      /\ nodes = [n \in DOMAIN nodes |-> nodes[n]]
      /\ \A n \in On(g) : nodes[n] = g.nodes[n]
      /\ \A n \in D : nodes[n] = new[n]
  BY <1>1
<1>. HIDE DEF nodes
<1>4. WithNodes(g, new) = [nodes |-> nodes, edges |-> g.edges]
  BY <1>1, <1>2
<1>. QED
  BY <1>3, <1>4 DEF On

\* New nodes that a graph with ids up to k may get, with what M has left wrong.
Fit(g, k, new, D, M) ==
  /\ \A n \in D :
       /\ new[n].kind # "start"
       /\ new[n].kind \in Containers => new[n].parent = None
       /\ new[n].parent \in D \cup 0..k \cup {None}
       /\ new[n].parent \in D => new[new[n].parent].kind \in Containers
       /\ new[n].parent \in On(g) => g.nodes[new[n].parent].kind \in Containers
       /\ new[n].kind # "first" /\ new[n].mark = None => new[n].parent = None
       /\ new[n].kind = "first" => new[n].parent \in D
       /\ M \cap {"forced", "while open"} = {} => new[n].parent \in D \cup On(g) \cup {None}
       /\ "child pasted" \notin M /\ new[n].kind # "first" => new[n].mark = new[n].parent
  /\ "two pasted" \notin M =>
       \A n \in D : new[n].kind \in Containers =>
         {c \in D : new[c].parent = n /\ new[c].kind = "first"} = {new[n].first}

LEMMA WithNodesSound ==
    ASSUME NEW g, NEW k \in Nat, NEW L, NEW M, Sound(g, k, L), L \subseteq M,
           NEW j \in Ids, k <= j, NEW D, D \subseteq (k + 1)..j, NEW new, new \in [D -> Node],
           Fit(g, k, new, D, M)
    PROVE  Sound(WithNodes(g, new), j, M)
<1> DEFINE h == WithNodes(g, new)
<1>1. IsGraph(g) /\ OneStart(g) /\ Housed(g, k) /\ Joined(g)
  BY DEF Sound
<1>2. /\ j \in Nat /\ 0..k \subseteq 0..j /\ D \subseteq 0..j /\ D \cap 0..k = {} /\ 0..j \subseteq Ids
      /\ None \notin 0..j /\ On(g) \subseteq 0..k
  <2>1. j \in Nat /\ None \notin Ids /\ 0..j \subseteq Ids
    BY IdsFinite, BoundsAssumption DEF Ids
  <2>2. On(g) \subseteq 0..k
    BY <1>1 DEF Housed
  <2>. QED
    BY <2>1, <2>2
<1>3. D \cap On(g) = {}
  BY <1>2
<1>4. /\ h = [nodes |-> h.nodes, edges |-> h.edges] /\ h.edges = g.edges
      /\ On(h) = On(g) \cup D /\ h.nodes = [n \in On(h) |-> h.nodes[n]]
      /\ \A n \in On(g) : h.nodes[n] = g.nodes[n]
      /\ \A n \in D : h.nodes[n] = new[n]
  <2>1. new = [n \in D |-> new[n]]
    OBVIOUS
  <2>. HIDE DEF h
  <2>. QED
    BY <1>1, <1>3, <2>1, WithNodesIs DEF h
<1>. HIDE DEF h
<1>5. \A n \in On(g) : h.nodes[n] \in Node
  BY <1>1, <1>4 DEF IsGraph, On
<1>6. \A n \in D : h.nodes[n] \in Node
  BY <1>4
<1>7. IsGraph(h)
  <2>1. h.nodes \in [On(h) -> Node]
    BY <1>4, <1>5, <1>6
  <2>. QED
    BY <1>1, <1>2, <1>4, <2>1 DEF IsGraph, On
<1>8. OneStart(h)
  <2>1. PICK s \in On(g) : {n \in On(g) : g.nodes[n].kind = "start"} = {s}
    BY <1>1 DEF OneStart
  <2>2. \A n \in D : h.nodes[n].kind # "start"
    BY <1>4 DEF Fit
  <2>3. {n \in On(h) : h.nodes[n].kind = "start"} = {s}
    BY <1>4, <2>1, <2>2
  <2>. QED
    BY <1>4, <2>1, <2>3 DEF OneStart
<1>9. Housed(h, j)
  <2>1. ASSUME NEW n \in On(g)
        PROVE  /\ n \in 0..j /\ h.nodes[n].parent \in 0..j \cup {None}
               /\ h.nodes[n].kind \in Containers \cup {"start"} => h.nodes[n].parent = None
               /\ h.nodes[n].parent \in On(h) => h.nodes[h.nodes[n].parent].kind \in Containers
               /\ h.nodes[n].kind # "first" /\ h.nodes[n].mark = None => h.nodes[n].parent = None
    <3>1. /\ n \in 0..k /\ g.nodes[n].parent \in 0..k \cup {None}
          /\ g.nodes[n].kind \in Containers \cup {"start"} => g.nodes[n].parent = None
          /\ g.nodes[n].parent \in On(g) => g.nodes[g.nodes[n].parent].kind \in Containers
          /\ g.nodes[n].kind # "first" /\ g.nodes[n].mark = None => g.nodes[n].parent = None
      BY <1>1 DEF Housed
    <3>2. h.nodes[n] = g.nodes[n]
      BY <1>4
    <3>3. g.nodes[n].parent \in On(h) => g.nodes[n].parent \in On(g)
      BY <1>2, <1>4, <3>1
    <3>. QED
      BY <1>2, <1>4, <3>1, <3>2, <3>3
  <2>2. ASSUME NEW n \in D
        PROVE  /\ n \in 0..j /\ h.nodes[n].parent \in 0..j \cup {None}
               /\ h.nodes[n].kind \in Containers \cup {"start"} => h.nodes[n].parent = None
               /\ h.nodes[n].parent \in On(h) => h.nodes[h.nodes[n].parent].kind \in Containers
               /\ h.nodes[n].kind # "first" /\ h.nodes[n].mark = None => h.nodes[n].parent = None
    <3>1. /\ new[n].kind # "start"
          /\ new[n].kind \in Containers => new[n].parent = None
          /\ new[n].parent \in D \cup 0..k \cup {None}
          /\ new[n].parent \in D => new[new[n].parent].kind \in Containers
          /\ new[n].parent \in On(g) => g.nodes[new[n].parent].kind \in Containers
          /\ new[n].kind # "first" /\ new[n].mark = None => new[n].parent = None
      BY DEF Fit
    <3>2. h.nodes[n] = new[n]
      BY <1>4
    <3>. QED
      BY <1>2, <1>4, <3>1, <3>2
  <2>. QED
    BY <1>4, <2>1, <2>2 DEF Housed
<1>10. Joined(h) /\ (Levelled(g) => Levelled(h))
  BY <1>1, <1>4 DEF Joined, Levelled, Level
<1>11. ASSUME "two pasted" \notin M PROVE OwnFirsts(h)
  <2>1. OwnFirsts(g)
    BY <1>11 DEF Sound
  <2>2. ASSUME NEW n \in On(g), h.nodes[n].kind \in Containers
        PROVE  {c \in Children(h, n) : h.nodes[c].kind = "first"} = {h.nodes[n].first}
    <3>1. {c \in Children(g, n) : g.nodes[c].kind = "first"} = {g.nodes[n].first} /\ h.nodes[n] = g.nodes[n]
      BY <1>4, <2>1, <2>2 DEF OwnFirsts
    <3>2. \A c \in D : new[c].kind = "first" => new[c].parent # n
      BY <1>3 DEF Fit
    <3>3. {c \in Children(h, n) : h.nodes[c].kind = "first"} = {c \in Children(g, n) : g.nodes[c].kind = "first"}
      BY <1>4, <3>2 DEF Children
    <3>. QED
      BY <3>1, <3>3
  <2>3. ASSUME NEW n \in D, h.nodes[n].kind \in Containers
        PROVE  {c \in Children(h, n) : h.nodes[c].kind = "first"} = {h.nodes[n].first}
    <3>1. {c \in D : new[c].parent = n /\ new[c].kind = "first"} = {new[n].first}
      BY <1>4, <1>11, <2>3 DEF Fit
    <3>2. \A c \in On(g) : g.nodes[c].parent # n
      BY <1>1, <1>2 DEF Housed
    <3>3. {c \in Children(h, n) : h.nodes[c].kind = "first"} = {c \in D : new[c].parent = n /\ new[c].kind = "first"}
      BY <1>4, <3>2 DEF Children
    <3>. QED
      BY <1>4, <3>1, <3>3
  <2>. QED
    BY <1>4, <2>2, <2>3 DEF OwnFirsts
<1>12. ASSUME "child pasted" \notin M PROVE Marked(h)
  <2>1. Marked(g)
    BY <1>12 DEF Sound
  <2>. QED
    BY <1>4, <1>12, <2>1 DEF Marked, Fit
<1>13. ASSUME M \cap {"forced", "while open"} = {} PROVE Parented(h)
  <2>1. Parented(g)
    BY <1>13 DEF Sound
  <2>. QED
    BY <1>4, <1>13, <2>1 DEF Parented, Fit
<1>14. Acyclic(g) => Acyclic(h)
  BY <1>4, AcyclicLess
<1>15. Sound(h, j, M)
  BY <1>7, <1>8, <1>9, <1>10, <1>11, <1>12, <1>13, <1>14 DEF Sound
<1>. QED
  BY <1>15 DEF h

\* A graph with more edges, between its nodes, of one level, in no cycle.
LEMMA WithEdgesSound ==
    ASSUME NEW g, NEW k, NEW L, NEW M, Sound(g, k, L), L \subseteq M, NEW E,
           \A e \in E : /\ e \in Ids \X HandleNames \X Ids /\ {e[1], e[3]} \subseteq On(g)
                        /\ g.nodes[e[3]].kind \notin {"start", "first"},
           "two pasted" \notin M => \A e \in E : Level(g, e),
           "dropped" \notin M => Acyclic(WithEdges(g, E))
    PROVE  Sound(WithEdges(g, E), k, M)
<1> DEFINE h == WithEdges(g, E)
<1>1. h = [nodes |-> h.nodes, edges |-> h.edges] /\ h.nodes = g.nodes /\ h.edges = g.edges \cup E
  <2>1. g = [nodes |-> g.nodes, edges |-> g.edges]
    BY DEF Sound, IsGraph
  <2>2. h = [g EXCEPT !.edges = g.edges \cup E]
    BY <2>1 DEF WithEdges
  <2>. HIDE DEF h
  <2>. QED
    BY <2>1, <2>2
<1>2. "dropped" \notin M => Acyclic(h)
  OBVIOUS
<1>. HIDE DEF h
<1>3. IsGraph(h)
  BY <1>1 DEF Sound, IsGraph
<1>4. On(h) = On(g) /\ \A n : Children(h, n) = Children(g, n)
  BY <1>1 DEF On, Children
<1>5. OneStart(h)
  BY <1>1, <1>4 DEF Sound, OneStart
<1>6. Housed(h, k)
  BY <1>1, <1>4 DEF Sound, Housed
<1>7. OwnFirsts(g) => OwnFirsts(h)
  <2>1. \A n : {c \in Children(h, n) : h.nodes[c].kind = "first"} = {c \in Children(g, n) : g.nodes[c].kind = "first"}
    <3>1. ASSUME NEW n PROVE {c \in Children(h, n) : h.nodes[c].kind = "first"} = {c \in Children(g, n) : g.nodes[c].kind = "first"}
      <4>1. Children(h, n) = Children(g, n) /\ h.nodes = g.nodes
        BY <1>1, <1>4
      <4>. QED
        BY ONLY <4>1
    <3>. QED
      BY <3>1
  <2>. QED
    BY <1>1, <1>4, <2>1 DEF OwnFirsts
<1>8. (Marked(g) => Marked(h)) /\ (Parented(g) => Parented(h))
  BY <1>1, <1>4 DEF Marked, Parented
<1>9. Joined(h)
  BY <1>1, <1>4 DEF Sound, Joined
<1>10. "two pasted" \notin M => Levelled(h)
  <2>1. \A e : Level(h, e) <=> Level(g, e)
    BY <1>1 DEF Level
  <2>. QED
    BY <1>1, <2>1 DEF Sound, Levelled
<1>11. Sound(h, k, M)
  BY <1>2, <1>3, <1>5, <1>6, <1>7, <1>8, <1>9, <1>10 DEF Sound
<1>. QED
  BY <1>11 DEF h

\* Where a node of a kind may be added.
Place(g, k, M, kind, parent, mark) ==
  /\ kind \in AddKinds /\ k + IdsFor(kind) \in Ids
  /\ parent \in 0..k \cup {None} /\ mark \in Ids \cup {None}
  /\ kind \in Containers => parent = None
  /\ parent \in On(g) => g.nodes[parent].kind \in Containers
  /\ mark = None => parent = None
  /\ "child pasted" \notin M => mark = parent
  /\ M \cap {"forced", "while open"} = {} => parent \in On(g) \cup {None}

\* What h is to g when only nodes with ids above k are new.
Grew(g, h, k) ==
  /\ On(g) \subseteq On(h) /\ \A n \in On(g) : h.nodes[n] = g.nodes[n]
  /\ \A n \in On(h) \ On(g) : n > k

LEMMA GeneratedSound ==
    ASSUME NEW g, NEW k \in Nat, NEW L, NEW M, Sound(g, k, L), L \subseteq M,
           NEW kind, NEW parent, NEW mark, Place(g, k, M, kind, parent, mark)
    PROVE  LET h == WithNodes(g, Generated(k + 1, kind, parent, mark)) IN
           /\ Sound(h, k + IdsFor(kind), M) /\ h.edges = g.edges /\ Grew(g, h, k)
           /\ k + 1 \in On(h) /\ h.nodes[k + 1].parent = parent /\ h.nodes[k + 1].kind = kind
<1> DEFINE new == Generated(k + 1, kind, parent, mark)
           D == IF kind \in Containers THEN {k + 1, k + 2} ELSE {k + 1}
           j == k + IdsFor(kind)
           node == [kind |-> kind, parent |-> parent, mark |-> mark,
                    first |-> IF kind \in Containers THEN k + 2 ELSE None]
           box == [kind |-> "first", parent |-> k + 1, mark |-> None, first |-> None]
<1>1. /\ kind \in Kinds \ {"start", "first"} /\ j \in Ids /\ k <= j
      /\ D \subseteq (k + 1)..j /\ k + 1 \in D /\ (kind \in Containers => k + 2 \in Ids)
  <2>1. j \in Nat /\ j <= MaxId /\ MaxId \in Nat
    <3>1. j \in Ids
      BY DEF Place
    <3>. HIDE DEF j
    <3>. QED
      BY <3>1, BoundsAssumption DEF Ids
  <2>2. j = IF kind \in Containers THEN k + 2 ELSE k + 1
    BY DEF IdsFor
  <2>3. kind \in Kinds \ {"start", "first"} /\ j \in Ids
    BY KindAssumption DEF Place
  <2>. HIDE DEF j
  <2>4. D \subseteq (k + 1)..j
    BY <2>1, <2>2
  <2>5. k + 1 \in D /\ k <= j
    BY <2>1, <2>2
  <2>6. kind \in Containers => k + 2 \in Ids
    BY <2>2, <2>3
  <2>. QED
    BY <2>3, <2>4, <2>5, <2>6
<1>2. /\ 0..k \subseteq Ids /\ k + 1 \in Ids /\ None \notin Ids /\ k + 1 \notin 0..k /\ k + 2 \notin 0..k
      /\ On(g) \subseteq 0..k
  <2>1. j \in Nat /\ j <= MaxId /\ MaxId \in Nat /\ None \notin Ids
    <3>1. j \in Ids
      BY <1>1
    <3>. HIDE DEF j
    <3>. QED
      BY <3>1, BoundsAssumption, IdsFinite DEF Ids
  <2>2. k + 1 <= j
    BY DEF IdsFor
  <2>3. On(g) \subseteq 0..k
    BY DEF Sound, Housed
  <2>. HIDE DEF j
  <2>4. 0..k \subseteq Ids /\ k + 1 \in Ids
    BY <2>1, <2>2 DEF Ids
  <2>. QED
    BY <2>1, <2>3, <2>4
<1>3. new = [i \in D |-> IF i = k + 1 THEN node ELSE box]
  <2>1. CASE kind \in Containers
    <3>1. k + 1 + 1 = k + 2 /\ k + 1 # k + 2
      OBVIOUS
    <3>2. [Fresh(kind, parent, mark) EXCEPT !.first = k + 2] = node /\ Fresh("first", k + 1, None) = box
      BY <2>1 DEF Fresh
    <3>. QED
      BY <2>1, <3>1, <3>2 DEF Generated
  <2>2. CASE kind \notin Containers
    BY <2>2 DEF Generated, Fresh
  <2>. QED
    BY <2>1, <2>2
<1>4. node \in Node /\ (kind \in Containers => box \in Node)
  <2>1. 0..k \subseteq Ids /\ k + 1 \in Ids
    BY <1>2
  <2>2. parent \in Ids \cup {None} /\ mark \in Ids \cup {None}
    BY <2>1 DEF Place
  <2>3. (IF kind \in Containers THEN k + 2 ELSE None) \in Ids \cup {None}
    BY <1>1
  <2>4. "first" \in Kinds /\ kind \in Kinds
    BY <1>1 DEF Kinds
  <2>. QED
    BY <1>1, <2>1, <2>2, <2>3, <2>4 DEF Node
<1>5. new[k + 1] = node /\ (kind \in Containers => new[k + 2] = box) /\ new \in [D -> Node]
  <2>1. k + 2 # k + 1
    OBVIOUS
  <2>. HIDE DEF new, node, box
  <2>. QED
    BY <1>1, <1>3, <1>4, <2>1
<1>6. \A n \in D : n = k + 1 \/ (kind \in Containers /\ n = k + 2)
  OBVIOUS
<1>7. Fit(g, k, new, D, M)
  <2>1. /\ node.kind = kind /\ node.parent = parent /\ node.mark = mark
        /\ (kind \in Containers => node.first = k + 2)
        /\ box.kind = "first" /\ box.parent = k + 1
    OBVIOUS
  <2>2. "first" \notin Containers /\ k + 1 \notin On(g) /\ k + 1 # None /\ parent # k + 1
    <3>1. "first" \notin Containers
      BY DEF Containers
    <3>2. parent \in 0..k \cup {None}
      BY DEF Place
    <3>. QED
      BY <1>2, <3>1, <3>2
  <2>. HIDE DEF new, node, box
  <2>3. ASSUME NEW n \in D
        PROVE  /\ new[n].kind # "start"
               /\ new[n].kind \in Containers => new[n].parent = None
               /\ new[n].parent \in D \cup 0..k \cup {None}
               /\ new[n].parent \in D => new[new[n].parent].kind \in Containers
               /\ new[n].parent \in On(g) => g.nodes[new[n].parent].kind \in Containers
               /\ new[n].kind # "first" /\ new[n].mark = None => new[n].parent = None
               /\ new[n].kind = "first" => new[n].parent \in D
               /\ M \cap {"forced", "while open"} = {} => new[n].parent \in D \cup On(g) \cup {None}
               /\ "child pasted" \notin M /\ new[n].kind # "first" => new[n].mark = new[n].parent
    <3>1. CASE n = k + 1
      <4>1. parent \notin D
        <5>1. parent \in 0..k \cup {None}
          BY DEF Place
        <5>. QED
          BY <1>2, <1>1, <5>1
      <4>. QED
        BY <1>1, <1>5, <2>1, <3>1, <4>1 DEF Place
    <3>2. CASE kind \in Containers /\ n = k + 2
      BY <1>1, <1>5, <2>2, <2>1, <3>2 DEF Place
    <3>. QED
      BY <1>6, <3>1, <3>2
  <2>4. ASSUME NEW n \in D, new[n].kind \in Containers
        PROVE  {c \in D : new[c].parent = n /\ new[c].kind = "first"} = {new[n].first}
    <3>1. n = k + 1 /\ kind \in Containers
      BY <1>5, <1>6, <2>2, <2>1, <2>4
    <3>2. k + 2 \in D /\ new[k + 2].parent = k + 1 /\ new[k + 2].kind = "first" /\ new[k + 1].first = k + 2
      BY <1>5, <2>1, <3>1
    <3>3. new[k + 1].kind # "first"
      BY <1>1, <1>5, <2>1
    <3>. QED
      BY <1>6, <3>1, <3>2, <3>3
  <2>. QED
    BY <2>3, <2>4 DEF Fit
<1> DEFINE h == WithNodes(g, new)
<1>8. Sound(h, j, M)
  <2>. HIDE DEF new, D, h, j
  <2>. QED
    BY <1>1, <1>5, <1>7, WithNodesSound DEF h
<1>9. D \cap On(g) = {} /\ \A n \in D : n > k
  <2>1. \A n \in D : n > k
    BY <1>6
  <2>2. \A n \in On(g) : ~(n > k)
    BY <1>2
  <2>. QED
    BY <2>1, <2>2
<1>10. /\ h.edges = g.edges /\ On(h) = On(g) \cup D
       /\ \A n \in On(g) : h.nodes[n] = g.nodes[n]
       /\ \A n \in D : h.nodes[n] = new[n]
  <2>1. IsGraph(g)
    BY DEF Sound
  <2>2. new = [n \in D |-> new[n]]
    BY <1>5
  <2>. HIDE DEF new, D, h
  <2>3. /\ h = [nodes |-> h.nodes, edges |-> h.edges] /\ h.edges = g.edges
        /\ On(h) = On(g) \cup D /\ h.nodes = [n \in On(h) |-> h.nodes[n]]
        /\ \A n \in On(g) : h.nodes[n] = g.nodes[n]
        /\ \A n \in D : h.nodes[n] = new[n]
    BY <1>9, <2>1, <2>2, WithNodesIs DEF h
  <2>. QED
    BY <2>3
<1>11. node.kind = kind /\ node.parent = parent
  OBVIOUS
<1>. HIDE DEF new, D, h, node, box
<1>12. /\ Sound(h, j, M) /\ h.edges = g.edges /\ Grew(g, h, k)
       /\ k + 1 \in On(h) /\ h.nodes[k + 1].parent = parent /\ h.nodes[k + 1].kind = kind
  BY <1>1, <1>5, <1>8, <1>9, <1>10, <1>11 DEF Grew
<1>. QED
  BY <1>12 DEF h, new

\* An edge from outside of a set that no edge leaves into it closes no cycle.
LEMMA AcyclicInto ==
    ASSUME NEW g, Acyclic(g), NEW h, NEW d, h.edges \subseteq g.edges \cup {d},
           NEW C, d[1] \notin C, d[3] \in C, \A e \in g.edges : e[1] \in C => e[3] \in C
    PROVE  Acyclic(h)
<1>1. SUFFICES ASSUME NEW T \in SUBSET Ids, Looping(h, T) PROVE FALSE
  BY DEF Acyclic
<1>2. CASE d[1] \in T /\ d[3] \in T
  <2>1. ASSUME NEW n \in T \cap C PROVE \E e \in g.edges : e[1] = n /\ e[3] \in T \cap C
    <3>1. PICK e \in h.edges : e[1] = n /\ e[3] \in T
      BY <1>1 DEF Looping
    <3>2. e \in g.edges
      BY <2>1, <3>1
    <3>. QED
      BY <2>1, <3>1, <3>2
  <2>2. Looping(g, T \cap C)
    BY <1>2, <2>1 DEF Looping
  <2>3. T \cap C \in SUBSET Ids
    BY <1>1
  <2>. QED
    BY <2>2, <2>3 DEF Acyclic
<1>3. CASE ~(d[1] \in T /\ d[3] \in T)
  <2>1. Looping(g, T)
    BY <1>1, <1>3 DEF Looping
  <2>. QED
    BY <1>1, <2>1 DEF Acyclic
<1>. QED
  BY <1>2, <1>3

\* An edge that a node without edges of its own takes into two closes none.
LEMMA AcyclicBetween ==
    ASSUME NEW g, Acyclic(g), NEW e \in g.edges, NEW n, \A d \in g.edges : d[1] # n /\ d[3] # n,
           NEW h, \A d \in h.edges : \/ d \in g.edges
                                     \/ d[1] = e[1] /\ d[3] = n
                                     \/ d[1] = n /\ d[3] = e[3]
    PROVE  Acyclic(h)
<1>1. SUFFICES ASSUME NEW T \in SUBSET Ids, Looping(h, T) PROVE FALSE
  BY DEF Acyclic
<1>2. n \in T => e[3] \in T
  <2>1. ASSUME n \in T PROVE e[3] \in T
    <3>1. PICK d \in h.edges : d[1] = n /\ d[3] \in T
      BY <1>1, <2>1 DEF Looping
    <3>2. d[3] = e[3]
      <4>1. e[1] # n
        OBVIOUS
      <4>. QED
        BY <3>1, <4>1
    <3>. QED
      BY <3>1, <3>2
  <2>. QED
    BY <2>1
<1>3. ASSUME NEW m \in T \ {n} PROVE \E d \in g.edges : d[1] = m /\ d[3] \in T \ {n}
  <2>1. PICK d \in h.edges : d[1] = m /\ d[3] \in T
    BY <1>1, <1>3 DEF Looping
  <2>2. CASE d \in g.edges
    BY <2>1, <2>2
  <2>3. CASE d[1] = e[1] /\ d[3] = n
    <3>1. e[3] \in T \ {n}
      BY <1>2, <2>1, <2>3
    <3>. QED
      BY <2>1, <2>3, <3>1
  <2>4. CASE d[1] = n /\ d[3] = e[3]
    BY <1>3, <2>1, <2>4
  <2>. QED
    BY <2>2, <2>3, <2>4
<1>4. T \ {n} # {}
  <2>1. PICK m \in T : TRUE
    BY <1>1 DEF Looping
  <2>2. e[3] # n
    OBVIOUS
  <2>. QED
    BY <1>2, <2>1, <2>2
<1>5. Looping(g, T \ {n}) /\ T \ {n} \in SUBSET Ids
  BY <1>1, <1>3, <1>4 DEF Looping
<1>. QED
  BY <1>5 DEF Acyclic

-----------------------------------------------------------------------------
(* The inductive invariant.                                                 *)

\* Of the nodes that were, g has some, as they were.
Recalls(g, h, k) == \A n \in On(h) : n <= k => n \in On(g) /\ h.nodes[n] = g.nodes[n]

LEMMA KeptSound ==
    ASSUME IInv
    PROVE  /\ next \in Nat /\ canvas \in Kept /\ present \in Kept
           /\ \A g \in Kept : Sound(g, next, lapses) /\ On(g) \subseteq 0..next
<1>1. next \in Nat
  BY IdsFinite DEF IInv, Small
<1>2. canvas \in Kept /\ present \in Kept
  BY DEF Kept
<1>3. \A g \in Kept : Sound(g, next, lapses)
  BY DEF IInv, AllSound
<1>. QED
  BY <1>1, <1>2, <1>3 DEF Sound, Housed

LEMMA StepKeeps ==
    ASSUME IInv, NEW g, Kept' \subseteq Kept \cup {g},
           next' \in Ids, next <= next', lapses \subseteq lapses',
           Sound(g, next', lapses'), Recalls(canvas, g, next),
           clip' = clip, dialog' = dialog \/ dialog' = NoDialog
    PROVE  AllSound' /\ Alike' /\ ClipInv' /\ DialogInv'
<1>1. /\ next \in Nat /\ next' \in Nat /\ canvas \in Kept
      /\ \A h \in Kept : Sound(h, next, lapses) /\ On(h) \subseteq 0..next
  BY KeptSound, IdsFinite
<1>2. \A h \in Kept' : Sound(h, next', lapses')
  <2>1. ASSUME NEW h \in Kept PROVE Sound(h, next', lapses')
    BY <1>1, SoundMore
  <2>. QED
    BY <2>1
<1>3. \A h \in Kept : \A n \in On(g) \cap On(h) : n \in On(canvas) /\ n <= next /\ g.nodes[n] = h.nodes[n]
  <2>1. ASSUME NEW h \in Kept, NEW n \in On(g) \cap On(h)
        PROVE  n \in On(canvas) /\ n <= next /\ g.nodes[n] = h.nodes[n]
    <3>1. n <= next
      BY <1>1
    <3>2. n \in On(canvas) /\ g.nodes[n] = canvas.nodes[n]
      BY <3>1 DEF Recalls
    <3>3. canvas.nodes[n] = h.nodes[n]
      BY <1>1, <3>2 DEF IInv, Alike
    <3>. QED
      BY <3>1, <3>2, <3>3
  <2>. QED
    BY <2>1
<1>4. \A h, f \in Kept' : \A n \in On(h) \cap On(f) : h.nodes[n] = f.nodes[n]
  <2>1. ASSUME NEW h \in Kept', NEW f \in Kept', NEW n \in On(h) \cap On(f) PROVE h.nodes[n] = f.nodes[n]
    <3>1. CASE h \in Kept /\ f \in Kept
      BY <2>1, <3>1 DEF IInv, Alike
    <3>2. CASE h = g /\ f \in Kept
      BY <1>3, <2>1, <3>2
    <3>3. CASE h \in Kept /\ f = g
      BY <1>3, <2>1, <3>3
    <3>4. CASE h = g /\ f = g
      BY <3>4
    <3>. QED
      BY <3>1, <3>2, <3>3, <3>4
  <2>. QED
    BY <2>1
<1>5. 0..next \subseteq 0..next'
  BY <1>1
<1>6. ClipInv'
  <2>1. /\ clip \in [DOMAIN clip -> Node] /\ DOMAIN clip \subseteq 0..next
        /\ Cardinality(DOMAIN clip) > 1 => \A n \in DOMAIN clip : clip[n].mark = None
    BY DEF IInv, ClipInv
  <2>2. ASSUME NEW n \in DOMAIN clip
        PROVE  /\ clip[n].kind \notin {"start", "first"}
               /\ clip[n].mark = None => clip[n].parent = None
               /\ \A h \in Kept' : n \in On(h) => h.nodes[n] = clip[n]
    <3>1. /\ clip[n].kind \notin {"start", "first"}
          /\ clip[n].mark = None => clip[n].parent = None
          /\ \A h \in Kept : n \in On(h) => h.nodes[n] = clip[n]
      BY DEF IInv, ClipInv
    <3>2. n \in On(g) => n \in On(canvas) /\ g.nodes[n] = canvas.nodes[n]
      <4>1. n <= next
        BY <1>1, <2>1
      <4>. QED
        BY <4>1 DEF Recalls
    <3>3. n \in On(g) => g.nodes[n] = clip[n]
      BY <1>1, <3>1, <3>2
    <3>. QED
      BY <3>1, <3>3
  <2>3. DOMAIN clip \subseteq 0..next'
    BY <1>5, <2>1
  <2>. QED
    BY <2>1, <2>2, <2>3 DEF ClipInv
<1>7. DialogInv'
  <2>1. CASE dialog' = NoDialog
    BY <2>1 DEF DialogInv
  <2>2. CASE dialog' = dialog /\ dialog # NoDialog
    <3>1. /\ dialog = [of |-> dialog.of, children |-> dialog.children]
          /\ dialog.of \in 0..next /\ dialog.children \subseteq 0..next
          /\ \A h \in Kept :
               /\ dialog.of \in On(h) => h.nodes[dialog.of].kind \notin {"start", "first"}
               /\ \A n \in dialog.children \cap On(h) : h.nodes[n].parent = dialog.of
      BY <2>2 DEF IInv, DialogInv
    <3>2. \A n \in 0..next : n \in On(g) => n \in On(canvas) /\ g.nodes[n] = canvas.nodes[n]
      BY <1>1 DEF Recalls
    <3>3. /\ dialog.of \in On(g) => g.nodes[dialog.of].kind \notin {"start", "first"}
          /\ \A n \in dialog.children \cap On(g) : g.nodes[n].parent = dialog.of
      BY <1>1, <3>1, <3>2
    <3>4. \A h \in Kept' :
            /\ dialog.of \in On(h) => h.nodes[dialog.of].kind \notin {"start", "first"}
            /\ \A n \in dialog.children \cap On(h) : h.nodes[n].parent = dialog.of
      BY <3>1, <3>3
    <3>. QED
      BY <1>5, <2>2, <3>1, <3>4 DEF DialogInv
  <2>. QED
    BY <2>1, <2>2
<1>. QED
  BY <1>2, <1>4, <1>6, <1>7 DEF AllSound, Alike

\* What an operation does to the canvas: it becomes g, stays, or hangs.
Edits(g) == Becomes(g) \/ Stays \/ (hung' = TRUE /\ UNCHANGED <<canvas, pending, hist>>)
LapseNames == {"forced", "dropped", "child pasted", "two pasted", "while open"}

LEMMA EditKeeps ==
    ASSUME IInv, NEW g, Edits(g), hung' => hung \/ "dropped" \in lapses',
           next' \in Ids, next <= next', lapses \subseteq lapses', lapses' \subseteq LapseNames, ops' \in Nat,
           Sound(g, next', lapses'), Recalls(canvas, g, next),
           clip' = clip, dialog' = dialog \/ dialog' = NoDialog
    PROVE  IInv'
<1>1. Kept' \subseteq Kept \cup {g}
  BY DEF Kept, Edits, Becomes, Stays, hist
<1>2. AllSound' /\ Alike' /\ ClipInv' /\ DialogInv'
  BY <1>1, StepKeeps
<1>3. Small'
  BY DEF IInv, Small, Edits, Becomes, Stays, hist, LapseNames
<1>4. HistoryIsCanvas'
  BY DEF IInv, HistoryIsCanvas, Edits, Becomes, Stays, hist
<1>. QED
  BY <1>2, <1>3, <1>4 DEF IInv

LEMMA AcyclicMeans ==
    ASSUME NEW g, NEW S \in SUBSET Ids, Acyclic(g)
    PROVE  ~Cyclic(g, S)
BY CyclicMeans DEF Acyclic

LEMMA WalkedOn ==
    ASSUME NEW g, IsGraph(g), Joined(g), NEW p
    PROVE  Walked(g, p) \in SUBSET Ids
<1>1. LevelStart(g, p) \subseteq On(g)
  BY DEF LevelStart
<1>2. On(g) \subseteq Ids
  BY DEF On, IsGraph
<1>3. \A n : Beyond(g, n) \subseteq On(g)
  BY BeyondClosed
<1>. QED
  BY <1>1, <1>2, <1>3 DEF Walked

LEMMA CheckedEdits ==
    ASSUME NEW g, NEW p, Sound(g, next', lapses'), Checked(g, p)
    PROVE  Edits(g) /\ (hung' => hung \/ "dropped" \in lapses')
<1>1. Edits(g)
  BY DEF Checked, Edits
<1>2. ASSUME hung', ~hung PROVE "dropped" \in lapses'
  <2>1. Cyclic(g, Walked(g, p))
    BY <1>2 DEF Checked, Stays, Becomes, Endless
  <2>2. Walked(g, p) \in SUBSET Ids
    BY WalkedOn DEF Sound
  <2>3. ~Acyclic(g)
    BY <2>1, <2>2, AcyclicMeans
  <2>. QED
    BY <2>3 DEF Sound
<1>. QED
  BY <1>1, <1>2

LEMMA WithEdgesIs ==
    ASSUME NEW g, IsGraph(g), NEW E
    PROVE  /\ WithEdges(g, E).nodes = g.nodes /\ WithEdges(g, E).edges = g.edges \cup E
           /\ On(WithEdges(g, E)) = On(g)
<1>1. g = [nodes |-> g.nodes, edges |-> g.edges]
  BY DEF IsGraph
<1>2. WithEdges(g, E) = [g EXCEPT !.edges = g.edges \cup E]
  BY <1>1 DEF WithEdges
<1>. QED
  BY <1>1, <1>2 DEF On

\* The facts that the operations start from.
LEMMA CanvasSound ==
    ASSUME IInv
    PROVE  /\ next \in Nat /\ next \in Ids /\ Sound(canvas, next, lapses) /\ On(canvas) \subseteq 0..next
           /\ IsGraph(canvas) /\ Joined(canvas) /\ On(canvas) \subseteq Ids
           /\ lapses \subseteq LapseNames /\ (hung => "dropped" \in lapses)
<1>1. next \in Nat /\ Sound(canvas, next, lapses) /\ On(canvas) \subseteq 0..next
  BY KeptSound
<1>2. next \in Ids /\ lapses \subseteq LapseNames /\ (hung => "dropped" \in lapses)
  BY DEF IInv, Small, LapseNames
<1>. QED
  BY <1>1, <1>2 DEF Sound, IsGraph, On

LEMMA ConnectSound ==
    ASSUME IInv, NEW s \in On(canvas), NEW t \in On(canvas), NEW h \in HandleNames,
           NEW L, lapses \subseteq L, canvas.nodes[t].kind \notin {"start", "first"},
           canvas.nodes[s].parent = canvas.nodes[t].parent, s # t,
           "dropped" \notin L => s \notin Beyond(canvas, t)
    PROVE  /\ Sound(WithEdges(canvas, {<<s, h, t>>}), next, L)
           /\ Recalls(canvas, WithEdges(canvas, {<<s, h, t>>}), next)
<1> DEFINE e == <<s, h, t>>
           g == WithEdges(canvas, {e})
<1>1. /\ next \in Nat /\ Sound(canvas, next, lapses) /\ IsGraph(canvas) /\ Joined(canvas) /\ On(canvas) \subseteq Ids
  BY CanvasSound
<1>2. e[1] = s /\ e[3] = t /\ e \in Ids \X HandleNames \X Ids
  BY <1>1
<1>. HIDE DEF e
<1>3. g.nodes = canvas.nodes /\ g.edges = canvas.edges \cup {e} /\ On(g) = On(canvas)
  BY <1>1, WithEdgesIs
<1>. HIDE DEF g
<1>4. ASSUME "dropped" \notin L PROVE Acyclic(g)
  <2> DEFINE C == {t} \cup Beyond(canvas, t)
  <2>1. Acyclic(canvas)
    BY <1>1, <1>4 DEF Sound
  <2>2. s \notin C
    BY <1>4
  <2>3. \A d \in canvas.edges : d[1] \in C => d[3] \in C
    BY <1>1, BeyondClosed
  <2>4. t \in C
    OBVIOUS
  <2>. HIDE DEF C
  <2>. QED
    BY <1>2, <1>3, <2>1, <2>2, <2>3, <2>4, AcyclicInto
<1>5. Level(canvas, e)
  BY <1>2 DEF Level
<1>6. \A d \in {e} : /\ d \in Ids \X HandleNames \X Ids /\ {d[1], d[3]} \subseteq On(canvas)
                     /\ canvas.nodes[d[3]].kind \notin {"start", "first"}
  BY <1>2
<1>7. Sound(g, next, L)
  <2>1. "two pasted" \notin L => \A d \in {e} : Level(canvas, d)
    BY <1>5
  <2>2. "dropped" \notin L => Acyclic(WithEdges(canvas, {e}))
    BY <1>4 DEF g
  <2>. QED
    BY <1>1, <1>6, <2>1, <2>2, WithEdgesSound DEF g
<1>8. Recalls(canvas, g, next)
  BY <1>3 DEF Recalls
<1>. QED
  BY <1>7, <1>8 DEF g, e

LEMMA ConnectKeeps ==
    ASSUME IInv, NEW s \in On(canvas), NEW t \in On(canvas), NEW h \in HandleNames,
           Connect(s, h, t) \/ DropOnJoin(s, h, t), ops' \in Nat
    PROVE  IInv'
<1> DEFINE g == WithEdges(canvas, {<<s, h, t>>})
<1>1. s # t /\ canvas.nodes[s].parent = canvas.nodes[t].parent /\ Checked(g, canvas.nodes[t].parent)
  BY DEF Connect, DropOnJoin, NodeConnect
<1>2. clip' = clip /\ dialog' = dialog /\ next' = next
  BY DEF Connect, DropOnJoin
<1>3. /\ lapses \subseteq lapses' /\ lapses' \subseteq lapses \cup {"dropped"}
      /\ canvas.nodes[t].kind \notin {"start", "first"}
      /\ "dropped" \notin lapses' => s \notin Beyond(canvas, t)
  <2>1. CASE Connect(s, h, t)
    BY <2>1 DEF Connect, ValidConnection
  <2>2. CASE DropOnJoin(s, h, t)
    <3>1. lapses' = IF ValidConnection(s, h, t) THEN lapses ELSE lapses \cup {"dropped"}
      BY <2>2 DEF DropOnJoin
    <3>2. canvas.nodes[t].kind = "join"
      BY <2>2 DEF DropOnJoin
    <3>3. ValidConnection(s, h, t) => s \notin Beyond(canvas, t)
      BY DEF ValidConnection
    <3>. QED
      BY <3>1, <3>2, <3>3
  <2>. QED
    BY <2>1, <2>2
<1>4. next \in Nat /\ next \in Ids /\ lapses \subseteq LapseNames /\ lapses' \subseteq LapseNames /\ (hung => "dropped" \in lapses')
  BY <1>3, CanvasSound DEF LapseNames
<1>5. Sound(g, next', lapses') /\ Recalls(canvas, g, next)
  BY <1>1, <1>2, <1>3, ConnectSound
<1>. HIDE DEF g
<1>6. Edits(g) /\ (hung' => hung \/ "dropped" \in lapses')
  BY <1>1, <1>5, CheckedEdits
<1>. QED
  BY <1>2, <1>3, <1>4, <1>5, <1>6, EditKeeps

\* A node beside one of the canvas
LEMMA AddedNode ==
    ASSUME IInv, NEW p \in On(canvas), NEW kind \in AddKinds,
           Takes(kind), Allowed(kind, canvas.nodes[p].parent)
    PROVE  LET parent == canvas.nodes[p].parent
               h == WithNodes(canvas, NewNode(kind, parent)) IN
           /\ Sound(h, next', lapses) /\ h.edges = canvas.edges /\ Grew(canvas, h, next)
           /\ next + 1 \in On(h) /\ h.nodes[next + 1].parent = parent /\ h.nodes[next + 1].kind = kind
           /\ next' \in Ids /\ next <= next' /\ kind \notin {"start", "first"}
<1> DEFINE parent == canvas.nodes[p].parent
<1>1. next \in Nat /\ Sound(canvas, next, lapses) /\ On(canvas) \subseteq 0..next
  BY CanvasSound
<1>2. next' = next + IdsFor(kind) /\ next' <= MaxId /\ IdsFor(kind) \in {1, 2}
  BY DEF Takes, IdsFor
<1>3. next' \in Ids /\ next <= next'
  BY <1>1, <1>2, BoundsAssumption DEF Ids
<1>4. /\ parent \in 0..next \cup {None} /\ (parent \in On(canvas) => canvas.nodes[parent].kind \in Containers)
      /\ (lapses \cap {"forced", "while open"} = {} => parent \in On(canvas) \cup {None})
  BY <1>1 DEF Sound, Housed, Parented
<1>5. 0..next \subseteq Ids
  BY <1>1, CanvasSound, BoundsAssumption DEF Ids
<1>6. Place(canvas, next, lapses, kind, parent, parent)
  <2>1. kind \in Containers => parent = None
    BY DEF Allowed
  <2>2. next + IdsFor(kind) \in Ids
    BY <1>2, <1>3
  <2>. HIDE DEF parent
  <2>. QED
    BY <1>4, <1>5, <2>1, <2>2 DEF Place
<1> DEFINE h == WithNodes(canvas, NewNode(kind, parent))
<1>7. /\ Sound(h, next + IdsFor(kind), lapses) /\ h.edges = canvas.edges /\ Grew(canvas, h, next)
      /\ next + 1 \in On(h) /\ h.nodes[next + 1].parent = parent /\ h.nodes[next + 1].kind = kind
  <2>. HIDE DEF parent
  <2>. QED
    BY <1>1, <1>6, GeneratedSound DEF NewNode
<1>8. kind \notin {"start", "first"}
  BY KindAssumption
<1>. HIDE DEF h, parent
<1>9. /\ Sound(h, next', lapses) /\ h.edges = canvas.edges /\ Grew(canvas, h, next)
      /\ next + 1 \in On(h) /\ h.nodes[next + 1].parent = parent /\ h.nodes[next + 1].kind = kind
      /\ next' \in Ids /\ next <= next' /\ kind \notin {"start", "first"}
  BY <1>2, <1>3, <1>7, <1>8
<1>. QED
  BY <1>9 DEF h, parent

LEMMA GrewRecalls ==
    ASSUME NEW g, NEW h, NEW k \in Nat, On(h) \subseteq Nat, Grew(g, h, k), NEW f, f.nodes = h.nodes
    PROVE  Recalls(g, f, k)
BY DEF Grew, Recalls, On

LEMMA AddAfterKeeps ==
    ASSUME IInv, NEW p \in On(canvas), NEW h \in HandleNames, NEW kind \in AddKinds,
           AddAfter(p, h, kind), ops' \in Nat
    PROVE  IInv'
<1> DEFINE parent == canvas.nodes[p].parent
           g == WithNodes(canvas, NewNode(kind, parent))
           e == <<p, h, next + 1>>
           f == WithEdges(g, {e})
<1>1. Takes(kind) /\ Allowed(kind, parent) /\ Checked(f, parent)
  BY DEF AddAfter
<1>2. clip' = clip /\ dialog' = dialog /\ lapses' = lapses
  BY DEF AddAfter
<1>3. /\ next \in Nat /\ Sound(canvas, next, lapses) /\ On(canvas) \subseteq 0..next /\ Joined(canvas)
      /\ On(canvas) \subseteq Ids /\ lapses \subseteq LapseNames /\ (hung => "dropped" \in lapses)
  BY CanvasSound
<1>4. /\ Sound(g, next', lapses) /\ g.edges = canvas.edges /\ Grew(canvas, g, next)
      /\ next + 1 \in On(g) /\ g.nodes[next + 1].parent = parent /\ g.nodes[next + 1].kind = kind
      /\ next' \in Ids /\ next <= next' /\ kind \notin {"start", "first"}
  BY <1>1, AddedNode
<1>5. e[1] = p /\ e[3] = next + 1 /\ e[2] = h /\ e = <<p, h, next + 1>>
  OBVIOUS
<1>. HIDE DEF g, e
<1>6. IsGraph(g) /\ On(g) \subseteq Ids /\ p \in On(g) /\ g.nodes[p] = canvas.nodes[p]
  BY <1>4 DEF Sound, IsGraph, On, Grew
<1>7. f.nodes = g.nodes /\ f.edges = g.edges \cup {e} /\ On(f) = On(g)
  BY <1>6, WithEdgesIs
<1>8. Sound(f, next', lapses)
  <2>1. \A d \in {e} : /\ d \in Ids \X HandleNames \X Ids /\ {d[1], d[3]} \subseteq On(g)
                       /\ g.nodes[d[3]].kind \notin {"start", "first"}
    BY <1>4, <1>5, <1>6
  <2>2. Level(g, e)
    BY <1>4, <1>5, <1>6 DEF Level
  <2>3. ASSUME "dropped" \notin lapses PROVE Acyclic(f)
    <3>1. Acyclic(g)
      BY <1>4, <2>3 DEF Sound
    <3>2. p # next + 1 /\ \A d \in g.edges : d[1] # next + 1
      BY <1>3, <1>4 DEF Joined
    <3>. HIDE DEF f
    <3>. QED
      <4> DEFINE C == {next + 1}
      <4>1. e[1] \notin C /\ e[3] \in C /\ \A d \in g.edges : d[1] \in C => d[3] \in C
        BY <1>5, <3>2
      <4>. HIDE DEF C
      <4>. QED
        BY <1>7, <3>1, <4>1, AcyclicInto
  <2>4. "two pasted" \notin lapses => \A d \in {e} : Level(g, d)
    BY <2>2
  <2>5. "dropped" \notin lapses => Acyclic(WithEdges(g, {e}))
    BY <2>3
  <2>. HIDE DEF f
  <2>. QED
    BY <1>4, <2>1, <2>4, <2>5, WithEdgesSound DEF f
<1>. HIDE DEF f
<1>9. Recalls(canvas, f, next)
  <2>1. On(g) \subseteq Nat
    BY <1>6, IdsFinite
  <2>. QED
    BY <1>3, <1>4, <1>7, <2>1, GrewRecalls
<1>10. Edits(f) /\ (hung' => hung \/ "dropped" \in lapses')
  BY <1>1, <1>2, <1>8, CheckedEdits
<1>. QED
  BY <1>2, <1>3, <1>4, <1>8, <1>9, <1>10, EditKeeps

LEMMA AddBeforeKeeps ==
    ASSUME IInv, NEW n \in On(canvas), NEW kind \in AddKinds, AddBefore(n, kind), ops' \in Nat
    PROVE  IInv'
<1> DEFINE parent == canvas.nodes[n].parent
           g == WithNodes(canvas, NewNode(kind, parent))
           e == <<next + 1, "source", n>>
           f == WithEdges(g, {e})
<1>1. /\ Takes(kind) /\ Allowed(kind, parent) /\ canvas.nodes[n].kind \notin {"start", "first"}
      /\ \/ kind = "if" /\ Checked(g, None)
         \/ kind # "if" /\ Checked(f, parent)
  BY DEF AddBefore
<1>2. clip' = clip /\ dialog' = dialog /\ lapses' = lapses
  BY DEF AddBefore
<1>3. /\ next \in Nat /\ Sound(canvas, next, lapses) /\ On(canvas) \subseteq 0..next /\ Joined(canvas)
      /\ On(canvas) \subseteq Ids /\ lapses \subseteq LapseNames /\ (hung => "dropped" \in lapses)
  BY CanvasSound
<1>4. /\ Sound(g, next', lapses) /\ g.edges = canvas.edges /\ Grew(canvas, g, next)
      /\ next + 1 \in On(g) /\ g.nodes[next + 1].parent = parent /\ g.nodes[next + 1].kind = kind
      /\ next' \in Ids /\ next <= next' /\ kind \notin {"start", "first"}
  BY <1>1, AddedNode
<1>5. e[1] = next + 1 /\ e[3] = n /\ e[2] = "source" /\ e = <<next + 1, "source", n>>
  OBVIOUS
<1>. HIDE DEF g, e
<1>6. IsGraph(g) /\ On(g) \subseteq Ids /\ n \in On(g) /\ g.nodes[n] = canvas.nodes[n] /\ On(g) \subseteq Nat
  BY <1>4, IdsFinite DEF Sound, IsGraph, On, Grew
<1>7. f.nodes = g.nodes /\ f.edges = g.edges \cup {e} /\ On(f) = On(g)
  BY <1>6, WithEdgesIs
<1>8. Sound(f, next', lapses)
  <2>1. \A d \in {e} : /\ d \in Ids \X HandleNames \X Ids /\ {d[1], d[3]} \subseteq On(g)
                       /\ g.nodes[d[3]].kind \notin {"start", "first"}
    BY <1>1, <1>4, <1>5, <1>6 DEF HandleNames
  <2>2. Level(g, e)
    BY <1>4, <1>5, <1>6 DEF Level
  <2>3. ASSUME "dropped" \notin lapses PROVE Acyclic(f)
    <3>1. Acyclic(g)
      BY <1>4, <2>3 DEF Sound
    <3> DEFINE C == On(canvas)
    <3>2. e[1] \notin C /\ e[3] \in C /\ \A d \in g.edges : d[1] \in C => d[3] \in C
      BY <1>3, <1>4, <1>5 DEF Joined
    <3>. HIDE DEF f, C
    <3>. QED
      BY <1>7, <3>1, <3>2, AcyclicInto
  <2>4. "two pasted" \notin lapses => \A d \in {e} : Level(g, d)
    BY <2>2
  <2>5. "dropped" \notin lapses => Acyclic(WithEdges(g, {e}))
    BY <2>3
  <2>. HIDE DEF f
  <2>. QED
    BY <1>4, <2>1, <2>4, <2>5, WithEdgesSound DEF f
<1>. HIDE DEF f
<1>9. CASE kind = "if"
  <2>1. Edits(g) /\ (hung' => hung \/ "dropped" \in lapses')
    BY <1>1, <1>2, <1>4, <1>9, CheckedEdits
  <2>2. Recalls(canvas, g, next)
    BY <1>3, <1>4, <1>6, GrewRecalls
  <2>. QED
    BY <1>2, <1>3, <1>4, <2>1, <2>2, EditKeeps
<1>10. CASE kind # "if"
  <2>1. Edits(f) /\ (hung' => hung \/ "dropped" \in lapses')
    BY <1>1, <1>2, <1>8, <1>10, CheckedEdits
  <2>2. Recalls(canvas, f, next)
    BY <1>3, <1>4, <1>6, <1>7, GrewRecalls
  <2>. QED
    BY <1>2, <1>3, <1>4, <1>8, <2>1, <2>2, EditKeeps
<1>. QED
  BY <1>9, <1>10

LEMMA AddBetweenKeeps ==
    ASSUME IInv, NEW e \in canvas.edges, NEW kind \in AddKinds, AddBetween(e, kind), ops' \in Nat
    PROVE  IInv'
<1> DEFINE parent == canvas.nodes[e[1]].parent
           g == WithNodes(canvas, NewNode(kind, parent))
           into == <<e[1], e[2], next + 1>>
           from == <<next + 1, "source", e[3]>>
           Both == {into} \cup IF kind = "if" THEN {} ELSE {from}
<1>1. Takes(kind) /\ Allowed(kind, parent)
  BY DEF AddBetween
<1>2. PICK d \in canvas.edges : Becomes(WithEdges(WithoutEdges(g, {d}), Both))
  BY DEF AddBetween
<1>3. clip' = clip /\ dialog' = dialog /\ lapses' = lapses
  BY DEF AddBetween
<1>4. /\ next \in Nat /\ Sound(canvas, next, lapses) /\ On(canvas) \subseteq 0..next /\ Joined(canvas) /\ IsGraph(canvas)
      /\ On(canvas) \subseteq Ids /\ lapses \subseteq LapseNames /\ (hung => "dropped" \in lapses)
  BY CanvasSound
<1>5. /\ e[1] \in On(canvas) /\ e[3] \in On(canvas) /\ e[2] \in HandleNames
      /\ canvas.nodes[e[3]].kind \notin {"start", "first"}
  BY <1>4 DEF Joined, IsGraph
<1>6. /\ Sound(g, next', lapses) /\ g.edges = canvas.edges /\ Grew(canvas, g, next)
      /\ next + 1 \in On(g) /\ g.nodes[next + 1].parent = parent /\ g.nodes[next + 1].kind = kind
      /\ next' \in Ids /\ next <= next' /\ kind \notin {"start", "first"}
  BY <1>1, <1>5, AddedNode
<1>. HIDE DEF g
<1> DEFINE h == WithoutEdges(g, {d})
           f == WithEdges(h, Both)
<1>7. Sound(h, next', lapses) /\ h.nodes = g.nodes /\ h.edges = g.edges \ {d}
  <2>1. h = [nodes |-> g.nodes, edges |-> g.edges \ {d}]
    BY <1>6, WithoutEdgesIs DEF Sound
  <2>2. Sound(h, next', lapses)
    BY <1>6, WithoutEdgesSound
  <2>. QED
    BY <2>1, <2>2
<1>. HIDE DEF h
<1>8. /\ IsGraph(h) /\ On(h) = On(g) /\ On(h) \subseteq Ids /\ On(h) \subseteq Nat
      /\ e[1] \in On(h) /\ e[3] \in On(h) /\ next + 1 \in On(h)
      /\ h.nodes[e[1]] = canvas.nodes[e[1]] /\ h.nodes[e[3]] = canvas.nodes[e[3]]
      /\ h.nodes[next + 1] = g.nodes[next + 1]
  BY <1>5, <1>6, <1>7, IdsFinite DEF Sound, IsGraph, On, Grew
<1>9. /\ into[1] = e[1] /\ into[2] = e[2] /\ into[3] = next + 1 /\ into = <<into[1], into[2], into[3]>>
      /\ from[1] = next + 1 /\ from[2] = "source" /\ from[3] = e[3] /\ from = <<from[1], from[2], from[3]>>
      /\ Both \subseteq {into, from}
  OBVIOUS
<1>. HIDE DEF into, from, Both
<1>10. f.nodes = h.nodes /\ f.edges = h.edges \cup Both /\ On(f) = On(h)
  BY <1>8, WithEdgesIs
<1>11. Sound(f, next', lapses)
  <2>1. \A c \in Both : /\ c \in Ids \X HandleNames \X Ids /\ {c[1], c[3]} \subseteq On(h)
                     /\ h.nodes[c[3]].kind \notin {"start", "first"}
    BY <1>5, <1>6, <1>8, <1>9 DEF HandleNames
  <2>2. ASSUME "two pasted" \notin lapses PROVE \A c \in Both : Level(h, c)
    <3>1. Level(canvas, e)
      BY <1>4, <2>2 DEF Sound, Levelled
    <3>. QED
      BY <1>6, <1>8, <1>9, <3>1 DEF Level
  <2>3. ASSUME "dropped" \notin lapses PROVE Acyclic(f)
    <3>1. Acyclic(canvas)
      BY <1>4, <2>3 DEF Sound
    <3>2. \A c \in canvas.edges : c[1] # next + 1 /\ c[3] # next + 1
      BY <1>4 DEF Joined
    <3>3. \A c \in f.edges : \/ c \in canvas.edges
                             \/ c[1] = e[1] /\ c[3] = next + 1
                             \/ c[1] = next + 1 /\ c[3] = e[3]
      BY <1>6, <1>7, <1>9, <1>10
    <3>. HIDE DEF f
    <3>. QED
      BY <3>1, <3>2, <3>3, AcyclicBetween
  <2>4. "two pasted" \notin lapses => \A c \in Both : Level(h, c)
    BY <2>2
  <2>5. "dropped" \notin lapses => Acyclic(WithEdges(h, Both))
    BY <2>3
  <2>. HIDE DEF f
  <2>. QED
    BY <1>7, <2>1, <2>4, <2>5, WithEdgesSound DEF f
<1>12. Edits(f) /\ hung' = hung
  BY <1>2 DEF Edits, Becomes, h
<1>. HIDE DEF f
<1>13. Recalls(canvas, f, next)
  BY <1>4, <1>6, <1>7, <1>8, <1>10, GrewRecalls
<1>. QED
  BY <1>3, <1>4, <1>6, <1>11, <1>12, <1>13, EditKeeps

\* A node that is no container contains none.
LEMMA ChangeKeeps ==
    ASSUME IInv, NEW n \in On(canvas), NEW kind \in AddKinds, Change(n, kind), ops' \in Nat
    PROVE  IInv'
<1> DEFINE was == canvas.nodes[n]
           g == Without(canvas, {n})
           f == WithNodes(g, Generated(next + 1, kind, was.parent, was.mark))
<1>1. /\ Takes(kind) /\ Allowed(kind, was.parent) /\ Becomes(f)
      /\ was.kind \notin {"start", "first"} \cup Containers
  BY DEF Change
<1>2. clip' = clip /\ dialog' = dialog /\ lapses' = lapses
  BY DEF Change
<1>3. /\ next \in Nat /\ next \in Ids /\ Sound(canvas, next, lapses) /\ On(canvas) \subseteq 0..next /\ IsGraph(canvas)
      /\ lapses \subseteq LapseNames /\ (hung => "dropped" \in lapses)
  BY CanvasSound
<1>4. \A m \in On(canvas) : canvas.nodes[m].parent # n
  BY <1>1, <1>3 DEF Sound, Housed
<1>5. Sound(g, next, lapses)
  <2>1. \A m \in {n} \cap On(canvas) : canvas.nodes[m].kind # "start" /\ canvas.nodes[m].kind # "first"
    BY <1>1
  <2>2. \A m \in On(canvas) \ {n} : canvas.nodes[m].parent \notin {n}
    BY <1>4
  <2>. HIDE DEF g
  <2>. QED
    BY <1>3, <2>1, <2>2, WithoutSound DEF g
<1>6. On(g) = On(canvas) \ {n} /\ \A m \in On(g) : g.nodes[m] = canvas.nodes[m]
  BY DEF Without, On
<1>7. next' = next + IdsFor(kind) /\ next' <= MaxId /\ IdsFor(kind) \in {1, 2}
  BY <1>1 DEF Takes, IdsFor
<1>8. next' \in Ids /\ next <= next'
  BY <1>3, <1>7, BoundsAssumption DEF Ids
<1>9. Place(g, next, lapses, kind, was.parent, was.mark)
  <2>1. /\ was.parent \in 0..next \cup {None} /\ was.mark \in Ids \cup {None}
        /\ (was.parent \in On(canvas) => canvas.nodes[was.parent].kind \in Containers)
        /\ (was.mark = None => was.parent = None)
    <3>1. was \in Node
      BY <1>3 DEF IsGraph, On
    <3>2. was.mark \in Ids \cup {None}
      BY <3>1 DEF Node
    <3>. QED
      BY <1>1, <1>3, <3>2 DEF Sound, Housed
  <2>2. "child pasted" \notin lapses => was.mark = was.parent
    BY <1>1, <1>3 DEF Sound, Marked
  <2>3. was.parent # n
    BY <1>4
  <2>4. lapses \cap {"forced", "while open"} = {} => was.parent \in On(canvas) \cup {None}
    BY <1>3 DEF Sound, Parented
  <2>5. kind \in Containers => was.parent = None
    BY <1>1 DEF Allowed
  <2>6. next + IdsFor(kind) \in Ids
    BY <1>7, <1>8
  <2>. HIDE DEF was, g
  <2>. QED
    BY <1>6, <2>1, <2>2, <2>3, <2>4, <2>5, <2>6 DEF Place
<1>10. Sound(f, next', lapses) /\ Grew(g, f, next)
  <2>. HIDE DEF was, g
  <2>. QED
    BY <1>3, <1>5, <1>7, <1>9, GeneratedSound
<1>11. Recalls(canvas, f, next)
  <2>1. On(f) \subseteq Nat
    BY <1>10, IdsFinite DEF Sound, IsGraph, On
  <2>. HIDE DEF f, g
  <2>. QED
    BY <1>3, <1>6, <1>10, <2>1 DEF Grew, Recalls
<1>12. Edits(f) /\ hung' = hung
  BY <1>1 DEF Edits, Becomes
<1>. HIDE DEF f
<1>. QED
  BY <1>2, <1>3, <1>8, <1>10, <1>11, <1>12, EditKeeps

LEMMA EdgesLessKeeps ==
    ASSUME IInv, NEW E, Becomes(WithoutEdges(canvas, E)), ops' \in Nat,
           UNCHANGED <<clip, dialog, next, lapses>>
    PROVE  IInv'
<1> DEFINE g == WithoutEdges(canvas, E)
<1>1. /\ next \in Nat /\ next \in Ids /\ Sound(canvas, next, lapses) /\ IsGraph(canvas)
      /\ lapses \subseteq LapseNames /\ (hung => "dropped" \in lapses)
  BY CanvasSound
<1>2. Sound(g, next, lapses)
  BY <1>1, WithoutEdgesSound
<1>3. Recalls(canvas, g, next)
  <2>1. g = [nodes |-> canvas.nodes, edges |-> canvas.edges \ E]
    BY <1>1, WithoutEdgesIs
  <2>. QED
    BY <2>1 DEF Recalls, On
<1>4. Edits(g) /\ hung' = hung
  BY DEF Edits, Becomes
<1>. HIDE DEF g
<1>. QED
  BY <1>1, <1>2, <1>3, <1>4, EditKeeps

LEMMA DisconnectKeeps ==
    ASSUME IInv, ops' \in Nat,
           \/ \E n \in On(canvas) : Disconnect(n)
           \/ \E n \in On(canvas), h \in HandleNames : DeleteBranch(n, h)
           \/ \E e \in canvas.edges : EdgeDelete(e)
    PROVE  IInv'
<1>1. UNCHANGED <<clip, dialog, next, lapses>> /\ \E E : Becomes(WithoutEdges(canvas, E))
  BY DEF Disconnect, DeleteBranch, EdgeDelete
<1>. QED
  BY <1>1, EdgesLessKeeps

LEMMA NodesLessKeeps ==
    ASSUME IInv, NEW S, Becomes(Without(canvas, S)), ops' \in Nat,
           lapses \subseteq lapses', lapses' \subseteq LapseNames,
           \A n \in S \cap On(canvas) : canvas.nodes[n].kind # "start",
           \A n \in S \cap On(canvas) : canvas.nodes[n].kind = "first" => canvas.nodes[n].parent \notin On(canvas) \ S,
           lapses' \cap {"forced", "while open"} = {} => \A n \in On(canvas) \ S : canvas.nodes[n].parent \notin S,
           UNCHANGED <<clip, next>>, dialog' = dialog \/ dialog' = NoDialog
    PROVE  IInv'
<1> DEFINE g == Without(canvas, S)
<1>1. /\ next \in Nat /\ next \in Ids /\ Sound(canvas, next, lapses) /\ IsGraph(canvas)
      /\ lapses \subseteq LapseNames /\ (hung => "dropped" \in lapses)
  BY CanvasSound
<1>2. Sound(g, next, lapses')
  <2>. HIDE DEF g
  <2>. QED
    BY <1>1, WithoutSound DEF g
<1>3. Recalls(canvas, g, next)
  BY DEF Recalls, Without, On
<1>4. Edits(g) /\ hung' = hung
  BY DEF Edits, Becomes
<1>5. next' = next /\ clip' = clip /\ next' \in Ids /\ next <= next'
  <2>1. next' = next /\ clip' = clip
    OBVIOUS
  <2>2. next <= next
    BY ONLY <1>1
  <2>. QED
    BY ONLY <1>1, <2>1, <2>2
<1>6. Sound(g, next', lapses') /\ (hung' => hung \/ "dropped" \in lapses')
  BY <1>2, <1>4, <1>5
<1>. HIDE DEF g
<1>. QED
  BY <1>3, <1>4, <1>5, <1>6, EditKeeps

\* What is in containers contains nothing.
LEMMA Inner ==
    ASSUME IInv, NEW n \in On(canvas), canvas.nodes[n].parent # None
    PROVE  /\ canvas.nodes[n].kind # "start"
           /\ \A m \in On(canvas) : canvas.nodes[m].parent # n
<1>1. Sound(canvas, next, lapses)
  BY CanvasSound
<1>2. canvas.nodes[n].kind \notin Containers \cup {"start"}
  BY <1>1 DEF Sound, Housed
<1>. QED
  BY <1>1, <1>2 DEF Sound, Housed

\* S is the nodes T, none of which is a start node, with all their children.
Bundle(S, T) ==
  /\ T \subseteq S /\ None \notin T
  /\ \A n \in T \cap On(canvas) : canvas.nodes[n].kind \notin {"start", "first"}
  /\ \A n \in S \cap On(canvas) : n \in T \/ canvas.nodes[n].parent \in T
  /\ \A n \in T : Children(canvas, n) \subseteq S

LEMMA WithChildren ==
    ASSUME IInv, NEW S, NEW T, Bundle(S, T)
    PROVE  /\ \A n \in S \cap On(canvas) : canvas.nodes[n].kind # "start"
           /\ \A n \in S \cap On(canvas) : canvas.nodes[n].kind = "first" => canvas.nodes[n].parent \notin On(canvas) \ S
           /\ \A n \in On(canvas) \ S : canvas.nodes[n].parent \notin S \cap On(canvas)
<1>. USE DEF Bundle
<1>1. ASSUME NEW n \in S \cap On(canvas)
      PROVE  /\ canvas.nodes[n].kind # "start"
             /\ canvas.nodes[n].kind = "first" => canvas.nodes[n].parent \notin On(canvas) \ S
  <2>1. CASE n \in T
    BY <2>1
  <2>2. CASE n \notin T
    <3>1. canvas.nodes[n].parent \in T /\ canvas.nodes[n].parent # None
      BY <2>2
    <3>. QED
      BY <3>1, Inner
  <2>. QED
    BY <2>1, <2>2
<1>2. ASSUME NEW n \in On(canvas) \ S, canvas.nodes[n].parent \in S \cap On(canvas) PROVE FALSE
  <2> DEFINE p == canvas.nodes[n].parent
  <2>1. CASE p \in T
    BY <1>2, <2>1 DEF Children
  <2>2. CASE p \notin T
    <3>1. p \in On(canvas) /\ canvas.nodes[p].parent \in T /\ canvas.nodes[p].parent # None
      BY <1>2, <2>2
    <3>. HIDE DEF p
    <3>2. \A m \in On(canvas) : canvas.nodes[m].parent # p
      BY <3>1, Inner
    <3>. QED
      BY <3>2 DEF p
  <2>. QED
    BY <2>1, <2>2
<1>. QED
  BY <1>1, <1>2

LEMMA DeleteBundleKeeps ==
    ASSUME IInv, NEW S \in SUBSET On(canvas), DeleteBundle(S), ops' \in Nat
    PROVE  IInv'
<1> DEFINE R == S \cup UNION {Children(canvas, n) : n \in S}
<1>1. Becomes(Without(canvas, R)) /\ \A n \in S : canvas.nodes[n].kind \notin {"start", "first"}
  BY DEF DeleteBundle
<1>2. UNCHANGED <<clip, dialog, next, lapses>>
  BY DEF DeleteBundle
<1>3. None \notin S /\ lapses \subseteq LapseNames
  BY CanvasSound, IdsFinite
<1>4. R \subseteq On(canvas) /\ Bundle(R, S)
  BY <1>1, <1>3 DEF Children, Bundle
<1>. HIDE DEF R
<1>5. /\ \A n \in R \cap On(canvas) : canvas.nodes[n].kind # "start"
      /\ \A n \in R \cap On(canvas) : canvas.nodes[n].kind = "first" => canvas.nodes[n].parent \notin On(canvas) \ R
      /\ \A n \in On(canvas) \ R : canvas.nodes[n].parent \notin R \cap On(canvas)
  BY <1>4, WithChildren
<1>6. \A n \in On(canvas) \ R : canvas.nodes[n].parent \notin R
  BY <1>4, <1>5
<1>. QED
  BY <1>1, <1>2, <1>3, <1>5, <1>6, NodesLessKeeps

LEMMA DialogIs ==
    ASSUME IInv, dialog # NoDialog
    PROVE  /\ dialog = [of |-> dialog.of, children |-> dialog.children]
           /\ dialog.of # None /\ None \notin dialog.children
           /\ dialog.of \in On(canvas) => canvas.nodes[dialog.of].kind \notin {"start", "first"}
           /\ \A n \in dialog.children \cap On(canvas) : canvas.nodes[n].parent = dialog.of
<1>1. canvas \in Kept /\ next \in Nat /\ 0..next \subseteq Ids
  BY KeptSound, CanvasSound, BoundsAssumption DEF Ids
<1>. QED
  BY <1>1, IdsFinite DEF IInv, DialogInv

LEMMA ConfirmKeeps ==
    ASSUME IInv, Confirm
    PROVE  IInv'
<1> DEFINE of == dialog.of
           g == Without(canvas, dialog.children)
           kids == Children(g, of)
<1>1. /\ dialog # NoDialog /\ dialog' = NoDialog /\ UNCHANGED <<clip, next, ops>>
      /\ \/ of \notin On(canvas) /\ g = canvas /\ Stays /\ UNCHANGED lapses
         \/ of \notin On(canvas) /\ Becomes(g) /\ UNCHANGED lapses
         \/ of \in On(canvas) /\ Becomes(Without(g, {of})) /\ lapses' = lapses \cup {"while open"}
         \/ of \in On(canvas) /\ Becomes(Without(g, {of} \cup kids)) /\ UNCHANGED lapses
  BY DEF Confirm
<1>2. /\ of # None
      /\ of \in On(canvas) => canvas.nodes[of].kind \notin {"start", "first"}
      /\ \A n \in dialog.children \cap On(canvas) : canvas.nodes[n].parent = of
  BY <1>1, DialogIs
<1>3. /\ next \in Nat /\ next \in Ids /\ Sound(canvas, next, lapses) /\ IsGraph(canvas)
      /\ lapses \subseteq LapseNames /\ (hung => "dropped" \in lapses) /\ ops' \in Nat
  BY <1>1, CanvasSound DEF IInv, Small
<1>4. kids = Children(canvas, of) \ dialog.children
  BY DEF Without, Children, On
<1>5. \A n \in dialog.children \cap On(canvas) :
        canvas.nodes[n].kind # "start" /\ \A m \in On(canvas) : canvas.nodes[m].parent # n
  BY <1>2, Inner
<1>. HIDE DEF of, kids
<1>6. CASE of \notin On(canvas) /\ g = canvas /\ Stays /\ UNCHANGED lapses
  <2>1. Edits(canvas) /\ Recalls(canvas, canvas, next) /\ hung' = hung
    BY <1>6 DEF Edits, Recalls, Stays
  <2>2. next' = next /\ next' \in Ids /\ next <= next' /\ clip' = clip /\ dialog' = NoDialog
    <3>1. next' = next /\ clip' = clip /\ dialog' = NoDialog
      BY <1>1
    <3>2. next <= next
      BY <1>3
    <3>. QED
      BY ONLY <1>3, <3>1, <3>2
  <2>. QED
    BY <1>3, <1>6, <2>1, <2>2, EditKeeps
<1>7. CASE of \notin On(canvas) /\ Becomes(g) /\ UNCHANGED lapses
  <2> DEFINE S == dialog.children
  <2>1. /\ \A n \in S \cap On(canvas) : canvas.nodes[n].kind # "start"
        /\ \A n \in S \cap On(canvas) : canvas.nodes[n].parent \notin On(canvas) \ S
        /\ \A n \in On(canvas) \ S : canvas.nodes[n].parent \notin S \cap On(canvas)
    BY <1>2, <1>5, <1>7
  <2>2. ASSUME lapses' \cap {"forced", "while open"} = {} PROVE \A n \in On(canvas) \ S : canvas.nodes[n].parent \notin S
    <3>1. Parented(canvas)
      BY <1>3, <1>7, <2>2 DEF Sound
    <3>2. None \notin S
      BY <1>1, DialogIs
    <3>. HIDE DEF S
    <3>. QED
      BY <2>1, <3>1, <3>2 DEF Parented
  <2>. HIDE DEF S
  <2>3. Becomes(Without(canvas, S))
    BY <1>7 DEF S
  <2>. QED
    BY <1>1, <1>3, <1>7, <2>1, <2>2, <2>3, NodesLessKeeps
<1>8. CASE of \in On(canvas) /\ Becomes(Without(g, {of})) /\ lapses' = lapses \cup {"while open"}
  <2> DEFINE S == dialog.children \cup {of}
  <2>1. Without(g, {of}) = Without(canvas, S)
    BY WithoutTwice
  <2>2. Becomes(Without(canvas, S))
    BY <1>8, <2>1
  <2>3. /\ \A n \in S \cap On(canvas) : canvas.nodes[n].kind # "start"
        /\ \A n \in S \cap On(canvas) : canvas.nodes[n].kind = "first" => canvas.nodes[n].parent \notin On(canvas) \ S
    BY <1>2, <1>5, <1>8
  <2>4. lapses \subseteq lapses' /\ lapses' \subseteq LapseNames /\ lapses' \cap {"forced", "while open"} # {}
    BY <1>3, <1>8 DEF LapseNames
  <2>. HIDE DEF S
  <2>. QED
    BY <1>1, <1>3, <2>2, <2>3, <2>4, NodesLessKeeps
<1>9. CASE of \in On(canvas) /\ Becomes(Without(g, {of} \cup kids)) /\ UNCHANGED lapses
  <2> DEFINE S == dialog.children \cup ({of} \cup kids)
  <2>1. Without(g, {of} \cup kids) = Without(canvas, S)
    BY WithoutTwice
  <2>2. Becomes(Without(canvas, S))
    BY <1>9, <2>1
  <2>3. Bundle(S, {of})
    BY <1>2, <1>4, <1>9 DEF Children, Bundle
  <2>4. None \notin S
    <3>1. None \notin dialog.children /\ None \notin On(canvas)
      BY <1>1, IdsFinite, DialogIs, CanvasSound
    <3>. QED
      BY <1>2, <1>4, <3>1 DEF Children
  <2>. HIDE DEF S
  <2>5. /\ \A n \in S \cap On(canvas) : canvas.nodes[n].kind # "start"
        /\ \A n \in S \cap On(canvas) : canvas.nodes[n].kind = "first" => canvas.nodes[n].parent \notin On(canvas) \ S
        /\ \A n \in On(canvas) \ S : canvas.nodes[n].parent \notin S \cap On(canvas)
    BY <2>3, WithChildren
  <2>6. ASSUME lapses' \cap {"forced", "while open"} = {} PROVE \A n \in On(canvas) \ S : canvas.nodes[n].parent \notin S
    <3>1. Parented(canvas)
      BY <1>3, <1>9, <2>6 DEF Sound
    <3>. QED
      BY <2>4, <2>5, <3>1 DEF Parented
  <2>. QED
    BY <1>1, <1>3, <1>9, <2>2, <2>5, <2>6, NodesLessKeeps
<1>. QED
  BY <1>1, <1>6, <1>7, <1>8, <1>9

LEMMA SameFacts ==
    ASSUME IInv, next' = next, lapses' = lapses
    PROVE  /\ next' \in Ids /\ next <= next' /\ lapses \subseteq lapses' /\ lapses' \subseteq LapseNames
           /\ (hung' = hung => (hung' => hung \/ "dropped" \in lapses'))
<1>1. next \in Nat /\ next \in Ids /\ lapses \subseteq LapseNames
  BY CanvasSound
<1>2. next <= next
  BY ONLY <1>1
<1>. QED
  BY ONLY <1>1, <1>2, next' = next, lapses' = lapses

LEMMA DeleteKeeps ==
    ASSUME IInv, NEW n \in On(canvas), Delete(n), ops' \in Nat
    PROVE  IInv'
<1> DEFINE kids == Children(canvas, n)
<1>1. /\ canvas.nodes[n].kind \notin {"start", "first"} /\ UNCHANGED <<clip, next>>
      /\ \/ dialog = NoDialog /\ dialog' = [of |-> n, children |-> kids] /\ Stays /\ UNCHANGED lapses
         \/ Becomes(Without(canvas, {n})) /\ lapses' = lapses \cup {"forced"} /\ UNCHANGED dialog
         \/ Becomes(Without(canvas, {n} \cup kids)) /\ UNCHANGED <<dialog, lapses>>
  BY DEF Delete
<1>2. /\ next \in Nat /\ next \in Ids /\ Sound(canvas, next, lapses) /\ IsGraph(canvas) /\ canvas \in Kept
      /\ lapses \subseteq LapseNames /\ (hung => "dropped" \in lapses) /\ On(canvas) \subseteq 0..next
      /\ None \notin On(canvas)
  BY CanvasSound, KeptSound, IdsFinite
<1>3. CASE dialog = NoDialog /\ dialog' = [of |-> n, children |-> kids] /\ Stays /\ UNCHANGED lapses
  <2>1. Kept' = Kept /\ UNCHANGED <<canvas, past, present, future, clip, next, lapses, pending, hung>>
    BY <1>1, <1>3 DEF Stays, hist, Kept
  <2>2. AllSound' /\ Alike' /\ ClipInv'
    BY <2>1 DEF IInv, AllSound, Alike, ClipInv
  <2>3. Small' /\ HistoryIsCanvas'
    BY <2>1 DEF IInv, Small, HistoryIsCanvas
  <2>4. DialogInv'
    <3>1. dialog'.of = n /\ dialog'.children = kids /\ dialog' = [of |-> dialog'.of, children |-> dialog'.children]
      BY <1>3
    <3>2. n \in 0..next /\ kids \subseteq 0..next
      BY <1>2 DEF Children
    <3>3. ASSUME NEW g \in Kept
          PROVE  /\ n \in On(g) => g.nodes[n].kind \notin {"start", "first"}
                 /\ \A m \in kids \cap On(g) : g.nodes[m].parent = n
      BY <1>1, <1>2, <3>3 DEF IInv, Alike, Children
    <3>. HIDE DEF kids
    <3>. QED
      BY <2>1, <3>1, <3>2, <3>3 DEF DialogInv
  <2>. QED
    BY <2>2, <2>3, <2>4 DEF IInv
<1>4. CASE Becomes(Without(canvas, {n})) /\ lapses' = lapses \cup {"forced"} /\ UNCHANGED dialog
  <2>1. /\ \A m \in {n} \cap On(canvas) : canvas.nodes[m].kind # "start"
        /\ \A m \in {n} \cap On(canvas) : canvas.nodes[m].kind = "first" => canvas.nodes[m].parent \notin On(canvas) \ {n}
    BY <1>1
  <2>2. lapses \subseteq lapses' /\ lapses' \subseteq LapseNames /\ lapses' \cap {"forced", "while open"} # {}
    BY <1>2, <1>4 DEF LapseNames
  <2>. QED
    BY <1>1, <1>4, <2>1, <2>2, NodesLessKeeps
<1>5. CASE Becomes(Without(canvas, {n} \cup kids)) /\ UNCHANGED <<dialog, lapses>>
  <2> DEFINE S == {n} \cup kids
  <2>1. S \subseteq On(canvas) /\ Bundle(S, {n})
    BY <1>1, <1>2 DEF Children, Bundle
  <2>2. Becomes(Without(canvas, S))
    BY <1>5
  <2>. HIDE DEF S
  <2>3. /\ \A m \in S \cap On(canvas) : canvas.nodes[m].kind # "start"
        /\ \A m \in S \cap On(canvas) : canvas.nodes[m].kind = "first" => canvas.nodes[m].parent \notin On(canvas) \ S
        /\ \A m \in On(canvas) \ S : canvas.nodes[m].parent \notin S \cap On(canvas)
    BY <2>1, WithChildren
  <2>4. \A m \in On(canvas) \ S : canvas.nodes[m].parent \notin S
    BY <2>1, <2>3
  <2>. QED
    BY <1>1, <1>2, <1>5, <2>2, <2>3, <2>4, NodesLessKeeps
<1>. QED
  BY <1>1, <1>3, <1>4, <1>5

LEMMA CopyKeeps ==
    ASSUME IInv, NEW S \in SUBSET On(canvas), Copy(S), ops' \in Nat
    PROVE  IInv'
<1>1. /\ clip' = Copied(S) /\ Stays /\ UNCHANGED <<dialog, next, lapses>>
      /\ \A n \in S : canvas.nodes[n].kind \notin {"start", "first"}
      /\ Cardinality(S) > 1 => \A n \in S : canvas.nodes[n].mark = None
  BY DEF Copy, MayCopy
<1>2. /\ next \in Nat /\ Sound(canvas, next, lapses) /\ IsGraph(canvas) /\ canvas \in Kept
      /\ On(canvas) \subseteq 0..next
  BY CanvasSound, KeptSound
<1>3. Kept' = Kept /\ UNCHANGED <<canvas, past, present, future, dialog, next, lapses, pending, hung>>
  BY <1>1 DEF Stays, hist, Kept
<1>4. DOMAIN clip' = S /\ (\A n \in S : clip'[n] = canvas.nodes[n]) /\ clip' \in [S -> Node]
  BY <1>1, <1>2 DEF Copied, IsGraph, On
<1>5. ClipInv'
  <2>1. ASSUME NEW n \in S
        PROVE  /\ canvas.nodes[n].kind \notin {"start", "first"}
               /\ canvas.nodes[n].mark = None => canvas.nodes[n].parent = None
               /\ \A g \in Kept : n \in On(g) => g.nodes[n] = canvas.nodes[n]
    <3>1. canvas.nodes[n].kind # "first"
      BY <1>1
    <3>2. canvas.nodes[n].mark = None => canvas.nodes[n].parent = None
      BY <1>2, <3>1 DEF Sound, Housed
    <3>. QED
      BY <1>1, <1>2, <3>2 DEF IInv, Alike
  <2>2. DOMAIN clip' \subseteq 0..next'
    BY <1>2, <1>3, <1>4
  <2>. QED
    BY <1>1, <1>3, <1>4, <2>1, <2>2 DEF ClipInv
<1>6. AllSound' /\ Alike' /\ DialogInv'
  BY <1>3 DEF IInv, AllSound, Alike, DialogInv
<1>7. Small' /\ HistoryIsCanvas'
  BY <1>3 DEF IInv, Small, HistoryIsCanvas
<1>. QED
  BY <1>5, <1>6, <1>7 DEF IInv

LEMMA CancelKeeps ==
    ASSUME IInv, Cancel
    PROVE  IInv'
<1>1. Kept' = Kept /\ dialog' = NoDialog /\ UNCHANGED <<canvas, past, present, future, clip, next, lapses, pending, hung, ops>>
  BY DEF Cancel, hist, Kept
<1>2. AllSound' /\ Alike' /\ ClipInv'
  BY <1>1 DEF IInv, AllSound, Alike, ClipInv
<1>3. Small' /\ HistoryIsCanvas' /\ DialogInv'
  BY <1>1 DEF IInv, Small, HistoryIsCanvas, DialogInv
<1>. QED
  BY <1>2, <1>3 DEF IInv

\* The history keeps graphs.
LEMMA HistoryTypes ==
    ASSUME IInv
    PROVE  /\ canvas \in AnyGraph /\ present \in AnyGraph
           /\ past \in Seq(AnyGraph) /\ future \in Seq(AnyGraph)
<1>1. \A g \in Kept : IsGraph(g)
  BY KeptSound DEF Sound
<1>2. \A g : IsGraph(g) => g \in AnyGraph
  BY DEF IsGraph, AnyGraph
<1>3. canvas \in Kept /\ present \in Kept
  BY KeptSound
<1>. QED
  BY <1>1, <1>2, <1>3 DEF IInv, Small

LEMMA HistoryKeeps ==
    ASSUME IInv, Kept' \subseteq Kept, UNCHANGED <<clip, dialog, next, lapses, hung>>,
           past' \in Seq(AnyGraph), future' \in Seq(AnyGraph), pending' \in BOOLEAN, ops' \in Nat,
           HistoryIsCanvas'
    PROVE  IInv'
<1>1. /\ next' \in Ids /\ next <= next' /\ lapses \subseteq lapses' /\ next' = next /\ lapses' = lapses
      /\ clip' = clip /\ dialog' = dialog
  BY SameFacts
<1>2. Sound(canvas, next', lapses') /\ Recalls(canvas, canvas, next) /\ Kept' \subseteq Kept \cup {canvas}
  BY <1>1, CanvasSound DEF Recalls
<1>3. AllSound' /\ Alike' /\ ClipInv' /\ DialogInv'
  BY <1>1, <1>2, StepKeeps
<1>4. Small'
  BY <1>1 DEF IInv, Small
<1>. QED
  BY <1>3, <1>4 DEF IInv

LEMMA SaveKeeps ==
    ASSUME IInv, SaveHistory
    PROVE  IInv'
<1>1. /\ pending' = FALSE /\ UNCHANGED <<canvas, clip, dialog, next, ops, lapses, hung>>
      /\ \/ past' = Append(past, present) /\ present' = canvas /\ future' = << >>
         \/ canvas = present /\ UNCHANGED hist
  BY DEF SaveHistory
<1>2. canvas \in AnyGraph /\ present \in AnyGraph /\ past \in Seq(AnyGraph) /\ future \in Seq(AnyGraph)
  BY HistoryTypes
<1>3. ops' \in Nat
  BY <1>1 DEF IInv, Small
<1>4. CASE past' = Append(past, present) /\ present' = canvas /\ future' = << >>
  <2>1. past' \in Seq(AnyGraph) /\ future' \in Seq(AnyGraph)
    BY <1>2, <1>4
  <2>2. \A i \in DOMAIN past' : past'[i] = present \/ (i \in DOMAIN past /\ past'[i] = past[i])
    BY <1>2, <1>4
  <2>3. DOMAIN future' = {}
    BY <1>4
  <2>4. Kept' \subseteq Kept
    BY <1>1, <1>4, <2>2, <2>3 DEF Kept
  <2>5. HistoryIsCanvas'
    BY <1>1, <1>4 DEF HistoryIsCanvas
  <2>. QED
    BY <1>1, <1>3, <2>1, <2>4, <2>5, HistoryKeeps
<1>5. CASE canvas = present /\ UNCHANGED hist
  <2>1. Kept' = Kept /\ past' \in Seq(AnyGraph) /\ future' \in Seq(AnyGraph)
    BY <1>1, <1>2, <1>5 DEF hist, Kept
  <2>2. HistoryIsCanvas'
    BY <1>1, <1>5 DEF HistoryIsCanvas, hist
  <2>. QED
    BY <1>1, <1>3, <2>1, <2>2, HistoryKeeps
<1>. QED
  BY <1>1, <1>4, <1>5

LEMMA UndoKeeps ==
    ASSUME IInv, Undo, ops' \in Nat
    PROVE  IInv'
<1>1. /\ canvas' = present' /\ UNCHANGED <<clip, dialog, pending, next, lapses, hung>>
      /\ \/ UNCHANGED hist
         \/ /\ past # << >> /\ present' = Last(past) /\ past' = Front(past)
            /\ future' = <<present>> \o future
  BY DEF Undo
<1>2. canvas \in AnyGraph /\ present \in AnyGraph /\ past \in Seq(AnyGraph) /\ future \in Seq(AnyGraph)
  BY HistoryTypes
<1>3. HistoryIsCanvas' /\ pending' \in BOOLEAN
  BY <1>1 DEF HistoryIsCanvas, IInv, Small
<1>4. CASE UNCHANGED hist
  <2>1. Kept' \subseteq Kept /\ past' \in Seq(AnyGraph) /\ future' \in Seq(AnyGraph)
    BY <1>1, <1>2, <1>4 DEF hist, Kept
  <2>. QED
    BY <1>1, <1>3, <2>1, HistoryKeeps
<1>5. CASE past # << >> /\ present' = Last(past) /\ past' = Front(past) /\ future' = <<present>> \o future
  <2>1. /\ Len(past) \in Nat /\ Len(past) > 0 /\ present' = past[Len(past)] /\ Len(past) \in DOMAIN past
        /\ past' = SubSeq(past, 1, Len(past) - 1)
    BY <1>2, <1>5 DEF Last, Front
  <2>2. past' \in Seq(AnyGraph) /\ \A i \in DOMAIN past' : i \in DOMAIN past /\ past'[i] = past[i]
    BY <1>2, <2>1
  <2>3. future' \in Seq(AnyGraph) /\ \A i \in DOMAIN future' : \/ future'[i] = present
                                                              \/ \E j \in DOMAIN future : future'[i] = future[j]
    <3>1. <<present>> \in Seq(AnyGraph) /\ Len(<<present>>) = 1 /\ <<present>>[1] = present
      BY <1>2
    <3>2. future' \in Seq(AnyGraph)
      BY <1>2, <1>5, <3>1
    <3>3. ASSUME NEW i \in DOMAIN future' PROVE future'[i] = present \/ \E j \in DOMAIN future : future'[i] = future[j]
      <4>1. Len(future') = 1 + Len(future) /\ i \in 1..(1 + Len(future)) /\ Len(future) \in Nat
        BY <1>2, <1>5, <3>1
      <4>2. CASE i = 1
        BY <1>2, <1>5, <3>1, <4>2
      <4>3. CASE i # 1
        <5>1. i - 1 \in DOMAIN future /\ future'[i] = future[i - 1]
          BY <1>2, <1>5, <3>1, <4>1, <4>3
        <5>. QED
          BY <5>1
      <4>. QED
        BY <4>2, <4>3
    <3>. QED
      BY <3>2, <3>3
  <2>4. Kept' \subseteq Kept
    BY <1>1, <2>1, <2>2, <2>3 DEF Kept
  <2>. QED
    BY <1>1, <1>3, <2>2, <2>3, <2>4, HistoryKeeps
<1>. QED
  BY <1>1, <1>4, <1>5

LEMMA RedoKeeps ==
    ASSUME IInv, Redo, ops' \in Nat
    PROVE  IInv'
<1>1. /\ canvas' = present' /\ UNCHANGED <<clip, dialog, pending, next, lapses, hung>>
      /\ \/ UNCHANGED hist
         \/ /\ future # << >> /\ present' = Head(future) /\ future' = Tail(future)
            /\ past' = Append(past, present)
  BY DEF Redo
<1>2. canvas \in AnyGraph /\ present \in AnyGraph /\ past \in Seq(AnyGraph) /\ future \in Seq(AnyGraph)
  BY HistoryTypes
<1>3. HistoryIsCanvas' /\ pending' \in BOOLEAN
  BY <1>1 DEF HistoryIsCanvas, IInv, Small
<1>4. CASE UNCHANGED hist
  <2>1. Kept' \subseteq Kept /\ past' \in Seq(AnyGraph) /\ future' \in Seq(AnyGraph)
    BY <1>1, <1>2, <1>4 DEF hist, Kept
  <2>. QED
    BY <1>1, <1>3, <2>1, HistoryKeeps
<1>5. CASE future # << >> /\ present' = Head(future) /\ future' = Tail(future) /\ past' = Append(past, present)
  <2>1. 1 \in DOMAIN future /\ present' = future[1]
    BY <1>2, <1>5
  <2>2. future' \in Seq(AnyGraph) /\ \A i \in DOMAIN future' : i + 1 \in DOMAIN future /\ future'[i] = future[i + 1]
    BY <1>2, <1>5
  <2>3. past' \in Seq(AnyGraph) /\ \A i \in DOMAIN past' : past'[i] = present \/ (i \in DOMAIN past /\ past'[i] = past[i])
    BY <1>2, <1>5
  <2>4. Kept' \subseteq Kept
    BY <1>1, <2>1, <2>2, <2>3 DEF Kept
  <2>. QED
    BY <1>1, <1>3, <2>2, <2>3, <2>4, HistoryKeeps
<1>. QED
  BY <1>1, <1>4, <1>5

-----------------------------------------------------------------------------
(* Pasting.                                                                 *)

LEMMA Numbered ==
    ASSUME NEW k \in Nat, NEW S \in SUBSET Ids
    PROVE  /\ NumberedFrom(k, S) \in [S -> (k + 1)..(k + Cardinality(S))]
           /\ \A m, n \in S : NumberedFrom(k, S)[m] = NumberedFrom(k, S)[n] => m = n
<1> DEFINE upto(n) == {m \in S : m <= n}
<1>1. IsFiniteSet(S) /\ Cardinality(S) \in Nat /\ S \subseteq Nat
  BY IdsFinite
<1>2. \A n \in S : /\ upto(n) \in SUBSET Ids /\ IsFiniteSet(upto(n)) /\ Cardinality(upto(n)) \in Nat
                   /\ upto(n) \subseteq S /\ n \in upto(n)
  <2>1. ASSUME NEW n \in S PROVE upto(n) \subseteq S /\ n \in upto(n)
    <3>1. n <= n
      BY <1>1
    <3>. QED
      BY <3>1
  <2>. HIDE DEF upto
  <2>. QED
    BY <1>1, <2>1, IdsFinite
<1>3. \A n \in S : Cardinality(upto(n)) \in 1..Cardinality(S)
  <2>1. ASSUME NEW n \in S PROVE Cardinality(upto(n)) \in 1..Cardinality(S)
    <3>1. Cardinality(upto(n)) <= Cardinality(S)
      BY <1>1, <1>2, FS_Subset
    <3>2. Cardinality(upto(n)) # 0
      BY <1>2, FS_EmptySet
    <3>. HIDE DEF upto
    <3>. QED
      BY <1>1, <1>2, <3>1, <3>2
  <2>. QED
    BY <2>1
<1>4. ASSUME NEW m \in S, NEW n \in S, m < n PROVE Cardinality(upto(m)) # Cardinality(upto(n))
  <2>1. upto(m) \subseteq upto(n) /\ n \notin upto(m) /\ n \in upto(n)
    <3>1. m \in Nat /\ n \in Nat /\ ~(n <= m) /\ n <= n
      BY <1>1, <1>4
    <3>2. \A i \in S : i <= m => i <= n
      BY <1>1, <1>4, <3>1
    <3>. QED
      BY <3>1, <3>2
  <2>2. IsFiniteSet(upto(n))
    BY <1>2
  <2>. HIDE DEF upto
  <2>. QED
    BY <2>1, <2>2, FS_Subset
<1>5. \A n \in S : NumberedFrom(k, S)[n] = k + Cardinality(upto(n))
  BY DEF NumberedFrom
<1>6. NumberedFrom(k, S) = [n \in S |-> NumberedFrom(k, S)[n]]
  BY DEF NumberedFrom
<1>. HIDE DEF upto
<1>7. \A n \in S : NumberedFrom(k, S)[n] \in (k + 1)..(k + Cardinality(S))
  <2>1. ASSUME NEW n \in S PROVE k + Cardinality(upto(n)) \in (k + 1)..(k + Cardinality(S))
    BY <1>1, <1>2, <1>3
  <2>. QED
    BY <1>5, <2>1
<1>8. ASSUME NEW m \in S, NEW n \in S, NumberedFrom(k, S)[m] = NumberedFrom(k, S)[n] PROVE m = n
  <2>1. k + Cardinality(upto(m)) = k + Cardinality(upto(n))
    BY <1>5, <1>8
  <2>2. Cardinality(upto(m)) = Cardinality(upto(n))
    BY <1>2, <2>1
  <2>3. m \in Nat /\ n \in Nat /\ ~(m < n) /\ ~(n < m)
    BY <1>1, <1>4, <2>2
  <2>. QED
    BY <2>3
<1>. QED
  BY <1>6, <1>7, <1>8

Boxes == ClipOf(Containers)

\* How the copies are numbered.
Numbers(id, start, keeper, last, top, same) ==
  /\ last \in Nat /\ top \in Ids /\ next <= last /\ last <= top
  /\ id \in [Copies -> (next + 1)..last] /\ \A m, n \in Copies : id[m] = id[n] => m = n
  /\ start \in [Boxes -> (last + 1)..top] /\ (~same => \A m, n \in Boxes : start[m] = start[n] => m = n)
  /\ \A n \in Boxes : keeper[start[n]] \in Boxes /\ start[keeper[start[n]]] = start[n]

\* What is copied: nodes of the clipboard, and the children that containers of
\* it have on the canvas, which contain nothing and are not on the clipboard.
LEMMA CopiesAre ==
    ASSUME IInv
    PROVE  /\ Copies \in SUBSET Ids /\ Boxes \subseteq DOMAIN clip /\ DOMAIN clip \subseteq Copies
           /\ clip \in [DOMAIN clip -> Node]
           /\ \A n \in DOMAIN clip : /\ clip[n].kind \notin {"start", "first"}
                                     /\ n \in Boxes <=> clip[n].kind \in Containers
                                     /\ n \in On(canvas) => canvas.nodes[n] = clip[n]
           /\ \A n \in Copies \ DOMAIN clip : /\ n \in On(canvas) /\ canvas.nodes[n].parent \in Boxes
                                              /\ canvas.nodes[n].kind \notin {"start", "first"} \cup Containers
           /\ \A m \in Boxes : \A c \in Children(canvas, m) :
                c \notin DOMAIN clip /\ (canvas.nodes[c].kind # "first" => c \in Copies)
           /\ \A c \in Copies \cap On(canvas) : canvas.nodes[c].kind # "first"
<1>1. /\ clip \in [DOMAIN clip -> Node] /\ DOMAIN clip \subseteq 0..next
      /\ \A n \in DOMAIN clip :
           /\ clip[n].kind \notin {"start", "first"}
           /\ clip[n].mark = None => clip[n].parent = None
           /\ n \in On(canvas) => canvas.nodes[n] = clip[n]
      /\ Cardinality(DOMAIN clip) > 1 => \A n \in DOMAIN clip : clip[n].mark = None
  BY KeptSound DEF IInv, ClipInv
<1>2. /\ next \in Nat /\ Sound(canvas, next, lapses) /\ On(canvas) \subseteq 0..next /\ On(canvas) \subseteq Ids
      /\ 0..next \subseteq Ids
  BY CanvasSound, BoundsAssumption DEF Ids
<1>3. Boxes \subseteq DOMAIN clip /\ \A n \in DOMAIN clip : n \in Boxes <=> clip[n].kind \in Containers
  BY DEF Boxes, ClipOf
<1>4. Copies = DOMAIN clip \cup UNION {Old(n) : n \in Boxes}
  BY DEF Copies, Boxes
<1>5. ASSUME NEW m \in Boxes, NEW c \in Children(canvas, m)
      PROVE  /\ c \in On(canvas) /\ canvas.nodes[c].parent = m
             /\ canvas.nodes[c].kind \notin {"start"} \cup Containers /\ c \notin DOMAIN clip
  <2>1. c \in On(canvas) /\ canvas.nodes[c].parent = m /\ m # None /\ m \in DOMAIN clip
    BY <1>1, <1>2, <1>3, IdsFinite DEF Children
  <2>2. canvas.nodes[c].kind \notin {"start"} \cup Containers
    BY <1>2, <2>1 DEF Sound, Housed
  <2>3. ASSUME c \in DOMAIN clip PROVE FALSE
    <3>1. clip[c] = canvas.nodes[c] /\ clip[c].mark # None
      BY <1>1, <2>1, <2>3
    <3>2. ~(Cardinality(DOMAIN clip) > 1)
      BY <1>1, <2>3, <3>1
    <3>3. c # m
      BY <1>3, <2>1, <2>2, <3>1
    <3>4. IsFiniteSet(DOMAIN clip) /\ {c, m} \subseteq DOMAIN clip
      BY <1>1, <1>2, <2>1, <2>3, IdsFinite
    <3>5. Cardinality({c, m}) = 2 /\ Cardinality({c, m}) <= Cardinality(DOMAIN clip) /\ Cardinality(DOMAIN clip) \in Nat
      <4>1. IsFiniteSet({c}) /\ Cardinality({c}) = 1
        BY FS_Singleton
      <4>2. Cardinality({c} \cup {m}) = Cardinality({c}) + 1
        BY <3>3, <4>1, FS_AddElement
      <4>3. {c} \cup {m} = {c, m}
        OBVIOUS
      <4>. QED
        BY <3>4, <4>1, <4>2, <4>3, FS_Subset, FS_CardinalityType
    <3>. QED
      BY <3>2, <3>5
  <2>. QED
    BY <2>1, <2>2, <2>3
<1>6. \A m \in Boxes : \A c \in Old(m) : c \in Children(canvas, m) /\ canvas.nodes[c].kind # "first"
  BY DEF Old
<1>7. \A n \in Copies \ DOMAIN clip : /\ n \in On(canvas) /\ canvas.nodes[n].parent \in Boxes
                                      /\ canvas.nodes[n].kind \notin {"start", "first"} \cup Containers
  BY <1>4, <1>5, <1>6
<1>8. Copies \in SUBSET Ids
  BY <1>1, <1>2, <1>4, <1>7
<1>9. \A m \in Boxes : \A c \in Children(canvas, m) :
        c \notin DOMAIN clip /\ (canvas.nodes[c].kind # "first" => c \in Copies)
  BY <1>4, <1>5 DEF Old
<1>10. \A c \in Copies \cap On(canvas) : canvas.nodes[c].kind # "first"
  BY <1>1, <1>7
<1>. QED
  BY <1>1, <1>3, <1>4, <1>7, <1>8, <1>9, <1>10

\* What the copies are.
AsPasted(new, D, id, start, keeper, top) ==
  /\ new \in [D -> Node] /\ D \subseteq (next + 1)..top
  /\ \A n \in DOMAIN clip : /\ new[id[n]].kind = clip[n].kind /\ new[id[n]].parent = None
                            /\ new[id[n]].mark = clip[n].mark
                            /\ n \in Boxes => new[id[n]].first = start[n]
  /\ \A n \in Copies \ DOMAIN clip :
       /\ new[id[n]].kind = canvas.nodes[n].kind
       /\ new[id[n]].parent = id[canvas.nodes[n].parent]
       /\ new[id[n]].mark = id[canvas.nodes[n].parent]
  /\ \A n \in Boxes : new[start[n]].kind = "first" /\ new[start[n]].parent = id[keeper[start[n]]]

LEMMA PastedIs ==
    ASSUME IInv, NEW id, NEW start, NEW keeper, NEW last, NEW top, NEW same,
           Numbers(id, start, keeper, last, top, same)
    PROVE  AsPasted(Pasted(id, start, keeper), {id[n] : n \in Copies} \cup {start[n] : n \in Boxes},
                    id, start, keeper, top)
<1> DEFINE new == Pasted(id, start, keeper)
           D == {id[n] : n \in Copies} \cup {start[n] : n \in Boxes}
           One(n) == IF n \in DOMAIN clip
                     THEN [clip[n] EXCEPT !.parent = None,
                                          !.first = IF n \in DOMAIN start THEN start[n] ELSE None]
                     ELSE LET c == id[canvas.nodes[n].parent] IN [canvas.nodes[n] EXCEPT !.parent = c, !.mark = c]
<1>1. /\ Copies \in SUBSET Ids /\ Boxes \subseteq DOMAIN clip /\ DOMAIN clip \subseteq Copies
      /\ clip \in [DOMAIN clip -> Node]
      /\ \A n \in Copies \ DOMAIN clip : n \in On(canvas) /\ canvas.nodes[n].parent \in Boxes
  BY CopiesAre
<1>2. /\ last \in Nat /\ top \in Ids /\ next <= last /\ last <= top
      /\ id \in [Copies -> (next + 1)..last] /\ \A m, n \in Copies : id[m] = id[n] => m = n
      /\ start \in [Boxes -> (last + 1)..top]
      /\ \A n \in Boxes : keeper[start[n]] \in Boxes
  BY DEF Numbers
<1>3. next \in Nat /\ top \in Nat /\ IsGraph(canvas) /\ 0..top \subseteq Ids
  BY <1>2, CanvasSound, IdsFinite, BoundsAssumption DEF Ids
<1>4. /\ \A n \in Copies : id[n] \in (next + 1)..last /\ id[n] \in Ids /\ id[n] \in (next + 1)..top
      /\ \A n \in Boxes : start[n] \in (last + 1)..top /\ start[n] \in Ids /\ start[n] \in (next + 1)..top
      /\ \A n \in Boxes : \A m \in Copies : id[m] # start[n]
  <2>1. (next + 1)..last \subseteq 0..top /\ (last + 1)..top \subseteq 0..top
    BY <1>2, <1>3
  <2>2. (next + 1)..last \subseteq (next + 1)..top /\ (last + 1)..top \subseteq (next + 1)..top
    BY <1>2, <1>3
  <2>3. (next + 1)..last \cap (last + 1)..top = {}
    BY <1>2, <1>3
  <2>4. /\ \A n \in Copies : id[n] \in (next + 1)..last
        /\ \A n \in Boxes : start[n] \in (last + 1)..top
    BY <1>2
  <2>. QED
    BY <1>3, <2>1, <2>2, <2>3, <2>4
<1>5. /\ DOMAIN new = D /\ new = [i \in D |-> new[i]]
      /\ \A i \in D : new[i] = IF \E n \in Copies : id[n] = i THEN One(CHOOSE m \in Copies : id[m] = i)
                               ELSE Fresh("first", id[keeper[i]], None)
  <2>1. DOMAIN start = Boxes
    BY <1>2
  <2>. QED
    BY <2>1 DEF Pasted
<1>6. \A n \in DOMAIN clip :
        /\ One(n) \in Node /\ One(n).kind = clip[n].kind /\ One(n).parent = None
        /\ One(n).mark = clip[n].mark /\ (n \in Boxes => One(n).first = start[n])
  <2>1. ASSUME NEW n \in DOMAIN clip
        PROVE  /\ One(n) \in Node /\ One(n).kind = clip[n].kind /\ One(n).parent = None
               /\ One(n).mark = clip[n].mark /\ (n \in Boxes => One(n).first = start[n])
    <3> DEFINE f == IF n \in DOMAIN start THEN start[n] ELSE None
    <3>1. f \in Ids \cup {None} /\ (n \in Boxes => f = start[n])
      BY <1>2, <1>4
    <3>2. One(n) = [clip[n] EXCEPT !.parent = None, !.first = f]
      OBVIOUS
    <3>3. clip[n] \in Node
      BY <1>1
    <3>. HIDE DEF f, One
    <3>. QED
      BY <3>1, <3>2, <3>3 DEF Node
  <2>. QED
    BY <2>1
<1>7. \A n \in Copies \ DOMAIN clip :
        /\ One(n) \in Node /\ One(n).kind = canvas.nodes[n].kind
        /\ One(n).parent = id[canvas.nodes[n].parent] /\ One(n).mark = id[canvas.nodes[n].parent]
  <2>1. ASSUME NEW n \in Copies \ DOMAIN clip
        PROVE  /\ One(n) \in Node /\ One(n).kind = canvas.nodes[n].kind
               /\ One(n).parent = id[canvas.nodes[n].parent] /\ One(n).mark = id[canvas.nodes[n].parent]
    <3> DEFINE c == id[canvas.nodes[n].parent]
    <3>1. canvas.nodes[n] \in Node
      BY <1>1, <1>3 DEF IsGraph, On
    <3>2. c \in Ids
      BY <1>1, <1>4
    <3>3. One(n) = [canvas.nodes[n] EXCEPT !.parent = c, !.mark = c]
      OBVIOUS
    <3>. HIDE DEF c, One
    <3>4. One(n) \in Node /\ One(n).kind = canvas.nodes[n].kind /\ One(n).parent = c /\ One(n).mark = c
      BY <3>1, <3>2, <3>3 DEF Node
    <3>. QED
      BY <3>4 DEF c
  <2>. QED
    BY <2>1
<1>. HIDE DEF One
<1>8. \A n \in Copies : id[n] \in D /\ new[id[n]] = One(n)
  <2>1. ASSUME NEW n \in Copies PROVE id[n] \in D /\ new[id[n]] = One(n)
    <3>1. id[n] \in D /\ \E m \in Copies : id[m] = id[n]
      BY <2>1
    <3>2. (CHOOSE m \in Copies : id[m] = id[n]) = n
      BY <1>2, <2>1
    <3>. QED
      BY <1>5, <3>1, <3>2
  <2>. QED
    BY <2>1
<1>9. \A n \in Boxes : start[n] \in D /\ new[start[n]] = Fresh("first", id[keeper[start[n]]], None)
  BY <1>4, <1>5
<1>10. \A n \in Boxes : /\ new[start[n]] \in Node /\ new[start[n]].kind = "first"
                        /\ new[start[n]].parent = id[keeper[start[n]]]
  <2>1. \A n \in Boxes : id[keeper[start[n]]] \in Ids
    BY <1>1, <1>2, <1>4
  <2>2. "first" \in Kinds
    BY DEF Kinds
  <2>3. ASSUME NEW i \in Ids PROVE /\ Fresh("first", i, None) \in Node /\ Fresh("first", i, None).kind = "first"
                                 /\ Fresh("first", i, None).parent = i
    BY <2>2 DEF Fresh, Node
  <2>. QED
    BY <1>9, <2>1, <2>3
<1>11. \A i \in D : new[i] \in Node /\ i \in (next + 1)..top
  <2>1. ASSUME NEW i \in D PROVE (\E n \in Copies : i = id[n]) \/ (\E n \in Boxes : i = start[n])
    OBVIOUS
  <2>. HIDE DEF D, new
  <2>. QED
    BY <1>4, <1>6, <1>7, <1>8, <1>10, <2>1
<1>12. new \in [D -> Node] /\ D \subseteq (next + 1)..top
  <2>. HIDE DEF D, new
  <2>. QED
    BY <1>5, <1>11
<1>. HIDE DEF new, D
<1>13. AsPasted(new, D, id, start, keeper, top)
  BY <1>1, <1>6, <1>7, <1>8, <1>10, <1>12 DEF AsPasted
<1>. QED
  BY <1>13 DEF new, D

\* What pasting leaves wrong.
PasteLapses(same) ==
  lapses \cup (IF same THEN {"two pasted"} ELSE {})
         \cup (IF \E n \in DOMAIN clip : clip[n].mark # None THEN {"child pasted"} ELSE {})

LEMMA PastedNodesSound ==
    ASSUME IInv, NEW id, NEW start, NEW keeper, NEW last, NEW top, NEW same \in BOOLEAN,
           Numbers(id, start, keeper, last, top, same)
    PROVE  LET D == {id[n] : n \in Copies} \cup {start[n] : n \in Boxes}
               h == WithNodes(canvas, Pasted(id, start, keeper)) IN
           /\ Sound(h, top, PasteLapses(same)) /\ h.edges = canvas.edges
           /\ On(h) = On(canvas) \cup D /\ \A n \in On(canvas) : h.nodes[n] = canvas.nodes[n]
           /\ \A n \in D : h.nodes[n] = Pasted(id, start, keeper)[n] /\ n \in Nat /\ n > next
<1> DEFINE new == Pasted(id, start, keeper)
           D == {id[n] : n \in Copies} \cup {start[n] : n \in Boxes}
           L == PasteLapses(same)
           h == WithNodes(canvas, new)
<1>1. /\ Copies \in SUBSET Ids /\ Boxes \subseteq DOMAIN clip /\ DOMAIN clip \subseteq Copies
      /\ \A n \in DOMAIN clip : /\ clip[n].kind \notin {"start", "first"}
                                /\ n \in Boxes <=> clip[n].kind \in Containers
      /\ \A n \in Copies \ DOMAIN clip : /\ n \in On(canvas) /\ canvas.nodes[n].parent \in Boxes
                                         /\ canvas.nodes[n].kind \notin {"start", "first"} \cup Containers
  BY CopiesAre
<1>2. /\ last \in Nat /\ top \in Ids /\ next <= last /\ last <= top
      /\ id \in [Copies -> (next + 1)..last] /\ \A m, n \in Copies : id[m] = id[n] => m = n
      /\ start \in [Boxes -> (last + 1)..top] /\ (~same => \A m, n \in Boxes : start[m] = start[n] => m = n)
      /\ \A n \in Boxes : keeper[start[n]] \in Boxes /\ start[keeper[start[n]]] = start[n]
  BY DEF Numbers
<1>3. /\ next \in Nat /\ Sound(canvas, next, lapses) /\ IsGraph(canvas) /\ On(canvas) \subseteq 0..next
  BY CanvasSound
<1>4. /\ new \in [D -> Node] /\ D \subseteq (next + 1)..top
      /\ \A n \in DOMAIN clip : /\ new[id[n]].kind = clip[n].kind /\ new[id[n]].parent = None
                                /\ new[id[n]].mark = clip[n].mark
                                /\ n \in Boxes => new[id[n]].first = start[n]
      /\ \A n \in Copies \ DOMAIN clip :
           /\ new[id[n]].kind = canvas.nodes[n].kind
           /\ new[id[n]].parent = id[canvas.nodes[n].parent]
           /\ new[id[n]].mark = id[canvas.nodes[n].parent]
      /\ \A n \in Boxes : new[start[n]].kind = "first" /\ new[start[n]].parent = id[keeper[start[n]]]
  <2>1. AsPasted(new, D, id, start, keeper, top)
    <3>. HIDE DEF AsPasted
    <3>. QED
      BY PastedIs
  <2>. HIDE DEF new, D
  <2>. QED
    BY <2>1 DEF AsPasted
<1>5. \A n \in Boxes : n \in DOMAIN clip /\ id[n] \in D /\ new[id[n]].kind \in Containers /\ id[n] # None
  <2>1. \A n \in Boxes : n \in DOMAIN clip /\ n \in Copies /\ id[n] \in D /\ clip[n].kind \in Containers
    BY <1>1
  <2>2. \A n \in D : n \in Nat /\ n <= top /\ top # None /\ top \in Nat /\ top < None
    <3>1. top \in Nat /\ top < None
      <4>1. top \in 0..MaxId /\ MaxId \in Nat /\ MaxId < None
        BY <1>2, BoundsAssumption DEF Ids
      <4>. QED
        BY <4>1 DEF None
    <3>2. D \subseteq (next + 1)..top
      BY <1>4
    <3>. HIDE DEF D
    <3>. QED
      BY <1>3, <3>1, <3>2 DEF None
  <2>. HIDE DEF new, D
  <2>3. None \notin D
    BY <2>2, BoundsAssumption DEF None
  <2>. QED
    BY <1>4, <2>1, <2>3
<1>6. "first" \notin Containers /\ "start" \notin Containers /\ "start" # "first"
  BY DEF Containers
<1>7. \A i \in D : (\E n \in DOMAIN clip : i = id[n]) \/ (\E n \in Copies \ DOMAIN clip : i = id[n]) \/ (\E n \in Boxes : i = start[n])
  OBVIOUS
<1>8. \A n \in Boxes : start[n] \in D
  OBVIOUS
<1>. HIDE DEF new, D
<1>9. ASSUME NEW i \in D
      PROVE  /\ new[i].kind # "start"
             /\ new[i].kind \in Containers => new[i].parent = None
             /\ new[i].parent \in D \cup {None}
             /\ new[i].parent \in D => new[new[i].parent].kind \in Containers
             /\ new[i].kind # "first" /\ new[i].mark = None => new[i].parent = None
             /\ new[i].kind = "first" => new[i].parent \in D
             /\ "child pasted" \notin L /\ new[i].kind # "first" => new[i].mark = new[i].parent
  <2>1. ASSUME NEW n \in DOMAIN clip, i = id[n]
        PROVE  /\ new[i].kind \notin {"start", "first"} /\ new[i].parent = None
               /\ "child pasted" \notin L => new[i].mark = None
    <3>1. "child pasted" \notin L => \A m \in DOMAIN clip : clip[m].mark = None
      BY DEF PasteLapses
    <3>2. clip[n].kind \notin {"start", "first"}
      BY <1>1
    <3>3. new[i].kind = clip[n].kind /\ new[i].parent = None /\ new[i].mark = clip[n].mark
      BY <1>4, <2>1
    <3>. QED
      BY ONLY <3>1, <3>2, <3>3, <2>1
  <2>2. ASSUME NEW n \in Copies \ DOMAIN clip, i = id[n]
        PROVE  /\ new[i].kind \notin {"start", "first"} \cup Containers /\ new[i].mark = new[i].parent
               /\ new[i].parent \in D /\ new[i].parent # None /\ new[new[i].parent].kind \in Containers
    <3>1. canvas.nodes[n].parent \in Boxes /\ canvas.nodes[n].kind \notin {"start", "first"} \cup Containers
      BY <1>1
    <3>. QED
      BY <1>4, <1>5, <2>2, <3>1
  <2>3. ASSUME NEW n \in Boxes, i = start[n]
        PROVE  new[i].kind = "first" /\ new[i].parent \in D /\ new[new[i].parent].kind \in Containers
    <3>1. keeper[start[n]] \in Boxes
      BY <1>2
    <3>. QED
      BY <1>4, <1>5, <2>3, <3>1
  <2>4. None \notin D
    BY <1>2, <1>3, <1>4, BoundsAssumption DEF Ids, None
  <2>. QED
    BY <1>6, <1>7, <2>1, <2>2, <2>3, <2>4
<1>10. ASSUME "two pasted" \notin L, NEW i \in D, new[i].kind \in Containers
       PROVE  {c \in D : new[c].parent = i /\ new[c].kind = "first"} = {new[i].first}
  <2>1. ~same
    BY <1>10 DEF PasteLapses
  <2>2. PICK n \in Boxes : i = id[n]
    <3>1. \A n \in Copies \ DOMAIN clip : new[id[n]].kind \notin Containers
      BY <1>1, <1>4
    <3>2. \A n \in Boxes : new[start[n]].kind \notin Containers
      BY <1>4, <1>6
    <3>3. \A n \in DOMAIN clip : new[id[n]].kind \in Containers => n \in Boxes
      BY <1>1, <1>4
    <3>. QED
      BY <1>7, <1>10, <3>1, <3>2, <3>3
  <2>3. new[i].first = start[n] /\ start[n] \in D
    BY <1>4, <1>5, <1>8, <2>2
  <2>4. keeper[start[n]] = n
    BY <1>2, <2>1
  <2>5. new[start[n]].parent = i /\ new[start[n]].kind = "first"
    BY <1>4, <2>2, <2>4
  <2>6. ASSUME NEW c \in D, new[c].parent = i, new[c].kind = "first" PROVE c = start[n]
    <3>1. PICK m \in Boxes : c = start[m]
      <4>1. \A m \in DOMAIN clip : new[id[m]].kind # "first"
        BY <1>1, <1>4
      <4>2. \A m \in Copies \ DOMAIN clip : new[id[m]].kind # "first"
        BY <1>1, <1>4
      <4>. QED
        BY <1>7, <2>6, <4>1, <4>2
    <3>2. keeper[start[m]] = m
      BY <1>2, <2>1
    <3>3. id[m] = id[n]
      BY <1>4, <2>2, <2>6, <3>1, <3>2
    <3>4. m \in Copies /\ n \in Copies
      BY <1>1
    <3>. QED
      BY <1>2, <3>1, <3>3, <3>4
  <2>. QED
    BY <2>3, <2>5, <2>6
<1>11. D \cap On(canvas) = {} /\ \A i \in D : i \in Nat /\ i > next
  BY <1>2, <1>3, <1>4, IdsFinite
<1>12. Fit(canvas, next, new, D, L)
  <2>1. \A i \in D : new[i].parent \notin On(canvas)
    BY <1>3, <1>9, <1>11, IdsFinite, CanvasSound
  <2>. HIDE DEF L
  <2>. QED
    BY <1>9, <1>10, <2>1 DEF Fit
<1>13. Sound(h, top, L)
  <2>1. lapses \subseteq L /\ next <= top
    <3>1. top \in Nat
      BY <1>2, IdsFinite
    <3>2. next <= top
      BY ONLY <1>2, <1>3, <3>1
    <3>. QED
      BY <3>2 DEF PasteLapses
  <2>. HIDE DEF L, h
  <2>. QED
    BY <1>2, <1>3, <1>4, <1>12, <2>1, WithNodesSound DEF h
<1>14. /\ h.edges = canvas.edges /\ On(h) = On(canvas) \cup D
       /\ \A n \in On(canvas) : h.nodes[n] = canvas.nodes[n]
       /\ \A n \in D : h.nodes[n] = new[n]
  <2>1. new = [n \in D |-> new[n]]
    BY <1>4
  <2>2. /\ h = [nodes |-> h.nodes, edges |-> h.edges] /\ h.edges = canvas.edges
        /\ On(h) = On(canvas) \cup D /\ h.nodes = [n \in On(h) |-> h.nodes[n]]
        /\ \A n \in On(canvas) : h.nodes[n] = canvas.nodes[n]
        /\ \A n \in D : h.nodes[n] = new[n]
    BY <1>3, <1>11, <2>1, WithNodesIs
  <2>. QED
    BY <2>2
<1>. HIDE DEF h, L
<1>15. /\ Sound(h, top, L) /\ h.edges = canvas.edges
       /\ On(h) = On(canvas) \cup D /\ \A n \in On(canvas) : h.nodes[n] = canvas.nodes[n]
       /\ \A n \in D : h.nodes[n] = new[n] /\ n \in Nat /\ n > next
  BY <1>11, <1>13, <1>14
<1>. QED
  BY <1>15 DEF h, L, new, D

\* The copy of an edge joins the copies of its ends.
LEMMA PastedEdgesAre ==
    ASSUME IInv, NEW id, NEW start, NEW e \in PastedEdges(id, start)
    PROVE  \E d \in canvas.edges, c \in Boxes :
             /\ {d[1], d[3]} \subseteq Children(canvas, c) /\ d[3] \in Copies
             /\ e = <<e[1], d[2], id[d[3]]>> /\ e[3] = id[d[3]]
             /\ e[1] = IF d[1] \in Copies THEN id[d[1]] ELSE start[c]
<1> DEFINE new(n) == IF n \in Copies THEN id[n] ELSE start[canvas.nodes[n].parent]
<1>1. PICK d \in canvas.edges : /\ \E c \in ClipOf({"iter"}) : {d[1], d[3]} \subseteq Children(canvas, c)
                                /\ e = <<new(d[1]), d[2], new(d[3])>>
  BY DEF PastedEdges
<1>2. PICK c \in Boxes : {d[1], d[3]} \subseteq Children(canvas, c)
  BY <1>1 DEF Boxes, ClipOf, Containers
<1>3. canvas.nodes[d[1]].parent = c /\ canvas.nodes[d[3]].kind # "first"
  <2>1. Joined(canvas)
    BY CanvasSound
  <2>. QED
    BY <1>2, <2>1 DEF Children, Joined
<1>4. d[3] \in Copies
  BY <1>2, <1>3, CopiesAre
<1>5. new(d[3]) = id[d[3]] /\ new(d[1]) = IF d[1] \in Copies THEN id[d[1]] ELSE start[c]
  BY <1>3, <1>4
<1>. HIDE DEF new
<1>6. e = <<e[1], d[2], id[d[3]]>> /\ e[3] = id[d[3]] /\ e[1] = new(d[1])
  BY <1>1, <1>5
<1>. QED
  BY <1>2, <1>4, <1>5, <1>6

LEMMA PasteSound ==
    ASSUME IInv, NEW id, NEW start, NEW keeper, NEW last, NEW top, NEW same \in BOOLEAN,
           Numbers(id, start, keeper, last, top, same)
    PROVE  LET g == WithEdges(WithNodes(canvas, Pasted(id, start, keeper)), PastedEdges(id, start)) IN
           Sound(g, top, PasteLapses(same)) /\ Recalls(canvas, g, next)
<1> DEFINE new == Pasted(id, start, keeper)
           D == {id[n] : n \in Copies} \cup {start[n] : n \in Boxes}
           L == PasteLapses(same)
           h == WithNodes(canvas, new)
           Es == PastedEdges(id, start)
           g == WithEdges(h, Es)
<1>1. /\ Sound(h, top, L) /\ h.edges = canvas.edges
      /\ On(h) = On(canvas) \cup D /\ \A n \in On(canvas) : h.nodes[n] = canvas.nodes[n]
      /\ \A n \in D : h.nodes[n] = new[n] /\ n \in Nat /\ n > next
  <2>. HIDE DEF D, L, h, new
  <2>. QED
    BY PastedNodesSound DEF D, L, h, new
<1>2. AsPasted(new, D, id, start, keeper, top)
  <2>. HIDE DEF new, D
  <2>. QED
    BY PastedIs DEF new, D
<1>3. (\A n \in Copies : id[n] \in D) /\ (\A n \in Boxes : start[n] \in D)
  OBVIOUS
<1>4. /\ next \in Nat /\ Sound(canvas, next, lapses) /\ IsGraph(canvas) /\ On(canvas) \subseteq 0..next /\ Joined(canvas)
  BY CanvasSound
<1>5. /\ last \in Nat /\ top \in Ids /\ next <= last /\ last <= top
      /\ id \in [Copies -> (next + 1)..last] /\ \A m, n \in Copies : id[m] = id[n] => m = n
      /\ start \in [Boxes -> (last + 1)..top] /\ (~same => \A m, n \in Boxes : start[m] = start[n] => m = n)
      /\ \A n \in Boxes : keeper[start[n]] \in Boxes /\ start[keeper[start[n]]] = start[n]
  BY DEF Numbers
<1>6. \A e \in Es : \E d \in canvas.edges, c \in Boxes :
        /\ {d[1], d[3]} \subseteq Children(canvas, c) /\ d[3] \in Copies
        /\ e = <<e[1], d[2], id[d[3]]>> /\ e[3] = id[d[3]]
        /\ e[1] = IF d[1] \in Copies THEN id[d[1]] ELSE start[c]
  BY PastedEdgesAre
<1>. HIDE DEF D, new, Es
<1>7. IsGraph(h) /\ On(h) \subseteq Ids
  BY <1>1 DEF Sound, IsGraph, On
<1>8. \A n \in D : n \in On(h) /\ n \notin On(canvas)
  BY <1>1, <1>4
<1>. HIDE DEF h, L
<1>9. /\ \A n \in DOMAIN clip : new[id[n]].kind = clip[n].kind
      /\ \A n \in Copies \ DOMAIN clip : /\ new[id[n]].kind = canvas.nodes[n].kind
                                         /\ new[id[n]].parent = id[canvas.nodes[n].parent]
      /\ \A n \in Boxes : new[start[n]].parent = id[keeper[start[n]]]
  BY <1>2 DEF AsPasted
<1>10. \A e \in Es : /\ e \in Ids \X HandleNames \X Ids /\ {e[1], e[3]} \subseteq On(h)
                     /\ h.nodes[e[3]].kind \notin {"start", "first"}
                     /\ e[1] \in D /\ e[3] \in D
  <2>1. ASSUME NEW e \in Es
        PROVE  /\ e \in Ids \X HandleNames \X Ids /\ {e[1], e[3]} \subseteq On(h)
               /\ h.nodes[e[3]].kind \notin {"start", "first"}
               /\ e[1] \in D /\ e[3] \in D
    <3>1. PICK d \in canvas.edges : \E c \in Boxes :
            /\ {d[1], d[3]} \subseteq Children(canvas, c) /\ d[3] \in Copies
            /\ e = <<e[1], d[2], id[d[3]]>> /\ e[3] = id[d[3]]
            /\ e[1] = IF d[1] \in Copies THEN id[d[1]] ELSE start[c]
      BY <1>6
    <3>2. e[1] \in D /\ e[3] \in D
      BY <1>3, <3>1
    <3>3. {e[1], e[3]} \subseteq On(h) /\ e[1] \in Ids /\ e[3] \in Ids /\ d[2] \in HandleNames
      BY <1>4, <1>7, <1>8, <3>2 DEF IsGraph
    <3>4. e \in Ids \X HandleNames \X Ids
      BY <3>1, <3>3
    <3>5. h.nodes[e[3]].kind = new[id[d[3]]].kind
      BY <1>1, <3>1, <3>2
    <3>6. new[id[d[3]]].kind \notin {"start", "first"}
      BY <1>9, <3>1, CopiesAre
    <3>. QED
      BY <3>2, <3>3, <3>4, <3>5, <3>6
  <2>. QED
    BY <2>1
<1>11. ASSUME "two pasted" \notin L PROVE \A e \in Es : Level(h, e)
  <2>1. ~same
    BY <1>11 DEF L, PasteLapses
  <2>2. ASSUME NEW e \in Es PROVE Level(h, e)
    <3>1. PICK d \in canvas.edges, c \in Boxes :
            /\ {d[1], d[3]} \subseteq Children(canvas, c) /\ d[3] \in Copies
            /\ e = <<e[1], d[2], id[d[3]]>> /\ e[3] = id[d[3]]
            /\ e[1] = IF d[1] \in Copies THEN id[d[1]] ELSE start[c]
      <4>1. PICK d \in canvas.edges : \E c \in Boxes :
            /\ {d[1], d[3]} \subseteq Children(canvas, c) /\ d[3] \in Copies
            /\ e = <<e[1], d[2], id[d[3]]>> /\ e[3] = id[d[3]]
            /\ e[1] = IF d[1] \in Copies THEN id[d[1]] ELSE start[c]
        BY <1>6
      <4>. QED
        BY <4>1
    <3>2. \A n \in Children(canvas, c) \cap Copies : new[id[n]].parent = id[c]
      <4>1. \A n \in Children(canvas, c) : n \notin DOMAIN clip /\ canvas.nodes[n].parent = c
        BY CopiesAre DEF Children
      <4>. QED
        BY <1>9, <4>1
    <3>3. new[start[c]].parent = id[c]
      BY <1>5, <1>9, <2>1
    <3>4. new[e[1]].parent = id[c] /\ new[e[3]].parent = id[c]
      BY <3>1, <3>2, <3>3
    <3>5. h.nodes[e[1]] = new[e[1]] /\ h.nodes[e[3]] = new[e[3]]
      BY <1>1, <1>10
    <3>. QED
      BY <3>4, <3>5 DEF Level
  <2>. QED
    BY <2>2
<1>12. g.nodes = h.nodes /\ g.edges = h.edges \cup Es /\ On(g) = On(h)
  BY <1>7, WithEdgesIs
<1>. HIDE DEF g
<1>13. ASSUME "dropped" \notin L PROVE Acyclic(g)
  <2>1. Acyclic(canvas)
    BY <1>4, <1>13 DEF L, PasteLapses, Sound
  <2>2. SUFFICES ASSUME NEW T \in SUBSET Ids, Looping(g, T) PROVE FALSE
    BY DEF Acyclic
  <2>3. \A e \in g.edges : \/ e \in canvas.edges /\ e[1] \in On(canvas) /\ e[3] \in On(canvas)
                           \/ e \in Es /\ e[1] \notin On(canvas) /\ e[3] \notin On(canvas)
    BY <1>1, <1>4, <1>8, <1>10, <1>12 DEF Joined
  <2>4. CASE T \cap On(canvas) # {}
    <3>1. Looping(canvas, T \cap On(canvas))
      BY <2>2, <2>3, <2>4 DEF Looping
    <3>. QED
      BY <2>1, <2>2, <3>1 DEF Acyclic
  <2>5. CASE T \cap On(canvas) = {}
    <3> DEFINE R == {n \in Copies : id[n] \in T}
    <3>1. ASSUME NEW n \in T
          PROVE  \E d \in canvas.edges : /\ d[3] \in R
                                         /\ \A m \in Copies : id[m] = n => d[1] = m
      <4>1. PICK e \in g.edges : e[1] = n /\ e[3] \in T
        BY <2>2 DEF Looping
      <4>2. e \in Es
        BY <2>3, <2>5, <4>1
      <4>3. PICK d \in canvas.edges : \E c \in Boxes :
            /\ {d[1], d[3]} \subseteq Children(canvas, c) /\ d[3] \in Copies
            /\ e = <<e[1], d[2], id[d[3]]>> /\ e[3] = id[d[3]]
            /\ e[1] = IF d[1] \in Copies THEN id[d[1]] ELSE start[c]
        BY <1>6, <4>2
      <4>4. d[3] \in R
        BY <4>1, <4>3
      <4>5. ASSUME NEW m \in Copies, id[m] = n PROVE d[1] = m
        <5>1. CASE d[1] \in Copies
          BY <1>5, <4>1, <4>3, <4>5, <5>1
        <5>2. CASE d[1] \notin Copies
          <6>1. PICK c \in Boxes : n = start[c]
            BY <4>1, <4>3, <5>2
          <6>2. start[c] \in (last + 1)..top /\ id[m] \in (next + 1)..last
            BY <1>5
          <6>. QED
            BY <1>4, <1>5, <4>5, <6>1, <6>2
        <5>. QED
          BY <5>1, <5>2
      <4>. HIDE DEF R
      <4>. QED
        BY <4>4, <4>5
    <3>2. \A n \in R : \E d \in canvas.edges : d[1] = n /\ d[3] \in R
      <4>1. \A n \in R : id[n] \in T /\ n \in Copies
        OBVIOUS
      <4>. HIDE DEF R
      <4>. QED
        BY <3>1, <4>1
    <3>3. R # {}
      <4>1. PICK n \in T : TRUE
        BY <2>2 DEF Looping
      <4>. HIDE DEF R
      <4>. QED
        BY <3>1, <4>1
    <3>4. R \in SUBSET Ids
      BY CopiesAre
    <3>. HIDE DEF R
    <3>. QED
      BY <2>1, <3>2, <3>3, <3>4 DEF Acyclic, Looping
  <2>. QED
    BY <2>4, <2>5
<1>14. Sound(g, top, L)
  <2>1. \A e \in Es : /\ e \in Ids \X HandleNames \X Ids /\ {e[1], e[3]} \subseteq On(h)
                      /\ h.nodes[e[3]].kind \notin {"start", "first"}
    BY <1>10
  <2>2. "dropped" \notin L => Acyclic(WithEdges(h, Es))
    BY <1>13 DEF g
  <2>. QED
    BY <1>1, <1>11, <2>1, <2>2, WithEdgesSound DEF g
<1>15. Recalls(canvas, g, next)
  BY <1>1, <1>4, <1>12 DEF Recalls, On
<1>. QED
  BY <1>14, <1>15 DEF g, h, new, L, Es

LEMMA PasteKeeps ==
    ASSUME IInv, Paste, ops' \in Nat
    PROVE  IInv'
<1> DEFINE id == NumberedFrom(next, Copies)
           last == next + Cardinality(Copies)
           start(same) == IF same THEN [n \in Boxes |-> last + 1] ELSE NumberedFrom(last, Boxes)
           starts(same) == {start(same)[n] : n \in Boxes}
           graph(same, keeper) ==
             WithEdges(WithNodes(canvas, Pasted(id, start(same), keeper)), PastedEdges(id, start(same)))
<1>1. /\ UNCHANGED <<clip, dialog>>
      /\ \/ Stays /\ UNCHANGED <<next, lapses>>
         \/ \E same \in BOOLEAN :
              /\ same => Cardinality(Boxes) > 1
              /\ next' = last + Cardinality(starts(same)) /\ next' <= MaxId
              /\ \E keeper \in [starts(same) -> Boxes] :
                   (\A i \in starts(same) : start(same)[keeper[i]] = i) /\ Becomes(graph(same, keeper))
              /\ lapses' = PasteLapses(same)
  BY DEF Paste, Boxes, PasteLapses
<1>2. CASE Stays /\ UNCHANGED <<next, lapses>>
  <2>1. Edits(canvas) /\ Recalls(canvas, canvas, next) /\ hung' = hung /\ next' = next /\ lapses' = lapses
    BY <1>2 DEF Edits, Recalls, Stays
  <2>2. /\ next' \in Ids /\ next <= next' /\ lapses \subseteq lapses' /\ lapses' \subseteq LapseNames
        /\ (hung' => hung \/ "dropped" \in lapses')
    BY <2>1, SameFacts
  <2>3. Sound(canvas, next', lapses')
    BY <2>1, CanvasSound
  <2>. QED
    BY <1>1, <2>1, <2>2, <2>3, EditKeeps
<1>3. ASSUME NEW same \in BOOLEAN, same => Cardinality(Boxes) > 1,
             next' = last + Cardinality(starts(same)), next' <= MaxId,
             NEW keeper \in [starts(same) -> Boxes], \A i \in starts(same) : start(same)[keeper[i]] = i,
             Becomes(graph(same, keeper)), lapses' = PasteLapses(same)
      PROVE  IInv'
  <2> DEFINE st == start(same)
             g == graph(same, keeper)
  <2>1. next \in Nat /\ next \in Ids /\ lapses \subseteq LapseNames
    BY CanvasSound
  <2>2. /\ Copies \in SUBSET Ids /\ Boxes \in SUBSET Ids
        /\ IsFiniteSet(Boxes) /\ Cardinality(Copies) \in Nat /\ Cardinality(Boxes) \in Nat
    <3>1. Copies \in SUBSET Ids /\ Boxes \in SUBSET Ids
      BY CopiesAre
    <3>. QED
      BY <3>1, IdsFinite
  <2>3. last \in Nat /\ next <= last
    BY <2>1, <2>2
  <2>4. id \in [Copies -> (next + 1)..last] /\ \A m, n \in Copies : id[m] = id[n] => m = n
    BY <2>1, <2>2, Numbered
  <2>. HIDE DEF id, last
  <2>5. /\ st \in [Boxes -> (last + 1)..next'] /\ (~same => \A m, n \in Boxes : st[m] = st[n] => m = n)
        /\ next' \in Nat /\ last <= next'
    <3>1. CASE same
      <4>1. Boxes # {}
        BY <1>3, <3>1, FS_EmptySet
      <4>2. st = [n \in Boxes |-> last + 1]
        BY <3>1
      <4>3. starts(same) = {last + 1}
        BY <3>1, <4>1
      <4>4. next' = last + 1
        BY <1>3, <4>3, FS_Singleton
      <4>. HIDE DEF st, start
      <4>. QED
        BY <2>3, <3>1, <4>2, <4>4
    <3>2. CASE ~same
      <4>1. st = NumberedFrom(last, Boxes)
        BY <3>2
      <4>. HIDE DEF st, start, starts
      <4>2. /\ NumberedFrom(last, Boxes) \in [Boxes -> (last + 1)..(last + Cardinality(Boxes))]
            /\ \A m, n \in Boxes : NumberedFrom(last, Boxes)[m] = NumberedFrom(last, Boxes)[n] => m = n
        <5>1. last \in Nat /\ Boxes \in SUBSET Ids
          BY <2>2, <2>3
        <5>. QED
          BY ONLY <5>1, Numbered
      <4>3. /\ st \in [Boxes -> (last + 1)..(last + Cardinality(Boxes))]
            /\ \A m, n \in Boxes : st[m] = st[n] => m = n
        BY ONLY <4>1, <4>2
      <4>4. starts(same) = {st[n] : n \in Boxes}
        BY DEF st, start, starts
      <4>5. st \in [Boxes -> starts(same)]
        BY <4>3, <4>4
      <4>6. st \in Bijection(Boxes, starts(same))
        BY <4>3, <4>4, <4>5 DEF Bijection, Injection, Surjection, IsInjective
      <4>7. Cardinality(starts(same)) = Cardinality(Boxes)
        BY <2>2, <4>6, FS_Bijection DEF ExistsBijection
      <4>8. next' = last + Cardinality(Boxes)
        BY <1>3, <4>7
      <4>. QED
        BY <2>2, <2>3, <3>2, <4>3, <4>8
    <3>. QED
      BY <3>1, <3>2
  <2>6. next' \in Ids
    BY <1>3, <2>5, BoundsAssumption DEF Ids
  <2>7. \A n \in Boxes : keeper[st[n]] \in Boxes /\ st[keeper[st[n]]] = st[n]
    <3>1. \A n \in Boxes : st[n] \in starts(same)
      OBVIOUS
    <3>. HIDE DEF start, starts
    <3>. QED
      BY <1>3, <3>1
  <2>8. g = WithEdges(WithNodes(canvas, Pasted(id, st, keeper)), PastedEdges(id, st))
    OBVIOUS
  <2>9. Becomes(g)
    BY <1>3
  <2>. HIDE DEF st, g
  <2>10. Numbers(id, st, keeper, last, next', same)
    BY <2>3, <2>4, <2>5, <2>6, <2>7 DEF Numbers
  <2>11. Sound(g, next', PasteLapses(same)) /\ Recalls(canvas, g, next)
    BY <2>8, <2>10, PasteSound
  <2>12. lapses \subseteq lapses' /\ lapses' \subseteq LapseNames
    BY <1>3, <2>1 DEF PasteLapses, LapseNames
  <2>13. Edits(g) /\ hung' = hung
    BY <2>9 DEF Edits, Becomes
  <2>14. next <= next'
    BY <2>1, <2>3, <2>5
  <2>15. Sound(g, next', lapses') /\ (hung' => hung \/ "dropped" \in lapses') /\ clip' = clip /\ dialog' = dialog
    BY <1>1, <1>3, <2>11, <2>13
  <2>. QED
    BY <2>6, <2>11, <2>12, <2>13, <2>14, <2>15, EditKeeps
<1>. HIDE DEF id, last, start, starts, graph
<1>. QED
  BY <1>1, <1>2, <1>3

-----------------------------------------------------------------------------
(* The theorems.                                                            *)

LEMMA TemplateSound ==
    ASSUME NEW g, WellFormed(g), NEW k \in Ids, \A n \in On(g) : n <= k
    PROVE  Sound(g, k, {})
<1>1. /\ IsGraph(g) /\ OneStart(g) /\ OwnFirsts(g) /\ Marked(g) /\ Joined(g) /\ Levelled(g)
      /\ \A n \in On(g) : LET p == g.nodes[n].parent IN
           /\ g.nodes[n].kind \in Containers \cup {"start"} => p = None
           /\ p # None => p \in On(g) /\ g.nodes[p].kind \in Containers
      /\ ~Cyclic(g, On(g))
  BY DEF WellFormed, Joined, Levelled
<1>2. On(g) \subseteq Ids /\ None \notin On(g) /\ On(g) \subseteq 0..k
  <2>1. On(g) \subseteq Ids
    BY <1>1 DEF IsGraph, On
  <2>2. Ids \subseteq Nat /\ None \notin Ids
    BY IdsFinite
  <2>3. ASSUME NEW n \in On(g) PROVE n \in 0..k
    <3>1. n \in Nat /\ k \in Nat /\ n <= k
      BY <2>1, <2>2
    <3>. QED
      BY ONLY <3>1
  <2>. QED
    BY <2>1, <2>2, <2>3
<1>3. Parented(g)
  BY <1>1 DEF Parented
<1>4. Housed(g, k)
  <2>1. ASSUME NEW n \in On(g)
        PROVE  /\ g.nodes[n].parent \in On(g) \cup {None}
               /\ g.nodes[n].kind \in Containers \cup {"start"} => g.nodes[n].parent = None
               /\ g.nodes[n].parent \in On(g) => g.nodes[g.nodes[n].parent].kind \in Containers
               /\ g.nodes[n].kind # "first" /\ g.nodes[n].mark = None => g.nodes[n].parent = None
    BY <1>1, <1>2 DEF Marked
  <2>. QED
    BY <1>2, <2>1 DEF Housed
<1>5. ASSUME NEW T \in SUBSET Ids, Looping(g, T) PROVE FALSE
  <2>1. T \subseteq On(g)
    BY <1>1, <1>5 DEF Looping, Joined
  <2>2. Cyclic(g, On(g))
    BY <1>2, <1>5, <2>1, CyclicMeans
  <2>. QED
    BY <1>1, <2>2
<1>6. Acyclic(g)
  BY <1>5 DEF Acyclic
<1>. QED
  BY <1>1, <1>3, <1>4, <1>6 DEF Sound

LEMMA Largest ==
    ASSUME NEW S \in SUBSET Ids, S # {}
    PROVE  \E i \in S : \A j \in S : j <= i
<1> DEFINE Below == {MaxId - i : i \in S}
<1>1. MaxId \in Nat /\ \A i \in S : i \in Nat /\ i <= MaxId
  BY BoundsAssumption DEF Ids
<1>2. Below \in SUBSET Nat /\ Below # {}
  BY <1>1
<1>3. PICK m \in Below : \A n \in Below : m <= n
  BY <1>2, Smallest
<1>4. PICK i \in S : m = MaxId - i
  BY <1>3
<1>5. ASSUME NEW j \in S PROVE j <= i
  <2>1. MaxId - j \in Below
    OBVIOUS
  <2>2. MaxId - i <= MaxId - j
    BY <1>3, <1>4, <2>1
  <2>. QED
    BY <1>1, <2>2
<1>. QED
  BY <1>4, <1>5

LEMMA InitInv ==
    ASSUME Init
    PROVE  IInv
<1>1. /\ WellFormed(canvas)
      /\ clip = << >> /\ dialog = NoDialog
      /\ past = << >> /\ present = canvas /\ future = << >> /\ pending = FALSE
      /\ next = CHOOSE i \in On(canvas) : \A j \in On(canvas) : j <= i
      /\ ops \in Nat /\ lapses = {} /\ hung = FALSE
  BY TemplateAssumption, BoundsAssumption DEF Init, On
<1>2. On(canvas) \in SUBSET Ids /\ On(canvas) # {}
  BY <1>1 DEF WellFormed, IsGraph, OneStart, On
<1>3. next \in On(canvas) /\ \A j \in On(canvas) : j <= next
  BY <1>1, <1>2, Largest
<1>4. next \in Ids /\ Sound(canvas, next, lapses)
  BY <1>1, <1>2, <1>3, TemplateSound
<1>5. Kept = {canvas}
  BY <1>1 DEF Kept
<1>6. AllSound /\ Alike
  BY <1>4, <1>5 DEF AllSound, Alike
<1>7. ClipInv
  <2>1. DOMAIN clip = {} /\ clip \in [{} -> Node]
    BY <1>1
  <2>. QED
    BY <2>1, FS_EmptySet DEF ClipInv
<1>8. DialogInv /\ HistoryIsCanvas
  BY <1>1 DEF DialogInv, HistoryIsCanvas
<1>9. Small
  <2>1. past \in Seq(AnyGraph) /\ future \in Seq(AnyGraph)
    BY <1>1
  <2>. QED
    BY <1>1, <1>4, <2>1 DEF Small
<1>. QED
  BY <1>6, <1>7, <1>8, <1>9 DEF IInv

LEMMA MouseKeeps ==
    ASSUME IInv, Mouse, ops' \in Nat
    PROVE  IInv'
<1>1. CASE \E s, t \in On(canvas), h \in HandleNames : Connect(s, h, t) \/ DropOnJoin(s, h, t)
  BY <1>1, ConnectKeeps
<1>2. CASE \E n \in On(canvas), k \in AddKinds, h \in HandleNames : AddAfter(n, h, k)
  BY <1>2, AddAfterKeeps
<1>3. CASE \E n \in On(canvas), k \in AddKinds : AddBefore(n, k) \/ Change(n, k)
  BY <1>3, AddBeforeKeeps, ChangeKeeps
<1>4. CASE \E e \in canvas.edges, k \in AddKinds : AddBetween(e, k)
  BY <1>4, AddBetweenKeeps
<1>5. CASE \/ \E n \in On(canvas) : Disconnect(n)
           \/ \E n \in On(canvas), h \in HandleNames : DeleteBranch(n, h)
  BY <1>5, DisconnectKeeps
<1>. QED
  BY <1>1, <1>2, <1>3, <1>4, <1>5 DEF Mouse

LEMMA KeyboardKeeps ==
    ASSUME IInv, Keyboard, ops' \in Nat
    PROVE  IInv'
<1>1. CASE \E n \in On(canvas) : Delete(n)
  BY <1>1, DeleteKeeps
<1>2. CASE \E e \in canvas.edges : EdgeDelete(e)
  BY <1>2, DisconnectKeeps
<1>3. CASE \E S \in SUBSET On(canvas) : DeleteBundle(S) \/ Copy(S)
  BY <1>3, DeleteBundleKeeps, CopyKeeps
<1>4. CASE Paste \/ Undo \/ Redo
  BY <1>4, PasteKeeps, UndoKeeps, RedoKeeps
<1>. QED
  BY <1>1, <1>2, <1>3, <1>4 DEF Keyboard

\* Every step keeps the inductive invariant.
THEOREM Inductive == Spec => []IInv
<1>1. Init => IInv
  BY InitInv
<1>2. IInv /\ [Next]_vars => IInv'
  <2>. SUFFICES ASSUME IInv, [Next]_vars PROVE IInv'
    OBVIOUS
  <2>1. CASE User
    <3>1. ops' \in Nat
      <4>1. ops \in Nat /\ ops > 0 /\ ops' = ops - 1
        BY <2>1 DEF User, IInv, Small
      <4>. QED
        BY ONLY <4>1
    <3>. QED
      BY <2>1, <3>1, MouseKeeps, KeyboardKeeps DEF User
  <2>2. CASE Confirm \/ Cancel \/ SaveHistory
    BY <2>2, ConfirmKeeps, CancelKeeps, SaveKeeps
  <2>3. CASE UNCHANGED vars
    <3>1. /\ Kept' = Kept /\ UNCHANGED <<clip, dialog, next, lapses, hung>>
          /\ past' \in Seq(AnyGraph) /\ future' \in Seq(AnyGraph) /\ pending' \in BOOLEAN /\ ops' \in Nat
      BY <2>3 DEF vars, IInv, Small, Kept
    <3>2. HistoryIsCanvas'
      BY <2>3 DEF vars, IInv, HistoryIsCanvas
    <3>. QED
      BY <3>1, <3>2, HistoryKeeps
  <2>. QED
    BY <2>1, <2>2, <2>3 DEF Next
<1>. QED
  BY <1>1, <1>2, PTL DEF Spec

\* At any time the canvas is a graph of levels: it is as the types say, its
\* edges join two of its nodes, of one level, it has one start node and its
\* containers have start nodes of their own, and its nodes say they are in
\* the containers they are in; what containers pasted in one millisecond and
\* pasted children do about this is all that is ever done about it.
THEOREM CanvasCorrect == Spec => []CanvasInv
<1>1. IInv => CanvasInv
  <2>. SUFFICES ASSUME IInv PROVE CanvasInv
    OBVIOUS
  <2>1. /\ Sound(canvas, next, lapses) /\ canvas \in Kept
        /\ \A g \in Kept : IsGraph(g)
    BY KeptSound, CanvasSound DEF Sound
  <2>2. TypeOK
    <3>1. /\ IsGraph(canvas) /\ IsGraph(present)
          /\ \A h \in {past, future} : \A i \in DOMAIN h : IsGraph(h[i])
      BY <2>1 DEF Kept
    <3>2. DOMAIN clip \subseteq Ids /\ clip \in [DOMAIN clip -> Node]
      <4>1. 0..next \subseteq Ids
        <5>1. next \in 0..MaxId /\ MaxId \in Nat
          BY CanvasSound, BoundsAssumption DEF Ids
        <5>. QED
          BY ONLY <5>1 DEF Ids
      <4>. QED
        BY <4>1 DEF IInv, ClipInv
    <3>3. dialog.of \in Ids \cup {None} /\ dialog.children \subseteq Ids
      <4>1. 0..next \subseteq Ids
        <5>1. next \in 0..MaxId /\ MaxId \in Nat
          BY CanvasSound, BoundsAssumption DEF Ids
        <5>. QED
          BY ONLY <5>1 DEF Ids
      <4>. QED
        BY <4>1 DEF IInv, DialogInv, NoDialog
    <3>. QED
      BY <3>1, <3>2, <3>3 DEF TypeOK, IInv, Small
  <2>3. EdgesOnOneLevel
    BY <2>1 DEF EdgesOnOneLevel, Sound, Joined, Levelled
  <2>4. StartsInPlace /\ MarksAgree
    BY <2>1 DEF StartsInPlace, MarksAgree, Sound
  <2>. QED
    BY <2>2, <2>3, <2>4 DEF CanvasInv
<1>. QED
  BY <1>1, Inductive, PTL

\* A node loses its container only by a deletion forced past the open dialog,
\* or because the dialog's answer does not know of children that came back.
THEOREM OrphansExplained == Spec => []OrphansHaveCause
<1>1. IInv => OrphansHaveCause
  BY CanvasSound DEF Sound, Parented, OrphansHaveCause
<1>. QED
  BY <1>1, Inductive, PTL

\* Only a connection dropped on the body of an aggregator closes a cycle, and
\* only then getParallelInfo may be caught in one.
THEOREM CyclesExplained == Spec => []CyclesHaveCause
<1>1. IInv => CyclesHaveCause
  <2>. SUFFICES ASSUME IInv, "dropped" \notin lapses PROVE ~hung /\ ~Cyclic(canvas, On(canvas))
    BY DEF CyclesHaveCause
  <2>1. ~hung /\ Acyclic(canvas) /\ On(canvas) \in SUBSET Ids
    BY CanvasSound DEF Sound
  <2>. QED
    BY <2>1, AcyclicMeans
<1>. QED
  BY <1>1, Inductive, PTL

\* With no save to the history put off, what undo goes back from is what the
\* canvas shows.
THEOREM HistoryTrue == Spec => []HistoryIsCanvas
<1>1. IInv => HistoryIsCanvas
  BY DEF IInv
<1>. QED
  BY <1>1, Inductive, PTL
=============================================================================
