--------------------------- MODULE Planning_proofs ---------------------------
(***************************************************************************)
(* Proofs about what a compilation is planned with: the algorithms of      *)
(* CompileGraph for any finite graph, the rounds of IncrementalBuild for   *)
(* any project, the planner for any document, and the parser's comments    *)
(* for any text.                                                           *)
(***************************************************************************)
EXTENDS IncrementalBuild, CompilationPlan, LatexParser, FiniteSetTheorems, WellFoundedInduction, TLAPS

-----------------------------------------------------------------------------
(* Induction and recursion over the natural numbers *)

(* What holds of some number holds of a least one: the form in which the    *)
(* proofs below do their inductions.                                        *)
LEMMA LeastNumber ==
  ASSUME NEW S \in SUBSET Nat, S # {}
  PROVE  \E n \in S : \A m \in S : n <= m
<1>1. S \subseteq Nat /\ S # {}
  OBVIOUS
<1>2. \E n \in S : \A m \in S : <<m, n>> \notin OpToRel(<, Nat)
  BY <1>1, NatLessThanWellFounded, WFMin, Zenon
<1>3. PICK n \in S : \A m \in S : <<m, n>> \notin OpToRel(<, Nat)
  BY <1>2
<1>4. \A m \in S : ~(m < n)
  BY <1>3 DEF OpToRel
<1>5. QED
  BY <1>4

(* A set of numbers with 0 in it that has n + 1 with every n has them all. *)
LEMMA Induction ==
  ASSUME NEW P, 0 \in P, \A n \in Nat : n \in P => n + 1 \in P
  PROVE  Nat \subseteq P
<1> SUFFICES ASSUME Nat \ P # {} PROVE FALSE
  OBVIOUS
<1>1. PICK n \in Nat \ P : \A m \in Nat \ P : n <= m
  BY LeastNumber
<1>2. n - 1 \in Nat /\ n - 1 \in P
  BY <1>1
<1>3. QED
  BY <1>1, <1>2

(* The first n steps of a recursion, as a function on 0 .. n. *)
Beginnings(a, F, n) ==
  {g \in [0 .. n -> DOMAIN F] : g[0] = a /\ \A k \in 0 .. n - 1 : g[k + 1] = F[g[k]]}

Iterable(S, a, F) == a \in S /\ F \in [S -> S]

IsIteration(S, a, F, f) ==
  f \in [Nat -> S] /\ f[0] = a /\ \A k \in Nat : f[k + 1] = F[f[k]]

(* Iterating a function F from a gives a sequence. *)
LEMMA Iteration ==
  ASSUME NEW S, NEW a, NEW F, Iterable(S, a, F)
  PROVE  \E f : IsIteration(S, a, F, f)
<1> USE DEF Iterable
<1>1. \A n \in Nat : Beginnings(a, F, n) # {}
  <2> DEFINE P == {n \in Nat : Beginnings(a, F, n) # {}}
  <2>1. 0 \in P
    <3>1. [k \in 0 .. 0 |-> a] \in Beginnings(a, F, 0)
      BY DEF Beginnings
    <3>2. QED
      BY <3>1
  <2>2. ASSUME NEW n \in P
        PROVE  n + 1 \in P
    <3>1. PICK g \in Beginnings(a, F, n) : TRUE
      OBVIOUS
    <3> DEFINE h == [k \in 0 .. n + 1 |-> IF k = n + 1 THEN F[g[n]] ELSE g[k]]
    <3>2. h \in Beginnings(a, F, n + 1)
      BY <3>1 DEF Beginnings
    <3>3. QED
      BY <3>2
  <2> HIDE DEF P
  <2>3. Nat \subseteq P
    BY <2>1, <2>2, Induction
  <2>4. QED
    BY <2>3 DEF P
<1>2. ASSUME NEW n \in Nat, NEW m \in Nat, NEW g \in Beginnings(a, F, n), NEW h \in Beginnings(a, F, m)
      PROVE  \A k \in Nat : k <= n /\ k <= m => g[k] = h[k]
  <2> DEFINE P == {k \in Nat : k <= n /\ k <= m => g[k] = h[k]}
  <2>1. 0 \in P
    BY DEF Beginnings
  <2>2. ASSUME NEW k \in P
        PROVE  k + 1 \in P
    BY DEF Beginnings
  <2> HIDE DEF P
  <2>3. Nat \subseteq P
    BY <2>1, <2>2, Induction
  <2>4. QED
    BY <2>3 DEF P
<1> DEFINE G(n) == CHOOSE g \in Beginnings(a, F, n) : TRUE
           f == [n \in Nat |-> G(n)[n]]
<1>3. \A n \in Nat : G(n) \in Beginnings(a, F, n)
  BY <1>1
<1> HIDE DEF G
<1>4. f \in [Nat -> S] /\ f[0] = a
  BY <1>3 DEF Beginnings
<1>5. ASSUME NEW k \in Nat
      PROVE  f[k + 1] = F[f[k]]
  <2>1. G(k + 1)[k + 1] = F[G(k + 1)[k]]
    BY <1>3 DEF Beginnings
  <2>2. G(k + 1)[k] = G(k)[k]
    BY <1>2, <1>3
  <2>3. QED
    BY <2>1, <2>2
<1>6. QED
  BY <1>4, <1>5 DEF IsIteration

-----------------------------------------------------------------------------
(* nodes_needing_recompile *)

(* A set of nodes is closed when it has all dependents of its nodes. *)
ClosedUnderDependents(E, S) == \A e \in E : e[2] \in S => e[1] \in S

(* The rounds of the breadth-first search, of which Propagate takes as many *)
(* as there are edges.                                                      *)
IsSpread(E, N, C, f) ==
  /\ f \in [Nat -> SUBSET N]
  /\ f[0] = C
  /\ \A k \in Nat : \A x : x \in f[k + 1] <=> x \in f[k] \/ \E e \in E : e[1] = x /\ e[2] \in f[k]

LEMMA SpreadExists ==
  ASSUME NEW N, NEW E \in SUBSET (N \X N), NEW C \in SUBSET N
  PROVE  \E f : IsSpread(E, N, C, f) /\ Propagate(E, C) = f[Cardinality(E)]
<1> DEFINE Step(X) == X \cup UNION {Dependents(E, n) : n \in X}
           F == [X \in SUBSET N |-> Step(X)]
           Body(f) == [k \in Nat |-> IF k = 0 THEN C ELSE f[k - 1] \cup UNION {Dependents(E, n) : n \in f[k - 1]}]
           spread == CHOOSE f : f = Body(f)
<1>1. ASSUME NEW X \in SUBSET N
      PROVE  Step(X) \in SUBSET N /\ \A x : x \in Step(X) <=> x \in X \/ \E e \in E : e[1] = x /\ e[2] \in X
  BY DEF Dependents
<1>2. F \in [SUBSET N -> SUBSET N] /\ \A X \in SUBSET N : F[X] = Step(X)
  BY <1>1
<1>3. PICK f : IsIteration(SUBSET N, C, F, f)
  <2>1. Iterable(SUBSET N, C, F)
    BY <1>2 DEF Iterable
  <2> HIDE DEF F
  <2>2. QED
    BY <2>1, Iteration
<1>4. \A k \in Nat : f[k + 1] = Step(f[k])
  BY <1>2, <1>3 DEF IsIteration
<1>5. f = Body(f)
  <2>1. ASSUME NEW k \in Nat
        PROVE  f[k] = Body(f)[k]
    <3>1. CASE k = 0
      BY <1>3, <3>1 DEF IsIteration
    <3>2. CASE k # 0
      <4>1. k - 1 \in Nat /\ (k - 1) + 1 = k
        BY <3>2
      <4>2. f[k] = Step(f[k - 1])
        BY <1>4, <4>1
      <4>3. QED
        BY <3>2, <4>2
    <3>3. QED
      BY <3>1, <3>2
  <2>2. QED
    BY <1>3, <2>1 DEF IsIteration
<1>6. spread = Body(spread)
  BY <1>5
<1>7. Propagate(E, C) = spread[Cardinality(E)]
  BY DEF Propagate
<1> HIDE DEF spread
<1>8. spread[0] = C /\ \A k \in Nat : spread[k + 1] = Step(spread[k])
  <2>1. ASSUME NEW k \in Nat
        PROVE  spread[k] = IF k = 0 THEN C ELSE Step(spread[k - 1])
    <3>1. spread[k] = Body(spread)[k]
      BY <1>6, Zenon
    <3>2. QED
      BY <3>1
  <2> HIDE DEF Step
  <2>2. ASSUME NEW k \in Nat
        PROVE  spread[k + 1] = Step(spread[k])
    <3>1. k + 1 \in Nat /\ k + 1 # 0 /\ (k + 1) - 1 = k
      OBVIOUS
    <3>2. QED
      BY <2>1, <3>1
  <2>3. QED
    BY <2>1, <2>2
<1>9. \A k \in Nat : spread[k] \in SUBSET N
  <2> DEFINE P == {k \in Nat : spread[k] \in SUBSET N}
  <2>1. 0 \in P /\ \A k \in Nat : k \in P => k + 1 \in P
    <3> HIDE DEF Step
    <3>1. QED
      BY <1>1, <1>8
  <2> HIDE DEF P
  <2>2. Nat \subseteq P
    BY <2>1, Induction
  <2>3. QED
    BY <2>2 DEF P
<1>10. spread \in [Nat -> SUBSET N]
  BY <1>6, <1>9
<1>11. IsSpread(E, N, C, spread)
  <2> HIDE DEF Step
  <2>1. QED
    BY <1>1, <1>8, <1>9, <1>10 DEF IsSpread
<1>12. QED
  BY <1>7, <1>11

(* As long as the search is not closed, each round reaches a new edge. *)
LEMMA SpreadCloses ==
  ASSUME NEW N, NEW E \in SUBSET (N \X N), IsFiniteSet(E), NEW C, NEW f, IsSpread(E, N, C, f)
  PROVE  ClosedUnderDependents(E, f[Cardinality(E)])
<1> DEFINE Reached(k) == {e \in E : e[1] \in f[k]}
           P == {k \in Nat : ClosedUnderDependents(E, f[k]) \/ k <= Cardinality(Reached(k))}
<1>1. ASSUME NEW k \in Nat
      PROVE  IsFiniteSet(Reached(k)) /\ Cardinality(Reached(k)) \in Nat /\ Cardinality(Reached(k)) <= Cardinality(E)
  BY FS_Subset, FS_CardinalityType
<1>2. 0 \in P
  BY <1>1
<1>3. ASSUME NEW k \in Nat, k \in P
      PROVE  k + 1 \in P
  <2>1. CASE ClosedUnderDependents(E, f[k])
    BY <2>1 DEF IsSpread, ClosedUnderDependents
  <2>2. CASE ~ClosedUnderDependents(E, f[k])
    <3>1. PICK e \in E : e[2] \in f[k] /\ e[1] \notin f[k]
      BY <2>2 DEF ClosedUnderDependents
    <3>2. Reached(k) \cup {e} \subseteq Reached(k + 1) /\ e \notin Reached(k)
      BY <3>1 DEF IsSpread
    <3> DEFINE R == Reached(k)
               Q == Reached(k + 1)
    <3>3. IsFiniteSet(R) /\ IsFiniteSet(Q) /\ Cardinality(R) \in Nat /\ Cardinality(Q) \in Nat
      BY <1>1
    <3>4. k <= Cardinality(R)
      BY <1>3, <2>2
    <3>5. R \cup {e} \subseteq Q /\ e \notin R
      BY <3>2
    <3> HIDE DEF R, Q
    <3>6. Cardinality(R \cup {e}) = Cardinality(R) + 1 /\ Cardinality(R \cup {e}) <= Cardinality(Q)
      BY <3>3, <3>5, FS_AddElement, FS_Subset
    <3>7. k + 1 <= Cardinality(Q)
      BY <3>3, <3>4, <3>6
    <3>8. QED
      BY <3>7 DEF Q
  <2>3. QED
    BY <2>1, <2>2
<1>4. Cardinality(E) \in Nat
  BY FS_CardinalityType
<1>5. Cardinality(E) \in P
  <2> HIDE DEF P
  <2>1. Nat \subseteq P
    BY <1>2, <1>3, Induction
  <2>2. QED
    BY <1>4, <2>1
<1>6. CASE Cardinality(E) <= Cardinality(Reached(Cardinality(E)))
  <2> DEFINE R == Reached(Cardinality(E))
  <2>1. R \in SUBSET E /\ Cardinality(R) \in Nat /\ Cardinality(R) <= Cardinality(E) /\ Cardinality(E) <= Cardinality(R)
    BY <1>1, <1>4, <1>6
  <2> HIDE DEF R
  <2>2. R = E
    BY <1>4, <2>1, FS_Subset
  <2>3. QED
    BY <2>2 DEF R, ClosedUnderDependents
<1>7. QED
  BY <1>5, <1>6

(* nodes_needing_recompile is the least set that has the changed nodes and  *)
(* is closed under dependents, for every finite graph, with cycles or not.  *)
THEOREM PropagateIsClosure ==
  ASSUME NEW N, NEW E \in SUBSET (N \X N), IsFiniteSet(E), NEW C \in SUBSET N
  PROVE  /\ Propagate(E, C) \in SUBSET N
         /\ C \subseteq Propagate(E, C)
         /\ ClosedUnderDependents(E, Propagate(E, C))
         /\ \A T : C \subseteq T /\ ClosedUnderDependents(E, T) => Propagate(E, C) \subseteq T
<1>1. PICK f : IsSpread(E, N, C, f) /\ Propagate(E, C) = f[Cardinality(E)]
  BY SpreadExists
<1>2. Cardinality(E) \in Nat
  BY FS_CardinalityType
<1>3. ClosedUnderDependents(E, f[Cardinality(E)])
  BY <1>1, SpreadCloses
<1>4. \A k \in Nat : C \subseteq f[k]
  <2> DEFINE P == {k \in Nat : C \subseteq f[k]}
  <2>1. 0 \in P /\ \A k \in Nat : k \in P => k + 1 \in P
    BY <1>1 DEF IsSpread
  <2> HIDE DEF P
  <2>2. Nat \subseteq P
    BY <2>1, Induction
  <2>3. QED
    BY <2>2 DEF P
<1>5. ASSUME NEW T, C \subseteq T, ClosedUnderDependents(E, T)
      PROVE  \A k \in Nat : f[k] \subseteq T
  <2> DEFINE P == {k \in Nat : f[k] \subseteq T}
  <2>1. 0 \in P
    BY <1>1, <1>5 DEF IsSpread
  <2>2. ASSUME NEW k \in Nat, k \in P
        PROVE  k + 1 \in P
    BY <1>1, <1>5, <2>2 DEF IsSpread, ClosedUnderDependents
  <2> HIDE DEF P
  <2>3. Nat \subseteq P
    BY <2>1, <2>2, Induction
  <2>4. QED
    BY <2>3 DEF P
<1>6. f[Cardinality(E)] \in SUBSET N
  BY <1>1, <1>2 DEF IsSpread
<1>7. QED
  BY <1>1, <1>2, <1>3, <1>4, <1>5, <1>6

-----------------------------------------------------------------------------
(* The graph that is built and edited *)

GraphTypeOK ==
  /\ nodes \in SUBSET Nodes /\ IsFiniteSet(nodes)
  /\ edges \in SUBSET (nodes \X nodes) /\ IsFiniteSet(edges)
  /\ content_hash \in [Nodes -> Contents \cup {NoHash}]
  /\ last_compiled_hash \in [Nodes -> Contents \cup {NoHash}]

LEMMA GraphTypeInductive == GraphTypeOK /\ [Next]_vars => GraphTypeOK'
<1> SUFFICES ASSUME GraphTypeOK, [Next]_vars PROVE GraphTypeOK'
  OBVIOUS
<1> USE DEF GraphTypeOK
<1>1. ASSUME NEW n \in Nodes, NEW c \in Contents, AddNode(n, c)
      PROVE  GraphTypeOK'
  <2>1. IsFiniteSet(nodes \cup {n})
    BY FS_AddElement
  <2>2. QED
    BY <1>1, <2>1 DEF AddNode
<1>2. ASSUME NEW n \in Nodes, NEW c \in Contents, Edit(n, c)
      PROVE  GraphTypeOK'
  BY <1>2 DEF Edit
<1>3. ASSUME NEW n \in Nodes, NEW m \in Nodes, AddDependency(n, m)
      PROVE  GraphTypeOK'
  <2>1. edges' = edges \cup {<<n, m>>} /\ nodes' = nodes /\ n \in nodes /\ m \in nodes
    BY <1>3 DEF AddDependency
  <2>2. IsFiniteSet(edges \cup {<<n, m>>})
    BY FS_AddElement
  <2>3. edges' \in SUBSET (nodes' \X nodes') /\ IsFiniteSet(edges')
    BY <2>1, <2>2
  <2>4. QED
    BY <1>3, <2>3 DEF AddDependency
<1>4. ASSUME NEW n \in Nodes, MarkCompiled(n)
      PROVE  GraphTypeOK'
  BY <1>4 DEF MarkCompiled
<1>5. CASE UNCHANGED vars
  BY <1>5 DEF vars
<1>6. QED
  BY <1>1, <1>2, <1>3, <1>4, <1>5 DEF Next

(* Whatever is added, edited and marked compiled in whatever order, edges   *)
(* join nodes of the graph and are finitely many.                           *)
THEOREM GraphTypeCorrect == Spec => []GraphTypeOK
<1>1. Init => GraphTypeOK
  BY FS_EmptySet DEF Init, GraphTypeOK
<1>2. QED
  BY <1>1, GraphTypeInductive, PTL DEF Spec

(* What a node depends on is closed under the edges, and least. *)
LEMMA DependsOnIsClosed ==
  ASSUME edges \in SUBSET (nodes \X nodes), NEW n \in nodes
  PROVE  /\ DependsOn[n] \in SUBSET nodes
         /\ \A e \in edges : e[1] = n \/ e[1] \in DependsOn[n] => e[2] \in DependsOn[n]
         /\ \A S \in SUBSET nodes :
              (\A e \in edges : e[1] = n \/ e[1] \in S => e[2] \in S) => DependsOn[n] \subseteq S
<1>1. DependsOn[n] = {m \in nodes : \A S \in ClosedSets : Dependencies(edges, n) \subseteq S => m \in S}
  BY DEF DependsOn
<1>2. \A m : m \in Dependencies(edges, n) <=> \E e \in edges : e[1] = n /\ e[2] = m
  BY DEF Dependencies
<1> DEFINE D == DependsOn[n]
<1>3. D \in SUBSET nodes
  BY <1>1
<1>4. ASSUME NEW e \in edges, e[1] = n \/ e[1] \in D
      PROVE  e[2] \in D
  <2>1. e[1] \in nodes /\ e[2] \in nodes
    OBVIOUS
  <2>2. ASSUME NEW S \in ClosedSets, Dependencies(edges, n) \subseteq S
        PROVE  e[2] \in S
    BY <1>1, <1>2, <1>4, <2>2 DEF ClosedSets
  <2>3. QED
    BY <1>1, <2>1, <2>2
<1>5. ASSUME NEW S \in SUBSET nodes, \A e \in edges : e[1] = n \/ e[1] \in S => e[2] \in S
      PROVE  D \subseteq S
  <2>1. S \in ClosedSets /\ Dependencies(edges, n) \subseteq S
    BY <1>2, <1>5 DEF ClosedSets
  <2>2. QED
    BY <1>1, <2>1
<1>6. QED
  BY <1>3, <1>4, <1>5

(* nodes_needing_recompile in terms of what nodes depend on. *)
LEMMA NeededNodes ==
  ASSUME edges \in SUBSET (nodes \X nodes), IsFiniteSet(edges)
  PROVE  NodesNeedingRecompile = {n \in nodes : \E m \in Changed : n = m \/ m \in DependsOn[n]}
<1> DEFINE Reaching == {n \in nodes : \E m \in Changed : n = m \/ m \in DependsOn[n]}
           Needed   == NodesNeedingRecompile
<1>1. Changed \in SUBSET nodes
  BY DEF Changed
<1>2. /\ Needed \in SUBSET nodes
      /\ Changed \subseteq Needed
      /\ ClosedUnderDependents(edges, Needed)
      /\ \A T : Changed \subseteq T /\ ClosedUnderDependents(edges, T) => Needed \subseteq T
  BY <1>1, PropagateIsClosure DEF NodesNeedingRecompile
<1>3. Needed \subseteq Reaching
  <2>1. Changed \subseteq Reaching
    BY <1>1
  <2>2. ClosedUnderDependents(edges, Reaching)
    <3> SUFFICES ASSUME NEW e \in edges, NEW m \in Changed, e[2] = m \/ m \in DependsOn[e[2]]
                 PROVE  m \in DependsOn[e[1]]
      BY DEF ClosedUnderDependents
    <3> DEFINE x == e[1]
               y == e[2]
    <3>1. x \in nodes /\ y \in nodes
      OBVIOUS
    <3>2. y \in DependsOn[x] /\ DependsOn[x] \in SUBSET nodes
      BY <3>1, DependsOnIsClosed
    <3>3. \A f \in edges : f[1] = y \/ f[1] \in DependsOn[x] => f[2] \in DependsOn[x]
      BY <3>1, <3>2, DependsOnIsClosed
    <3>4. DependsOn[y] \subseteq DependsOn[x]
      BY <3>1, <3>2, <3>3, DependsOnIsClosed
    <3>5. QED
      BY <3>2, <3>4
  <2>3. QED
    BY <1>2, <2>1, <2>2
<1>4. Reaching \subseteq Needed
  <2> SUFFICES ASSUME NEW n \in nodes, n \notin Needed
               PROVE  n \notin Changed /\ DependsOn[n] \cap Changed = {}
    OBVIOUS
  <2> DEFINE S == nodes \ Needed
  <2>1. \A e \in edges : e[1] = n \/ e[1] \in S => e[2] \in S
    BY <1>2 DEF ClosedUnderDependents
  <2>2. DependsOn[n] \subseteq S
    BY <2>1, DependsOnIsClosed
  <2>3. QED
    BY <1>2, <2>2
<1>5. QED
  BY <1>3, <1>4

(* nodes_needing_recompile is the set of changed nodes and of those that    *)
(* depend on one, however far, for every graph that is ever built.          *)
THEOREM NeededIsClosureCorrect == Spec => []NeededIsClosure
<1>1. GraphTypeOK => NeededIsClosure
  BY NeededNodes DEF GraphTypeOK, NeededIsClosure
<1>2. QED
  BY <1>1, GraphTypeCorrect, PTL

-----------------------------------------------------------------------------
(* parallel_groups *)

LEMMA Maximum ==
  ASSUME NEW S \in SUBSET Nat, S # {}, NEW b \in Nat, \A x \in S : x <= b
  PROVE  Max(S) \in S /\ \A x \in S : x <= Max(S)
<1> DEFINE Bounds == {c \in Nat : \A x \in S : x <= c}
<1>1. Bounds \in SUBSET Nat /\ Bounds # {}
  OBVIOUS
<1>2. PICK c \in Bounds : \A d \in Bounds : c <= d
  BY <1>1, LeastNumber
<1>3. c \in S
  <2> SUFFICES ASSUME c \notin S PROVE FALSE
    OBVIOUS
  <2>1. \A x \in S : x \in Nat /\ x < c
    BY <1>2
  <2>2. c \in Nat /\ c # 0 /\ c - 1 \in Nat
    <3>1. PICK x \in S : TRUE
      OBVIOUS
    <3>2. x \in Nat /\ x < c /\ c \in Nat
      BY <1>2, <2>1
    <3>3. QED
      BY <3>2
  <2>3. \A x \in S : x <= c - 1
    BY <2>1, <2>2
  <2>4. QED
    BY <1>2, <2>2, <2>3
<1>4. \E c1 \in S : \A x \in S : c1 >= x
  BY <1>2, <1>3
<1>5. Max(S) \in S /\ \A x \in S : Max(S) >= x
  BY <1>4, Zenon DEF Max
<1>6. QED
  BY <1>5

(* The level of the node at place i, from the levels f of those before it. *)
LevelFrom(E, order, needed, f, i) ==
  LET filtered == {k \in DOMAIN order : order[k] \in needed}
      deps     == Dependencies(E, order[i])
      below    == {f[k] : k \in {p \in filtered : p < i /\ order[p] \in deps}} \cup {0}
  IN IF deps = {} THEN 0 ELSE Max(below) + 1

IsLevels(E, order, needed, f) ==
  f = [i \in DOMAIN order |-> LevelFrom(E, order, needed, f, i)]

LEMMA LevelFromBefore ==
  ASSUME NEW E, NEW order, NEW needed, NEW f, NEW g, NEW i,
         \A p \in DOMAIN order : p < i => f[p] = g[p]
  PROVE  LevelFrom(E, order, needed, f, i) = LevelFrom(E, order, needed, g, i)
<1> DEFINE places == {p \in {k \in DOMAIN order : order[k] \in needed} :
                        p < i /\ order[p] \in Dependencies(E, order[i])}
<1>1. \A p \in places : f[p] = g[p]
  OBVIOUS
<1>2. {f[p] : p \in places} = {g[p] : p \in places}
  BY <1>1
<1>3. QED
  BY <1>2 DEF LevelFrom

(* A level is above those it is taken from, and no higher than its place. *)
LEMMA LevelFromShape ==
  ASSUME NEW E, NEW order, NEW needed, NEW n \in Nat, DOMAIN order = 1 .. n, NEW f, NEW i \in 1 .. n,
         \A p \in 1 .. n : f[p] \in Nat /\ f[p] <= p
  PROVE  /\ LevelFrom(E, order, needed, f, i) \in Nat
         /\ LevelFrom(E, order, needed, f, i) <= i
         /\ \A p \in 1 .. n :
              p < i /\ order[p] \in needed /\ order[p] \in Dependencies(E, order[i])
                => f[p] < LevelFrom(E, order, needed, f, i)
<1> DEFINE deps   == Dependencies(E, order[i])
           places == {p \in {k \in DOMAIN order : order[k] \in needed} : p < i /\ order[p] \in deps}
           below  == {f[p] : p \in places} \cup {0}
<1>1. LevelFrom(E, order, needed, f, i) = IF deps = {} THEN 0 ELSE Max(below) + 1
  BY DEF LevelFrom
<1>2. \A p \in places : p \in 1 .. n /\ f[p] \in Nat /\ f[p] <= i - 1
  OBVIOUS
<1>3. below \in SUBSET Nat /\ 0 \in below /\ i - 1 \in Nat /\ \A x \in below : x <= i - 1
  BY <1>2
<1>4. \A p \in places : f[p] \in below
  OBVIOUS
<1> HIDE DEF below
<1>5. Max(below) \in below /\ \A x \in below : x <= Max(below)
  BY <1>3, Maximum
<1>6. Max(below) \in Nat /\ Max(below) <= i - 1
  BY <1>3, <1>5
<1>7. LevelFrom(E, order, needed, f, i) \in Nat /\ LevelFrom(E, order, needed, f, i) <= i
  BY <1>1, <1>6
<1>8. ASSUME NEW p \in 1 .. n, p < i, order[p] \in needed, order[p] \in deps
      PROVE  f[p] < LevelFrom(E, order, needed, f, i)
  <2>1. p \in places /\ deps # {}
    BY <1>8
  <2>2. f[p] \in Nat /\ f[p] <= Max(below)
    BY <1>4, <1>5, <2>1
  <2>3. QED
    BY <1>1, <1>6, <2>1, <2>2
<1>9. QED
  BY <1>7, <1>8

(* The levels map is filled: places before a place determine its level. *)
LEMMA LevelsExist ==
  ASSUME NEW E, NEW order, NEW needed, NEW n \in Nat, DOMAIN order = 1 .. n
  PROVE  \E f \in [1 .. n -> Nat] : IsLevels(E, order, needed, f) /\ \A i \in 1 .. n : f[i] <= i
<1> DEFINE Bounded == {g \in [1 .. n -> Nat] : \A i \in 1 .. n : g[i] <= i}
           Body(g) == [i \in 1 .. n |-> LevelFrom(E, order, needed, g, i)]
           F == [g \in Bounded |-> Body(g)]
           zero == [i \in 1 .. n |-> 0]
<1>1. ASSUME NEW g \in Bounded
      PROVE  Body(g) \in Bounded
  <2>1. \A p \in 1 .. n : g[p] \in Nat /\ g[p] <= p
    OBVIOUS
  <2>2. \A i \in 1 .. n : LevelFrom(E, order, needed, g, i) \in Nat /\ LevelFrom(E, order, needed, g, i) <= i
    BY <2>1, LevelFromShape
  <2>3. QED
    BY <2>2
<1>2. zero \in Bounded
  OBVIOUS
<1>3. PICK f : IsIteration(Bounded, zero, F, f)
  <2>1. Iterable(Bounded, zero, F)
    BY <1>1, <1>2 DEF Iterable
  <2> HIDE DEF Bounded, F, zero
  <2>2. QED
    BY <2>1, Iteration
<1>4. \A k \in Nat : f[k] \in Bounded /\ f[k + 1] = Body(f[k])
  <2> HIDE DEF Bounded, Body
  <2>1. QED
    BY <1>3 DEF IsIteration
<1>5. \A k \in Nat : \A i \in 1 .. n : f[k + 1][i] = LevelFrom(E, order, needed, f[k], i)
  BY <1>4
<1> DEFINE P == {k \in Nat : \A i \in 1 .. n : i <= k => f[k + 1][i] = f[k][i]}
<1>6. 0 \in P
  OBVIOUS
<1>7. ASSUME NEW k \in Nat, k \in P
      PROVE  k + 1 \in P
  <2> SUFFICES ASSUME NEW i \in 1 .. n, i <= k + 1
               PROVE  f[(k + 1) + 1][i] = f[k + 1][i]
    OBVIOUS
  <2>1. \A p \in 1 .. n : p < i => f[k + 1][p] = f[k][p]
    BY <1>7
  <2>2. LevelFrom(E, order, needed, f[k + 1], i) = LevelFrom(E, order, needed, f[k], i)
    BY <2>1, LevelFromBefore
  <2>3. f[(k + 1) + 1][i] = LevelFrom(E, order, needed, f[k + 1], i)
    BY <1>5
  <2>4. f[k + 1][i] = LevelFrom(E, order, needed, f[k], i)
    BY <1>5
  <2>5. QED
    BY <2>2, <2>3, <2>4
<1>8. n \in P
  <2> HIDE DEF P
  <2>1. QED
    BY <1>6, <1>7, Induction
<1>9. \A i \in 1 .. n : f[n][i] = LevelFrom(E, order, needed, f[n], i)
  <2>1. \A i \in 1 .. n : f[n + 1][i] = f[n][i]
    BY <1>8
  <2>2. QED
    BY <1>5, <2>1, Zenon
<1>10. f[n] \in Bounded
  BY <1>4
<1>11. IsLevels(E, order, needed, f[n])
  BY <1>9, <1>10 DEF IsLevels
<1>12. QED
  BY <1>10, <1>11

LEMMA LevelsUnique ==
  ASSUME NEW E, NEW order, NEW needed, NEW n \in Nat, DOMAIN order = 1 .. n,
         NEW f, NEW g, IsLevels(E, order, needed, f), IsLevels(E, order, needed, g)
  PROVE  f = g
<1> DEFINE P == {k \in Nat : \A i \in 1 .. n : i <= k => f[i] = g[i]}
<1>1. /\ f = [i \in 1 .. n |-> LevelFrom(E, order, needed, f, i)]
      /\ g = [i \in 1 .. n |-> LevelFrom(E, order, needed, g, i)]
  BY DEF IsLevels
<1>2. \A i \in 1 .. n : /\ f[i] = LevelFrom(E, order, needed, f, i)
                        /\ g[i] = LevelFrom(E, order, needed, g, i)
  BY <1>1, Zenon
<1>3. 0 \in P
  OBVIOUS
<1>4. ASSUME NEW k \in Nat, k \in P
      PROVE  k + 1 \in P
  <2> SUFFICES ASSUME NEW i \in 1 .. n, i <= k + 1 PROVE f[i] = g[i]
    OBVIOUS
  <2>1. \A p \in DOMAIN order : p < i => f[p] = g[p]
    BY <1>4
  <2>2. QED
    BY <1>2, <2>1, LevelFromBefore
<1>5. n \in P
  <2> HIDE DEF P
  <2>1. QED
    BY <1>3, <1>4, Induction
<1>6. \A i \in 1 .. n : f[i] = g[i]
  BY <1>5
<1>7. f = [i \in 1 .. n |-> f[i]] /\ g = [i \in 1 .. n |-> g[i]]
  BY <1>1, Zenon
<1>8. QED
  BY <1>6, <1>7, Zenon

IsTopological(N, E, order) == order \in TopologicalOrders(N, E)

(* An order has every node at exactly one place. *)
LEMMA OrderShape ==
  ASSUME NEW N, IsFiniteSet(N), NEW E, NEW order, IsTopological(N, E, order)
  PROVE  /\ Cardinality(N) \in Nat
         /\ DOMAIN order = 1 .. Cardinality(N)
         /\ \A i \in DOMAIN order : order[i] \in N
         /\ \A x \in N : \E i \in DOMAIN order : order[i] = x
         /\ \A i, k \in DOMAIN order : order[i] = order[k] => i = k
         /\ \A i, k \in DOMAIN order : <<order[k], order[i]>> \in E => i < k
<1> DEFINE c == Cardinality(N)
<1>1. c \in Nat
  BY FS_CardinalityType
<1>2. /\ order \in [1 .. c -> N]
      /\ \A i, k \in 1 .. c : i # k => order[i] # order[k]
      /\ \A i, k \in DOMAIN order : <<order[k], order[i]>> \in E => i < k
  BY DEF IsTopological, TopologicalOrders, SetToSeqs
<1>3. Cardinality(1 .. c) = c
  BY <1>1, FS_Interval
<1>4. order \in Injection(1 .. c, N)
  BY <1>2 DEF Injection, IsInjective
<1>5. order \in Surjection(1 .. c, N)
  BY <1>3, <1>4, FS_Injection
<1>6. \A x \in N : \E i \in 1 .. c : order[i] = x
  BY <1>5 DEF Surjection
<1>7. QED
  BY <1>1, <1>2, <1>6

IsLevelsOfNodes(E, needed, levels) ==
  /\ levels \in [needed -> Nat]
  /\ \A n, m \in needed : <<n, m>> \in E => levels[m] < levels[n]

(* In the levels map a node is above all nodes it depends on. *)
LEMMA LevelsOfNodes ==
  ASSUME NEW N, IsFiniteSet(N), NEW E, NEW order, IsTopological(N, E, order), NEW needed \in SUBSET N
  PROVE  IsLevelsOfNodes(E, needed, Levels(E, order, needed))
<1> DEFINE c == Cardinality(N)
           filtered == {i \in DOMAIN order : order[i] \in needed}
           level == CHOOSE f : IsLevels(E, order, needed, f)
           Place(n) == CHOOSE i \in filtered : order[i] = n
<1>1. /\ c \in Nat /\ DOMAIN order = 1 .. c
      /\ \A n \in needed : \E i \in filtered : order[i] = n
      /\ {order[i] : i \in filtered} = needed
      /\ \A i, k \in 1 .. c : <<order[k], order[i]>> \in E => i < k
  <2>1. /\ c \in Nat /\ DOMAIN order = 1 .. c
        /\ \A x \in N : \E i \in DOMAIN order : order[i] = x
        /\ \A i, k \in DOMAIN order : <<order[k], order[i]>> \in E => i < k
    BY OrderShape
  <2>2. \A n \in needed : \E i \in filtered : order[i] = n
    BY <2>1
  <2>3. {order[i] : i \in filtered} = needed
    BY <2>2
  <2>4. QED
    BY <2>1, <2>2, <2>3
<1>2. Levels(E, order, needed) = [n \in {order[i] : i \in filtered} |-> level[Place(n)]]
  BY DEF Levels, IsLevels, LevelFrom
<1>3. PICK f \in [1 .. c -> Nat] : IsLevels(E, order, needed, f) /\ \A i \in 1 .. c : f[i] <= i
  BY <1>1, LevelsExist
<1>4. level = f
  <2>1. IsLevels(E, order, needed, level)
    BY <1>3, Zenon
  <2>2. QED
    BY <1>1, <1>3, <2>1, LevelsUnique
<1>5. Levels(E, order, needed) = [n \in needed |-> f[Place(n)]]
  BY <1>1, <1>2, <1>4, Zenon
<1>6. \A n \in needed : Place(n) \in 1 .. c /\ order[Place(n)] = n
  BY <1>1
<1> HIDE DEF level, Place
<1>7. ASSUME NEW n \in needed, NEW m \in needed, <<n, m>> \in E
      PROVE  f[Place(m)] < f[Place(n)]
  <2>1. Place(n) \in 1 .. c /\ Place(m) \in 1 .. c /\ order[Place(n)] = n /\ order[Place(m)] = m
    BY <1>6
  <2>2. Place(m) < Place(n)
    BY <1>1, <1>7, <2>1
  <2>3. m \in Dependencies(E, n)
    BY <1>7 DEF Dependencies
  <2>4. f[Place(n)] = LevelFrom(E, order, needed, f, Place(n))
    BY <1>1, <1>3, <2>1, Zenon DEF IsLevels
  <2>5. \A p \in 1 .. c : f[p] \in Nat /\ f[p] <= p
    BY <1>3
  <2> DEFINE i == Place(n)
             k == Place(m)
  <2>6. i \in 1 .. c /\ k \in 1 .. c /\ k < i /\ order[k] \in needed /\ order[k] \in Dependencies(E, order[i])
    BY <2>1, <2>2, <2>3
  <2> HIDE DEF i, k
  <2>7. f[k] < LevelFrom(E, order, needed, f, i)
    BY <1>1, <2>5, <2>6, LevelFromShape
  <2>8. QED
    BY <2>4, <2>7 DEF i, k
<1>8. \A n \in needed : f[Place(n)] \in Nat
  BY <1>3, <1>6
<1>9. QED
  BY <1>5, <1>7, <1>8 DEF IsLevelsOfNodes

(* How many of the used levels are lower. *)
Rank(used, l) == Cardinality({k \in used : k < l})

LEMMA Ranks ==
  ASSUME NEW used \in SUBSET Nat, IsFiniteSet(used)
  PROVE  /\ Cardinality(used) \in Nat
         /\ \A l \in used : Rank(used, l) \in Nat /\ Rank(used, l) + 1 \in 1 .. Cardinality(used)
         /\ \A k, l \in used : k < l => Rank(used, k) < Rank(used, l)
         /\ \A i \in 1 .. Cardinality(used) : \E l \in used : Rank(used, l) = i - 1
<1> DEFINE c == Cardinality(used)
           Lower(l) == {k \in used : k < l}
<1>1. c \in Nat
  BY FS_CardinalityType
<1>2. \A l \in used : IsFiniteSet(Lower(l)) /\ Rank(used, l) \in Nat
  <2> SUFFICES ASSUME NEW l \in used PROVE IsFiniteSet(Lower(l)) /\ Rank(used, l) \in Nat
    OBVIOUS
  <2>1. Lower(l) \in SUBSET used
    OBVIOUS
  <2> HIDE DEF Lower
  <2>2. IsFiniteSet(Lower(l))
    BY <2>1, FS_Subset
  <2>3. Cardinality(Lower(l)) \in Nat
    BY <2>2, FS_CardinalityType
  <2>4. QED
    BY <2>2, <2>3 DEF Rank, Lower
<1>3. ASSUME NEW k \in used, NEW l \in used, k < l
      PROVE  Rank(used, k) < Rank(used, l)
  <2>1. Lower(k) \in SUBSET Lower(l) /\ Lower(k) # Lower(l)
    <3>1. k \in Nat /\ l \in Nat
      OBVIOUS
    <3>2. \A x \in used : x < k => x < l
      BY <1>3, <3>1
    <3>3. k \in Lower(l) /\ k \notin Lower(k)
      BY <1>3, <3>1
    <3>4. QED
      BY <3>2, <3>3
  <2>2. Rank(used, k) = Cardinality(Lower(k)) /\ Rank(used, l) = Cardinality(Lower(l))
    BY DEF Rank
  <2>3. IsFiniteSet(Lower(l))
    BY <1>2
  <2>4. Rank(used, k) \in Nat /\ Rank(used, l) \in Nat
    BY <1>2
  <2> HIDE DEF Lower
  <2>5. Cardinality(Lower(k)) <= Cardinality(Lower(l)) /\ Cardinality(Lower(l)) # Cardinality(Lower(k))
    BY <2>1, <2>3, FS_Subset
  <2>6. QED
    BY <2>2, <2>4, <2>5
<1>4. ASSUME NEW l \in used
      PROVE  Rank(used, l) + 1 \in 1 .. c
  <2>1. Lower(l) \in SUBSET used /\ Lower(l) # used
    OBVIOUS
  <2>2. Rank(used, l) = Cardinality(Lower(l)) /\ Rank(used, l) \in Nat
    BY <1>2 DEF Rank
  <2> HIDE DEF Lower
  <2>3. Cardinality(Lower(l)) <= c /\ c # Cardinality(Lower(l))
    BY <2>1, FS_Subset
  <2>4. QED
    BY <1>1, <2>2, <2>3
<1> DEFINE rank == [l \in used |-> Rank(used, l) + 1]
<1>5. rank \in Injection(used, 1 .. c)
  <2>1. rank \in [used -> 1 .. c]
    BY <1>4
  <2>2. ASSUME NEW k \in used, NEW l \in used, rank[k] = rank[l]
        PROVE  k = l
    <3>1. Rank(used, k) \in Nat /\ Rank(used, l) \in Nat
      BY <1>2
    <3>2. Rank(used, k) + 1 = Rank(used, l) + 1
      BY <2>2, Zenon
    <3>3. Rank(used, k) = Rank(used, l)
      BY <3>1, <3>2
    <3>4. ~(Rank(used, k) < Rank(used, l)) /\ ~(Rank(used, l) < Rank(used, k))
      BY <3>1, <3>3
    <3>5. ~(k < l) /\ ~(l < k)
      BY <1>3, <3>4
    <3>6. k \in Nat /\ l \in Nat
      OBVIOUS
    <3>7. QED
      BY <3>5, <3>6
  <2> HIDE DEF rank
  <2>3. QED
    BY <2>1, <2>2 DEF Injection, IsInjective
<1>6. rank \in Surjection(used, 1 .. c)
  <2>1. IsFiniteSet(1 .. c) /\ Cardinality(1 .. c) = c
    BY <1>1, FS_Interval
  <2> HIDE DEF rank
  <2>2. QED
    BY <1>5, <2>1, FS_Injection
<1>7. ASSUME NEW i \in 1 .. c
      PROVE  \E l \in used : Rank(used, l) = i - 1
  <2>1. PICK l \in used : rank[l] = i
    BY <1>6 DEF Surjection
  <2>2. Rank(used, l) + 1 = i
    BY <2>1, Zenon
  <2>3. Rank(used, l) \in Nat
    BY <1>2
  <2>4. Rank(used, l) = i - 1
    BY <2>2, <2>3
  <2>5. QED
    BY <2>4
<1>8. QED
  BY <1>1, <1>2, <1>3, <1>4, <1>7

(* Grouping by level: the groups are the levels that are used, in order. *)
LEMMA GroupsOfLevels ==
  ASSUME NEW E, NEW order, NEW needed, IsFiniteSet(needed), NEW groups,
         IsLevelsOfNodes(E, needed, Levels(E, order, needed)), groups = Groups(E, order, needed)
  PROVE  /\ UNION {groups[i] : i \in DOMAIN groups} = needed
         /\ \A i \in DOMAIN groups : groups[i] # {}
         /\ \A i, k \in DOMAIN groups : i # k => groups[i] \cap groups[k] = {}
         /\ \A n, m \in needed : Levels(E, order, needed)[m] < Levels(E, order, needed)[n] =>
              GroupOf(groups, m) < GroupOf(groups, n)
<1> DEFINE levels == Levels(E, order, needed)
           used   == {levels[n] : n \in needed}
           c      == Cardinality(used)
           R(n)   == Rank(used, levels[n])
<1>1. levels \in [needed -> Nat]
  BY DEF IsLevelsOfNodes
<1> HIDE DEF levels
<1>2. used \in SUBSET Nat /\ IsFiniteSet(used)
  <2>1. levels \in Surjection(needed, used)
    BY <1>1 DEF Surjection
  <2>2. QED
    BY <1>1, <2>1, FS_Surjection
<1>3. groups = [i \in 1 .. c |-> {n \in needed : Rank(used, levels[n]) = i - 1}]
  BY <1>1 DEF Groups, levels, Rank
<1>4. /\ c \in Nat
      /\ \A n \in needed : R(n) \in Nat /\ R(n) + 1 \in 1 .. c
      /\ \A n, m \in needed : levels[m] < levels[n] => R(m) < R(n)
      /\ \A i \in 1 .. c : \E n \in needed : R(n) = i - 1
  <2> DEFINE us == used
  <2>1. us \in SUBSET Nat /\ IsFiniteSet(us) /\ \A n \in needed : levels[n] \in us
    BY <1>2
  <2>2. \A l \in us : \E n \in needed : l = levels[n]
    OBVIOUS
  <2> HIDE DEF us
  <2>3. /\ Cardinality(us) \in Nat
        /\ \A l \in us : Rank(us, l) \in Nat /\ Rank(us, l) + 1 \in 1 .. Cardinality(us)
        /\ \A k, l \in us : k < l => Rank(us, k) < Rank(us, l)
        /\ \A i \in 1 .. Cardinality(us) : \E l \in us : Rank(us, l) = i - 1
    BY <2>1, Ranks
  <2>4. /\ Cardinality(us) \in Nat
        /\ \A n \in needed : /\ Rank(us, levels[n]) \in Nat
                             /\ Rank(us, levels[n]) + 1 \in 1 .. Cardinality(us)
        /\ \A n, m \in needed : levels[m] < levels[n] => Rank(us, levels[m]) < Rank(us, levels[n])
    BY <2>1, <2>3
  <2>5. \A i \in 1 .. Cardinality(us) : \E n \in needed : Rank(us, levels[n]) = i - 1
    BY <2>2, <2>3
  <2>6. QED
    BY <2>4, <2>5 DEF us
<1> HIDE DEF used, c, R
<1>5. /\ DOMAIN groups = 1 .. c
      /\ \A i \in 1 .. c : \A n : n \in groups[i] <=> n \in needed /\ R(n) = i - 1
  BY <1>3 DEF R
<1>6. \A n \in needed : R(n) + 1 \in DOMAIN groups /\ n \in groups[R(n) + 1]
  <2> SUFFICES ASSUME NEW n \in needed PROVE R(n) + 1 \in DOMAIN groups /\ n \in groups[R(n) + 1]
    OBVIOUS
  <2>1. R(n) + 1 \in 1 .. c /\ R(n) = (R(n) + 1) - 1
    BY <1>4
  <2>2. QED
    BY <1>5, <2>1
<1>7. \A n \in needed : \A i \in DOMAIN groups : n \in groups[i] => i = R(n) + 1
  BY <1>4, <1>5
<1>8. UNION {groups[i] : i \in DOMAIN groups} = needed
  BY <1>5, <1>6
<1>9. \A i \in DOMAIN groups : groups[i] # {}
  BY <1>4, <1>5
<1>10. \A i, k \in DOMAIN groups : i # k => groups[i] \cap groups[k] = {}
  BY <1>5, <1>7
<1>11. \A n \in needed : GroupOf(groups, n) = R(n) + 1
  BY <1>6, <1>7 DEF GroupOf
<1>12. ASSUME NEW n \in needed, NEW m \in needed, levels[m] < levels[n]
       PROVE  GroupOf(groups, m) < GroupOf(groups, n)
  BY <1>4, <1>11, <1>12
<1>13. QED
  BY <1>8, <1>9, <1>10, <1>12 DEF levels

(* parallel_groups, for every graph that is ever built and every order that *)
(* toposort may give: each node that needs recompilation is in exactly one  *)
(* group, no group is empty, and all that a node depends on, however far,   *)
(* is in earlier groups.                                                    *)
THEOREM GroupsRespectDependenciesCorrect == Spec => []GroupsRespectDependencies
<1>1. ASSUME GraphTypeOK PROVE GroupsRespectDependencies
  <2> DEFINE needed == NodesNeedingRecompile
  <2>1. /\ edges \in SUBSET (nodes \X nodes) /\ IsFiniteSet(edges) /\ IsFiniteSet(nodes)
        /\ Changed \in SUBSET nodes
    BY <1>1 DEF GraphTypeOK, Changed
  <2>2. needed \in SUBSET nodes /\ ClosedUnderDependents(edges, needed)
    BY <2>1, PropagateIsClosure DEF NodesNeedingRecompile
  <2>3. IsFiniteSet(needed)
    BY <2>1, <2>2, FS_Subset
  <2> HIDE DEF needed
  <2> SUFFICES ASSUME NEW order \in Orders
               PROVE  LET groups == Groups(edges, order, needed)
                      IN /\ UNION {groups[i] : i \in DOMAIN groups} = needed
                         /\ \A i \in DOMAIN groups : groups[i] # {}
                         /\ \A i, k \in DOMAIN groups : i # k => groups[i] \cap groups[k] = {}
                         /\ \A n, m \in needed : m \in DependsOn[n] => GroupOf(groups, m) < GroupOf(groups, n)
    BY Zenon DEF GroupsRespectDependencies, needed
  <2> DEFINE levels == Levels(edges, order, needed)
             groups == Groups(edges, order, needed)
  <2>4. IsLevelsOfNodes(edges, needed, levels)
    <3>1. IsTopological(nodes, edges, order)
      BY DEF Orders, IsTopological
    <3>2. QED
      BY <2>1, <2>2, <3>1, LevelsOfNodes
  <2>5. ASSUME NEW n \in needed, NEW m \in needed, m \in DependsOn[n]
        PROVE  levels[m] < levels[n]
    <3> HIDE DEF levels
    <3> DEFINE S == {x \in nodes : x \in needed => levels[x] < levels[n]}
    <3>1. levels \in [needed -> Nat] /\ \A x, y \in needed : <<x, y>> \in edges => levels[y] < levels[x]
      BY <2>4 DEF IsLevelsOfNodes
    <3>2. ASSUME NEW e \in edges, e[1] = n \/ e[1] \in S
          PROVE  e[2] \in S
      <4>1. e = <<e[1], e[2]>> /\ e[1] \in nodes /\ e[2] \in nodes
        BY <2>1
      <4>2. e[2] \in needed => e[1] \in needed
        BY <2>2 DEF ClosedUnderDependents
      <4>3. CASE e[2] \notin needed
        BY <4>1, <4>3
      <4>4. CASE e[2] \in needed
        <5>1. levels[e[2]] < levels[e[1]]
          BY <3>1, <4>1, <4>2, <4>4
        <5>2. levels[e[1]] <= levels[n]
          BY <3>1, <3>2, <4>2, <4>4
        <5>3. levels[e[2]] \in Nat /\ levels[e[1]] \in Nat /\ levels[n] \in Nat
          BY <3>1, <4>2, <4>4
        <5>4. levels[e[2]] < levels[n]
          BY <5>1, <5>2, <5>3
        <5>5. QED
          BY <4>1, <5>4
      <4>5. QED
        BY <4>3, <4>4
    <3>3. n \in nodes /\ S \in SUBSET nodes
      BY <2>2
    <3>4. DependsOn[n] \subseteq S
      <4> HIDE DEF S
      <4>1. \A e \in edges : e[1] = n \/ e[1] \in S => e[2] \in S
        BY <3>2
      <4>2. QED
        BY <2>1, <3>3, <4>1, DependsOnIsClosed
    <3>5. QED
      BY <2>5, <3>4
  <2> DEFINE gs == groups
  <2>6. gs = Groups(edges, order, needed)
    OBVIOUS
  <2> HIDE DEF gs, levels
  <2>7. /\ UNION {gs[i] : i \in DOMAIN gs} = needed
        /\ \A i \in DOMAIN gs : gs[i] # {}
        /\ \A i, k \in DOMAIN gs : i # k => gs[i] \cap gs[k] = {}
        /\ \A n, m \in needed : levels[m] < levels[n] => GroupOf(gs, m) < GroupOf(gs, n)
    BY <2>3, <2>4, <2>6, GroupsOfLevels DEF levels
  <2>8. \A n, m \in needed : m \in DependsOn[n] => GroupOf(gs, m) < GroupOf(gs, n)
    BY <2>5, <2>7
  <2>9. QED
    BY <2>7, <2>8 DEF gs
<1>2. QED
  BY <1>1, GraphTypeCorrect, PTL

-----------------------------------------------------------------------------
(* Rounds of compilation *)

Hashes == Contents \cup {NoHash}

BuildTypeOK ==
  /\ nodes = Nodes /\ edges = Edges
  /\ content_hash \in [Nodes -> Contents]
  /\ last_compiled_hash \in [Nodes -> Hashes]
  /\ round \in SUBSET Nodes /\ compiling \in SUBSET Nodes
  /\ read \in [Nodes -> [Nodes -> Hashes]]
  /\ built \in [Nodes -> [Nodes -> Hashes]]
  /\ pdfs \in SUBSET (Nodes \ Formats)

Pending == round \cup compiling

(* A node that was marked compiled as it was read has an output of that, or *)
(* an earlier PDF covers up for a content with errors.  A format is always  *)
(* of the marked content, before the first mark too.                        *)
OutputsOfMarked ==
  \A n \in Nodes \ raced : last_compiled_hash[n] # NoHash =>
    \/ built[n][n] = last_compiled_hash[n]
    \/ last_compiled_hash[n] \in Faulty /\ n \in pdfs

FormatsOfMarked == \A n \in Formats \ raced : built[n][n] = last_compiled_hash[n]

(* A node waits for a dependency that is not compiled yet. *)
RoundInOrder ==
  /\ round \cap compiling = {}
  /\ \A e \in Edges : e[2] \in Pending => e[1] \in round

(* What is stale in spite of its mark, and for others to read. *)
Spoilt == disturbed \cup (faltered \ Formats)

(* A node is compiled from what was read unless it was edited meanwhile;    *)
(* during a round, who is not in it is compiled; an output that nobody is   *)
(* about to replace was made of the marked contents; and what a compilation *)
(* has read stays current to its end.                                       *)
RacedAreDisturbed == raced \subseteq disturbed

OthersAreMarked ==
  ~BetweenRounds =>
    \A m \in Nodes \ (Pending \cup disturbed \cup faltered) : last_compiled_hash[m] = content_hash[m]

BuiltOfMarked ==
  \A n \in Nodes \ (Pending \cup faltered) : last_compiled_hash[n] # NoHash =>
    \A m \in Footprint(n) \ Spoilt : built[n][m] = last_compiled_hash[m]

ReadsCurrent ==
  \A n \in compiling : \A m \in Footprint(n) \ disturbed :
    read[n][m] = IF m \in Formats \ {n} THEN last_compiled_hash[m] ELSE content_hash[m]

BuildInv ==
  /\ BuildTypeOK
  /\ OutputsOfMarked
  /\ FormatsOfMarked
  /\ RoundInOrder
  /\ RacedAreDisturbed
  /\ OthersAreMarked
  /\ BuiltOfMarked
  /\ ReadsCurrent

(* Footprint and DependsOn speak of the graph, which stays. *)
LEMMA FootprintShape ==
  ASSUME BuildTypeOK, NEW n \in Nodes
  PROVE  /\ Footprint(n) = {n} \cup DependsOn[n]
         /\ Footprint(n) \in SUBSET Nodes
         /\ n \in NodesNeedingRecompile <=> \E m \in Footprint(n) : last_compiled_hash[m] # content_hash[m]
<1>1. edges \in SUBSET (nodes \X nodes) /\ IsFiniteSet(edges) /\ nodes = Nodes
  BY IncrementalBuildAssumption DEF BuildTypeOK
<1>2. DependsOn[n] \in SUBSET Nodes
  BY <1>1, DependsOnIsClosed
<1>3. n \in NodesNeedingRecompile <=> \E m \in Changed : n = m \/ m \in DependsOn[n]
  BY <1>1, NeededNodes
<1>4. QED
  BY <1>1, <1>2, <1>3 DEF Footprint, Changed, NeedsRecompile

LEMMA FootprintStays ==
  ASSUME nodes' = nodes, edges' = edges
  PROVE  /\ DependsOn' = DependsOn
         /\ \A n \in Nodes : Footprint(n)' = Footprint(n)
BY DEF Footprint, DependsOn, ClosedSets

LEMMA NeededStay ==
  ASSUME UNCHANGED vars
  PROVE  NodesNeedingRecompile' = NodesNeedingRecompile
BY DEF vars, NodesNeedingRecompile, Changed, NeedsRecompile

(* What a started node depends on is compiled. *)
LEMMA DependenciesAreDone ==
  ASSUME BuildTypeOK, RoundInOrder, NEW n \in Nodes \ round
  PROVE  DependsOn[n] \cap Pending = {}
<1> DEFINE S == Nodes \ Pending
<1>1. edges \in SUBSET (nodes \X nodes) /\ nodes = Nodes /\ edges = Edges
  BY IncrementalBuildAssumption DEF BuildTypeOK
<1>2. \A e \in edges : e[1] = n \/ e[1] \in S => e[2] \in S
  BY <1>1 DEF RoundInOrder, Pending
<1>3. DependsOn[n] \subseteq S
  BY <1>1, <1>2, DependsOnIsClosed
<1>4. QED
  BY <1>3

LEMMA BuildInvInit == BuildInit => BuildInv
<1> SUFFICES ASSUME BuildInit PROVE BuildInv
  OBVIOUS
<1>1. Nothing \in [Nodes -> Hashes]
  BY DEF Nothing, Hashes
<1>2. BuildTypeOK
  BY <1>1 DEF BuildInit, BuildTypeOK, Hashes
<1>3. OutputsOfMarked /\ RoundInOrder /\ RacedAreDisturbed /\ OthersAreMarked /\ BuiltOfMarked /\ ReadsCurrent
  BY DEF BuildInit, OutputsOfMarked, RoundInOrder, RacedAreDisturbed, OthersAreMarked,
         BuiltOfMarked, ReadsCurrent, Pending, BetweenRounds
<1>4. FormatsOfMarked
  BY IncrementalBuildAssumption DEF BuildInit, FormatsOfMarked, Nothing
<1>5. QED
  BY <1>2, <1>3, <1>4 DEF BuildInv

LEMMA StartRoundKeepsInv ==
  ASSUME BuildInv, StartRound
  PROVE  BuildInv'
<1> USE DEF BuildInv
<1> DEFINE Needed == NodesNeedingRecompile
<1>1. /\ UNCHANGED vars
      /\ nodes' = nodes /\ edges' = edges
      /\ content_hash' = content_hash /\ last_compiled_hash' = last_compiled_hash
      /\ compiling' = compiling /\ read' = read /\ built' = built /\ pdfs' = pdfs
      /\ faltered' = faltered /\ raced' = raced /\ disturbed' = disturbed
      /\ round = {} /\ compiling = {}
      /\ round' = Needed
  BY DEF StartRound, vars, outputs, history, BetweenRounds
<1>2. /\ Needed \in SUBSET Nodes /\ ClosedUnderDependents(Edges, Needed) /\ Needed' = Needed
      /\ Changed \subseteq Needed
  <2>1. Changed \in SUBSET Nodes /\ Edges \in SUBSET (Nodes \X Nodes) /\ IsFiniteSet(Edges)
    BY IncrementalBuildAssumption DEF Changed, BuildTypeOK
  <2>2. Needed = Propagate(Edges, Changed)
    BY DEF NodesNeedingRecompile, BuildTypeOK
  <2> HIDE DEF Needed
  <2>3. Needed \in SUBSET Nodes /\ ClosedUnderDependents(Edges, Needed) /\ Changed \subseteq Needed
    BY <2>1, <2>2, PropagateIsClosure
  <2>4. QED
    BY <1>1, <2>3, NeededStay DEF Needed
<1>3. BuildTypeOK'
  BY <1>1, <1>2 DEF BuildTypeOK
<1>4. OutputsOfMarked' /\ FormatsOfMarked' /\ RacedAreDisturbed'
  BY <1>1 DEF OutputsOfMarked, FormatsOfMarked, RacedAreDisturbed
<1>5. RoundInOrder'
  BY <1>1, <1>2 DEF RoundInOrder, Pending, ClosedUnderDependents
<1>6. OthersAreMarked'
  BY <1>1, <1>2 DEF OthersAreMarked, Pending, Changed, NeedsRecompile, BuildTypeOK
<1>7. \A n \in Nodes : Footprint(n)' = Footprint(n)
  BY <1>1, FootprintStays
<1>8. BuiltOfMarked'
  BY <1>1, <1>7 DEF BuiltOfMarked, Pending, Spoilt
<1>9. ReadsCurrent'
  BY <1>1 DEF ReadsCurrent
<1>10. QED
  BY <1>3, <1>4, <1>5, <1>6, <1>8, <1>9

(* A worker reads sources as they are and formats of the marked preambles:  *)
(* nobody compiles what it depends on until it has ended.                   *)
LEMMA StartCompileKeepsInv ==
  ASSUME BuildInv, NEW n \in Nodes, StartCompile(n)
  PROVE  BuildInv'
<1> USE DEF BuildInv
<1>1. /\ UNCHANGED vars
      /\ nodes' = nodes /\ edges' = edges
      /\ content_hash' = content_hash /\ last_compiled_hash' = last_compiled_hash
      /\ built' = built /\ pdfs' = pdfs
      /\ faltered' = faltered /\ raced' = raced /\ disturbed' = disturbed
      /\ n \in round
      /\ Dependencies(edges, n) \cap Pending = {}
      /\ round' = round \ {n} /\ compiling' = compiling \cup {n}
      /\ read' = [read EXCEPT ![n] = FoundBy(n)]
  BY DEF StartCompile, vars, outputs, history, Pending
<1>2. Pending' = Pending /\ Spoilt' = Spoilt
  BY <1>1 DEF Pending, Spoilt
<1>3. BetweenRounds' = BetweenRounds
  BY <1>1 DEF BetweenRounds, BuildTypeOK
<1>4. \A k \in Nodes : Footprint(k)' = Footprint(k)
  BY <1>1, FootprintStays
<1>5. FoundBy(n) \in [Nodes -> Hashes]
  BY DEF FoundBy, BuildTypeOK, Hashes
<1>6. BuildTypeOK'
  BY <1>1, <1>5 DEF BuildTypeOK
<1>7. OutputsOfMarked' /\ FormatsOfMarked' /\ RacedAreDisturbed'
  BY <1>1 DEF OutputsOfMarked, FormatsOfMarked, RacedAreDisturbed
<1>8. RoundInOrder'
  <2>1. \A e \in Edges : e[2] \in Pending => e[1] # n
    BY <1>1 DEF Dependencies, BuildTypeOK
  <2>2. QED
    BY <1>1, <1>2, <2>1 DEF RoundInOrder
<1>9. OthersAreMarked'
  BY <1>1, <1>2, <1>3 DEF OthersAreMarked
<1>10. BuiltOfMarked'
  BY <1>1, <1>2, <1>4 DEF BuiltOfMarked
<1>11. ReadsCurrent'
  <2> SUFFICES ASSUME NEW m \in Footprint(n) \ disturbed
               PROVE  FoundBy(n)[m] = IF m \in Formats \ {n} THEN last_compiled_hash[m] ELSE content_hash[m]
    BY <1>1, <1>4, <1>5 DEF ReadsCurrent, BuildTypeOK
  <2>1. Footprint(n) \in SUBSET Nodes
    BY FootprintShape
  <2>2. CASE m \notin Formats \ {n}
    BY <2>1, <2>2 DEF FoundBy
  <2>3. CASE m \in Formats \ {n}
    BY <2>1, <2>3 DEF FoundBy, FormatsOfMarked, RacedAreDisturbed
  <2>4. QED
    BY <2>2, <2>3
<1>12. QED
  BY <1>6, <1>7, <1>8, <1>9, <1>10, <1>11

(* The end of a compilation leaves what others have read, and whose outputs *)
(* are made of what, as it was: everybody who depends on the node waits.    *)
LEMMA EndCompileEffect ==
  ASSUME BuildInv, NEW n \in Nodes, EndCompile(n), nodes' = nodes, edges' = edges
  PROVE  /\ n \in compiling /\ n \notin round /\ ~BetweenRounds
         /\ Pending' = Pending \ {n} /\ disturbed' = disturbed
         /\ \A k \in Nodes : Footprint(k)' = Footprint(k) /\ Footprint(k) \in SUBSET Nodes
         /\ \A k \in Nodes \ Pending : n \notin Footprint(k)
         /\ \A k \in compiling \ {n} : n \notin Footprint(k)
         /\ DependsOn[n] \cap Pending = {}
         /\ RoundInOrder'
<1> USE DEF BuildInv
<1>1. /\ round' = round /\ disturbed' = disturbed
      /\ n \in compiling /\ compiling' = compiling \ {n}
  BY DEF EndCompile
<1>2. n \notin round /\ Pending' = Pending \ {n} /\ ~BetweenRounds
  BY <1>1 DEF RoundInOrder, Pending, BetweenRounds
<1>3. \A k \in Nodes : /\ Footprint(k)' = Footprint(k)
                       /\ Footprint(k) = {k} \cup DependsOn[k] /\ Footprint(k) \in SUBSET Nodes
  BY FootprintStays, FootprintShape
<1>4. \A k \in Nodes \ round : DependsOn[k] \cap Pending = {}
  BY DependenciesAreDone
<1>5. \A k \in Nodes \ round : k # n => n \notin Footprint(k)
  BY <1>1, <1>3, <1>4 DEF Pending
<1>6. \A k \in Nodes \ Pending : k \notin round /\ k # n
  BY <1>1 DEF Pending
<1>7. \A k \in compiling \ {n} : k \in Nodes \ round
  BY DEF RoundInOrder, BuildTypeOK
<1>8. RoundInOrder'
  BY <1>1, <1>2 DEF RoundInOrder
<1>9. QED
  BY <1>1, <1>2, <1>3, <1>4, <1>5, <1>6, <1>7, <1>8

LEMMA CompileSucceedsKeepsInv ==
  ASSUME BuildInv, NEW n \in Nodes, CompileSucceeds(n)
  PROVE  BuildInv'
<1> USE DEF BuildInv
<1>1. /\ nodes' = nodes /\ edges' = edges /\ content_hash' = content_hash
      /\ last_compiled_hash' = [last_compiled_hash EXCEPT ![n] = content_hash[n]]
      /\ round' = round /\ compiling' = compiling \ {n}
      /\ read' = [read EXCEPT ![n] = Nothing]
      /\ pdfs' = IF WritesPdf(n) THEN pdfs \cup {n} ELSE pdfs
      /\ built' = IF WritesOutput(n) THEN [built EXCEPT ![n] = read[n]] ELSE built
      /\ faltered' = IF WritesOutput(n) THEN faltered \ {n} ELSE faltered \cup {n}
      /\ raced' = IF read[n][n] = content_hash[n] THEN raced \ {n} ELSE raced \cup {n}
      /\ WritesOutput(n) \/ n \in pdfs
      /\ EndCompile(n)
  BY DEF CompileSucceeds, Succeeds, EndCompile, MarkCompiled
<1>2. /\ n \in compiling /\ n \notin round /\ ~BetweenRounds
      /\ Pending' = Pending \ {n} /\ disturbed' = disturbed
      /\ \A k \in Nodes : Footprint(k)' = Footprint(k) /\ Footprint(k) \in SUBSET Nodes
      /\ \A k \in Nodes \ Pending : n \notin Footprint(k)
      /\ \A k \in compiling \ {n} : n \notin Footprint(k)
      /\ DependsOn[n] \cap Pending = {}
      /\ RoundInOrder'
  BY <1>1, EndCompileEffect
<1>3. /\ last_compiled_hash'[n] = content_hash[n] /\ content_hash[n] # NoHash
      /\ \A k \in Nodes \ {n} : /\ last_compiled_hash'[k] = last_compiled_hash[k]
                               /\ built'[k] = built[k]
      /\ WritesOutput(n) => built'[n] = read[n]
  BY <1>1, DependencyGraphAssumption DEF BuildTypeOK
<1>4. BuildTypeOK'
  <2>1. /\ last_compiled_hash' \in [Nodes -> Hashes]
        /\ read' \in [Nodes -> [Nodes -> Hashes]]
        /\ built' \in [Nodes -> [Nodes -> Hashes]]
    BY <1>1 DEF BuildTypeOK, Hashes, Nothing
  <2>2. pdfs' \in SUBSET (Nodes \ Formats)
    BY <1>1 DEF BuildTypeOK, WritesPdf
  <2>3. QED
    BY <1>1, <2>1, <2>2 DEF BuildTypeOK
<1>5. pdfs \subseteq pdfs'
  BY <1>1
<1>6. OutputsOfMarked'
  <2> SUFFICES ASSUME NEW k \in Nodes, k \notin raced', last_compiled_hash'[k] # NoHash
               PROVE  \/ built'[k][k] = last_compiled_hash'[k]
                      \/ last_compiled_hash'[k] \in Faulty /\ k \in pdfs'
    BY DEF OutputsOfMarked
  <2>1. CASE k = n
    <3>1. read[n][n] = content_hash[n]
      BY <1>1, <2>1
    <3>2. CASE WritesOutput(n)
      BY <1>3, <2>1, <3>1, <3>2
    <3>3. CASE ~WritesOutput(n)
      BY <1>1, <1>3, <1>5, <2>1, <3>1, <3>3 DEF WritesOutput, WritesFormat, WritesPdf
    <3>4. QED
      BY <3>2, <3>3
  <2>2. CASE k # n
    <3>1. k \notin raced
      BY <1>1, <2>2
    <3>2. QED
      BY <1>3, <1>5, <2>2, <3>1 DEF OutputsOfMarked
  <2>3. QED
    BY <2>1, <2>2
<1>7. FormatsOfMarked'
  <2> SUFFICES ASSUME NEW k \in Formats, k \notin raced'
               PROVE  built'[k][k] = last_compiled_hash'[k]
    BY DEF FormatsOfMarked
  <2>1. k \in Nodes
    BY IncrementalBuildAssumption
  <2>2. CASE k = n
    BY <1>1, <1>3, <2>2 DEF WritesOutput, WritesFormat
  <2>3. CASE k # n
    BY <1>1, <1>3, <2>1, <2>3 DEF FormatsOfMarked
  <2>4. QED
    BY <2>2, <2>3
<1>8. RacedAreDisturbed'
  <2>1. n \notin disturbed => read[n][n] = content_hash[n]
    BY <1>2, FootprintShape DEF ReadsCurrent
  <2>2. QED
    BY <1>1, <1>2, <2>1 DEF RacedAreDisturbed
<1>9. OthersAreMarked'
  BY <1>1, <1>2, <1>3 DEF OthersAreMarked
<1>10. BuiltOfMarked'
  <2> SUFFICES ASSUME NEW k \in Nodes, k \notin Pending \ {n}, k \notin faltered',
                      last_compiled_hash'[k] # NoHash,
                      NEW m \in Footprint(k), m \notin disturbed, m \notin faltered' \ Formats
               PROVE  built'[k][m] = last_compiled_hash'[m]
    BY <1>2 DEF BuiltOfMarked, Spoilt
  <2>1. m \in Nodes
    BY <1>2
  <2>2. CASE k = n
    <3>1. built'[n] = read[n]
      BY <1>1, <1>3, <2>2
    <3>2. CASE m = n
      BY <1>2, <1>3, <2>2, <3>1, <3>2 DEF ReadsCurrent
    <3>3. CASE m # n /\ m \in Formats
      BY <1>2, <1>3, <2>1, <2>2, <3>1, <3>3 DEF ReadsCurrent
    <3>4. CASE m # n /\ m \notin Formats
      <4>1. m \notin Pending
        BY <1>2, <2>2, <3>4, FootprintShape
      <4>2. m \notin faltered
        BY <1>1, <3>4
      <4>3. last_compiled_hash[m] = content_hash[m]
        BY <1>2, <2>1, <4>1, <4>2 DEF OthersAreMarked
      <4>4. read[n][m] = content_hash[m]
        BY <1>2, <2>2, <3>4 DEF ReadsCurrent
      <4>5. QED
        BY <1>3, <2>1, <2>2, <3>1, <3>4, <4>3, <4>4
    <3>5. QED
      BY <3>2, <3>3, <3>4
  <2>3. CASE k # n
    <3>1. k \notin Pending /\ k \notin faltered
      BY <1>1, <2>3
    <3>2. m # n
      BY <1>2, <3>1
    <3>3. m \notin Spoilt
      BY <1>1, <3>2 DEF Spoilt
    <3>4. built[k][m] = last_compiled_hash[m]
      BY <1>3, <2>3, <3>1, <3>3 DEF BuiltOfMarked
    <3>5. QED
      BY <1>3, <2>1, <2>3, <3>2, <3>4
  <2>4. QED
    BY <2>2, <2>3
<1>11. ReadsCurrent'
  <2> SUFFICES ASSUME NEW k \in compiling, k # n, NEW m \in Footprint(k), m \notin disturbed
               PROVE  read'[k][m] = IF m \in Formats \ {k} THEN last_compiled_hash'[m] ELSE content_hash[m]
    BY <1>1, <1>2 DEF ReadsCurrent, BuildTypeOK
  <2>1. k \in Nodes /\ m \in Nodes /\ m # n
    BY <1>2 DEF BuildTypeOK
  <2>2. read'[k] = read[k] /\ last_compiled_hash'[m] = last_compiled_hash[m]
    BY <1>1, <1>3, <2>1 DEF BuildTypeOK
  <2>3. QED
    BY <2>2 DEF ReadsCurrent
<1>12. QED
  BY <1>2, <1>4, <1>6, <1>7, <1>8, <1>9, <1>10, <1>11

LEMMA CompileFailsKeepsInv ==
  ASSUME BuildInv, NEW n \in Nodes, CompileFails(n)
  PROVE  BuildInv'
<1> USE DEF BuildInv
<1>1. /\ nodes' = nodes /\ edges' = edges /\ content_hash' = content_hash
      /\ last_compiled_hash' = last_compiled_hash
      /\ round' = round /\ compiling' = compiling \ {n}
      /\ read' = [read EXCEPT ![n] = Nothing]
      /\ pdfs' \in {pdfs, IF WritesPdf(n) THEN pdfs \cup {n} ELSE pdfs}
      /\ built' = built /\ raced' = raced /\ faltered' = faltered \cup {n}
      /\ EndCompile(n)
  BY DEF CompileFails, EndCompile, vars
<1>2. /\ n \in compiling /\ n \notin round /\ ~BetweenRounds
      /\ Pending' = Pending \ {n} /\ disturbed' = disturbed
      /\ \A k \in Nodes : Footprint(k)' = Footprint(k) /\ Footprint(k) \in SUBSET Nodes
      /\ \A k \in Nodes \ Pending : n \notin Footprint(k)
      /\ \A k \in compiling \ {n} : n \notin Footprint(k)
      /\ RoundInOrder'
  BY <1>1, EndCompileEffect
<1>3. pdfs \subseteq pdfs' /\ pdfs' \in SUBSET (Nodes \ Formats)
  BY <1>1 DEF WritesPdf, BuildTypeOK
<1>4. BuildTypeOK'
  BY <1>1, <1>3 DEF BuildTypeOK, Hashes, Nothing
<1>5. OutputsOfMarked' /\ FormatsOfMarked' /\ RacedAreDisturbed'
  BY <1>1, <1>2, <1>3 DEF OutputsOfMarked, FormatsOfMarked, RacedAreDisturbed
<1>6. OthersAreMarked'
  BY <1>1, <1>2 DEF OthersAreMarked
<1>7. BuiltOfMarked'
  <2> SUFFICES ASSUME NEW k \in Nodes, k \notin Pending \ {n}, k \notin faltered \cup {n},
                      last_compiled_hash[k] # NoHash,
                      NEW m \in Footprint(k), m \notin disturbed, m \notin (faltered \cup {n}) \ Formats
               PROVE  built[k][m] = last_compiled_hash[m]
    BY <1>1, <1>2 DEF BuiltOfMarked, Spoilt
  <2>1. QED
    BY DEF BuiltOfMarked, Spoilt
<1>8. ReadsCurrent'
  <2> SUFFICES ASSUME NEW k \in compiling, k # n, NEW m \in Footprint(k), m \notin disturbed
               PROVE  read'[k][m] = IF m \in Formats \ {k} THEN last_compiled_hash[m] ELSE content_hash[m]
    BY <1>1, <1>2 DEF ReadsCurrent, BuildTypeOK
  <2>1. k \in Nodes /\ read'[k] = read[k]
    BY <1>1 DEF BuildTypeOK
  <2>2. QED
    BY <2>1 DEF ReadsCurrent
<1>9. QED
  BY <1>2, <1>4, <1>5, <1>6, <1>7, <1>8

(* An edit changes no output and no mark. *)
LEMMA UserEditsKeepsInv ==
  ASSUME BuildInv, NEW n \in Nodes, NEW c \in Contents, UserEdits(n, c)
  PROVE  BuildInv'
<1> USE DEF BuildInv
<1>1. /\ nodes' = nodes /\ edges' = edges
      /\ content_hash' = [content_hash EXCEPT ![n] = c]
      /\ last_compiled_hash' = last_compiled_hash
      /\ round' = round /\ compiling' = compiling
      /\ read' = read /\ built' = built /\ pdfs' = pdfs
      /\ raced' = raced /\ faltered' = faltered
      /\ disturbed' = IF BetweenRounds THEN disturbed ELSE disturbed \cup {n}
  BY DEF UserEdits, Edit, outputs
<1>2. /\ Pending' = Pending /\ BetweenRounds' = BetweenRounds
      /\ disturbed \subseteq disturbed' /\ Spoilt \subseteq Spoilt'
  BY <1>1 DEF Pending, BetweenRounds, Spoilt
<1>3. ~BetweenRounds => n \in disturbed' /\ \A m \in Nodes \ {n} : content_hash'[m] = content_hash[m]
  BY <1>1 DEF BuildTypeOK
<1>4. \A k \in Nodes : Footprint(k)' = Footprint(k) /\ Footprint(k) \in SUBSET Nodes
  BY <1>1, FootprintStays, FootprintShape
<1>5. BuildTypeOK'
  BY <1>1 DEF BuildTypeOK
<1>6. OutputsOfMarked' /\ FormatsOfMarked' /\ RacedAreDisturbed'
  BY <1>1, <1>2 DEF OutputsOfMarked, FormatsOfMarked, RacedAreDisturbed
<1>7. RoundInOrder'
  BY <1>1, <1>2 DEF RoundInOrder
<1>8. OthersAreMarked'
  BY <1>1, <1>2, <1>3 DEF OthersAreMarked
<1>9. BuiltOfMarked'
  BY <1>1, <1>2, <1>4 DEF BuiltOfMarked
<1>10. ReadsCurrent'
  <2> SUFFICES ASSUME NEW k \in compiling, NEW m \in Footprint(k), m \notin disturbed'
               PROVE  read[k][m] = IF m \in Formats \ {k} THEN last_compiled_hash[m] ELSE content_hash'[m]
    BY <1>1, <1>4 DEF ReadsCurrent, BuildTypeOK
  <2>1. ~BetweenRounds /\ k \in Nodes /\ m \in Nodes
    BY <1>4 DEF BetweenRounds, BuildTypeOK
  <2>2. content_hash'[m] = content_hash[m] /\ m \notin disturbed
    BY <1>2, <1>3, <2>1
  <2>3. QED
    BY <2>2 DEF ReadsCurrent
<1>11. QED
  BY <1>5, <1>6, <1>7, <1>8, <1>9, <1>10

LEMMA BuildInvInductive ==
  ASSUME BuildInv, [BuildNext]_buildVars
  PROVE  BuildInv'
<1>1. ASSUME StartRound PROVE BuildInv'
  BY <1>1, StartRoundKeepsInv
<1>2. ASSUME NEW n \in Nodes, StartCompile(n) PROVE BuildInv'
  BY <1>2, StartCompileKeepsInv
<1>3. ASSUME NEW n \in Nodes, CompileSucceeds(n) PROVE BuildInv'
  BY <1>3, CompileSucceedsKeepsInv
<1>4. ASSUME NEW n \in Nodes, CompileFails(n) PROVE BuildInv'
  BY <1>4, CompileFailsKeepsInv
<1>5. ASSUME NEW n \in Nodes, NEW c \in Contents, UserEdits(n, c) PROVE BuildInv'
  BY <1>5, UserEditsKeepsInv
<1>6. ASSUME UNCHANGED buildVars PROVE BuildInv'
  <2> USE DEF BuildInv
  <2>1. /\ nodes' = nodes /\ edges' = edges
        /\ content_hash' = content_hash /\ last_compiled_hash' = last_compiled_hash
        /\ round' = round /\ compiling' = compiling /\ read' = read
        /\ built' = built /\ pdfs' = pdfs
        /\ faltered' = faltered /\ raced' = raced /\ disturbed' = disturbed
    BY <1>6 DEF buildVars, outputs, history, vars
  <2>2. Pending' = Pending /\ Spoilt' = Spoilt /\ BetweenRounds' = BetweenRounds
    BY <2>1 DEF Pending, Spoilt, BetweenRounds
  <2>3. \A k \in Nodes : Footprint(k)' = Footprint(k)
    BY <2>1, FootprintStays
  <2>4. BuildTypeOK' /\ OutputsOfMarked' /\ FormatsOfMarked' /\ RoundInOrder' /\ RacedAreDisturbed'
    BY <2>1, <2>2 DEF BuildTypeOK, OutputsOfMarked, FormatsOfMarked, RoundInOrder, RacedAreDisturbed
  <2>5. OthersAreMarked'
    BY <2>1, <2>2 DEF OthersAreMarked
  <2>6. BuiltOfMarked'
    BY <2>1, <2>2, <2>3 DEF BuiltOfMarked
  <2>7. ReadsCurrent'
    BY <2>1, <2>3 DEF ReadsCurrent, BuildTypeOK
  <2>8. QED
    BY <2>4, <2>5, <2>6, <2>7
<1>7. QED
  BY <1>1, <1>2, <1>3, <1>4, <1>5, <1>6 DEF BuildNext

(* The invariant of the rounds, for every project, every sequence of edits, *)
(* every outcome of the compilations and every PDF left from before.        *)
THEOREM BuildInvCorrect == BuildSpec => []BuildInv
<1>1. BuildInv /\ [BuildNext]_buildVars => BuildInv'
  BY BuildInvInductive
<1>2. QED
  BY <1>1, BuildInvInit, PTL DEF BuildSpec

(* A node that the graph calls up to date has an output of its own current  *)
(* content, and so has every node below it, but for nodes edited while they *)
(* were compiled; only where the content has errors may a PDF of an earlier *)
(* compilation, or of an earlier life of the output directory, stand in.    *)
THEOREM UpToDateNodesAreCompiledCorrect == BuildSpec => []UpToDateNodesAreCompiled
<1>1. ASSUME BuildInv PROVE UpToDateNodesAreCompiled
  <2> USE <1>1 DEF BuildInv
  <2> SUFFICES ASSUME NEW n \in UpToDate, NEW m \in Footprint(n) \ raced
               PROVE  built[m][m] = content_hash[m] \/ (content_hash[m] \in Faulty /\ m \in pdfs)
    BY DEF UpToDateNodesAreCompiled
  <2>1. n \in Nodes /\ n \notin NodesNeedingRecompile
    BY DEF UpToDate, BuildTypeOK
  <2>2. m \in Nodes /\ last_compiled_hash[m] = content_hash[m]
    BY <2>1, FootprintShape
  <2>3. last_compiled_hash[m] # NoHash
    BY <2>2, DependencyGraphAssumption DEF BuildTypeOK
  <2>4. QED
    BY <2>2, <2>3 DEF OutputsOfMarked
<1>2. QED
  BY <1>1, BuildInvCorrect, PTL

(* The output of a node that is up to date is made of the current contents  *)
(* of everything it depends on, through preambles' outputs too; what a      *)
(* failed compilation, a PDF from before and an edit during a round can     *)
(* spoil is that node's own output and what others read of its source.      *)
THEOREM UpToDateNodesAreCurrentCorrect == BuildSpec => []UpToDateNodesAreCurrent
<1>1. ASSUME BuildInv PROVE UpToDateNodesAreCurrent
  <2> USE <1>1 DEF BuildInv
  <2> SUFFICES ASSUME NEW n \in UpToDate, n \notin Pending, n \notin faltered,
                      NEW m \in Footprint(n), m \notin Spoilt
               PROVE  built[n][m] = content_hash[m]
    BY DEF UpToDateNodesAreCurrent, Spoilt, Pending
  <2>1. n \in Nodes /\ n \notin NodesNeedingRecompile
    BY DEF UpToDate, BuildTypeOK
  <2>2. /\ n \in Footprint(n) /\ m \in Nodes
        /\ last_compiled_hash[n] = content_hash[n]
        /\ last_compiled_hash[m] = content_hash[m]
    BY <2>1, FootprintShape
  <2>3. last_compiled_hash[n] # NoHash
    BY <2>1, <2>2, DependencyGraphAssumption DEF BuildTypeOK
  <2>4. QED
    BY <2>1, <2>2, <2>3 DEF BuiltOfMarked
<1>2. QED
  BY <1>1, BuildInvCorrect, PTL

-----------------------------------------------------------------------------
(* The phases of a plan *)

Phases == [type : NodeTypes, nodes : Nat, parallel : BOOLEAN, depends_on : SUBSET Int]

(* Phases in a chain: each depends on the one before it, by its place from  *)
(* 0, and the first on none.                                                *)
IsChain(phases) ==
  /\ phases \in Seq(Phases)
  /\ \A i \in DOMAIN phases : phases[i].depends_on = IF i = 1 THEN {} ELSE {i - 2}

IsDocument(doc) == doc \in [NodeTypes -> Nat]

(* Where a phase of a type may stand: behind which phases. *)
MayFollow(phases, type) ==
  /\ type \in NodeTypes
  /\ type = Preamble => Len(phases) = 0
  /\ type = Chapter => Len(phases) <= 1
  /\ type \notin {Preamble, Chapter} => Len(phases) > 0

(* build_phases prolongs a chain, if chapters are second at most and the    *)
(* phases after them not first.                                             *)
LEMMA AddPhaseToChain ==
  ASSUME NEW phases, IsChain(phases), NEW type, MayFollow(phases, type),
         NEW doc, IsDocument(doc), NEW strategy, IsParallel(strategy) \in BOOLEAN
  PROVE  /\ IsChain(AddPhase(phases, type, doc, strategy))
         /\ Len(AddPhase(phases, type, doc, strategy))
              = IF doc[type] = 0 THEN Len(phases) ELSE Len(phases) + 1
<1> DEFINE n     == Len(phases)
           added == [type |-> type, nodes |-> doc[type],
                     parallel |-> type = Chapter /\ IsParallel(strategy),
                     depends_on |-> DependsOnPhases(type, n)]
<1> USE DEF MayFollow, IsDocument
<1>1. n \in Nat /\ phases \in Seq(Phases)
  BY DEF IsChain
<1>2. DependsOnPhases(type, n) = IF n = 0 THEN {} ELSE {n - 1}
  <2>1. CASE type = Preamble
    BY <2>1 DEF DependsOnPhases
  <2>2. CASE type = Chapter
    <3>1. DependsOnPhases(type, n) = IF n = 0 THEN {} ELSE {0}
      BY <2>2 DEF DependsOnPhases, Preamble, Chapter
    <3>2. n <= 1
      BY <2>2
    <3> HIDE DEF n
    <3>3. n # 0 => n - 1 = 0
      BY <1>1, <3>2
    <3>4. QED
      BY <3>1, <3>3
  <2>3. CASE type \notin {Preamble, Chapter}
    <3>1. n # 0
      BY <2>3
    <3>2. DependsOnPhases(type, n) = {n - 1}
      BY <2>3, <3>1 DEF DependsOnPhases
    <3>3. QED
      BY <3>1, <3>2
  <2>4. QED
    BY <2>1, <2>2, <2>3
<1>3. added \in Phases
  <2>1. (type = Chapter /\ IsParallel(strategy)) \in BOOLEAN
    OBVIOUS
  <2>2. DependsOnPhases(type, n) \in SUBSET Int /\ doc[type] \in Nat
    BY <1>1, <1>2
  <2>3. QED
    BY <2>1, <2>2 DEF Phases
<1>4. CASE doc[type] = 0
  BY <1>1, <1>4 DEF AddPhase
<1>5. CASE doc[type] # 0
  <2>1. AddPhase(phases, type, doc, strategy) = Append(phases, added)
    BY <1>5 DEF AddPhase
  <2>2. added.depends_on = IF n + 1 = 1 THEN {} ELSE {n + 1 - 2}
    BY <1>1, <1>2
  <2> HIDE DEF added
  <2>3. Append(phases, added) \in Seq(Phases) /\ Len(Append(phases, added)) = n + 1
    BY <1>1, <1>3
  <2>4. \A i \in 1 .. n + 1 : Append(phases, added)[i] = IF i = n + 1 THEN added ELSE phases[i]
    BY <1>1, <1>3
  <2>5. DOMAIN Append(phases, added) = 1 .. n + 1 /\ DOMAIN phases = 1 .. n
    BY <1>1, <2>3
  <2>6. IsChain(Append(phases, added))
    <3> DEFINE longer == Append(phases, added)
    <3>1. ASSUME NEW i \in 1 .. n + 1
          PROVE  longer[i].depends_on = IF i = 1 THEN {} ELSE {i - 2}
      <4>1. CASE i = n + 1
        BY <2>2, <2>4, <4>1
      <4>2. CASE i # n + 1
        <5>1. i \in DOMAIN phases /\ longer[i] = phases[i]
          BY <1>1, <2>4, <2>5, <4>2
        <5>2. QED
          BY <5>1 DEF IsChain
      <4>3. QED
        BY <4>1, <4>2
    <3> HIDE DEF longer
    <3>2. longer \in Seq(Phases) /\ DOMAIN longer = 1 .. n + 1
      BY <2>3, <2>5 DEF longer
    <3>3. IsChain(longer)
      BY <3>1, <3>2 DEF IsChain
    <3>4. QED
      BY <3>3 DEF longer
  <2>7. QED
    BY <1>5, <2>1, <2>3, <2>6
<1>6. QED
  BY <1>4, <1>5

LEMMA BuildPhasesChain ==
  ASSUME NEW doc, IsDocument(doc), NEW strategy, IsParallel(strategy) \in BOOLEAN,
         doc[Preamble] + doc[Chapter] > 0
  PROVE  IsChain(BuildPhases(doc, strategy))
<1> DEFINE preamble     == AddPhase(<<>>, Preamble, doc, strategy)
           chapters     == AddPhase(preamble, Chapter, doc, strategy)
           bibliography == AddPhase(chapters, Bibliography, doc, strategy)
           merge        == AddPhase(bibliography, MainDocument, doc, strategy)
<1>1. /\ {Preamble, Chapter, Bibliography, MainDocument} \subseteq NodeTypes
      /\ Chapter # Preamble /\ Bibliography \notin {Preamble, Chapter}
      /\ MainDocument \notin {Preamble, Chapter}
  BY DEF Preamble, Chapter, Bibliography, MainDocument, NodeTypes
<1>2. doc[Preamble] \in Nat /\ doc[Chapter] \in Nat
  BY <1>1 DEF IsDocument
<1>3. BuildPhases(doc, strategy) = merge
  BY DEF BuildPhases
<1>4. IsChain(<<>>) /\ Len(<<>>) = 0
  BY DEF IsChain
<1>5. IsChain(preamble) /\ Len(preamble) = IF doc[Preamble] = 0 THEN 0 ELSE 1
  <2>1. MayFollow(<<>>, Preamble)
    BY <1>1, <1>4 DEF MayFollow
  <2>2. QED
    BY <1>4, <2>1, AddPhaseToChain
<1> HIDE DEF preamble
<1>6. IsChain(chapters) /\ Len(chapters) = IF doc[Chapter] = 0 THEN Len(preamble) ELSE Len(preamble) + 1
  <2>1. MayFollow(preamble, Chapter)
    BY <1>1, <1>5 DEF MayFollow
  <2>2. IsChain(preamble)
    BY <1>5
  <2>3. QED
    BY <2>1, <2>2, AddPhaseToChain
<1> HIDE DEF chapters
<1>7. Len(chapters) > 0
  BY <1>2, <1>5, <1>6
<1>8. /\ IsChain(bibliography)
      /\ Len(bibliography) = IF doc[Bibliography] = 0 THEN Len(chapters) ELSE Len(chapters) + 1
  <2>1. MayFollow(chapters, Bibliography)
    BY <1>1, <1>7 DEF MayFollow
  <2>2. QED
    BY <1>6, <2>1, AddPhaseToChain
<1> HIDE DEF bibliography
<1>9. Len(bibliography) > 0
  <2>1. Len(chapters) \in Nat
    BY <1>6 DEF IsChain
  <2>2. QED
    BY <1>7, <1>8, <2>1
<1>10. IsChain(merge)
  <2>1. MayFollow(bibliography, MainDocument)
    BY <1>1, <1>9 DEF MayFollow
  <2>2. QED
    BY <1>8, <2>1, AddPhaseToChain
<1>11. QED
  BY <1>3, <1>10

(* In a chain a phase waits for all phases before it. *)
LEMMA ChainAwaits ==
  ASSUME NEW phases, IsChain(phases), NEW i \in DOMAIN phases
  PROVE  Awaited(phases, i) = 0 .. i - 2
<1> DEFINE n == Len(phases)
           Indices == 0 .. n - 1
           On(d) == phases[d + 1].depends_on
           Step(X) == X \cup UNION {phases[d + 1].depends_on : d \in X}
           F == [X \in SUBSET Indices |-> Step(X)]
           first == phases[i].depends_on
           Body(f) == [k \in Nat |-> IF k = 0 THEN first
                                     ELSE f[k - 1] \cup UNION {phases[d + 1].depends_on : d \in f[k - 1]}]
           reach == CHOOSE f : f = Body(f)
<1>1. n \in Nat /\ DOMAIN phases = 1 .. n /\ i \in 1 .. n
  BY DEF IsChain
<1>2. first = (IF i = 1 THEN {} ELSE {i - 2}) /\ first \in SUBSET Indices
  <2>1. first = IF i = 1 THEN {} ELSE {i - 2}
    BY DEF IsChain
  <2>2. i # 1 => i - 2 \in Indices
    BY <1>1
  <2>3. QED
    BY <2>1, <2>2
<1>3. \A d \in Indices : phases[d + 1].depends_on = IF d = 0 THEN {} ELSE {d - 1}
  <2> SUFFICES ASSUME NEW d \in Indices PROVE phases[d + 1].depends_on = IF d = 0 THEN {} ELSE {d - 1}
    OBVIOUS
  <2>1. PICK j \in DOMAIN phases : j = d + 1
    BY <1>1
  <2>2. phases[j].depends_on = IF j = 1 THEN {} ELSE {j - 2}
    BY DEF IsChain
  <2>3. (j = 1 <=> d = 0) /\ j - 2 = d - 1
    BY <1>1, <2>1
  <2>4. QED
    BY <2>1, <2>2, <2>3
<1>4. \A X \in SUBSET Indices : \A x : x \in Step(X) <=> x \in X \/ \E d \in X : d # 0 /\ x = d - 1
  <2> SUFFICES ASSUME NEW X \in SUBSET Indices, NEW x
               PROVE  x \in Step(X) <=> x \in X \/ \E d \in X : d # 0 /\ x = d - 1
    OBVIOUS
  <2>1. x \in Step(X) <=> x \in X \/ \E d \in X : x \in phases[d + 1].depends_on
    OBVIOUS
  <2>2. \A d \in X : x \in phases[d + 1].depends_on <=> d # 0 /\ x = d - 1
    BY <1>3
  <2>3. QED
    BY <2>1, <2>2
<1>5. \A X \in SUBSET Indices : Step(X) \in SUBSET Indices
  <2> SUFFICES ASSUME NEW X \in SUBSET Indices, NEW x \in Step(X) PROVE x \in Indices
    OBVIOUS
  <2>1. x \in X \/ \E d \in X : d # 0 /\ x = d - 1
    BY <1>4
  <2> HIDE DEF Step
  <2>2. ASSUME NEW d \in X, d # 0 PROVE d - 1 \in Indices
    BY <1>1, <2>2
  <2>3. QED
    BY <2>1, <2>2
<1>6. PICK f : IsIteration(SUBSET Indices, first, F, f)
  <2>1. Iterable(SUBSET Indices, first, F)
    BY <1>2, <1>5 DEF Iterable
  <2> HIDE DEF F
  <2>2. QED
    BY <2>1, Iteration
<1>7. f = Body(f)
  <2>1. ASSUME NEW k \in Nat
        PROVE  f[k] = Body(f)[k]
    <3>1. CASE k = 0
      BY <1>6, <3>1 DEF IsIteration
    <3>2. CASE k # 0
      <4>1. k - 1 \in Nat /\ (k - 1) + 1 = k
        BY <3>2
      <4>2. f[k] = F[f[k - 1]] /\ f[k - 1] \in SUBSET Indices
        BY <1>6, <4>1 DEF IsIteration
      <4>3. QED
        BY <3>2, <4>2
    <3>3. QED
      BY <3>1, <3>2
  <2>2. QED
    BY <1>6, <2>1 DEF IsIteration
<1>8. reach = Body(reach)
  BY <1>7
<1>9. Awaited(phases, i) = reach[n]
  BY DEF Awaited
<1> HIDE DEF reach
<1>10. reach[0] = first /\ \A k \in Nat : reach[k + 1] = Step(reach[k])
  <2>1. ASSUME NEW k \in Nat
        PROVE  reach[k] = IF k = 0 THEN first ELSE Step(reach[k - 1])
    <3>1. reach[k] = Body(reach)[k]
      BY <1>8, Zenon
    <3>2. QED
      BY <3>1
  <2> HIDE DEF Step, first
  <2>2. ASSUME NEW k \in Nat
        PROVE  reach[k + 1] = Step(reach[k])
    <3>1. k + 1 \in Nat /\ k + 1 # 0 /\ (k + 1) - 1 = k
      OBVIOUS
    <3>2. QED
      BY <2>1, <3>1
  <2>3. QED
    BY <2>1, <2>2
<1> DEFINE Reached(k) == {d \in Indices : d <= i - 2 /\ d >= i - 2 - k}
           P == {k \in Nat : reach[k] = Reached(k)}
<1>11. 0 \in P
  BY <1>1, <1>2, <1>10
<1>12. ASSUME NEW k \in Nat, k \in P
       PROVE  k + 1 \in P
  <2> HIDE DEF Step, first
  <2>1. reach[k] = Reached(k) /\ Reached(k) \in SUBSET Indices
    BY <1>12
  <2>2. \A x : x \in Step(Reached(k)) <=> x \in Reached(k) \/ \E d \in Reached(k) : d # 0 /\ x = d - 1
    BY <1>4, <2>1
  <2>3. \A x : x \in Reached(k + 1) <=> x \in Reached(k) \/ \E d \in Reached(k) : d # 0 /\ x = d - 1
    <3> SUFFICES ASSUME NEW x PROVE x \in Reached(k + 1) <=> x \in Reached(k) \/ \E d \in Reached(k) : d # 0 /\ x = d - 1
      OBVIOUS
    <3>1. ASSUME x \in Reached(k + 1), x \notin Reached(k) PROVE \E d \in Reached(k) : d # 0 /\ x = d - 1
      <4>1. x \in Int /\ x = i - 3 - k /\ x >= 0 /\ x <= i - 2
        BY <1>1, <3>1
      <4>2. x + 1 \in Reached(k) /\ x + 1 # 0 /\ x = (x + 1) - 1
        BY <1>1, <3>1, <4>1
      <4>3. QED
        BY <4>2, Zenon
    <3>2. ASSUME NEW d \in Reached(k), d # 0, x = d - 1 PROVE x \in Reached(k + 1)
      BY <1>1, <3>2
    <3>3. x \in Reached(k) => x \in Reached(k + 1)
      BY <1>1
    <3>4. QED
      BY <3>1, <3>2, <3>3
  <2>4. reach[k + 1] = Step(Reached(k))
    BY <1>10, <2>1
  <2> HIDE DEF Last
  <2>5. reach[k + 1] = Reached(k + 1)
    BY <2>2, <2>3, <2>4
  <2>6. QED
    BY <2>5
<1>13. n \in P
  <2> HIDE DEF P
  <2>1. QED
    BY <1>1, <1>11, <1>12, Induction
<1>14. Reached(n) = 0 .. i - 2
  BY <1>1
<1>15. QED
  BY <1>9, <1>13, <1>14

(* SYSTEM_ANALYSIS.md, "Linearization Requirements": in every plan of a     *)
(* document with a preamble or chapters, a phase waits for the phases       *)
(* before it and for no others.                                             *)
THEOREM PhasesWaitForEarlierOnesCorrect == PlannerSpec => []PhasesWaitForEarlierOnes
<1>1. PlannerInit => PhasesWaitForEarlierOnes
  BY DEF PlannerInit, PhasesWaitForEarlierOnes
<1>2. ASSUME NEW doc \in Documents, NEW mode \in Modes, NEW workers \in 1 .. MaxWorkers,
             MakePlan(doc, mode, workers)
      PROVE  PhasesWaitForEarlierOnes'
  <2> DEFINE used == IF mode = "Auto" THEN RecommendedMode(doc) ELSE mode
             strategy == Strategy(used, workers)
  <2>1. plan'.document = doc /\ plan'.phases = BuildPhases(doc, strategy)
    BY <1>2 DEF MakePlan, PlanFor
  <2>2. IsDocument(doc)
    BY CompilationPlanAssumption DEF Documents, IsDocument
  <2>3. IsParallel(strategy) \in BOOLEAN
    BY DEF IsParallel
  <2> HIDE DEF strategy
  <2>4. QED
    BY <2>1, <2>2, <2>3, BuildPhasesChain, ChainAwaits DEF PhasesWaitForEarlierOnes
<1>3. PhasesWaitForEarlierOnes /\ UNCHANGED plan => PhasesWaitForEarlierOnes'
  BY DEF PhasesWaitForEarlierOnes
<1>4. PhasesWaitForEarlierOnes /\ [PlannerNext]_plan => PhasesWaitForEarlierOnes'
  BY <1>2, <1>3 DEF PlannerNext
<1>5. QED
  BY <1>1, <1>4, PTL DEF PlannerSpec

-----------------------------------------------------------------------------
(* Comments *)

(* Whether the backslashes that end at a place are odd in number. *)
OddRun(line, i) == Cardinality(BackslashesBefore(line, i + 1)) % 2 = 1

LEMMA RunOfBackslashes ==
  ASSUME NEW line, NEW i \in Nat
  PROVE  /\ OddRun(line, i) \in BOOLEAN
         /\ OddRun(line, i) <=> i > 0 /\ line[i] = Backslash /\ ~OddRun(line, i - 1)
<1> DEFINE Run(j) == BackslashesBefore(line, j + 1)
<1>1. \A j \in Int : Run(j) = {k \in 1 .. j : \A m \in k .. j : line[m] = Backslash}
  BY DEF BackslashesBefore
<1>2. \A j \in Int : IsFiniteSet(Run(j)) /\ Cardinality(Run(j)) \in Nat
  <2> SUFFICES ASSUME NEW j \in Int PROVE IsFiniteSet(Run(j))
    BY FS_CardinalityType
  <2>1. IsFiniteSet(1 .. j) /\ Run(j) \subseteq 1 .. j
    BY <1>1, FS_Interval
  <2>2. QED
    BY <2>1, FS_Subset
<1> HIDE DEF Run
<1>3. CASE i > 0 /\ line[i] = Backslash
  <2>1. Run(i) = Run(i - 1) \cup {i} /\ i \notin Run(i - 1)
    <3>1. ASSUME NEW k \in Run(i), k # i PROVE k \in Run(i - 1)
      BY <1>1, <3>1
    <3>2. ASSUME NEW k \in Run(i - 1) PROVE k \in Run(i)
      <4>1. k \in 1 .. i /\ \A m \in k .. i - 1 : line[m] = Backslash
        BY <1>1
      <4>2. \A m \in k .. i : m = i \/ m \in k .. i - 1
        BY <4>1
      <4>3. \A m \in k .. i : line[m] = Backslash
        BY <1>3, <4>1, <4>2
      <4>4. QED
        BY <1>1, <4>1, <4>3
    <3>3. i \in Run(i)
      BY <1>1, <1>3
    <3>4. i \notin Run(i - 1)
      BY <1>1
    <3>5. QED
      BY <3>1, <3>2, <3>3, <3>4
  <2>2. Cardinality(Run(i)) = Cardinality(Run(i - 1)) + 1
    <3>1. IsFiniteSet(Run(i - 1))
      BY <1>2
    <3>2. QED
      BY <2>1, <3>1, FS_AddElement
  <2> DEFINE before == Cardinality(Run(i - 1))
  <2>3. before \in Nat /\ Cardinality(Run(i)) = before + 1
    BY <1>2, <2>2
  <2> HIDE DEF before
  <2>4. (before + 1) % 2 = 1 <=> ~(before % 2 = 1)
    BY <2>3
  <2>5. OddRun(line, i) <=> ~OddRun(line, i - 1)
    <3>1. OddRun(line, i) <=> (before + 1) % 2 = 1
      BY <2>3 DEF OddRun, Run
    <3>2. OddRun(line, i - 1) <=> before % 2 = 1
      BY DEF OddRun, Run, before
    <3>3. QED
      BY <2>4, <3>1, <3>2
  <2>6. QED
    BY <1>3, <2>5 DEF OddRun
<1>4. CASE ~(i > 0 /\ line[i] = Backslash)
  <2>1. Run(i) = {}
    <3> SUFFICES ASSUME NEW k \in Run(i) PROVE FALSE
      OBVIOUS
    <3>1. k \in 1 .. i /\ i \in k .. i /\ line[i] = Backslash
      BY <1>1
    <3>2. QED
      BY <1>4, <3>1
  <2>2. Cardinality(Run(i)) = 0
    BY <2>1, FS_EmptySet
  <2>3. ~OddRun(line, i)
    BY <2>2 DEF OddRun, Run
  <2>4. QED
    BY <1>4, <2>3 DEF OddRun
<1>5. QED
  BY <1>3, <1>4

(* The flag of strip_comments tells whether the backslashes before a        *)
(* character are odd in number, which is when TeX takes it to be escaped.   *)
LEMMA FlagIsParity ==
  ASSUME NEW line, Len(line) \in Nat
  PROVE  \A i \in 0 .. Len(line) : Escaped(line)[i] <=> OddRun(line, i)
<1> DEFINE n == Len(line)
           Body(f) == [i \in 0 .. n |-> i > 0 /\ line[i] = Backslash /\ ~f[i - 1]]
           flag == CHOOSE f : f = Body(f)
           parity == [i \in 0 .. n |-> OddRun(line, i)]
<1>1. parity = Body(parity)
  <2>1. ASSUME NEW i \in 0 .. n
        PROVE  parity[i] = (i > 0 /\ line[i] = Backslash /\ ~parity[i - 1])
    <3>1. i \in Nat /\ OddRun(line, i) \in BOOLEAN
      BY RunOfBackslashes
    <3>2. i > 0 => i - 1 \in 0 .. n
      BY <3>1
    <3>3. i > 0 => parity[i - 1] = OddRun(line, i - 1)
      BY <3>2, Zenon
    <3>4. parity[i] = OddRun(line, i)
      BY Zenon
    <3>5. OddRun(line, i) <=> i > 0 /\ line[i] = Backslash /\ ~OddRun(line, i - 1)
      BY <3>1, RunOfBackslashes
    <3> HIDE DEF parity
    <3>6. OddRun(line, i) = (i > 0 /\ line[i] = Backslash /\ ~parity[i - 1])
      BY <3>1, <3>3, <3>5, Zenon
    <3>7. QED
      BY <3>4, <3>6, Zenon
  <2>2. QED
    BY <2>1, Zenon
<1>2. flag = Body(flag)
  BY <1>1, Zenon
<1>3. Escaped(line) = flag
  BY DEF Escaped
<1> HIDE DEF flag, parity
<1>4. \A i \in 0 .. n : flag[i] = (i > 0 /\ line[i] = Backslash /\ ~flag[i - 1])
  BY <1>2, Zenon
<1> DEFINE P == {i \in Nat : i <= n => (flag[i] <=> OddRun(line, i))}
<1>5. 0 \in P
  <2>1. flag[0] = (0 > 0 /\ line[0] = Backslash /\ ~flag[0 - 1])
    <3>1. 0 \in 0 .. n
      OBVIOUS
    <3>2. QED
      BY <1>4, <3>1, Zenon
  <2>2. ~(0 > 0)
    OBVIOUS
  <2>3. ~OddRun(line, 0)
    BY <2>2, RunOfBackslashes
  <2>4. ~flag[0]
    BY <2>1, <2>2, Zenon
  <2>5. QED
    BY <2>3, <2>4
<1>6. ASSUME NEW i \in Nat, i \in P
      PROVE  i + 1 \in P
  <2> SUFFICES ASSUME i + 1 <= n
               PROVE  flag[i + 1] <=> OddRun(line, i + 1)
    OBVIOUS
  <2>1. i + 1 \in 0 .. n /\ i + 1 \in Nat /\ i + 1 > 0 /\ (i + 1) - 1 = i /\ i <= n
    OBVIOUS
  <2>2. flag[i + 1] <=> (line[i + 1] = Backslash /\ ~flag[i])
    BY <1>4, <2>1
  <2>3. OddRun(line, i + 1) <=> (line[i + 1] = Backslash /\ ~OddRun(line, i))
    BY <2>1, RunOfBackslashes
  <2>4. flag[i] <=> OddRun(line, i)
    BY <1>6, <2>1
  <2>5. QED
    BY <2>2, <2>3, <2>4
<1>7. Nat \subseteq P
  <2> HIDE DEF P
  <2>1. QED
    BY <1>5, <1>6, Induction
<1>8. QED
  <2>1. ASSUME NEW i \in 0 .. n PROVE flag[i] <=> OddRun(line, i)
    BY <1>7
  <2>2. QED
    BY <1>3, <2>1

(* A line is cut where TeX begins a comment. *)
LEMMA StripLineCutsComment ==
  ASSUME NEW T, NEW line \in Seq(T)
  PROVE  \E n \in 0 .. Len(line) :
           /\ StripLine(line) = SubSeq(line, 1, n)
           /\ \A i \in DOMAIN line : i > n <=> InComment(line, i)
<1> DEFINE starts == CommentStarts(line)
<1>1. Len(line) \in Nat /\ DOMAIN line = 1 .. Len(line)
  OBVIOUS
<1>2. \A i \in DOMAIN line : i \in starts <=> line[i] = Percent /\ ~IsEscaped(line, i)
  <2> SUFFICES ASSUME NEW i \in DOMAIN line PROVE Escaped(line)[i - 1] <=> IsEscaped(line, i)
    BY DEF CommentStarts
  <2>1. i - 1 \in 0 .. Len(line) /\ (i - 1) + 1 = i
    BY <1>1
  <2>2. Escaped(line)[i - 1] <=> OddRun(line, i - 1)
    BY <1>1, <2>1, FlagIsParity
  <2>3. OddRun(line, i - 1) <=> IsEscaped(line, i)
    BY <2>1 DEF OddRun, IsEscaped
  <2>4. QED
    BY <2>2, <2>3
<1>3. starts \subseteq DOMAIN line
  BY DEF CommentStarts
<1>4. StripLine(line) = IF starts = {} THEN line ELSE SubSeq(line, 1, First(starts) - 1)
  BY DEF StripLine
<1> HIDE DEF starts
<1>5. \A i \in DOMAIN line : InComment(line, i) <=> \E k \in starts : k <= i
  <2> SUFFICES ASSUME NEW i \in DOMAIN line PROVE InComment(line, i) <=> \E k \in starts : k <= i
    OBVIOUS
  <2>1. \A k \in 1 .. i : k \in DOMAIN line
    BY <1>1
  <2>2. \A k \in DOMAIN line : k <= i => k \in 1 .. i
    BY <1>1
  <2>3. \A k \in 1 .. i : k <= i
    BY <1>1
  <2> HIDE DEF IsEscaped
  <2>4. QED
    BY <1>2, <1>3, <2>1, <2>2, <2>3 DEF InComment
<1>6. CASE starts = {}
  <2>1. StripLine(line) = SubSeq(line, 1, Len(line))
    BY <1>1, <1>4, <1>6
  <2>2. \A i \in DOMAIN line : ~InComment(line, i) /\ ~(i > Len(line))
    BY <1>1, <1>5, <1>6
  <2>3. Len(line) \in 0 .. Len(line)
    BY <1>1
  <2>4. QED
    BY <2>1, <2>2, <2>3
<1>7. CASE starts # {}
  <2> DEFINE first == First(starts)
             n     == first - 1
  <2>1. \E i \in starts : \A j \in starts : i <= j
    BY <1>1, <1>3, <1>7, LeastNumber
  <2>2. first \in starts /\ \A j \in starts : first <= j
    BY <2>1 DEF First
  <2> HIDE DEF first
  <2>3. first \in 1 .. Len(line)
    BY <1>1, <1>3, <2>2
  <2>4. n \in 0 .. Len(line) /\ \A i \in DOMAIN line : i > n <=> first <= i
    BY <1>1, <2>3
  <2>5. \A i \in DOMAIN line : first <= i <=> InComment(line, i)
    <3> SUFFICES ASSUME NEW i \in DOMAIN line PROVE first <= i <=> \E k \in starts : k <= i
      BY <1>5
    <3>1. ASSUME NEW k \in starts, k <= i PROVE first <= i
      BY <1>1, <1>3, <2>2, <2>3, <3>1
    <3>2. QED
      BY <2>2, <3>1
  <2>6. StripLine(line) = SubSeq(line, 1, n)
    BY <1>4, <1>7 DEF first
  <2>7. QED
    BY <2>4, <2>5, <2>6
<1>8. QED
  BY <1>6, <1>7

ContentTypeOK == content \in Seq(Seq(Tokens)) /\ Len(content) > 0

LEMMA ContentTypeCorrect == ParserSpec => []ContentTypeOK
<1>1. ParserInit => ContentTypeOK
  <2>1. <<>> \in Seq(Tokens)
    OBVIOUS
  <2> HIDE DEF Tokens
  <2>2. << <<>> >> \in Seq(Seq(Tokens)) /\ Len(<< <<>> >>) = 1
    BY <2>1
  <2>3. QED
    BY <2>2 DEF ParserInit, ContentTypeOK
<1>2. ContentTypeOK /\ [ParserNext]_content => ContentTypeOK'
  <2> SUFFICES ASSUME ContentTypeOK, [ParserNext]_content PROVE ContentTypeOK'
    OBVIOUS
  <2> USE DEF ContentTypeOK
  <2>1. CASE BreakLine
    <3>1. <<>> \in Seq(Tokens)
      OBVIOUS
    <3>2. content' = Append(content, <<>>)
      BY <2>1 DEF BreakLine
    <3>3. QED
      BY <3>1, <3>2
  <2>2. ASSUME NEW token \in Tokens, Write(token) PROVE ContentTypeOK'
    <3> DEFINE last == Len(content)
    <3>1. last \in DOMAIN content /\ content[last] \in Seq(Tokens)
      OBVIOUS
    <3>2. Append(content[last], token) \in Seq(Tokens)
      BY <3>1
    <3>3. content' = [content EXCEPT ![last] = Append(content[last], token)]
      BY <2>2 DEF Write
    <3>4. content' \in Seq(Seq(Tokens)) /\ Len(content') = Len(content)
      BY <3>1, <3>2, <3>3
    <3>5. QED
      BY <3>4
  <2>3. CASE UNCHANGED content
    BY <2>3
  <2>4. QED
    BY <2>1, <2>2, <2>3 DEF ParserNext
<1>3. QED
  BY <1>1, <1>2, PTL DEF ParserSpec

(* strip_comments removes what TeX takes for a comment and nothing else,    *)
(* whatever backslashes, percent signs and commands a document is made of.  *)
THEOREM CommentsAreStrippedCorrect == ParserSpec => []CommentsAreStripped
<1>1. ContentTypeOK => CommentsAreStripped
  <2> SUFFICES ASSUME ContentTypeOK, NEW l \in DOMAIN content
               PROVE  \E n \in 0 .. Len(content[l]) :
                        /\ Stripped(content)[l] = SubSeq(content[l], 1, n)
                        /\ \A i \in DOMAIN content[l] : i > n <=> InComment(content[l], i)
    BY DEF CommentsAreStripped
  <2>1. content[l] \in Seq(Tokens)
    BY DEF ContentTypeOK
  <2>2. Stripped(content)[l] = StripLine(content[l])
    BY DEF Stripped
  <2>3. QED
    BY <2>1, <2>2, StripLineCutsComment
<1>2. QED
  BY <1>1, ContentTypeCorrect, PTL

-----------------------------------------------------------------------------
(* The files that a document depends on *)

IsText(text) == text \in Seq(Seq(Tokens))

(* In the stripped text a command is found where it is live. *)
LEMMA CapturesOfStripped ==
  ASSUME NEW text, IsText(text), NEW kind
  PROVE  Captures(Stripped(text), kind) = Live(text, kind)
<1> DEFINE s == Stripped(text)
<1>1. DOMAIN s = DOMAIN text
  BY DEF Stripped
<1>2. ASSUME NEW l \in DOMAIN text
      PROVE  /\ DOMAIN s[l] \subseteq DOMAIN text[l]
             /\ \A i \in DOMAIN text[l] : i \in DOMAIN s[l] <=> ~InComment(text[l], i)
             /\ \A i \in DOMAIN s[l] : s[l][i] = text[l][i]
  <2>1. text[l] \in Seq(Tokens)
    BY DEF IsText
  <2> DEFINE line == text[l]
  <2>2. PICK n \in 0 .. Len(line) : /\ StripLine(line) = SubSeq(line, 1, n)
                                    /\ \A i \in DOMAIN line : i > n <=> InComment(line, i)
    BY <2>1, StripLineCutsComment
  <2>3. s[l] = SubSeq(line, 1, n)
    BY <2>2 DEF Stripped
  <2> HIDE DEF s, line
  <2>4. line \in Seq(Tokens) /\ DOMAIN line = 1 .. Len(line) /\ Len(line) \in Nat
    BY <2>1 DEF line
  <2>5. DOMAIN s[l] = 1 .. n /\ \A i \in 1 .. n : s[l][i] = line[i]
    BY <2>3, <2>4
  <2>6. \A i \in DOMAIN line : i \in 1 .. n <=> ~InComment(line, i)
    BY <2>2, <2>4
  <2>7. 1 .. n \subseteq DOMAIN line
    BY <2>4
  <2>8. QED
    BY <2>5, <2>6, <2>7 DEF line
<1> HIDE DEF s
<1>3. \A p : p \in Places(s) <=> \E l \in DOMAIN s : \E i \in DOMAIN s[l] : p = <<l, i>>
  BY DEF Places
<1>4. \A p : p \in Places(text) <=> \E l \in DOMAIN text : \E i \in DOMAIN text[l] : p = <<l, i>>
  BY DEF Places
<1>5. ASSUME NEW p
      PROVE  p \in Captures(s, kind) <=> p \in Live(text, kind)
  <2>1. ASSUME p \in Captures(s, kind) PROVE p \in Live(text, kind)
    <3>1. PICK l \in DOMAIN s : \E i \in DOMAIN s[l] : p = <<l, i>>
      BY <1>3, <2>1 DEF Captures
    <3>2. PICK i \in DOMAIN s[l] : p = <<l, i>>
      BY <3>1
    <3>3. s[l][i].kind = kind
      BY <2>1, <3>2 DEF Captures, At
    <3>4. l \in DOMAIN text /\ i \in DOMAIN text[l] /\ ~InComment(text[l], i) /\ s[l][i] = text[l][i]
      BY <1>1, <1>2
    <3>5. p \in Places(text) /\ p[1] = l /\ p[2] = i
      BY <1>4, <3>2, <3>4
    <3>6. QED
      BY <3>3, <3>4, <3>5 DEF Live, Captures, At
  <2>2. ASSUME p \in Live(text, kind) PROVE p \in Captures(s, kind)
    <3>1. PICK l \in DOMAIN text : \E i \in DOMAIN text[l] : p = <<l, i>>
      BY <1>4, <2>2 DEF Live, Captures
    <3>2. PICK i \in DOMAIN text[l] : p = <<l, i>>
      BY <3>1
    <3>3. text[l][i].kind = kind /\ ~InComment(text[l], i)
      BY <2>2, <3>2 DEF Live, Captures, At
    <3>4. l \in DOMAIN s /\ i \in DOMAIN s[l] /\ s[l][i] = text[l][i]
      BY <1>1, <1>2, <3>3
    <3>5. p \in Places(s) /\ p[1] = l /\ p[2] = i
      BY <1>3, <3>2, <3>4
    <3>6. QED
      BY <3>3, <3>4, <3>5 DEF Captures, At
  <2>3. QED
    BY <2>1, <2>2
<1>6. QED
  BY <1>5 DEF s

(* \include and \input name one file. *)
LEMMA OneFile ==
  ASSUME NEW text, IsText(text), NEW kind \in {"include", "input"}, NEW p \in Captures(text, kind)
  PROVE  Elements(At(text, p).args) = {At(text, p).args[1]}
<1>1. At(text, p) \in Tokens
  <2>1. PICK l \in DOMAIN text : p \in {l} \X DOMAIN text[l]
    BY DEF Captures, Places
  <2>2. p[1] = l /\ p[2] \in DOMAIN text[l]
    BY <2>1
  <2>3. text[l] \in Seq(Tokens)
    BY DEF IsText
  <2>4. QED
    BY <2>2, <2>3 DEF At
<1>2. At(text, p).kind = kind
  BY DEF Captures
<1>3. \A token \in Tokens : token.kind \in {"include", "input"} => \E n \in Names : token.args = <<n>>
  <2> SUFFICES ASSUME NEW token \in Tokens, token.kind \in {"include", "input"}
               PROVE  \E n \in Names : token.args = <<n>>
    OBVIOUS
  <2>1. \A k, args : Command(k, args).kind = k /\ Command(k, args).args = args
    BY DEF Command
  <2>2. Backslash.kind = "\\" /\ Percent.kind = "%" /\ Begin.kind = "begin document"
    BY <2>1 DEF Backslash, Percent, Begin
  <2> HIDE DEF Command
  <2>3. \/ token \in {Backslash, Percent, Begin}
        \/ \E n \in Names : token = Command("include", <<n>>) \/ token = Command("input", <<n>>)
        \/ \E list : token = Command("includeonly", list) \/ token = Command("bibliography", list)
    BY DEF Tokens
  <2>4. CASE token \in {Backslash, Percent, Begin}
    BY <2>2, <2>4
  <2>5. CASE \E n \in Names : token = Command("include", <<n>>) \/ token = Command("input", <<n>>)
    BY <2>1, <2>5
  <2>6. CASE \E list : token = Command("includeonly", list) \/ token = Command("bibliography", list)
    BY <2>1, <2>6
  <2>7. QED
    BY <2>3, <2>4, <2>5, <2>6
<1>4. PICK n \in Names : At(text, p).args = <<n>>
  BY <1>1, <1>2, <1>3
<1>5. QED
  BY <1>4 DEF Elements

(* With one filter at most, an \include that TeX reads is not filtered. *)
LEMMA NotFiltered ==
  ASSUME NEW text, IsText(text), FilterIsUsual(text), NEW name,
         Executed(text, "includeonly") # {} => name \in Named(text, "includeonly")
  PROVE  ~IsFiltered(text, name)
<1> DEFINE live == Live(text, "includeonly")
<1>1. IncludeOnly(text) = live
  BY CapturesOfStripped DEF IncludeOnly
<1>2. (\A p, q \in live : p = q) /\ \A p \in live : ~IsEscaped(text[p[1]], p[2])
  BY DEF FilterIsUsual
<1> SUFFICES ASSUME live # {}
             PROVE  name \in Elements(At(text, FirstPlace(live)).args)
  BY <1>1 DEF IsFiltered
<1>3. PICK q \in live : TRUE
  OBVIOUS
<1>4. q[1] \in Nat /\ q[2] \in Nat
  <2>1. PICK l \in DOMAIN text : q \in {l} \X DOMAIN text[l]
    BY DEF Live, Captures, Places
  <2>2. l \in Nat /\ DOMAIN text[l] \subseteq Nat
    BY DEF IsText
  <2>3. QED
    BY <2>1, <2>2
<1>5. ~IsBefore(q, q)
  BY <1>4 DEF IsBefore
<1>6. FirstPlace(live) = q
  <2> HIDE DEF live
  <2>1. \E p \in live : \A r \in live : ~IsBefore(r, p)
    BY <1>2, <1>5
  <2>2. FirstPlace(live) \in live
    BY <2>1 DEF FirstPlace
  <2>3. QED
    BY <1>2, <2>2
<1>7. At(text, q) \in Executed(text, "includeonly")
  BY <1>2 DEF Executed
<1>8. PICK command \in Executed(text, "includeonly") : name \in Elements(command.args)
  BY <1>7 DEF Named
<1>9. PICK p \in live : command = At(text, p)
  BY DEF Executed
<1>10. p = q
  BY <1>2
<1>11. QED
  BY <1>6, <1>8, <1>9, <1>10

(* Every file that TeX reads is a dependency, for every document whose      *)
(* filter is usual: no edit of such a file goes without recompilation for   *)
(* comments, escapes or a filter.                                           *)
THEOREM NoDependencyIsMissedCorrect == ParserSpec => []NoDependencyIsMissed
<1>1. ASSUME ContentTypeOK PROVE NoDependencyIsMissed
  <2> DEFINE doc == Parse(content)
  <2>1. IsText(content)
    BY <1>1 DEF ContentTypeOK, IsText
  <2>2. doc.includes = Includes(content) /\ doc.inputs = Inputs(content)
          /\ doc.bibliographies = Bibliographies(content)
    BY DEF Parse
  <2> HIDE DEF doc
  <2> SUFFICES ASSUME FilterIsUsual(content)
               PROVE  FilesRead(content) \subseteq AllDependencies(doc)
    BY DEF NoDependencyIsMissed, doc
  <2> DEFINE included == IF Executed(content, "includeonly") = {} THEN Named(content, "include")
                         ELSE Named(content, "include") \cap Named(content, "includeonly")
  <2>3. ASSUME NEW n \in included PROVE WithExtension(n, "tex") \in AllDependencies(doc)
    <3>1. PICK p \in Live(content, "include") : n \in Elements(At(content, p).args)
      BY DEF Named, Executed
    <3>2. p \in Captures(content, "include")
      BY DEF Live
    <3>3. n = At(content, p).args[1]
      BY <2>1, <3>1, <3>2, OneFile
    <3>4. ~IsFiltered(content, n)
      BY <2>1, NotFiltered
    <3> DEFINE inc == [path |-> n, is_filtered |-> IsFiltered(content, n), line |-> p[1]]
    <3>5. inc \in doc.includes
      BY <2>2, <3>2, <3>3 DEF Includes
    <3>6. inc.path = n /\ ~inc.is_filtered
      BY <3>4
    <3> HIDE DEF inc
    <3>7. QED
      BY <3>5, <3>6 DEF AllDependencies
  <2>4. ASSUME NEW n \in Named(content, "input") PROVE WithExtension(n, "tex") \in AllDependencies(doc)
    <3>1. PICK p \in Live(content, "input") : n \in Elements(At(content, p).args)
      BY DEF Named, Executed
    <3>2. p \in Captures(content, "input") /\ p \in Captures(Stripped(content), "input")
      BY <2>1, CapturesOfStripped DEF Live
    <3>3. n = At(content, p).args[1]
      BY <2>1, <3>1, <3>2, OneFile
    <3>4. n \in doc.inputs
      BY <2>2, <3>2, <3>3 DEF Inputs
    <3>5. QED
      BY <3>4 DEF AllDependencies
  <2>5. ASSUME NEW n \in Named(content, "bibliography")
        PROVE  WithExtension(n, "bib") \in AllDependencies(doc)
    <3>1. PICK p \in Live(content, "bibliography") : n \in Elements(At(content, p).args)
      BY DEF Named, Executed
    <3>2. p \in Captures(Stripped(content), "bibliography")
      BY <2>1, CapturesOfStripped
    <3>3. WithExtension(n, "bib") \in doc.bibliographies
      BY <2>2, <3>1, <3>2 DEF Bibliographies
    <3>4. QED
      BY <3>3 DEF AllDependencies
  <2>6. QED
    BY <2>3, <2>4, <2>5 DEF FilesRead
<1>2. QED
  BY <1>1, ContentTypeCorrect, PTL
=============================================================================
