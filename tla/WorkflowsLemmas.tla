-------------------------- MODULE WorkflowsLemmas --------------------------
(***************************************************************************)
(* What validation and the levels of Workflows compute.  Both are          *)
(* recursive functions: that there is a function with the equation, and    *)
(* what it returns, is shown by induction, on the level and on how much    *)
(* there is left to search.                                                *)
(***************************************************************************)
EXTENDS Workflows, FiniteSetTheorems, WellFoundedInduction, SequenceTheorems, TLAPS

\* Induction, for sets: the library's theorem takes a predicate.
LEMMA LeastNat ==
    ASSUME NEW T, T \subseteq Nat, T # {}
    PROVE  \E m \in T : \A n \in T : m <= n
  <1>1. IsWellFoundedOn(OpToRel(<, Nat), Nat)
    BY NatLessThanWellFounded
  <1>2. \E x \in T : \A y \in T : <<y, x>> \notin OpToRel(<, Nat)
    BY <1>1, WFMin
  <1>3. PICK x \in T : \A y \in T : <<y, x>> \notin OpToRel(<, Nat)
    BY <1>2
  <1>4. \A y \in T : ~(y < x)
    BY <1>3 DEF OpToRel
  <1> QED BY <1>4

LEMMA NatInSet ==
    ASSUME NEW T, 0 \in T, \A n \in Nat : n \in T => n + 1 \in T
    PROVE  \A n \in Nat : n \in T
  <1> SUFFICES ASSUME Nat \ T # {} PROVE FALSE
    OBVIOUS
  <1>1. PICK m \in Nat \ T : \A n \in Nat \ T : m <= n
    BY LeastNat
  <1>2. m - 1 \in Nat /\ m - 1 \in T
    BY <1>1
  <1> QED BY <1>1, <1>2

-----------------------------------------------------------------------------
(* Levels.                                                                 *)

\* The steps that can be placed above P.
Ready(steps, P) ==
    {steps[i].id : i \in {i \in DOMAIN steps : steps[i].depends_on \subseteq P}}

IsPlacing(f, steps, n) ==
    f = [k \in 0 .. n |-> IF k = 0 THEN {} ELSE f[k - 1] \cup Ready(steps, f[k - 1])]

LEMMA PlacingStep ==
    ASSUME NEW steps, NEW n \in Nat, NEW f, IsPlacing(f, steps, n), NEW k \in Nat, k + 1 <= n
    PROVE  f[k + 1] = f[k] \cup Ready(steps, f[k])
  <1>1. PICK j : j = k + 1
    OBVIOUS
  <1>2. j \in 0 .. n /\ j # 0 /\ j - 1 = k
    BY <1>1
  <1>3. f[j] = f[j - 1] \cup Ready(steps, f[j - 1])
    BY <1>2 DEF IsPlacing
  <1> QED BY <1>1, <1>2, <1>3

\* There are levels 0 .. n for every n.
LEMMA PlacingExists ==
    ASSUME NEW steps
    PROVE  \A n \in Nat : \E f : IsPlacing(f, steps, n)
  <1> DEFINE T == {n \in Nat : \E f : IsPlacing(f, steps, n)}
  <1>1. 0 \in T
    <2>1. PICK f : f = [k \in 0 .. 0 |-> {}]
      OBVIOUS
    <2>2. IsPlacing(f, steps, 0)
      BY <2>1 DEF IsPlacing
    <2> QED BY <2>2
  <1>2. ASSUME NEW n \in Nat, n \in T
        PROVE  n + 1 \in T
    <2>1. PICK f : IsPlacing(f, steps, n)
      BY <1>2
    <2>2. PICK g : g = [k \in 0 .. n + 1 |->
                          IF k = 0 THEN {} ELSE f[k - 1] \cup Ready(steps, f[k - 1])]
      OBVIOUS
    <2>3. ASSUME NEW k \in 0 .. n
          PROVE  g[k] = f[k]
      <3>1. g[k] = IF k = 0 THEN {} ELSE f[k - 1] \cup Ready(steps, f[k - 1])
        BY <2>2
      <3>2. f[k] = IF k = 0 THEN {} ELSE f[k - 1] \cup Ready(steps, f[k - 1])
        BY <2>1 DEF IsPlacing
      <3> QED BY <3>1, <3>2
    <2>4. \A k \in 0 .. n + 1 : k # 0 => k - 1 \in 0 .. n
      OBVIOUS
    <2>5. g = [k \in 0 .. n + 1 |-> IF k = 0 THEN {} ELSE g[k - 1] \cup Ready(steps, g[k - 1])]
      BY <2>2, <2>3, <2>4
    <2> QED BY <2>5 DEF IsPlacing
  <1> HIDE DEF T
  <1>3. \A n \in Nat : n \in T
    BY <1>1, <1>2, NatInSet
  <1> QED BY <1>3 DEF T

\* What is placed up to level k does not depend on how many levels are built.
LEMMA PlacingUnique ==
    ASSUME NEW steps, NEW n \in Nat, NEW m \in Nat, NEW f, NEW g,
           IsPlacing(f, steps, n), IsPlacing(g, steps, m)
    PROVE  \A k \in Nat : k <= n /\ k <= m => f[k] = g[k]
  <1> DEFINE T == {k \in Nat : k <= n /\ k <= m => f[k] = g[k]}
  <1>1. 0 \in T
    BY DEF IsPlacing
  <1>2. ASSUME NEW k \in Nat, k \in T
        PROVE  k + 1 \in T
    <2> SUFFICES ASSUME k + 1 <= n, k + 1 <= m PROVE f[k + 1] = g[k + 1]
      OBVIOUS
    <2>1. f[k] = g[k]
      BY <1>2
    <2>2. f[k + 1] = f[k] \cup Ready(steps, f[k])
      BY PlacingStep
    <2>3. g[k + 1] = g[k] \cup Ready(steps, g[k])
      BY PlacingStep
    <2> QED BY <2>1, <2>2, <2>3
  <1> HIDE DEF T
  <1>3. \A k \in Nat : k \in T
    BY <1>1, <1>2, NatInSet
  <1> QED BY <1>3 DEF T

\* The steps placed up to level k.
Upto(steps, k) == (CHOOSE f : IsPlacing(f, steps, k))[k]

LEMMA LevelIs ==
    ASSUME NEW steps, NEW n \in Nat, n # 0
    PROVE  Level(steps, n) = IdsOf(steps) \cap (Upto(steps, n) \ Upto(steps, n - 1))
  <1>1. PICK f : f = CHOOSE h : IsPlacing(h, steps, n)
    OBVIOUS
  <1>2. Level(steps, n) = IdsOf(steps) \cap (f[n] \ f[n - 1])
    BY <1>1 DEF Level, IsPlacing, Ready
  <1>3. IsPlacing(f, steps, n)
    BY <1>1, PlacingExists
  <1>4. PICK g : g = CHOOSE h : IsPlacing(h, steps, n - 1)
    OBVIOUS
  <1>5. IsPlacing(g, steps, n - 1) /\ n - 1 \in Nat
    BY <1>4, PlacingExists
  <1>6. f[n - 1] = g[n - 1]
    BY <1>3, <1>5, PlacingUnique
  <1> QED BY <1>1, <1>2, <1>4, <1>6 DEF Upto

LEMMA UptoNone ==
    ASSUME NEW steps
    PROVE  Upto(steps, 0) = {}
  <1>1. PICK f : f = CHOOSE h : IsPlacing(h, steps, 0)
    OBVIOUS
  <1>2. IsPlacing(f, steps, 0)
    BY <1>1, PlacingExists
  <1>3. f[0] = {}
    BY <1>2 DEF IsPlacing
  <1> QED BY <1>1, <1>3 DEF Upto

LEMMA UptoNext ==
    ASSUME NEW steps, NEW k \in Nat
    PROVE  Upto(steps, k + 1) = Upto(steps, k) \cup Ready(steps, Upto(steps, k))
  <1>1. PICK f : f = CHOOSE h : IsPlacing(h, steps, k + 1)
    OBVIOUS
  <1>2. PICK g : g = CHOOSE h : IsPlacing(h, steps, k)
    OBVIOUS
  <1>3. IsPlacing(f, steps, k + 1) /\ IsPlacing(g, steps, k)
    BY <1>1, <1>2, PlacingExists
  <1>4. f[k] = g[k]
    BY <1>3, PlacingUnique
  <1>5. f[k + 1] = f[k] \cup Ready(steps, f[k])
    BY <1>3, PlacingStep
  <1> QED BY <1>1, <1>2, <1>4, <1>5 DEF Upto

\* What is placed stays placed, and is a step.
LEMMA UptoGrows ==
    ASSUME NEW steps
    PROVE  \A k \in Nat : \A m \in 0 .. k : Upto(steps, m) \subseteq Upto(steps, k)
  <1> DEFINE T == {k \in Nat : \A m \in 0 .. k : Upto(steps, m) \subseteq Upto(steps, k)}
  <1>1. 0 \in T
    OBVIOUS
  <1>2. ASSUME NEW k \in Nat, k \in T
        PROVE  k + 1 \in T
    <2>1. Upto(steps, k) \subseteq Upto(steps, k + 1)
      BY UptoNext
    <2>2. ASSUME NEW m \in 0 .. k + 1
          PROVE  Upto(steps, m) \subseteq Upto(steps, k + 1)
      <3>1. CASE m = k + 1
        BY <3>1
      <3>2. CASE m \in 0 .. k
        BY <1>2, <2>1, <3>2
      <3> QED BY <3>1, <3>2
    <2> QED BY <2>2
  <1> HIDE DEF T
  <1>3. \A k \in Nat : k \in T
    BY <1>1, <1>2, NatInSet
  <1> QED BY <1>3 DEF T

LEMMA UptoSteps ==
    ASSUME NEW steps
    PROVE  \A k \in Nat : Upto(steps, k) \subseteq IdsOf(steps)
  <1> DEFINE T == {k \in Nat : Upto(steps, k) \subseteq IdsOf(steps)}
  <1>1. 0 \in T
    BY UptoNone
  <1>2. ASSUME NEW k \in Nat, k \in T
        PROVE  k + 1 \in T
    <2>1. Ready(steps, Upto(steps, k)) \subseteq IdsOf(steps)
      BY DEF Ready, IdsOf
    <2> QED BY <1>2, <2>1, UptoNext
  <1> HIDE DEF T
  <1>3. \A k \in Nat : k \in T
    BY <1>1, <1>2, NatInSet
  <1> QED BY <1>3 DEF T

\* Of runnable steps that are not all placed, the next level has one.
LEMMA LevelNotEmpty ==
    ASSUME NEW steps, Runnable(steps), NEW k \in Nat, ~ (IdsOf(steps) \subseteq Upto(steps, k))
    PROVE  \E i \in DOMAIN steps : /\ steps[i].id \notin Upto(steps, k)
                                   /\ steps[i].id \in Upto(steps, k + 1)
  <1> DEFINE group == {i \in DOMAIN steps : steps[i].id \notin Upto(steps, k)}
  <1>1. group \in SUBSET (DOMAIN steps) /\ group # {}
    BY DEF IdsOf
  <1>2. PICK i \in group : \A j \in group : steps[j].id \notin steps[i].depends_on
    BY <1>1 DEF Runnable
  <1>3. steps[i].depends_on \subseteq IdsOf(steps)
    BY DEF Runnable
  <1>4. steps[i].depends_on \subseteq Upto(steps, k)
    BY <1>2, <1>3 DEF IdsOf
  <1>5. steps[i].id \in Ready(steps, Upto(steps, k))
    BY <1>4 DEF Ready
  <1> QED BY <1>5, UptoNext

\* So there are at least as many steps placed as levels built.
LEMMA PlacedCount ==
    ASSUME NEW steps \in Seq(Step), Runnable(steps)
    PROVE  \A k \in Nat :
              \/ IdsOf(steps) \subseteq Upto(steps, k)
              \/ Cardinality({i \in DOMAIN steps : steps[i].id \in Upto(steps, k)}) >= k
  <1> DEFINE Placed(k) == {i \in DOMAIN steps : steps[i].id \in Upto(steps, k)}
             T == {k \in Nat : IdsOf(steps) \subseteq Upto(steps, k) \/ Cardinality(Placed(k)) >= k}
  <1>1. Len(steps) \in Nat /\ DOMAIN steps = 1 .. Len(steps)
    OBVIOUS
  <1>2. IsFiniteSet(DOMAIN steps)
    BY <1>1, FS_Interval
  <1>3. \A k \in Nat : IsFiniteSet(Placed(k)) /\ Cardinality(Placed(k)) \in Nat
    BY <1>2, FS_Subset, FS_CardinalityType
  <1>4. 0 \in T
    <2> HIDE DEF Placed
    <2>1. Cardinality(Placed(0)) \in Nat
      BY <1>3
    <2>2. Cardinality(Placed(0)) >= 0
      BY <2>1
    <2> QED BY <2>2
  <1>5. ASSUME NEW k \in Nat, k \in T
        PROVE  k + 1 \in T
    <2>1. Upto(steps, k) \subseteq Upto(steps, k + 1)
      BY UptoNext
    <2>2. CASE IdsOf(steps) \subseteq Upto(steps, k)
      BY <2>1, <2>2
    <2>3. CASE ~ (IdsOf(steps) \subseteq Upto(steps, k))
      <3>1. PICK i \in DOMAIN steps : /\ steps[i].id \notin Upto(steps, k)
                                      /\ steps[i].id \in Upto(steps, k + 1)
        BY <2>3, LevelNotEmpty
      <3>2. i \notin Placed(k) /\ Placed(k) \cup {i} \subseteq Placed(k + 1)
        BY <2>1, <3>1
      <3> HIDE DEF Placed
      <3>3. Cardinality(Placed(k) \cup {i}) = Cardinality(Placed(k)) + 1
            /\ IsFiniteSet(Placed(k) \cup {i})
        BY <1>3, <3>2, FS_AddElement
      <3>4. Cardinality(Placed(k) \cup {i}) <= Cardinality(Placed(k + 1))
        BY <1>3, <3>2, FS_Subset
      <3>5. Cardinality(Placed(k)) >= k
        BY <1>5, <2>3
      <3> QED BY <1>3, <3>3, <3>4, <3>5
    <2> QED BY <2>2, <2>3
  <1> HIDE DEF T
  <1>6. \A k \in Nat : k \in T
    BY <1>4, <1>5, NatInSet
  <1> QED BY <1>6 DEF T

LEMMA AllPlaced ==
    ASSUME NEW steps \in Seq(Step), Runnable(steps)
    PROVE  IdsOf(steps) \subseteq Upto(steps, Len(steps))
  <1> DEFINE Placed == {i \in DOMAIN steps : steps[i].id \in Upto(steps, Len(steps))}
  <1>1. Len(steps) \in Nat /\ DOMAIN steps = 1 .. Len(steps)
    OBVIOUS
  <1>2. IsFiniteSet(DOMAIN steps) /\ Cardinality(DOMAIN steps) = Len(steps)
    BY <1>1, FS_Interval
  <1> SUFFICES ASSUME Cardinality(Placed) >= Len(steps)
               PROVE  IdsOf(steps) \subseteq Upto(steps, Len(steps))
    BY <1>1, PlacedCount
  <1>3. Cardinality(Placed) <= Cardinality(DOMAIN steps)
        /\ (Cardinality(Placed) = Cardinality(DOMAIN steps) => Placed = DOMAIN steps)
        /\ Cardinality(Placed) \in Nat
    BY <1>2, FS_Subset, FS_CardinalityType
  <1>4. Placed = DOMAIN steps
    BY <1>1, <1>2, <1>3
  <1> QED BY <1>4 DEF IdsOf

\* The levels of runnable steps hold every step once, above its dependencies.
LevelsHold(steps) ==
    \A i \in DOMAIN steps :
        \E n \in 1 .. Len(steps) :
            /\ steps[i].id \in Level(steps, n)
            /\ \A m \in 1 .. Len(steps) : steps[i].id \in Level(steps, m) => m = n
            /\ \A d \in steps[i].depends_on : \E m \in 1 .. n - 1 : d \in Level(steps, m)

\* What is placed up to level n has been placed by one of the levels.
LEMMA PlacedAtLevel ==
    ASSUME NEW steps, NEW n \in Nat, NEW s \in Upto(steps, n)
    PROVE  \E m \in 1 .. n : s \in Level(steps, m)
  <1> DEFINE T == {m \in Nat : s \in Upto(steps, m)}
  <1>1. PICK m \in T : \A k \in T : m <= k
    <2>1. T \subseteq Nat /\ n \in T
      OBVIOUS
    <2> HIDE DEF T
    <2> QED BY <2>1, LeastNat
  <1>2. m # 0
    BY <1>1, UptoNone
  <1>3. m - 1 \in Nat /\ m - 1 \notin T
    BY <1>1, <1>2
  <1>4. s \in Upto(steps, m) \ Upto(steps, m - 1)
    BY <1>1, <1>3
  <1>5. s \in IdsOf(steps)
    BY UptoSteps
  <1>6. s \in Level(steps, m)
    BY <1>1, <1>2, <1>4, <1>5, LevelIs
  <1> QED BY <1>1, <1>2, <1>6

LEMMA LevelOnce ==
    ASSUME NEW steps, NEW n \in Nat \ {0}, NEW m \in Nat \ {0}, m < n,
           NEW s \in Level(steps, m)
    PROVE  s \notin Level(steps, n)
  <1>1. s \in Upto(steps, m)
    BY LevelIs
  <1>2. n - 1 \in Nat /\ m \in 0 .. n - 1
    OBVIOUS
  <1>3. s \in Upto(steps, n - 1)
    BY <1>1, <1>2, UptoGrows
  <1> QED BY <1>3, LevelIs

LEMMA RunnableLevels ==
    ASSUME NEW steps \in Seq(Step), Runnable(steps)
    PROVE  LevelsHold(steps)
  <1> SUFFICES ASSUME NEW i \in DOMAIN steps
               PROVE  \E n \in 1 .. Len(steps) :
                         /\ steps[i].id \in Level(steps, n)
                         /\ \A m \in 1 .. Len(steps) : steps[i].id \in Level(steps, m) => m = n
                         /\ \A d \in steps[i].depends_on :
                               \E m \in 1 .. n - 1 : d \in Level(steps, m)
    BY DEF LevelsHold
  <1>1. Len(steps) \in Nat /\ DOMAIN steps = 1 .. Len(steps)
    OBVIOUS
  <1>2. steps[i].id \in Upto(steps, Len(steps))
    BY AllPlaced DEF IdsOf
  <1>3. PICK n \in 1 .. Len(steps) : steps[i].id \in Level(steps, n)
    BY <1>1, <1>2, PlacedAtLevel
  <1>4. n \in Nat \ {0} /\ n - 1 \in Nat /\ (n - 1) + 1 = n
    BY <1>1
  <1>5. \A m \in 1 .. Len(steps) : steps[i].id \in Level(steps, m) => m = n
    <2> SUFFICES ASSUME NEW m \in 1 .. Len(steps), steps[i].id \in Level(steps, m), m # n
                 PROVE  FALSE
      OBVIOUS
    <2>1. m \in Nat \ {0} /\ (m < n \/ n < m)
      BY <1>1, <1>4
    <2> QED BY <1>3, <1>4, <2>1, LevelOnce
  <1>6. steps[i].id \in Upto(steps, n) \ Upto(steps, n - 1)
    BY <1>3, <1>4, LevelIs
  <1>7. steps[i].id \in Ready(steps, Upto(steps, n - 1))
    BY <1>4, <1>6, UptoNext
  <1>8. PICK j \in DOMAIN steps : /\ steps[j].id = steps[i].id
                                  /\ steps[j].depends_on \subseteq Upto(steps, n - 1)
    BY <1>7 DEF Ready
  <1>9. j = i
    BY <1>8 DEF Runnable
  <1>10. \A d \in steps[i].depends_on : \E m \in 1 .. n - 1 : d \in Level(steps, m)
    BY <1>4, <1>8, <1>9, PlacedAtLevel
  <1> QED BY <1>3, <1>5, <1>10

\* If there are runnable steps, an execution begins with one.
LEMMA RunnableBegins ==
    ASSUME NEW w \in Workflow, Runnable(w.steps), BeginsWith(w) = {}
    PROVE  IdsOf(w.steps) = {}
  <1>1. w.steps \in Seq(Step)
    BY MaxStepsIsNat DEF Workflow, BoundedSeq, SeqOf
  <1>2. CASE w.strategy = "Sequential"
    <2>1. w.steps = <<>>
      BY <1>2 DEF BeginsWith
    <2> QED BY <2>1 DEF IdsOf
  <1>3. CASE w.strategy # "Sequential"
    <2>1. Level(w.steps, 1) = {}
      BY <1>3 DEF BeginsWith
    <2>2. IdsOf(w.steps) \cap (Upto(w.steps, 1) \ Upto(w.steps, 0)) = {}
      BY <2>1, LevelIs
    <2> SUFFICES ASSUME IdsOf(w.steps) # {} PROVE FALSE
      OBVIOUS
    <2>3. ~ (IdsOf(w.steps) \subseteq Upto(w.steps, 0))
      BY UptoNone
    <2>4. PICK i \in DOMAIN w.steps : /\ w.steps[i].id \notin Upto(w.steps, 0)
                                      /\ w.steps[i].id \in Upto(w.steps, 0 + 1)
      BY <2>3, LevelNotEmpty
    <2> QED BY <2>2, <2>4 DEF IdsOf
  <1> QED BY <1>2, <1>3

-----------------------------------------------------------------------------
(* The search.  D is the set of its nodes, G the edges, V has_cycle_util.  *)

Calls(D) == [todo : SUBSET D, visited : SUBSET D, stack : SUBSET D]
Answers(D) == [cycle : BOOLEAN, visited : SUBSET D, stack : SUBSET D]

First(call) == CHOOSE n \in call.todo : TRUE
Inside(G, call) ==
    [todo |-> G[First(call)], visited |-> call.visited \cup {First(call)},
     stack |-> call.stack \cup {First(call)}]
Here(G, V, call) ==
    IF First(call) \in call.stack
    THEN [cycle |-> TRUE, visited |-> call.visited, stack |-> call.stack]
    ELSE IF First(call) \in call.visited
    THEN [cycle |-> FALSE, visited |-> call.visited, stack |-> call.stack]
    ELSE IF V[Inside(G, call)].cycle THEN V[Inside(G, call)]
    ELSE [V[Inside(G, call)] EXCEPT !.stack = @ \ {First(call)}]
Rest(call, here) ==
    [todo |-> call.todo \ {First(call)}, visited |-> here.visited, stack |-> here.stack]
Body(G, V, call) ==
    IF call.todo = {} THEN [cycle |-> FALSE, visited |-> call.visited, stack |-> call.stack]
    ELSE IF Here(G, V, call).cycle THEN Here(G, V, call)
    ELSE V[Rest(call, Here(G, V, call))]
IsVisit(G, D, V) == V = [call \in Calls(D) |-> Body(G, V, call)]
FirstCall(D) == [todo |-> D, visited |-> {}, stack |-> {}]

LEMMA SearchIs ==
    ASSUME NEW steps
    PROVE  \E V : /\ V = CHOOSE W : IsVisit(Dependencies(steps), IdsOf(steps), W)
                  /\ HasCircularDependencies(steps) = V[FirstCall(IdsOf(steps))].cycle
  BY DEF HasCircularDependencies, IsVisit, Calls, First, Inside, Here, Rest, Body, FirstCall

Nodes(G, D) == IsFiniteSet(D) /\ \A x \in D : G[x] \in SUBSET D

\* How much is left: the nodes not visited, then the nodes of the call.
Left(D, call) == Cardinality(D \ call.visited) * (Cardinality(D) + 1) + Cardinality(call.todo)

LEMMA ProductGrows ==
    ASSUME NEW x \in Nat, NEW y \in Nat, NEW c \in Nat
    PROVE  /\ x * c \in Nat
           /\ x <= y => x * c <= y * c
           /\ x < y => x * c + c <= y * c
  OBVIOUS

LEMMA LeftNat ==
    ASSUME NEW D, IsFiniteSet(D), NEW call \in Calls(D)
    PROVE  /\ IsFiniteSet(D \ call.visited) /\ Cardinality(D \ call.visited) \in Nat
           /\ IsFiniteSet(call.todo) /\ Cardinality(call.todo) \in Nat
           /\ Cardinality(D) \in Nat /\ Cardinality(call.todo) <= Cardinality(D)
           /\ Left(D, call) \in Nat
  <1>1. call.todo \in SUBSET D /\ D \ call.visited \in SUBSET D
    BY DEF Calls
  <1>2. /\ IsFiniteSet(D \ call.visited) /\ Cardinality(D \ call.visited) \in Nat
        /\ IsFiniteSet(call.todo) /\ Cardinality(call.todo) \in Nat
        /\ Cardinality(D) \in Nat /\ Cardinality(call.todo) <= Cardinality(D)
    BY <1>1, FS_Subset, FS_CardinalityType
  <1>3. Cardinality(D \ call.visited) * (Cardinality(D) + 1) \in Nat
    BY <1>2, ProductGrows
  <1> QED BY <1>2, <1>3 DEF Left

LEMMA FirstIn == ASSUME NEW call, call.todo # {} PROVE First(call) \in call.todo
  BY DEF First

\* The call on a node's neighbours has a node less to visit,
LEMMA InsideLess ==
    ASSUME NEW G, NEW D, Nodes(G, D), NEW call \in Calls(D), call.todo # {},
           First(call) \notin call.visited
    PROVE  Inside(G, call) \in Calls(D) /\ Left(D, Inside(G, call)) < Left(D, call)
  <1>1. First(call) \in call.todo /\ First(call) \in D /\ IsFiniteSet(D)
    BY FirstIn DEF Calls, Nodes
  <1>2. Inside(G, call) \in Calls(D)
    BY <1>1 DEF Nodes, Calls, Inside
  <1>3. D \ Inside(G, call).visited = (D \ call.visited) \ {First(call)}
    BY DEF Inside
  <1>4. Cardinality(D \ Inside(G, call).visited) = Cardinality(D \ call.visited) - 1
    <2>1. IsFiniteSet(D \ call.visited) /\ First(call) \in D \ call.visited
      BY <1>1, LeftNat
    <2> QED BY <1>3, <2>1, FS_RemoveElement
  <1> DEFINE x == Cardinality(D \ Inside(G, call).visited)
             y == Cardinality(D \ call.visited)
             c == Cardinality(D) + 1
  <1>5. /\ x \in Nat /\ y \in Nat /\ c \in Nat /\ x < y
        /\ Cardinality(Inside(G, call).todo) < c
        /\ Cardinality(Inside(G, call).todo) \in Nat /\ Cardinality(call.todo) \in Nat
    BY <1>1, <1>2, <1>4, LeftNat
  <1>6. x * c + c <= y * c /\ x * c \in Nat /\ y * c \in Nat
    BY <1>5, ProductGrows
  <1>7. Left(D, Inside(G, call)) = x * c + Cardinality(Inside(G, call).todo)
        /\ Left(D, call) = y * c + Cardinality(call.todo)
    BY DEF Left
  <1> HIDE DEF x, y, c
  <1> QED BY <1>2, <1>5, <1>6, <1>7

\* and the call on the other nodes has no more to visit and is on a node less.
LEMMA RestLess ==
    ASSUME NEW G, NEW D, Nodes(G, D), NEW call \in Calls(D), call.todo # {},
           NEW here \in Answers(D), call.visited \subseteq here.visited
    PROVE  Rest(call, here) \in Calls(D) /\ Left(D, Rest(call, here)) < Left(D, call)
  <1>1. First(call) \in call.todo /\ First(call) \in D /\ IsFiniteSet(D)
    BY FirstIn DEF Calls, Nodes
  <1>2. Rest(call, here) \in Calls(D)
    BY <1>1 DEF Answers, Calls, Rest
  <1>3. D \ Rest(call, here).visited \subseteq D \ call.visited
    BY DEF Rest
  <1>4. Cardinality(Rest(call, here).todo) = Cardinality(call.todo) - 1
    <2>1. Rest(call, here).todo = call.todo \ {First(call)}
      BY DEF Rest
    <2>2. IsFiniteSet(call.todo)
      BY <1>1, LeftNat
    <2> QED BY <1>1, <2>1, <2>2, FS_RemoveElement
  <1> DEFINE x == Cardinality(D \ Rest(call, here).visited)
             y == Cardinality(D \ call.visited)
             c == Cardinality(D) + 1
  <1>5. x <= y
    BY <1>1, <1>3, LeftNat, FS_Subset
  <1>6. /\ x \in Nat /\ y \in Nat /\ c \in Nat
        /\ Cardinality(Rest(call, here).todo) \in Nat /\ Cardinality(call.todo) \in Nat
    <2>1. y \in Nat /\ c \in Nat /\ Cardinality(call.todo) \in Nat
      BY <1>1, LeftNat
    <2>2. PICK r \in Calls(D) : r = Rest(call, here)
      BY <1>2
    <2>3. Cardinality(D \ r.visited) \in Nat /\ Cardinality(r.todo) \in Nat
      BY <1>1, LeftNat
    <2> QED BY <2>1, <2>2, <2>3
  <1>7. x * c <= y * c /\ x * c \in Nat /\ y * c \in Nat
    BY <1>5, <1>6, ProductGrows
  <1>8. Left(D, Rest(call, here)) = x * c + Cardinality(Rest(call, here).todo)
        /\ Left(D, call) = y * c + Cardinality(call.todo)
    BY DEF Left
  <1> HIDE DEF x, y, c
  <1> QED BY <1>2, <1>4, <1>6, <1>7, <1>8

\* An answer never forgets a visited node.
Good(D, V, call) == V[call] \in Answers(D) /\ call.visited \subseteq V[call].visited
GoodBelow(D, V, call) ==
    \A c \in Calls(D) : Left(D, c) < Left(D, call) => Good(D, V, c)

LEMMA HereGood ==
    ASSUME NEW G, NEW D, Nodes(G, D), NEW V, NEW call \in Calls(D), call.todo # {},
           GoodBelow(D, V, call)
    PROVE  Here(G, V, call) \in Answers(D) /\ call.visited \subseteq Here(G, V, call).visited
  <1>1. First(call) \in D
    BY FirstIn DEF Calls
  <1>2. CASE First(call) \in call.stack
    BY <1>2 DEF Here, Answers, Calls
  <1>3. CASE First(call) \notin call.stack /\ First(call) \in call.visited
    BY <1>3 DEF Here, Answers, Calls
  <1>4. CASE First(call) \notin call.stack /\ First(call) \notin call.visited
    <2>1. Good(D, V, Inside(G, call))
      BY <1>4, InsideLess DEF GoodBelow
    <2>2. PICK below : below = V[Inside(G, call)]
      OBVIOUS
    <2>3. below \in Answers(D) /\ call.visited \subseteq below.visited
      BY <2>1, <2>2 DEF Good, Inside
    <2>4. Here(G, V, call) =
            IF below.cycle THEN below ELSE [below EXCEPT !.stack = @ \ {First(call)}]
      BY <1>4, <2>2 DEF Here
    <2>5. PICK s : s = below.stack \ {First(call)}
      OBVIOUS
    <2>6. s \in SUBSET D
      BY <2>3, <2>5 DEF Answers
    <2>7. Here(G, V, call) = IF below.cycle THEN below ELSE [below EXCEPT !.stack = s]
      BY <2>4, <2>5
    <2> QED BY <2>3, <2>6, <2>7 DEF Answers
  <1> QED BY <1>2, <1>3, <1>4

LEMMA BodyGood ==
    ASSUME NEW G, NEW D, Nodes(G, D), NEW V, NEW call \in Calls(D), GoodBelow(D, V, call)
    PROVE  Body(G, V, call) \in Answers(D) /\ call.visited \subseteq Body(G, V, call).visited
  <1>1. CASE call.todo = {}
    BY <1>1 DEF Body, Calls, Answers
  <1>2. CASE call.todo # {}
    <2>1. PICK here : here = Here(G, V, call)
      OBVIOUS
    <2>2. here \in Answers(D) /\ call.visited \subseteq here.visited
      BY <1>2, <2>1, HereGood
    <2>3. Good(D, V, Rest(call, here))
      BY <1>2, <2>2, RestLess DEF GoodBelow
    <2>4. V[Rest(call, here)] \in Answers(D) /\ here.visited \subseteq V[Rest(call, here)].visited
      BY <2>3 DEF Good, Rest
    <2>5. Body(G, V, call) = IF here.cycle THEN here ELSE V[Rest(call, here)]
      BY <1>2, <2>1 DEF Body
    <2> QED BY <2>2, <2>4, <2>5
  <1> QED BY <1>1, <1>2

\* A call depends on the answers of those it makes only.
LEMMA BodySame ==
    ASSUME NEW G, NEW D, Nodes(G, D), NEW V, NEW W, NEW call \in Calls(D), GoodBelow(D, V, call),
           \A c \in Calls(D) : Left(D, c) < Left(D, call) => W[c] = V[c]
    PROVE  Body(G, W, call) = Body(G, V, call)
  <1>1. CASE call.todo = {}
    BY <1>1 DEF Body
  <1>2. CASE call.todo # {}
    <2>1. Here(G, W, call) = Here(G, V, call)
      <3>1. CASE First(call) \in call.stack \/ First(call) \in call.visited
        BY <3>1 DEF Here
      <3>2. CASE First(call) \notin call.stack /\ First(call) \notin call.visited
        <4>1. W[Inside(G, call)] = V[Inside(G, call)]
          BY <1>2, <3>2, InsideLess
        <4> QED BY <3>2, <4>1 DEF Here
      <3> QED BY <3>1, <3>2
    <2>2. PICK here : here = Here(G, V, call)
      OBVIOUS
    <2>3. here \in Answers(D) /\ call.visited \subseteq here.visited
      BY <1>2, <2>2, HereGood
    <2>4. W[Rest(call, here)] = V[Rest(call, here)]
      BY <1>2, <2>3, RestLess
    <2> QED BY <1>2, <2>1, <2>2, <2>4 DEF Body
  <1> QED BY <1>1, <1>2

\* The search, as far as the calls with less than k left.
Stage(G, D, V, k) ==
    /\ V = [call \in {c \in Calls(D) : Left(D, c) < k} |-> Body(G, V, call)]
    /\ \A c \in Calls(D) : Left(D, c) < k => Good(D, V, c)

LEMMA StageExists ==
    ASSUME NEW G, NEW D, Nodes(G, D)
    PROVE  \A k \in Nat : \E V : Stage(G, D, V, k)
  <1> DEFINE T == {k \in Nat : \E V : Stage(G, D, V, k)}
  <1>0. \A c \in Calls(D) : Left(D, c) \in Nat
    BY LeftNat DEF Nodes
  <1>1. 0 \in T
    <2>1. PICK V : V = [call \in {} |-> {}]
      OBVIOUS
    <2>2. {c \in Calls(D) : Left(D, c) < 0} = {}
      BY <1>0
    <2>3. V = [call \in {c \in Calls(D) : Left(D, c) < 0} |-> Body(G, V, call)]
      BY <2>1, <2>2
    <2>4. Stage(G, D, V, 0)
      BY <1>0, <2>3 DEF Stage
    <2> QED BY <2>4
  <1>2. ASSUME NEW k \in Nat, k \in T
        PROVE  k + 1 \in T
    <2>1. PICK V : Stage(G, D, V, k)
      BY <1>2
    <2>2. PICK W : W = [call \in {c \in Calls(D) : Left(D, c) < k + 1} |-> Body(G, V, call)]
      OBVIOUS
    <2>3. ASSUME NEW call \in Calls(D), Left(D, call) < k
          PROVE  W[call] = V[call]
      <3>1. Left(D, call) < k + 1
        BY <1>0, <2>3
      <3>2. W[call] = Body(G, V, call)
        BY <2>2, <3>1
      <3>3. V[call] = Body(G, V, call)
        BY <2>1, <2>3 DEF Stage
      <3> QED BY <3>2, <3>3
    <2>4. ASSUME NEW call \in Calls(D), Left(D, call) < k + 1
          PROVE  /\ Body(G, W, call) = Body(G, V, call)
                 /\ Good(D, W, call)
      <3>1. \A c \in Calls(D) : Left(D, c) < Left(D, call) => Left(D, c) < k
        BY <1>0, <2>4
      <3>2. GoodBelow(D, V, call)
        BY <2>1, <3>1 DEF Stage, GoodBelow
      <3>3. \A c \in Calls(D) : Left(D, c) < Left(D, call) => W[c] = V[c]
        BY <2>3, <3>1
      <3>4. Body(G, W, call) = Body(G, V, call)
        BY <3>2, <3>3, BodySame
      <3>5. W[call] = Body(G, V, call)
        BY <2>2, <2>4
      <3> QED BY <3>2, <3>4, <3>5, BodyGood DEF Good
    <2>5. W = [call \in {c \in Calls(D) : Left(D, c) < k + 1} |-> Body(G, W, call)]
      BY <2>2, <2>4
    <2> QED BY <2>4, <2>5 DEF Stage
  <1> HIDE DEF T
  <1>3. \A k \in Nat : k \in T
    BY <1>1, <1>2, NatInSet
  <1> QED BY <1>3 DEF T

\* So there is a search, and what it answers never forgets a visited node.
LEMMA SearchExists ==
    ASSUME NEW G, NEW D, Nodes(G, D)
    PROVE  \E V : IsVisit(G, D, V)
  <1>1. Cardinality(D) \in Nat /\ IsFiniteSet(D)
    BY FS_CardinalityType DEF Nodes
  <1> DEFINE c == Cardinality(D) + 1
  <1>2. PICK k : k = c * c + c
    OBVIOUS
  <1>3. c \in Nat /\ c * c \in Nat
    BY <1>1, ProductGrows
  <1>4. k \in Nat
    BY <1>2, <1>3
  <1>5. ASSUME NEW call \in Calls(D)
        PROVE  Left(D, call) < k
    <2> DEFINE x == Cardinality(D \ call.visited)
    <2>1. D \ call.visited \in SUBSET D
      OBVIOUS
    <2>2. x \in Nat /\ x <= c /\ Cardinality(call.todo) < c /\ Cardinality(call.todo) \in Nat
      BY <1>1, <2>1, LeftNat, FS_Subset
    <2>3. x * c <= c * c /\ x * c \in Nat
      BY <1>3, <2>2, ProductGrows
    <2>4. Left(D, call) = x * c + Cardinality(call.todo)
      BY DEF Left
    <2> HIDE DEF x, c
    <2> QED BY <1>2, <1>3, <2>2, <2>3, <2>4
  <1>6. PICK V : Stage(G, D, V, k)
    BY <1>4, StageExists
  <1>7. {call \in Calls(D) : Left(D, call) < k} = Calls(D)
    BY <1>5
  <1> QED BY <1>6, <1>7 DEF Stage, IsVisit

-----------------------------------------------------------------------------
(* What the search answers.                                                *)

\* From every node of the group an edge leads into it.
Cycle(G, group) == group # {} /\ \A x \in group : G[x] \cap group # {}
Cyclic(G, D) == \E group \in SUBSET D : Cycle(G, group)

\* Nodes done with: no edge leads out of them, and they have no cycle.
Done(G, B) == (\A x \in B : G[x] \subseteq B) /\ \A group \in SUBSET B : ~ Cycle(G, group)

\* The stack is a path to the node whose neighbours the call is on.
Path(G, D, call) ==
    \E path \in Seq(D) :
        /\ call.stack = {path[i] : i \in 1 .. Len(path)}
        /\ \A i \in 1 .. Len(path) - 1 : path[i + 1] \in G[path[i]]
        /\ Len(path) > 0 => call.todo \subseteq G[path[Len(path)]]

Legal(G, D, call) ==
    /\ call.stack \subseteq call.visited
    /\ Done(G, call.visited \ call.stack)
    /\ Path(G, D, call)

Right(G, D, call, answer) ==
    IF answer.cycle THEN Cyclic(G, D)
    ELSE /\ answer.stack = call.stack
         /\ call.todo \subseteq answer.visited
         /\ call.todo \cap call.stack = {}
         /\ Done(G, answer.visited \ answer.stack)

RightBelow(G, D, V, call) ==
    \A c \in Calls(D) :
        Left(D, c) < Left(D, call) /\ Legal(G, D, c) => Right(G, D, c, V[c])

\* A node on the stack closes a cycle: the path from it on.
LEMMA StackedCycle ==
    ASSUME NEW G, NEW D, NEW call \in Calls(D), call.todo # {}, Legal(G, D, call),
           First(call) \in call.stack
    PROVE  Cyclic(G, D)
  <1>1. PICK path \in Seq(D) :
            /\ call.stack = {path[i] : i \in 1 .. Len(path)}
            /\ \A i \in 1 .. Len(path) - 1 : path[i + 1] \in G[path[i]]
            /\ Len(path) > 0 => call.todo \subseteq G[path[Len(path)]]
    BY DEF Legal, Path
  <1>2. Len(path) \in Nat /\ \A i \in 1 .. Len(path) : path[i] \in D
    OBVIOUS
  <1>3. PICK k \in 1 .. Len(path) : path[k] = First(call)
    BY <1>1
  <1> DEFINE group == {path[i] : i \in k .. Len(path)}
  <1>4. group \in SUBSET D
    BY <1>2
  <1>5. First(call) \in group
    BY <1>2, <1>3
  <1>6. ASSUME NEW i \in k .. Len(path)
        PROVE  G[path[i]] \cap group # {}
    <2>1. CASE i = Len(path)
      <3>1. First(call) \in G[path[i]]
        BY <1>1, <1>2, <2>1, FirstIn
      <3> QED BY <1>5, <3>1
    <2>2. CASE i # Len(path)
      <3>1. i \in 1 .. Len(path) - 1 /\ i + 1 \in k .. Len(path)
        BY <1>2, <2>2
      <3>2. path[i + 1] \in G[path[i]] /\ path[i + 1] \in group
        BY <1>1, <3>1
      <3> QED BY <3>2
    <2> QED BY <2>1, <2>2
  <1>7. Cycle(G, group)
    BY <1>5, <1>6 DEF Cycle
  <1> QED BY <1>4, <1>7 DEF Cyclic

\* A node all of whose neighbours are done with can be done with.
LEMMA DoneAdd ==
    ASSUME NEW G, NEW B, Done(G, B), NEW n, n \notin B, G[n] \subseteq B
    PROVE  Done(G, B \cup {n})
  <1>1. \A x \in B \cup {n} : G[x] \subseteq B
    BY DEF Done
  <1>2. ASSUME NEW group \in SUBSET (B \cup {n}), Cycle(G, group)
        PROVE  FALSE
    <2>1. group \ {n} \in SUBSET B
      OBVIOUS
    <2>2. CASE group \ {n} = {}
      BY <1>1, <1>2, <2>2 DEF Cycle
    <2>3. CASE group \ {n} # {}
      <3>1. \A x \in group \ {n} : G[x] \cap (group \ {n}) # {}
        BY <1>1, <1>2 DEF Cycle
      <3> QED BY <2>1, <2>3, <3>1 DEF Cycle, Done
    <2> QED BY <2>2, <2>3
  <1> QED BY <1>1, <1>2 DEF Done

\* The call on a new node's neighbours: the node ends the path.
LEMMA InsideLegal ==
    ASSUME NEW G, NEW D, NEW call \in Calls(D), call.todo # {}, Legal(G, D, call),
           First(call) \notin call.visited
    PROVE  Legal(G, D, Inside(G, call))
  <1>1. First(call) \in call.todo /\ First(call) \in D
    BY FirstIn DEF Calls
  <1>2. PICK path \in Seq(D) :
            /\ call.stack = {path[i] : i \in 1 .. Len(path)}
            /\ \A i \in 1 .. Len(path) - 1 : path[i + 1] \in G[path[i]]
            /\ Len(path) > 0 => call.todo \subseteq G[path[Len(path)]]
    BY DEF Legal, Path
  <1>3. PICK longer : longer = Append(path, First(call))
    OBVIOUS
  <1>4. /\ longer \in Seq(D) /\ Len(path) \in Nat /\ Len(longer) = Len(path) + 1
        /\ longer[Len(path) + 1] = First(call)
        /\ \A i \in 1 .. Len(path) : longer[i] = path[i]
    BY <1>1, <1>3, AppendProperties
  <1>5. {longer[i] : i \in 1 .. Len(longer)} = {path[i] : i \in 1 .. Len(path)} \cup {First(call)}
    <2>1. 1 .. Len(longer) = (1 .. Len(path)) \cup {Len(path) + 1}
      BY <1>4
    <2> QED BY <1>4, <2>1
  <1>6. ASSUME NEW i \in 1 .. Len(longer) - 1
        PROVE  longer[i + 1] \in G[longer[i]]
    <2>1. CASE i = Len(path)
      BY <1>1, <1>2, <1>4, <2>1
    <2>2. CASE i # Len(path)
      <3>1. i \in 1 .. Len(path) - 1 /\ i + 1 \in 1 .. Len(path) /\ i \in 1 .. Len(path)
        BY <1>4, <2>2
      <3> QED BY <1>2, <1>4, <3>1
    <2> QED BY <2>1, <2>2
  <1>7. /\ Inside(G, call).stack = call.stack \cup {First(call)}
        /\ Inside(G, call).visited = call.visited \cup {First(call)}
        /\ Inside(G, call).todo = G[First(call)]
    BY DEF Inside
  <1>8. Path(G, D, Inside(G, call))
    BY <1>2, <1>4, <1>5, <1>6, <1>7 DEF Path
  <1>9. Inside(G, call).visited \ Inside(G, call).stack = call.visited \ call.stack
    BY <1>7
  <1> QED BY <1>7, <1>8, <1>9 DEF Legal

LEMMA HereRight ==
    ASSUME NEW G, NEW D, Nodes(G, D), NEW V, NEW call \in Calls(D), call.todo # {},
           Legal(G, D, call), GoodBelow(D, V, call), RightBelow(G, D, V, call)
    PROVE  /\ Here(G, V, call).cycle => Cyclic(G, D)
           /\ ~ Here(G, V, call).cycle =>
                 /\ Here(G, V, call).stack = call.stack
                 /\ First(call) \in Here(G, V, call).visited /\ First(call) \notin call.stack
                 /\ Done(G, Here(G, V, call).visited \ call.stack)
  <1>1. CASE First(call) \in call.stack
    BY <1>1, StackedCycle DEF Here
  <1>2. CASE First(call) \notin call.stack /\ First(call) \in call.visited
    BY <1>2 DEF Here, Legal
  <1>3. CASE First(call) \notin call.stack /\ First(call) \notin call.visited
    <2>1. PICK n : n = First(call)
      OBVIOUS
    <2>2. PICK below : below = V[Inside(G, call)]
      OBVIOUS
    <2>3. Inside(G, call) \in Calls(D) /\ Left(D, Inside(G, call)) < Left(D, call)
          /\ Legal(G, D, Inside(G, call))
      BY <1>3, InsideLess, InsideLegal
    <2>4. Right(G, D, Inside(G, call), below) /\ Good(D, V, Inside(G, call))
      BY <2>2, <2>3 DEF RightBelow, GoodBelow
    <2>5. /\ Inside(G, call).stack = call.stack \cup {n}
          /\ Inside(G, call).visited = call.visited \cup {n}
          /\ Inside(G, call).todo = G[n]
      BY <2>1 DEF Inside
    <2>6. CASE below.cycle
      BY <1>3, <2>2, <2>4, <2>6 DEF Here, Right
    <2>7. CASE ~ below.cycle
      <3>1. PICK s : s = below.stack \ {n}
        OBVIOUS
      <3>2. Here(G, V, call) = [below EXCEPT !.stack = s]
        BY <1>3, <2>1, <2>2, <2>7, <3>1 DEF Here
      <3>3. below \in Answers(D) /\ call.visited \cup {n} \subseteq below.visited
        BY <2>2, <2>4, <2>5 DEF Good
      <3>4. /\ Here(G, V, call).cycle = below.cycle
            /\ Here(G, V, call).visited = below.visited
            /\ Here(G, V, call).stack = s
        BY <3>2, <3>3 DEF Answers
      <3>5. below.stack = call.stack \cup {n} /\ G[n] \subseteq below.visited
            /\ G[n] \cap (call.stack \cup {n}) = {}
            /\ Done(G, below.visited \ (call.stack \cup {n}))
        BY <2>4, <2>5, <2>7 DEF Right
      <3>6. s = call.stack
        BY <1>3, <2>1, <3>1, <3>5
      <3>7. Done(G, (below.visited \ (call.stack \cup {n})) \cup {n})
        BY <3>5, DoneAdd
      <3>8. (below.visited \ (call.stack \cup {n})) \cup {n} = below.visited \ call.stack
        BY <1>3, <2>1, <3>3
      <3> QED BY <1>3, <2>1, <2>7, <3>3, <3>4, <3>6, <3>7, <3>8
    <2> QED BY <2>6, <2>7
  <1> QED BY <1>1, <1>2, <1>3

\* The call on the other nodes: the path is the same.
LEMMA RestLegal ==
    ASSUME NEW G, NEW D, NEW call \in Calls(D), Legal(G, D, call), NEW here \in Answers(D),
           here.stack = call.stack, call.visited \subseteq here.visited,
           Done(G, here.visited \ call.stack)
    PROVE  Legal(G, D, Rest(call, here))
  <1>1. /\ Rest(call, here).stack = call.stack
        /\ Rest(call, here).visited = here.visited
        /\ Rest(call, here).todo \subseteq call.todo
    BY DEF Rest
  <1>2. PICK path \in Seq(D) :
            /\ call.stack = {path[i] : i \in 1 .. Len(path)}
            /\ \A i \in 1 .. Len(path) - 1 : path[i + 1] \in G[path[i]]
            /\ Len(path) > 0 => call.todo \subseteq G[path[Len(path)]]
    BY DEF Legal, Path
  <1>3. Path(G, D, Rest(call, here))
    BY <1>1, <1>2 DEF Path
  <1> QED BY <1>1, <1>3 DEF Legal

LEMMA BodyRight ==
    ASSUME NEW G, NEW D, Nodes(G, D), NEW V, NEW call \in Calls(D),
           Legal(G, D, call), GoodBelow(D, V, call), RightBelow(G, D, V, call)
    PROVE  Right(G, D, call, Body(G, V, call))
  <1>1. CASE call.todo = {}
    BY <1>1 DEF Body, Right, Legal
  <1>2. CASE call.todo # {}
    <2>1. PICK here : here = Here(G, V, call)
      OBVIOUS
    <2>2. here \in Answers(D) /\ call.visited \subseteq here.visited
      BY <1>2, <2>1, HereGood
    <2>3. CASE here.cycle
      BY <1>2, <2>1, <2>3, HereRight DEF Body, Right
    <2>4. CASE ~ here.cycle
      <3>1. /\ here.stack = call.stack
            /\ First(call) \in here.visited /\ First(call) \notin call.stack
            /\ Done(G, here.visited \ call.stack)
        <4>1. ~ Here(G, V, call).cycle =>
                 /\ Here(G, V, call).stack = call.stack
                 /\ First(call) \in Here(G, V, call).visited /\ First(call) \notin call.stack
                 /\ Done(G, Here(G, V, call).visited \ call.stack)
          BY <1>2, HereRight
        <4> QED BY <2>1, <2>4, <4>1
      <3>2. PICK rest : rest = Rest(call, here)
        OBVIOUS
      <3>3. rest \in Calls(D) /\ Left(D, rest) < Left(D, call) /\ Legal(G, D, rest)
        BY <1>2, <2>2, <3>1, <3>2, RestLess, RestLegal
      <3>4. Right(G, D, rest, V[rest]) /\ rest.visited \subseteq V[rest].visited
        BY <3>3 DEF RightBelow, GoodBelow, Good
      <3>5. Body(G, V, call) = V[rest]
        BY <1>2, <2>1, <2>4, <3>2 DEF Body
      <3>6. /\ rest.stack = call.stack /\ rest.visited = here.visited
            /\ rest.todo = call.todo \ {First(call)}
        BY <3>1, <3>2 DEF Rest
      <3> QED BY <3>1, <3>4, <3>5, <3>6 DEF Right
    <2> QED BY <2>3, <2>4
  <1> QED BY <1>1, <1>2

\* By induction on what is left, every call a legal search makes is answered
\* right.
LEMMA VisitRight ==
    ASSUME NEW G, NEW D, Nodes(G, D), NEW V, IsVisit(G, D, V)
    PROVE  \A c \in Calls(D) : Good(D, V, c) /\ (Legal(G, D, c) => Right(G, D, c, V[c]))
  <1> DEFINE Answered(c) == Good(D, V, c) /\ (Legal(G, D, c) => Right(G, D, c, V[c]))
             T == {k \in Nat : \A c \in Calls(D) : Left(D, c) < k => Answered(c)}
  <1>1. \A c \in Calls(D) : Left(D, c) \in Nat
    BY LeftNat DEF Nodes
  <1>2. 0 \in T
    BY <1>1
  <1>3. ASSUME NEW k \in Nat, k \in T
        PROVE  k + 1 \in T
    <2>1. ASSUME NEW call \in Calls(D), Left(D, call) < k + 1
          PROVE  Answered(call)
      <3>1. \A c \in Calls(D) : Left(D, c) < Left(D, call) => Answered(c)
        BY <1>1, <1>3, <2>1
      <3>2. GoodBelow(D, V, call) /\ RightBelow(G, D, V, call)
        BY <3>1 DEF GoodBelow, RightBelow
      <3>3. V[call] = Body(G, V, call)
        BY DEF IsVisit
      <3> QED BY <3>2, <3>3, BodyGood, BodyRight DEF Good
    <2> QED BY <2>1
  <1> HIDE DEF T
  <1>4. \A k \in Nat : k \in T
    BY <1>2, <1>3, NatInSet
  <1>5. ASSUME NEW c \in Calls(D)
        PROVE  Answered(c)
    <2>1. Left(D, c) + 1 \in T /\ Left(D, c) < Left(D, c) + 1
      BY <1>1, <1>4
    <2> QED BY <2>1 DEF T
  <1> QED BY <1>5

LEMMA SearchRight ==
    ASSUME NEW G, NEW D, Nodes(G, D), NEW V, IsVisit(G, D, V)
    PROVE  V[FirstCall(D)].cycle <=> Cyclic(G, D)
  <1>1. PICK call : call = FirstCall(D)
    OBVIOUS
  <1>2. call \in Calls(D) /\ call.todo = D /\ call.visited = {} /\ call.stack = {}
    BY <1>1 DEF FirstCall, Calls
  <1>3. Path(G, D, call)
    <2>1. PICK path \in Seq(D) : Len(path) = 0
      <3>1. <<>> \in Seq(D) /\ Len(<<>>) = 0
        OBVIOUS
      <3> QED BY <3>1
    <2>2. call.stack = {path[i] : i \in 1 .. Len(path)}
      BY <1>2, <2>1
    <2>3. \A i \in 1 .. Len(path) - 1 : path[i + 1] \in G[path[i]]
      BY <2>1
    <2>4. Len(path) > 0 => call.todo \subseteq G[path[Len(path)]]
      BY <2>1
    <2> QED BY <2>2, <2>3, <2>4 DEF Path
  <1>4. Legal(G, D, call)
    BY <1>2, <1>3 DEF Legal, Done, Cycle
  <1>5. Good(D, V, call) /\ Right(G, D, call, V[call])
    BY <1>2, <1>4, VisitRight
  <1>6. CASE V[call].cycle
    BY <1>1, <1>5, <1>6 DEF Right
  <1>7. CASE ~ V[call].cycle
    <2>1. V[call].visited = D /\ V[call].stack = {}
      BY <1>2, <1>5, <1>7 DEF Right, Good, Answers
    <2>2. Done(G, D)
      BY <1>5, <1>7, <2>1 DEF Right
    <2> QED BY <1>1, <1>7, <2>2 DEF Done, Cyclic
  <1> QED BY <1>6, <1>7

-----------------------------------------------------------------------------
(* validate_workflow.                                                      *)

\* What it has seen before it looks for cycles: the ids are unique and the
\* dependencies are known.
Known(steps) ==
    \A i \in DOMAIN steps :
        /\ \A j \in DOMAIN steps : steps[i].id = steps[j].id => i = j
        /\ steps[i].depends_on \subseteq IdsOf(steps)

LEMMA DependenciesOf ==
    ASSUME NEW steps \in Seq(Step), Known(steps), NEW i \in DOMAIN steps
    PROVE  steps[i].id \in IdsOf(steps) /\ Dependencies(steps)[steps[i].id] = steps[i].depends_on
  <1>1. PICK s \in IdsOf(steps) : s = steps[i].id
    BY DEF IdsOf
  <1>2. PICK last : last = CHOOSE k \in DOMAIN steps :
                        steps[k].id = s /\ \A j \in DOMAIN steps : steps[j].id = s => j <= k
    OBVIOUS
  <1>3. i \in Nat /\ \A j \in DOMAIN steps : steps[j].id = s => j = i
    BY <1>1 DEF Known
  <1>4. last = i
    BY <1>1, <1>2, <1>3
  <1>5. Dependencies(steps)[s] = steps[last].depends_on
    BY <1>2 DEF Dependencies
  <1> QED BY <1>1, <1>4, <1>5

LEMMA IdsFinite ==
    ASSUME NEW steps \in Seq(Step)
    PROVE  IsFiniteSet(IdsOf(steps))
  <1>1. IsFiniteSet(DOMAIN steps)
    <2>1. DOMAIN steps = 1 .. Len(steps) /\ Len(steps) \in Nat
      OBVIOUS
    <2> QED BY <2>1, FS_Interval
  <1>2. PICK f : f = [i \in DOMAIN steps |-> steps[i].id]
    OBVIOUS
  <1>3. f \in Surjection(DOMAIN steps, IdsOf(steps))
    BY <1>2 DEF Surjection, IdsOf
  <1> QED BY <1>1, <1>3, FS_Surjection

LEMMA DependenciesNodes ==
    ASSUME NEW steps \in Seq(Step), Known(steps)
    PROVE  Nodes(Dependencies(steps), IdsOf(steps))
  <1>1. ASSUME NEW x \in IdsOf(steps)
        PROVE  Dependencies(steps)[x] \in SUBSET IdsOf(steps)
    <2>1. PICK i \in DOMAIN steps : x = steps[i].id
      BY DEF IdsOf
    <2>2. Dependencies(steps)[x] = steps[i].depends_on
      BY <2>1, DependenciesOf
    <2> QED BY <2>2 DEF Known
  <1> QED BY <1>1, IdsFinite DEF Nodes

\* A group of ids from each of which an edge leads into it is a group of
\* steps each of which needs another of them.
LEMMA CyclicSteps ==
    ASSUME NEW steps \in Seq(Step), Known(steps)
    PROVE  Cyclic(Dependencies(steps), IdsOf(steps)) <=>
              \E group \in (SUBSET DOMAIN steps) \ {{}} :
                  \A i \in group : \E j \in group : steps[j].id \in steps[i].depends_on
  <1> DEFINE G == Dependencies(steps)
  <1>1. ASSUME NEW ids \in SUBSET IdsOf(steps), Cycle(G, ids)
        PROVE  \E group \in (SUBSET DOMAIN steps) \ {{}} :
                  \A i \in group : \E j \in group : steps[j].id \in steps[i].depends_on
    <2> DEFINE group == {i \in DOMAIN steps : steps[i].id \in ids}
    <2>1. group \in (SUBSET DOMAIN steps) \ {{}}
      BY <1>1 DEF Cycle, IdsOf
    <2>2. ASSUME NEW i \in group
          PROVE  \E j \in group : steps[j].id \in steps[i].depends_on
      <3>1. PICK s \in ids : s \in G[steps[i].id]
        BY <1>1 DEF Cycle
      <3>2. G[steps[i].id] = steps[i].depends_on
        BY DependenciesOf
      <3>3. PICK j \in DOMAIN steps : s = steps[j].id
        BY <3>1 DEF IdsOf
      <3> QED BY <3>1, <3>2, <3>3
    <2> QED BY <2>1, <2>2
  <1>2. ASSUME NEW group \in (SUBSET DOMAIN steps) \ {{}},
               \A i \in group : \E j \in group : steps[j].id \in steps[i].depends_on
        PROVE  Cyclic(G, IdsOf(steps))
    <2> DEFINE ids == {steps[i].id : i \in group}
    <2>1. ids \in SUBSET IdsOf(steps) /\ ids # {}
      BY <1>2 DEF IdsOf
    <2>2. ASSUME NEW i \in group
          PROVE  G[steps[i].id] \cap ids # {}
      <3>1. PICK j \in group : steps[j].id \in steps[i].depends_on
        BY <1>2
      <3>2. i \in DOMAIN steps
        BY <1>2
      <3>3. G[steps[i].id] = steps[i].depends_on
        BY <3>2, DependenciesOf
      <3> QED BY <3>1, <3>3
    <2>3. Cycle(G, ids)
      BY <2>1, <2>2 DEF Cycle
    <2> QED BY <2>1, <2>3 DEF Cyclic
  <1> QED BY <1>1, <1>2 DEF Cyclic

\* What validation accepts is exactly what can be run.
THEOREM ValidIsRunnable ==
    ASSUME NEW steps \in Seq(Step)
    PROVE  Valid(steps) <=> Runnable(steps)
  <1>1. Valid(steps) <=> Known(steps) /\ ~ HasCircularDependencies(steps)
    BY DEF Valid, Known
  <1>2. Runnable(steps) <=>
           /\ Known(steps)
           /\ ~ \E group \in (SUBSET DOMAIN steps) \ {{}} :
                  \A i \in group : \E j \in group : steps[j].id \in steps[i].depends_on
    BY DEF Runnable, Known
  <1>3. ASSUME Known(steps)
        PROVE  HasCircularDependencies(steps) <=> Cyclic(Dependencies(steps), IdsOf(steps))
    <2>1. PICK V : /\ V = CHOOSE W : IsVisit(Dependencies(steps), IdsOf(steps), W)
                   /\ HasCircularDependencies(steps) = V[FirstCall(IdsOf(steps))].cycle
      BY SearchIs
    <2>2. Nodes(Dependencies(steps), IdsOf(steps))
      BY <1>3, DependenciesNodes
    <2>3. IsVisit(Dependencies(steps), IdsOf(steps), V)
      BY <2>1, <2>2, SearchExists
    <2> QED BY <2>1, <2>2, <2>3, SearchRight
  <1> QED BY <1>1, <1>2, <1>3, CyclicSteps
=============================================================================
