---------------------------- MODULE PlanFlowProofs ----------------------------
(***************************************************************************)
(* A planned task, for all plans of any length and any number of calls,    *)
(* Turns, retries and crashes.                                             *)
(***************************************************************************)
EXTENDS PlanFlow, SequenceTheorems, FiniteSetTheorems, WellFoundedInduction, TLAPS

-----------------------------------------------------------------------------
(* Plans.                                                                  *)

\* What PlanFlowAssumption says of a plan that is offered.
StepType == [key : Keys, role : Roles \cup {None}, kind : StepKinds, deps : SUBSET Keys,
             inputs : SUBSET Contract, outputs : SUBSET Contract]
Plan == [steps : Seq(StepType), initial : SUBSET Contract]

\* Every set of numbers has a least one.
LEMMA Least ==
  ASSUME NEW S \in SUBSET Nat, S # {}
  PROVE  \E n \in S : \A m \in S : n <= m
<1>1. PICK n \in S : \A m \in S : ~(<<m, n>> \in OpToRel(<, Nat))
  BY NatLessThanWellFounded, WFMin
<1>2. \A m \in S : m < n => <<m, n>> \in OpToRel(<, Nat)  BY DEF OpToRel
<1>3. ASSUME NEW m \in S  PROVE n <= m
  <2>1. m \in Nat /\ n \in Nat  OBVIOUS
  <2>2. ~(m < n)  BY <1>1, <1>2
  <2>. QED  BY <2>1, <2>2
<1>. QED  BY <1>3

\* A set of numbers up to N that has 0 and the successor of each of its numbers
\* has them all.
LEMMA UpTo ==
  ASSUME NEW N \in Nat, NEW S, 0 \in S, \A n \in 1..N : n - 1 \in S => n \in S
  PROVE  0..N \subseteq S
<1>. DEFINE T == {n \in 0..N : n \notin S}
<1>1. SUFFICES ASSUME T # {} PROVE FALSE  OBVIOUS
<1>2. PICK n \in T : \A m \in T : n <= m
  <2>1. T \in SUBSET Nat  OBVIOUS
  <2>. HIDE DEF T
  <2>. QED  BY <1>1, <2>1, Least
<1>3. n # 0 /\ n - 1 \in 0..N  BY <1>2
<1>4. n - 1 \notin T  BY <1>2, <1>3
<1>. QED  BY <1>2, <1>3, <1>4

\* The steps of a plan, by key.
LEMMA StepOfKey ==
  ASSUME NEW p, p.steps \in Seq(StepType), NEW k \in KeysOf(p)
  PROVE  \E i \in Indices(p) : StepAt(p, k) = p.steps[i] /\ p.steps[i].key = k
BY DEF KeysOf, StepAt

\* The fields of a step of a plan.
LEMMA StepFields ==
  ASSUME NEW p, p.steps \in Seq(StepType)
  PROVE  /\ KeysOf(p) \subseteq Keys
         /\ \A k \in KeysOf(p) : DepsOf(p, k) \subseteq Keys
                                 /\ StepAt(p, k).inputs \subseteq Contract
<1>1. \A i \in Indices(p) : p.steps[i] \in StepType  BY DEF Indices
<1>2. KeysOf(p) \subseteq Keys  BY <1>1 DEF KeysOf, StepType
<1>3. \A k \in KeysOf(p) : StepAt(p, k) \in StepType  BY <1>1, StepOfKey
<1>. QED  BY <1>2, <1>3 DEF StepType, DepsOf

\* In a plan that was accepted the review is the last step and no other, and
\* nothing depends on itself or on what is not in the plan.
LEMMA Shape ==
  ASSUME NEW p, p.steps \in Seq(StepType), AcceptedPlan(p)
  PROVE  /\ KeysOf(p) # {} /\ LastStep(p).key \notin SpecialistKeys(p)
         /\ KeysOf(p) = SpecialistKeys(p) \cup {LastStep(p).key}
         /\ \A k \in KeysOf(p) : DepsOf(p, k) \subseteq KeysOf(p) \ {k}
<1>. DEFINE n == Len(p.steps)
<1>1. n \in Nat /\ n >= 2 /\ Indices(p) = 1..n  BY DEF AcceptedPlan, Supported, Indices
<1>2. \A i, j \in 1..n : i # j => p.steps[i].key # p.steps[j].key
  BY <1>1 DEF AcceptedPlan, WellFormed, UniqueNames
<1>3. LastStep(p) = p.steps[n]  BY DEF LastStep
<1>4. SpecialistKeys(p) = {p.steps[i].key : i \in (1..n) \ {n}}  BY <1>1 DEF SpecialistKeys
<1>5. KeysOf(p) = {p.steps[i].key : i \in 1..n}  BY <1>1 DEF KeysOf
<1>6. \A i \in 1..n : p.steps[i].deps \subseteq KeysOf(p) \ {p.steps[i].key}
  BY <1>1 DEF AcceptedPlan, WellFormed, KnownDependencies
<1>7. \A k \in KeysOf(p) : DepsOf(p, k) \subseteq KeysOf(p) \ {k}
  BY <1>1, <1>6, StepOfKey DEF DepsOf
<1>8. LastStep(p).key \notin SpecialistKeys(p)
  <2>. SUFFICES ASSUME NEW i \in (1..n) \ {n}, p.steps[i].key = p.steps[n].key  PROVE FALSE
    BY <1>3, <1>4
  <2>. QED  BY <1>1, <1>2
<1>9. KeysOf(p) = SpecialistKeys(p) \cup {LastStep(p).key} /\ KeysOf(p) # {}
  <2>1. p.steps[n].key \in KeysOf(p)  BY <1>1, <1>5
  <2>2. n \in 1..n /\ \A i \in 1..n : i = n \/ i \in (1..n) \ {n}  BY <1>1
  <2>. QED  BY <2>1, <2>2, <1>3, <1>4, <1>5
<1>. QED  BY <1>7, <1>8, <1>9

\* First picks a step of the plan.
LEMMA FirstIn ==
  ASSUME plan.steps \in Seq(StepType), NEW ks, ks \cap KeysOf(plan) # {}
  PROVE  First(ks) \in ks \cap KeysOf(plan)
<1>. DEFINE S == {i \in Indices(plan) : plan.steps[i].key \in ks}
<1>1. S \in SUBSET Nat /\ S # {}  BY DEF KeysOf, Indices
<1>2. PICK i \in S : \A j \in S : i <= j
  <2>. HIDE DEF S
  <2>. QED  BY <1>1, Least
<1>. QED  BY <1>2 DEF First, KeysOf

\* f takes the steps of G along 0..N, starting from v.
Iterates(f, V, v, G, N) ==
  f \in [0..N -> V] /\ f[0] = v /\ \A n \in 1..N : f[n] = G[f[n - 1]]

\* What is defined by recursion along 0..N exists.
LEMMA Iterate ==
  ASSUME NEW V, NEW v \in V, NEW G \in [V -> V], NEW N \in Nat
  PROVE  \E f : Iterates(f, V, v, G, N)
<1>. DEFINE S == {m \in 0..N : \E f : Iterates(f, V, v, G, m)}
<1>1. 0 \in S
  <2>1. Iterates([n \in 0..0 |-> v], V, v, G, 0)  BY DEF Iterates
  <2>. QED  BY <2>1
<1>2. ASSUME NEW m \in 1..N, m - 1 \in S  PROVE m \in S
  <2>1. PICK f : Iterates(f, V, v, G, m - 1)  BY <1>2
  <2>. DEFINE g == [n \in 0..m |-> IF n = m THEN G[f[m - 1]] ELSE f[n]]
  <2>2. m - 1 \in 0..(m - 1) /\ f[m - 1] \in V  BY <2>1 DEF Iterates
  <2>3. g \in [0..m -> V] /\ g[0] = v  BY <2>1, <2>2 DEF Iterates
  <2>4. ASSUME NEW n \in 1..m  PROVE g[n] = G[g[n - 1]]
    <3>1. CASE n = m  BY <3>1, <2>1, <2>2 DEF Iterates
    <3>2. CASE n # m
      <4>1. n \in 1..(m - 1) /\ n - 1 # m /\ n \in 0..m /\ n - 1 \in 0..m  BY <3>2
      <4>. QED  BY <4>1, <3>2, <2>1 DEF Iterates
    <3>. QED  BY <3>1, <3>2
  <2>5. Iterates(g, V, v, G, m)  BY <2>3, <2>4 DEF Iterates
  <2>. HIDE DEF g
  <2>. QED  BY <2>5
<1>3. 0..N \subseteq S
  <2>. HIDE DEF S
  <2>. QED  BY <1>1, <1>2, UpTo
<1>. QED  BY <1>3

\* AncestorSteps stays inside every set that has the dependencies of the step
\* and of its members.
LEMMA SearchIsLeast ==
  ASSUME NEW p, p.steps \in Seq(StepType), NEW k \in KeysOf(p),
         \A d \in KeysOf(p) : DepsOf(p, d) \subseteq KeysOf(p),
         NEW S \in SUBSET KeysOf(p), DepsOf(p, k) \subseteq S,
         \A d \in S : DepsOf(p, d) \subseteq S
  PROVE  AncestorSteps(p, k) \subseteq S
<1>. DEFINE N == Len(p.steps)
            V == SUBSET KeysOf(p)
            G == [X \in V |-> X \cup UNION {DepsOf(p, d) : d \in X}]
            found == CHOOSE f : f = [n \in 0..N |->
                       IF n = 0 THEN DepsOf(p, k)
                       ELSE f[n - 1] \cup UNION {DepsOf(p, d) : d \in f[n - 1]}]
<1>1. N \in Nat  OBVIOUS
<1>2. G \in [V -> V] /\ DepsOf(p, k) \in V  OBVIOUS
<1>3. PICK f : Iterates(f, V, DepsOf(p, k), G, N)
  <2>. HIDE DEF G, N, V
  <2>. QED  BY <1>1, <1>2, Iterate
<1>4. f = [n \in 0..N |-> IF n = 0 THEN DepsOf(p, k)
                          ELSE f[n - 1] \cup UNION {DepsOf(p, d) : d \in f[n - 1]}]
  <2>1. ASSUME NEW n \in 0..N, n # 0
        PROVE  f[n] = f[n - 1] \cup UNION {DepsOf(p, d) : d \in f[n - 1]}
    <3>1. n \in 1..N /\ n - 1 \in 0..N  BY <2>1, <1>1
    <3>. QED  BY <3>1, <1>3 DEF Iterates
  <2>. QED  BY <2>1, <1>3 DEF Iterates
<1>5. found = [n \in 0..N |-> IF n = 0 THEN DepsOf(p, k)
                 ELSE found[n - 1] \cup UNION {DepsOf(p, d) : d \in found[n - 1]}]
  BY <1>4
<1>6. AncestorSteps(p, k) = found[N]  BY DEF AncestorSteps
<1>. HIDE DEF found
<1>. DEFINE T == {n \in 0..N : found[n] \subseteq S}
<1>7. 0 \in T
  <2>1. found[0] = DepsOf(p, k)  BY <1>1, <1>5
  <2>. QED  BY <2>1, <1>1
<1>8. ASSUME NEW n \in 1..N, n - 1 \in T  PROVE n \in T
  <2>1. found[n] = found[n - 1] \cup UNION {DepsOf(p, d) : d \in found[n - 1]}
    <3>1. n \in 0..N /\ n # 0  BY <1>1
    <3>. QED  BY <3>1, <1>5
  <2>2. found[n] \subseteq S  BY <2>1, <1>8
  <2>. QED  BY <2>2
<1>9. 0..N \subseteq T
  <2>. HIDE DEF T, N
  <2>. QED  BY <1>1, <1>7, <1>8, UpTo
<1>. QED  BY <1>1, <1>6, <1>9

\* A is the sequence of approximations by which Ancestors is computed.
Approximates(A, p) ==
  \A n \in 0..Len(p.steps), k \in KeysOf(p) :
    A[n][k] = IF n = 0 THEN {}
              ELSE DepsOf(p, k) \cup UNION {A[n - 1][d] : d \in DepsOf(p, k)}

\* In a chain the ancestors of a step are the steps before it.
LEMMA ChainAncestors ==
  ASSUME NEW p, p.steps \in Seq(StepType), AcceptedPlan(p), IsLinear(p),
         NEW A, Approximates(A, p), NEW i \in 1..Len(p.steps)
  PROVE  A[Len(p.steps)][p.steps[i].key] = {p.steps[j].key : j \in 1..(i - 1)}
<1>. DEFINE N == Len(p.steps)
            key(j) == p.steps[j].key
            Near(m, n) == {j \in 1..(m - 1) : j >= m - n}
            T == {n \in 0..N : \A m \in 1..N : A[n][key(m)] = {key(j) : j \in Near(m, n)}}
<1>1. N \in Nat /\ Indices(p) = 1..N  BY DEF Indices
<1>2. \A m, j \in 1..N : m # j => key(m) # key(j)
  BY <1>1 DEF AcceptedPlan, WellFormed, UniqueNames
<1>3. \A m \in 1..N : key(m) \in KeysOf(p)  BY <1>1 DEF KeysOf
<1>4. ASSUME NEW m \in 1..N
      PROVE  DepsOf(p, key(m)) = IF m = 1 THEN {} ELSE {key(m - 1)}
  <2>1. PICK j \in 1..N : StepAt(p, key(m)) = p.steps[j] /\ key(j) = key(m)
    BY <1>1, <1>3, StepOfKey
  <2>2. j = m  BY <1>2, <2>1
  <2>. QED  BY <1>1, <2>1, <2>2 DEF DepsOf, IsLinear
<1>5. 0 \in T
  <2>1. 0 \in 0..N  BY <1>1
  <2>2. ASSUME NEW m \in 1..N  PROVE A[0][key(m)] = {} /\ Near(m, 0) = {}
    <3>1. A[0][key(m)] = {}  BY <1>3, <2>1 DEF Approximates
    <3>2. Near(m, 0) = {}  BY <1>1
    <3>. QED  BY <3>1, <3>2
  <2>. QED  BY <2>1, <2>2
<1>6. ASSUME NEW n \in 1..N, n - 1 \in T  PROVE n \in T
  <2>1. n \in 0..N /\ n - 1 \in 0..N /\ n # 0  BY <1>1
  <2>2. ASSUME NEW m \in 1..N  PROVE A[n][key(m)] = {key(j) : j \in Near(m, n)}
    <3>1. A[n][key(m)] = DepsOf(p, key(m)) \cup UNION {A[n - 1][d] : d \in DepsOf(p, key(m))}
      BY <1>3, <2>1 DEF Approximates
    <3>2. CASE m = 1
      <4>1. Near(m, n) = {}  BY <3>2
      <4>2. DepsOf(p, key(m)) = {}  BY <3>2, <1>4
      <4>3. A[n][key(m)] = {}  BY <3>1, <4>2
      <4>. QED  BY <4>1, <4>3
    <3>3. CASE m # 1
      <4>1. m - 1 \in 1..N  BY <3>3, <1>1
      <4>2. A[n][key(m)] = {key(m - 1)} \cup A[n - 1][key(m - 1)]
        <5>. DEFINE D == DepsOf(p, key(m))
        <5>1. D = {key(m - 1)}  BY <3>3, <1>4
        <5>2. UNION {A[n - 1][d] : d \in D} = A[n - 1][key(m - 1)]  BY <5>1
        <5>. QED  BY <3>1, <5>1, <5>2
      <4>3. A[n - 1][key(m - 1)] = {key(j) : j \in Near(m - 1, n - 1)}  BY <1>6, <4>1
      <4>4. Near(m, n) = {m - 1} \cup Near(m - 1, n - 1)  BY <1>1, <2>1, <3>3
      <4>. HIDE DEF Near
      <4>. QED  BY <4>2, <4>3, <4>4
    <3>. QED  BY <3>2, <3>3
  <2>. QED  BY <2>1, <2>2
<1>7. 0..N \subseteq T
  <2>. HIDE DEF T
  <2>. QED  BY <1>1, <1>5, <1>6, UpTo
<1>8. N \in T
  <2>1. N \in 0..N  BY <1>1
  <2>. HIDE DEF T
  <2>. QED  BY <2>1, <1>7
<1>9. Near(i, N) = 1..(i - 1)
  <2>1. \A j \in 1..(i - 1) : j >= i - N  BY <1>1
  <2>. QED  BY <2>1
<1>. QED  BY <1>8, <1>9

\* The ancestors that the validation of a plan computes hold the dependencies
\* of the step and of each of them.
LEMMA AncestorsClosed ==
  ASSUME NEW p, p.steps \in Seq(StepType), AcceptedPlan(p), NEW k \in KeysOf(p)
  PROVE  /\ Ancestors(p)[k] \subseteq KeysOf(p) /\ DepsOf(p, k) \subseteq Ancestors(p)[k]
         /\ \A d \in Ancestors(p)[k] : DepsOf(p, d) \subseteq Ancestors(p)[k]
<1>. DEFINE N == Len(p.steps)
            K == KeysOf(p)
            V == [K -> SUBSET K]
            G == [f \in V |-> [j \in K |-> DepsOf(p, j) \cup UNION {f[d] : d \in DepsOf(p, j)}]]
            above == CHOOSE f : f = [n \in 0..N |-> [j \in K |->
                       IF n = 0 THEN {}
                       ELSE DepsOf(p, j) \cup UNION {f[n - 1][d] : d \in DepsOf(p, j)}]]
<1>1. N \in Nat /\ N >= 2 /\ Indices(p) = 1..N  BY DEF AcceptedPlan, Supported, Indices
<1>2. \A j \in K : DepsOf(p, j) \subseteq K  BY Shape
<1>3. G \in [V -> V] /\ [j \in K |-> {}] \in V
  <2>1. ASSUME NEW f \in V, NEW j \in K, NEW d \in DepsOf(p, j)  PROVE f[d] \subseteq K
    BY <1>2
  <2>2. ASSUME NEW f \in V
        PROVE  [j \in K |-> DepsOf(p, j) \cup UNION {f[d] : d \in DepsOf(p, j)}] \in V
    BY <1>2, <2>1
  <2>. QED  BY <2>2
<1>4. PICK f : Iterates(f, V, [j \in K |-> {}], G, N)
  <2>. HIDE DEF G, N, V
  <2>. QED  BY <1>1, <1>3, Iterate
<1>5. f = [n \in 0..N |-> [j \in K |->
            IF n = 0 THEN {}
            ELSE DepsOf(p, j) \cup UNION {f[n - 1][d] : d \in DepsOf(p, j)}]]
  <2>1. ASSUME NEW n \in 0..N
        PROVE  f[n] = [j \in K |-> IF n = 0 THEN {}
                         ELSE DepsOf(p, j) \cup UNION {f[n - 1][d] : d \in DepsOf(p, j)}]
    <3>1. CASE n = 0  BY <3>1, <1>4 DEF Iterates
    <3>2. CASE n # 0
      <4>1. n \in 1..N /\ n - 1 \in 0..N  BY <3>2, <1>1
      <4>2. f[n] = G[f[n - 1]] /\ f[n - 1] \in V  BY <4>1, <1>4 DEF Iterates
      <4>. QED  BY <3>2, <4>2
    <3>. QED  BY <3>1, <3>2
  <2>2. DOMAIN f = 0..N /\ f = [n \in 0..N |-> f[n]]  BY <1>4 DEF Iterates
  <2>. QED  BY <2>1, <2>2
<1>6. above = [n \in 0..N |-> [j \in K |->
                 IF n = 0 THEN {}
                 ELSE DepsOf(p, j) \cup UNION {above[n - 1][d] : d \in DepsOf(p, j)}]]
  BY <1>5
<1>7. Ancestors(p) = above[N]  BY DEF Ancestors
<1>. HIDE DEF above
<1>8. ASSUME NEW n \in 0..N, NEW j \in K
      PROVE  above[n][j] = IF n = 0 THEN {}
                           ELSE DepsOf(p, j) \cup UNION {above[n - 1][d] : d \in DepsOf(p, j)}
  <2>1. above[n] = [i \in K |->
                      IF n = 0 THEN {}
                      ELSE DepsOf(p, i) \cup UNION {above[n - 1][d] : d \in DepsOf(p, i)}]
    BY <1>6
  <2>. HIDE DEF K, N
  <2>. QED  BY <2>1
<1>9. CASE IsLinear(p)
  <2>1. \A i \in 1..N : above[N][p.steps[i].key] = {p.steps[j].key : j \in 1..(i - 1)}
    <3>1. Approximates(above, p)  BY <1>8 DEF Approximates
    <3>. QED  BY <1>9, <3>1, ChainAncestors
  <2>. DEFINE key(i) == p.steps[i].key
  <2>2. \A i, j \in 1..N : i # j => key(i) # key(j)
    BY <1>1 DEF AcceptedPlan, WellFormed, UniqueNames
  <2>3. ASSUME NEW i \in 1..N
        PROVE  DepsOf(p, key(i)) = IF i = 1 THEN {} ELSE {key(i - 1)}
    <3>0. key(i) \in KeysOf(p)  BY <1>1 DEF KeysOf
    <3>1. PICK j \in 1..N : StepAt(p, key(i)) = p.steps[j] /\ key(j) = key(i)
      BY <1>1, <3>0, StepOfKey
    <3>2. j = i  BY <2>2, <3>1
    <3>. QED  BY <1>1, <1>9, <3>1, <3>2 DEF DepsOf, IsLinear
  <2>4. PICK i \in 1..N : k = key(i)  BY <1>1 DEF KeysOf
  <2>5. Ancestors(p)[k] = {key(j) : j \in 1..(i - 1)}  BY <1>7, <2>1, <2>4
  <2>6. \A j \in 1..(i - 1) : j \in 1..N  BY <1>1
  <2>7. Ancestors(p)[k] \subseteq K  BY <1>1, <2>5, <2>6 DEF KeysOf
  <2>8. ASSUME NEW j \in 1..i  PROVE DepsOf(p, key(j)) \subseteq Ancestors(p)[k]
    <3>1. j \in 1..N /\ (j # 1 => j - 1 \in 1..(i - 1))  BY <1>1
    <3>2. DepsOf(p, key(j)) = IF j = 1 THEN {} ELSE {key(j - 1)}  BY <2>3, <3>1
    <3>3. CASE j = 1  BY <3>2, <3>3
    <3>4. CASE j # 1
      <4>1. key(j - 1) \in Ancestors(p)[k]  BY <2>5, <3>1, <3>4
      <4>. QED  BY <3>2, <3>4, <4>1
    <3>. QED  BY <3>3, <3>4
  <2>9. i \in 1..i /\ \A j \in 1..(i - 1) : j \in 1..i  BY <1>1
  <2>. QED  BY <2>4, <2>5, <2>7, <2>8, <2>9
<1>10. CASE IsFanOut(p)
  <2>1. \A j \in K : j # LastStep(p).key => DepsOf(p, j) = {}
    <3>1. ASSUME NEW j \in K, j # LastStep(p).key  PROVE DepsOf(p, j) = {}
      <4>1. PICK i \in 1..N : StepAt(p, j) = p.steps[i] /\ p.steps[i].key = j
        BY <1>1, StepOfKey
      <4>2. i # N  BY <3>1, <4>1 DEF LastStep
      <4>. QED  BY <1>1, <1>10, <4>1, <4>2 DEF DepsOf, IsFanOut
    <3>. QED  BY <3>1
  <2>2. \A j \in DepsOf(p, k) : j # LastStep(p).key /\ j \in K
    BY <1>2, <2>1, Shape
  <2>3. N \in 0..N /\ N - 1 \in 0..N /\ N # 0 /\ N - 1 # 0
    <3>. HIDE DEF N
    <3>. QED  BY <1>1
  <2>4. above[N][k] = DepsOf(p, k) \cup UNION {above[N - 1][d] : d \in DepsOf(p, k)}
    BY <1>8, <2>3
  <2>5. ASSUME NEW d \in DepsOf(p, k)  PROVE above[N - 1][d] = {}
    <3>1. d \in K /\ DepsOf(p, d) = {}  BY <2>1, <2>2
    <3>2. above[N - 1][d]
            = DepsOf(p, d) \cup UNION {above[N - 1 - 1][e] : e \in DepsOf(p, d)}
      BY <1>8, <2>3, <3>1
    <3>. QED  BY <3>1, <3>2
  <2>6. Ancestors(p)[k] = DepsOf(p, k)  BY <1>7, <2>4, <2>5
  <2>. QED  BY <1>2, <2>1, <2>2, <2>6
<1>. QED  BY <1>9, <1>10 DEF AcceptedPlan, Supported

\* What the artifact manager takes for an ancestor of a step is one for the
\* validation of the plan (_ancestor_step_ids, _assert_acyclic).
LEMMA SearchFindsAncestors ==
  ASSUME NEW p, p.steps \in Seq(StepType), AcceptedPlan(p), NEW k \in KeysOf(p)
  PROVE  AncestorSteps(p, k) \subseteq Ancestors(p)[k]
<1>1. \A d \in KeysOf(p) : DepsOf(p, d) \subseteq KeysOf(p)  BY Shape
<1>. QED  BY <1>1, AncestorsClosed, SearchIsLeast

-----------------------------------------------------------------------------
(* Types.                                                                  *)

CallType == [graph : {"planning", "run"}, at : Checkpoint,
           todo : SUBSET (Execution \cup {None}), next : Stage, raised : BOOLEAN,
           given : Execution \cup {None}]
SeenType == [task : TaskStatus, plan : PlanStatus, step : [Keys -> StepStatus],
         todo : SUBSET Keys, pending : Keys \cup {None}, failures : BOOLEAN]
ArtifactType == [by : Keys \cup {None}, turn : Nat]

PlanTypes ==
  /\ plan \in Plan /\ (plan # NoPlan => AcceptedPlan(plan))
  /\ offered \in Plan /\ plan \in Offers \cup {NoPlan} /\ offered \in Offers \cup {NoPlan}
TaskTypes ==
  /\ taskStatus \in TaskStatus /\ planStatus \in PlanStatus
  /\ step \in [Keys -> StepStatus] /\ exec \in [Execution -> ExecStatus]
  /\ refused \subseteq Execution
AnswerTypes ==
  /\ attempt \in [Execution -> Nat] /\ answer \in [Execution -> Answer]
StoreTypes ==
  /\ store \in [Contract -> Seq(ArtifactType)] /\ bound \in [Keys -> [Contract -> Nat]]
  /\ \A k \in Keys, c \in Contract : bound[k][c] \in 0..Len(store[c])
GraphTypes ==
  /\ checkpoint \in [{"planning", "run"} -> Checkpoint]
  /\ call \in [Thread -> CallType] /\ seen \in [Thread -> SeenType] /\ pc \in [Thread -> Place]
  /\ \A x \in Thread :
       /\ pc[x] \in {"schedule", "finalize", "complete"} =>
            seen[x].todo \subseteq KeysOf(plan)
       /\ pc[x] = "complete" => seen[x].todo # {}
BackendTypes ==
  /\ held \in Thread \cup {None} /\ graphLock \in Thread \cup {None}
  /\ watched \subseteq Execution /\ up \in BOOLEAN
  /\ calls \in 0..MaxCalls /\ inputs \in 0..MaxInputs /\ crashes \in 0..MaxCrashes
Types ==
  /\ PlanTypes /\ TaskTypes /\ AnswerTypes /\ StoreTypes /\ GraphTypes /\ BackendTypes

\* The fields of a call and of what it was invoked with.
SameAt(c, d) ==
  /\ c.stage = d.stage /\ c.by = d.by /\ c.done = d.done /\ c.results = d.results
SameCall(c, d) ==
  c.graph = d.graph /\ c.next = d.next /\ c.raised = d.raised /\ c.given = d.given

\* Only the call of x changes, and everything keeps its type.
CallSteps(x) ==
  /\ checkpoint' \in [{"planning", "run"} -> Checkpoint]
  /\ call' \in [Thread -> CallType] /\ pc' \in [Thread -> Place]
  /\ \A y \in Thread \ {x} : call'[y] = call[y] /\ pc'[y] = pc[y]

\* The threads are told apart by their names.
LEMMA ThreadNames ==
  /\ Api \in Thread
  /\ \A e \in Execution : Worker(e) \in Thread /\ Worker(e) # Api
  /\ \A e, f \in Execution : Worker(e) = Worker(f) => e = f
  /\ \A x \in Thread : x # None /\ (x = Api \/ \E e \in Execution : x = Worker(e))
BY PlanFlowAssumption DEF Thread, Api, Worker

\* A thread that leaves has no call any more.
LEMMA LeaveEffect ==
  ASSUME Types, NEW x \in Thread, Leave(x)
  PROVE  /\ call' \in [Thread -> CallType] /\ pc' \in [Thread -> Place]
         /\ seen' \in [Thread -> SeenType]
         /\ held' \in Thread \cup {None} /\ graphLock' \in Thread \cup {None}
         /\ pc'[x] = "idle" /\ held' # x /\ graphLock' # x
         /\ held' \in {held, None} /\ graphLock' \in {graphLock, None}
         /\ (held # x => held' = held) /\ (graphLock # x => graphLock' = graphLock)
         /\ \A y \in Thread \ {x} :
              call'[y] = call[y] /\ pc'[y] = pc[y] /\ seen'[y] = seen[y]
<1>1. NoCheckpoint \in Checkpoint
  BY ThreadNames, PlanFlowAssumption
     DEF NoCheckpoint, Checkpoint, Stage, Working, NoAnswer, Answer, Execution
<1>2. NoCall \in CallType  BY <1>1 DEF NoCall, CallType, Stage
<1>3. NothingSeen \in SeenType
  BY DEF NothingSeen, SeenType, TaskStatus, PlanStatus, StepStatus
<1>4. "idle" \in Place  BY DEF Place
<1>. QED
  BY <1>2, <1>3, <1>4, ThreadNames DEF Leave, GoTo, Types, GraphTypes, BackendTypes

\* A thread that entered a graph is in its nodes, or beyond its end.
Entered(x, g, c, given) ==
  /\ call' \in [Thread -> CallType] /\ pc' \in [Thread -> Place]
  /\ pc'[x] = IF c.stage = "end" THEN "returned" ELSE "nodes"
  /\ call'[x].graph = g /\ ~call'[x].raised /\ call'[x].given = given
  /\ SameAt(call'[x].at, c) /\ call'[x].at.work = c.work
  /\ call'[x].at.parked = {} /\ call'[x].at.review = c.review
  /\ (c.stage = "end" => call'[x].todo = {})
  /\ (c.stage \in Working => call'[x].todo = c.work \ c.done)
  /\ (c.stage \notin Working \cup {"end"} => call'[x].todo = {None})
  /\ call'[x].next = IF g = "planning" THEN "end"
                     ELSE IF c.stage = "wave_execute" THEN "wave_finalize"
                     ELSE "finalize"
  /\ \A y \in Thread \ {x} : call'[y] = call[y] /\ pc'[y] = pc[y]

LEMMA EnterEffect ==
  ASSUME Types, NEW x \in Thread, NEW g \in {"planning", "run"}, NEW c \in Checkpoint,
         NEW given \in Execution \cup {None}, Enter(x, g, c, given)
  PROVE  Entered(x, g, c, given)
<1>. DEFINE d == [c EXCEPT !.parked = {}]
            todo == CASE c.stage = "end" -> {}
                      [] c.stage \in Working -> c.work \ c.done
                      [] OTHER -> {None}
            next == IF g = "planning" THEN "end"
                    ELSE IF c.stage = "wave_execute" THEN "wave_finalize" ELSE "finalize"
            new == [graph |-> g, at |-> d, raised |-> FALSE, given |-> given,
                    todo |-> todo, next |-> next]
<1>1. d \in Checkpoint /\ SameAt(d, c) /\ d.work = c.work /\ d.parked = {}
      /\ d.review = c.review
  BY DEF Checkpoint, SameAt
<1>2. todo \subseteq Execution \cup {None}  BY DEF Checkpoint
<1>4. next \in Stage  BY DEF Stage
<1>5. /\ (c.stage = "end" => todo = {})
      /\ (c.stage \in Working => todo = c.work \ c.done)
      /\ (c.stage \notin Working \cup {"end"} => todo = {None})
  BY DEF Working
<1>6. call' = [call EXCEPT ![x] = new] /\ pc' = [pc EXCEPT ![x] =
        IF c.stage = "end" THEN "returned" ELSE "nodes"]
  BY DEF Enter, GoTo
<1>. HIDE DEF d, todo
<1>7. new \in CallType  BY <1>1, <1>2, <1>4 DEF CallType
<1>8. /\ call'[x].graph = g /\ call'[x].at = d /\ ~call'[x].raised
      /\ call'[x].given = given /\ call'[x].todo = todo /\ call'[x].next = next
      /\ \A y \in Thread \ {x} : call'[y] = call[y]
  <2>1. call'[x] = new /\ \A y \in Thread \ {x} : call'[y] = call[y]
    BY <1>6 DEF Types, GraphTypes
  <2>2. new.graph = g /\ new.at = d /\ ~new.raised /\ new.given = given
        /\ new.todo = todo /\ new.next = next
    OBVIOUS
  <2>. HIDE DEF new, next
  <2>. QED  BY <2>1, <2>2
<1>9. call' \in [Thread -> CallType]  BY <1>6, <1>7 DEF Types, GraphTypes
<1>10. pc' \in [Thread -> Place] /\ \A y \in Thread \ {x} : pc'[y] = pc[y]
  BY <1>6 DEF Types, GraphTypes, Place
<1>11. pc'[x] = IF c.stage = "end" THEN "returned" ELSE "nodes"
  BY <1>6 DEF Types, GraphTypes
<1>12. SameAt(call'[x].at, c) /\ call'[x].at.work = c.work /\ call'[x].at.parked = {}
       /\ call'[x].at.review = c.review
  BY <1>1, <1>8 DEF SameAt
<1>. QED  BY <1>5, <1>8, <1>9, <1>10, <1>11, <1>12 DEF Entered

\* What a node leaves of the checkpoint it was loaded from.
KeepsAt(d, c) ==
  d.stage = c.stage /\ d.by = c.by /\ d.work = c.work /\ d.review = c.review

\* The graph of x is the only one whose checkpoint may change.
OtherGraph(x) ==
  \A g \in {"planning", "run"} : g # call[x].graph => checkpoint'[g] = checkpoint[g]

\* A node that ends, with or without a result, is taken off the list.
NodeSteps(x, e) ==
  /\ CallSteps(x) /\ pc' = pc /\ OtherGraph(x)
  /\ call'[x].todo = call[x].todo \ {e}
  /\ call'[x].graph = call[x].graph /\ call'[x].next = call[x].next
  /\ KeepsAt(call'[x].at, call[x].at)
  /\ KeepsAt(checkpoint'[call[x].graph], checkpoint[call[x].graph])

\* A result is written to the checkpoint the node was loaded from.
LEMMA NodeDoneEffect ==
  ASSUME Types, NEW x \in Thread, NEW e \in Execution, NEW a \in Answer,
         pc' = pc, NodeDone(x, e, a)
  PROVE  /\ NodeSteps(x, e)
         /\ call'[x].raised = call[x].raised /\ call'[x].at.parked = call[x].at.parked
         /\ call'[x].at.done = call[x].at.done \cup {e}
         /\ call'[x].at.results = [call[x].at.results EXCEPT ![e] = a]
         /\ LET c == checkpoint[call[x].graph]
                d == checkpoint'[call[x].graph] IN
            IF Latest(x) THEN /\ d.done = c.done \cup {e}
                              /\ d.results = [c.results EXCEPT ![e] = a]
            ELSE d = c
<1>. DEFINE saved(c) == [c EXCEPT !.done = @ \cup {e}, !.results[e] = a]
            g == call[x].graph
            new == [call[x] EXCEPT !.todo = @ \ {e}, !.at = saved(@)]
<1>1. ASSUME NEW c \in Checkpoint
      PROVE  /\ saved(c) \in Checkpoint /\ KeepsAt(saved(c), c) /\ saved(c).parked = c.parked
             /\ saved(c).done = c.done \cup {e} /\ saved(c).results = [c.results EXCEPT ![e] = a]
  BY DEF Checkpoint, KeepsAt
<1>2. checkpoint \in [{"planning", "run"} -> Checkpoint] /\ call \in [Thread -> CallType]
      /\ pc \in [Thread -> Place] /\ call[x] \in CallType
      /\ g \in {"planning", "run"} /\ call[x].at \in Checkpoint /\ checkpoint[g] \in Checkpoint
  BY DEF Types, GraphTypes, CallType
<1>3. /\ call' = [call EXCEPT ![x] = new]
      /\ checkpoint' = IF Latest(x) THEN [checkpoint EXCEPT ![g] = saved(@)] ELSE checkpoint
  <2>1. checkpoint' = IF Latest(x) THEN [checkpoint EXCEPT ![g] = saved(@)] ELSE checkpoint
    BY DEF NodeDone
  <2>2. call' = [call EXCEPT ![x].todo = @ \ {e}, ![x].at = saved(@)]  BY DEF NodeDone
  <2>. HIDE DEF saved
  <2>3. call' = [call EXCEPT ![x] = new]  BY <1>2, <2>2
  <2>. QED  BY <2>1, <2>3
<1>. HIDE DEF saved
<1>4. /\ new \in CallType /\ new.todo = call[x].todo \ {e} /\ new.graph = g
      /\ new.next = call[x].next /\ new.at = saved(call[x].at) /\ new.raised = call[x].raised
  BY <1>1, <1>2 DEF CallType
<1>. HIDE DEF new, g
<1>5. call' \in [Thread -> CallType] /\ call'[x] = new
      /\ \A y \in Thread \ {x} : call'[y] = call[y]
  BY <1>2, <1>3, <1>4
<1>6. checkpoint' \in [{"planning", "run"} -> Checkpoint]
      /\ \A h \in {"planning", "run"} : h # g => checkpoint'[h] = checkpoint[h]
  BY <1>1, <1>2, <1>3
<1>7. checkpoint'[g] = IF Latest(x) THEN saved(checkpoint[g]) ELSE checkpoint[g]
  BY <1>2, <1>3
<1>8. KeepsAt(checkpoint'[g], checkpoint[g])  BY <1>1, <1>2, <1>7 DEF KeepsAt
<1>9. NodeSteps(x, e)
  BY <1>1, <1>2, <1>4, <1>5, <1>6, <1>8 DEF NodeSteps, CallSteps, OtherGraph, g
<1>. QED  BY <1>1, <1>2, <1>4, <1>5, <1>7, <1>9 DEF g

\* A node that raises leaves the checkpoint.
LEMMA NodeRaisesEffect ==
  ASSUME Types, NEW x \in Thread, NEW e \in Execution \cup {None},
         pc' = pc, NodeRaises(x, e)
  PROVE  /\ NodeSteps(x, e) /\ checkpoint' = checkpoint
         /\ call'[x].raised /\ call'[x].at = call[x].at
<1>. DEFINE new == [call[x] EXCEPT !.todo = @ \ {e}, !.raised = TRUE]
<1>1. checkpoint \in [{"planning", "run"} -> Checkpoint] /\ call \in [Thread -> CallType]
      /\ pc \in [Thread -> Place] /\ call[x] \in CallType
  BY DEF Types, GraphTypes
<1>2. call' = [call EXCEPT ![x] = new] /\ checkpoint' = checkpoint
  BY <1>1 DEF NodeRaises
<1>3. /\ new \in CallType /\ new.todo = call[x].todo \ {e} /\ new.graph = call[x].graph
      /\ new.next = call[x].next /\ new.at = call[x].at /\ new.raised
  BY <1>1 DEF CallType
<1>. HIDE DEF new
<1>4. call' \in [Thread -> CallType] /\ call'[x] = new
      /\ \A y \in Thread \ {x} : call'[y] = call[y]
  BY <1>1, <1>2, <1>3
<1>. QED  BY <1>1, <1>2, <1>3, <1>4 DEF NodeSteps, CallSteps, OtherGraph, KeepsAt

\* A node that interrupts is parked, unless it was given the answer already.
LEMMA NodeInterruptsEffect ==
  ASSUME Types, NEW x \in Thread, NEW e \in Execution, pc' = pc, NodeInterrupts(x, e)
  PROVE  /\ NodeSteps(x, e) /\ SameAt(call'[x].at, call[x].at)
         /\ \/ call'[x].raised /\ call'[x].at.parked = call[x].at.parked
            \/ /\ call'[x].raised = call[x].raised
               /\ call'[x].at.parked = call[x].at.parked \cup {e}
         /\ SameAt(checkpoint'[call[x].graph], checkpoint[call[x].graph])
<1>. DEFINE saved(c) == [c EXCEPT !.parked = @ \cup {e}]
            g == call[x].graph
            new == [call[x] EXCEPT !.todo = @ \ {e}, !.at = saved(@)]
<1>1. ASSUME NEW c \in Checkpoint
      PROVE  /\ saved(c) \in Checkpoint /\ KeepsAt(saved(c), c) /\ SameAt(saved(c), c)
             /\ saved(c).parked = c.parked \cup {e}
  BY DEF Checkpoint, KeepsAt, SameAt
<1>2. checkpoint \in [{"planning", "run"} -> Checkpoint] /\ call \in [Thread -> CallType]
      /\ pc \in [Thread -> Place] /\ call[x] \in CallType
      /\ g \in {"planning", "run"} /\ call[x].at \in Checkpoint /\ checkpoint[g] \in Checkpoint
  BY DEF Types, GraphTypes, CallType
<1>3. CASE call[x].given = e
  <2>1. NodeRaises(x, e)  BY <1>3 DEF NodeInterrupts
  <2>. QED  BY <2>1, NodeRaisesEffect DEF SameAt
<1>4. CASE call[x].given # e
  <2>1. /\ call' = [call EXCEPT ![x] = new]
        /\ checkpoint' = IF Latest(x) THEN [checkpoint EXCEPT ![g] = saved(@)] ELSE checkpoint
    BY <1>2, <1>4 DEF NodeInterrupts
  <2>. HIDE DEF saved
  <2>2. /\ new \in CallType /\ new.todo = call[x].todo \ {e} /\ new.graph = g
        /\ new.next = call[x].next /\ new.at = saved(call[x].at)
        /\ new.raised = call[x].raised
    BY <1>1, <1>2 DEF CallType
  <2>. HIDE DEF new, g
  <2>3. call' \in [Thread -> CallType] /\ call'[x] = new
        /\ \A y \in Thread \ {x} : call'[y] = call[y]
    BY <1>2, <2>1, <2>2
  <2>4. checkpoint' \in [{"planning", "run"} -> Checkpoint]
        /\ \A h \in {"planning", "run"} : h # g => checkpoint'[h] = checkpoint[h]
    BY <1>1, <1>2, <2>1
  <2>5. checkpoint'[g] = IF Latest(x) THEN saved(checkpoint[g]) ELSE checkpoint[g]
    BY <1>2, <2>1
  <2>6. KeepsAt(checkpoint'[g], checkpoint[g]) /\ SameAt(checkpoint'[g], checkpoint[g])
    BY <1>1, <1>2, <2>5 DEF KeepsAt, SameAt
  <2>7. NodeSteps(x, e)
    BY <1>1, <1>2, <2>2, <2>3, <2>4, <2>6 DEF NodeSteps, CallSteps, OtherGraph, g
  <2>. QED  BY <1>1, <1>2, <2>2, <2>3, <2>6, <2>7 DEF g
<1>. QED  BY <1>3, <1>4

\* A node of the scheduler that ends chooses the next stage.
LEMMA SchedulerDoneEffect ==
  ASSUME Types, NEW x \in Thread, NEW next \in Stage, NEW work \in SUBSET Execution,
         NEW review \in Verdicts \cup {None, "needs_revision"},
         SchedulerDone(x, next, work, review)
  PROVE  /\ CallSteps(x) /\ checkpoint' = checkpoint /\ pc'[x] = "nodes"
         /\ call'[x].todo = {} /\ call'[x].next = next /\ call'[x].raised = call[x].raised
         /\ call'[x].graph = call[x].graph
         /\ SameAt(call'[x].at, call[x].at) /\ call'[x].at.parked = call[x].at.parked
         /\ call'[x].at.work = work /\ call'[x].at.review = review
<1>. DEFINE at == [call[x].at EXCEPT !.work = work, !.review = review]
            new == [call[x] EXCEPT !.todo = {}, !.next = next, !.at = at]
<1>1. checkpoint \in [{"planning", "run"} -> Checkpoint] /\ call \in [Thread -> CallType]
      /\ pc \in [Thread -> Place] /\ call[x] \in CallType /\ call[x].at \in Checkpoint
  BY DEF Types, GraphTypes, CallType
<1>2. call' = [call EXCEPT ![x] = new] /\ pc' = [pc EXCEPT ![x] = "nodes"]
      /\ checkpoint' = checkpoint
  <2>1. call' = [call EXCEPT ![x].todo = {}, ![x].next = next, ![x].at.work = work,
                             ![x].at.review = review]
    BY DEF SchedulerDone
  <2>2. DOMAIN call = Thread /\ x \in Thread  BY <1>1
  <2>3. call' = [call EXCEPT ![x] = new]  BY <2>1, <2>2
  <2>. QED  BY <2>3 DEF SchedulerDone, GoTo
<1>3. at \in Checkpoint /\ SameAt(at, call[x].at) /\ at.parked = call[x].at.parked
      /\ at.work = work /\ at.review = review
  BY <1>1 DEF Checkpoint, SameAt
<1>. HIDE DEF at
<1>4. /\ new \in CallType /\ new.todo = {} /\ new.graph = call[x].graph
      /\ new.next = next /\ new.at = at /\ new.raised = call[x].raised
  BY <1>1, <1>3 DEF CallType
<1>. HIDE DEF new
<1>5. call' \in [Thread -> CallType] /\ call'[x] = new
      /\ \A y \in Thread \ {x} : call'[y] = call[y]
  BY <1>1, <1>2, <1>4
<1>6. pc' \in [Thread -> Place] /\ pc'[x] = "nodes" /\ \A y \in Thread \ {x} : pc'[y] = pc[y]
  BY <1>1, <1>2 DEF Place
<1>. QED  BY <1>1, <1>2, <1>3, <1>4, <1>5, <1>6 DEF CallSteps

\* A node of the scheduler that raises leaves the checkpoint.
LEMMA SchedulerRaisesEffect ==
  ASSUME Types, NEW x \in Thread, SchedulerRaises(x)
  PROVE  /\ CallSteps(x) /\ checkpoint' = checkpoint /\ pc'[x] = "nodes"
         /\ call'[x].todo = call[x].todo \ {None} /\ call'[x].raised
         /\ call'[x].next = call[x].next
         /\ call'[x].graph = call[x].graph /\ call'[x].at = call[x].at
<1>. DEFINE new == [call[x] EXCEPT !.todo = @ \ {None}, !.raised = TRUE]
<1>1. checkpoint \in [{"planning", "run"} -> Checkpoint] /\ call \in [Thread -> CallType]
      /\ pc \in [Thread -> Place] /\ call[x] \in CallType
  BY DEF Types, GraphTypes
<1>2. call' = [call EXCEPT ![x] = new] /\ checkpoint' = checkpoint
      /\ pc' = [pc EXCEPT ![x] = "nodes"]
  BY <1>1 DEF SchedulerRaises, NodeRaises, GoTo
<1>3. /\ new \in CallType /\ new.todo = call[x].todo \ {None} /\ new.graph = call[x].graph
      /\ new.next = call[x].next /\ new.at = call[x].at /\ new.raised
  BY <1>1 DEF CallType
<1>. HIDE DEF new
<1>4. call' \in [Thread -> CallType] /\ call'[x] = new
      /\ \A y \in Thread \ {x} : call'[y] = call[y]
  BY <1>1, <1>2, <1>3
<1>5. pc' \in [Thread -> Place] /\ pc'[x] = "nodes" /\ \A y \in Thread \ {x} : pc'[y] = pc[y]
  BY <1>1, <1>2 DEF Place
<1>. QED  BY <1>1, <1>2, <1>3, <1>4, <1>5 DEF CallSteps

\* What finalizing one delivery does to a thread: a wave goes on to the next one,
\* and otherwise the node is over.
Handles(x, review) ==
  /\ CallSteps(x) /\ checkpoint' = checkpoint /\ seen' \in [Thread -> SeenType]
  /\ \A y \in Thread \ {x} : seen'[y] = seen[y]
  /\ call'[x].graph = call[x].graph /\ SameAt(call'[x].at, call[x].at)
  /\ call'[x].at.work = call[x].at.work /\ call'[x].at.parked = call[x].at.parked
  /\ call'[x].at.review \in {call[x].at.review, review}
  /\ \/ /\ pc'[x] = "finalize" /\ seen'[x].pending = None
        /\ seen'[x].todo = seen[x].todo \ {First(seen[x].todo)}
        /\ call'[x].todo = call[x].todo /\ call'[x].raised = call[x].raised
     \/ /\ pc'[x] = "nodes" /\ call'[x].todo \in {{}, call[x].todo \ {None}}
        /\ call'[x].raised \/ call'[x].next \in {"end", "prepare"}

\* NothingSeen with the rest of a wave.
LEMMA NextDeliveryEffect ==
  ASSUME Types, NEW x \in Thread, NEW failed \in BOOLEAN, NextDelivery(x, failed)
  PROVE  /\ seen' \in [Thread -> SeenType] /\ seen'[x].pending = None
         /\ seen'[x].todo = seen[x].todo \ {First(seen[x].todo)}
         /\ \A y \in Thread \ {x} : seen'[y] = seen[y]
<1>. DEFINE rest == seen[x].todo \ {First(seen[x].todo)}
            lost == failed \/ seen[x].failures
            new == [NothingSeen EXCEPT !.todo = rest, !.failures = lost]
<1>1. seen \in [Thread -> SeenType] /\ seen[x].todo \subseteq Keys /\ lost \in BOOLEAN
  BY DEF Types, GraphTypes, SeenType
<1>2. NothingSeen \in SeenType /\ NothingSeen.pending = None
  BY DEF NothingSeen, SeenType, TaskStatus, PlanStatus, StepStatus
<1>3. seen' = [seen EXCEPT ![x] = new]  BY DEF NextDelivery
<1>. HIDE DEF lost
<1>4. rest \subseteq Keys  BY <1>1
<1>. HIDE DEF rest
<1>5. new \in SeenType /\ new.pending = None /\ new.todo = rest
  BY <1>1, <1>2, <1>4 DEF SeenType
<1>. HIDE DEF new
<1>6. seen' \in [Thread -> SeenType] /\ seen'[x] = new
      /\ \A y \in Thread \ {x} : seen'[y] = seen[y]
  BY <1>1, <1>3, <1>5
<1>. QED  BY <1>5, <1>6 DEF rest

\* A thread that forgets what its session loaded.
LEMMA ForgetEffect ==
  ASSUME Types, NEW x \in Thread, seen' = [seen EXCEPT ![x] = NothingSeen]
  PROVE  /\ seen' \in [Thread -> SeenType] /\ seen'[x] = NothingSeen
         /\ \A y \in Thread \ {x} : seen'[y] = seen[y]
<1>1. NothingSeen \in SeenType
  BY DEF NothingSeen, SeenType, TaskStatus, PlanStatus, StepStatus
<1>. QED  BY <1>1 DEF Types, GraphTypes

\* finalize_step leaves.
LEMMA LeavesEffect ==
  ASSUME Types, NEW x \in Thread, NEW done \in BOOLEAN,
         NEW review \in Verdicts \cup {None, "needs_revision"}, Leaves(x, done, review)
  PROVE  Handles(x, review)
<1>1. checkpoint \in [{"planning", "run"} -> Checkpoint] /\ call \in [Thread -> CallType]
      /\ pc \in [Thread -> Place] /\ call[x] \in CallType /\ call[x].at \in Checkpoint
  BY DEF Types, GraphTypes, CallType
<1>2. CASE InWave(x)
  <2>. DEFINE r == IF review = None THEN call[x].at.review ELSE review
              at == [call[x].at EXCEPT !.review = r]
              new == [call[x] EXCEPT !.at = at]
  <2>1. NextDelivery(x, FALSE) /\ checkpoint' = checkpoint
        /\ pc' = [pc EXCEPT ![x] = "finalize"]
    BY <1>2 DEF Leaves, GoTo
  <2>2. call' = [call EXCEPT ![x].at.review = IF review = None THEN @ ELSE review]
    BY <1>2 DEF Leaves
  <2>3. call' = [call EXCEPT ![x] = new]  BY <1>1, <2>2
  <2>4. r \in Verdicts \cup {None, "needs_revision"} /\ r \in {call[x].at.review, review}
    BY <1>1 DEF Checkpoint
  <2>. HIDE DEF r
  <2>5. at \in Checkpoint /\ SameAt(at, call[x].at) /\ at.work = call[x].at.work
        /\ at.review = r /\ at.parked = call[x].at.parked
    BY <1>1, <2>4 DEF Checkpoint, SameAt
  <2>. HIDE DEF at
  <2>6. /\ new \in CallType /\ new.todo = call[x].todo /\ new.graph = call[x].graph
        /\ new.at = at /\ new.raised = call[x].raised
    BY <1>1, <2>5 DEF CallType
  <2>. HIDE DEF new
  <2>7. call' \in [Thread -> CallType] /\ call'[x] = new
        /\ \A y \in Thread \ {x} : call'[y] = call[y]
    BY <1>1, <2>3, <2>6
  <2>8. pc' \in [Thread -> Place] /\ pc'[x] = "finalize"
        /\ \A y \in Thread \ {x} : pc'[y] = pc[y]
    BY <1>1, <2>1 DEF Place
  <2>. QED
    BY <1>1, <2>1, <2>4, <2>5, <2>6, <2>7, <2>8, NextDeliveryEffect DEF Handles, CallSteps
<1>3. CASE ~InWave(x)
  <2>1. seen' = [seen EXCEPT ![x] = NothingSeen]  BY <1>3 DEF Leaves
  <2>2. CASE Parallel /\ review = None
    <3>1. SchedulerRaises(x)  BY <1>3, <2>2 DEF Leaves
    <3>. QED  BY <1>1, <2>1, <3>1, ForgetEffect, SchedulerRaisesEffect DEF Handles, SameAt
  <2>3. CASE ~(Parallel /\ review = None)
    <3>1. PICK next \in {"end", "prepare"}, work \in SUBSET Execution :
            work = call[x].at.work /\ SchedulerDone(x, next, work, review)
      <4>1. call[x].at.work \in SUBSET Execution  BY <1>1 DEF Checkpoint
      <4>. QED  BY <1>3, <2>3, <4>1 DEF Leaves, SchedulerDone
    <3>2. next \in Stage  BY <3>1 DEF Stage
    <3>3. /\ CallSteps(x) /\ checkpoint' = checkpoint /\ pc'[x] = "nodes"
          /\ call'[x].todo = {} /\ call'[x].next = next
          /\ call'[x].graph = call[x].graph
          /\ SameAt(call'[x].at, call[x].at) /\ call'[x].at.parked = call[x].at.parked
          /\ call'[x].at.work = work /\ call'[x].at.review = review
      <4>1. SchedulerDone(x, next, work, review)  BY <3>1
      <4>. QED  BY <4>1, <3>2, SchedulerDoneEffect
    <3>. QED  BY <2>1, <3>1, <3>3, ForgetEffect DEF Handles
  <2>. QED  BY <2>2, <2>3
<1>. QED  BY <1>2, <1>3

\* finalize_step raises.
LEMMA RefusesEffect ==
  ASSUME Types, NEW x \in Thread, Refuses(x)
  PROVE  Handles(x, None)
<1>1. checkpoint \in [{"planning", "run"} -> Checkpoint] /\ call \in [Thread -> CallType]
      /\ pc \in [Thread -> Place]
  BY DEF Types, GraphTypes
<1>2. CASE InWave(x)
  <2>1. NextDelivery(x, TRUE) /\ call' = call /\ checkpoint' = checkpoint
        /\ pc' = [pc EXCEPT ![x] = "finalize"]
    BY <1>2 DEF Refuses, GoTo
  <2>2. pc' \in [Thread -> Place] /\ pc'[x] = "finalize"
        /\ \A y \in Thread \ {x} : pc'[y] = pc[y]
    BY <1>1, <2>1 DEF Place
  <2>. QED  BY <1>1, <2>1, <2>2, NextDeliveryEffect DEF Handles, CallSteps, SameAt
<1>3. CASE ~InWave(x)
  <2>1. SchedulerRaises(x) /\ seen' = [seen EXCEPT ![x] = NothingSeen]  BY <1>3 DEF Refuses
  <2>. QED  BY <2>1, ForgetEffect, SchedulerRaisesEffect DEF Handles, SameAt
<1>. QED  BY <1>2, <1>3


-----------------------------------------------------------------------------
(* Every step keeps the types.                                             *)

\* The graph of x moved on, or x handles its result; the plan is the same.
LEMMA CallKeepsTypes ==
  ASSUME Types, NEW x \in Thread, CallSteps(x), plan' = plan,
         seen' \in [Thread -> SeenType], \A y \in Thread \ {x} : seen'[y] = seen[y],
         pc'[x] \in {"schedule", "finalize", "complete"} => seen'[x].todo \subseteq KeysOf(plan),
         pc'[x] = "complete" => seen'[x].todo # {}
  PROVE  GraphTypes'
BY DEF Types, GraphTypes, CallSteps

\* A thread leaves: nothing but the threads changes.
LEMMA LeaveKeepsTypes ==
  ASSUME Types, NEW x \in Thread, Leave(x), plan' = plan, checkpoint' = checkpoint
  PROVE  /\ GraphTypes'
         /\ held' \in Thread \cup {None} /\ graphLock' \in Thread \cup {None}
<1>1. checkpoint \in [{"planning", "run"} -> Checkpoint]  BY DEF Types, GraphTypes
<1>2. CallSteps(x)  BY <1>1, LeaveEffect DEF CallSteps
<1>. QED  BY <1>2, LeaveEffect, CallKeepsTypes

\* A thread enters a graph.
LEMMA EnterKeepsTypes ==
  ASSUME Types, NEW x \in Thread, NEW g \in {"planning", "run"}, NEW c \in Checkpoint,
         NEW given \in Execution \cup {None}, Enter(x, g, c, given), plan' = plan,
         seen' = seen, checkpoint' \in [{"planning", "run"} -> Checkpoint]
  PROVE  GraphTypes'
<1>1. CallSteps(x) /\ pc'[x] \in {"returned", "nodes"}
  <2>1. Entered(x, g, c, given)  BY EnterEffect
  <2>. QED  BY <2>1 DEF Entered, CallSteps
<1>2. seen \in [Thread -> SeenType]  BY DEF Types, GraphTypes
<1>. QED  BY <1>1, <1>2, CallKeepsTypes

\* A thread goes to another place.
LEMMA GoToKeepsTypes ==
  ASSUME Types, NEW x \in Thread, NEW place \in Place \ {"schedule", "finalize", "complete"},
         GoTo(x, place), UNCHANGED <<plan, checkpoint, call, seen>>
  PROVE  GraphTypes'
BY DEF Types, GraphTypes, GoTo

\* The status of a step.
LEMMA SetStepTypes ==
  ASSUME Types, NEW e \in Execution, NEW s \in StepStatus, SetStep(e, s)
  PROVE  step' \in [Keys -> StepStatus] /\ planStatus' \in PlanStatus
BY DEF SetStep, Types, TaskTypes, Execution, PlanStatus, Terminal

\* What a Turn delivers.
LEMMA DeliversTypes ==
  ASSUME Types, NEW e \in Execution, attempt' \in [Execution -> Nat], Delivers(e)
  PROVE  /\ answer' \in [Execution -> Answer] /\ offered' \in Plan
         /\ offered' \in Offers \cup {NoPlan}
         /\ \E s \in Says(e) :
              answer' = [answer EXCEPT ![e] = [turn |-> attempt'[e], says |-> s]]
<1>1. Offers \subseteq Plan  BY PlanFlowAssumption DEF Plan, StepType
<1>2. offered' \in Plan /\ offered' \in Offers \cup {NoPlan}
  BY <1>1 DEF Delivers, Types, PlanTypes
<1>3. PICK s \in Says(e) : answer' = [answer EXCEPT ![e] = [turn |-> attempt'[e], says |-> s]]
  BY DEF Delivers
<1>4. [turn |-> attempt'[e], says |-> s] \in Answer  BY DEF Says, Answer
<1>. QED  BY <1>2, <1>3, <1>4 DEF Types, AnswerTypes

\* plan, start and retry.
LEMMA ClientTypes ==
  ASSUME Types, ClientCalls \/ Planning \/ Running
  PROVE  Types'
<1>. USE ThreadNames DEF tables, threads, bounds
<1>1. CASE CallPlan
  <2>1. GraphTypes'  BY <1>1, GoToKeepsTypes DEF CallPlan, Place
  <2>. QED
    BY <1>1, <2>1, PlanFlowAssumption
       DEF CallPlan, Calls, Types, PlanTypes, TaskTypes, AnswerTypes, StoreTypes, BackendTypes
<1>2. CASE CallStart
  <2>1. GraphTypes'  BY <1>2, GoToKeepsTypes DEF CallStart, Place
  <2>. QED
    BY <1>2, <2>1, PlanFlowAssumption
       DEF CallStart, Calls, Types, PlanTypes, TaskTypes, AnswerTypes, StoreTypes, BackendTypes
<1>3. CASE CallRetry
  <2>1. GraphTypes'
    <3>1. GoTo(Api, "plan") \/ GoTo(Api, "run")  BY <1>3 DEF CallRetry
    <3>2. UNCHANGED <<plan, checkpoint, call, seen>>  BY <1>3 DEF CallRetry
    <3>. QED  BY <3>1, <3>2, GoToKeepsTypes DEF Place
  <2>2. TaskTypes' /\ AnswerTypes'
    <3>1. NoAnswer \in Answer  BY DEF NoAnswer, Answer
    <3>. QED
      BY <1>3, <3>1 DEF CallRetry, Types, TaskTypes, AnswerTypes, TaskStatus, PlanStatus,
                        ExecStatus, StepStatus
  <2>. QED
    BY <1>3, <2>1, <2>2, PlanFlowAssumption
       DEF CallRetry, Calls, Types, PlanTypes, StoreTypes, BackendTypes
<1>4. CASE Planning
  <2>1. GraphTypes' /\ held' \in Thread \cup {None} /\ graphLock' \in Thread \cup {None}
    <3>1. CASE Leave(Api)  BY <1>4, <3>1, LeaveKeepsTypes DEF Planning
    <3>2. CASE GoTo(Api, "invoke") /\ UNCHANGED <<call, seen, graphLock>> /\ held' = Api
      BY <1>4, <3>2, GoToKeepsTypes DEF Planning, Place, Types, BackendTypes
    <3>. QED  BY <1>4, <3>1, <3>2 DEF Planning
  <2>2. TaskTypes'
    BY <1>4 DEF Planning, MarkReady, Types, TaskTypes, TaskStatus, ExecStatus
  <2>. QED
    BY <1>4, <2>1, <2>2
       DEF Planning, Types, PlanTypes, AnswerTypes, StoreTypes, BackendTypes
<1>5. CASE Running
  <2>1. GraphTypes' /\ held' \in Thread \cup {None} /\ graphLock' \in Thread \cup {None}
    <3>1. CASE Leave(Api)  BY <1>5, <3>1, LeaveKeepsTypes DEF Running
    <3>2. CASE GoTo(Api, "invoke") /\ UNCHANGED <<call, seen, held, graphLock, watched>>
      BY <1>5, <3>2, GoToKeepsTypes DEF Running, Place, Types, BackendTypes
    <3>. QED  BY <1>5, <3>1, <3>2 DEF Running
  <2>2. watched' \subseteq Execution  BY <1>5 DEF Running, Watch, Types, BackendTypes
  <2>. QED
    BY <1>5, <2>1, <2>2
       DEF Running, Types, PlanTypes, TaskTypes, AnswerTypes, StoreTypes, BackendTypes
<1>. QED  BY <1>1, <1>2, <1>3, <1>4, <1>5 DEF ClientCalls

\* The checkpoint a graph starts from, when it does not go on from its last one.
LEMMA Fresh ==
  ASSUME Types, NEW g \in {"planning", "run"}, NEW first \in Stage
  PROVE  [NoCheckpoint EXCEPT
            !.stage = first, !.by = <<Api, calls>>, !.results = checkpoint[g].results,
            !.work = IF g = "planning" THEN {Planner} ELSE {}] \in Checkpoint
<1>1. NoCheckpoint \in Checkpoint
  BY ThreadNames, PlanFlowAssumption
     DEF NoCheckpoint, Checkpoint, Stage, Working, NoAnswer, Answer, Execution
<1>2. <<Api, calls>> \in Thread \X Nat
  BY ThreadNames, PlanFlowAssumption DEF Types, BackendTypes
<1>3. checkpoint[g].results \in [Execution -> Answer]
  BY DEF Types, GraphTypes, Checkpoint
<1>. QED  BY <1>1, <1>2, <1>3 DEF Checkpoint, Execution

\* graph.invoke on behalf of the client.
LEMMA InvokeTypes ==
  ASSUME Types, Invoke
  PROVE  Types'
<1>. DEFINE g == IF held = Api THEN "planning" ELSE "run"
<1>1. PICK c \in Checkpoint :
        checkpoint' = [checkpoint EXCEPT ![g] = c] /\ Enter(Api, g, c, None)
  <2>. DEFINE first == IF g = "planning" THEN "execute"
                       ELSE IF Parallel THEN "wave_prepare" ELSE "prepare"
              fresh == [NoCheckpoint EXCEPT
                  !.stage = first, !.by = <<Api, calls>>, !.results = checkpoint[g].results,
                  !.work = IF g = "planning" THEN {Planner} ELSE {}]
  <2>1. first \in Stage  BY DEF Stage, Working
  <2>. HIDE DEF first
  <2>2. fresh \in Checkpoint /\ checkpoint[g] \in Checkpoint
    BY <2>1, Fresh DEF Types, GraphTypes
  <2>3. \E c \in {checkpoint[g], fresh} :
          checkpoint' = [checkpoint EXCEPT ![g] = c] /\ Enter(Api, g, c, None)
    BY DEF Invoke, first
  <2>. HIDE DEF fresh, g
  <2>. QED  BY <2>2, <2>3
<1>2. checkpoint' \in [{"planning", "run"} -> Checkpoint]  BY <1>1 DEF Types, GraphTypes
<1>3. UNCHANGED <<tables, seen, held, graphLock, watched, up, bounds>>  BY DEF Invoke
<1>4. GraphTypes'
  <2>1. PICK h \in {"planning", "run"} : h = g  OBVIOUS
  <2>2. Enter(Api, h, c, None)  BY <1>1, <2>1
  <2>. HIDE DEF g
  <2>. QED  BY <1>2, <1>3, <2>2, ThreadNames, EnterKeepsTypes DEF tables
<1>. QED
  BY <1>3, <1>4
     DEF tables, bounds, Types, PlanTypes, TaskTypes, AnswerTypes, StoreTypes, BackendTypes

\* Nodes of _execute_assignment.
LEMMA NodeTypes ==
  ASSUME Types, NEW x \in Thread, NEW e \in Execution, Node(x, e)
  PROVE  Types' /\ NodeSteps(x, e)
<1>. USE ThreadNames DEF bounds
<1>1. RunsNode(x, e) /\ NodeFrame
  BY DEF Node, NodeReturns, NodeParks, NodeRejected, Submits, SubmissionWaits,
         SubmissionCompletes, SubmissionFails
<1>2. ASSUME NodeSteps(x, e)  PROVE GraphTypes'
  <2>1. CallSteps(x) /\ plan' = plan /\ seen' = seen /\ pc'[x] = "nodes"
    BY <1>1, <1>2 DEF NodeSteps, RunsNode, NodeFrame
  <2>. QED  BY <2>1, CallKeepsTypes DEF Types, GraphTypes
<1>3. StoreTypes' /\ BackendTypes'  BY <1>1 DEF NodeFrame, Types, StoreTypes, BackendTypes
<1>4. offered' = offered => PlanTypes'  BY <1>1 DEF NodeFrame, Types, PlanTypes
<1>5. answer[e] \in Answer  BY DEF Types, AnswerTypes
<1>6. CASE NodeReturns(x, e)
  <2>1. NodeSteps(x, e)
    <3>1. NodeDone(x, e, answer[e]) /\ pc' = pc  BY <1>6 DEF NodeReturns
    <3>2. PICK a \in Answer : a = answer[e] /\ NodeDone(x, e, a)
      BY <1>5, <3>1 DEF NodeDone
    <3>. QED  BY <3>1, <3>2, NodeDoneEffect
  <2>. QED
    BY <1>1, <1>2, <1>3, <1>4, <1>6, <2>1 DEF NodeReturns, NodeFrame, Types, TaskTypes, AnswerTypes
<1>7. CASE NodeParks(x, e)
  <2>1. NodeSteps(x, e)  BY <1>7, NodeInterruptsEffect DEF NodeParks
  <2>. QED
    BY <1>1, <1>2, <1>3, <1>4, <1>7, <2>1 DEF NodeParks, NodeFrame, Types, TaskTypes, AnswerTypes
<1>8. CASE NodeRejected(x, e)
  <2>1. NodeSteps(x, e)  BY <1>8, NodeRaisesEffect DEF NodeRejected
  <2>. QED
    BY <1>1, <1>2, <1>3, <1>4, <1>8, <2>1
       DEF NodeRejected, NodeFrame, Types, TaskTypes, AnswerTypes, TaskStatus, Terminal,
           ExecStatus
<1>9. CASE SubmissionWaits(x, e)
  <2>1. NodeSteps(x, e)  BY <1>9, NodeInterruptsEffect DEF SubmissionWaits
  <2>2. step' \in [Keys -> StepStatus] /\ planStatus' \in PlanStatus
    BY <1>9, SetStepTypes DEF SubmissionWaits, StepStatus
  <2>. QED
    BY <1>1, <1>2, <1>3, <1>4, <1>9, <2>1, <2>2
       DEF SubmissionWaits, NodeFrame, Types, TaskTypes, AnswerTypes, TaskStatus, ExecStatus
<1>10. CASE SubmissionCompletes(x, e)
  <2>1. attempt' \in [Execution -> Nat]
    BY <1>10 DEF SubmissionCompletes, Types, AnswerTypes
  <2>2. /\ answer' \in [Execution -> Answer] /\ offered' \in Plan
        /\ offered' \in Offers \cup {NoPlan}
    <3>1. Delivers(e)  BY <1>10 DEF SubmissionCompletes
    <3>. QED  BY <2>1, <3>1, DeliversTypes
  <2>3. NodeSteps(x, e)
    <3>1. NodeDone(x, e, answer'[e]) /\ pc' = pc  BY <1>10 DEF SubmissionCompletes
    <3>2. PICK a \in Answer : a = answer'[e] /\ NodeDone(x, e, a)
      BY <2>2, <3>1 DEF NodeDone
    <3>. QED  BY <3>1, <3>2, NodeDoneEffect
  <2>4. step' \in [Keys -> StepStatus] /\ planStatus' \in PlanStatus
    BY <1>10, SetStepTypes DEF SubmissionCompletes, StepStatus
  <2>5. PlanTypes'  BY <1>1, <2>2 DEF NodeFrame, Types, PlanTypes
  <2>. QED
    BY <1>1, <1>2, <1>3, <1>10, <2>1, <2>2, <2>3, <2>4, <2>5
       DEF SubmissionCompletes, NodeFrame, Types, TaskTypes, AnswerTypes, ExecStatus
<1>11. CASE SubmissionFails(x, e)
  <2>1. NodeSteps(x, e)  BY <1>11, NodeRaisesEffect DEF SubmissionFails
  <2>2. step' \in [Keys -> StepStatus] /\ planStatus' \in PlanStatus
    BY <1>11, SetStepTypes DEF SubmissionFails, StepStatus, StepEnds
  <2>. QED
    BY <1>1, <1>2, <1>3, <1>4, <1>11, <2>1, <2>2
       DEF SubmissionFails, NodeFrame, Types, TaskTypes, AnswerTypes, TaskStatus, Terminal,
           ExecStatus
<1>. QED  BY <1>6, <1>7, <1>8, <1>9, <1>10, <1>11 DEF Node

\* The threads of a step that leaves the tables and the backend as they are.
LEMMA FramedTypes ==
  ASSUME Types, GraphTypes', SchedulerFrame, UNCHANGED tables
  PROVE  Types'
BY DEF SchedulerFrame, tables, bounds, Types, PlanTypes, TaskTypes, AnswerTypes, StoreTypes,
       BackendTypes

\* The session's copy of the tables.
LEMMA SnapshotTypes ==
  ASSUME Types, NEW ks \in SUBSET Keys, NEW f \in BOOLEAN
  PROVE  /\ [Snapshot EXCEPT !.todo = ks] \in SeenType
         /\ [Snapshot EXCEPT !.todo = ks, !.failures = f] \in SeenType
         /\ [NothingSeen EXCEPT !.todo = ks] \in SeenType
BY DEF Snapshot, NothingSeen, SeenType, Types, TaskTypes, TaskStatus, PlanStatus, StepStatus

\* The steps of a plan are keys.
LEMMA PlanKeys ==
  ASSUME Types
  PROVE  plan.steps \in Seq(StepType) /\ KeysOf(plan) \subseteq Keys
<1>1. plan.steps \in Seq(StepType)  BY DEF Types, PlanTypes, Plan
<1>. QED  BY <1>1, StepFields

\* The step a scheduler prepares next is one of the plan.
LEMMA FirstOpen ==
  ASSUME Types, OpenSteps # {}
  PROVE  First(OpenSteps) \in OpenSteps
<1>1. OpenSteps \cap KeysOf(plan) = OpenSteps  BY DEF OpenSteps
<1>. QED  BY <1>1, PlanKeys, FirstIn

\* The work a stage is given.
LEMMA WorkSet ==
  ASSUME Types, NEW x \in Thread, NEW w \in SUBSET Execution,
         call' = [call EXCEPT ![x].at.work = w]
  PROVE  /\ call' \in [Thread -> CallType] /\ \A y \in Thread \ {x} : call'[y] = call[y]
         /\ call'[x].todo = call[x].todo /\ call'[x].raised = call[x].raised
         /\ call'[x].graph = call[x].graph /\ call'[x].next = call[x].next
         /\ SameAt(call'[x].at, call[x].at) /\ call'[x].at.work = w
         /\ call'[x].at.parked = call[x].at.parked
         /\ call'[x].at.review = call[x].at.review
<1>. DEFINE at == [call[x].at EXCEPT !.work = w]
            new == [call[x] EXCEPT !.at = at]
<1>1. call \in [Thread -> CallType] /\ call[x] \in CallType /\ call[x].at \in Checkpoint
  BY DEF Types, GraphTypes, CallType
<1>2. call' = [call EXCEPT ![x] = new]  BY <1>1
<1>3. at \in Checkpoint /\ SameAt(at, call[x].at) /\ at.work = w
      /\ at.parked = call[x].at.parked /\ at.review = call[x].at.review
  BY <1>1 DEF Checkpoint, SameAt
<1>. HIDE DEF at
<1>4. /\ new \in CallType /\ new.todo = call[x].todo /\ new.raised = call[x].raised
      /\ new.graph = call[x].graph /\ new.next = call[x].next /\ new.at = at
  BY <1>1, <1>3 DEF CallType
<1>. HIDE DEF new
<1>5. call' \in [Thread -> CallType] /\ call'[x] = new
      /\ \A y \in Thread \ {x} : call'[y] = call[y]
  BY <1>1, <1>2, <1>4
<1>. QED  BY <1>3, <1>4, <1>5

\* prepare_step and prepare_parallel_specialists.
LEMMA PrepareTypes ==
  ASSUME Types, NEW x \in Thread, PrepareStep(x) \/ PrepareWave(x)
  PROVE  Types'
<1>1. SchedulerFrame /\ UNCHANGED tables /\ plan' = plan
  BY DEF PrepareStep, PrepareWave, tables
<1>2. KeysOf(plan) \subseteq Keys /\ SpecialistKeys(plan) \subseteq KeysOf(plan)
  BY PlanKeys DEF KeysOf, SpecialistKeys
<1>3. seen \in [Thread -> SeenType]  BY DEF Types, GraphTypes
<1>4. ASSUME NEW next \in Stage, NEW work \in SUBSET Execution,
             SchedulerDone(x, next, work, None) \/ SchedulerRaises(x), seen' = seen
      PROVE  GraphTypes'
  <2>1. CallSteps(x) /\ pc'[x] = "nodes"
    BY <1>4, SchedulerDoneEffect, SchedulerRaisesEffect
  <2>. QED  BY <1>1, <1>3, <1>4, <2>1, CallKeepsTypes
<1>5. ASSUME NEW w \in SUBSET Keys, NEW ks \in SUBSET KeysOf(plan),
             seen' = [seen EXCEPT ![x] = [Snapshot EXCEPT !.todo = ks]],
             call' = [call EXCEPT ![x].at.work = w], GoTo(x, "schedule"),
             UNCHANGED checkpoint
      PROVE  GraphTypes'
  <2>1. w \in SUBSET Execution /\ ks \in SUBSET Keys  BY <1>2 DEF Execution
  <2>2. [Snapshot EXCEPT !.todo = ks] \in SeenType /\ [Snapshot EXCEPT !.todo = ks].todo = ks
    BY <2>1, SnapshotTypes DEF Snapshot, NothingSeen
  <2>3. seen' \in [Thread -> SeenType] /\ seen'[x].todo = ks
        /\ \A y \in Thread \ {x} : seen'[y] = seen[y]
    <3>. DEFINE new == [Snapshot EXCEPT !.todo = ks]
    <3>1. seen' = [seen EXCEPT ![x] = new] /\ new \in SeenType /\ new.todo = ks
      BY <1>5, <2>2
    <3>. HIDE DEF new
    <3>. QED  BY <1>3, <3>1
  <2>4. pc' \in [Thread -> Place] /\ pc'[x] = "schedule"
        /\ \A y \in Thread \ {x} : pc'[y] = pc[y]
    BY <1>5 DEF GoTo, Types, GraphTypes, Place
  <2>5. CallSteps(x)
    BY <1>5, <2>1, <2>4, WorkSet DEF CallSteps, Types, GraphTypes
  <2>. QED  BY <1>1, <2>3, <2>4, <2>5, CallKeepsTypes
<1>6. CASE PrepareStep(x)
  <2>1. CASE NothingReady
    <3>1. {} \in SUBSET Execution /\ "end" \in Stage  BY DEF Stage
    <3>2. SchedulerDone(x, "end", {}, None) \/ SchedulerRaises(x)
      BY <1>6, <2>1 DEF PrepareStep
    <3>3. seen' = seen  BY <1>6, <2>1 DEF PrepareStep
    <3>. QED  BY <1>1, <1>4, <3>1, <3>2, <3>3, FramedTypes
  <2>2. CASE ~NothingReady
    <3>1. First(OpenSteps) \in KeysOf(plan)
      BY <2>2, FirstOpen DEF NothingReady, OpenSteps
    <3>2. PICK k \in KeysOf(plan) : k = First(OpenSteps)  BY <3>1
    <3>3. {k} \in SUBSET Execution /\ {k} \in SUBSET Keys /\ {k} \in SUBSET KeysOf(plan)
          /\ "execute" \in Stage
      BY <1>2, <3>2 DEF Execution, Stage, Working
    <3>4. CASE exec[k] # "absent"
      <4>1. SchedulerDone(x, "execute", {k}, None) /\ seen' = seen
        BY <1>6, <2>2, <3>2, <3>4 DEF PrepareStep, SchedulerDone
      <4>. QED  BY <1>1, <1>4, <3>3, <4>1, FramedTypes
    <3>5. CASE exec[k] = "absent"
      <4>1. /\ seen' = [seen EXCEPT ![x] = [Snapshot EXCEPT !.todo = {k}]]
            /\ call' = [call EXCEPT ![x].at.work = {k}]
            /\ GoTo(x, "schedule") /\ UNCHANGED checkpoint
        BY <1>6, <2>2, <3>2, <3>5 DEF PrepareStep
      <4>. QED  BY <1>1, <1>5, <3>3, <4>1, FramedTypes
    <3>. QED  BY <3>4, <3>5
  <2>. QED  BY <2>1, <2>2
<1>7. CASE PrepareWave(x)
  <2>1. PICK wave \in SUBSET KeysOf(plan) :
          wave = {k \in SpecialistKeys(plan) : step[k] # "completed"}
    BY <1>2
  <2>2. PICK absent \in SUBSET KeysOf(plan) : absent = {k \in wave : exec[k] = "absent"}
    BY <2>1
  <2>3. /\ "prepare" \in Stage /\ "wave_execute" \in Stage /\ {} \in SUBSET Execution
        /\ wave \in SUBSET Execution /\ wave \in SUBSET Keys
    BY <1>2, <2>1 DEF Stage, Working, Execution
  <2>4. \/ SchedulerDone(x, "prepare", {}, None) /\ seen' = seen
        \/ SchedulerDone(x, "prepare", wave, None) /\ seen' = seen
        \/ SchedulerDone(x, "wave_execute", wave, None) /\ seen' = seen
        \/ /\ seen' = [seen EXCEPT ![x] = [Snapshot EXCEPT !.todo = absent]]
           /\ call' = [call EXCEPT ![x].at.work = wave]
           /\ GoTo(x, "schedule") /\ UNCHANGED checkpoint
    BY <1>7, <2>1, <2>2 DEF PrepareWave, SchedulerDone
  <2>5. GraphTypes'  BY <1>4, <1>5, <2>3, <2>4
  <2>. QED  BY <1>1, <2>5, FramedTypes
<1>. QED  BY <1>6, <1>7

\* The binding of the inputs of one step: those that are bound stay.
LEMMA BindEffect ==
  ASSUME Types, NEW n \in Keys, Bind(n), store' = store
  PROVE  /\ bound' \in [Keys -> [Contract -> Nat]]
         /\ \A k \in Keys, c \in Contract :
              /\ bound'[k][c] \in 0..Len(store'[c])
              /\ bound[k][c] # 0 => bound'[k][c] = bound[k][c]
              /\ bound'[k][c] # bound[k][c] =>
                   k = n /\ c \in InputsOf(n) /\ bound'[k][c] = Len(store[c])
              /\ k = n /\ c \in InputsOf(n) => bound'[k][c] # 0 \/ store[c] = <<>>
<1>. DEFINE new == [c \in Contract |-> IF c \in InputsOf(n) /\ bound[n][c] = 0
                                       THEN Len(store[c]) ELSE bound[n][c]]
<1>1. /\ store \in [Contract -> Seq(ArtifactType)] /\ bound \in [Keys -> [Contract -> Nat]]
      /\ \A k \in Keys, c \in Contract : bound[k][c] \in 0..Len(store[c])
  BY DEF Types, StoreTypes
<1>2. \A c \in Contract : Len(store[c]) \in Nat /\ (Len(store[c]) = 0 => store[c] = <<>>)
  BY <1>1, EmptySeq
<1>3. /\ new \in [Contract -> Nat]
      /\ \A c \in Contract :
           /\ new[c] \in 0..Len(store[c])
           /\ bound[n][c] # 0 => new[c] = bound[n][c]
           /\ new[c] # bound[n][c] => c \in InputsOf(n) /\ new[c] = Len(store[c])
           /\ c \in InputsOf(n) => new[c] # 0 \/ store[c] = <<>>
  BY <1>1, <1>2
<1>4. bound' = [bound EXCEPT ![n] = new]  BY <1>1 DEF Bind
<1>. HIDE DEF new
<1>5. bound' \in [Keys -> [Contract -> Nat]] /\ bound'[n] = new
      /\ \A k \in Keys \ {n} : bound'[k] = bound[k]
  BY <1>1, <1>3, <1>4
<1>. QED  BY <1>1, <1>3, <1>5

\* A commit of the scheduler.
LEMMA ScheduleTypes ==
  ASSUME Types, NEW x \in Thread, Schedule(x)
  PROVE  Types'
<1>. DEFINE s == seen[x]
            k == s.pending
            n == IF s.todo = {} THEN None ELSE First(s.todo)
<1>0. s \in SeenType /\ seen \in [Thread -> SeenType] /\ pc[x] = "schedule"
      /\ s.todo \subseteq KeysOf(plan) /\ s.todo \subseteq Keys
  BY DEF Types, GraphTypes, Schedule, SeenType
<1>1. n \in (Keys \cap s.todo) \cup {None}
  BY <1>0, PlanKeys, FirstIn
<1>2. CASE SchedulerRaises(x) /\ UNCHANGED tables /\ seen' = [seen EXCEPT ![x] = NothingSeen]
  <2>1. CallSteps(x) /\ pc'[x] = "nodes"  BY <1>2, SchedulerRaisesEffect
  <2>2. GraphTypes'  BY <1>2, <2>1, ForgetEffect, CallKeepsTypes DEF tables
  <2>. QED  BY <1>2, <2>2, FramedTypes DEF Schedule
<1>3. CASE ~(SchedulerRaises(x) /\ UNCHANGED tables /\ seen' = [seen EXCEPT ![x] = NothingSeen])
  <2>1. /\ step' = [j \in Keys |-> IF j = k THEN "submitted"
                                   ELSE IF j = n THEN Written(s.step[j], "ready", step[j])
                                   ELSE step[j]]
        /\ exec' = IF k = None THEN exec ELSE [exec EXCEPT ![k] = "submitted"]
        /\ taskStatus' = IF k = None THEN taskStatus ELSE Written(s.task, "running", taskStatus)
        /\ planStatus' = IF s.plan = "validated" THEN "active" ELSE planStatus
        /\ UNCHANGED <<plan, refused, attempt, offered, answer, store>>
    BY <1>3 DEF Schedule
  <2>2. IF n = None THEN UNCHANGED bound ELSE Bind(n)  BY <1>3 DEF Schedule
  <2>3. IF n = None
        THEN /\ SchedulerDone(x, IF InWave(x) THEN "wave_execute" ELSE "execute",
                              call[x].at.work, None)
             /\ seen' = [seen EXCEPT ![x] = NothingSeen]
        ELSE /\ seen' = [seen EXCEPT ![x] =
                  [s EXCEPT !.pending = n, !.todo = @ \ {n},
                            !.task = IF k = None THEN @ ELSE "running",
                            !.plan = IF @ = "validated" THEN "active" ELSE @]]
             /\ UNCHANGED <<call, checkpoint, pc>>
    BY <1>3 DEF Schedule
  <2>. HIDE DEF n
  <2>4. TaskTypes'
    <3>1. s.step \in [Keys -> StepStatus] /\ k \in Keys \cup {None}  BY <1>0 DEF SeenType
    <3>2. step' \in [Keys -> StepStatus]
      <4>1. "submitted" \in StepStatus /\ "ready" \in StepStatus  BY DEF StepStatus
      <4>2. \A j \in Keys : Written(s.step[j], "ready", step[j]) \in StepStatus
        BY <3>1, <4>1 DEF Written, Types, TaskTypes
      <4>. HIDE DEF s
      <4>. QED  BY <2>1, <4>1, <4>2 DEF Types, TaskTypes
    <3>3. exec' \in [Execution -> ExecStatus]
      BY <2>1, <3>1 DEF Types, TaskTypes, ExecStatus, Execution
    <3>4. taskStatus' \in TaskStatus /\ planStatus' \in PlanStatus
      BY <2>1 DEF Written, Types, TaskTypes, TaskStatus, PlanStatus
    <3>. QED  BY <2>1, <3>2, <3>3, <3>4 DEF Types, TaskTypes
  <2>5. StoreTypes'
    <3>1. CASE n = None  BY <2>1, <2>2, <3>1 DEF Types, StoreTypes
    <3>2. CASE n # None
      <4>1. n \in Keys /\ Bind(n) /\ store' = store  BY <1>1, <2>1, <2>2, <3>2
      <4>2. PICK m \in Keys : m = n /\ Bind(m)  BY <4>1 DEF Bind
      <4>. QED  BY <2>1, <4>2, BindEffect DEF Types, StoreTypes
    <3>. QED  BY <3>1, <3>2
  <2>6. GraphTypes'
    <3>1. CASE n = None
      <4>1. PICK next \in Stage, work \in SUBSET Execution : SchedulerDone(x, next, work, None)
        <5>1. call[x].at.work \in SUBSET Execution
          BY DEF Types, GraphTypes, CallType, Checkpoint
        <5>2. "wave_execute" \in Stage /\ "execute" \in Stage  BY DEF Stage, Working
        <5>3. PICK next \in Stage, work \in SUBSET Execution :
                /\ next = (IF InWave(x) THEN "wave_execute" ELSE "execute")
                /\ work = call[x].at.work
          BY <5>1, <5>2
        <5>4. SchedulerDone(x, next, work, None)  BY <2>3, <3>1, <5>3 DEF SchedulerDone
        <5>. QED  BY <5>4
      <4>2. CallSteps(x) /\ pc'[x] = "nodes"  BY <4>1, SchedulerDoneEffect
      <4>. QED  BY <2>1, <2>3, <3>1, <4>2, ForgetEffect, CallKeepsTypes
    <3>2. CASE n # None
      <4>. DEFINE task == IF k = None THEN s.task ELSE "running"
                  pl == IF s.plan = "validated" THEN "active" ELSE s.plan
                  new == [s EXCEPT !.pending = n, !.todo = @ \ {n}, !.task = task, !.plan = pl]
      <4>1. n \in Keys /\ task \in TaskStatus /\ pl \in PlanStatus
        BY <1>0, <1>1, <3>2 DEF SeenType, TaskStatus, PlanStatus
      <4>2. seen' = [seen EXCEPT ![x] = new] /\ UNCHANGED <<call, checkpoint, pc>>
        BY <2>3, <3>2
      <4>. HIDE DEF task, pl, s
      <4>3. new \in SeenType /\ new.todo \subseteq s.todo  BY <1>0, <4>1 DEF SeenType
      <4>. HIDE DEF new
      <4>4. CallSteps(x) /\ pc'[x] = "schedule"
        BY <1>0, <4>2 DEF CallSteps, Types, GraphTypes
      <4>5. seen' \in [Thread -> SeenType] /\ seen'[x] = new
            /\ \A y \in Thread \ {x} : seen'[y] = seen[y]
        BY <1>0, <4>2, <4>3
      <4>. QED  BY <1>0, <2>1, <4>3, <4>4, <4>5, CallKeepsTypes DEF s
    <3>. QED  BY <3>1, <3>2
  <2>. QED
    BY <2>1, <2>4, <2>5, <2>6
       DEF Schedule, SchedulerFrame, bounds, Types, PlanTypes, AnswerTypes, BackendTypes
<1>. QED  BY <1>2, <1>3

\* What a thread that finalizes a delivery leaves of the types.
LEMMA HandlesTypes ==
  ASSUME Types, NEW x \in Thread, NEW review, Handles(x, review), plan' = plan,
         pc[x] \in {"finalize", "complete"}
  PROVE  GraphTypes'
<1>1. seen'[x].todo \subseteq KeysOf(plan) \/ pc'[x] = "nodes"
  BY DEF Handles, Types, GraphTypes
<1>2. pc'[x] # "complete"  BY DEF Handles
<1>. QED  BY <1>1, <1>2, CallKeepsTypes DEF Handles

\* finalize_step and finalize_parallel_specialists: the threads, and the delivery
\* that is handled.
LEMMA FinalizeThreads ==
  ASSUME Types, NEW x \in Thread, Finalizes(x)
  PROVE  /\ GraphTypes' /\ CallSteps(x) /\ checkpoint' = checkpoint /\ plan' = plan
         /\ SchedulerFrame
         /\ pc[x] = "complete" => First(seen[x].todo) \in KeysOf(plan) /\ seen[x] \in SeenType
<1>0. /\ checkpoint \in [{"planning", "run"} -> Checkpoint] /\ call \in [Thread -> CallType]
      /\ pc \in [Thread -> Place] /\ seen \in [Thread -> SeenType] /\ seen[x] \in SeenType
  BY DEF Types, GraphTypes
<1>1. pc[x] = "complete" => First(seen[x].todo) \in KeysOf(plan) /\ seen[x] \in SeenType
  <2>. SUFFICES ASSUME pc[x] = "complete"
                PROVE  First(seen[x].todo) \in KeysOf(plan) /\ seen[x] \in SeenType
    OBVIOUS
  <2>1. seen[x].todo \subseteq KeysOf(plan) /\ seen[x].todo # {}  BY DEF Types, GraphTypes
  <2>. QED  BY <1>0, <2>1, PlanKeys, FirstIn
<1>2. plan' = plan /\ SchedulerFrame
  BY DEF Finalizes, StartFinalize, FinalizeStep, EndWave, RefuseAnswer, RefuseFiles, BlockStep,
         CompleteReview, PublishDelivery, CompleteStep, FinalizeFrame, FailStep, tables
<1>3. ASSUME NEW review, Handles(x, review), pc[x] \in {"finalize", "complete"}
      PROVE  GraphTypes' /\ CallSteps(x) /\ checkpoint' = checkpoint
  BY <1>2, <1>3, HandlesTypes DEF Handles
<1>4. CASE StartFinalize(x)
  <2>. DEFINE ks == KeysOf(plan) \cap call[x].at.work
              new == [NothingSeen EXCEPT !.todo = ks]
  <2>1. ks \in SUBSET Keys  BY PlanKeys
  <2>2. new \in SeenType /\ new.todo = ks
    <3>. HIDE DEF ks
    <3>. QED  BY <2>1, SnapshotTypes DEF NothingSeen
  <2>3. seen' = [seen EXCEPT ![x] = new] /\ UNCHANGED <<call, checkpoint>>
        /\ pc' = [pc EXCEPT ![x] = "finalize"]
    BY <1>4 DEF StartFinalize, GoTo
  <2>. HIDE DEF new
  <2>4. seen' \in [Thread -> SeenType] /\ seen'[x] = new
        /\ \A y \in Thread \ {x} : seen'[y] = seen[y]
    BY <1>0, <2>2, <2>3
  <2>5. CallSteps(x) /\ pc'[x] = "finalize"  BY <1>0, <2>3 DEF CallSteps, Place
  <2>. QED  BY <1>2, <1>1, <2>2, <2>3, <2>4, <2>5, CallKeepsTypes
<1>5. ASSUME NEW k, call[x].at.results[k].says \in {"accepted", "needs_revision"}, k \in Keys
      PROVE  call[x].at.results[k].says \in Verdicts \cup {None, "needs_revision"}
  <2>1. call[x].at.results[k] \in Answer
    BY <1>0, <1>5 DEF CallType, Checkpoint, Execution
  <2>. QED  BY <1>5, <2>1, PlanFlowAssumption DEF Answer
<1>6. CASE FinalizeStep(x)
  <2>. DEFINE k == First(seen[x].todo)
              says == call[x].at.results[k].says
  <2>1. pc[x] = "finalize" /\ seen[x].todo # {} /\ seen[x].todo \subseteq KeysOf(plan)
    BY <1>6 DEF FinalizeStep, Types, GraphTypes
  <2>2. k \in Keys  BY <2>1, PlanKeys, FirstIn
  <2>3. CASE Leaves(x, TRUE, None) \/ Leaves(x, FALSE, None) \/ Refuses(x)
    <3>1. \E review : Handles(x, review)  BY <2>3, LeavesEffect, RefusesEffect
    <3>. QED  BY <1>1, <1>2, <1>3, <2>1, <3>1
  <2>4. CASE says \in {"accepted", "needs_revision"} /\ Leaves(x, TRUE, says)
    <3>. HIDE DEF k
    <3>1. says \in Verdicts \cup {None, "needs_revision"}  BY <1>5, <2>2, <2>4
    <3>2. PICK review \in Verdicts \cup {None, "needs_revision"} : review = says
      BY <3>1
    <3>3. Leaves(x, TRUE, review)
      BY <2>4, <3>2 DEF Leaves, SchedulerDone
    <3>4. Handles(x, review)  BY <3>3, LeavesEffect
    <3>. QED  BY <1>1, <1>2, <1>3, <2>1, <3>4
  <2>5. CASE /\ seen' = [seen EXCEPT ![x] = [Snapshot EXCEPT
                            !.todo = seen[x].todo, !.failures = seen[x].failures]]
             /\ GoTo(x, "complete")
             /\ UNCHANGED <<call, checkpoint>>
    <3>. DEFINE new == [Snapshot EXCEPT !.todo = seen[x].todo, !.failures = seen[x].failures]
    <3>1. seen[x].todo \in SUBSET Keys /\ seen[x].failures \in BOOLEAN  BY <1>0 DEF SeenType
    <3>2. new \in SeenType /\ new.todo = seen[x].todo
      BY <3>1, SnapshotTypes DEF Snapshot, NothingSeen
    <3>3. seen' = [seen EXCEPT ![x] = new] /\ UNCHANGED <<call, checkpoint>>
          /\ pc' = [pc EXCEPT ![x] = "complete"]
      BY <2>5 DEF GoTo
    <3>. HIDE DEF new
    <3>4. seen' \in [Thread -> SeenType] /\ seen'[x] = new
          /\ \A y \in Thread \ {x} : seen'[y] = seen[y]
      BY <1>0, <3>2, <3>3
    <3>5. CallSteps(x) /\ pc'[x] = "complete"  BY <1>0, <3>3 DEF CallSteps, Place
    <3>. QED  BY <1>2, <1>1, <2>1, <3>2, <3>3, <3>4, <3>5, CallKeepsTypes
  <2>. QED  BY <1>6, <2>3, <2>4, <2>5 DEF FinalizeStep
<1>7. CASE EndWave(x)
  <2>1. call[x].at.work \in SUBSET Execution /\ call[x].at.review \in Verdicts \cup {None, "needs_revision"}
    BY <1>0 DEF CallType, Checkpoint
  <2>2. PICK next \in {"end", "prepare"}, work \in SUBSET Execution,
             review \in Verdicts \cup {None, "needs_revision"} :
          /\ next = (IF seen[x].failures \/ call[x].at.review # None THEN "end" ELSE "prepare")
          /\ work = call[x].at.work
          /\ review = (IF seen[x].failures THEN None ELSE call[x].at.review)
    BY <2>1
  <2>3. SchedulerDone(x, next, work, review)  BY <1>7, <2>2 DEF EndWave, SchedulerDone
  <2>4. next \in Stage  BY DEF Stage
  <2>5. CallSteps(x) /\ checkpoint' = checkpoint /\ pc'[x] = "nodes"
    BY <2>3, <2>4, SchedulerDoneEffect
  <2>. QED  BY <1>1, <1>2, <1>7, <2>5, ForgetEffect, CallKeepsTypes DEF EndWave
<1>8. CASE RefuseAnswer(x) \/ RefuseFiles(x)
  <2>1. Refuses(x) /\ pc[x] = "complete"
    BY <1>8 DEF RefuseAnswer, RefuseFiles, Finalizing
  <2>. QED  BY <1>1, <1>2, <1>3, <2>1, RefusesEffect
<1>9. CASE BlockStep(x)
  <2>1. Leaves(x, TRUE, "needs_revision") /\ pc[x] = "complete"
    BY <1>9 DEF BlockStep, Finalizing
  <2>2. Handles(x, "needs_revision")  BY <2>1, LeavesEffect
  <2>. QED  BY <1>1, <1>2, <1>3, <2>1, <2>2
<1>10. CASE CompleteReview(x)
  <2>. DEFINE k == First(seen[x].todo)
              says == call[x].at.results[k].says
  <2>1. pc[x] = "complete" /\ says \in {"accepted", "needs_revision"} /\ Leaves(x, TRUE, says)
    BY <1>10 DEF CompleteReview, Finalizing
  <2>2. k \in Keys  BY <1>1, <2>1, PlanKeys
  <2>3. PICK review \in Verdicts \cup {None, "needs_revision"} : review = says
    <3>. HIDE DEF k
    <3>. QED  BY <1>5, <2>1, <2>2
  <2>4. Leaves(x, TRUE, review)  BY <2>1, <2>3 DEF Leaves, SchedulerDone
  <2>5. Handles(x, review)  BY <2>4, LeavesEffect
  <2>. QED  BY <1>1, <1>2, <1>3, <2>1, <2>5
<1>11. CASE PublishDelivery(x)
  <2>. DEFINE k == First(seen[x].todo)
              new == [seen[x] EXCEPT !.pending = k]
  <2>1. pc[x] = "complete" /\ UNCHANGED <<call, checkpoint, pc>>
        /\ seen' = [seen EXCEPT ![x] = new]
    BY <1>0, <1>11 DEF PublishDelivery, Finalizing
  <2>2. k \in Keys  BY <1>1, <2>1, PlanKeys
  <2>. HIDE DEF k
  <2>3. new \in SeenType /\ new.todo = seen[x].todo  BY <1>0, <2>2 DEF SeenType
  <2>. HIDE DEF new
  <2>4. seen' \in [Thread -> SeenType] /\ seen'[x] = new
        /\ \A y \in Thread \ {x} : seen'[y] = seen[y]
    BY <1>0, <2>1, <2>3
  <2>5. CallSteps(x) /\ pc'[x] = "complete"  BY <1>0, <2>1 DEF CallSteps
  <2>6. seen[x].todo \subseteq KeysOf(plan) /\ seen[x].todo # {}
    BY <2>1 DEF Types, GraphTypes
  <2>. QED  BY <1>1, <1>2, <2>1, <2>3, <2>4, <2>5, <2>6, CallKeepsTypes
<1>12. CASE CompleteStep(x)
  <2>1. Leaves(x, FALSE, None) /\ pc[x] = "complete"  BY <1>12 DEF CompleteStep
  <2>2. Handles(x, None)  BY <2>1, LeavesEffect
  <2>. QED  BY <1>1, <1>2, <1>3, <2>1, <2>2
<1>. QED  BY <1>4, <1>6, <1>7, <1>8, <1>9, <1>10, <1>11, <1>12 DEF Finalizes

\* The tables after a delivery was handled.
LEMMA FinalizeTypes ==
  ASSUME Types, NEW x \in Thread, Finalizes(x)
  PROVE  Types'
<1>. USE DEF bounds
<1>1. GraphTypes' /\ plan' = plan /\ SchedulerFrame
      /\ (pc[x] = "complete" => First(seen[x].todo) \in Keys /\ seen[x] \in SeenType)
  BY FinalizeThreads, PlanKeys
<1>. DEFINE k == First(seen[x].todo)
<1>2. BackendTypes'  BY <1>1 DEF SchedulerFrame, Types, BackendTypes
<1>3. PlanTypes' /\ exec' = exec /\ attempt' = attempt /\ bound' = bound
  BY DEF Finalizes, StartFinalize, FinalizeStep, EndWave, RefuseAnswer, RefuseFiles, BlockStep,
         CompleteReview, PublishDelivery, CompleteStep, FinalizeFrame, FailStep, tables, Types,
         PlanTypes
<1>4. step \in [Keys -> StepStatus] /\ planStatus \in PlanStatus /\ taskStatus \in TaskStatus
      /\ refused \subseteq Execution /\ answer \in [Execution -> Answer]
  BY DEF Types, TaskTypes, AnswerTypes
<1>5. ASSUME UNCHANGED <<taskStatus, refused>>, planStatus' \in PlanStatus,
             step' \in [Keys -> StepStatus], UNCHANGED <<answer, store>>
      PROVE  Types'
  BY <1>1, <1>2, <1>3, <1>5 DEF Types, TaskTypes, AnswerTypes, StoreTypes
<1>6. CASE StartFinalize(x)
  BY <1>4, <1>5, <1>6 DEF StartFinalize, tables
<1>7. CASE FinalizeStep(x)
  BY <1>4, <1>5, <1>7 DEF FinalizeStep
<1>8. CASE EndWave(x)
  <2>1. step' \in [Keys -> StepStatus]  BY <1>4, <1>8 DEF EndWave, StepStatus, StepEnds
  <2>. QED  BY <1>4, <1>5, <1>8, <2>1 DEF EndWave
<1>9. ASSUME NEW s \in SeenType, FailStep(k, s), k \in Keys
      PROVE  Types'
  <2>1. s.step[k] \in StepStatus  BY <1>9 DEF SeenType
  <2>2. step' \in [Keys -> StepStatus] /\ planStatus' \in PlanStatus /\ taskStatus' \in TaskStatus
        /\ refused' \subseteq Execution /\ store' = store
    BY <1>4, <1>9, <2>1
       DEF FailStep, Written, StepStatus, StepEnds, PlanStatus, TaskStatus, Terminal, Execution
  <2>3. answer' \in [Execution -> Answer]
    <3>1. k \in Execution /\ answer[k] \in Answer  BY <1>4, <1>9 DEF Execution
    <3>2. [answer[k] EXCEPT !.says = "invalid"] \in Answer  BY <3>1 DEF Answer
    <3>3. answer' = [answer EXCEPT ![k] = [answer[k] EXCEPT !.says = "invalid"]]
      BY <1>9, <3>1, <1>4 DEF FailStep
    <3>. QED  BY <1>4, <3>1, <3>2, <3>3
  <2>. QED
    BY <1>1, <1>2, <1>3, <2>2, <2>3 DEF Types, TaskTypes, AnswerTypes, StoreTypes
<1>10. CASE RefuseAnswer(x)
  <2>1. FailStep(k, seen[x]) /\ k \in Keys /\ seen[x] \in SeenType
    BY <1>1, <1>10 DEF RefuseAnswer, Finalizing
  <2>2. PICK s \in SeenType : s = seen[x] /\ FailStep(k, s)  BY <2>1 DEF FailStep
  <2>. QED  BY <1>9, <2>1, <2>2
<1>11. CASE RefuseFiles(x)
  <2>1. FailStep(k, Snapshot) /\ k \in Keys  BY <1>1, <1>11 DEF RefuseFiles, Finalizing
  <2>2. Snapshot \in SeenType
    BY DEF Snapshot, NothingSeen, SeenType, Types, TaskTypes, TaskStatus, PlanStatus, StepStatus
  <2>3. PICK s \in SeenType : s = Snapshot /\ FailStep(k, s)  BY <2>1, <2>2 DEF FailStep
  <2>. QED  BY <1>9, <2>1, <2>3
<1>12. CASE BlockStep(x)
  <2>1. k \in Keys /\ seen[x] \in SeenType  BY <1>1, <1>12 DEF BlockStep, Finalizing
  <2>2. step' \in [Keys -> StepStatus] /\ planStatus' \in PlanStatus
        /\ refused' \subseteq Execution
    BY <1>4, <1>12, <2>1
       DEF BlockStep, Written, SeenType, StepStatus, StepEnds, PlanStatus, Terminal, Execution
  <2>3. UNCHANGED <<taskStatus, answer, store>>  BY <1>12 DEF BlockStep
  <2>. QED
    BY <1>1, <1>2, <1>3, <2>2, <2>3 DEF Types, TaskTypes, AnswerTypes, StoreTypes
<1>13. CASE CompleteReview(x)
  <2>1. step' \in [Keys -> StepStatus] /\ planStatus' \in PlanStatus
    BY <1>4, <1>13 DEF CompleteReview, StepStatus, StepEnds, PlanStatus, Terminal
  <2>. QED  BY <1>5, <1>13, <2>1 DEF CompleteReview
<1>14. CASE PublishDelivery(x)
  <2>1. k \in Keys  BY <1>1, <1>14 DEF PublishDelivery, Finalizing
  <2>2. store' = Released(k)
        /\ UNCHANGED <<taskStatus, planStatus, step, refused, answer>>
    BY <1>14 DEF PublishDelivery
  <2>3. store \in [Contract -> Seq(ArtifactType)] /\ bound \in [Keys -> [Contract -> Nat]]
        /\ \A j \in Keys, c \in Contract : bound[j][c] \in 0..Len(store[c])
    BY DEF Types, StoreTypes
  <2>4. [by |-> k, turn |-> attempt[k]] \in ArtifactType
    BY <2>1 DEF ArtifactType, Types, AnswerTypes, Execution
  <2>. DEFINE artifact == [by |-> k, turn |-> attempt[k]]
  <2>5. store' \in [Contract -> Seq(ArtifactType)]
        /\ \A c \in Contract : store'[c] \in {store[c], Append(store[c], artifact)}
    <3>1. \A c \in Contract : Append(store[c], artifact) \in Seq(ArtifactType)
      BY <2>3, <2>4
    <3>. HIDE DEF artifact
    <3>2. store' = [c \in Contract |->
                      IF c \in StepAt(plan, k).outputs
                         /\ \A i \in DOMAIN store[c] : store[c][i] # artifact
                      THEN Append(store[c], artifact) ELSE store[c]]
      BY <2>2 DEF Released, artifact
    <3>. QED  BY <2>3, <3>1, <3>2
  <2>. HIDE DEF artifact
  <2>6. StoreTypes'
    <3>1. \A c \in Contract : Len(store'[c]) >= Len(store[c])
      <4>. SUFFICES ASSUME NEW c \in Contract  PROVE Len(store'[c]) >= Len(store[c])  OBVIOUS
      <4>1. store[c] \in Seq(ArtifactType) /\ artifact \in ArtifactType
        BY <2>3, <2>4 DEF artifact
      <4>2. Len(Append(store[c], artifact)) = Len(store[c]) + 1  BY <4>1
      <4>3. Len(store[c]) \in Nat  BY <4>1
      <4>. QED  BY <2>5, <4>2, <4>3
    <3>2. \A c \in Contract : Len(store'[c]) \in Nat /\ Len(store[c]) \in Nat
      BY <2>3, <2>5
    <3>3. \A j \in Keys, c \in Contract : bound'[j][c] \in 0..Len(store'[c])
      BY <1>3, <2>3, <3>1, <3>2
    <3>. QED  BY <1>3, <2>3, <2>5, <3>3 DEF StoreTypes
  <2>. QED  BY <1>1, <1>2, <1>3, <2>2, <2>6 DEF Types, TaskTypes, AnswerTypes
<1>15. CASE CompleteStep(x)
  <2>1. step' \in [Keys -> StepStatus]
    BY <1>4, <1>15 DEF CompleteStep, StepStatus, StepEnds
  <2>. QED  BY <1>4, <1>5, <1>15, <2>1 DEF CompleteStep
<1>. QED
  BY <1>6, <1>7, <1>8, <1>10, <1>11, <1>12, <1>13, <1>14, <1>15 DEF Finalizes

\* What a thread does between and after the supersteps.
LEMMA GraphTypesKept ==
  ASSUME Types, NEW x \in Thread,
         EndSuperstep(x) \/ Returned(x) \/ Finish(x) \/ AdoptPlan(x) \/ MarkPlanned(x)
           \/ RefusePlan(x)
  PROVE  Types'
<1>. USE ThreadNames DEF bounds, tables
<1>0. /\ checkpoint \in [{"planning", "run"} -> Checkpoint] /\ call \in [Thread -> CallType]
      /\ pc \in [Thread -> Place] /\ seen \in [Thread -> SeenType]
      /\ call[x].graph \in {"planning", "run"} /\ call[x].at \in Checkpoint
      /\ call[x].next \in Stage
  BY DEF Types, GraphTypes, CallType
<1>1. CASE EndSuperstep(x)
  <2>. DEFINE c == call[x].at
              next == [c EXCEPT !.stage = call[x].next, !.by = <<x, calls>>,
                                !.done = {}, !.parked = {}]
  <2>1. GraphTypes' /\ held' \in Thread \cup {None} /\ graphLock' \in Thread \cup {None}
    <3>1. CASE Leave(x) /\ UNCHANGED checkpoint
      BY <1>1, <3>1, LeaveKeepsTypes DEF EndSuperstep
    <3>2. CASE GoTo(x, "returned") /\ UNCHANGED <<checkpoint, call, seen, held, graphLock>>
      BY <1>1, <3>2, GoToKeepsTypes DEF EndSuperstep, Place, Types, BackendTypes
    <3>3. CASE /\ checkpoint' = [checkpoint EXCEPT ![call[x].graph] = next]
               /\ Enter(x, call[x].graph, next, None)
               /\ UNCHANGED <<seen, held, graphLock>>
      <4>1. <<x, calls>> \in Thread \X Nat
        BY PlanFlowAssumption DEF Types, BackendTypes
      <4>2. next \in Checkpoint  BY <1>0, <4>1 DEF Checkpoint
      <4>3. PICK d \in Checkpoint, g \in {"planning", "run"} :
              d = next /\ g = call[x].graph
        BY <1>0, <4>2
      <4>. HIDE DEF next
      <4>4. checkpoint' = [checkpoint EXCEPT ![g] = d] /\ Enter(x, g, d, None)
        BY <3>3, <4>3 DEF Enter
      <4>5. checkpoint' \in [{"planning", "run"} -> Checkpoint]  BY <1>0, <4>4
      <4>. QED  BY <1>1, <3>3, <4>4, <4>5, EnterKeepsTypes DEF EndSuperstep, Types, BackendTypes
    <3>. QED  BY <1>1, <3>1, <3>2, <3>3 DEF EndSuperstep
  <2>. QED
    BY <1>1, <2>1
       DEF EndSuperstep, Types, PlanTypes, TaskTypes, AnswerTypes, StoreTypes, BackendTypes
<1>2. CASE Returned(x)
  <2>1. GraphTypes' /\ held' \in Thread \cup {None} /\ graphLock' \in Thread \cup {None}
    <3>1. CASE Leave(x)  BY <1>2, <3>1, LeaveKeepsTypes DEF Returned
    <3>2. CASE /\ GoTo(x, "planned") \/ GoTo(x, "finish")
               /\ UNCHANGED <<call, seen, held, graphLock, watched>>
      BY <1>2, <3>2, GoToKeepsTypes DEF Returned, Place, Types, BackendTypes
    <3>. QED  BY <1>2, <3>1, <3>2 DEF Returned
  <2>2. watched' \subseteq Execution  BY <1>2 DEF Returned, Watch, Types, BackendTypes
  <2>. QED
    BY <1>2, <2>1, <2>2
       DEF Returned, Types, PlanTypes, TaskTypes, AnswerTypes, StoreTypes, BackendTypes
<1>3. CASE Finish(x)
  <2>1. GraphTypes' /\ held' \in Thread \cup {None} /\ graphLock' \in Thread \cup {None}
    BY <1>3, LeaveKeepsTypes DEF Finish
  <2>2. taskStatus' \in TaskStatus  BY <1>3 DEF Finish, TaskStatus, Terminal
  <2>. QED
    BY <1>3, <2>1, <2>2
       DEF Finish, Types, PlanTypes, TaskTypes, AnswerTypes, StoreTypes, BackendTypes
<1>4. CASE AdoptPlan(x)
  <2>1. plan' = offered /\ AcceptedPlan(offered) /\ plan \in {NoPlan, offered}
    BY <1>4 DEF AdoptPlan
  <2>2. PlanTypes'  BY <1>4, <2>1 DEF AdoptPlan, Types, PlanTypes
  <2>3. KeysOf(plan) \subseteq KeysOf(plan')
    <3>1. KeysOf(NoPlan) = {}  BY DEF KeysOf, Indices, NoPlan
    <3>. QED  BY <2>1, <3>1
  <2>4. GraphTypes'
    <3>1. pc' = [pc EXCEPT ![x] = "mark"] /\ UNCHANGED <<checkpoint, call, seen>>
      BY <1>4 DEF AdoptPlan, GoTo
    <3>2. pc' \in [Thread -> Place] /\ pc'[x] = "mark"
          /\ \A y \in Thread \ {x} : pc'[y] = pc[y]
      BY <1>0, <3>1 DEF Place
    <3>3. ASSUME NEW y \in Thread
          PROVE  /\ pc'[y] \in {"schedule", "finalize", "complete"} =>
                      seen'[y].todo \subseteq KeysOf(plan')
                 /\ pc'[y] = "complete" => seen'[y].todo # {}
      <4>1. /\ pc[y] \in {"schedule", "finalize", "complete"} => seen[y].todo \subseteq KeysOf(plan)
            /\ pc[y] = "complete" => seen[y].todo # {}
        BY DEF Types, GraphTypes
      <4>. QED  BY <2>3, <3>1, <3>2, <4>1
    <3>. QED  BY <1>0, <3>1, <3>2, <3>3 DEF GraphTypes
  <2>5. TaskTypes'
    BY <1>4 DEF AdoptPlan, Types, TaskTypes, PlanStatus, StepStatus
  <2>. QED
    BY <1>4, <2>2, <2>4, <2>5 DEF AdoptPlan, Types, AnswerTypes, StoreTypes, BackendTypes
<1>5. CASE MarkPlanned(x)
  <2>1. GraphTypes' /\ held' \in Thread \cup {None} /\ graphLock' \in Thread \cup {None}
    BY <1>5, LeaveKeepsTypes DEF MarkPlanned
  <2>2. taskStatus' \in TaskStatus
    BY <1>5 DEF MarkPlanned, MarkReady, Types, TaskTypes, TaskStatus
  <2>. QED
    BY <1>5, <2>1, <2>2
       DEF MarkPlanned, Types, PlanTypes, TaskTypes, AnswerTypes, StoreTypes, BackendTypes
<1>6. CASE RefusePlan(x)
  <2>1. GraphTypes' /\ held' \in Thread \cup {None} /\ graphLock' \in Thread \cup {None}
    BY <1>6, LeaveKeepsTypes DEF RefusePlan
  <2>2. taskStatus' \in TaskStatus /\ refused' \subseteq Execution
    BY <1>6 DEF RefusePlan, Types, TaskTypes, TaskStatus, Terminal, Execution
  <2>. QED
    BY <1>6, <2>1, <2>2
       DEF RefusePlan, Types, PlanTypes, TaskTypes, AnswerTypes, StoreTypes, BackendTypes
<1>. QED  BY <1>1, <1>2, <1>3, <1>4, <1>5, <1>6

\* The end of a Turn, its thread and the startup.
LEMMA TurnTypes ==
  ASSUME Types, NEW e \in Execution,
         Resume(e) \/ TurnEnds(e) \/ Reattach(e) \/ Orphaned(e)
  PROVE  Types'
<1>. USE ThreadNames DEF bounds, tables, threads
<1>1. CASE Resume(e)
  <2>. DEFINE x == Worker(e)
              c == checkpoint[Graph]
  <2>1. c \in Checkpoint /\ Graph \in {"planning", "run"} /\ x \in Thread
    BY DEF Types, GraphTypes, Graph
  <2>2. UNCHANGED <<tables, checkpoint, up, bounds>>  BY <1>1 DEF Resume
  <2>3. GraphTypes' /\ held' \in Thread \cup {None} /\ graphLock' \in Thread \cup {None}
    <3>1. CASE Leave(x)  BY <2>1, <2>2, <3>1, LeaveKeepsTypes
    <3>2. CASE /\ Enter(x, Graph, c, e) \/ Enter(x, Graph, c, None)
               /\ graphLock' = x /\ UNCHANGED <<seen, held, watched>>
      <4>1. PICK y \in Thread, d \in Checkpoint, g \in {"planning", "run"} :
              y = x /\ d = c /\ g = Graph
        BY <2>1
      <4>2. Enter(y, g, d, e) \/ Enter(y, g, d, None)  BY <3>2, <4>1 DEF Enter
      <4>3. checkpoint' \in [{"planning", "run"} -> Checkpoint] /\ seen' = seen /\ plan' = plan
        BY <2>2, <3>2 DEF Types, GraphTypes
      <4>4. GraphTypes'  BY <4>2, <4>3, EnterKeepsTypes
      <4>. QED  BY <3>2, <4>1, <4>4 DEF Types, BackendTypes
    <3>. QED  BY <1>1, <3>1, <3>2 DEF Resume
  <2>4. watched' \subseteq Execution  BY <1>1 DEF Resume, Watch, Types, BackendTypes
  <2>. QED
    BY <2>2, <2>3, <2>4
       DEF Types, PlanTypes, TaskTypes, AnswerTypes, StoreTypes, BackendTypes
<1>2. CASE TurnCompletes(e)
  <2>. DEFINE x == Worker(e)
  <2>1. UNCHANGED attempt /\ Delivers(e) /\ SetStep(e, "validating_output")
        /\ exec' = [exec EXCEPT ![e] = "completed"] /\ watched' = watched \ {e}
        /\ UNCHANGED <<taskStatus, plan, refused, store, bound, checkpoint, call, seen,
                       held, graphLock, up, bounds>>
    BY <1>2 DEF TurnCompletes
  <2>2. attempt' \in [Execution -> Nat]  BY <2>1 DEF Types, AnswerTypes
  <2>3. /\ answer' \in [Execution -> Answer] /\ offered' \in Plan
        /\ offered' \in Offers \cup {NoPlan}
    BY <2>1, <2>2, DeliversTypes
  <2>4. step' \in [Keys -> StepStatus] /\ planStatus' \in PlanStatus
    BY <2>1, SetStepTypes DEF StepStatus
  <2>5. GraphTypes'
    <3>1. PICK y \in Thread, place \in {"idle", "resume"} :
            y = x /\ GoTo(y, place)
      BY <1>2 DEF TurnCompletes, GoTo
    <3>2. UNCHANGED <<plan, checkpoint, call, seen>>  BY <2>1
    <3>. QED  BY <3>1, <3>2, GoToKeepsTypes DEF Place
  <2>6. PlanTypes'  BY <2>1, <2>3 DEF Types, PlanTypes
  <2>7. TaskTypes'  BY <2>1, <2>4 DEF Types, TaskTypes, ExecStatus
  <2>8. AnswerTypes' /\ StoreTypes'  BY <2>1, <2>2, <2>3 DEF Types, StoreTypes, AnswerTypes
  <2>. QED  BY <2>1, <2>5, <2>6, <2>7, <2>8 DEF Types, BackendTypes
<1>3. CASE FailTurn(e)
  <2>1. step' \in [Keys -> StepStatus] /\ planStatus' \in PlanStatus
    BY <1>3, SetStepTypes DEF FailTurn, StepStatus, StepEnds
  <2>2. TaskTypes'
    BY <1>3, <2>1 DEF FailTurn, Types, TaskTypes, ExecStatus, TaskStatus, Terminal
  <2>3. GraphTypes'  BY <1>3 DEF FailTurn, Types, GraphTypes
  <2>. QED
    BY <1>3, <2>2, <2>3
       DEF FailTurn, Types, PlanTypes, AnswerTypes, StoreTypes, BackendTypes
<1>4. CASE Reattach(e)
  <2>1. GraphTypes'  BY <1>4 DEF Reattach, Types, GraphTypes
  <2>. QED
    BY <1>4, <2>1
       DEF Reattach, Types, PlanTypes, TaskTypes, AnswerTypes, StoreTypes, BackendTypes
<1>. QED  BY <1>1, <1>2, <1>3, <1>4 DEF TurnEnds, TurnFails, Orphaned

\* Cancellation, task inputs and the backend.
LEMMA OutsideTypes ==
  ASSUME Types, CancelTask \/ Crash \/ Startup \/ \E c \in Contract : PublishInput(c)
  PROVE  Types'
<1>. USE DEF bounds, tables, threads
<1>1. CASE CancelTask
  <2>1. GraphTypes'  BY <1>1 DEF CancelTask, Types, GraphTypes
  <2>2. TaskTypes'
    BY <1>1 DEF CancelTask, Types, TaskTypes, ExecStatus, TaskStatus, Terminal, StepStatus,
                StepEnds, PlanStatus
  <2>. QED
    BY <1>1, <2>1, <2>2
       DEF CancelTask, Types, PlanTypes, AnswerTypes, StoreTypes, BackendTypes
<1>2. CASE Crash
  <2>1. NoCall \in CallType
    <3>1. NoCheckpoint \in Checkpoint
      BY ThreadNames, PlanFlowAssumption
         DEF NoCheckpoint, Checkpoint, Stage, Working, NoAnswer, Answer, Execution
    <3>. QED  BY <3>1 DEF NoCall, CallType, Stage
  <2>2. NothingSeen \in SeenType
    BY DEF NothingSeen, SeenType, TaskStatus, PlanStatus, StepStatus
  <2>3. GraphTypes'
    <3>1. call' \in [Thread -> CallType] /\ seen' \in [Thread -> SeenType]
          /\ pc' \in [Thread -> Place] /\ \A x \in Thread : pc'[x] = "idle"
      BY <1>2, <2>1, <2>2 DEF Crash, Place
    <3>. QED  BY <1>2, <3>1 DEF Crash, Types, GraphTypes
  <2>4. BackendTypes'
    <3>1. crashes' \in 0..MaxCrashes
      BY <1>2, PlanFlowAssumption DEF Crash, Types, BackendTypes
    <3>2. /\ held' = None /\ graphLock' = None /\ watched' = {} /\ up' = FALSE
          /\ calls' = calls /\ inputs' = inputs
      BY <1>2 DEF Crash
    <3>. QED  BY <3>1, <3>2 DEF Types, BackendTypes
  <2>. QED
    BY <1>2, <2>3, <2>4
       DEF Crash, Types, PlanTypes, TaskTypes, AnswerTypes, StoreTypes
<1>3. CASE Startup
  <2>1. GraphTypes'  BY <1>3 DEF Startup, Types, GraphTypes
  <2>. QED
    BY <1>3, <2>1
       DEF Startup, Types, PlanTypes, TaskTypes, AnswerTypes, StoreTypes, BackendTypes
<1>4. ASSUME NEW c \in Contract, PublishInput(c)  PROVE Types'
  <2>1. GraphTypes'  BY <1>4 DEF PublishInput, Types, GraphTypes
  <2>2. inputs' \in 0..MaxInputs  BY <1>4, PlanFlowAssumption DEF PublishInput, Types, BackendTypes
  <2>. DEFINE artifact == [by |-> None, turn |-> inputs']
  <2>3. artifact \in ArtifactType /\ store' = [store EXCEPT ![c] = Append(@, artifact)]
    BY <1>4, <2>2 DEF PublishInput, ArtifactType
  <2>. HIDE DEF artifact
  <2>4. StoreTypes'
    <3>1. store \in [Contract -> Seq(ArtifactType)]
          /\ bound \in [Keys -> [Contract -> Nat]] /\ bound' = bound
          /\ \A k \in Keys, d \in Contract : bound[k][d] \in 0..Len(store[d])
      BY <1>4 DEF PublishInput, Types, StoreTypes
    <3>2. Append(store[c], artifact) \in Seq(ArtifactType)
          /\ Len(Append(store[c], artifact)) = Len(store[c]) + 1
      BY <2>3, <3>1
    <3>3. store' \in [Contract -> Seq(ArtifactType)]  BY <2>3, <3>1, <3>2
    <3>4. ASSUME NEW k \in Keys, NEW d \in Contract  PROVE bound[k][d] \in 0..Len(store'[d])
      <4>1. Len(store[d]) \in Nat /\ bound[k][d] \in 0..Len(store[d])  BY <3>1
      <4>2. CASE d = c
        <5>1. Len(store'[d]) = Len(store[d]) + 1  BY <2>3, <3>1, <3>2, <4>2
        <5>. QED  BY <4>1, <5>1
      <4>3. CASE d # c
        <5>1. store'[d] = store[d]  BY <2>3, <3>1, <4>3
        <5>. QED  BY <4>1, <5>1
      <4>. QED  BY <4>2, <4>3
    <3>. QED  BY <3>1, <3>3, <3>4 DEF StoreTypes
  <2>. QED
    BY <1>4, <2>1, <2>2, <2>4
       DEF PublishInput, Types, PlanTypes, TaskTypes, AnswerTypes, BackendTypes
<1>. QED  BY <1>1, <1>2, <1>3, <1>4

\* The types at the start.
LEMMA TypesInit == PlanInit => Types
<1>. SUFFICES ASSUME PlanInit PROVE Types  OBVIOUS
<1>. USE ThreadNames, PlanFlowAssumption DEF PlanInit
<1>1. NoCheckpoint \in Checkpoint
  BY DEF NoCheckpoint, Checkpoint, Stage, Working, NoAnswer, Answer, Execution
<1>2. NoCall \in CallType  BY <1>1 DEF NoCall, CallType, Stage
<1>3. NothingSeen \in SeenType
  BY DEF NothingSeen, SeenType, TaskStatus, PlanStatus, StepStatus
<1>4. GraphTypes
  <2>1. checkpoint \in [{"planning", "run"} -> Checkpoint]  BY <1>1
  <2>2. call \in [Thread -> CallType] /\ seen \in [Thread -> SeenType]  BY <1>2, <1>3
  <2>3. pc \in [Thread -> Place] /\ \A x \in Thread : pc[x] = "idle"  BY DEF Place
  <2>. QED  BY <2>1, <2>2, <2>3 DEF GraphTypes
<1>5. PlanTypes  BY DEF PlanTypes, Plan, NoPlan
<1>6. TaskTypes  BY DEF TaskTypes, TaskStatus, PlanStatus, StepStatus, ExecStatus
<1>7. AnswerTypes /\ StoreTypes
  <2>1. NoAnswer \in Answer  BY DEF NoAnswer, Answer
  <2>2. Len(<<>>) = 0  OBVIOUS
  <2>. QED  BY <2>1, <2>2 DEF AnswerTypes, StoreTypes
<1>8. BackendTypes  BY DEF BackendTypes
<1>. QED  BY <1>4, <1>5, <1>6, <1>7, <1>8 DEF Types

LEMMA TypesNext == Types /\ [Next]_vars => Types'
<1>. SUFFICES ASSUME Types, [Next]_vars PROVE Types'  OBVIOUS
<1>1. CASE ClientCalls \/ ClientSteps  BY <1>1, ClientTypes, InvokeTypes DEF ClientSteps
<1>2. ASSUME NEW x \in Thread, GraphStep(x)  PROVE Types'
  BY <1>2, NodeTypes, PrepareTypes, ScheduleTypes, FinalizeTypes, GraphTypesKept
     DEF GraphStep, Prepares
<1>3. ASSUME NEW e \in Execution, Resume(e) \/ TurnEnds(e) \/ Reattach(e) \/ Orphaned(e)
      PROVE  Types'
  BY <1>3, TurnTypes
<1>4. CASE CancelTask \/ Crash \/ Startup \/ \E c \in Contract : PublishInput(c)
  BY <1>4, OutsideTypes
<1>5. CASE UNCHANGED vars
  BY <1>5 DEF vars, tables, threads, bounds, Types, PlanTypes, TaskTypes, AnswerTypes, StoreTypes,
              GraphTypes, BackendTypes
<1>. QED  BY <1>1, <1>2, <1>3, <1>4, <1>5 DEF Next

LEMMA TypesAlways == Spec => []Types
BY TypesInit, TypesNext, PTL DEF Spec

\* The tables, the checkpoints and the threads keep their types.
THEOREM PlanTypeCorrect == Spec => []PlanTypeOK
<1>1. Types => PlanTypeOK
  <2>. SUFFICES ASSUME Types PROVE PlanTypeOK  OBVIOUS
  <2>1. \A c \in Contract : store[c] \in Seq([by : Keys \cup {None}, turn : Nat])
    BY DEF Types, StoreTypes, ArtifactType
  <2>2. \A x \in Thread :
          /\ pc[x] \in Place /\ call[x].at \in Checkpoint
          /\ call[x].todo \subseteq Execution \cup {None} /\ seen[x].todo \subseteq Keys
    BY DEF Types, GraphTypes, CallType, SeenType
  <2>. QED
    BY <2>1, <2>2
       DEF PlanTypeOK, Types, PlanTypes, TaskTypes, AnswerTypes, StoreTypes, GraphTypes,
           BackendTypes
<1>. QED  BY <1>1, TypesAlways, PTL

-----------------------------------------------------------------------------
(* What is bound stays bound.                                              *)

\* Only the scheduler binds inputs.
LEMMA BoundByScheduler ==
  ASSUME Types, [Next]_vars
  PROVE  bound' = bound \/ \E x \in Thread : Schedule(x)
<1>. USE DEF tables, threads, vars
<1>1. CASE ClientCalls \/ ClientSteps
  BY <1>1 DEF ClientCalls, ClientSteps, CallPlan, CallStart, CallRetry, Planning, Running, Invoke
<1>2. ASSUME NEW x \in Thread, GraphStep(x), ~Schedule(x)  PROVE bound' = bound
  <2>1. ASSUME NEW e \in Execution, Node(x, e)  PROVE bound' = bound
    BY <2>1 DEF Node, NodeReturns, NodeParks, NodeRejected, SubmissionWaits, SubmissionCompletes,
                SubmissionFails, NodeFrame
  <2>2. CASE Finalizes(x)
    BY <2>2 DEF Finalizes, StartFinalize, FinalizeStep, EndWave, RefuseAnswer, RefuseFiles,
                BlockStep, CompleteReview, PublishDelivery, CompleteStep, FinalizeFrame, FailStep
  <2>. QED
    BY <1>2, <2>1, <2>2
       DEF GraphStep, Prepares, PrepareStep, PrepareWave, EndSuperstep, Returned, Finish, AdoptPlan,
           MarkPlanned, RefusePlan
<1>3. ASSUME NEW e \in Execution, Resume(e) \/ TurnEnds(e) \/ Reattach(e) \/ Orphaned(e)
      PROVE  bound' = bound
  BY <1>3 DEF Resume, TurnEnds, TurnCompletes, TurnFails, FailTurn, Reattach, Orphaned
<1>4. CASE CancelTask \/ Crash \/ Startup \/ \E c \in Contract : PublishInput(c)
  BY <1>4 DEF CancelTask, Crash, Startup, PublishInput
<1>5. CASE UNCHANGED vars  BY <1>5
<1>. QED  BY <1>1, <1>2, <1>3, <1>4, <1>5 DEF Next

\* What a commit of the scheduler does to the bindings.
LEMMA ScheduleBinds ==
  ASSUME Types, NEW x \in Thread, Schedule(x)
  PROVE  /\ UNCHANGED <<plan, store, answer, refused, attempt, offered>>
         /\ bound' = bound \/ \E n \in Keys \cap seen[x].todo : Bind(n)
<1>. DEFINE n == IF seen[x].todo = {} THEN None ELSE First(seen[x].todo)
<1>1. seen[x].todo \subseteq KeysOf(plan)  BY DEF Types, GraphTypes, Schedule
<1>2. n \in (Keys \cap seen[x].todo) \cup {None}  BY <1>1, PlanKeys, FirstIn
<1>3. bound' = bound \/ (n # None /\ Bind(n))  BY DEF Schedule, tables
<1>4. UNCHANGED <<plan, store, answer, refused, attempt, offered>>  BY DEF Schedule, tables
<1>. HIDE DEF n
<1>. QED  BY <1>2, <1>3, <1>4

\* An input that was materialized for a step is never replaced, for any plans and
\* whatever calls overlap (InputsFrozen).
THEOREM PlanInputsFrozen == Spec => InputsFrozen
<1>1. Types /\ [Next]_vars =>
        \A k \in Keys, c \in Contract : bound[k][c] # 0 => bound'[k][c] = bound[k][c]
  <2>. SUFFICES ASSUME Types, [Next]_vars, NEW k \in Keys, NEW c \in Contract, bound[k][c] # 0
                PROVE  bound'[k][c] = bound[k][c]
    OBVIOUS
  <2>1. CASE bound' = bound  BY <2>1
  <2>2. ASSUME NEW x \in Thread, Schedule(x)  PROVE bound'[k][c] = bound[k][c]
    <3>1. ASSUME NEW n \in Keys, Bind(n), store' = store  PROVE bound'[k][c] = bound[k][c]
      BY <3>1, BindEffect
    <3>. QED  BY <2>2, <3>1, ScheduleBinds
  <2>. QED  BY <2>1, <2>2, BoundByScheduler
<1>. QED  BY <1>1, TypesAlways, PTL DEF Spec, InputsFrozen

-----------------------------------------------------------------------------
(* One release per delivery.                                               *)

\* The versions a user published are numbered.
Numbered ==
  \A c \in Contract : \A i \in DOMAIN store[c] :
    store[c][i].by = None => store[c][i].turn <= inputs

\* Only the steps of the artifacts change the store.
LEMMA StoreSteps ==
  ASSUME Types, [Next]_vars
  PROVE  \/ store' = store
         \/ \E x \in Thread : PublishDelivery(x)
         \/ \E c \in Contract : PublishInput(c)
<1>. USE DEF tables, threads, vars
<1>1. CASE ClientCalls \/ ClientSteps
  BY <1>1 DEF ClientCalls, ClientSteps, CallPlan, CallStart, CallRetry, Planning, Running, Invoke
<1>2. ASSUME NEW x \in Thread, GraphStep(x), ~PublishDelivery(x)  PROVE store' = store
  <2>1. ASSUME NEW e \in Execution, Node(x, e)  PROVE store' = store
    BY <2>1 DEF Node, NodeReturns, NodeParks, NodeRejected, SubmissionWaits, SubmissionCompletes,
                SubmissionFails, NodeFrame
  <2>2. CASE Finalizes(x)
    BY <1>2, <2>2 DEF Finalizes, StartFinalize, FinalizeStep, EndWave, RefuseAnswer, RefuseFiles,
                BlockStep, CompleteReview, CompleteStep, FinalizeFrame, FailStep
  <2>3. CASE Schedule(x)  BY <2>3, ScheduleBinds
  <2>. QED
    BY <1>2, <2>1, <2>2, <2>3
       DEF GraphStep, Prepares, PrepareStep, PrepareWave, EndSuperstep, Returned, Finish, AdoptPlan,
           MarkPlanned, RefusePlan
<1>3. ASSUME NEW e \in Execution, Resume(e) \/ TurnEnds(e) \/ Reattach(e) \/ Orphaned(e)
      PROVE  store' = store
  BY <1>3 DEF Resume, TurnEnds, TurnCompletes, TurnFails, FailTurn, Reattach, Orphaned
<1>4. CASE CancelTask \/ Crash \/ Startup
  BY <1>4 DEF CancelTask, Crash, Startup
<1>5. CASE UNCHANGED vars  BY <1>5
<1>. QED  BY <1>1, <1>2, <1>3, <1>4, <1>5 DEF Next

\* Releases under a Turn, and how inputs are counted.
LEMMA InputsGrow ==
  ASSUME Types, [Next]_vars
  PROVE  inputs' = inputs \/ \E c \in Contract : PublishInput(c)
<1>. USE DEF tables, threads, vars, bounds
<1>1. CASE ClientCalls \/ ClientSteps
  BY <1>1 DEF ClientCalls, ClientSteps, CallPlan, CallStart, CallRetry, Planning, Running, Invoke
<1>2. ASSUME NEW x \in Thread, GraphStep(x)  PROVE inputs' = inputs
  <2>1. ASSUME NEW e \in Execution, Node(x, e)  PROVE inputs' = inputs
    BY <2>1 DEF Node, NodeReturns, NodeParks, NodeRejected, SubmissionWaits, SubmissionCompletes,
                SubmissionFails, NodeFrame
  <2>2. CASE Finalizes(x)  BY <2>2, FinalizeThreads DEF SchedulerFrame
  <2>. QED
    BY <1>2, <2>1, <2>2
       DEF GraphStep, Prepares, PrepareStep, PrepareWave, Schedule, SchedulerFrame, EndSuperstep,
           Returned, Finish, AdoptPlan, MarkPlanned, RefusePlan
<1>3. ASSUME NEW e \in Execution, Resume(e) \/ TurnEnds(e) \/ Reattach(e) \/ Orphaned(e)
      PROVE  inputs' = inputs
  BY <1>3 DEF Resume, TurnEnds, TurnCompletes, TurnFails, FailTurn, Reattach, Orphaned
<1>4. CASE CancelTask \/ Crash \/ Startup
  BY <1>4 DEF CancelTask, Crash, Startup
<1>5. CASE UNCHANGED vars  BY <1>5
<1>. QED  BY <1>1, <1>2, <1>3, <1>4, <1>5 DEF Next

\* A sequence without repetitions grows by something new.
LEMMA AppendNew ==
  ASSUME NEW V, NEW q \in Seq(V), NEW v \in V, \A i \in DOMAIN q : q[i] # v,
         \A i, j \in DOMAIN q : i # j => q[i] # q[j]
  PROVE  \A i, j \in DOMAIN Append(q, v) : i # j => Append(q, v)[i] # Append(q, v)[j]
<1>1. DOMAIN Append(q, v) = 1..(Len(q) + 1) /\ DOMAIN q = 1..Len(q) /\ Len(q) \in Nat
  OBVIOUS
<1>2. \A i \in 1..(Len(q) + 1) : Append(q, v)[i] = IF i = Len(q) + 1 THEN v ELSE q[i]
  OBVIOUS
<1>3. \A i \in 1..(Len(q) + 1) : i = Len(q) + 1 \/ i \in 1..Len(q)  BY <1>1
<1>. QED  BY <1>1, <1>2, <1>3

\* A step that is finalized is in the plan; its publications are by the step.
LEMMA DeliveryPublished ==
  ASSUME Types, NEW x \in Thread, PublishDelivery(x)
  PROVE  \E k \in Keys : store' = Released(k) /\ inputs' = inputs
                         /\ k = First(seen[x].todo) /\ k \in KeysOf(plan)
<1>1. Finalizes(x) /\ pc[x] = "complete"  BY DEF Finalizes, PublishDelivery, Finalizing
<1>2. First(seen[x].todo) \in KeysOf(plan)  BY <1>1, FinalizeThreads
<1>. QED
  BY <1>2, PlanKeys DEF PublishDelivery, FinalizeFrame, SchedulerFrame, bounds

\* What a release adds: at most one version of each contract, a new one.
LEMMA ReleaseEffect ==
  ASSUME Types, NEW k \in Keys, store' = Released(k)
  PROVE  \A c \in Contract :
           \/ store'[c] = store[c]
           \/ /\ store'[c] = Append(store[c], [by |-> k, turn |-> attempt[k]])
              /\ \A i \in DOMAIN store[c] : store[c][i] # [by |-> k, turn |-> attempt[k]]
              /\ c \in StepAt(plan, k).outputs
BY DEF Released

THEOREM PlanReleasedOnce == Spec => []ReleasedOnce
<1>. DEFINE Inv == ReleasedOnce /\ Numbered
<1>1. PlanInit => Inv
  <2>. SUFFICES ASSUME PlanInit PROVE Inv  OBVIOUS
  <2>1. \A c \in Contract : store[c] = <<>> /\ DOMAIN store[c] = {}  BY DEF PlanInit
  <2>. QED  BY <2>1 DEF ReleasedOnce, Numbered
<1>2. Types /\ Inv /\ [Next]_vars => Inv'
  <2>. SUFFICES ASSUME Types, Inv, [Next]_vars  PROVE Inv'  OBVIOUS
  <2>0. store \in [Contract -> Seq(ArtifactType)] /\ inputs \in Nat
    BY PlanFlowAssumption DEF Types, StoreTypes, BackendTypes
  <2>1. CASE \E c \in Contract : PublishInput(c)
    <3>1. PICK c \in Contract : PublishInput(c)  BY <2>1
    <3>. DEFINE artifact == [by |-> None, turn |-> inputs']
    <3>2. inputs' = inputs + 1 /\ store' = [store EXCEPT ![c] = Append(@, artifact)]
      BY <3>1 DEF PublishInput
    <3>3. artifact \in ArtifactType /\ artifact.turn = inputs + 1
      BY <2>0, <3>2 DEF ArtifactType
    <3>4. \A i \in DOMAIN store[c] : store[c][i] # artifact
      <4>. SUFFICES ASSUME NEW i \in DOMAIN store[c], store[c][i] = artifact  PROVE FALSE
        OBVIOUS
      <4>1. store[c][i].by = None /\ store[c][i].turn = inputs + 1  BY <3>3
      <4>2. store[c][i].turn <= inputs  BY <4>1 DEF Numbered
      <4>. QED  BY <2>0, <4>1, <4>2
    <3>. HIDE DEF artifact
    <3>5. store'[c] = Append(store[c], artifact) /\ \A d \in Contract \ {c} : store'[d] = store[d]
      BY <2>0, <3>2
    <3>6. ReleasedOnce'
      <4>1. store[c] \in Seq(ArtifactType) /\ \A i, j \in DOMAIN store[c] :
              i # j => store[c][i] # store[c][j]
        BY <2>0 DEF ReleasedOnce
      <4>2. \A i, j \in DOMAIN store'[c] : i # j => store'[c][i] # store'[c][j]
        BY <3>3, <3>4, <3>5, <4>1, AppendNew
      <4>3. ASSUME NEW d \in Contract \ {c}
            PROVE  \A i, j \in DOMAIN store'[d] : i # j => store'[d][i] # store'[d][j]
        BY <3>5 DEF ReleasedOnce
      <4>. QED  BY <4>2, <4>3 DEF ReleasedOnce
    <3>7. Numbered'
      <4>1. ASSUME NEW d \in Contract, NEW i \in DOMAIN store'[d], store'[d][i].by = None
            PROVE  store'[d][i].turn <= inputs'
        <5>1. store[d] \in Seq(ArtifactType)  BY <2>0
        <5>2. CASE d = c
          <6>1. i = Len(store[c]) + 1 \/ i \in DOMAIN store[c]  BY <3>3, <3>5, <5>1, <5>2
          <6>2. CASE i = Len(store[c]) + 1
            <7>1. store'[c][i] = artifact  BY <3>3, <3>5, <5>1, <5>2, <6>2
            <7>. QED  BY <2>0, <3>2, <3>3, <5>2, <7>1
          <6>3. CASE i \in DOMAIN store[c]
            <7>1. store'[c][i] = store[c][i]  BY <3>3, <3>5, <5>1, <5>2, <6>3
            <7>2. store[c][i] \in ArtifactType  BY <5>1, <5>2, <6>3
            <7>3. store[c][i].turn <= inputs /\ store[c][i].turn \in Nat
              BY <4>1, <5>2, <6>3, <7>1, <7>2 DEF Numbered, ArtifactType
            <7>. QED  BY <2>0, <3>2, <5>2, <7>1, <7>3
          <6>. QED  BY <6>1, <6>2, <6>3
        <5>3. CASE d # c
          <6>1. store'[d] = store[d]  BY <3>5, <5>3
          <6>2. store[d][i] \in ArtifactType  BY <5>1, <6>1
          <6>3. store[d][i].turn <= inputs /\ store[d][i].turn \in Nat
            BY <4>1, <6>1, <6>2 DEF Numbered, ArtifactType
          <6>. QED  BY <2>0, <3>2, <6>1, <6>3
        <5>. QED  BY <5>2, <5>3
      <4>. QED  BY <4>1 DEF Numbered
    <3>. QED  BY <3>6, <3>7
  <2>2. CASE \E x \in Thread : PublishDelivery(x)
    <3>1. PICK k \in Keys : store' = Released(k) /\ inputs' = inputs
      BY <2>2, DeliveryPublished
    <3>. DEFINE artifact == [by |-> k, turn |-> attempt[k]]
    <3>2. artifact \in ArtifactType /\ artifact.by # None
      BY PlanFlowAssumption DEF ArtifactType, Types, AnswerTypes, Execution
    <3>3. \A c \in Contract :
            \/ store'[c] = store[c]
            \/ /\ store'[c] = Append(store[c], artifact)
               /\ \A i \in DOMAIN store[c] : store[c][i] # artifact
      BY <3>1, ReleaseEffect
    <3>. HIDE DEF artifact
    <3>4. ASSUME NEW c \in Contract
          PROVE  /\ \A i, j \in DOMAIN store'[c] : i # j => store'[c][i] # store'[c][j]
                 /\ \A i \in DOMAIN store'[c] :
                      store'[c][i].by = None => store'[c][i].turn <= inputs
      <4>1. store[c] \in Seq(ArtifactType)
            /\ (\A i, j \in DOMAIN store[c] : i # j => store[c][i] # store[c][j])
            /\ \A i \in DOMAIN store[c] :
                 store[c][i].by = None => store[c][i].turn <= inputs
        BY <2>0 DEF ReleasedOnce, Numbered
      <4>2. CASE store'[c] = store[c]  BY <4>1, <4>2
      <4>3. CASE /\ store'[c] = Append(store[c], artifact)
                 /\ \A i \in DOMAIN store[c] : store[c][i] # artifact
        <5>1. \A i, j \in DOMAIN store'[c] : i # j => store'[c][i] # store'[c][j]
          BY <3>2, <4>1, <4>3, AppendNew
        <5>2. ASSUME NEW i \in DOMAIN store'[c], store'[c][i].by = None
              PROVE  store'[c][i].turn <= inputs
          <6>1. i = Len(store[c]) + 1 \/ i \in DOMAIN store[c]  BY <3>2, <4>1, <4>3
          <6>2. i # Len(store[c]) + 1  BY <3>2, <4>1, <4>3, <5>2
          <6>3. store'[c][i] = store[c][i]  BY <3>2, <4>1, <4>3, <6>1, <6>2
          <6>. QED  BY <4>1, <5>2, <6>1, <6>2, <6>3
        <5>. QED  BY <5>1, <5>2
      <4>. QED  BY <3>3, <4>2, <4>3
    <3>. QED  BY <3>1, <3>4 DEF ReleasedOnce, Numbered
  <2>3. CASE store' = store /\ inputs' = inputs  BY <2>3 DEF ReleasedOnce, Numbered
  <2>. QED  BY <2>1, <2>2, <2>3, StoreSteps, InputsGrow, DeliveryPublished
<1>. QED  BY <1>1, <1>2, TypesAlways, PTL DEF Spec

-----------------------------------------------------------------------------
(* Who runs, when no client calls while a Turn or a thread is busy.        *)

InsidePlace == {"invoke", "nodes", "schedule", "finalize", "complete", "returned",
                "planned", "mark", "finish"}

\* The thread runs a graph or handles its result.
Inside(x) == pc[x] \in InsidePlace

\* A worker runs a graph under _graph_resume_lock, and never beside the client.
Serial ==
  /\ \A e \in Execution :
       /\ Inside(Worker(e)) => graphLock = Worker(e)
       /\ pc[Worker(e)] \notin {"plan", "run", "invoke"}
  /\ graphLock # None => \E e \in Execution : graphLock = Worker(e) /\ Inside(Worker(e))
  /\ pc[Api] # "resume"
  /\ pc[Api] # "idle" =>
       up /\ watched = {} /\ \A e \in Execution : pc[Worker(e)] = "idle"
  /\ pc[Api] \in {"idle", "plan", "run"} => held # Api

-----------------------------------------------------------------------------
(* The tables.                                                             *)

Verdict == {"accepted", "needs_revision"}

\* A delivery that can complete its step.
Good == Verdict \cup {"valid"}

Begun == {k \in Keys : exec[k] # "absent"}

BegunPlanned == Begun \subseteq KeysOf(plan)
DoneWell == \A k \in Done : exec[k] = "completed" /\ k \notin refused
RefusedEnded == \A k \in refused \cap Keys : k \in Begun /\ step[k] \in {"blocked", "failed"}

AnswersFit == \A k \in Keys : answer[k].says \in Good =>
  /\ exec[k] = "completed" /\ k \notin refused
  /\ answer[k].says \in Verdict => k = Review

OrderKept == \A k \in Begun :
  /\ DepsOf(plan, k) \subseteq Done
  /\ k = Review => SpecialistKeys(plan) \subseteq Done
  /\ \A c \in InputsOf(k) : bound[k][c] # 0

\* Where the version of an input that a step is bound to comes from.
Sourced(k, c, i) ==
  LET bytes == store[c][i] IN
  \/ bytes.by = None /\ c \in plan.initial
  \/ bytes.by \in Ancestors(plan)[k] \cap Done

BoundWell == \A k \in KeysOf(plan) : \A c \in InputsOf(k) :
  bound[k][c] # 0 => Sourced(k, c, bound[k][c])

Unbound == plan = NoPlan => \A k \in Keys, c \in Contract : bound[k][c] = 0

Accepted ==
  plan # NoPlan /\ Review \in Done /\ answer[Review].says = "accepted"

Judged == Accepted => planStatus = "completed"

TableInv ==
  /\ BegunPlanned /\ DoneWell /\ RefusedEnded /\ AnswersFit
  /\ OrderKept /\ BoundWell /\ Unbound /\ Judged

\* What the status of the task promises.
Ended ==
  /\ taskStatus = "completed" => Accepted /\ \A x \in Thread : ~Inside(x)
  /\ taskStatus = "cancelled" => \A e \in Execution : exec[e] # "waiting"

-----------------------------------------------------------------------------
(* The checkpoints.                                                        *)

Scheduled == {"finalize", "wave_finalize"}
GraphOf(e) == IF e = Planner THEN "planning" ELSE "run"

\* The nodes whose result is in the checkpoint.
Reported(c) == IF c.stage \in Working THEN c.done
               ELSE IF c.stage \in Scheduled THEN c.work ELSE {}

\* What the graph will complete a step with is what its Turn delivered.
ResultsFit(c) == \A k \in Reported(c) :
  c.results[k].says \in Good \/ answer[k].says \in Good => c.results[k] = answer[k]

RunFits(c) ==
  /\ c.stage # "none" => plan # NoPlan
  /\ c.done \subseteq c.work /\ c.work \subseteq KeysOf(plan)
  /\ c.stage = "wave_prepare" => Parallel
  /\ c.stage \in Working \cup Scheduled => c.work \subseteq Begun
  /\ c.stage \in Working => refused \cap (c.work \ c.done) = {}
  /\ c.stage \notin Working => c.parked = {}
  /\ ResultsFit(c)
  /\ c.review = "accepted" => Accepted

PlanningFits(c) ==
  /\ c.stage \in {"none", "execute", "end"} /\ c.work \subseteq {Planner}
  /\ c.review = None
  /\ c.stage # "execute" => c.parked = {}
  /\ plan # NoPlan => c.stage = "end"

\* A Turn that runs belongs to a node its graph is not done with.
WaitingFits == \A e \in Execution : exec[e] = "waiting" =>
  /\ checkpoint[GraphOf(e)].stage \in Working
  /\ e \in checkpoint[GraphOf(e)].work \ checkpoint[GraphOf(e)].done

CheckInv == RunFits(checkpoint["run"]) /\ PlanningFits(checkpoint["planning"]) /\ WaitingFits

-----------------------------------------------------------------------------
(* The thread in the graph.                                                *)

InGraph(x) == Inside(x) /\ pc[x] \notin {"invoke", "mark"}

Sync(x) == SameAt(checkpoint[call[x].graph], call[x].at)

GraphCall(x) ==
  /\ call[x].graph = "planning" =>
       /\ plan = NoPlan /\ PlanningFits(call[x].at) /\ call[x].next = "end"
       /\ pc[x] \in {"nodes", "returned", "planned"}
  /\ call[x].graph = "run" =>
       /\ plan # NoPlan /\ pc[x] # "planned"
       /\ call[x].at.review = "accepted" => Accepted

\* The thread runs nodes of _execute_assignment.
WorkingCall(x) ==
  LET at == call[x].at IN
  /\ at.work = checkpoint[call[x].graph].work
  /\ call[x].todo \subseteq at.work \ at.done
  /\ call[x].raised \/ at.work \ at.done \subseteq call[x].todo \cup at.parked
  /\ call[x].graph = "run" => call[x].next \in Scheduled

\* It runs a node of the scheduler, or has run it.
SchedulerCall(x) ==
  LET at == call[x].at IN
  /\ call[x].graph = "run"
  /\ call[x].todo \in {{}, {None}}
  /\ call[x].raised => call[x].todo = {}
  /\ at.work \subseteq KeysOf(plan)
  /\ call[x].todo = {} /\ ~call[x].raised =>
       /\ call[x].next \in {"prepare", "end"} \cup Working
       /\ call[x].next \in Working => at.work \subseteq Begun /\ refused \cap at.work = {}
  /\ at.stage \in Scheduled => at.work = checkpoint["run"].work

NodesCall(x) == pc[x] = "nodes" =>
  /\ call[x].at.stage \notin {"none", "end"}
  /\ IF call[x].at.stage \in Working THEN WorkingCall(x) ELSE SchedulerCall(x)

\* The steps that Schedule still has to place.
Unplaced(s) == s.todo \cup ({s.pending} \ {None})

ScheduleCall(x) == pc[x] = "schedule" =>
  LET at == call[x].at
      s == seen[x] IN
  /\ at.stage \in {"prepare", "wave_prepare"}
  /\ call[x].todo = {None} /\ ~call[x].raised
  /\ Unplaced(s) # {} /\ Unplaced(s) \subseteq at.work /\ at.work \subseteq KeysOf(plan)
  /\ refused \cap at.work = {}
  /\ at.work \ Unplaced(s) \subseteq Begun /\ Unplaced(s) \cap Begun = {}
  /\ s.pending \notin s.todo
  /\ \A k \in Unplaced(s) : DepsOf(plan, k) \subseteq Done
  /\ \A k \in Keys : s.step[k] = "completed" => k \in Done
  /\ s.pending # None => \A c \in InputsOf(s.pending) : bound[s.pending][c] # 0

FinalizeCall(x) == pc[x] \in {"finalize", "complete"} =>
  LET at == call[x].at
      s == seen[x] IN
  /\ at.stage \in Scheduled /\ at.work = checkpoint["run"].work
  /\ call[x].todo = {None} /\ ~call[x].raised
  /\ s.todo \subseteq at.work
  /\ pc[x] = "finalize" => s.pending = None
  /\ pc[x] = "complete" =>
       /\ First(s.todo) \notin Done
       /\ s.step[First(s.todo)] \in {"blocked", "failed"} =>
            step[First(s.todo)] = s.step[First(s.todo)]
       /\ s.pending \in {None, First(s.todo)}
       /\ s.pending # None => at.results[s.pending].says = "valid"

CallInv(x) ==
  /\ Sync(x) /\ GraphCall(x) /\ NodesCall(x) /\ ScheduleCall(x) /\ FinalizeCall(x)
  /\ pc[x] \in {"planned", "finish"} => call[x].at.stage = "end"

ApiInv ==
  /\ pc[Api] = "run" => plan # NoPlan
  /\ pc[Api] = "invoke" => (held = Api <=> plan = NoPlan)

ThreadInv == ApiInv /\ \A x \in Thread : InGraph(x) => CallInv(x)

PlanInv == Serial /\ TableInv /\ Ended /\ CheckInv /\ ThreadInv

-----------------------------------------------------------------------------
(* One thread at a time.                                                   *)

\* Two threads are never in a graph together.
LEMMA OneInside ==
  ASSUME Serial, NEW x \in Thread, NEW y \in Thread, Inside(x), Inside(y)
  PROVE  x = y
<1>1. ASSUME NEW e \in Execution, Inside(Worker(e))  PROVE ~Inside(Api)
  BY <1>1 DEF Serial, Inside, InsidePlace
<1>2. ASSUME NEW e \in Execution, NEW f \in Execution, Inside(Worker(e)), Inside(Worker(f))
      PROVE  Worker(e) = Worker(f)
  BY <1>2 DEF Serial
<1>. QED  BY <1>1, <1>2, ThreadNames

\* A thread in a graph stays there, or leaves; nobody else moves.
Stays(x) ==
  /\ pc'[x] \in InsidePlace \ {"invoke"} /\ graphLock' = graphLock /\ held' \in {held, x}
  /\ watched' = watched

Moves(x) ==
  /\ Inside(x) /\ up' = up /\ \A y \in Thread \ {x} : pc'[y] = pc[y]
  /\ \/ Stays(x)
     \/ /\ pc'[x] = "idle" /\ held' # x /\ graphLock' # x
        /\ held' \in {held, None} /\ graphLock' \in {graphLock, None}
        /\ (held # x => held' = held) /\ (graphLock # x => graphLock' = graphLock)

LEMMA LeavingMoves ==
  ASSUME Types, NEW x \in Thread, Inside(x), Leave(x), up' = up
  PROVE  Moves(x)
BY LeaveEffect DEF Moves

LEMMA GraphMoves ==
  ASSUME Types, NEW x \in Thread, GraphStep(x)
  PROVE  Moves(x)
<1>. USE DEF Inside, InsidePlace
<1>0. pc \in [Thread -> Place]  BY DEF Types, GraphTypes
<1>1. ASSUME NEW e \in Execution, Node(x, e)  PROVE Moves(x)
  <2>1. RunsNode(x, e) /\ NodeFrame
    BY <1>1 DEF Node, NodeReturns, NodeParks, NodeRejected, Submits, SubmissionWaits,
           SubmissionCompletes, SubmissionFails
  <2>2. pc' = pc  BY <1>1, NodeTypes DEF NodeSteps
  <2>. QED  BY <2>1, <2>2 DEF Moves, Stays, RunsNode, NodeFrame
<1>2. CASE PrepareStep(x) \/ PrepareWave(x) \/ Schedule(x)
  <2>1. (pc[x] = "nodes" \/ pc[x] = "schedule") /\ SchedulerFrame
    BY <1>2 DEF PrepareStep, PrepareWave, Schedule, RunsScheduler
  <2>2. \/ pc' = [pc EXCEPT ![x] = "nodes"] \/ pc' = [pc EXCEPT ![x] = "schedule"]
        \/ pc' = pc
    BY <1>2 DEF PrepareStep, PrepareWave, Schedule, SchedulerDone, SchedulerRaises, GoTo
  <2>. QED  BY <1>0, <2>1, <2>2 DEF Moves, Stays, SchedulerFrame
<1>3. CASE Finalizes(x)
  <2>1. SchedulerFrame  BY <1>3, FinalizeThreads
  <2>2. pc[x] \in {"nodes", "finalize", "complete"}
    BY <1>3 DEF Finalizes, StartFinalize, RunsScheduler, FinalizeStep, EndWave, RefuseAnswer,
                RefuseFiles, BlockStep, CompleteReview, PublishDelivery, CompleteStep, Finalizing
  <2>3. \/ pc' = [pc EXCEPT ![x] = "nodes"] \/ pc' = [pc EXCEPT ![x] = "finalize"]
        \/ pc' = [pc EXCEPT ![x] = "complete"] \/ pc' = pc
    BY <1>3 DEF Finalizes, StartFinalize, FinalizeStep, EndWave, RefuseAnswer, RefuseFiles,
                BlockStep, CompleteReview, PublishDelivery, CompleteStep, Leaves, Refuses,
                SchedulerDone, SchedulerRaises, GoTo
  <2>. QED  BY <1>0, <2>1, <2>2, <2>3 DEF Moves, Stays, SchedulerFrame
<1>4. CASE EndSuperstep(x)
  <2>1. Inside(x) /\ up' = up /\ watched' = watched  BY <1>4 DEF EndSuperstep
  <2>2. CASE Leave(x)  BY <2>1, <2>2, LeavingMoves
  <2>3. CASE /\ \/ pc' = [pc EXCEPT ![x] = "returned"]
                \/ pc' = [pc EXCEPT ![x] = "nodes"]
             /\ UNCHANGED <<held, graphLock>>
    BY <1>0, <2>1, <2>3 DEF Moves, Stays
  <2>. QED  BY <1>4, <2>2, <2>3 DEF EndSuperstep, Enter, GoTo
<1>5. CASE Returned(x)
  <2>1. Inside(x) /\ up' = up  BY <1>5 DEF Returned
  <2>2. CASE Leave(x)  BY <2>1, <2>2, LeavingMoves
  <2>3. CASE /\ \/ pc' = [pc EXCEPT ![x] = "planned"]
                \/ pc' = [pc EXCEPT ![x] = "finish"]
             /\ UNCHANGED <<held, graphLock, watched>>
    BY <1>0, <2>1, <2>3 DEF Moves, Stays
  <2>. QED  BY <1>5, <2>2, <2>3 DEF Returned, GoTo
<1>6. CASE AdoptPlan(x)
  <2>1. Inside(x) /\ up' = up /\ UNCHANGED <<graphLock, watched>> /\ held' = x
        /\ pc' = [pc EXCEPT ![x] = "mark"]
    BY <1>6 DEF AdoptPlan, GoTo
  <2>. QED  BY <1>0, <2>1 DEF Moves, Stays
<1>7. CASE Finish(x) \/ MarkPlanned(x) \/ RefusePlan(x)
  <2>1. Inside(x) /\ up' = up /\ Leave(x)  BY <1>7 DEF Finish, MarkPlanned, RefusePlan
  <2>. QED  BY <2>1, LeavingMoves
<1>. QED  BY <1>1, <1>2, <1>3, <1>4, <1>5, <1>6, <1>7 DEF GraphStep, Prepares

\* A step of a graph keeps the threads apart.
LEMMA MovesSerial ==
  ASSUME Types, Serial, NEW x \in Thread, Moves(x)
  PROVE  Serial'
<1>. USE DEF Inside, InsidePlace
<1>1. CASE x = Api
  <2>1. /\ up /\ watched = {} /\ graphLock # Api
        /\ \A e \in Execution : pc[Worker(e)] = "idle" /\ pc'[Worker(e)] = "idle"
    <3>1. pc[Api] # "idle"  BY <1>1 DEF Moves
    <3>. QED  BY <1>1, <3>1, ThreadNames DEF Moves, Serial
  <2>2. graphLock = None  BY <2>1 DEF Serial
  <2>3. graphLock' = None  BY <1>1, <2>1, <2>2 DEF Moves, Stays
  <2>4. CASE pc'[Api] = "idle" /\ held' # Api
    BY <2>1, <2>3, <2>4 DEF Serial
  <2>5. CASE Stays(x)
    BY <1>1, <2>1, <2>3, <2>5 DEF Serial, Stays, Moves
  <2>. QED  BY <1>1, <2>4, <2>5 DEF Moves
<1>2. CASE x # Api
  <2>1. PICK e \in Execution : x = Worker(e)  BY <1>2, ThreadNames
  <2>2. pc[Api] = "idle" /\ pc'[Api] = "idle" /\ graphLock = x
    BY <2>1, ThreadNames DEF Moves, Serial
  <2>3. \A f \in Execution \ {e} : ~Inside(Worker(f)) /\ pc'[Worker(f)] = pc[Worker(f)]
    BY <2>1, <2>2, ThreadNames DEF Moves, Serial
  <2>4. held' # Api
    BY <1>2, <2>1, <2>2, ThreadNames DEF Moves, Stays, Serial
  <2>5. CASE Stays(x)
    <3>1. graphLock' = Worker(e) /\ pc'[Worker(e)] \in InsidePlace \ {"invoke"}
      BY <2>1, <2>2, <2>5 DEF Stays
    <3>. QED  BY <2>1, <2>2, <2>3, <2>4, <3>1 DEF Serial
  <2>6. CASE pc'[x] = "idle" /\ graphLock' = None
    BY <2>1, <2>2, <2>3, <2>4, <2>6 DEF Serial
  <2>7. graphLock' # x => graphLock' = None \/ Stays(x)
    BY <2>2 DEF Moves
  <2>. QED  BY <2>2, <2>5, <2>6, <2>7 DEF Moves
<1>. QED  BY <1>1, <1>2

\* Every step keeps the threads apart.
LEMMA SerialNext ==
  ASSUME Types, Serial, ~Overlapping, [Next]_vars
  PROVE  Serial'
<1>. USE DEF Inside, InsidePlace, tables, threads, bounds
<1>0. pc \in [Thread -> Place]  BY DEF Types, GraphTypes
<1>1. CASE ClientCalls
  <2>1. Quiet /\ up /\ UNCHANGED <<held, graphLock, watched, up>>
        /\ (GoTo(Api, "plan") \/ GoTo(Api, "run"))
    BY <1>1 DEF ClientCalls, CallPlan, CallStart, CallRetry, Calls
  <2>2. graphLock = None  BY <2>1, ThreadNames DEF Serial, Quiet
  <2>3. /\ pc'[Api] \in {"plan", "run"}
        /\ \A e \in Execution : pc'[Worker(e)] = "idle"
    BY <1>0, <2>1, ThreadNames DEF GoTo, Quiet
  <2>4. held # Api  BY <2>1, ThreadNames DEF Quiet, Serial
  <2>. QED  BY <2>1, <2>2, <2>3, <2>4 DEF Serial, Quiet
<1>2. CASE ClientSteps
  <2>1. pc[Api] \in {"plan", "run", "invoke"} /\ up' = up
    BY <1>2 DEF ClientSteps, Planning, Running, Invoke
  <2>2. /\ up /\ watched = {} /\ \A e \in Execution : pc[Worker(e)] = "idle"
    BY <2>1 DEF Serial
  <2>3. graphLock = None  BY <2>2 DEF Serial
  <2>4. \/ Leave(Api) /\ held' # Api
        \/ /\ \/ pc' = [pc EXCEPT ![Api] = "invoke"]
              \/ pc' = [pc EXCEPT ![Api] = "nodes"]
              \/ pc' = [pc EXCEPT ![Api] = "returned"]
           /\ UNCHANGED <<graphLock, watched>>
    <3>1. Leave(Api) => held' # Api  BY ThreadNames, LeaveEffect
    <3>. QED  BY <1>2, <3>1 DEF ClientSteps, Planning, Running, Invoke, Enter, GoTo
  <2>5. CASE Leave(Api) /\ held' # Api
    <3>1. pc'[Api] = "idle" /\ graphLock' = None
          /\ \A e \in Execution : pc'[Worker(e)] = "idle"
      BY <2>2, <2>3, <2>5, ThreadNames, LeaveEffect
    <3>. QED  BY <2>5, <3>1 DEF Serial
  <2>6. CASE /\ \/ pc' = [pc EXCEPT ![Api] = "invoke"]
                \/ pc' = [pc EXCEPT ![Api] = "nodes"]
                \/ pc' = [pc EXCEPT ![Api] = "returned"]
             /\ UNCHANGED <<graphLock, watched>>
    <3>1. /\ pc'[Api] \in {"invoke", "nodes", "returned"}
          /\ \A e \in Execution : pc'[Worker(e)] = "idle"
      BY <1>0, <2>2, <2>6, ThreadNames
    <3>. QED  BY <2>1, <2>2, <2>3, <2>6, <3>1 DEF Serial
  <2>. QED  BY <2>4, <2>5, <2>6
<1>3. ASSUME NEW x \in Thread, GraphStep(x)  PROVE Serial'
  BY <1>3, GraphMoves, MovesSerial
<1>4. ASSUME NEW e \in Execution, Resume(e)  PROVE Serial'
  <2>1. pc[Worker(e)] = "resume" /\ graphLock = None /\ up' = up
    BY <1>4 DEF Resume
  <2>2. pc[Api] = "idle" /\ held # Api  BY <2>1 DEF Serial
  <2>3. \A f \in Execution : ~Inside(Worker(f))
    BY <2>1, ThreadNames DEF Serial
  <2>4. CASE Leave(Worker(e))
    <3>1. /\ pc'[Worker(e)] = "idle" /\ held' # Api /\ graphLock' = None
          /\ \A y \in Thread \ {Worker(e)} : pc'[y] = pc[y]
      BY <2>1, <2>2, <2>4, ThreadNames, LeaveEffect
    <3>2. pc'[Api] = "idle" /\ \A f \in Execution \ {e} : pc'[Worker(f)] = pc[Worker(f)]
      BY <2>2, <3>1, ThreadNames
    <3>. QED  BY <2>3, <3>1, <3>2 DEF Serial
  <2>5. CASE /\ \/ pc' = [pc EXCEPT ![Worker(e)] = "nodes"]
                \/ pc' = [pc EXCEPT ![Worker(e)] = "returned"]
             /\ graphLock' = Worker(e) /\ held' = held
    <3>1. pc'[Worker(e)] \in {"nodes", "returned"}
          /\ \A y \in Thread \ {Worker(e)} : pc'[y] = pc[y]
      BY <1>0, <2>5, ThreadNames
    <3>2. pc'[Api] = "idle" /\ \A f \in Execution \ {e} : pc'[Worker(f)] = pc[Worker(f)]
      BY <2>2, <3>1, ThreadNames
    <3>. QED  BY <2>2, <2>3, <2>5, <3>1, <3>2 DEF Serial
  <2>. QED  BY <1>4, <2>4, <2>5 DEF Resume, Enter, GoTo
<1>5. ASSUME NEW e \in Execution, TurnCompletes(e)  PROVE Serial'
  <2>1. /\ pc[Worker(e)] = "idle" /\ e \in watched /\ UNCHANGED <<held, graphLock, up>>
        /\ \/ pc' = [pc EXCEPT ![Worker(e)] = "idle"]
           \/ pc' = [pc EXCEPT ![Worker(e)] = "resume"]
    BY <1>5 DEF TurnCompletes, GoTo
  <2>2. pc[Api] = "idle"  BY <2>1 DEF Serial
  <2>3. pc'[Worker(e)] \in {"idle", "resume"} /\ pc'[Api] = "idle"
        /\ \A f \in Execution \ {e} : pc'[Worker(f)] = pc[Worker(f)]
    BY <1>0, <2>1, <2>2, ThreadNames
  <2>. QED  BY <2>1, <2>2, <2>3 DEF Serial
<1>6. CASE Crash
  <2>1. \A x \in Thread : pc'[x] = "idle"  BY <1>6 DEF Crash
  <2>. QED  BY <1>6, <2>1, ThreadNames DEF Crash, Serial
<1>7. ASSUME pc' = pc, UNCHANGED <<held, graphLock>>, watched' \subseteq watched, up' = up \/ up'
      PROVE  Serial'
  BY <1>7 DEF Serial
<1>8. ASSUME NEW e \in Execution, TurnFails(e) \/ Orphaned(e)  PROVE Serial'
  <2>1. pc' = pc /\ UNCHANGED <<held, graphLock, up>> /\ watched' \subseteq watched
    BY <1>8 DEF TurnFails, Orphaned, FailTurn
  <2>. QED  BY <1>7, <2>1
<1>9. ASSUME NEW e \in Execution, Reattach(e)  PROVE Serial'
  <2>1. pc[Api] = "idle"  BY <1>9 DEF Reattach, Serial
  <2>. QED  BY <1>9, <2>1 DEF Reattach, Serial
<1>10. CASE CancelTask \/ Startup \/ \E c \in Contract : PublishInput(c)
  <2>1. pc' = pc /\ UNCHANGED <<held, graphLock>> /\ watched' \subseteq watched
        /\ (up' = up \/ up')
    BY <1>10 DEF CancelTask, Startup, PublishInput
  <2>. QED  BY <1>7, <2>1
<1>11. CASE UNCHANGED vars  BY <1>7, <1>11 DEF vars
<1>. QED
  BY <1>1, <1>2, <1>3, <1>4, <1>5, <1>6, <1>8, <1>9, <1>10, <1>11 DEF Next, TurnEnds

-----------------------------------------------------------------------------
(* What a step leaves of the tables.                                       *)

\* Versions are only added.
StoreGrows ==
  \A c \in Contract : \A i \in 1..Len(store[c]) : store'[c][i] = store[c][i]

\* The plan stays, and steps that were handed out or delivered stay so.
Grows ==
  /\ plan' = plan /\ Done \subseteq Done' /\ Begun \subseteq Begun'
  /\ \A k \in Keys, c \in Contract : bound[k][c] # 0 => bound'[k][c] = bound[k][c]
  /\ StoreGrows
  /\ Accepted => Accepted'

\* No answer that a checkpoint holds changes into or from one that can complete
\* its step.
AnswersStay(ks) ==
  \A k \in ks : answer'[k] = answer[k] \/ (answer[k].says \notin Good /\ answer'[k].says \notin Good)

\* No Turn begins.
NoneWaits == \A e \in Execution : exec'[e] = "waiting" => exec[e] = "waiting"

\* The delivery a thread handles is one of a step of the plan.
LEMMA SeenFirst ==
  ASSUME Types, NEW x \in Thread, pc[x] = "complete"
  PROVE  First(seen[x].todo) \in KeysOf(plan) /\ First(seen[x].todo) \in Keys
         /\ First(seen[x].todo) \in seen[x].todo
<1>1. seen[x].todo \subseteq KeysOf(plan) /\ seen[x].todo # {}
  BY DEF Types, GraphTypes
<1>. QED  BY <1>1, FirstIn, PlanKeys

\* The bindings of the steps of the plan keep their sources.
LEMMA BoundKept ==
  ASSUME Types, BoundWell, Grows,
         \A k \in KeysOf(plan) : \A c \in InputsOf(k) : \A i :
           bound'[k][c] = i /\ bound[k][c] # i => Sourced(k, c, i)'
  PROVE  BoundWell'
<1>1. ASSUME NEW k \in KeysOf(plan), NEW c \in InputsOf(k), NEW i, bound'[k][c] = i,
             i # 0
      PROVE  Sourced(k, c, i)'
  <2>1. CASE bound[k][c] # i  BY <1>1, <2>1
  <2>2. CASE bound[k][c] = i
    <3>1. k \in Keys /\ c \in Contract  BY PlanKeys, StepFields DEF InputsOf
    <3>2. Sourced(k, c, i)  BY <1>1, <2>2 DEF BoundWell
    <3>3. i \in 1..Len(store[c])  BY <1>1, <2>2, <3>1 DEF Types, StoreTypes
    <3>4. store'[c][i] = store[c][i]  BY <3>1, <3>3 DEF Grows, StoreGrows
    <3>. QED  BY <3>2, <3>4 DEF Sourced, Grows
  <2>. QED  BY <2>1, <2>2
<1>2. ASSUME NEW k \in KeysOf(plan), NEW c \in InputsOf(k), bound'[k][c] # 0
      PROVE  Sourced(k, c, bound[k][c])'
  <2>1. PICK i : i = bound'[k][c]  OBVIOUS
  <2>2. Sourced(k, c, i)'  BY <1>1, <1>2, <2>1
  <2>. QED  BY <2>1, <2>2 DEF Sourced
<1>. QED  BY <1>2 DEF BoundWell, Grows, InputsOf

\* The order of the plan is kept when every new assignment comes in its turn.
LEMMA OrderStays ==
  ASSUME Types, OrderKept, BegunPlanned, Grows,
         \A k \in Begun' \ Begun :
           /\ DepsOf(plan, k) \subseteq Done'
           /\ k = Review => SpecialistKeys(plan) \subseteq Done'
           /\ \A c \in InputsOf(k) : bound'[k][c] # 0
  PROVE  OrderKept'
<1>. SUFFICES ASSUME NEW k \in Begun'
              PROVE  /\ DepsOf(plan, k) \subseteq Done'
                     /\ k = Review => SpecialistKeys(plan) \subseteq Done'
                     /\ \A c \in InputsOf(k) : bound'[k][c] # 0
  BY DEF OrderKept, Grows, Review, InputsOf
<1>1. CASE k \in Begun
  <2>1. k \in Keys /\ \A c \in InputsOf(k) : c \in Contract
    BY <1>1, PlanKeys, StepFields DEF BegunPlanned, InputsOf
  <2>. QED  BY <1>1, <2>1 DEF OrderKept, Grows
<1>. QED  BY <1>1

\* A checkpoint of the run fits the tables after a step.
LEMMA RunFitsKept ==
  ASSUME NEW c, RunFits(c), Grows, AnswersStay(Reported(c)),
         c.stage \in Working => refused' \cap (c.work \ c.done) = {}
  PROVE  RunFits(c)'
<1>1. ResultsFit(c)'
  <2>. SUFFICES ASSUME NEW k \in Reported(c),
                       c.results[k].says \in Good \/ answer'[k].says \in Good
                PROVE  c.results[k] = answer'[k]
    BY DEF ResultsFit, Reported
  <2>1. c.results[k].says \in Good \/ answer[k].says \in Good => c.results[k] = answer[k]
    BY DEF RunFits, ResultsFit
  <2>. QED  BY <2>1 DEF AnswersStay
<1>2. Parallel' = Parallel  BY DEF Parallel, Grows
<1>. QED  BY <1>1, <1>2 DEF RunFits, Grows

\* What a step does that is not one of a graph.
Outside ==
  /\ Grows /\ Done' = Done /\ Begun' = Begun /\ bound' = bound
  /\ refused' \subseteq refused \cup {Planner}
  /\ AnswersStay(Reported(checkpoint["run"])) /\ NoneWaits /\ checkpoint' = checkpoint
  /\ \A x \in Thread : InGraph(x)' =>
       /\ InGraph(x) /\ call'[x] = call[x] /\ seen'[x] = seen[x] /\ pc'[x] = pc[x]
       /\ \A k \in Keys : step'[k] = step[k] \/ step[k] \notin {"blocked", "failed"}
                          \/ exec[k] = "waiting"

\* The thread in a graph does not notice.
LEMMA OutsideCall ==
  ASSUME Types, WaitingFits, Outside, NEW x \in Thread, CallInv(x), InGraph(x)'
  PROVE  CallInv(x)'
<1>. USE DEF Outside
<1>0. /\ pc'[x] = pc[x] /\ call'[x] = call[x] /\ seen'[x] = seen[x] /\ checkpoint' = checkpoint
      /\ \A k \in Keys : step'[k] = step[k] \/ step[k] \notin {"blocked", "failed"}
                         \/ exec[k] = "waiting"
  OBVIOUS
<1>1. /\ plan' = plan /\ (Accepted => Accepted') /\ Done' = Done /\ Begun' = Begun
      /\ bound' = bound /\ refused' \subseteq refused \cup {Planner}
  BY DEF Grows
<1>. HIDE DEF Outside
<1>8. Planner \notin KeysOf(plan)  BY PlanKeys, PlanFlowAssumption
<1>2. Sync(x)'  BY <1>0 DEF CallInv, Sync
<1>3. GraphCall(x)'  BY <1>0, <1>1 DEF CallInv, GraphCall, PlanningFits
<1>4. NodesCall(x)'  BY <1>0, <1>1, <1>8 DEF CallInv, NodesCall, WorkingCall, SchedulerCall
<1>5. ScheduleCall(x)'
  <2>1. Unplaced(seen'[x]) = Unplaced(seen[x])  BY <1>0
  <2>. QED  BY <1>0, <1>1, <1>8, <2>1 DEF CallInv, ScheduleCall, InputsOf
<1>6. FinalizeCall(x)'
  <2>. SUFFICES ASSUME pc[x] \in {"finalize", "complete"}  PROVE FinalizeCall(x)'
    BY <1>0 DEF FinalizeCall
  <2>1. FinalizeCall(x) /\ GraphCall(x) /\ Sync(x)  BY DEF CallInv
  <2>2. \A ks : First(ks)' = First(ks)  BY <1>1 DEF First
  <2>3. call[x].graph = "run"
    <3>1. call[x].graph \in {"planning", "run"}  BY DEF Types, GraphTypes, CallType
    <3>. QED  BY <2>1, <3>1 DEF GraphCall
  <2>4. \A k \in Keys : exec[k] # "waiting"
    <3>1. checkpoint["run"].stage \in Scheduled  BY <2>1, <2>3 DEF FinalizeCall, Sync, SameAt
    <3>2. \A k \in Keys : k \in Execution /\ GraphOf(k) = "run"
      BY PlanFlowAssumption DEF GraphOf, Execution
    <3>3. checkpoint["run"].stage \notin Working  BY <3>1 DEF Scheduled, Working
    <3>. QED  BY <3>2, <3>3 DEF WaitingFits
  <2>5. pc[x] = "complete" => First(seen[x].todo) \in Keys
    BY SeenFirst
  <2>. QED  BY <1>0, <1>1, <2>1, <2>2, <2>4, <2>5 DEF FinalizeCall
<1>7. pc'[x] \in {"planned", "finish"} => call'[x].at.stage = "end"
  BY <1>0 DEF CallInv
<1>. QED  BY <1>2, <1>3, <1>4, <1>5, <1>6, <1>7 DEF CallInv

LEMMA OutsideKeeps ==
  ASSUME Types, TableInv, CheckInv, ThreadInv, Outside, ApiInv', DoneWell', RefusedEnded',
         AnswersFit', Judged'
  PROVE  TableInv' /\ CheckInv' /\ ThreadInv'
<1>1. TableInv'
  <2>1. BegunPlanned' /\ Unbound'
    BY DEF TableInv, BegunPlanned, Unbound, Outside, Grows
  <2>2. OrderKept'  BY OrderStays DEF TableInv, Outside
  <2>3. BoundWell'  BY BoundKept DEF TableInv, Outside
  <2>. QED  BY <2>1, <2>2, <2>3 DEF TableInv
<1>2. CheckInv'
  <2>1. PICK c : c = checkpoint["run"] /\ c = checkpoint'["run"]  BY DEF Outside
  <2>0. c.stage \in Working => refused' \cap (c.work \ c.done) = {}
    <3>1. Planner \notin KeysOf(plan)  BY PlanKeys, PlanFlowAssumption
    <3>. QED  BY <2>1, <3>1 DEF CheckInv, RunFits, Outside
  <2>2. RunFits(c)'  BY <2>0, <2>1, RunFitsKept DEF CheckInv, Outside
  <2>3. RunFits(checkpoint["run"])'  BY <2>1, <2>2 DEF RunFits, ResultsFit, Reported
  <2>4. PICK d : d = checkpoint["planning"] /\ d = checkpoint'["planning"]  BY DEF Outside
  <2>5. PlanningFits(d)'  BY <2>4 DEF CheckInv, PlanningFits, Outside, Grows
  <2>6. PlanningFits(checkpoint["planning"])'  BY <2>4, <2>5 DEF PlanningFits
  <2>7. WaitingFits'  BY DEF CheckInv, WaitingFits, Outside, NoneWaits
  <2>. QED  BY <2>3, <2>6, <2>7 DEF CheckInv
<1>3. ThreadInv'
  <2>1. ASSUME NEW x \in Thread, InGraph(x)'  PROVE CallInv(x)'
    <3>1. InGraph(x)  BY <2>1 DEF Outside
    <3>. QED  BY <2>1, <3>1, OutsideCall DEF ThreadInv, CheckInv
  <2>. QED  BY <2>1 DEF ThreadInv
<1>. QED  BY <1>1, <1>2, <1>3

-----------------------------------------------------------------------------
(* The client's calls, the end of a Turn, a cancellation and the backend.  *)

\* An accepted review means that the whole plan was delivered.
LEMMA AcceptedAll ==
  ASSUME Types, DoneWell, OrderKept, Accepted
  PROVE  KeysOf(plan) \subseteq Done
<1>1. AcceptedPlan(plan) /\ plan.steps \in Seq(StepType)
  BY PlanKeys DEF Types, PlanTypes, Accepted
<1>2. Review \in Begun  BY DEF Accepted, DoneWell, Begun, Done
<1>3. SpecialistKeys(plan) \subseteq Done  BY <1>2 DEF OrderKept
<1>. QED  BY <1>1, <1>3, Shape DEF Accepted, Review

\* A Turn that runs belongs to a step that was neither refused nor completed.
LEMMA WaitingOpen ==
  ASSUME Types, TableInv, CheckInv, NEW e \in Keys, exec[e] = "waiting"
  PROVE  /\ e \notin Done /\ e \notin refused /\ e \notin Reported(checkpoint["run"])
         /\ ~Accepted /\ answer[e].says \notin Good
<1>1. GraphOf(e) = "run" /\ e \in Execution
  BY PlanFlowAssumption DEF GraphOf, Execution
<1>2. checkpoint["run"].stage \in Working
      /\ e \in checkpoint["run"].work \ checkpoint["run"].done
  BY <1>1 DEF CheckInv, WaitingFits
<1>3. e \notin refused  BY <1>2 DEF CheckInv, RunFits
<1>4. e \notin Done /\ answer[e].says \notin Good  BY DEF TableInv, DoneWell, AnswersFit
<1>5. e \in KeysOf(plan)  BY DEF TableInv, BegunPlanned, Begun
<1>6. ~Accepted  BY <1>4, <1>5, AcceptedAll DEF TableInv
<1>. QED  BY <1>2, <1>3, <1>4, <1>6 DEF Reported

\* A step that leaves the tables alone.
LEMMA TablesSame ==
  ASSUME TableInv, UNCHANGED tables
  PROVE  /\ Grows /\ Done' = Done /\ Begun' = Begun /\ bound' = bound
         /\ refused' \subseteq refused /\ NoneWaits /\ \A ks : AnswersStay(ks)
         /\ DoneWell' /\ RefusedEnded' /\ AnswersFit' /\ Judged' /\ TableInv'
         /\ (Accepted <=> Accepted') /\ taskStatus' = taskStatus
<1>1. plan' = plan /\ Review' = Review /\ Done' = Done /\ Begun' = Begun /\ Accepted' = Accepted
      /\ \A k : InputsOf(k)' = InputsOf(k)
  BY DEF tables, Review, Done, Begun, Accepted, InputsOf
<1>2. Grows  BY <1>1 DEF Grows, StoreGrows, tables
<1>3. NoneWaits /\ \A ks : AnswersStay(ks)  BY DEF NoneWaits, AnswersStay, tables
<1>4. DoneWell' /\ RefusedEnded' /\ AnswersFit' /\ Judged' /\ BegunPlanned' /\ Unbound'
  BY <1>1 DEF TableInv, DoneWell, RefusedEnded, AnswersFit, Judged, BegunPlanned, Unbound, tables
<1>5. OrderKept'  BY <1>1 DEF TableInv, OrderKept, tables
<1>6. BoundWell'  BY <1>1 DEF TableInv, BoundWell, Sourced, tables
<1>. QED  BY <1>1, <1>2, <1>3, <1>4, <1>5, <1>6 DEF TableInv, tables

\* A task that ended stays as it is.
LEMMA EndedStays ==
  ASSUME Ended, taskStatus' = taskStatus, Accepted => Accepted', NoneWaits,
         taskStatus = "completed" => \A x \in Thread : Inside(x)' => Inside(x)
  PROVE  Ended'
BY DEF Ended, NoneWaits

\* The invariant without Serial.
Kept == TableInv /\ Ended /\ CheckInv /\ ThreadInv

\* What leaves the tables and the threads in a graph alone keeps the invariant.
LEMMA QuietKeeps ==
  ASSUME Types, Kept, UNCHANGED <<tables, checkpoint>>, ApiInv',
         \A x \in Thread : InGraph(x)' =>
           InGraph(x) /\ call'[x] = call[x] /\ seen'[x] = seen[x] /\ pc'[x] = pc[x],
         taskStatus = "completed" => \A x \in Thread : Inside(x)' => Inside(x)
  PROVE  Kept'
<1>1. TableInv /\ Ended /\ CheckInv /\ ThreadInv  BY DEF Kept
<1>2. Outside /\ DoneWell' /\ RefusedEnded' /\ AnswersFit' /\ Judged'
  <2>1. step' = step  BY DEF tables
  <2>. QED  BY <1>1, <2>1, TablesSame DEF Outside
<1>3. Ended'  BY <1>1, TablesSame, EndedStays
<1>. QED  BY <1>1, <1>2, <1>3, OutsideKeeps DEF Kept

\* plan and start begin, plan and run look at the task.
LEMMA ClientKeeps ==
  ASSUME Types, Serial, Kept, ~Overlapping, CallPlan \/ CallStart \/ Running
  PROVE  Kept'
<1>. USE DEF Inside, InGraph, InsidePlace
<1>0. pc \in [Thread -> Place] /\ Api \in Thread  BY ThreadNames DEF Types, GraphTypes
<1>1. CASE CallPlan \/ CallStart
  <2>1. /\ UNCHANGED <<tables, checkpoint, call, seen, held>>
        /\ \/ pc' = [pc EXCEPT ![Api] = "plan"]
           \/ plan # NoPlan /\ pc' = [pc EXCEPT ![Api] = "run"]
    <3>1. CASE CallPlan  BY <3>1 DEF CallPlan, GoTo
    <3>2. CASE CallStart  BY <3>2 DEF CallStart, GoTo
    <3>. QED  BY <1>1, <3>1, <3>2
  <2>2. ApiInv'  BY <1>0, <2>1 DEF ApiInv, tables
  <2>3. \A x \in Thread : Inside(x)' => Inside(x) /\ pc'[x] = pc[x]  BY <1>0, <2>1
  <2>. HIDE DEF Inside
  <2>4. \A x \in Thread : InGraph(x)' =>
          InGraph(x) /\ call'[x] = call[x] /\ seen'[x] = seen[x] /\ pc'[x] = pc[x]
    BY <2>1, <2>3
  <2>. QED  BY <2>1, <2>2, <2>3, <2>4, QuietKeeps
<1>2. CASE Running
  <2>1. UNCHANGED <<tables, checkpoint>> /\ pc[Api] = "run" /\ plan # NoPlan /\ held # Api
    BY <1>2 DEF Running, Kept, ThreadInv, ApiInv, Serial
  <2>2. CASE Leave(Api)
    <3>1. pc'[Api] = "idle" /\ \A y \in Thread \ {Api} :
            call'[y] = call[y] /\ pc'[y] = pc[y] /\ seen'[y] = seen[y]
      BY <1>0, <2>2, LeaveEffect
    <3>2. ApiInv'  BY <3>1 DEF ApiInv
    <3>3. \A x \in Thread : Inside(x)' => x # Api /\ Inside(x)  BY <3>1
    <3>. HIDE DEF Inside
    <3>4. \A x \in Thread : InGraph(x)' =>
            InGraph(x) /\ call'[x] = call[x] /\ seen'[x] = seen[x] /\ pc'[x] = pc[x]
      BY <3>1, <3>3
    <3>. QED  BY <2>1, <3>2, <3>3, <3>4, QuietKeeps
  <2>3. CASE /\ taskStatus \notin Terminal \cup {"waiting"}
             /\ pc' = [pc EXCEPT ![Api] = "invoke"] /\ UNCHANGED <<call, seen, held>>
    <3>1. taskStatus # "completed"  BY <2>3 DEF Terminal
    <3>2. ApiInv'  BY <1>0, <2>1, <2>3 DEF ApiInv, tables
    <3>3. \A x \in Thread : InGraph(x)' =>
            InGraph(x) /\ call'[x] = call[x] /\ seen'[x] = seen[x] /\ pc'[x] = pc[x]
      BY <1>0, <2>3
    <3>. QED  BY <2>1, <3>1, <3>2, <3>3, QuietKeeps
  <2>. QED  BY <1>2, <2>2, <2>3 DEF Running, GoTo
<1>. QED  BY <1>1, <1>2

\* The backend dies, reattaches Turns and starts up, or nothing happens.
LEMMA BackendKeeps ==
  ASSUME Types, Kept,
         Crash \/ Startup \/ (\E e \in Execution : Reattach(e)) \/ UNCHANGED vars
  PROVE  Kept'
<1>. USE DEF Inside, InGraph, InsidePlace
<1>0. pc \in [Thread -> Place] /\ Api \in Thread  BY ThreadNames DEF Types, GraphTypes
<1>1. CASE Crash
  <2>1. UNCHANGED <<tables, checkpoint>> /\ \A x \in Thread : pc'[x] = "idle"
    BY <1>1 DEF Crash
  <2>2. ApiInv' /\ \A x \in Thread : ~Inside(x)'  BY <1>0, <2>1 DEF ApiInv
  <2>. HIDE DEF Inside
  <2>. QED  BY <2>1, <2>2, QuietKeeps
<1>2. CASE UNCHANGED <<tables, checkpoint, threads>>
  <2>1. UNCHANGED <<tables, checkpoint, call, seen, pc, held>> /\ plan' = plan
    BY <1>2 DEF threads, tables
  <2>2. ApiInv'  BY <2>1 DEF ApiInv, Kept, ThreadInv
  <2>. QED  BY <2>1, <2>2, QuietKeeps
<1>. QED  BY <1>1, <1>2 DEF Startup, Reattach, vars

\* plan prepares lead.plan.
LEMMA PlanningKeeps ==
  ASSUME Types, Serial, Kept, Planning
  PROVE  Kept'
<1>. USE DEF Inside, InGraph, InsidePlace
<1>0. /\ pc \in [Thread -> Place] /\ Api \in Thread /\ pc[Api] = "plan"
      /\ UNCHANGED <<plan, planStatus, step, refused, answer, store, bound, checkpoint>>
      /\ TableInv /\ Ended /\ CheckInv /\ ThreadInv /\ Planner \notin Keys
  BY ThreadNames, PlanFlowAssumption DEF Types, GraphTypes, Planning, Kept
<1>1. \A k \in Execution \ {Planner} : exec'[k] = exec[k]
  BY DEF Planning, Types, TaskTypes
<1>2. /\ \A k \in Keys : exec'[k] = exec[k]
      /\ (taskStatus' = "completed" => taskStatus = "completed")
      /\ (taskStatus' = "cancelled" => taskStatus = "cancelled" /\ exec' = exec)
      /\ \A e \in Execution : exec'[e] = "waiting" => exec[e] = "waiting"
      /\ \/ Leave(Api)
         \/ /\ pc' = [pc EXCEPT ![Api] = "invoke"] /\ taskStatus' # "completed"
            /\ plan = NoPlan /\ held' = Api /\ UNCHANGED <<call, seen>>
  <2>1. CASE Leave(Api) /\ exec' = exec /\ (taskStatus' = taskStatus \/ taskStatus' = "created")
    BY <2>1
  <2>2. CASE /\ plan = NoPlan /\ taskStatus \notin Terminal
             /\ exec' = [exec EXCEPT ![Planner] = IF @ = "absent" THEN "submitted" ELSE @]
             /\ taskStatus' = IF exec'[Planner] = "submitted" THEN "planning" ELSE taskStatus
             /\ held' = Api /\ pc' = [pc EXCEPT ![Api] = "invoke"] /\ UNCHANGED <<call, seen>>
    <3>1. taskStatus' \notin {"completed", "cancelled"}  BY <2>2 DEF Terminal
    <3>2. exec'[Planner] = IF exec[Planner] = "absent" THEN "submitted" ELSE exec[Planner]
      BY <2>2 DEF Types, TaskTypes, Execution
    <3>3. \A e \in Execution : exec'[e] = "waiting" => exec[e] = "waiting"
      BY <1>1, <3>2
    <3>4. \A k \in Keys : exec'[k] = exec[k]  BY <1>0, <1>1 DEF Execution
    <3>. QED  BY <2>2, <3>1, <3>3, <3>4
  <2>. QED  BY <2>1, <2>2 DEF Planning, MarkReady, GoTo
<1>3. /\ Review' = Review /\ Done' = Done /\ Begun' = Begun /\ Accepted' = Accepted
      /\ StoreGrows
  BY <1>0, <1>2 DEF Review, Done, Begun, Accepted, StoreGrows
<1>4. Grows /\ NoneWaits /\ (\A ks : AnswersStay(ks))
  BY <1>0, <1>2, <1>3 DEF Grows, NoneWaits, AnswersStay
<1>5. DoneWell' /\ RefusedEnded' /\ AnswersFit' /\ Judged'
  <2>1. \A k \in Done : k \in Keys  BY DEF Done
  <2>. QED  BY <1>0, <1>2, <1>3, <2>1 DEF TableInv, DoneWell, RefusedEnded, AnswersFit, Judged
<1>6. ApiInv' /\ \A x \in Thread : InGraph(x)' =>
        InGraph(x) /\ call'[x] = call[x] /\ seen'[x] = seen[x] /\ pc'[x] = pc[x]
  <2>1. CASE Leave(Api)
    <3>1. pc'[Api] = "idle" /\ \A y \in Thread \ {Api} :
            call'[y] = call[y] /\ pc'[y] = pc[y] /\ seen'[y] = seen[y]
      BY <1>0, <2>1, LeaveEffect
    <3>2. \A x \in Thread : InGraph(x)' => x # Api  BY <3>1
    <3>. QED  BY <3>1, <3>2 DEF ApiInv
  <2>2. CASE pc' = [pc EXCEPT ![Api] = "invoke"] /\ plan = NoPlan /\ held' = Api
             /\ UNCHANGED <<call, seen>>
    BY <1>0, <2>2 DEF ApiInv
  <2>. QED  BY <1>2, <2>1, <2>2
<1>7. taskStatus' = "completed" => \A x \in Thread : Inside(x)' => Inside(x)
  <2>1. CASE Leave(Api)
    <3>1. pc'[Api] = "idle" /\ \A y \in Thread \ {Api} : pc'[y] = pc[y]
      BY <1>0, <2>1, LeaveEffect
    <3>. QED  BY <3>1
  <2>. QED  BY <1>2, <2>1
<1>8. Ended'
  <2>. HIDE DEF Inside
  <2>1. taskStatus' = "completed" => Accepted' /\ \A x \in Thread : ~Inside(x)'
    BY <1>0, <1>2, <1>3, <1>7 DEF Ended
  <2>. QED  BY <1>0, <1>2, <2>1 DEF Ended
<1>. HIDE DEF Inside, InGraph
<1>9. Outside  BY <1>0, <1>3, <1>4, <1>6 DEF Outside
<1>. QED  BY <1>0, <1>5, <1>6, <1>8, <1>9, OutsideKeeps DEF Kept

\* retry: what completed is kept, and what is started over was refused or failed.
LEMMA RetryKeeps ==
  ASSUME Types, Kept, ~Overlapping, CallRetry
  PROVE  Kept' /\ plan' = plan /\ Begun' = Begun /\ Done' = Done
<1>. USE DEF Inside, InGraph, InsidePlace
<1>. DEFINE F == FailedAssignments
<1>0. /\ pc \in [Thread -> Place] /\ Api \in Thread
      /\ UNCHANGED <<plan, store, bound, checkpoint, call, seen>>
      /\ \A x \in Thread : pc[x] = "idle"
      /\ pc' = [pc EXCEPT ![Api] = IF plan = NoPlan THEN "plan" ELSE "run"]
      /\ taskStatus' = "running" /\ refused' = {}
      /\ planStatus = "completed" => planStatus' = "completed"
      /\ TableInv /\ Ended /\ CheckInv /\ ThreadInv
  BY ThreadNames DEF Types, GraphTypes, CallRetry, Calls, Quiet, GoTo, Kept
<1>1. /\ \A e \in Execution : exec'[e] = IF e \in F THEN "submitted" ELSE exec[e]
      /\ \A e \in Execution : answer'[e] = IF e \in F THEN NoAnswer ELSE answer[e]
      /\ \A k \in Keys :
           \/ step'[k] = step[k]
           \/ step'[k] # "completed" /\ (k \in F \/ step[k] = "cancelled")
  <2>1. /\ exec' = [e \in Execution |-> IF e \in F THEN "submitted" ELSE exec[e]]
        /\ answer' = [e \in Execution |-> IF e \in F THEN NoAnswer ELSE answer[e]]
    BY DEF CallRetry
  <2>2. step' = [k \in Keys |->
                   IF k \in F THEN "submitted"
                   ELSE IF step[k] # "cancelled" \/ exec[k] # "absent" THEN step[k]
                   ELSE IF DepsOf(plan, k) = {} THEN "ready" ELSE "pending_dependency"]
    BY DEF CallRetry
  <2>. HIDE DEF F
  <2>3. ASSUME NEW k \in Keys
        PROVE  \/ step'[k] = step[k]
               \/ step'[k] # "completed" /\ (k \in F \/ step[k] = "cancelled")
    BY <2>2
  <2>. QED  BY <2>1, <2>3
<1>2. \A k \in Done : k \notin F /\ k \in Keys
  BY <1>0 DEF TableInv, DoneWell, Done, FailedAssignments
<1>3. \A k \in Keys : answer[k].says \in Good => k \notin F
  BY <1>0 DEF TableInv, AnswersFit, FailedAssignments
<1>4. \A k \in F \cap Keys : k \in Begun
  BY <1>0 DEF TableInv, RefusedEnded, FailedAssignments, Begun
<1>5. Keys \subseteq Execution /\ F \subseteq Execution
  BY DEF Execution, FailedAssignments, Types, TaskTypes
<1>. HIDE DEF F
<1>6. Done' = Done  BY <1>1, <1>2 DEF Done
<1>7. Begun' = Begun
  <2>1. \A k \in Keys : exec'[k] # "absent" <=> exec[k] # "absent"
    BY <1>1, <1>4, <1>5 DEF Begun
  <2>. QED  BY <2>1 DEF Begun
<1>8. NoAnswer.says \notin Good  BY DEF NoAnswer, Good, Verdict
<1>9. \A k \in Keys : answer'[k].says \in Good \/ answer[k].says \in Good => answer'[k] = answer[k]
                      /\ exec'[k] = exec[k]
  BY <1>1, <1>3, <1>5, <1>8
<1>10. Accepted' <=> Accepted
  <2>1. Review' = Review  BY <1>0 DEF Review
  <2>2. Review \in Done => Review \in Keys  BY DEF Done
  <2>3. "accepted" \in Good  BY DEF Good, Verdict
  <2>. QED  BY <1>0, <1>6, <1>9, <2>1, <2>2, <2>3 DEF Accepted
<1>11. Grows /\ NoneWaits
  BY <1>0, <1>1, <1>6, <1>7, <1>10 DEF Grows, StoreGrows, NoneWaits
<1>12. AnswersStay(Reported(checkpoint["run"]))
  <2>1. Reported(checkpoint["run"]) \subseteq Keys
    BY <1>0, PlanKeys DEF CheckInv, RunFits, Reported
  <2>. QED  BY <1>9, <2>1 DEF AnswersStay
<1>13. DoneWell' /\ RefusedEnded' /\ AnswersFit' /\ Judged'
  <2>1. DoneWell'
    <3>1. \A k \in Done : exec'[k] = exec[k]  BY <1>1, <1>2, <1>5
    <3>. QED  BY <1>0, <1>6, <3>1 DEF TableInv, DoneWell
  <2>2. RefusedEnded'  BY <1>0 DEF RefusedEnded
  <2>3. AnswersFit'
    <3>1. Review' = Review  BY <1>0 DEF Review
    <3>. QED  BY <1>0, <1>9, <3>1 DEF TableInv, AnswersFit
  <2>4. Judged'  BY <1>0, <1>10 DEF TableInv, Judged
  <2>. QED  BY <2>1, <2>2, <2>3, <2>4
<1>14. ApiInv' /\ \A x \in Thread : ~InGraph(x)'
  BY <1>0 DEF ApiInv
<1>15. Ended'  BY <1>0 DEF Ended
<1>. HIDE DEF InGraph
<1>16. Outside  BY <1>0, <1>6, <1>7, <1>11, <1>12, <1>14 DEF Outside
<1>. QED  BY <1>0, <1>6, <1>7, <1>13, <1>14, <1>15, <1>16, OutsideKeeps DEF Kept

\* The assignment of one execution goes on: nothing that completed is touched.
LEMMA OneMoves ==
  ASSUME Types, TableInv, NEW e \in Execution, UNCHANGED <<plan, refused, store, bound>>,
         exec[e] \notin {"absent", "completed"}, exec'[e] # "absent",
         \A k \in Execution \ {e} : exec'[k] = exec[k] /\ answer'[k] = answer[k],
         \A k \in Keys \ {e} : step'[k] = step[k],
         e \in Keys => e \notin refused /\ step'[e] # "completed",
         planStatus' = planStatus \/ e \in Keys,
         \/ answer'[e] = answer[e]
         \/ exec'[e] = "completed" /\ (answer'[e].says \in Verdict => e \notin Keys \/ e = Review)
  PROVE  /\ Grows /\ Done' = Done /\ Begun' = Begun
         /\ \A ks \in SUBSET Execution : e \notin ks => AnswersStay(ks)
         /\ DoneWell' /\ RefusedEnded' /\ AnswersFit' /\ Judged'
<1>1. e \in Keys => e \notin Done /\ answer[e].says \notin Good /\ ~Accepted
  <2>1. e \in Keys => e \notin Done /\ answer[e].says \notin Good
    BY DEF TableInv, DoneWell, AnswersFit
  <2>2. e \in Keys => e \in KeysOf(plan)  BY DEF TableInv, BegunPlanned, Begun
  <2>. QED  BY <2>1, <2>2, AcceptedAll DEF TableInv
<1>2. Done' = Done  BY <1>1 DEF Done
<1>3. Begun' = Begun
  <2>1. \A k \in Keys : exec'[k] # "absent" <=> exec[k] # "absent"  BY DEF Execution
  <2>. QED  BY <2>1 DEF Begun
<1>4. Accepted' <=> Accepted
  <2>1. Review' = Review  BY DEF Review
  <2>2. Review \in Done => Review \in Execution \ {e}  BY <1>1 DEF Done, Execution
  <2>. QED  BY <1>2, <2>1, <2>2 DEF Accepted
<1>5. Grows  BY <1>2, <1>3, <1>4 DEF Grows, StoreGrows
<1>6. \A ks \in SUBSET Execution : e \notin ks => AnswersStay(ks)  BY DEF AnswersStay
<1>7. DoneWell'
  <2>1. \A k \in Done : exec'[k] = exec[k]  BY <1>1 DEF Done, Execution
  <2>. QED  BY <1>2, <2>1 DEF TableInv, DoneWell
<1>8. RefusedEnded'
  <2>1. \A k \in refused \cap Keys : step'[k] = step[k]  OBVIOUS
  <2>. QED  BY <1>3, <2>1 DEF TableInv, RefusedEnded
<1>9. Judged'
  <2>1. Accepted => planStatus' = planStatus  BY <1>1
  <2>. QED  BY <1>4, <2>1 DEF TableInv, Judged
<1>10. AnswersFit'
  <2>. SUFFICES ASSUME NEW k \in Keys, answer'[k].says \in Good
                PROVE  /\ exec'[k] = "completed" /\ k \notin refused
                       /\ answer'[k].says \in Verdict => k = Review
    BY DEF AnswersFit, Review
  <2>1. CASE k # e
    <3>1. exec'[k] = exec[k] /\ answer'[k] = answer[k]  BY <2>1 DEF Execution
    <3>. QED  BY <3>1 DEF TableInv, AnswersFit
  <2>2. CASE k = e  BY <1>1, <2>2
  <2>. QED  BY <2>1, <2>2
<1>. QED  BY <1>2, <1>3, <1>5, <1>6, <1>7, <1>8, <1>9, <1>10

\* Only the review answers with a verdict.
LEMMA DeliversVerdict ==
  ASSUME Types, NEW e \in Execution, Delivers(e)
  PROVE  /\ \A k \in Execution \ {e} : answer'[k] = answer[k]
         /\ answer'[e].says \in Verdict => e = Review
<1>1. PICK s \in Says(e) : answer' = [answer EXCEPT ![e] = [turn |-> attempt'[e], says |-> s]]
  BY DEF Delivers
<1>2. answer'[e].says = s /\ \A k \in Execution \ {e} : answer'[k] = answer[k]
  BY <1>1 DEF Types, AnswerTypes
<1>3. s \in Verdict => e = Review  BY PlanFlowAssumption DEF Says, Verdict
<1>. QED  BY <1>2, <1>3

\* What _set_plan_step_status leaves.
LEMMA SetStepEffect ==
  ASSUME Types, NEW e \in Execution, NEW s, SetStep(e, s)
  PROVE  /\ \A k \in Keys \ {e} : step'[k] = step[k]
         /\ e \in Keys => step'[e] = s
         /\ e \notin Keys => step' = step
         /\ planStatus' = planStatus \/ e \in Keys
<1>1. CASE e = Planner  BY <1>1, PlanFlowAssumption DEF SetStep
<1>2. CASE e # Planner
  <2>1. e \in Keys  BY <1>2 DEF Execution
  <2>2. step' = [step EXCEPT ![e] = s]  BY <1>2 DEF SetStep
  <2>. QED  BY <2>1, <2>2 DEF Types, TaskTypes
<1>. QED  BY <1>1, <1>2

\* The Turn of e ends.
LEMMA TurnKeeps ==
  ASSUME Types, Kept, NEW e \in Execution, TurnCompletes(e) \/ FailTurn(e)
  PROVE  Kept' /\ plan' = plan /\ Begun' = Begun /\ Done' = Done
<1>. USE DEF Inside, InGraph, InsidePlace
<1>. DEFINE w == Worker(e)
<1>0. /\ pc \in [Thread -> Place] /\ Api \in Thread /\ w \in Thread /\ w # Api
      /\ UNCHANGED <<plan, store, bound, checkpoint, call, seen, refused, held>>
      /\ exec[e] = "waiting"
      /\ TableInv /\ Ended /\ CheckInv /\ ThreadInv
  BY ThreadNames DEF Types, GraphTypes, TurnCompletes, FailTurn, threads, Kept
<1>1. \/ /\ pc' = pc /\ taskStatus' = "failed"
         /\ exec' = [exec EXCEPT ![e] = "failed"]
         /\ answer' = answer /\ SetStep(e, "failed")
      \/ /\ pc[w] = "idle" /\ taskStatus' = taskStatus
         /\ pc' = [pc EXCEPT ![w] = "idle"] \/ pc' = [pc EXCEPT ![w] = "resume"]
         /\ exec' = [exec EXCEPT ![e] = "completed"]
         /\ Delivers(e) /\ SetStep(e, "validating_output")
  BY DEF TurnCompletes, FailTurn, GoTo, threads
<1>2. \A x \in Thread : pc'[x] = pc[x] \/ (x = w /\ pc[x] = "idle" /\ pc'[x] \in {"idle", "resume"})
  BY <1>0, <1>1
<1>. HIDE DEF w
<1>3. /\ \A k \in Execution \ {e} : exec'[k] = exec[k] /\ answer'[k] = answer[k]
      /\ exec'[e] \in {"completed", "failed"}
      /\ \/ answer'[e] = answer[e]
         \/ exec'[e] = "completed" /\ (answer'[e].says \in Verdict => e = Review)
  BY <1>1, DeliversVerdict DEF Types, TaskTypes
<1>4. /\ \A k \in Keys \ {e} : step'[k] = step[k]
      /\ e \in Keys => step'[e] \in {"validating_output", "failed"}
      /\ planStatus' = planStatus \/ e \in Keys
  BY <1>1, SetStepEffect
<1>5. e \in Keys => e \notin refused /\ e \notin Reported(checkpoint["run"])
  BY <1>0, WaitingOpen
<1>6. /\ Grows /\ Done' = Done /\ Begun' = Begun
      /\ \A ks \in SUBSET Execution : e \notin ks => AnswersStay(ks)
      /\ DoneWell' /\ RefusedEnded' /\ AnswersFit' /\ Judged'
  BY <1>0, <1>3, <1>4, <1>5, OneMoves
<1>7. AnswersStay(Reported(checkpoint["run"]))
  <2>1. Reported(checkpoint["run"]) \subseteq Keys
    BY <1>0, PlanKeys DEF CheckInv, RunFits, Reported
  <2>2. Keys \subseteq Execution  BY DEF Execution
  <2>. QED  BY <1>5, <1>6, <2>1, <2>2
<1>8. NoneWaits  BY <1>3 DEF NoneWaits
<1>9. \A x \in Thread : Inside(x)' => Inside(x) /\ pc'[x] = pc[x]  BY <1>2
<1>10. Ended'
  <2>1. Accepted => Accepted'  BY <1>6 DEF Grows
  <2>. HIDE DEF Inside
  <2>. QED  BY <1>0, <1>1, <1>8, <1>9, <2>1, EndedStays DEF Ended
<1>11. ApiInv'
  <2>1. pc'[Api] = pc[Api]  BY <1>0, <1>2
  <2>. QED  BY <1>0, <2>1 DEF ThreadInv, ApiInv
<1>12. Outside
  <2>1. \A k \in Keys : step'[k] = step[k] \/ exec[k] = "waiting"  BY <1>0, <1>4
  <2>2. \A x \in Thread : InGraph(x)' => InGraph(x) /\ pc'[x] = pc[x]  BY <1>9
  <2>. HIDE DEF Inside, InGraph
  <2>. QED  BY <1>0, <1>6, <1>7, <1>8, <2>1, <2>2 DEF Outside
<1>. QED  BY <1>0, <1>6, <1>10, <1>11, <1>12, OutsideKeeps DEF Kept

\* A cancellation leaves what completed.
LEMMA CancelKeeps ==
  ASSUME Types, Kept, CancelTask
  PROVE  Kept' /\ plan' = plan /\ Begun' = Begun /\ Done' = Done
<1>0. /\ UNCHANGED <<plan, answer, store, bound, checkpoint, call, seen, pc, held>>
      /\ taskStatus' = "cancelled" /\ refused' = {}
      /\ (planStatus = "completed" => planStatus' = "completed")
      /\ TableInv /\ Ended /\ CheckInv /\ ThreadInv
  BY DEF CancelTask, threads, Kept
<1>1. /\ \A e \in Execution : exec'[e] = IF exec[e] \in {"absent", "completed"} THEN exec[e]
                                         ELSE "cancelled"
      /\ \A k \in Keys : step'[k] = IF step[k] \in StepEnds \cup {"absent"} THEN step[k]
                                    ELSE "cancelled"
  BY DEF CancelTask
<1>2. Keys \subseteq Execution  BY DEF Execution
<1>3. Done' = Done /\ \A k \in Done : k \in Keys  BY <1>1 DEF Done, StepEnds
<1>4. Begun' = Begun
  <2>1. \A k \in Keys : exec'[k] # "absent" <=> exec[k] # "absent"  BY <1>1, <1>2
  <2>. QED  BY <2>1 DEF Begun
<1>5. Review' = Review /\ Accepted' = Accepted  BY <1>0, <1>3 DEF Review, Accepted
<1>6. Grows /\ NoneWaits /\ \A ks : AnswersStay(ks)
  BY <1>0, <1>1, <1>3, <1>4, <1>5 DEF Grows, StoreGrows, NoneWaits, AnswersStay
<1>7. DoneWell' /\ RefusedEnded' /\ AnswersFit' /\ Judged'
  BY <1>0, <1>1, <1>2, <1>3, <1>5 DEF TableInv, DoneWell, RefusedEnded, AnswersFit, Judged
<1>8. Ended'
  <2>1. \A e \in Execution : exec'[e] # "waiting"  BY <1>1
  <2>. QED  BY <1>0, <2>1 DEF Ended
<1>9. ApiInv'  BY <1>0 DEF ThreadInv, ApiInv
<1>10. Outside
  <2>1. \A k \in Keys : step'[k] = step[k] \/ step[k] \notin {"blocked", "failed"}
    BY <1>1 DEF StepEnds
  <2>2. \A x \in Thread : InGraph(x)' => InGraph(x)  BY <1>0 DEF InGraph, Inside
  <2>. QED  BY <1>0, <1>3, <1>4, <1>6, <2>1, <2>2 DEF Outside
<1>. QED  BY <1>0, <1>3, <1>4, <1>7, <1>8, <1>9, <1>10, OutsideKeeps DEF Kept

\* A task input is a new version.
LEMMA InputKeeps ==
  ASSUME Types, Kept, NEW c \in Contract, PublishInput(c)
  PROVE  Kept'
<1>0. /\ UNCHANGED <<taskStatus, plan, planStatus, step, exec, refused, answer, bound,
                     checkpoint, call, seen, pc, held>>
      /\ TableInv /\ Ended /\ CheckInv /\ ThreadInv
  BY DEF PublishInput, threads, Kept
<1>1. StoreGrows
  <2>1. PICK a : store' = [store EXCEPT ![c] = Append(@, a)]  BY DEF PublishInput
  <2>2. store \in [Contract -> Seq(ArtifactType)]  BY DEF Types, StoreTypes
  <2>3. \A d \in Contract : \A i \in 1..Len(store[d]) : Append(store[d], a)[i] = store[d][i]
    BY <2>2
  <2>. QED  BY <2>1, <2>2, <2>3 DEF StoreGrows
<1>2. Review' = Review /\ Done' = Done /\ Begun' = Begun /\ Accepted' = Accepted
  BY <1>0 DEF Review, Done, Begun, Accepted
<1>3. Grows /\ NoneWaits /\ \A ks : AnswersStay(ks)
  BY <1>0, <1>1, <1>2 DEF Grows, NoneWaits, AnswersStay
<1>4. DoneWell' /\ RefusedEnded' /\ AnswersFit' /\ Judged'
  BY <1>0, <1>2 DEF TableInv, DoneWell, RefusedEnded, AnswersFit, Judged
<1>5. \A x \in Thread : Inside(x)' = Inside(x) /\ InGraph(x)' = InGraph(x)
  BY <1>0 DEF Inside, InGraph
<1>6. Ended'  BY <1>0, <1>2, <1>3, <1>5, EndedStays
<1>7. ApiInv'  BY <1>0 DEF ThreadInv, ApiInv
<1>8. Outside  BY <1>0, <1>2, <1>3, <1>5 DEF Outside
<1>. QED  BY <1>0, <1>4, <1>6, <1>7, <1>8, OutsideKeeps DEF Kept

-----------------------------------------------------------------------------
(* The thread in a graph.                                                  *)

\* Nobody else is in a graph while one thread moves there.
LEMMA MoverOnly ==
  ASSUME Types, Serial, NEW x \in Thread, Moves(x)
  PROVE  ApiInv' /\ \A y \in Thread : Inside(y)' => y = x
<1>1. \A y \in Thread : Inside(y)' => y = x
  <2>. SUFFICES ASSUME NEW y \in Thread \ {x}, Inside(y)'  PROVE FALSE
    OBVIOUS
  <2>1. Inside(x) /\ Inside(y)  BY DEF Moves, Inside
  <2>. QED  BY <2>1, OneInside
<1>2. pc'[Api] \notin {"run", "invoke"}
  <2>1. CASE x = Api  BY <2>1 DEF Moves, Stays, InsidePlace
  <2>2. CASE x # Api
    <3>1. PICK e \in Execution : x = Worker(e)  BY <2>2, ThreadNames
    <3>2. pc[x] # "idle"  BY DEF Moves, Inside, InsidePlace
    <3>3. pc[Api] = "idle"  BY <3>1, <3>2 DEF Serial
    <3>4. pc'[Api] = pc[Api]  BY <2>2, ThreadNames DEF Moves
    <3>. QED  BY <3>3, <3>4
  <2>. QED  BY <2>1, <2>2
<1>. QED  BY <1>1, <1>2 DEF ApiInv

\* A step in a graph keeps the invariant when it keeps the tables, the
\* checkpoints and what the thread knows of them.
LEMMA InsideKeeps ==
  ASSUME Types, Serial, Kept, NEW x \in Thread, Moves(x), TableInv', CheckInv',
         \/ taskStatus' = taskStatus
         \/ taskStatus' \notin {"completed", "cancelled"}
         \/ taskStatus' = "completed" /\ Accepted' /\ pc'[x] = "idle",
         taskStatus' = "cancelled" => NoneWaits,
         InGraph(x)' => CallInv(x)'
  PROVE  Kept'
<1>1. ApiInv' /\ \A y \in Thread : Inside(y)' => y = x  BY MoverOnly
<1>2. ThreadInv'  BY <1>1 DEF ThreadInv, InGraph
<1>3. taskStatus # "completed"  BY DEF Kept, Ended, Moves
<1>4. Ended'
  <2>1. taskStatus' = "completed" => Accepted' /\ \A y \in Thread : ~Inside(y)'
    <3>1. pc'[x] = "idle" => ~Inside(x)'  BY DEF Inside, InsidePlace
    <3>. QED  BY <1>1, <1>3, <3>1
  <2>2. taskStatus' = "cancelled" => \A e \in Execution : exec'[e] # "waiting"
    BY <1>3 DEF Kept, Ended, NoneWaits
  <2>. QED  BY <2>1, <2>2 DEF Ended
<1>. QED  BY <1>2, <1>4 DEF Kept

\* A thread enters a graph with the checkpoint that is now the latest.
LEMMA Entering ==
  ASSUME NEW x \in Thread, NEW g \in {"planning", "run"}, NEW c \in Checkpoint, NEW given,
         Entered(x, g, c, given), checkpoint'[g] = c, plan' = plan, Accepted => Accepted',
         c.stage # "none",
         g = "planning" => plan = NoPlan /\ PlanningFits(c),
         g = "run" => plan # NoPlan /\ RunFits(c)
  PROVE  CallInv(x)'
<1>. DEFINE d == call'[x]
<1>1. /\ pc'[x] = IF c.stage = "end" THEN "returned" ELSE "nodes"
      /\ d.graph = g /\ ~d.raised
      /\ SameAt(d.at, c) /\ d.at.work = c.work /\ d.at.parked = {} /\ d.at.review = c.review
      /\ (c.stage \in Working => d.todo = c.work \ c.done)
      /\ (c.stage \notin Working \cup {"end"} => d.todo = {None})
      /\ d.next = IF g = "planning" THEN "end"
                  ELSE IF c.stage = "wave_execute" THEN "wave_finalize" ELSE "finalize"
  BY DEF Entered
<1>. HIDE DEF d
<1>2. d.at.stage = c.stage /\ d.at.done = c.done  BY <1>1 DEF SameAt
<1>3. Sync(x)'  BY <1>1 DEF Sync, SameAt, d
<1>4. GraphCall(x)'
  <2>1. d.graph = "planning" =>
          /\ plan' = NoPlan /\ d.next = "end"
          /\ d.at.stage \in {"none", "execute", "end"} /\ d.at.work \subseteq {Planner}
          /\ d.at.review = None /\ d.at.parked = {}
          /\ pc'[x] \in {"nodes", "returned", "planned"}
    BY <1>1, <1>2 DEF PlanningFits
  <2>2. d.graph = "run" =>
          /\ plan' # NoPlan /\ pc'[x] # "planned"
          /\ d.at.review = "accepted" => Accepted'
    BY <1>1 DEF RunFits
  <2>3. d.graph = "planning" =>
          /\ d.at.stage \in {"none", "execute", "end"} /\ d.at.work \subseteq {Planner}
          /\ d.at.review = None
          /\ d.at.stage # "execute" => d.at.parked = {}
          /\ plan' # NoPlan => d.at.stage = "end"
    BY <2>1
  <2>. QED  BY <2>1, <2>2, <2>3 DEF GraphCall, PlanningFits, d
<1>5. NodesCall(x)'
  <2>. SUFFICES ASSUME pc'[x] = "nodes"  PROVE NodesCall(x)'
    BY DEF NodesCall
  <2>1. c.stage \notin {"none", "end"}  BY <1>1
  <2>2. CASE c.stage \in Working
    <3>1. d.graph = "run" => d.next \in Scheduled  BY <1>1 DEF Scheduled
    <3>2. WorkingCall(x)'  BY <1>1, <1>2, <2>2, <3>1 DEF WorkingCall, d
    <3>. QED  BY <1>2, <2>1, <2>2, <3>2 DEF NodesCall, d
  <2>3. CASE c.stage \notin Working
    <3>1. g = "run"  BY <2>1, <2>3 DEF PlanningFits, Working
    <3>2. d.todo = {None} /\ d.at.work \subseteq KeysOf(plan)  BY <1>1, <2>1, <2>3, <3>1 DEF RunFits
    <3>3. SchedulerCall(x)'  BY <1>1, <3>1, <3>2 DEF SchedulerCall, d
    <3>. QED  BY <1>2, <2>1, <2>3, <3>3 DEF NodesCall, d
  <2>. QED  BY <2>2, <2>3
<1>6. ScheduleCall(x)' /\ FinalizeCall(x)' /\ pc'[x] \notin {"planned", "finish"}
  BY <1>1 DEF ScheduleCall, FinalizeCall
<1>. QED  BY <1>3, <1>4, <1>5, <1>6 DEF CallInv

\* A checkpoint of the run that the tables fit still fits when they stay.
LEMMA FitsSame ==
  ASSUME NEW c, UNCHANGED tables
  PROVE  (RunFits(c) => RunFits(c)') /\ (PlanningFits(c) => PlanningFits(c)')
<1>1. /\ Begun' = Begun /\ Accepted' = Accepted /\ Parallel' = Parallel
      /\ plan' = plan /\ answer' = answer /\ refused' = refused
  BY DEF tables, Begun, Accepted, Review, Done, Parallel
<1>. QED  BY <1>1 DEF RunFits, PlanningFits, ResultsFit, Reported

\* One checkpoint is replaced.
LEMMA CheckNext ==
  ASSUME CheckInv, NEW g \in {"planning", "run"}, NEW c, checkpoint'[g] = c,
         \A h \in {"planning", "run"} \ {g} : checkpoint'[h] = checkpoint[h], UNCHANGED tables,
         g = "planning" => PlanningFits(c), g = "run" => RunFits(c),
         \A e \in Execution : exec[e] = "waiting" /\ GraphOf(e) = g =>
           c.stage \in Working /\ e \in c.work \ c.done
  PROVE  CheckInv'
<1>1. PICK r : r = checkpoint'["run"] /\ (r = c \/ r = checkpoint["run"]) /\ RunFits(r)
  <2>1. CASE g = "run"  BY <2>1
  <2>2. CASE g # "run"
    <3>1. checkpoint'["run"] = checkpoint["run"]  BY <2>2
    <3>. QED  BY <3>1 DEF CheckInv
  <2>. QED  BY <2>1, <2>2
<1>2. PICK p : p = checkpoint'["planning"] /\ PlanningFits(p)
  <2>1. CASE g = "planning"  BY <2>1
  <2>2. CASE g # "planning"
    <3>1. checkpoint'["planning"] = checkpoint["planning"]  BY <2>2
    <3>. QED  BY <3>1 DEF CheckInv
  <2>. QED  BY <2>1, <2>2
<1>3. RunFits(checkpoint["run"])'
  <2>1. RunFits(r)'  BY <1>1, FitsSame
  <2>. QED  BY <1>1, <2>1 DEF RunFits, ResultsFit, Reported
<1>4. PlanningFits(checkpoint["planning"])'
  <2>1. PlanningFits(p)'  BY <1>2, FitsSame
  <2>. QED  BY <1>2, <2>1 DEF PlanningFits
<1>5. WaitingFits'
  <2>. SUFFICES ASSUME NEW e \in Execution, exec[e] = "waiting"
                PROVE  /\ checkpoint'[GraphOf(e)].stage \in Working
                       /\ e \in checkpoint'[GraphOf(e)].work \ checkpoint'[GraphOf(e)].done
    BY DEF WaitingFits, GraphOf, tables
  <2>1. GraphOf(e) \in {"planning", "run"}  BY DEF GraphOf
  <2>2. CASE GraphOf(e) = g  BY <2>2
  <2>3. CASE GraphOf(e) # g
    <3>1. checkpoint'[GraphOf(e)] = checkpoint[GraphOf(e)]  BY <2>1, <2>3
    <3>. QED  BY <3>1 DEF CheckInv, WaitingFits
  <2>. QED  BY <2>2, <2>3
<1>. QED  BY <1>3, <1>4, <1>5 DEF CheckInv

\* The checkpoints stay.
LEMMA CheckSame ==
  ASSUME CheckInv, UNCHANGED <<tables, checkpoint>>
  PROVE  CheckInv'
<1>1. PICK c : c = checkpoint["run"] /\ c = checkpoint'["run"]  OBVIOUS
<1>2. \A e \in Execution : exec[e] = "waiting" /\ GraphOf(e) = "run" =>
        c.stage \in Working /\ e \in c.work \ c.done
  BY <1>1 DEF CheckInv, WaitingFits
<1>. QED  BY <1>1, <1>2, CheckNext DEF CheckInv

\* graph.invoke on behalf of the client.
LEMMA InvokeKeeps ==
  ASSUME Types, Serial, Kept, Invoke
  PROVE  Kept'
<1>. DEFINE g == IF held = Api THEN "planning" ELSE "run"
            c == checkpoint[g]
            first == IF g = "planning" THEN "execute"
                     ELSE IF Parallel THEN "wave_prepare" ELSE "prepare"
            fresh == [NoCheckpoint EXCEPT
                        !.stage = first, !.by = <<Api, calls>>, !.results = c.results,
                        !.work = IF g = "planning" THEN {Planner} ELSE {}]
            loaded == IF c.stage \notin {"none", "end"} \/ Finished(g, c) THEN c ELSE fresh
<1>1. /\ TableInv /\ CheckInv /\ ThreadInv /\ Api \in Thread
      /\ pc \in [Thread -> Place] /\ pc[Api] = "invoke"
      /\ checkpoint' = [checkpoint EXCEPT ![g] = loaded]
      /\ Enter(Api, g, loaded, None)
      /\ UNCHANGED <<tables, seen, held, graphLock, watched, up, bounds>>
  BY ThreadNames DEF Kept, Invoke, Types, GraphTypes
<1>2. g \in {"planning", "run"} /\ (g = "planning" <=> plan = NoPlan)
  BY <1>1 DEF ThreadInv, ApiInv
<1>3. fresh \in Checkpoint /\ c \in Checkpoint
      /\ checkpoint \in [{"planning", "run"} -> Checkpoint]
  <2>1. first \in Stage  BY DEF Stage, Working
  <2>. HIDE DEF first, g
  <2>2. fresh \in Checkpoint  BY <1>2, <2>1, Fresh
  <2>3. checkpoint \in [{"planning", "run"} -> Checkpoint]  BY DEF Types, GraphTypes
  <2>. QED  BY <1>2, <2>2, <2>3
<1>4. /\ fresh.stage = first /\ fresh.done = {} /\ fresh.parked = {} /\ fresh.review = None
      /\ fresh.work = IF g = "planning" THEN {Planner} ELSE {}
  BY DEF NoCheckpoint
<1>5. (g = "run" => RunFits(c)) /\ (g = "planning" => PlanningFits(c))
  BY <1>1 DEF CheckInv
<1>6. first \in {"execute", "wave_prepare", "prepare"}
      /\ (g = "planning" => first = "execute")
      /\ (g = "run" => first # "execute" /\ (first = "wave_prepare" => Parallel))
  OBVIOUS
<1>. HIDE DEF fresh, first
<1>7. g = "run" => RunFits(fresh)
  BY <1>2, <1>4, <1>6, PlanFlowAssumption
     DEF RunFits, ResultsFit, Reported, Working, Scheduled
<1>8. g = "planning" => PlanningFits(fresh)  BY <1>2, <1>4, <1>6 DEF PlanningFits
<1>9. /\ loaded \in Checkpoint /\ loaded.stage # "none"
      /\ (g = "run" => RunFits(loaded)) /\ (g = "planning" => PlanningFits(loaded))
      /\ (c.stage \in Working => loaded = c)
  BY <1>3, <1>4, <1>5, <1>6, <1>7, <1>8 DEF Finished, Working
<1>. HIDE DEF loaded, g
<1>10. checkpoint'[g] = loaded
       /\ \A h \in {"planning", "run"} \ {g} : checkpoint'[h] = checkpoint[h]
  BY <1>1, <1>2, <1>3
<1>11. TableInv' /\ (Accepted => Accepted') /\ taskStatus' = taskStatus /\ NoneWaits
       /\ plan' = plan
  BY <1>1, TablesSame DEF tables
<1>12. CheckInv'
  <2>1. \A e \in Execution : exec[e] = "waiting" /\ GraphOf(e) = g =>
           loaded.stage \in Working /\ e \in loaded.work \ loaded.done
    BY <1>1, <1>9 DEF CheckInv, WaitingFits
  <2>. QED  BY <1>1, <1>2, <1>9, <1>10, <2>1, CheckNext
<1>13. Entered(Api, g, loaded, None)
  BY <1>1, <1>2, <1>9, EnterEffect
<1>14. CallInv(Api)'
  BY <1>1, <1>2, <1>9, <1>10, <1>11, <1>13, Entering
<1>15. Moves(Api)
  <2>1. pc'[Api] \in {"nodes", "returned"} /\ \A y \in Thread \ {Api} : pc'[y] = pc[y]
    BY <1>13 DEF Entered
  <2>. QED  BY <1>1, <2>1 DEF Moves, Stays, Inside, InsidePlace
<1>. QED  BY <1>1, <1>11, <1>12, <1>14, <1>15, InsideKeeps

\* The result of a Turn resumes the graph.
LEMMA ResumeKeeps ==
  ASSUME Types, Serial, Kept, NEW e \in Execution, Resume(e)
  PROVE  Kept'
<1>. DEFINE x == Worker(e)
            c == checkpoint[Graph]
<1>1. /\ TableInv /\ CheckInv /\ ThreadInv /\ Ended /\ x \in Thread /\ x # Api
      /\ pc \in [Thread -> Place] /\ pc[x] = "resume" /\ graphLock = None
      /\ UNCHANGED <<tables, checkpoint>>
      /\ checkpoint \in [{"planning", "run"} -> Checkpoint]
  BY ThreadNames DEF Kept, Resume, Types, GraphTypes
<1>2. pc[Api] = "idle" /\ \A y \in Thread : ~Inside(y)
  <2>1. pc[Api] = "idle"  BY <1>1 DEF Serial
  <2>2. ~Inside(Api)  BY <2>1 DEF Inside, InsidePlace
  <2>3. \A f \in Execution : ~Inside(Worker(f))  BY <1>1, ThreadNames DEF Serial
  <2>. QED  BY <2>1, <2>2, <2>3, ThreadNames
<1>3. CASE Leave(x)
  <2>1. /\ pc'[x] = "idle"
        /\ \A y \in Thread \ {x} : call'[y] = call[y] /\ pc'[y] = pc[y] /\ seen'[y] = seen[y]
    BY <1>1, <1>3, LeaveEffect
  <2>2. \A y \in Thread : ~Inside(y)'
    BY <1>2, <2>1 DEF Inside, InsidePlace
  <2>3. ApiInv'  BY <1>1, <1>2, <2>1, ThreadNames DEF ApiInv
  <2>. QED  BY <1>1, <2>2, <2>3, QuietKeeps DEF InGraph
<1>4. CASE /\ taskStatus \notin Terminal /\ (c.stage = "end" \/ c.parked # {})
           /\ \E given \in Execution \cup {None} : Enter(x, Graph, c, given)
  <2>1. PICK given \in Execution \cup {None} : Enter(x, Graph, c, given)  BY <1>4
  <2>2. Graph \in {"planning", "run"} /\ (Graph = "planning" <=> plan = NoPlan)
        /\ c \in Checkpoint
    BY <1>1 DEF Graph
  <2>3. (Graph = "run" => RunFits(c)) /\ (Graph = "planning" => PlanningFits(c))
    BY <1>1 DEF CheckInv
  <2>4. c.stage # "none"
    BY <1>4, <2>2, <2>3 DEF RunFits, PlanningFits, Working
  <2>5. Entered(x, Graph, c, given)  BY <1>1, <2>1, <2>2, EnterEffect
  <2>6. TableInv' /\ (Accepted => Accepted') /\ taskStatus' = taskStatus /\ NoneWaits
        /\ plan' = plan
    BY <1>1, TablesSame DEF tables
  <2>7. CallInv(x)'
    <3>1. PICK g \in {"planning", "run"}, d \in Checkpoint : g = Graph /\ d = c  BY <2>2
    <3>2. checkpoint'[g] = d  BY <1>1, <3>1
    <3>3. Entered(x, g, d, given)  BY <2>5, <3>1
    <3>. QED  BY <1>1, <2>2, <2>3, <2>4, <2>6, <3>1, <3>2, <3>3, Entering
  <2>8. CheckInv'
    BY <1>1, CheckSame
  <2>9. \A y \in Thread : Inside(y)' => y = x
    <3>1. \A y \in Thread \ {x} : pc'[y] = pc[y]  BY <2>5 DEF Entered
    <3>. QED  BY <1>2, <3>1 DEF Inside
  <2>10. ApiInv'
    <3>1. pc'[Api] = "idle"  BY <1>1, <1>2, <2>5, ThreadNames DEF Entered
    <3>. QED  BY <3>1 DEF ApiInv
  <2>11. Ended'
    <3>1. taskStatus # "completed"  BY <1>4 DEF Terminal
    <3>. QED  BY <1>1, <2>6, <3>1, EndedStays
  <2>. QED  BY <2>6, <2>7, <2>8, <2>9, <2>10, <2>11 DEF Kept, ThreadInv, InGraph
<1>. QED  BY <1>3, <1>4 DEF Resume

\* The superstep is over.
LEMMA EndSuperstepKeeps ==
  ASSUME Types, Serial, Kept, NEW x \in Thread, EndSuperstep(x)
  PROVE  Kept'
<1>. DEFINE g == call[x].graph
            at == call[x].at
            next == [at EXCEPT !.stage = call[x].next, !.by = <<x, calls>>,
                               !.done = {}, !.parked = {}]
<1>0. Moves(x)  BY GraphMoves DEF GraphStep
<1>1. /\ TableInv /\ CheckInv /\ ThreadInv /\ pc[x] = "nodes" /\ call[x].todo = {}
      /\ UNCHANGED <<tables, watched, up, bounds>> /\ pc \in [Thread -> Place]
      /\ g \in {"planning", "run"} /\ at \in Checkpoint /\ call[x].next \in Stage
      /\ checkpoint \in [{"planning", "run"} -> Checkpoint] /\ calls \in Nat
  BY DEF Kept, EndSuperstep, Types, GraphTypes, CallType, BackendTypes
<1>2. /\ Sync(x) /\ GraphCall(x) /\ NodesCall(x) /\ CallInv(x)
  BY <1>1 DEF ThreadInv, InGraph, Inside, InsidePlace, CallInv
<1>3. TableInv' /\ (Accepted => Accepted') /\ taskStatus' = taskStatus /\ NoneWaits
      /\ plan' = plan
  BY <1>1, TablesSame DEF tables
<1>4. CASE Leave(x) /\ UNCHANGED checkpoint
  <2>1. ~InGraph(x)'
    <3>1. pc'[x] = "idle"  BY <1>4, LeaveEffect
    <3>. QED  BY <3>1 DEF InGraph, Inside, InsidePlace
  <2>2. CheckInv'  BY <1>1, <1>4, CheckSame
  <2>. QED  BY <1>0, <1>3, <2>1, <2>2, InsideKeeps
<1>5. CASE GoTo(x, "returned") /\ UNCHANGED <<checkpoint, call, seen, held, graphLock>>
  <2>1. pc'[x] = "returned"  BY <1>1, <1>5 DEF GoTo
  <2>2. CheckInv'  BY <1>1, <1>5, CheckSame
  <2>3. CallInv(x)'
    <3>1. Sync(x)'  BY <1>2, <1>5 DEF Sync
    <3>2. GraphCall(x)'  BY <1>2, <1>3, <1>5, <2>1 DEF GraphCall, PlanningFits
    <3>3. NodesCall(x)' /\ ScheduleCall(x)' /\ FinalizeCall(x)'
      BY <2>1 DEF NodesCall, ScheduleCall, FinalizeCall
    <3>. QED  BY <2>1, <3>1, <3>2, <3>3 DEF CallInv
  <2>. QED  BY <1>0, <1>3, <2>2, <2>3, InsideKeeps
<1>6. CASE /\ ~call[x].raised /\ at.parked = {}
           /\ checkpoint' = [checkpoint EXCEPT ![g] = next] /\ Enter(x, g, next, None)
  <2>1. /\ next \in Checkpoint /\ next.stage = call[x].next /\ next.done = {}
        /\ next.parked = {} /\ next.work = at.work /\ next.review = at.review
        /\ next.results = at.results
    BY <1>1 DEF Checkpoint
  <2>. HIDE DEF next
  <2>2. PICK c \in Checkpoint : c = checkpoint[g]  BY <1>1
  <2>3. c.stage = at.stage /\ c.done = at.done /\ c.results = at.results
    BY <1>2, <2>2 DEF Sync, SameAt
  <2>4. at.stage \in Working => c.work = at.work /\ at.work \subseteq at.done
    BY <1>1, <1>2, <1>6, <2>2 DEF NodesCall, WorkingCall
  <2>5. g = "planning" => plan = NoPlan /\ PlanningFits(next)
    <3>. SUFFICES ASSUME g = "planning"
                  PROVE  plan = NoPlan /\ PlanningFits(next)
      OBVIOUS
    <3>1. plan = NoPlan /\ PlanningFits(at) /\ call[x].next = "end"  BY <1>2 DEF GraphCall
    <3>. QED  BY <2>1, <3>1 DEF PlanningFits
  <2>6. g = "run" => plan # NoPlan /\ RunFits(next)
    <3>. SUFFICES ASSUME g = "run"  PROVE plan # NoPlan /\ RunFits(next)
      OBVIOUS
    <3>1. plan # NoPlan /\ (at.review = "accepted" => Accepted)  BY <1>2 DEF GraphCall
    <3>2. RunFits(c)  BY <1>1, <2>2 DEF CheckInv
    <3>3. CASE at.stage \in Working
      <4>1. call[x].next \in Scheduled  BY <1>1, <1>2, <3>3 DEF NodesCall, WorkingCall
      <4>2. call[x].next \notin Working \cup {"wave_prepare"}
        BY <4>1 DEF Scheduled, Working
      <4>3. Reported(next) = c.work /\ c.work \subseteq Reported(c)
        BY <2>1, <2>3, <2>4, <3>3, <4>1, <4>2 DEF Reported
      <4>4. ResultsFit(next)
        BY <2>1, <2>3, <3>2, <4>3 DEF RunFits, ResultsFit
      <4>5. next.work \subseteq KeysOf(plan) /\ next.work \subseteq Begun
        BY <2>1, <2>4, <3>2, <2>3, <3>3 DEF RunFits
      <4>. QED  BY <2>1, <3>1, <4>2, <4>4, <4>5 DEF RunFits
    <3>4. CASE at.stage \notin Working
      <4>1. /\ call[x].next \in {"prepare", "end"} \cup Working
            /\ at.work \subseteq KeysOf(plan)
            /\ call[x].next \in Working => at.work \subseteq Begun /\ refused \cap at.work = {}
        BY <1>1, <1>2, <1>6, <3>4 DEF NodesCall, SchedulerCall
      <4>2. call[x].next \notin Scheduled /\ call[x].next # "wave_prepare"
        BY <4>1 DEF Scheduled, Working
      <4>3. Reported(next) = {}  BY <2>1, <4>2 DEF Reported
      <4>. QED  BY <2>1, <3>1, <4>1, <4>2, <4>3 DEF RunFits, ResultsFit
    <3>. QED  BY <3>3, <3>4
  <2>7. next.stage # "none"
    <3>1. CASE g = "planning"  BY <1>2, <2>1, <3>1 DEF GraphCall
    <3>2. CASE g = "run"
      BY <1>1, <1>2, <1>6, <2>1, <3>2
         DEF NodesCall, WorkingCall, SchedulerCall, Scheduled, Working
    <3>. QED  BY <1>1, <3>1, <3>2
  <2>8. checkpoint'[g] = next
        /\ \A h \in {"planning", "run"} \ {g} : checkpoint'[h] = checkpoint[h]
    BY <1>1, <1>6
  <2>9. CheckInv'
    <3>1. \A e \in Execution : ~(exec[e] = "waiting" /\ GraphOf(e) = g)
      BY <1>1, <2>2, <2>3, <2>4 DEF CheckInv, WaitingFits
    <3>. HIDE DEF g
    <3>. QED  BY <1>1, <2>5, <2>6, <2>8, <3>1, CheckNext
  <2>. HIDE DEF g
  <2>10. Entered(x, g, next, None)  BY <1>1, <1>6, <2>1, EnterEffect
  <2>11. CallInv(x)'  BY <1>1, <1>3, <2>1, <2>5, <2>6, <2>7, <2>8, <2>10, Entering
  <2>. QED  BY <1>0, <1>3, <2>9, <2>11, InsideKeeps
<1>. QED  BY <1>4, <1>5, <1>6 DEF EndSuperstep

\* What a thread does with the result of an invocation.
LEMMA ReturnedKeeps ==
  ASSUME Types, Serial, Kept, NEW x \in Thread, Returned(x)
  PROVE  Kept'
<1>0. Moves(x)  BY GraphMoves DEF GraphStep
<1>1. /\ CheckInv /\ ThreadInv /\ TableInv /\ pc[x] = "returned"
      /\ UNCHANGED <<tables, checkpoint>> /\ pc \in [Thread -> Place]
      /\ call[x].graph \in {"planning", "run"}
  BY DEF Kept, Returned, Types, GraphTypes, CallType
<1>2. CallInv(x)  BY <1>1 DEF ThreadInv, InGraph, Inside, InsidePlace
<1>3. TableInv' /\ (Accepted => Accepted') /\ taskStatus' = taskStatus /\ NoneWaits
      /\ plan' = plan /\ CheckInv'
  BY <1>1, TablesSame, CheckSame DEF tables
<1>4. CASE Leave(x)
  <2>1. pc'[x] = "idle"  BY <1>4, LeaveEffect
  <2>2. ~InGraph(x)'  BY <2>1 DEF InGraph, Inside, InsidePlace
  <2>. QED  BY <1>0, <1>3, <2>2, InsideKeeps
<1>5. CASE /\ UNCHANGED call /\ call[x].at.stage = "end"
           /\ \/ GoTo(x, "planned") /\ call[x].graph = "planning"
              \/ GoTo(x, "finish") /\ call[x].at.review # None
  <2>1. call[x].graph = "planning" => call[x].at.review = None
    BY <1>2 DEF CallInv, GraphCall, PlanningFits
  <2>2. \/ pc'[x] = "planned" /\ call[x].graph = "planning"
        \/ pc'[x] = "finish" /\ call[x].graph = "run"
    BY <1>1, <1>5, <2>1 DEF GoTo
  <2>3. Sync(x)'  BY <1>1, <1>2, <1>5 DEF CallInv, Sync
  <2>4. GraphCall(x)'
    BY <1>2, <1>3, <1>5, <2>2 DEF CallInv, GraphCall, PlanningFits
  <2>5. NodesCall(x)' /\ ScheduleCall(x)' /\ FinalizeCall(x)'
    BY <2>2 DEF NodesCall, ScheduleCall, FinalizeCall
  <2>6. CallInv(x)'  BY <1>5, <2>3, <2>4, <2>5 DEF CallInv
  <2>. QED  BY <1>0, <1>3, <2>6, InsideKeeps
<1>. QED  BY <1>4, <1>5 DEF Returned

\* A review finishes the task, and an adopted or refused plan is told to it.
LEMMA FinishKeeps ==
  ASSUME Types, Serial, Kept, NEW x \in Thread, Finish(x) \/ MarkPlanned(x) \/ RefusePlan(x)
  PROVE  Kept'
<1>0. Moves(x)  BY GraphMoves DEF GraphStep
<1>1. /\ CheckInv /\ ThreadInv /\ TableInv /\ Leave(x)
      /\ UNCHANGED <<plan, planStatus, step, exec, answer, store, bound, checkpoint>>
      /\ refused' \in {refused, refused \cup {Planner}} /\ Planner \notin Keys
  BY PlanFlowAssumption DEF Kept, Finish, MarkPlanned, RefusePlan
<1>2. pc'[x] = "idle"  BY <1>1, LeaveEffect
<1>3. ~InGraph(x)' /\ ApiInv' /\ \A y \in Thread : ~InGraph(y)'
  <2>1. ~Inside(x)'  BY <1>2 DEF Inside, InsidePlace
  <2>. QED  BY <1>0, <2>1, MoverOnly DEF InGraph
<1>4. Review' = Review /\ Done' = Done /\ Begun' = Begun /\ Accepted' = Accepted /\ StoreGrows
  BY <1>1 DEF Review, Done, Begun, Accepted, StoreGrows
<1>5. Grows /\ NoneWaits /\ \A ks : AnswersStay(ks)
  BY <1>1, <1>4 DEF Grows, NoneWaits, AnswersStay
<1>6. DoneWell' /\ RefusedEnded' /\ AnswersFit' /\ Judged'
  <2>1. \A k \in Keys : k \in refused' <=> k \in refused  BY <1>1
  <2>2. \A k \in Done : k \in Keys  BY DEF Done
  <2>. QED
    BY <1>1, <1>4, <2>1, <2>2 DEF TableInv, DoneWell, RefusedEnded, AnswersFit, Judged
<1>7. Outside  BY <1>1, <1>3, <1>4, <1>5 DEF Outside
<1>8. TableInv' /\ CheckInv'  BY <1>1, <1>3, <1>6, <1>7, OutsideKeeps
<1>9. \/ taskStatus' = taskStatus \/ taskStatus' \notin {"completed", "cancelled"}
      \/ taskStatus' = "completed" /\ Accepted'
  <2>1. CASE MarkPlanned(x) \/ RefusePlan(x)
    BY <2>1 DEF MarkPlanned, RefusePlan, MarkReady
  <2>2. CASE Finish(x)
    <3>1. pc[x] = "finish"  BY <2>2 DEF Finish
    <3>2. CallInv(x)  BY <1>1, <3>1 DEF ThreadInv, InGraph, Inside, InsidePlace
    <3>3. call[x].graph = "run"
      BY <3>1, <3>2 DEF CallInv, GraphCall, Types, GraphTypes, CallType
    <3>4. call[x].at.review = "accepted" => Accepted'
      BY <1>4, <3>2, <3>3 DEF CallInv, GraphCall
    <3>. QED  BY <2>2, <3>4 DEF Finish
  <2>. QED  BY <2>1, <2>2
<1>. QED  BY <1>0, <1>2, <1>3, <1>5, <1>8, <1>9, InsideKeeps

\* A plan is adopted before anything of it was handed out.
LEMMA AdoptKeeps ==
  ASSUME Types, Serial, Kept, NEW x \in Thread, AdoptPlan(x)
  PROVE  Kept' /\ plan = NoPlan /\ Begun = {} /\ Done' = {}
<1>0. Moves(x)  BY GraphMoves DEF GraphStep
<1>1. /\ CheckInv /\ ThreadInv /\ TableInv /\ pc[x] = "planned"
      /\ AcceptedPlan(offered) /\ plan' = offered
      /\ UNCHANGED <<taskStatus, exec, refused, answer, store, bound, checkpoint>>
      /\ pc' = [pc EXCEPT ![x] = "mark"] /\ pc \in [Thread -> Place]
      /\ call[x].graph \in {"planning", "run"}
  BY DEF Kept, AdoptPlan, GoTo, Types, GraphTypes, CallType
<1>2. CallInv(x)  BY <1>1 DEF ThreadInv, InGraph, Inside, InsidePlace
<1>3. call[x].graph = "planning" /\ plan = NoPlan /\ call[x].at.stage = "end"
  BY <1>1, <1>2 DEF CallInv, GraphCall
<1>4. checkpoint["planning"].stage = "end"
  BY <1>2, <1>3 DEF CallInv, Sync, SameAt
<1>5. KeysOf(plan) = {}
  BY <1>3 DEF KeysOf, Indices, NoPlan
<1>6. Begun = {} /\ Begun' = {}  BY <1>1, <1>5 DEF TableInv, BegunPlanned, Begun
<1>7. Done' = {}
  <2>1. step' = [k \in Keys |-> IF k \notin KeysOf(offered) THEN "absent"
                                ELSE IF DepsOf(offered, k) = {} THEN "ready"
                                ELSE "pending_dependency"]
    BY <1>3 DEF AdoptPlan
  <2>. QED  BY <2>1 DEF Done
<1>8. TableInv'
  <2>1. BegunPlanned' /\ DoneWell' /\ OrderKept' /\ Judged'
    BY <1>6, <1>7 DEF BegunPlanned, DoneWell, OrderKept, Judged, Accepted
  <2>2. RefusedEnded'
    <3>1. refused \cap Keys = {}  BY <1>1, <1>6 DEF TableInv, RefusedEnded
    <3>. QED  BY <1>1, <3>1 DEF RefusedEnded
  <2>3. AnswersFit'
    <3>1. \A k \in Keys : answer[k].says \notin Good
      BY <1>1, <1>6 DEF TableInv, AnswersFit, Begun
    <3>. QED  BY <1>1, <3>1 DEF AnswersFit
  <2>4. \A k \in Keys, c \in Contract : bound'[k][c] = 0
    BY <1>1, <1>3 DEF TableInv, Unbound
  <2>5. Unbound'  BY <2>4 DEF Unbound
  <2>6. BoundWell'
    <3>1. offered \in Plan /\ offered.steps \in Seq(StepType)  BY DEF Types, PlanTypes, Plan
    <3>2. \A k \in KeysOf(offered) : k \in Keys /\ StepAt(offered, k).inputs \subseteq Contract
      BY <3>1, StepFields
    <3>. QED  BY <1>1, <2>4, <3>2 DEF BoundWell, InputsOf
  <2>. QED  BY <2>1, <2>2, <2>3, <2>5, <2>6 DEF TableInv
<1>9. CheckInv'
  <2>1. PICK c : c = checkpoint["run"] /\ c = checkpoint'["run"]  BY <1>1
  <2>2. /\ RunFits(c) /\ c.stage = "none" /\ c.work = {} /\ c.done = {} /\ c.parked = {}
        /\ c.review # "accepted"
    BY <1>1, <1>3, <1>5, <2>1 DEF CheckInv, RunFits, Accepted, Working
  <2>3. RunFits(checkpoint["run"])'
    BY <2>1, <2>2 DEF RunFits, ResultsFit, Reported, Working, Scheduled
  <2>4. PlanningFits(checkpoint["planning"])'
    BY <1>1, <1>4 DEF CheckInv, PlanningFits
  <2>5. WaitingFits'  BY <1>1 DEF CheckInv, WaitingFits
  <2>. QED  BY <2>3, <2>4, <2>5 DEF CheckInv
<1>10. ~InGraph(x)'  BY <1>1 DEF InGraph
<1>11. NoneWaits  BY <1>1 DEF NoneWaits
<1>12. Kept'  BY <1>0, <1>1, <1>8, <1>9, <1>10, <1>11, InsideKeeps
<1>. QED  BY <1>3, <1>6, <1>7, <1>12

\* The thread goes on with the nodes of its stage.
LEMMA NodeCall ==
  ASSUME NEW x \in Thread, NEW e \in Execution, CallInv(x), pc[x] = "nodes",
         call[x].at.stage \in Working, NodeSteps(x, e), Sync(x)',
         plan' = plan, Accepted => Accepted',
         \/ call'[x].raised /\ call'[x].at.done = call[x].at.done
         \/ /\ call'[x].raised = call[x].raised /\ call'[x].at.done = call[x].at.done
            /\ call'[x].at.parked = call[x].at.parked \cup {e}
         \/ /\ call'[x].raised = call[x].raised
            /\ call'[x].at.done = call[x].at.done \cup {e}
            /\ call'[x].at.parked = call[x].at.parked
  PROVE  CallInv(x)'
<1>. DEFINE d == call'[x]
<1>1. /\ pc'[x] = "nodes" /\ d.todo = call[x].todo \ {e}
      /\ d.graph = call[x].graph /\ d.next = call[x].next
      /\ d.at.stage = call[x].at.stage /\ d.at.work = call[x].at.work
      /\ d.at.review = call[x].at.review
      /\ checkpoint'[call[x].graph].work = checkpoint[call[x].graph].work
  BY DEF NodeSteps, KeepsAt
<1>2. WorkingCall(x) /\ GraphCall(x)  BY DEF CallInv, NodesCall
<1>3. GraphCall(x)'
  <2>1. call[x].graph = "planning" =>
          /\ plan = NoPlan /\ call[x].next = "end"
          /\ call[x].at.stage = "execute" /\ call[x].at.work \subseteq {Planner}
          /\ call[x].at.review = None
    BY <1>2 DEF GraphCall, PlanningFits, Working
  <2>2. call[x].graph = "run" =>
          plan # NoPlan /\ (call[x].at.review = "accepted" => Accepted)
    BY <1>2 DEF GraphCall
  <2>. HIDE DEF d
  <2>. QED  BY <1>1, <2>1, <2>2 DEF GraphCall, PlanningFits, d
<1>4. WorkingCall(x)'
  <2>1. /\ call[x].at.work = checkpoint[call[x].graph].work
        /\ call[x].todo \subseteq call[x].at.work \ call[x].at.done
        /\ call[x].raised \/ call[x].at.work \ call[x].at.done \subseteq
                               call[x].todo \cup call[x].at.parked
        /\ call[x].graph = "run" => call[x].next \in Scheduled
    BY <1>2 DEF WorkingCall
  <2>. HIDE DEF d
  <2>2. d.todo \subseteq d.at.work \ d.at.done  BY <1>1, <2>1 DEF d
  <2>3. d.raised \/ d.at.work \ d.at.done \subseteq d.todo \cup d.at.parked
    BY <1>1, <2>1 DEF d
  <2>. QED  BY <1>1, <2>1, <2>2, <2>3 DEF WorkingCall, d
<1>5. NodesCall(x)'
  BY <1>1, <1>4 DEF NodesCall, CallInv, Working
<1>6. ScheduleCall(x)' /\ FinalizeCall(x)' /\ pc'[x] \notin {"planned", "finish"}
  BY <1>1 DEF ScheduleCall, FinalizeCall
<1>. QED  BY <1>3, <1>5, <1>6 DEF CallInv

\* What a node does to the tables.
LEMMA NodeTables ==
  ASSUME Types, NEW x \in Thread, NEW e \in Execution, Node(x, e)
  PROVE  /\ UNCHANGED <<plan, refused, store, bound, seen>>
         /\ \A k \in Execution \ {e} : exec'[k] = exec[k] /\ answer'[k] = answer[k]
         /\ \A k \in Keys \ {e} : step'[k] = step[k]
         /\ planStatus' = planStatus \/ e \in Keys
         /\ taskStatus' = taskStatus \/ taskStatus' \in {"failed", "waiting"}
         /\ \/ /\ UNCHANGED <<taskStatus, planStatus, step, exec, answer>>
               /\ \/ /\ taskStatus = "cancelled" \/ exec[e] = "completed"
                     /\ NodeDone(x, e, answer'[e])
                  \/ NodeInterrupts(x, e)
            \/ /\ exec[e] \in {"submitted", "cancelled"} /\ taskStatus # "cancelled"
               /\ e \in Keys => step'[e] # "completed" \/ step'[e] = step[e]
               /\ \/ /\ exec'[e] = "completed" /\ NodeDone(x, e, answer'[e])
                     /\ answer'[e].says \in Verdict => e = Review
                  \/ /\ exec'[e] = "waiting" /\ answer'[e] = answer[e]
                     /\ NodeInterrupts(x, e)
                  \/ /\ exec'[e] = "failed" /\ answer'[e] = answer[e]
                     /\ NodeRaises(x, e)
<1>. USE DEF NodeFrame
<1>1. exec \in [Execution -> ExecStatus] /\ answer \in [Execution -> Answer]
  BY DEF Types, TaskTypes, AnswerTypes
<1>2. CASE NodeReturns(x, e) \/ NodeParks(x, e)
  BY <1>2 DEF NodeReturns, NodeParks
<1>3. CASE NodeRejected(x, e)
  BY <1>1, <1>3 DEF NodeRejected, Submits
<1>4. CASE SubmissionWaits(x, e)
  <2>1. SetStep(e, "waiting")  BY <1>4 DEF SubmissionWaits
  <2>. QED  BY <1>1, <1>4, <2>1, SetStepEffect DEF SubmissionWaits, Submits
<1>5. CASE SubmissionCompletes(x, e)
  <2>1. SetStep(e, "validating_output") /\ Delivers(e)  BY <1>5 DEF SubmissionCompletes
  <2>. QED  BY <1>1, <1>5, <2>1, SetStepEffect, DeliversVerdict DEF SubmissionCompletes, Submits
<1>6. CASE SubmissionFails(x, e)
  <2>1. SetStep(e, "failed")  BY <1>6 DEF SubmissionFails
  <2>. QED  BY <1>1, <1>6, <2>1, SetStepEffect DEF SubmissionFails, Submits
<1>. QED  BY <1>2, <1>3, <1>4, <1>5, <1>6 DEF Node

\* A node of _execute_assignment keeps the invariant.
LEMMA NodeKeeps ==
  ASSUME Types, Serial, Kept, NEW x \in Thread, NEW e \in Execution, Node(x, e)
  PROVE  Kept' /\ Done' = Done /\ Begun' = Begun /\ plan' = plan
<1>. DEFINE g == call[x].graph
            at == call[x].at
<1>0. Moves(x)  BY GraphMoves DEF GraphStep
<1>1. /\ TableInv /\ CheckInv /\ ThreadInv /\ Ended /\ RunsNode(x, e)
      /\ pc' = pc /\ NodeSteps(x, e) /\ Types'
      /\ g \in {"planning", "run"} /\ at \in Checkpoint
      /\ checkpoint \in [{"planning", "run"} -> Checkpoint]
      /\ checkpoint' \in [{"planning", "run"} -> Checkpoint]
      /\ answer' \in [Execution -> Answer]
  <2>1. RunsNode(x, e)
    BY DEF Node, NodeReturns, NodeParks, NodeRejected, Submits, SubmissionWaits,
           SubmissionCompletes, SubmissionFails
  <2>2. NodeSteps(x, e) /\ Types'  BY NodeTypes
  <2>. QED
    BY <2>1, <2>2 DEF Kept, NodeSteps, Types, GraphTypes, CallType, AnswerTypes
<1>2. pc[x] = "nodes" /\ at.stage \in Working /\ e \in call[x].todo  BY <1>1 DEF RunsNode
<1>3. CallInv(x) /\ Sync(x) /\ WorkingCall(x) /\ GraphCall(x)
  BY <1>1, <1>2 DEF ThreadInv, InGraph, Inside, InsidePlace, CallInv, NodesCall
<1>4. PICK c \in Checkpoint, d \in Checkpoint :
        c = checkpoint[g] /\ d = checkpoint'[g]
  BY <1>1
<1>5. /\ SameAt(c, at) /\ Latest(x) /\ c.stage \in Working /\ e \in c.work \ c.done
      /\ c.work = at.work /\ KeepsAt(d, c)
      /\ \A h \in {"planning", "run"} \ {g} : checkpoint'[h] = checkpoint[h]
  BY <1>1, <1>2, <1>3, <1>4 DEF Sync, SameAt, Latest, WorkingCall, NodeSteps, OtherGraph
<1>6. /\ g = "run" => /\ RunFits(c) /\ e \in Keys /\ e \notin refused /\ e \in Begun
                      /\ e \notin Reported(c)
      /\ g = "planning" => PlanningFits(c) /\ e = Planner
      /\ GraphOf(e) = g
  <2>1. CASE g = "run"
    <3>1. RunFits(c)  BY <1>1, <1>4, <2>1 DEF CheckInv
    <3>2. e \in Keys  BY <1>5, <3>1, PlanKeys DEF RunFits
    <3>. QED  BY <1>5, <2>1, <3>1, <3>2, PlanFlowAssumption DEF RunFits, Reported, GraphOf
  <2>2. CASE g = "planning"
    <3>1. PlanningFits(c)  BY <1>1, <1>4, <2>2 DEF CheckInv
    <3>. QED  BY <1>5, <2>2, <3>1 DEF PlanningFits, GraphOf
  <2>. QED  BY <1>1, <2>1, <2>2
<1>7. e \notin Keys => g = "planning"  BY <1>1, <1>6
<1>. HIDE DEF g, at
<1>8. /\ UNCHANGED <<plan, refused, store, bound>>
      /\ \A k \in Execution \ {e} : exec'[k] = exec[k] /\ answer'[k] = answer[k]
      /\ Grows /\ Done' = Done /\ Begun' = Begun
      /\ \A ks \in SUBSET Execution : e \notin ks => AnswersStay(ks)
      /\ DoneWell' /\ RefusedEnded' /\ AnswersFit' /\ Judged'
  <2>1. CASE UNCHANGED <<taskStatus, plan, planStatus, step, exec, refused, answer, store, bound>>
    <3>1. Done' = Done /\ Begun' = Begun /\ Accepted' = Accepted /\ Review' = Review
      BY <2>1 DEF Done, Begun, Accepted, Review
    <3>2. Grows /\ \A ks : AnswersStay(ks)
      BY <2>1, <3>1 DEF Grows, StoreGrows, AnswersStay
    <3>. QED
      BY <1>1, <2>1, <3>1, <3>2 DEF TableInv, DoneWell, RefusedEnded, AnswersFit, Judged
  <2>2. CASE exec[e] \in {"submitted", "cancelled"}
    <3>1. /\ UNCHANGED <<plan, refused, store, bound>>
          /\ \A k \in Execution \ {e} : exec'[k] = exec[k] /\ answer'[k] = answer[k]
          /\ \A k \in Keys \ {e} : step'[k] = step[k]
          /\ planStatus' = planStatus \/ e \in Keys
      BY NodeTables
    <3>2. /\ e \in Keys => step'[e] # "completed" \/ step'[e] = step[e]
          /\ exec'[e] # "absent"
          /\ \/ answer'[e] = answer[e]
             \/ exec'[e] = "completed" /\ (answer'[e].says \in Verdict => e = Review)
      BY <2>2, NodeTables
    <3>3. e \in Keys => step[e] # "completed"
      BY <1>1, <2>2 DEF TableInv, DoneWell, Done
    <3>4. e \in Keys => e \notin refused /\ step'[e] # "completed"
      <4>1. e \in Keys => e \notin refused  BY <1>6, <1>7, <1>1, PlanFlowAssumption
      <4>. QED  BY <3>2, <3>3, <4>1
    <3>. QED  BY <1>1, <2>2, <3>1, <3>2, <3>4, OneMoves
  <2>. QED  BY <2>1, <2>2, NodeTables
<1>9. TableInv'
  <2>1. BegunPlanned' /\ Unbound'
    BY <1>1, <1>8 DEF TableInv, BegunPlanned, Unbound
  <2>2. OrderKept'  BY <1>1, <1>8, OrderStays DEF TableInv
  <2>3. BoundWell'  BY <1>1, <1>8, BoundKept DEF TableInv
  <2>. QED  BY <1>8, <2>1, <2>2, <2>3 DEF TableInv
<1>10. /\ \/ /\ d.done = c.done \cup {e} /\ d.results = [c.results EXCEPT ![e] = answer'[e]]
             /\ exec'[e] # "waiting"
             /\ call'[x].raised = call[x].raised
             /\ call'[x].at.done = call[x].at.done \cup {e}
             /\ call'[x].at.parked = call[x].at.parked
             /\ call'[x].at.results = [call[x].at.results EXCEPT ![e] = answer'[e]]
          \/ /\ SameAt(d, c) /\ SameAt(call'[x].at, call[x].at) /\ answer'[e] = answer[e]
             /\ \/ call'[x].raised
                \/ /\ call'[x].raised = call[x].raised
                   /\ call'[x].at.parked = call[x].at.parked \cup {e}
  <2>1. CASE NodeDone(x, e, answer'[e]) /\ exec'[e] # "waiting"
    <3>1. PICK a \in Answer : a = answer'[e]  BY <1>1
    <3>2. NodeDone(x, e, a)  BY <2>1, <3>1
    <3>3. pc' = pc  BY <1>1
    <3>4. /\ call'[x].raised = call[x].raised /\ call'[x].at.parked = call[x].at.parked
          /\ call'[x].at.done = call[x].at.done \cup {e}
          /\ call'[x].at.results = [call[x].at.results EXCEPT ![e] = a]
          /\ LET k == checkpoint[call[x].graph]
                 l == checkpoint'[call[x].graph] IN
             IF Latest(x) THEN l.done = k.done \cup {e} /\ l.results = [k.results EXCEPT ![e] = a]
                          ELSE l = k
      BY <3>2, <3>3, NodeDoneEffect
    <3>5. d.done = c.done \cup {e} /\ d.results = [c.results EXCEPT ![e] = a]
      BY <1>4, <1>5, <3>4 DEF g
    <3>. QED  BY <2>1, <3>1, <3>4, <3>5
  <2>2. CASE NodeInterrupts(x, e) /\ answer'[e] = answer[e]
    BY <1>1, <1>4, <2>2, NodeInterruptsEffect DEF g
  <2>3. CASE NodeRaises(x, e) /\ answer'[e] = answer[e]
    <3>1. checkpoint' = checkpoint /\ call'[x].raised /\ call'[x].at = call[x].at
      BY <1>1, <2>3, NodeRaisesEffect
    <3>. QED  BY <1>4, <2>3, <3>1 DEF SameAt
  <2>4. taskStatus = "cancelled" => exec[e] # "waiting"  BY <1>1 DEF Ended
  <2>. QED  BY <2>1, <2>2, <2>3, <2>4, NodeTables
<1>11. c.done \subseteq d.done /\ d.done \subseteq c.done \cup {e}
       /\ (d.done = c.done \/ exec'[e] # "waiting")
  BY <1>10 DEF SameAt
<1>12. CheckInv'
  <2>1. WaitingFits'
    <3>. SUFFICES ASSUME NEW f \in Execution, exec'[f] = "waiting"
                  PROVE  /\ checkpoint'[GraphOf(f)].stage \in Working
                         /\ f \in checkpoint'[GraphOf(f)].work \ checkpoint'[GraphOf(f)].done
      BY DEF WaitingFits, GraphOf
    <3>1. GraphOf(f) \in {"planning", "run"}  BY DEF GraphOf
    <3>2. d.stage = c.stage /\ d.work = c.work  BY <1>5 DEF KeepsAt
    <3>3. CASE f = e
      <4>1. d.done = c.done  BY <1>11, <3>3
      <4>. QED  BY <1>4, <1>5, <1>6, <3>2, <3>3, <4>1
    <3>4. CASE f # e
      <4>1. /\ checkpoint[GraphOf(f)].stage \in Working
            /\ f \in checkpoint[GraphOf(f)].work \ checkpoint[GraphOf(f)].done
        BY <1>1, <1>8, <3>4 DEF CheckInv, WaitingFits
      <4>2. CASE GraphOf(f) = g  BY <1>4, <1>5, <1>11, <3>2, <3>4, <4>1, <4>2
      <4>3. CASE GraphOf(f) # g
        <5>1. checkpoint'[GraphOf(f)] = checkpoint[GraphOf(f)]  BY <1>5, <3>1, <4>3
        <5>. QED  BY <4>1, <5>1
      <4>. QED  BY <4>2, <4>3
    <3>. QED  BY <3>3, <3>4
  <2>2. CASE g = "run"
    <3>1. RunFits(c) /\ d.stage = c.stage /\ d.work = c.work /\ d.review = c.review
      BY <1>5, <1>6, <2>2 DEF KeepsAt
    <3>2. ResultsFit(c) /\ Reported(c) = c.done /\ Reported(d) = d.done
      BY <1>5, <3>1 DEF RunFits, Reported
    <3>3. \A k \in d.done :
            d.results[k].says \in Good \/ answer'[k].says \in Good => d.results[k] = answer'[k]
      <4>. SUFFICES ASSUME NEW k \in d.done
                    PROVE  \/ d.results[k] = answer'[k]
                           \/ d.results[k].says \notin Good /\ answer'[k].says \notin Good
        OBVIOUS
      <4>1. k \in Execution /\ c.results \in [Execution -> Answer]  BY DEF Checkpoint
      <4>2. CASE k = e
        <5>1. d.results = [c.results EXCEPT ![e] = answer'[e]]
          BY <1>5, <1>10, <4>2 DEF SameAt
        <5>. QED  BY <4>1, <4>2, <5>1
      <4>3. CASE k # e
        <5>1. k \in c.done  BY <1>11, <4>3
        <5>2. d.results[k] = c.results[k]  BY <1>10, <4>1, <4>3 DEF SameAt
        <5>3. answer'[k] = answer[k]  BY <1>8, <4>1, <4>3
        <5>. QED  BY <3>2, <5>1, <5>2, <5>3 DEF ResultsFit
      <4>. QED  BY <4>2, <4>3
    <3>4. RunFits(d)'
      <4>1. Parallel' = Parallel  BY <1>8 DEF Parallel
      <4>2. Accepted => Accepted'  BY <1>8 DEF Grows
      <4>3. ResultsFit(d)'  BY <3>2, <3>3 DEF ResultsFit, Reported
      <4>4. d.done \subseteq d.work  BY <1>5, <1>11, <3>1 DEF RunFits
      <4>5. refused' \cap (d.work \ d.done) = {}
        BY <1>5, <1>8, <1>11, <3>1 DEF RunFits
      <4>. QED  BY <1>5, <1>8, <3>1, <4>1, <4>2, <4>3, <4>4, <4>5 DEF RunFits
    <3>5. RunFits(checkpoint["run"])'
      BY <1>4, <2>2, <3>4 DEF RunFits, ResultsFit, Reported
    <3>6. PlanningFits(checkpoint["planning"])'
      <4>1. checkpoint'["planning"] = checkpoint["planning"]  BY <1>5, <2>2
      <4>. QED  BY <1>1, <1>8, <4>1 DEF CheckInv, PlanningFits
    <3>. QED  BY <2>1, <3>5, <3>6 DEF CheckInv
  <2>3. CASE g = "planning"
    <3>1. PICK r : r = checkpoint["run"] /\ r = checkpoint'["run"]  BY <1>5, <2>3
    <3>2. e = Planner /\ PlanningFits(c) /\ d.stage = c.stage /\ d.work = c.work
          /\ d.review = c.review
      BY <1>5, <1>6, <2>3 DEF KeepsAt
    <3>3. RunFits(r)  BY <1>1, <3>1 DEF CheckInv
    <3>4. e \notin Reported(r) /\ Reported(r) \subseteq Execution
      <4>1. Reported(r) \subseteq Keys  BY <3>3, PlanKeys DEF RunFits, Reported
      <4>. QED  BY <3>2, <4>1, PlanFlowAssumption DEF Execution
    <3>5. RunFits(r)'
      <4>1. r.stage \in Working => refused' \cap (r.work \ r.done) = {}
        BY <1>8, <3>3 DEF RunFits
      <4>. QED  BY <1>8, <3>3, <3>4, <4>1, RunFitsKept
    <3>6. RunFits(checkpoint["run"])'
      BY <3>1, <3>5 DEF RunFits, ResultsFit, Reported
    <3>7. PlanningFits(checkpoint["planning"])'
      BY <1>4, <1>5, <1>8, <2>3, <3>2 DEF PlanningFits, Working
    <3>. QED  BY <2>1, <3>6, <3>7 DEF CheckInv
  <2>. QED  BY <1>1, <2>2, <2>3 DEF g
<1>13. CallInv(x)'
  <2>1. /\ KeepsAt(call'[x].at, call[x].at) /\ call'[x].graph = g
        /\ SameAt(checkpoint[g], call[x].at)
    BY <1>1, <1>3 DEF NodeSteps, Sync, g
  <2>2. Sync(x)'
    <3>1. /\ c.stage = call[x].at.stage /\ c.by = call[x].at.by
          /\ c.done = call[x].at.done /\ c.results = call[x].at.results
      BY <1>4, <2>1 DEF SameAt
    <3>2. d.stage = call'[x].at.stage /\ d.by = call'[x].at.by
      BY <1>5, <2>1, <3>1 DEF KeepsAt
    <3>3. d.done = call'[x].at.done /\ d.results = call'[x].at.results
      BY <1>10, <3>1 DEF SameAt
    <3>4. SameAt(d, call'[x].at)  BY <3>2, <3>3 DEF SameAt
    <3>. QED  BY <1>4, <2>1, <3>4 DEF Sync
  <2>3. Accepted => Accepted'  BY <1>8 DEF Grows
  <2>4. \/ call'[x].raised /\ call'[x].at.done = call[x].at.done
        \/ /\ call'[x].raised = call[x].raised /\ call'[x].at.done = call[x].at.done
           /\ call'[x].at.parked = call[x].at.parked \cup {e}
        \/ /\ call'[x].raised = call[x].raised
           /\ call'[x].at.done = call[x].at.done \cup {e}
           /\ call'[x].at.parked = call[x].at.parked
    BY <1>10 DEF SameAt
  <2>. QED  BY <1>1, <1>2, <1>3, <1>8, <2>2, <2>3, <2>4, NodeCall DEF at
<1>14. taskStatus' = "cancelled" => NoneWaits
  <2>. SUFFICES ASSUME taskStatus' = "cancelled", NEW f \in Execution, exec'[f] = "waiting"
                PROVE  exec[f] = "waiting"
    BY DEF NoneWaits
  <2>1. taskStatus = "cancelled"  BY NodeTables
  <2>2. exec' = exec  BY <2>1, NodeTables
  <2>. QED  BY <2>2
<1>15. taskStatus' = taskStatus \/ taskStatus' \notin {"completed", "cancelled"}
  BY NodeTables
<1>. QED  BY <1>0, <1>8, <1>9, <1>12, <1>13, <1>14, <1>15, InsideKeeps

-----------------------------------------------------------------------------
(* The nodes of the scheduler.                                             *)

\* What a node of the scheduler that ended leaves of the call.
Handed(x) ==
  LET at == call'[x].at IN
  /\ checkpoint' = checkpoint /\ plan' = plan /\ pc'[x] = "nodes"
  /\ call'[x].graph = call[x].graph /\ SameAt(at, call[x].at) /\ call'[x].todo = {}
  /\ at.work \subseteq KeysOf(plan)
  /\ at.stage \in Scheduled => at.work = checkpoint["run"].work
  /\ at.review = "accepted" => Accepted'
  /\ \/ call'[x].raised
     \/ /\ call'[x].next \in {"prepare", "end"} \cup Working
        /\ call'[x].next \in Working => at.work \subseteq Begun' /\ refused' \cap at.work = {}

\* The thread is then ready for the end of the superstep.
LEMMA SchedulerEnds ==
  ASSUME NEW x \in Thread, Sync(x), call[x].graph = "run", plan # NoPlan,
         call[x].at.stage \notin Working \cup {"none", "end"}, Handed(x)
  PROVE  CallInv(x)'
<1>. DEFINE d == call'[x]
<1>1. /\ checkpoint' = checkpoint /\ plan' = plan /\ pc'[x] = "nodes"
      /\ d.graph = "run" /\ SameAt(d.at, call[x].at) /\ d.todo = {}
      /\ d.at.work \subseteq KeysOf(plan)
      /\ d.at.stage \in Scheduled => d.at.work = checkpoint["run"].work
      /\ d.at.review = "accepted" => Accepted'
      /\ \/ d.raised
         \/ /\ d.next \in {"prepare", "end"} \cup Working
            /\ d.next \in Working => d.at.work \subseteq Begun' /\ refused' \cap d.at.work = {}
  BY DEF Handed
<1>. HIDE DEF d
<1>2. d.at.stage \notin Working \cup {"none", "end"}  BY <1>1 DEF SameAt
<1>3. Sync(x)'
  <2>1. SameAt(checkpoint'["run"], d.at)  BY <1>1 DEF Sync, SameAt
  <2>. QED  BY <1>1, <2>1 DEF Sync, d
<1>4. GraphCall(x)'  BY <1>1 DEF GraphCall, d
<1>5. SchedulerCall(x)'  BY <1>1 DEF SchedulerCall, d
<1>6. NodesCall(x)'  BY <1>2, <1>5 DEF NodesCall, d
<1>7. ScheduleCall(x)' /\ FinalizeCall(x)' /\ pc'[x] \notin {"planned", "finish"}
  BY <1>1 DEF ScheduleCall, FinalizeCall
<1>. QED  BY <1>3, <1>4, <1>6, <1>7 DEF CallInv

\* That is what a node leaves that ends with the next stage, or by raising.
LEMMA DoneHands ==
  ASSUME Types, NEW x \in Thread, NEW next \in Stage, NEW w \in SUBSET Execution,
         NEW r \in Verdicts \cup {None, "needs_revision"}, SchedulerDone(x, next, w, r),
         plan' = plan, w \subseteq KeysOf(plan), r = "accepted" => Accepted',
         call[x].at.stage \in Scheduled => w = checkpoint["run"].work,
         next \in {"prepare", "end"} \cup Working,
         next \in Working => w \subseteq Begun' /\ refused' \cap w = {}
  PROVE  Handed(x) /\ checkpoint' = checkpoint
<1>1. /\ checkpoint' = checkpoint /\ pc'[x] = "nodes" /\ call'[x].todo = {}
      /\ call'[x].next = next /\ call'[x].graph = call[x].graph
      /\ SameAt(call'[x].at, call[x].at) /\ call'[x].at.work = w /\ call'[x].at.review = r
  <2>1. /\ CallSteps(x) /\ checkpoint' = checkpoint /\ pc'[x] = "nodes"
         /\ call'[x].todo = {} /\ call'[x].next = next /\ call'[x].raised = call[x].raised
         /\ call'[x].graph = call[x].graph
         /\ SameAt(call'[x].at, call[x].at) /\ call'[x].at.parked = call[x].at.parked
         /\ call'[x].at.work = w /\ call'[x].at.review = r
    BY SchedulerDoneEffect
  <2>. QED  BY <2>1
<1>2. call'[x].at.stage = call[x].at.stage  BY <1>1 DEF SameAt
<1>. QED  BY <1>1, <1>2 DEF Handed

LEMMA RaiseHands ==
  ASSUME Types, NEW x \in Thread, SchedulerRaises(x), plan' = plan,
         call[x].todo \subseteq {None}, call[x].at.work \subseteq KeysOf(plan),
         call[x].at.review = "accepted" => Accepted',
         call[x].at.stage \in Scheduled => call[x].at.work = checkpoint["run"].work
  PROVE  Handed(x) /\ checkpoint' = checkpoint
<1>1. /\ checkpoint' = checkpoint /\ pc'[x] = "nodes" /\ call'[x].raised
      /\ call'[x].todo = call[x].todo \ {None} /\ call'[x].graph = call[x].graph
      /\ call'[x].at = call[x].at
  BY SchedulerRaisesEffect
<1>2. call'[x].todo = {}  BY <1>1
<1>. QED  BY <1>1, <1>2 DEF Handed, SameAt

\* A thread runs a node of the scheduler.
LEMMA AtScheduler ==
  ASSUME Types, Kept, NEW x \in Thread, NEW stages, RunsScheduler(x, stages),
         stages \cap Working = {}
  PROVE  /\ CallInv(x) /\ Sync(x) /\ GraphCall(x) /\ SchedulerCall(x) /\ ~call[x].raised
         /\ call[x].at.stage \in stages
         /\ call[x].at.stage \notin Working \cup {"none", "end"}
         /\ call[x].graph = "run" /\ plan # NoPlan
         /\ RunFits(checkpoint["run"]) /\ (call[x].at.review = "accepted" => Accepted)
         /\ checkpoint["run"].stage = call[x].at.stage
<1>1. pc[x] = "nodes" /\ call[x].todo = {None} /\ call[x].at.stage \in stages
  BY DEF RunsScheduler
<1>2. CallInv(x)  BY <1>1 DEF Kept, ThreadInv, InGraph, Inside, InsidePlace
<1>3. SchedulerCall(x) /\ call[x].at.stage \notin Working \cup {"none", "end"}
  BY <1>1, <1>2 DEF CallInv, NodesCall
<1>4. call[x].graph = "run" /\ ~call[x].raised  BY <1>1, <1>3 DEF SchedulerCall
<1>5. plan # NoPlan /\ (call[x].at.review = "accepted" => Accepted)
  BY <1>2, <1>4 DEF CallInv, GraphCall
<1>6. Sync(x) /\ GraphCall(x)  BY <1>2 DEF CallInv
<1>7. checkpoint["run"].stage = call[x].at.stage  BY <1>4, <1>6 DEF Sync, SameAt
<1>8. RunFits(checkpoint["run"])  BY DEF Kept, CheckInv
<1>. QED  BY <1>1, <1>2, <1>3, <1>4, <1>5, <1>6, <1>7, <1>8

\* The steps that prepare_step and prepare_parallel_specialists may place.
LEMMA Placeable ==
  ASSUME Types, Kept, plan # NoPlan
  PROVE  /\ AcceptedPlan(plan) /\ plan.steps \in Seq(StepType) /\ None \notin Keys
         /\ KeysOf(plan) \subseteq Keys
         /\ SpecialistKeys(plan) \subseteq KeysOf(plan) \ {Review}
         /\ KeysOf(plan) = SpecialistKeys(plan) \cup {Review}
         /\ \A k \in KeysOf(plan) : DepsOf(plan, k) \subseteq KeysOf(plan)
         /\ Parallel => \A k \in SpecialistKeys(plan) : DepsOf(plan, k) = {}
<1>1. AcceptedPlan(plan) /\ plan.steps \in Seq(StepType) /\ KeysOf(plan) \subseteq Keys
  BY PlanKeys DEF Types, PlanTypes
<1>. QED  BY <1>1, Shape, PlanFlowAssumption DEF Review, Execution, Parallel, RunsInParallel

\* A session of the scheduler has loaded the steps it will place.
LEMMA Loaded ==
  ASSUME Types, NEW x \in Thread, NEW ks \in SUBSET Keys,
         seen' = [seen EXCEPT ![x] = [Snapshot EXCEPT !.todo = ks]]
  PROVE  seen'[x].todo = ks /\ seen'[x].pending = None /\ seen'[x].step = step
<1>. DEFINE new == [Snapshot EXCEPT !.todo = ks]
<1>1. new.todo = ks /\ new.pending = None /\ new.step = step
  BY DEF Snapshot, NothingSeen
<1>2. seen'[x] = new  BY DEF Types, GraphTypes
<1>. HIDE DEF new
<1>. QED  BY <1>1, <1>2

\* It starts on steps that are in their turn.
LEMMA ScheduleStarts ==
  ASSUME Types, Kept, UNCHANGED <<tables, checkpoint>>, NEW x \in Thread,
         RunsScheduler(x, {"prepare", "wave_prepare"}),
         NEW w \in SUBSET KeysOf(plan), NEW ks \in SUBSET w, ks # {},
         refused \cap w = {}, w \ ks \subseteq Begun, ks \cap Begun = {},
         \A k \in ks : DepsOf(plan, k) \subseteq Done,
         seen' = [seen EXCEPT ![x] = [Snapshot EXCEPT !.todo = ks]],
         call' = [call EXCEPT ![x].at.work = w], GoTo(x, "schedule")
  PROVE  CallInv(x)'
<1>. DEFINE d == call'[x]
            s == seen'[x]
<1>1. /\ call[x].todo = {None} /\ ~call[x].raised /\ call[x].graph = "run" /\ plan # NoPlan
      /\ Sync(x) /\ (call[x].at.review = "accepted" => Accepted)
      /\ call[x].at.stage \in {"prepare", "wave_prepare"}
  <2>1. {"prepare", "wave_prepare"} \cap Working = {}  BY DEF Working
  <2>. QED  BY <2>1, AtScheduler DEF RunsScheduler
<1>2. KeysOf(plan) \subseteq Keys /\ None \notin Keys /\ w \in SUBSET Execution
  BY PlanKeys, PlanFlowAssumption DEF Execution
<1>3. /\ d.todo = {None} /\ ~d.raised /\ d.graph = "run" /\ SameAt(d.at, call[x].at)
      /\ d.at.work = w /\ d.at.review = call[x].at.review
  BY <1>1, <1>2, WorkSet
<1>4. s.todo = ks /\ s.pending = None /\ s.step = step  BY <1>2, Loaded
<1>5. pc'[x] = "schedule"  BY DEF GoTo, Types, GraphTypes
<1>6. /\ plan' = plan /\ Done' = Done /\ Begun' = Begun /\ (Accepted => Accepted')
      /\ refused' = refused /\ checkpoint' = checkpoint /\ bound' = bound
  BY TablesSame DEF Kept, tables
<1>7. Unplaced(s) = ks  BY <1>4 DEF Unplaced
<1>8. \A k \in Keys : s.step[k] = "completed" => k \in Done'  BY <1>4, <1>6 DEF Done
<1>. HIDE DEF d, s
<1>9. d.at.stage \in {"prepare", "wave_prepare"}  BY <1>1, <1>3 DEF SameAt
<1>10. Sync(x)'
  <2>1. SameAt(checkpoint'["run"], d.at)  BY <1>1, <1>3, <1>6 DEF Sync, SameAt
  <2>. QED  BY <1>3, <2>1 DEF Sync, d
<1>11. GraphCall(x)'  BY <1>1, <1>3, <1>5, <1>6 DEF GraphCall, d
<1>12. ScheduleCall(x)'
  <2>1. s.pending \notin s.todo  BY <1>2, <1>4
  <2>. QED
    BY <1>2, <1>3, <1>4, <1>5, <1>6, <1>7, <1>8, <1>9, <2>1 DEF ScheduleCall, d, s
<1>13. NodesCall(x)' /\ FinalizeCall(x)' /\ pc'[x] \notin {"planned", "finish"}
  BY <1>5 DEF NodesCall, FinalizeCall
<1>. QED  BY <1>10, <1>11, <1>12, <1>13 DEF CallInv

\* It finds nothing to place.
LEMMA ScheduleSkips ==
  ASSUME Types, Kept, UNCHANGED tables, NEW x \in Thread,
         RunsScheduler(x, {"prepare", "wave_prepare"}),
         NEW w \in SUBSET KeysOf(plan), NEW next \in {"prepare", "end"} \cup Working,
         next \in Working => w \subseteq Begun /\ refused \cap w = {},
         SchedulerDone(x, next, w, None) \/ SchedulerRaises(x)
  PROVE  CallInv(x)' /\ checkpoint' = checkpoint
<1>1. /\ Sync(x) /\ call[x].graph = "run" /\ plan # NoPlan /\ SchedulerCall(x)
      /\ call[x].at.stage \in {"prepare", "wave_prepare"}
      /\ call[x].at.stage \notin Working \cup {"none", "end"} \cup Scheduled
      /\ (call[x].at.review = "accepted" => Accepted)
  <2>1. {"prepare", "wave_prepare"} \cap Working = {}  BY DEF Working
  <2>. QED  BY <2>1, AtScheduler DEF Scheduled
<1>2. /\ plan' = plan /\ Begun' = Begun /\ (Accepted => Accepted') /\ refused' = refused
  BY TablesSame DEF Kept, tables
<1>3. w \in SUBSET Execution /\ next \in Stage
  BY PlanKeys DEF Execution, Stage
<1>4. Handed(x) /\ checkpoint' = checkpoint
  <2>1. CASE SchedulerDone(x, next, w, None)
    <3>1. None \in Verdicts \cup {None, "needs_revision"} /\ None # "accepted"
      BY PlanFlowAssumption
    <3>2. PICK r \in Verdicts \cup {None, "needs_revision"} : r = None  BY <3>1
    <3>3. SchedulerDone(x, next, w, r)  BY <2>1, <3>2
    <3>4. r = "accepted" => Accepted'  BY <3>1, <3>2
    <3>5. next \in Working => w \subseteq Begun' /\ refused' \cap w = {}  BY <1>2
    <3>. QED  BY <1>1, <1>2, <1>3, <3>2, <3>3, <3>4, <3>5, DoneHands
  <2>2. CASE SchedulerRaises(x)
    <3>1. call[x].todo \subseteq {None} /\ call[x].at.work \subseteq KeysOf(plan)
      BY <1>1 DEF SchedulerCall
    <3>. QED  BY <1>1, <1>2, <2>2, <3>1, RaiseHands
  <2>. QED  BY <2>1, <2>2
<1>5. CallInv(x)'  BY <1>1, <1>4, SchedulerEnds
<1>. QED  BY <1>4, <1>5

\* prepare_step and prepare_parallel_specialists.
LEMMA PrepareKeeps ==
  ASSUME Types, Serial, Kept, NEW x \in Thread, PrepareStep(x) \/ PrepareWave(x)
  PROVE  Kept'
<1>0. Moves(x)  BY GraphMoves DEF GraphStep, Prepares
<1>1. /\ UNCHANGED tables /\ RunsScheduler(x, {"prepare", "wave_prepare"})
      /\ call[x].at.stage = "prepare" \/ (call[x].at.stage = "wave_prepare" /\ PrepareWave(x))
      /\ TableInv /\ CheckInv
  BY DEF PrepareStep, PrepareWave, RunsScheduler, Kept
<1>2. plan # NoPlan /\ checkpoint["run"].stage = call[x].at.stage /\ RunFits(checkpoint["run"])
  <2>1. {"prepare", "wave_prepare"} \cap Working = {}  BY DEF Working
  <2>. QED  BY <1>1, <2>1, AtScheduler
<1>3. /\ TableInv' /\ taskStatus' = taskStatus /\ NoneWaits  BY <1>1, TablesSame
<1>4. SUFFICES CallInv(x)' /\ checkpoint' = checkpoint
  BY <1>0, <1>1, <1>3, CheckSame, InsideKeeps
<1>5. \A k \in Keys : /\ step[k] \notin {"blocked", "failed", "cancelled"} => k \notin refused
                      /\ exec[k] = "absent" => k \notin refused
  BY <1>1 DEF TableInv, RefusedEnded, Begun
<1>6. KeysOf(plan) \subseteq Keys /\ None \notin Keys
      /\ SpecialistKeys(plan) \subseteq KeysOf(plan)
      /\ \A k \in KeysOf(plan) : DepsOf(plan, k) \subseteq Keys
  BY <1>2, Placeable
<1>7. CASE PrepareStep(x)
  <2>1. CASE NothingReady
    <3>1. PICK w \in SUBSET KeysOf(plan), next \in {"prepare", "end"} \cup Working :
            w = {} /\ next = "end"
      OBVIOUS
    <3>2. SchedulerDone(x, "end", {}, None) \/ SchedulerRaises(x)
      BY <1>7, <2>1 DEF PrepareStep
    <3>3. SchedulerDone(x, next, w, None) \/ SchedulerRaises(x)
      BY <3>1, <3>2
    <3>. QED  BY <1>1, <3>1, <3>3, ScheduleSkips DEF Working
  <2>2. CASE ~NothingReady
    <3>1. PICK k \in KeysOf(plan) : k = First(OpenSteps)
      <4>1. First(OpenSteps) \in KeysOf(plan)
        BY <2>2, FirstOpen DEF NothingReady, OpenSteps
      <4>. QED  BY <4>1
    <3>2. k \in Keys /\ k \notin refused
          /\ (exec[k] = "absent" => DepsOf(plan, k) \subseteq Done)
      BY <1>5, <1>6, <2>2, <3>1 DEF NothingReady, Done
    <3>3. PICK w \in SUBSET KeysOf(plan) : w = {k}  BY <3>1
    <3>4. CASE exec[k] # "absent"
      <4>1. PICK next \in {"prepare", "end"} \cup Working : next = "execute"  BY DEF Working
      <4>2. SchedulerDone(x, next, w, None)
        <5>1. SchedulerDone(x, "execute", {First(OpenSteps)}, None)
          BY <1>7, <2>2, <3>1, <3>4 DEF PrepareStep
        <5>. QED  BY <3>1, <3>3, <4>1, <5>1
      <4>3. w \subseteq Begun /\ refused \cap w = {}  BY <3>2, <3>3, <3>4 DEF Begun
      <4>. QED  BY <1>1, <4>2, <4>3, ScheduleSkips
    <3>5. CASE exec[k] = "absent"
      <4>1. /\ seen' = [seen EXCEPT ![x] = [Snapshot EXCEPT !.todo = w]]
            /\ call' = [call EXCEPT ![x].at.work = w]
            /\ GoTo(x, "schedule") /\ UNCHANGED checkpoint
        BY <1>7, <2>2, <3>1, <3>3, <3>5 DEF PrepareStep
      <4>2. /\ w # {} /\ refused \cap w = {} /\ w \ w \subseteq Begun /\ w \cap Begun = {}
            /\ \A j \in w : DepsOf(plan, j) \subseteq Done
        BY <3>2, <3>3, <3>5 DEF Begun
      <4>3. UNCHANGED <<tables, checkpoint>>  BY <1>1, <4>1
      <4>4. CallInv(x)'  BY <1>1, <4>1, <4>2, <4>3, ScheduleStarts
      <4>. QED  BY <4>1, <4>4
    <3>. QED  BY <3>4, <3>5
  <2>. QED  BY <2>1, <2>2
<1>8. CASE PrepareWave(x)
  <2>1. PICK wave \in SUBSET KeysOf(plan) :
          wave = {k \in SpecialistKeys(plan) : step[k] # "completed"}
    BY <1>6
  <2>2. PICK absent \in SUBSET wave : absent = {k \in wave : exec[k] = "absent"}
    OBVIOUS
  <2>3. \/ SchedulerDone(x, "prepare", {}, None)
        \/ /\ \A k \in wave : step[k] \notin {"blocked", "failed", "cancelled"}
           /\ \/ /\ absent = {}
                 /\ \/ wave = {} /\ SchedulerDone(x, "prepare", wave, None)
                    \/ SchedulerDone(x, "wave_execute", wave, None)
              \/ /\ absent # {}
                 /\ seen' = [seen EXCEPT ![x] = [Snapshot EXCEPT !.todo = absent]]
                 /\ call' = [call EXCEPT ![x].at.work = wave]
                 /\ GoTo(x, "schedule") /\ UNCHANGED checkpoint
    BY <1>8, <2>1, <2>2 DEF PrepareWave
  <2>4. CASE \A k \in wave : step[k] \notin {"blocked", "failed", "cancelled"}
    <3>1. wave \subseteq Keys /\ refused \cap wave = {} /\ wave \ absent \subseteq Begun
          /\ absent \cap Begun = {}
      BY <1>5, <1>6, <2>2, <2>4 DEF Begun
    <3>2. CASE absent = {} /\ SchedulerDone(x, "wave_execute", wave, None)
      <4>1. PICK next \in {"prepare", "end"} \cup Working : next = "wave_execute"
        BY DEF Working
      <4>2. SchedulerDone(x, next, wave, None)  BY <3>2, <4>1
      <4>. QED  BY <1>1, <3>1, <3>2, <4>2, ScheduleSkips
    <3>3. CASE SchedulerDone(x, "prepare", {}, None) \/ SchedulerDone(x, "prepare", wave, None)
      <4>1. PICK next \in {"prepare", "end"} \cup Working, w \in SUBSET KeysOf(plan) :
              next = "prepare" /\ SchedulerDone(x, next, w, None)
        <5>1. "prepare" \in {"prepare", "end"} \cup Working /\ {} \in SUBSET KeysOf(plan)
          OBVIOUS
        <5>. QED  BY <3>3, <5>1
      <4>. QED  BY <1>1, <4>1, ScheduleSkips DEF Working
    <3>4. CASE /\ absent # {}
               /\ seen' = [seen EXCEPT ![x] = [Snapshot EXCEPT !.todo = absent]]
               /\ call' = [call EXCEPT ![x].at.work = wave]
               /\ GoTo(x, "schedule") /\ UNCHANGED checkpoint
      <4>1. UNCHANGED <<tables, checkpoint>>  BY <1>1, <3>4
      <4>2. \A k \in absent : DepsOf(plan, k) \subseteq Done
        <5>1. Parallel
          BY <1>2, <1>8 DEF PrepareWave, RunsScheduler, RunFits
        <5>2. \A k \in SpecialistKeys(plan) : DepsOf(plan, k) = {}
          BY <5>1, <1>2, Placeable
        <5>. QED  BY <2>1, <5>2
      <4>3. CallInv(x)'  BY <1>1, <3>1, <3>4, <4>1, <4>2, ScheduleStarts
      <4>. QED  BY <3>4, <4>3
    <3>. QED  BY <2>3, <3>2, <3>3, <3>4
  <2>5. CASE SchedulerDone(x, "prepare", {}, None)
    <3>1. PICK next \in {"prepare", "end"} \cup Working, w \in SUBSET KeysOf(plan) :
            next = "prepare" /\ w = {}
      OBVIOUS
    <3>2. SchedulerDone(x, next, w, None)  BY <2>5, <3>1
    <3>. QED  BY <1>1, <3>1, <3>2, ScheduleSkips DEF Working
  <2>. QED  BY <2>3, <2>4, <2>5
<1>. QED  BY <1>7, <1>8

\* Between two commits of prepare_step or of prepare_parallel_specialists.
LEMMA InSchedule ==
  ASSUME Types, Kept, NEW x \in Thread, pc[x] = "schedule"
  PROVE  /\ ScheduleCall(x) /\ Sync(x) /\ call[x].graph = "run" /\ plan # NoPlan
         /\ call[x].at.stage \in {"prepare", "wave_prepare"}
         /\ call[x].at.stage \notin Working \cup {"none", "end"} \cup Scheduled
         /\ call[x].todo = {None} /\ call[x].at.work \subseteq KeysOf(plan)
         /\ (call[x].at.review = "accepted" => Accepted) /\ GraphCall(x)
<1>1. CallInv(x)  BY DEF Kept, ThreadInv, InGraph, Inside, InsidePlace
<1>2. call[x].graph \in {"planning", "run"}  BY DEF Types, GraphTypes, CallType
<1>3. call[x].graph = "run"  BY <1>1, <1>2 DEF CallInv, GraphCall
<1>4. ScheduleCall(x) /\ Sync(x) /\ GraphCall(x)  BY <1>1 DEF CallInv
<1>5. /\ call[x].at.stage \in {"prepare", "wave_prepare"}
      /\ call[x].todo = {None} /\ call[x].at.work \subseteq KeysOf(plan)
  BY <1>4 DEF ScheduleCall
<1>. QED  BY <1>3, <1>4, <1>5 DEF GraphCall, Working, Scheduled

\* A commit of Schedule: k is handed out, and n is bound to its inputs.
Places(x, k, n) ==
  /\ k # None => exec[k] = "absent"
  /\ k = Review => Evidence(seen[x])
  /\ n # None => \A c \in InputsOf(n) : bound[n][c] # 0 \/ Eligible(n, c)
  /\ step' = [j \in Keys |->
                IF j = k THEN "submitted"
                ELSE IF j = n THEN Written(seen[x].step[j], "ready", step[j]) ELSE step[j]]
  /\ exec' = IF k = None THEN exec ELSE [exec EXCEPT ![k] = "submitted"]
  /\ taskStatus' \in {taskStatus, "running"}
  /\ planStatus' = planStatus \/ planStatus' = "active"
  /\ IF n = None THEN bound' = bound ELSE Bind(n)
  /\ UNCHANGED <<plan, refused, attempt, offered, answer, store>>

\* How the thread goes on.
PlacedThread(x, n) ==
  IF n = None
  THEN \E next \in Working : SchedulerDone(x, next, call[x].at.work, None)
  ELSE /\ seen'[x].pending = n /\ seen'[x].todo = seen[x].todo \ {n}
       /\ seen'[x].step = seen[x].step
       /\ UNCHANGED <<call, checkpoint, pc>>

LEMMA ScheduleBranches ==
  ASSUME Types, NEW x \in Thread, Schedule(x)
  PROVE  /\ pc[x] = "schedule"
         /\ \/ SchedulerRaises(x) /\ UNCHANGED tables
            \/ \E k \in Keys \cup {None}, n \in Keys \cup {None} :
                 /\ k = seen[x].pending
                 /\ IF n = None THEN seen[x].todo = {} ELSE n \in seen[x].todo
                 /\ Places(x, k, n) /\ PlacedThread(x, n)
<1>. DEFINE s == seen[x]
            k == s.pending
            n == IF s.todo = {} THEN None ELSE First(s.todo)
<1>0. s \in SeenType /\ seen \in [Thread -> SeenType] /\ pc[x] = "schedule"
      /\ s.todo \subseteq KeysOf(plan) /\ s.todo \subseteq Keys
  BY DEF Types, GraphTypes, Schedule, SeenType
<1>1. n \in Keys \cup {None} /\ None \notin Keys
      /\ (IF n = None THEN s.todo = {} ELSE n \in s.todo)
  BY <1>0, PlanKeys, FirstIn, PlanFlowAssumption DEF Execution
<1>2. k \in Keys \cup {None}  BY <1>0 DEF SeenType
<1>3. CASE SchedulerRaises(x) /\ UNCHANGED tables  BY <1>0, <1>3
<1>4. CASE ~(SchedulerRaises(x) /\ UNCHANGED tables)
  <2>1. /\ k # None => exec[k] = "absent"
        /\ k = Review => Evidence(s)
        /\ n # None => \A c \in InputsOf(n) : bound[n][c] # 0 \/ Eligible(n, c)
    BY <1>4 DEF Schedule
  <2>2. /\ step' = [j \in Keys |-> IF j = k THEN "submitted"
                                   ELSE IF j = n THEN Written(s.step[j], "ready", step[j])
                                   ELSE step[j]]
        /\ exec' = IF k = None THEN exec ELSE [exec EXCEPT ![k] = "submitted"]
        /\ taskStatus' = IF k = None THEN taskStatus ELSE Written(s.task, "running", taskStatus)
        /\ planStatus' = IF s.plan = "validated" THEN "active" ELSE planStatus
        /\ UNCHANGED <<plan, refused, attempt, offered, answer, store>>
        /\ IF n = None THEN UNCHANGED bound ELSE Bind(n)
    BY <1>4 DEF Schedule
  <2>3. IF n = None
        THEN SchedulerDone(x, IF InWave(x) THEN "wave_execute" ELSE "execute",
                           call[x].at.work, None)
        ELSE /\ seen' = [seen EXCEPT ![x] =
                  [s EXCEPT !.pending = n, !.todo = @ \ {n},
                            !.task = IF k = None THEN @ ELSE "running",
                            !.plan = IF @ = "validated" THEN "active" ELSE @]]
             /\ UNCHANGED <<call, checkpoint, pc>>
    BY <1>4 DEF Schedule
  <2>. HIDE DEF n
  <2>4. Places(x, k, n)
    <3>1. taskStatus' \in {taskStatus, "running"}  BY <2>2 DEF Written
    <3>. QED  BY <2>1, <2>2, <3>1 DEF Places
  <2>5. PlacedThread(x, n)
    <3>1. CASE n = None
      <4>1. PICK next \in Working : next = (IF InWave(x) THEN "wave_execute" ELSE "execute")
        BY DEF Working
      <4>2. SchedulerDone(x, next, call[x].at.work, None)
        BY <2>3, <3>1, <4>1 DEF SchedulerDone
      <4>. QED  BY <3>1, <4>2 DEF PlacedThread
    <3>2. CASE n # None
      <4>. DEFINE task == IF k = None THEN s.task ELSE "running"
                  pl == IF s.plan = "validated" THEN "active" ELSE s.plan
                  new == [s EXCEPT !.pending = n, !.todo = @ \ {n}, !.task = task, !.plan = pl]
      <4>1. seen' = [seen EXCEPT ![x] = new] /\ UNCHANGED <<call, checkpoint, pc>>
        BY <2>3, <3>2
      <4>. HIDE DEF task, pl, s
      <4>2. new.pending = n /\ new.todo = s.todo \ {n} /\ new.step = s.step
        BY <1>0 DEF SeenType
      <4>3. seen'[x] = new
        <5>. HIDE DEF new
        <5>. QED  BY <1>0, <4>1
      <4>. HIDE DEF new
      <4>. QED  BY <3>2, <4>1, <4>2, <4>3 DEF PlacedThread, s
    <3>. QED  BY <3>1, <3>2
  <2>6. PICK kk \in Keys \cup {None}, nn \in Keys \cup {None} : kk = k /\ nn = n
    BY <1>1, <1>2
  <2>. QED  BY <1>0, <1>1, <2>4, <2>5, <2>6 DEF n
<1>. QED  BY <1>3, <1>4

\* A commit that hands out k and binds n.
LEMMA PlacesTables ==
  ASSUME Types, Kept, NEW x \in Thread, pc[x] = "schedule",
         NEW k \in Keys \cup {None}, NEW n \in Keys \cup {None}, k = seen[x].pending,
         IF n = None THEN seen[x].todo = {} ELSE n \in seen[x].todo,
         Places(x, k, n)
  PROVE  /\ Grows /\ NoneWaits /\ Done' = Done /\ Begun' = Begun \cup ({k} \ {None})
         /\ \A j \in Begun' \ Begun : DepsOf(plan, j) \subseteq Done
         /\ TableInv' /\ CheckInv /\ (checkpoint' = checkpoint => CheckInv')
         /\ n # None => \A c \in InputsOf(n) : bound'[n][c] # 0
<1>. DEFINE s == seen[x]
            at == call[x].at
<1>1. TableInv /\ CheckInv /\ plan # NoPlan /\ ScheduleCall(x)  BY InSchedule DEF Kept
<1>2. /\ Unplaced(s) # {} /\ Unplaced(s) \subseteq at.work /\ at.work \subseteq KeysOf(plan)
      /\ refused \cap at.work = {} /\ Unplaced(s) \cap Begun = {} /\ s.pending \notin s.todo
      /\ \A j \in Unplaced(s) : DepsOf(plan, j) \subseteq Done
      /\ \A j \in Keys : s.step[j] = "completed" => j \in Done
      /\ s.pending # None => \A c \in InputsOf(s.pending) : bound[s.pending][c] # 0
  BY <1>1 DEF ScheduleCall
<1>3. /\ AcceptedPlan(plan) /\ plan.steps \in Seq(StepType) /\ None \notin Keys
      /\ KeysOf(plan) \subseteq Keys /\ SpecialistKeys(plan) \subseteq KeysOf(plan)
      /\ \A j \in KeysOf(plan) : DepsOf(plan, j) \subseteq KeysOf(plan)
  BY <1>1, Placeable
<1>4. (k # None => k \in Unplaced(s)) /\ (n # None => n \in Unplaced(s) /\ n # k)
  BY <1>2 DEF Unplaced
<1>5. /\ \A j \in Unplaced(s) : j \in KeysOf(plan) /\ j \notin Begun /\ j \notin Done
                                /\ j \notin refused
  <2>1. Done \subseteq Begun  BY <1>1 DEF TableInv, DoneWell, Begun, Done
  <2>. QED  BY <1>2, <2>1
<1>6. ~Accepted  BY <1>1, <1>2, <1>5, AcceptedAll DEF TableInv
<1>. HIDE DEF s, at
<1>7. UNCHANGED <<plan, refused, answer, store>>
  BY DEF Places
<1>8. /\ \A j \in Execution : j # k => exec'[j] = exec[j]
      /\ k # None => exec[k] = "absent" /\ exec'[k] = "submitted"
  BY PlanFlowAssumption DEF Places, Types, TaskTypes, Execution
<1>9. /\ \A j \in Keys : j # k /\ j # n => step'[j] = step[j]
      /\ \A j \in Keys : j = k \/ j = n => step'[j] \in {"submitted", "ready", step[j]}
  BY DEF Places, Written
<1>10. Done' = Done
  <2>1. \A j \in Keys : step'[j] = "completed" <=> step[j] = "completed"
    <3>. SUFFICES ASSUME NEW j \in Keys
                  PROVE  step'[j] = "completed" <=> step[j] = "completed"
      OBVIOUS
    <3>1. CASE j = k \/ j = n
      <4>1. j \in Unplaced(s)  BY <1>3, <1>4, <3>1
      <4>2. step[j] # "completed"  BY <1>5, <4>1 DEF Done
      <4>. QED  BY <1>9, <3>1, <4>2
    <3>2. CASE j # k /\ j # n  BY <1>9, <3>2
    <3>. QED  BY <3>1, <3>2
  <2>. QED  BY <2>1 DEF Done
<1>11. Begun' = Begun \cup ({k} \ {None})
  <2>1. \A j \in Keys : exec'[j] # "absent" <=> exec[j] # "absent" \/ j = k
    BY <1>3, <1>8 DEF Execution
  <2>. QED  BY <1>3, <2>1 DEF Begun
<1>12. Accepted' = Accepted  BY <1>7, <1>10 DEF Accepted, Review
<1>13. \A j \in Keys, c \in Contract :
         /\ bound[j][c] # 0 => bound'[j][c] = bound[j][c]
         /\ bound'[j][c] # bound[j][c] =>
              j = n /\ c \in InputsOf(n) /\ bound'[j][c] = Len(store[c])
         /\ j = n /\ c \in InputsOf(n) => bound'[j][c] # 0 \/ store[c] = <<>>
  <2>1. CASE n = None  BY <1>3, <2>1 DEF Places
  <2>2. CASE n # None
    <3>1. n \in Keys /\ Bind(n) /\ store' = store  BY <2>2 DEF Places
    <3>2. PICK m \in Keys : m = n /\ Bind(m) /\ store' = store  BY <3>1
    <3>3. /\ bound' \in [Keys -> [Contract -> Nat]]
          /\ \A j \in Keys, c \in Contract :
               /\ bound'[j][c] \in 0..Len(store'[c])
               /\ bound[j][c] # 0 => bound'[j][c] = bound[j][c]
               /\ bound'[j][c] # bound[j][c] =>
                    j = m /\ c \in InputsOf(m) /\ bound'[j][c] = Len(store[c])
               /\ j = m /\ c \in InputsOf(m) => bound'[j][c] # 0 \/ store[c] = <<>>
      BY <3>2, BindEffect
    <3>. QED  BY <3>2, <3>3
  <2>. QED  BY <2>1, <2>2
<1>14. Grows
  <2>1. StoreGrows  BY <1>7 DEF StoreGrows
  <2>. QED  BY <1>7, <1>10, <1>11, <1>12, <1>13, <2>1 DEF Grows
<1>15. NoneWaits
  <2>1. \A e \in Execution : e = k => exec'[e] # "waiting"
    BY <1>3, <1>8, PlanFlowAssumption DEF Execution
  <2>. QED  BY <1>8, <2>1 DEF NoneWaits
<1>16. \A ks : AnswersStay(ks)  BY <1>7 DEF AnswersStay
<1>17. n # None => \A c \in InputsOf(n) : bound'[n][c] # 0
  <2>. SUFFICES ASSUME n # None, NEW c \in InputsOf(n)  PROVE bound'[n][c] # 0
    OBVIOUS
  <2>1. n \in KeysOf(plan) /\ n \in Keys /\ c \in Contract
    BY <1>3, <1>4, <1>5, StepFields DEF InputsOf
  <2>2. bound[n][c] # 0 \/ Eligible(n, c)  BY DEF Places
  <2>. QED  BY <1>13, <2>1, <2>2 DEF Eligible
<1>18. DoneWell' /\ RefusedEnded' /\ AnswersFit' /\ Judged' /\ BegunPlanned' /\ Unbound'
  <2>1. \A j \in Done : j \in Keys /\ j \in Execution /\ j # k
    BY <1>3, <1>4, <1>5, PlanFlowAssumption DEF Done, Execution
  <2>2. DoneWell'  BY <1>1, <1>7, <1>8, <1>10, <2>1 DEF TableInv, DoneWell
  <2>3. \A j \in refused \cap Keys : j # k /\ j # n  BY <1>3, <1>4, <1>5
  <2>4. RefusedEnded'  BY <1>1, <1>7, <1>9, <1>11, <2>3 DEF TableInv, RefusedEnded
  <2>5. AnswersFit'
    <3>1. \A j \in Keys : j \in Execution /\ (exec[j] = "completed" => exec'[j] = "completed")
      BY <1>3, <1>8 DEF Execution
    <3>2. Review' = Review  BY <1>7 DEF Review
    <3>. QED  BY <1>1, <1>7, <3>1, <3>2 DEF TableInv, AnswersFit
  <2>6. Judged'  BY <1>6, <1>12 DEF Judged
  <2>7. BegunPlanned'  BY <1>1, <1>4, <1>5, <1>7, <1>11 DEF TableInv, BegunPlanned
  <2>8. Unbound'  BY <1>1, <1>7 DEF Unbound
  <2>. QED  BY <2>2, <2>4, <2>5, <2>6, <2>7, <2>8
<1>19. \A j \in Begun' \ Begun :
         /\ DepsOf(plan, j) \subseteq Done'
         /\ j = Review => SpecialistKeys(plan) \subseteq Done'
         /\ \A c \in InputsOf(j) : bound'[j][c] # 0
  <2>. SUFFICES ASSUME k # None
                PROVE  /\ DepsOf(plan, k) \subseteq Done'
                       /\ k = Review => SpecialistKeys(plan) \subseteq Done'
                       /\ \A c \in InputsOf(k) : bound'[k][c] # 0
    BY <1>11
  <2>1. DepsOf(plan, k) \subseteq Done'  BY <1>2, <1>4, <1>10
  <2>2. k = Review => SpecialistKeys(plan) \subseteq Done'
    <3>. SUFFICES ASSUME k = Review  PROVE SpecialistKeys(plan) \subseteq Done
      BY <1>10
    <3>1. \A j \in SpecialistKeys(plan) : s.step[j] = "completed"
      BY DEF Places, Evidence, s
    <3>. QED  BY <1>2, <1>3, <3>1
  <2>3. \A c \in InputsOf(k) : bound'[k][c] # 0
    <3>1. k \in KeysOf(plan) /\ k \in Keys /\ \A c \in InputsOf(k) : c \in Contract
      BY <1>3, <1>4, <1>5, StepFields DEF InputsOf
    <3>2. \A c \in InputsOf(k) : bound[k][c] # 0  BY <1>2 DEF s
    <3>. QED  BY <1>13, <3>1, <3>2
  <2>. QED  BY <2>1, <2>2, <2>3
<1>20. OrderKept'  BY <1>1, <1>14, <1>19, OrderStays DEF TableInv
<1>21. BoundWell'
  <2>1. ASSUME NEW j \in KeysOf(plan), NEW c \in InputsOf(j), NEW i, bound'[j][c] = i,
               bound[j][c] # i
        PROVE  Sourced(j, c, i)'
    <3>1. j \in Keys /\ c \in Contract  BY <1>3, StepFields DEF InputsOf
    <3>2. j = n /\ c \in InputsOf(n) /\ i = Len(store[c]) /\ bound[n][c] = 0 /\ n \in Unplaced(s)
      BY <1>3, <1>4, <1>13, <2>1, <3>1
    <3>3. Eligible(n, c)  BY <1>3, <2>1, <3>1, <3>2 DEF Places
    <3>4. CASE store[c][i].by = None /\ c \in plan.initial
      BY <1>7, <3>4 DEF Sourced
    <3>5. CASE store[c][i].by \in AncestorSteps(plan, n)
      <4>. DEFINE S == Done \cap KeysOf(plan)
      <4>1. DepsOf(plan, n) \subseteq S  BY <1>2, <1>3, <2>1, <3>2
      <4>2. \A d \in S : DepsOf(plan, d) \subseteq S
        <5>1. \A d \in S : d \in Begun  BY <1>1 DEF TableInv, DoneWell, Begun, Done
        <5>. QED  BY <1>1, <1>3, <5>1 DEF TableInv, OrderKept
      <4>3. S \in SUBSET KeysOf(plan) /\ n \in KeysOf(plan)  BY <2>1, <3>2
      <4>. HIDE DEF S
      <4>4. AncestorSteps(plan, n) \subseteq S
        <5>1. PICK m \in KeysOf(plan) : m = n  BY <4>3
        <5>. QED  BY <1>3, <4>1, <4>2, <4>3, <5>1, SearchIsLeast
      <4>5. AncestorSteps(plan, n) \subseteq Ancestors(plan)[n]
        <5>1. PICK m \in KeysOf(plan) : m = n  BY <4>3
        <5>. QED  BY <1>3, <5>1, SearchFindsAncestors
      <4>6. store[c][i].by \in Ancestors(plan)[j] \cap Done
        BY <3>2, <3>5, <4>4, <4>5 DEF S
      <4>. QED  BY <1>7, <1>10, <4>6 DEF Sourced
    <3>. QED  BY <3>2, <3>3, <3>4, <3>5 DEF Eligible
  <2>. QED  BY <1>1, <1>14, <2>1, BoundKept DEF TableInv
<1>22. TableInv'  BY <1>18, <1>20, <1>21 DEF TableInv
<1>23. checkpoint' = checkpoint => CheckInv'
  <2>. SUFFICES ASSUME checkpoint' = checkpoint  PROVE CheckInv'
    OBVIOUS
  <2>1. PICK c : c = checkpoint["run"] /\ c = checkpoint'["run"]  OBVIOUS
  <2>2. RunFits(c)'
    <3>1. RunFits(c)  BY <1>1, <2>1 DEF CheckInv
    <3>2. c.stage \in Working => refused' \cap (c.work \ c.done) = {}
      BY <1>7, <3>1 DEF RunFits
    <3>. QED  BY <1>14, <1>16, <3>1, <3>2, RunFitsKept
  <2>3. RunFits(checkpoint["run"])'  BY <2>1, <2>2 DEF RunFits, ResultsFit, Reported
  <2>4. PICK d : d = checkpoint["planning"] /\ d = checkpoint'["planning"]  OBVIOUS
  <2>5. PlanningFits(d)'  BY <1>1, <1>7, <2>4 DEF CheckInv, PlanningFits
  <2>6. PlanningFits(checkpoint["planning"])'  BY <2>4, <2>5 DEF PlanningFits
  <2>7. WaitingFits'  BY <1>1, <1>15 DEF CheckInv, WaitingFits, NoneWaits
  <2>. QED  BY <2>3, <2>6, <2>7 DEF CheckInv
<1>24. \A j \in Begun' \ Begun : DepsOf(plan, j) \subseteq Done  BY <1>10, <1>19
<1>. QED  BY <1>1, <1>10, <1>11, <1>14, <1>15, <1>17, <1>22, <1>23, <1>24

\* prepare_step and prepare_parallel_specialists commit.
LEMMA ScheduleKeeps ==
  ASSUME Types, Serial, Kept, NEW x \in Thread, Schedule(x)
  PROVE  /\ Kept' /\ plan' = plan /\ Done' = Done /\ Begun \subseteq Begun'
         /\ \A j \in Begun' \ Begun : DepsOf(plan, j) \subseteq Done
<1>0. Moves(x)  BY GraphMoves DEF GraphStep, Prepares
<1>1. pc[x] = "schedule"  BY DEF Schedule
<1>2. /\ ScheduleCall(x) /\ Sync(x) /\ call[x].graph = "run" /\ plan # NoPlan
      /\ call[x].at.stage \in {"prepare", "wave_prepare"}
      /\ call[x].at.stage \notin Working \cup {"none", "end"} \cup Scheduled
      /\ call[x].todo = {None} /\ call[x].at.work \subseteq KeysOf(plan)
      /\ (call[x].at.review = "accepted" => Accepted)
  BY <1>1, InSchedule
<1>3. TableInv /\ CheckInv  BY DEF Kept
<1>4. CASE SchedulerRaises(x) /\ UNCHANGED tables
  <2>1. /\ TableInv' /\ taskStatus' = taskStatus /\ NoneWaits /\ plan' = plan
        /\ (Accepted => Accepted') /\ Done' = Done /\ Begun' = Begun
    BY <1>3, <1>4, TablesSame DEF tables
  <2>2. Handed(x) /\ checkpoint' = checkpoint
    <3>1. call[x].todo \subseteq {None} /\ call[x].at.stage \notin Scheduled  BY <1>2
    <3>. QED  BY <1>2, <1>4, <2>1, <3>1, RaiseHands
  <2>3. CallInv(x)'  BY <1>2, <2>2, SchedulerEnds
  <2>4. CheckInv'  BY <1>3, <1>4, <2>2, CheckSame
  <2>. QED  BY <1>0, <2>1, <2>3, <2>4, InsideKeeps
<1>5. ASSUME NEW k \in Keys \cup {None}, NEW n \in Keys \cup {None},
             k = seen[x].pending,
             IF n = None THEN seen[x].todo = {} ELSE n \in seen[x].todo,
             Places(x, k, n), PlacedThread(x, n)
      PROVE  /\ Kept' /\ plan' = plan /\ Done' = Done /\ Begun \subseteq Begun'
             /\ \A j \in Begun' \ Begun : DepsOf(plan, j) \subseteq Done
  <2>1. /\ Grows /\ NoneWaits /\ Done' = Done /\ Begun' = Begun \cup ({k} \ {None})
        /\ \A j \in Begun' \ Begun : DepsOf(plan, j) \subseteq Done
        /\ TableInv' /\ CheckInv /\ (checkpoint' = checkpoint => CheckInv')
        /\ n # None => \A c \in InputsOf(n) : bound'[n][c] # 0
    BY <1>1, <1>5, PlacesTables
  <2>2. /\ taskStatus' \in {taskStatus, "running"} /\ refused' = refused /\ plan' = plan
    BY <1>5 DEF Places
  <2>3. Accepted => Accepted'  BY <2>1 DEF Grows
  <2>4. /\ Unplaced(seen[x]) # {} /\ Unplaced(seen[x]) \subseteq call[x].at.work
        /\ refused \cap call[x].at.work = {} /\ Unplaced(seen[x]) \cap Begun = {}
        /\ call[x].at.work \ Unplaced(seen[x]) \subseteq Begun
        /\ seen[x].pending \notin seen[x].todo
        /\ \A j \in Unplaced(seen[x]) : DepsOf(plan, j) \subseteq Done
        /\ \A j \in Keys : seen[x].step[j] = "completed" => j \in Done
        /\ ~call[x].raised
    BY <1>1, <1>2 DEF ScheduleCall
  <2>5. None \notin Keys /\ seen[x].todo \subseteq Keys
    BY PlanFlowAssumption DEF Execution, Types, GraphTypes, SeenType
  <2>6. CallInv(x)' /\ checkpoint' = checkpoint
    <3>1. CASE n = None
      <4>1. PICK next \in Working : SchedulerDone(x, next, call[x].at.work, None)
        BY <1>5, <3>1 DEF PlacedThread
      <4>2. PICK m \in Stage, w \in SUBSET Execution, r \in Verdicts \cup {None, "needs_revision"} :
              m = next /\ w = call[x].at.work /\ r = None
        BY DEF Stage, Types, GraphTypes, CallType, Checkpoint
      <4>3. SchedulerDone(x, m, w, r)  BY <4>1, <4>2 DEF SchedulerDone
      <4>4. w \subseteq Begun' /\ refused' \cap w = {}
        <5>1. Unplaced(seen[x]) \subseteq {k} \ {None}  BY <1>5, <3>1 DEF Unplaced
        <5>. QED  BY <2>1, <2>2, <2>4, <4>2, <5>1
      <4>5. r # "accepted"  BY <4>2, PlanFlowAssumption
      <4>6. /\ w \subseteq KeysOf(plan) /\ (r = "accepted" => Accepted')
            /\ (call[x].at.stage \in Scheduled => w = checkpoint["run"].work)
            /\ m \in {"prepare", "end"} \cup Working
            /\ (m \in Working => w \subseteq Begun' /\ refused' \cap w = {})
        BY <1>2, <4>2, <4>4, <4>5
      <4>7. Handed(x) /\ checkpoint' = checkpoint
        BY <2>2, <4>3, <4>6, DoneHands
      <4>. QED  BY <1>2, <4>7, SchedulerEnds
    <3>2. CASE n # None
      <4>. DEFINE s == seen'[x]
      <4>1. /\ s.pending = n /\ s.todo = seen[x].todo \ {n} /\ s.step = seen[x].step
            /\ UNCHANGED <<call, checkpoint, pc>>
        BY <1>5, <3>2 DEF PlacedThread
      <4>2. Unplaced(s) = seen[x].todo /\ n \in seen[x].todo
        BY <1>5, <3>2, <4>1 DEF Unplaced
      <4>3. seen[x].todo \subseteq Unplaced(seen[x])
            /\ Unplaced(seen[x]) \ seen[x].todo \subseteq {k} \ {None} /\ k \notin seen[x].todo
        BY <1>5, <2>4 DEF Unplaced
      <4>4. n \in Keys /\ \A c \in InputsOf(n) : bound'[n][c] # 0  BY <2>1, <3>2
      <4>. HIDE DEF s
      <4>5. ScheduleCall(x)'
        <5>1. /\ Unplaced(s) # {} /\ Unplaced(s) \subseteq call[x].at.work
              /\ call[x].at.work \ Unplaced(s) \subseteq Begun' /\ Unplaced(s) \cap Begun' = {}
              /\ s.pending \notin s.todo
              /\ \A j \in Unplaced(s) : DepsOf(plan, j) \subseteq Done'
          BY <2>1, <2>4, <4>1, <4>2, <4>3
        <5>2. /\ \A j \in Keys : s.step[j] = "completed" => j \in Done'
              /\ \A c \in InputsOf(s.pending) : bound'[s.pending][c] # 0
          BY <2>1, <2>4, <4>1, <4>4
        <5>3. \A j : InputsOf(j)' = InputsOf(j)  BY <2>2 DEF InputsOf
        <5>. QED  BY <1>2, <2>2, <2>4, <4>1, <5>1, <5>2, <5>3 DEF ScheduleCall, s
      <4>6. Sync(x)'  BY <1>2, <4>1 DEF Sync
      <4>7. GraphCall(x)'  BY <1>1, <1>2, <2>2, <2>3, <4>1 DEF GraphCall
      <4>8. NodesCall(x)' /\ FinalizeCall(x)' /\ pc'[x] \notin {"planned", "finish"}
        BY <1>1, <4>1 DEF NodesCall, FinalizeCall
      <4>. QED  BY <4>1, <4>5, <4>6, <4>7, <4>8 DEF CallInv
    <3>. QED  BY <3>1, <3>2
  <2>7. \/ taskStatus' = taskStatus \/ taskStatus' \notin {"completed", "cancelled"}
    BY <2>2
  <2>. QED  BY <1>0, <2>1, <2>2, <2>6, <2>7, InsideKeeps
<1>. QED  BY <1>4, <1>5, ScheduleBranches

\* Inside finalize_step or finalize_parallel_specialists.
LEMMA InFinalize ==
  ASSUME Types, Kept, NEW x \in Thread, pc[x] \in {"finalize", "complete"}
  PROVE  /\ FinalizeCall(x) /\ Sync(x) /\ call[x].graph = "run" /\ plan # NoPlan
         /\ call[x].at.stage \in Scheduled
         /\ call[x].at.stage \notin Working \cup {"none", "end"}
         /\ call[x].todo = {None} /\ ~call[x].raised
         /\ call[x].at.work = checkpoint["run"].work /\ call[x].at.work \subseteq KeysOf(plan)
         /\ call[x].at.work \subseteq Begun /\ Reported(checkpoint["run"]) = call[x].at.work
         /\ checkpoint["run"].stage \in Scheduled
         /\ (call[x].at.review = "accepted" => Accepted)
         /\ RunFits(checkpoint["run"])
         /\ checkpoint["run"].results = call[x].at.results
<1>1. CallInv(x)  BY DEF Kept, ThreadInv, InGraph, Inside, InsidePlace
<1>2. call[x].graph \in {"planning", "run"}  BY DEF Types, GraphTypes, CallType
<1>3. call[x].graph = "run"  BY <1>1, <1>2 DEF CallInv, GraphCall
<1>4. FinalizeCall(x) /\ Sync(x) /\ GraphCall(x)  BY <1>1 DEF CallInv
<1>5. /\ call[x].at.stage \in Scheduled /\ call[x].at.work = checkpoint["run"].work
      /\ call[x].todo = {None} /\ ~call[x].raised
  BY <1>4 DEF FinalizeCall
<1>6. checkpoint["run"].stage = call[x].at.stage
      /\ checkpoint["run"].results = call[x].at.results
  BY <1>3, <1>4 DEF Sync, SameAt
<1>7. RunFits(checkpoint["run"])  BY DEF Kept, CheckInv
<1>8. call[x].at.stage \notin Working \cup {"none", "end"}  BY <1>5 DEF Scheduled, Working
<1>9. call[x].at.work \subseteq KeysOf(plan) /\ call[x].at.work \subseteq Begun
  BY <1>5, <1>6, <1>7 DEF RunFits
<1>10. Reported(checkpoint["run"]) = call[x].at.work  BY <1>5, <1>6, <1>8 DEF Reported
<1>. QED
  BY <1>3, <1>4, <1>5, <1>6, <1>7, <1>8, <1>9, <1>10 DEF GraphCall

\* The delivery that is handled: its step was handed out and did not deliver, and
\* what the graph has of it is what its Turn answered, where that matters.
LEMMA InComplete ==
  ASSUME Types, Kept, NEW x \in Thread, pc[x] = "complete",
         NEW k, k = First(seen[x].todo)
  PROVE  /\ k \in KeysOf(plan) /\ k \in Keys /\ k \in call[x].at.work /\ k \in Begun
         /\ k \notin Done /\ ~Accepted
         /\ call[x].at.results[k].says \in Good \/ answer[k].says \in Good =>
              call[x].at.results[k] = answer[k]
         /\ seen[x].step[k] \in {"blocked", "failed"} => step[k] = seen[x].step[k]
         /\ seen[x].pending \in {None, k}
         /\ seen[x].pending # None => call[x].at.results[k].says = "valid"
<1>1. k \in KeysOf(plan) /\ k \in Keys /\ k \in seen[x].todo  BY SeenFirst
<1>2. /\ FinalizeCall(x) /\ Reported(checkpoint["run"]) = call[x].at.work
      /\ call[x].at.work \subseteq Begun /\ checkpoint["run"].results = call[x].at.results
      /\ RunFits(checkpoint["run"])
  BY InFinalize
<1>3. /\ seen[x].todo \subseteq call[x].at.work /\ k \notin Done
      /\ seen[x].step[k] \in {"blocked", "failed"} => step[k] = seen[x].step[k]
      /\ seen[x].pending \in {None, k}
      /\ seen[x].pending # None => call[x].at.results[k].says = "valid"
  BY <1>2 DEF FinalizeCall
<1>4. call[x].at.results[k].says \in Good \/ answer[k].says \in Good =>
        call[x].at.results[k] = answer[k]
  BY <1>1, <1>2, <1>3 DEF RunFits, ResultsFit
<1>5. ~Accepted  BY <1>1, <1>3, AcceptedAll DEF Kept, TableInv
<1>. QED  BY <1>1, <1>2, <1>3, <1>4, <1>5

\* The thread goes on to the next delivery, or to the end of the superstep.
LEMMA HandlesCall ==
  ASSUME Types, Kept, NEW x \in Thread, pc[x] \in {"finalize", "complete"}, NEW review,
         Handles(x, review), plan' = plan, Accepted => Accepted',
         review = "accepted" => Accepted'
  PROVE  CallInv(x)' /\ checkpoint' = checkpoint
<1>. DEFINE d == call'[x]
<1>1. /\ FinalizeCall(x) /\ Sync(x) /\ call[x].graph = "run" /\ plan # NoPlan
      /\ call[x].at.stage \in Scheduled
      /\ call[x].at.stage \notin Working \cup {"none", "end"}
      /\ call[x].todo = {None} /\ ~call[x].raised
      /\ call[x].at.work = checkpoint["run"].work /\ call[x].at.work \subseteq KeysOf(plan)
      /\ (call[x].at.review = "accepted" => Accepted)
  BY InFinalize
<1>2. /\ checkpoint' = checkpoint /\ d.graph = call[x].graph /\ SameAt(d.at, call[x].at)
      /\ d.at.work = call[x].at.work /\ d.at.review \in {call[x].at.review, review}
      /\ \/ /\ pc'[x] = "finalize" /\ seen'[x].pending = None
            /\ seen'[x].todo = seen[x].todo \ {First(seen[x].todo)}
            /\ d.todo = call[x].todo /\ d.raised = call[x].raised
         \/ /\ pc'[x] = "nodes" /\ d.todo \in {{}, call[x].todo \ {None}}
            /\ d.raised \/ d.next \in {"end", "prepare"}
  BY DEF Handles
<1>3. d.at.review = "accepted" => Accepted'  BY <1>1, <1>2
<1>. HIDE DEF d
<1>4. d.at.stage = call[x].at.stage  BY <1>2 DEF SameAt
<1>5. CASE pc'[x] = "nodes"
  <2>1. d.todo = {} /\ (d.raised \/ d.next \in {"end", "prepare"})
    BY <1>1, <1>2, <1>5
  <2>2. d.raised \/ (d.next \in {"prepare", "end"} /\ d.next \notin Working)
    BY <2>1 DEF Working
  <2>3. Handed(x)  BY <1>1, <1>2, <1>3, <1>5, <2>1, <2>2 DEF Handed, d
  <2>. QED  BY <1>1, <1>2, <2>3, SchedulerEnds
<1>6. CASE pc'[x] = "finalize"
  <2>1. /\ seen'[x].pending = None /\ d.todo = {None} /\ ~d.raised
        /\ seen'[x].todo \subseteq d.at.work
    <3>1. seen[x].todo \subseteq call[x].at.work  BY <1>1 DEF FinalizeCall
    <3>. QED  BY <1>1, <1>2, <1>6, <3>1
  <2>2. FinalizeCall(x)'  BY <1>1, <1>2, <1>4, <1>6, <2>1 DEF FinalizeCall, d
  <2>3. Sync(x)'
    <3>1. SameAt(checkpoint'["run"], d.at)  BY <1>1, <1>2 DEF Sync, SameAt
    <3>. QED  BY <1>1, <1>2, <3>1 DEF Sync, d
  <2>4. GraphCall(x)'  BY <1>1, <1>2, <1>3, <1>6 DEF GraphCall, d
  <2>5. NodesCall(x)' /\ ScheduleCall(x)' /\ pc'[x] \notin {"planned", "finish"}
    BY <1>6 DEF NodesCall, ScheduleCall
  <2>. QED  BY <1>2, <2>2, <2>3, <2>4, <2>5 DEF CallInv
<1>. QED  BY <1>2, <1>5, <1>6

\* Nothing that a thread handles here is running.
LEMMA FinalTables ==
  ASSUME Types, Kept, NEW x \in Thread, pc[x] \in {"finalize", "complete"},
         checkpoint' = checkpoint, UNCHANGED <<plan, exec, bound>>, StoreGrows,
         Done \subseteq Done', Accepted => Accepted', AnswersStay(call[x].at.work),
         DoneWell', RefusedEnded', AnswersFit', Judged'
  PROVE  TableInv' /\ CheckInv' /\ NoneWaits
<1>1. TableInv /\ CheckInv  BY DEF Kept
<1>2. Begun' = Begun  BY DEF Begun
<1>3. Grows  BY <1>2 DEF Grows
<1>4. NoneWaits  BY DEF NoneWaits
<1>5. TableInv'
  <2>1. BegunPlanned' /\ Unbound'
    BY <1>1, <1>2 DEF TableInv, BegunPlanned, Unbound
  <2>2. OrderKept'  BY <1>1, <1>2, <1>3, OrderStays DEF TableInv
  <2>3. BoundWell'  BY <1>1, <1>3, BoundKept DEF TableInv
  <2>. QED  BY <2>1, <2>2, <2>3 DEF TableInv
<1>6. CheckInv'
  <2>1. PICK c : c = checkpoint["run"] /\ c = checkpoint'["run"]  OBVIOUS
  <2>2. /\ c.stage \in Scheduled /\ RunFits(c) /\ Reported(c) = call[x].at.work
    BY <2>1, InFinalize
  <2>3. c.stage \notin Working  BY <2>2 DEF Scheduled, Working
  <2>4. RunFits(c)'  BY <1>3, <2>2, <2>3, RunFitsKept
  <2>5. RunFits(checkpoint["run"])'  BY <2>1, <2>4 DEF RunFits, ResultsFit, Reported
  <2>6. PICK d : d = checkpoint["planning"] /\ d = checkpoint'["planning"]  OBVIOUS
  <2>7. PlanningFits(d)'  BY <1>1, <2>6 DEF CheckInv, PlanningFits
  <2>8. PlanningFits(checkpoint["planning"])'  BY <2>6, <2>7 DEF PlanningFits
  <2>9. WaitingFits'  BY <1>1 DEF CheckInv, WaitingFits
  <2>. QED  BY <2>5, <2>8, <2>9 DEF CheckInv
<1>. QED  BY <1>4, <1>5, <1>6

\* One step delivers, or its delivery is refused.
OneDelivers(x, k) ==
  /\ call[x].at.results[k].says \in Good /\ step'[k] = "completed"
  /\ UNCHANGED <<refused, answer>>
OneRefused(x, k) ==
  /\ call[x].at.results[k].says \notin Good /\ step'[k] \in {"blocked", "failed"}
  /\ refused' = refused \cup {k}
  /\ answer'[k] = answer[k] \/ answer'[k].says \notin Good

LEMMA OneEnds ==
  ASSUME Types, Kept, NEW x \in Thread, pc[x] = "complete",
         NEW k, k = First(seen[x].todo), UNCHANGED <<plan, exec>>,
         \A j \in Keys \ {k} : step'[j] = step[j] /\ answer'[j] = answer[j],
         OneDelivers(x, k) \/ OneRefused(x, k)
  PROVE  /\ (OneDelivers(x, k) => Done' = Done \cup {k} /\ answer[k] = call[x].at.results[k]
                                  /\ (answer[k].says \in Verdict => k = Review))
         /\ (OneRefused(x, k) => Done' = Done)
         /\ Done \subseteq Done' /\ k \in Begun \ Done
         /\ AnswersStay(call[x].at.work) /\ DoneWell' /\ RefusedEnded' /\ AnswersFit'
         /\ (Accepted' <=> k = Review /\ Review \in Done' /\ answer[k].says = "accepted")
<1>1. /\ k \in KeysOf(plan) /\ k \in Keys /\ k \in call[x].at.work /\ k \in Begun
      /\ k \notin Done /\ ~Accepted
      /\ call[x].at.results[k].says \in Good \/ answer[k].says \in Good =>
           call[x].at.results[k] = answer[k]
  BY InComplete
<1>2. TableInv /\ call[x].at.work \subseteq Keys /\ plan # NoPlan
  BY InFinalize, PlanKeys DEF Kept
<1>3. \A j \in Keys \ {k} : step'[j] = step[j] /\ answer'[j] = answer[j]  OBVIOUS
<1>4. Begun' = Begun /\ Review' = Review  BY DEF Begun, Review
<1>5. CASE OneDelivers(x, k)
  <2>1. step'[k] = "completed" /\ refused' = refused /\ answer' = answer
        /\ answer[k] = call[x].at.results[k] /\ answer[k].says \in Good
    BY <1>1, <1>5 DEF OneDelivers
  <2>2. exec[k] = "completed" /\ k \notin refused /\ (answer[k].says \in Verdict => k = Review)
    BY <1>1, <1>2, <2>1 DEF TableInv, AnswersFit
  <2>3. Done' = Done \cup {k}  BY <1>1, <1>3, <2>1 DEF Done
  <2>4. DoneWell'  BY <1>2, <2>1, <2>2, <2>3 DEF TableInv, DoneWell
  <2>5. RefusedEnded'
    BY <1>1, <1>2, <1>3, <1>4, <2>1, <2>2 DEF TableInv, RefusedEnded
  <2>6. AnswersFit'  BY <1>2, <1>4, <2>1 DEF TableInv, AnswersFit
  <2>7. AnswersStay(call[x].at.work)  BY <2>1 DEF AnswersStay
  <2>8. Accepted' <=> k = Review /\ Review \in Done' /\ answer[k].says = "accepted"
    BY <1>1, <1>2, <1>4, <2>1, <2>2, <2>3 DEF Accepted, Verdict
  <2>9. ~OneRefused(x, k)  BY <1>5 DEF OneDelivers, OneRefused
  <2>. QED  BY <1>1, <2>1, <2>2, <2>3, <2>4, <2>5, <2>6, <2>7, <2>8, <2>9
<1>6. CASE OneRefused(x, k)
  <2>1. /\ step'[k] \in {"blocked", "failed"} /\ refused' = refused \cup {k}
        /\ answer'[k] = answer[k] \/ answer'[k].says \notin Good
        /\ answer[k].says \notin Good
    BY <1>1, <1>6 DEF OneRefused
  <2>2. answer'[k].says \notin Good  BY <2>1
  <2>3. Done' = Done
    <3>1. \A j \in Keys : step'[j] = "completed" <=> step[j] = "completed"
      BY <1>1, <1>3, <2>1 DEF Done
    <3>. QED  BY <3>1 DEF Done
  <2>4. DoneWell'  BY <1>1, <1>2, <2>1, <2>3 DEF TableInv, DoneWell
  <2>5. RefusedEnded'
    BY <1>1, <1>2, <1>3, <1>4, <2>1 DEF TableInv, RefusedEnded
  <2>6. AnswersFit'
    BY <1>2, <1>3, <1>4, <2>1, <2>2 DEF TableInv, AnswersFit
  <2>7. AnswersStay(call[x].at.work)
    BY <1>2, <1>3, <2>1, <2>2 DEF AnswersStay
  <2>8. ~Accepted' /\ answer[k].says # "accepted"
    <3>1. "accepted" \in Good  BY DEF Good, Verdict
    <3>2. Review \in Done => Review \in Keys \ {k}  BY <1>1 DEF Done
    <3>. QED  BY <1>1, <1>2, <1>3, <1>4, <2>1, <2>3, <3>1, <3>2 DEF Accepted
  <2>9. ~OneDelivers(x, k)  BY <1>6 DEF OneDelivers, OneRefused
  <2>. QED  BY <1>1, <2>3, <2>4, <2>5, <2>6, <2>7, <2>8, <2>9
<1>. QED  BY <1>5, <1>6

\* A delivery was handled: the thread goes on, and nothing else moves.
LEMMA HandledKeeps ==
  ASSUME Types, Serial, Kept, NEW x \in Thread, Finalizes(x),
         pc[x] \in {"finalize", "complete"}, NEW review, Handles(x, review),
         UNCHANGED <<plan, exec, bound>>, StoreGrows, Done \subseteq Done',
         Accepted => Accepted', review = "accepted" => Accepted',
         AnswersStay(call[x].at.work), DoneWell', RefusedEnded', AnswersFit', Judged',
         taskStatus' \in {taskStatus, "failed"}
  PROVE  Kept' /\ plan' = plan /\ Begun' = Begun
<1>1. Moves(x)  BY GraphMoves DEF GraphStep
<1>2. CallInv(x)' /\ checkpoint' = checkpoint  BY HandlesCall
<1>3. TableInv' /\ CheckInv' /\ NoneWaits  BY <1>2, FinalTables
<1>4. Kept'  BY <1>1, <1>2, <1>3, InsideKeeps
<1>. QED  BY <1>4 DEF Begun

\* finalize_step and finalize_parallel_specialists begin.
LEMMA StartFinalizeKeeps ==
  ASSUME Types, Serial, Kept, NEW x \in Thread, StartFinalize(x)
  PROVE  Kept' /\ plan' = plan /\ Begun' = Begun /\ Done' = Done
<1>. DEFINE s == seen'[x]
<1>0. Moves(x)  BY GraphMoves DEF GraphStep, Finalizes
<1>1. /\ UNCHANGED <<tables, checkpoint, call>> /\ RunsScheduler(x, Scheduled)
      /\ pc'[x] = "finalize" /\ TableInv /\ CheckInv
  BY DEF StartFinalize, Scheduled, GoTo, Types, GraphTypes, Kept
<1>2. /\ Sync(x) /\ GraphCall(x) /\ SchedulerCall(x) /\ ~call[x].raised
      /\ call[x].at.stage \in Scheduled /\ call[x].graph = "run" /\ plan # NoPlan
      /\ call[x].todo = {None}
  <2>1. Scheduled \cap Working = {}  BY DEF Scheduled, Working
  <2>. QED  BY <1>1, <2>1, AtScheduler DEF RunsScheduler
<1>3. /\ TableInv' /\ taskStatus' = taskStatus /\ NoneWaits /\ plan' = plan
      /\ (Accepted <=> Accepted') /\ Done' = Done /\ Begun' = Begun
  BY <1>1, TablesSame DEF Grows
<1>4. CheckInv'  BY <1>1, CheckSame
<1>5. s.todo = KeysOf(plan) \cap call[x].at.work /\ s.pending = None
  <2>. DEFINE ks == KeysOf(plan) \cap call[x].at.work
              new == [NothingSeen EXCEPT !.todo = ks]
  <2>1. new.todo = ks /\ new.pending = None  BY DEF NothingSeen
  <2>2. seen' = [seen EXCEPT ![x] = new] /\ seen \in [Thread -> SeenType]
    BY DEF StartFinalize, Types, GraphTypes
  <2>. HIDE DEF new
  <2>3. seen'[x] = new  BY <2>2
  <2>. QED  BY <2>1, <2>3
<1>. HIDE DEF s
<1>6. CallInv(x)'
  <2>1. Sync(x)'  BY <1>1, <1>2 DEF Sync
  <2>2. GraphCall(x)'  BY <1>1, <1>2, <1>3 DEF GraphCall
  <2>3. call[x].at.work = checkpoint["run"].work  BY <1>2 DEF SchedulerCall
  <2>4. FinalizeCall(x)'  BY <1>1, <1>2, <1>5, <2>3 DEF FinalizeCall, s
  <2>5. NodesCall(x)' /\ ScheduleCall(x)' /\ pc'[x] \notin {"planned", "finish"}
    BY <1>1 DEF NodesCall, ScheduleCall
  <2>. QED  BY <2>1, <2>2, <2>4, <2>5 DEF CallInv
<1>7. Kept'  BY <1>0, <1>3, <1>4, <1>6, InsideKeeps
<1>. QED  BY <1>3, <1>7

\* The task, the plan and the step are read.
LEMMA FinalizeStepKeeps ==
  ASSUME Types, Serial, Kept, NEW x \in Thread, FinalizeStep(x)
  PROVE  Kept' /\ plan' = plan /\ Begun' = Begun /\ Done' = Done
<1>. DEFINE k == First(seen[x].todo)
            at == call[x].at
            says == at.results[k].says
            s == seen'[x]
<1>0. Finalizes(x) /\ Moves(x)  BY GraphMoves DEF GraphStep, Finalizes
<1>1. /\ UNCHANGED tables /\ pc[x] = "finalize" /\ seen[x].todo # {} /\ TableInv /\ CheckInv
      /\ seen[x].todo \subseteq KeysOf(plan) /\ checkpoint' = checkpoint
  BY <1>0, FinalizeThreads DEF FinalizeStep, FinalizeFrame, tables, Kept, Types, GraphTypes
<1>2. /\ FinalizeCall(x) /\ Sync(x) /\ GraphCall(x) /\ call[x].graph = "run" /\ plan # NoPlan
      /\ at.stage \in Scheduled /\ call[x].todo = {None} /\ ~call[x].raised
      /\ at.work = checkpoint["run"].work /\ at.results = checkpoint["run"].results
      /\ Reported(checkpoint["run"]) = at.work /\ RunFits(checkpoint["run"])
      /\ (at.review = "accepted" => Accepted)
  <2>1. CallInv(x)  BY <1>1 DEF Kept, ThreadInv, InGraph, Inside, InsidePlace
  <2>. QED  BY <1>1, <2>1, InFinalize DEF CallInv
<1>3. /\ TableInv' /\ taskStatus' = taskStatus /\ NoneWaits /\ plan' = plan
      /\ (Accepted <=> Accepted') /\ Done' = Done /\ Begun' = Begun
  BY <1>1, TablesSame DEF Grows
<1>4. k \in Keys /\ k \in seen[x].todo /\ k \in at.work
  <2>1. k \in seen[x].todo  BY <1>1, PlanKeys, FirstIn
  <2>. QED  BY <1>1, <1>2, <2>1, PlanKeys DEF FinalizeCall
<1>. HIDE DEF k
<1>5. SUFFICES CallInv(x)'  BY <1>0, <1>1, <1>3, CheckSame, InsideKeeps
<1>6. ASSUME NEW review, Handles(x, review), review = "accepted" => Accepted
      PROVE  CallInv(x)'
  BY <1>1, <1>3, <1>6, HandlesCall
<1>7. CASE Leaves(x, TRUE, None) \/ Leaves(x, FALSE, None) \/ Refuses(x)
  <2>1. None # "accepted"  BY PlanFlowAssumption
  <2>2. Handles(x, None)  BY <1>7, LeavesEffect, RefusesEffect
  <2>. QED  BY <1>6, <2>1, <2>2
<1>8. CASE /\ step[k] = "completed" /\ k = Review
           /\ says \in {"accepted", "needs_revision"} /\ Leaves(x, TRUE, says)
  <2>1. at.results[k] \in Answer /\ says \in Verdicts \cup {None, "needs_revision"}
    <3>1. at.results[k] \in Answer
      BY <1>4 DEF Types, GraphTypes, CallType, Checkpoint, Execution
    <3>. QED  BY <1>8, <3>1, PlanFlowAssumption DEF Answer
  <2>2. PICK review \in Verdicts \cup {None, "needs_revision"} : review = says  BY <2>1
  <2>3. Leaves(x, TRUE, review)  BY <1>8, <2>2 DEF Leaves, SchedulerDone
  <2>4. Handles(x, review)  BY <2>3, LeavesEffect
  <2>5. review = "accepted" => Accepted
    <3>1. says \in Good => at.results[k] = answer[k]
      BY <1>2, <1>4 DEF RunFits, ResultsFit
    <3>2. k \in Done  BY <1>4, <1>8 DEF Done
    <3>. QED  BY <1>2, <1>8, <2>2, <3>1, <3>2 DEF Accepted, Good, Verdict
  <2>. QED  BY <1>6, <2>4, <2>5
<1>9. CASE /\ step[k] # "completed"
           /\ seen' = [seen EXCEPT ![x] = [Snapshot EXCEPT
                         !.todo = seen[x].todo, !.failures = seen[x].failures]]
           /\ GoTo(x, "complete") /\ UNCHANGED call
  <2>1. s.todo = seen[x].todo /\ s.pending = None /\ s.step = step
    <3>. DEFINE new == [Snapshot EXCEPT !.todo = seen[x].todo, !.failures = seen[x].failures]
    <3>1. new.todo = seen[x].todo /\ new.pending = None /\ new.step = step
      BY DEF Snapshot, NothingSeen
    <3>2. seen' = [seen EXCEPT ![x] = new] /\ seen \in [Thread -> SeenType]
      BY <1>9 DEF Types, GraphTypes
    <3>. HIDE DEF new
    <3>3. seen'[x] = new  BY <3>2
    <3>. QED  BY <3>1, <3>3
  <2>2. pc'[x] = "complete" /\ call' = call  BY <1>9 DEF GoTo, Types, GraphTypes
  <2>3. First(seen[x].todo)' = k /\ step' = step
    <3>1. plan.steps' = plan.steps /\ seen'[x].todo = seen[x].todo  BY <1>3, <2>1
    <3>. QED  BY <1>1, <1>3, <3>1 DEF k, tables, First
  <2>. HIDE DEF s
  <2>4. k \notin Done'  BY <1>3, <1>9 DEF Done
  <2>5. FinalizeCall(x)'
    <3>1. s.todo \subseteq at.work  BY <1>1, <1>2, <2>1 DEF FinalizeCall
    <3>. QED  BY <1>1, <1>2, <1>3, <2>1, <2>2, <2>3, <2>4, <3>1 DEF FinalizeCall, s
  <2>6. Sync(x)' /\ GraphCall(x)'
    BY <1>1, <1>2, <1>3, <2>2 DEF Sync, GraphCall
  <2>7. NodesCall(x)' /\ ScheduleCall(x)' /\ pc'[x] \notin {"planned", "finish"}
    BY <2>2 DEF NodesCall, ScheduleCall
  <2>. QED  BY <2>5, <2>6, <2>7 DEF CallInv
<1>. QED  BY <1>7, <1>8, <1>9 DEF FinalizeStep, k

\* The wave is over.
LEMMA EndWaveKeeps ==
  ASSUME Types, Serial, Kept, NEW x \in Thread, EndWave(x)
  PROVE  Kept' /\ plan' = plan /\ Begun' = Begun /\ Done' = Done
<1>. DEFINE at == call[x].at
<1>0. Finalizes(x) /\ Moves(x)  BY GraphMoves DEF GraphStep, Finalizes
<1>1. /\ pc[x] = "finalize" /\ TableInv /\ CheckInv
      /\ UNCHANGED <<plan, exec, attempt, offered, bound, taskStatus, planStatus, refused,
                     answer, store>>
      /\ step \in [Keys -> StepStatus]
  BY DEF EndWave, FinalizeFrame, Kept, Types, TaskTypes
<1>2. /\ Sync(x) /\ call[x].graph = "run" /\ plan # NoPlan
      /\ at.stage \in Scheduled /\ at.stage \notin Working \cup {"none", "end"}
      /\ at.work = checkpoint["run"].work /\ at.work \subseteq KeysOf(plan)
      /\ (at.review = "accepted" => Accepted)
  BY <1>1, InFinalize
<1>3. \A k \in Keys : step'[k] = step[k] \/ (step[k] \notin StepEnds /\ step'[k] = "cancelled")
  BY <1>1 DEF EndWave
<1>4. /\ Done' = Done /\ Begun' = Begun /\ Review' = Review /\ StoreGrows
  BY <1>1, <1>3 DEF Done, Begun, Review, StoreGrows, StepEnds
<1>5. Accepted <=> Accepted'  BY <1>1, <1>4 DEF Accepted
<1>6. DoneWell' /\ AnswersFit' /\ Judged' /\ AnswersStay(at.work)
  BY <1>1, <1>4, <1>5 DEF TableInv, DoneWell, AnswersFit, Judged, AnswersStay
<1>7. RefusedEnded'
  BY <1>1, <1>3, <1>4 DEF TableInv, RefusedEnded, StepEnds
<1>8. Handed(x) /\ checkpoint' = checkpoint
  <2>1. PICK next \in {"end", "prepare"}, work \in SUBSET Execution,
             review \in Verdicts \cup {None, "needs_revision"} :
          /\ work = at.work /\ review \in {None, at.review}
          /\ SchedulerDone(x, next, work, review)
    <3>1. at.work \in SUBSET Execution /\ at.review \in Verdicts \cup {None, "needs_revision"}
      BY DEF Types, GraphTypes, CallType, Checkpoint
    <3>2. PICK next \in {"end", "prepare"}, work \in SUBSET Execution,
               review \in Verdicts \cup {None, "needs_revision"} :
            /\ next = (IF seen[x].failures \/ at.review # None THEN "end" ELSE "prepare")
            /\ work = at.work /\ review = (IF seen[x].failures THEN None ELSE at.review)
      BY <3>1
    <3>3. SchedulerDone(x, next, work, review)
      BY <3>2 DEF EndWave, SchedulerDone
    <3>. QED  BY <3>2, <3>3
  <2>2. None # "accepted" /\ next \notin Working /\ next \in Stage
    BY PlanFlowAssumption DEF Working, Stage
  <2>3. /\ work \subseteq KeysOf(plan) /\ (review = "accepted" => Accepted')
        /\ (call[x].at.stage \in Scheduled => work = checkpoint["run"].work)
        /\ next \in {"prepare", "end"} \cup Working
        /\ (next \in Working => work \subseteq Begun' /\ refused' \cap work = {})
    BY <1>2, <1>5, <2>1, <2>2
  <2>4. plan' = plan  BY <1>1
  <2>. QED  BY <2>1, <2>2, <2>3, <2>4, DoneHands
<1>9. CallInv(x)'  BY <1>2, <1>8, SchedulerEnds
<1>10. TableInv' /\ CheckInv' /\ NoneWaits
  BY <1>1, <1>4, <1>5, <1>6, <1>7, <1>8, FinalTables
<1>11. Kept'  BY <1>0, <1>1, <1>9, <1>10, InsideKeeps
<1>. QED  BY <1>1, <1>4, <1>11

\* A delivery that was handled, whatever became of it.
LEMMA OneKeeps ==
  ASSUME Types, Serial, Kept, NEW x \in Thread, Finalizes(x), pc[x] = "complete",
         NEW k, k = First(seen[x].todo), NEW review, Handles(x, review),
         UNCHANGED <<plan, exec, bound, store>>,
         \A j \in Keys \ {k} : step'[j] = step[j] /\ answer'[j] = answer[j],
         taskStatus' \in {taskStatus, "failed"},
         \/ /\ OneDelivers(x, k)
            /\ answer[k].says = "accepted" => planStatus' = "completed"
            /\ review = "accepted" => call[x].at.results[k].says = "accepted"
         \/ OneRefused(x, k) /\ review # "accepted"
  PROVE  /\ Kept' /\ plan' = plan /\ Begun' = Begun
         /\ Done' = Done \/ \E j \in Begun \ Done : Done' = Done \cup {j}
<1>1. k \in KeysOf(plan) /\ k \in Keys /\ k \in Begun /\ k \notin Done /\ ~Accepted
  BY InComplete
<1>2. /\ (OneDelivers(x, k) => Done' = Done \cup {k} /\ answer[k] = call[x].at.results[k]
                               /\ (answer[k].says \in Verdict => k = Review))
      /\ (OneRefused(x, k) => Done' = Done)
      /\ Done \subseteq Done' /\ k \in Begun \ Done
      /\ AnswersStay(call[x].at.work) /\ DoneWell' /\ RefusedEnded' /\ AnswersFit'
      /\ (Accepted' <=> k = Review /\ Review \in Done' /\ answer[k].says = "accepted")
  <2>1. OneDelivers(x, k) \/ OneRefused(x, k)  OBVIOUS
  <2>2. UNCHANGED <<plan, exec>>  OBVIOUS
  <2>. QED  BY <2>1, <2>2, OneEnds
<1>3. review = "accepted" => Accepted'
  <2>. SUFFICES ASSUME review = "accepted"  PROVE Accepted'  OBVIOUS
  <2>1. OneDelivers(x, k) /\ call[x].at.results[k].says = "accepted"  OBVIOUS
  <2>. QED  BY <1>2, <2>1 DEF Verdict
<1>4. Judged'
  <2>. SUFFICES ASSUME Accepted'  PROVE planStatus' = "completed"  BY DEF Judged
  <2>1. answer[k].says = "accepted" /\ ~OneRefused(x, k)  BY <1>1, <1>2
  <2>. QED  BY <2>1
<1>5. StoreGrows  BY DEF StoreGrows
<1>6. Kept' /\ plan' = plan /\ Begun' = Begun
  BY <1>1, <1>2, <1>3, <1>4, <1>5, HandledKeeps
<1>. QED  BY <1>2, <1>6

\* A delivery that is refused: _fail_step.
LEMMA RefusalKeeps ==
  ASSUME Types, Serial, Kept, NEW x \in Thread, RefuseAnswer(x) \/ RefuseFiles(x)
  PROVE  /\ Kept' /\ plan' = plan /\ Begun' = Begun
         /\ Done' = Done \/ \E j \in Begun \ Done : Done' = Done \cup {j}
<1>1. PICK k : k = First(seen[x].todo)  OBVIOUS
<1>2. /\ Finalizes(x) /\ pc[x] = "complete" /\ Refuses(x)
      /\ call[x].at.results[k].says \in {"invalid", "nothing", "badfile"}
  BY <1>1 DEF Finalizes, RefuseAnswer, RefuseFiles, Finalizing
<1>3. /\ k \in Keys /\ k \in Begun
      /\ seen[x].step[k] \in {"blocked", "failed"} => step[k] = seen[x].step[k]
  BY <1>1, <1>2, InComplete
<1>4. PICK s : /\ FailStep(k, s)
               /\ s.step[k] \in {"blocked", "failed"} => step[k] = s.step[k]
  <2>1. CASE RefuseAnswer(x)
    <3>1. PICK s : s = seen[x]  OBVIOUS
    <3>2. FailStep(k, s)  BY <1>1, <2>1, <3>1 DEF RefuseAnswer, FailStep
    <3>. QED  BY <1>3, <3>1, <3>2
  <2>2. CASE RefuseFiles(x)
    <3>1. PICK s : s = Snapshot  OBVIOUS
    <3>2. FailStep(k, s)  BY <1>1, <2>2, <3>1 DEF RefuseFiles, FailStep
    <3>3. s.step = step  BY <3>1 DEF Snapshot, NothingSeen
    <3>. QED  BY <3>2, <3>3
  <2>. QED  BY <2>1, <2>2
<1>5. /\ step' = [step EXCEPT ![k] = Written(s.step[k], "failed", step[k])]
      /\ answer' = [answer EXCEPT ![k].says = "invalid"]
      /\ refused' = refused \cup {k} /\ taskStatus' \in {taskStatus, "failed"}
      /\ UNCHANGED <<plan, exec, bound, store>>
      /\ step \in [Keys -> StepStatus] /\ answer \in [Execution -> Answer]
      /\ Keys \subseteq Execution
  BY <1>4 DEF FailStep, Written, Types, TaskTypes, AnswerTypes, Execution
<1>6. step'[k] = "failed" /\ answer'[k].says = "invalid"
      /\ \A j \in Keys \ {k} : step'[j] = step[j] /\ answer'[j] = answer[j]
  <2>1. Written(s.step[k], "failed", step[k]) = "failed"  BY <1>4 DEF Written
  <2>2. answer[k] \in Answer /\ answer' = [answer EXCEPT ![k] = [answer[k] EXCEPT !.says = "invalid"]]
    BY <1>3, <1>5
  <2>3. answer'[k].says = "invalid"  BY <1>3, <1>5, <2>2 DEF Answer
  <2>. QED  BY <1>3, <1>5, <2>1, <2>3
<1>7. OneRefused(x, k)  BY <1>2, <1>5, <1>6 DEF OneRefused, Good, Verdict
<1>8. Handles(x, None) /\ None # "accepted"  BY <1>2, RefusesEffect, PlanFlowAssumption
<1>9. PICK review : review = None  OBVIOUS
<1>10. Handles(x, review) /\ review # "accepted"  BY <1>8, <1>9
<1>. QED  BY <1>1, <1>2, <1>5, <1>6, <1>7, <1>10, OneKeeps

\* A delivery of a specialist that could not work.
LEMMA BlockKeeps ==
  ASSUME Types, Serial, Kept, NEW x \in Thread, BlockStep(x)
  PROVE  /\ Kept' /\ plan' = plan /\ Begun' = Begun
         /\ Done' = Done \/ \E j \in Begun \ Done : Done' = Done \cup {j}
<1>1. PICK k : k = First(seen[x].todo)  OBVIOUS
<1>2. /\ Finalizes(x) /\ pc[x] = "complete" /\ Leaves(x, TRUE, "needs_revision")
      /\ call[x].at.results[k].says = "blocked"
      /\ step' = [step EXCEPT ![k] = Written(seen[x].step[k], "blocked", step[k])]
      /\ refused' = refused \cup {k} /\ UNCHANGED <<plan, exec, bound, store, answer, taskStatus>>
      /\ step \in [Keys -> StepStatus]
  BY <1>1 DEF Finalizes, BlockStep, Finalizing, FinalizeFrame, Types, TaskTypes
<1>3. /\ k \in Keys
      /\ seen[x].step[k] \in {"blocked", "failed"} => step[k] = seen[x].step[k]
  BY <1>1, <1>2, InComplete
<1>4. step'[k] = "blocked" /\ \A j \in Keys \ {k} : step'[j] = step[j] /\ answer'[j] = answer[j]
  BY <1>2, <1>3 DEF Written
<1>5. OneRefused(x, k)  BY <1>2, <1>4 DEF OneRefused, Good, Verdict
<1>6. PICK review : review = "needs_revision"  OBVIOUS
<1>7. Handles(x, review) /\ review # "accepted"
  <2>1. Handles(x, "needs_revision")  BY <1>2, LeavesEffect
  <2>. QED  BY <1>6, <2>1
<1>. QED  BY <1>1, <1>2, <1>4, <1>5, <1>7, OneKeeps

\* The verdict of the lead.
LEMMA CompleteReviewKeeps ==
  ASSUME Types, Serial, Kept, NEW x \in Thread, CompleteReview(x)
  PROVE  /\ Kept' /\ plan' = plan /\ Begun' = Begun
         /\ Done' = Done \/ \E j \in Begun \ Done : Done' = Done \cup {j}
<1>1. PICK k : k = First(seen[x].todo)  OBVIOUS
<1>. DEFINE says == call[x].at.results[k].says
<1>2. /\ Finalizes(x) /\ pc[x] = "complete" /\ Leaves(x, TRUE, says) /\ says \in Verdict
      /\ step' = [step EXCEPT ![k] = "completed"]
      /\ planStatus' = IF says = "accepted" THEN "completed" ELSE "needs_revision"
      /\ UNCHANGED <<plan, exec, bound, store, answer, taskStatus, refused>>
      /\ step \in [Keys -> StepStatus]
  BY <1>1 DEF Finalizes, CompleteReview, Finalizing, FinalizeFrame, Types, TaskTypes, Verdict
<1>3. /\ k \in Keys /\ k \in call[x].at.work
      /\ says \in Good \/ answer[k].says \in Good => call[x].at.results[k] = answer[k]
  BY <1>1, <1>2, InComplete
<1>4. step'[k] = "completed" /\ \A j \in Keys \ {k} : step'[j] = step[j] /\ answer'[j] = answer[j]
  BY <1>2, <1>3
<1>5. OneDelivers(x, k) /\ answer[k].says = says
  BY <1>2, <1>3, <1>4 DEF OneDelivers, Good
<1>6. PICK review \in Verdicts \cup {None, "needs_revision"} : review = says
  <2>1. call[x].at.results[k] \in Answer
    BY <1>3 DEF Types, GraphTypes, CallType, Checkpoint, Execution
  <2>. QED  BY <1>2, <2>1, PlanFlowAssumption DEF Answer, Verdict
<1>7. Handles(x, review)
  <2>1. Leaves(x, TRUE, review)  BY <1>2, <1>6 DEF Leaves, SchedulerDone
  <2>. QED  BY <2>1, LeavesEffect
<1>8. /\ answer[k].says = "accepted" => planStatus' = "completed"
      /\ review = "accepted" => call[x].at.results[k].says = "accepted"
  BY <1>2, <1>5, <1>6
<1>. QED  BY <1>1, <1>2, <1>4, <1>5, <1>7, <1>8, OneKeeps

\* A specialist's delivery that was published completes its step.
LEMMA CompleteStepKeeps ==
  ASSUME Types, Serial, Kept, NEW x \in Thread, CompleteStep(x)
  PROVE  /\ Kept' /\ plan' = plan /\ Begun' = Begun
         /\ Done' = Done \/ \E j \in Begun \ Done : Done' = Done \cup {j}
<1>1. PICK k : k = First(seen[x].todo)  OBVIOUS
<1>2. /\ Finalizes(x) /\ pc[x] = "complete" /\ seen[x].pending # None
      /\ Leaves(x, FALSE, None)
      /\ step' = [step EXCEPT ![seen[x].pending] = "completed"]
      /\ UNCHANGED <<plan, exec, bound, store, answer, taskStatus, refused>>
      /\ step \in [Keys -> StepStatus]
  BY DEF Finalizes, CompleteStep, FinalizeFrame, Types, TaskTypes
<1>3. /\ k \in Keys /\ seen[x].pending = k /\ call[x].at.results[k].says = "valid"
      /\ (call[x].at.results[k].says \in Good => call[x].at.results[k] = answer[k])
  BY <1>1, <1>2, InComplete
<1>4. step'[k] = "completed" /\ \A j \in Keys \ {k} : step'[j] = step[j] /\ answer'[j] = answer[j]
  BY <1>2, <1>3
<1>5. OneDelivers(x, k) /\ answer[k].says # "accepted"
  BY <1>2, <1>3, <1>4 DEF OneDelivers, Good
<1>6. PICK review : review = None  OBVIOUS
<1>7. Handles(x, review) /\ review # "accepted"
  <2>1. Handles(x, None)  BY <1>2, LeavesEffect
  <2>. QED  BY <1>6, <2>1, PlanFlowAssumption
<1>. QED  BY <1>1, <1>2, <1>4, <1>5, <1>7, OneKeeps

\* publish_assignment_delivery commits.
LEMMA PublishKeeps ==
  ASSUME Types, Serial, Kept, NEW x \in Thread, PublishDelivery(x)
  PROVE  Kept' /\ plan' = plan /\ Begun' = Begun /\ Done' = Done
<1>. DEFINE s == seen'[x]
<1>0. Finalizes(x) /\ Moves(x)  BY GraphMoves DEF GraphStep, Finalizes
<1>1. PICK k : k = First(seen[x].todo)  OBVIOUS
<1>2. /\ pc[x] = "complete" /\ seen[x].pending = None /\ call[x].at.results[k].says = "valid"
      /\ seen' = [seen EXCEPT ![x].pending = k]
      /\ UNCHANGED <<plan, exec, bound, taskStatus, planStatus, step, refused, answer,
                     call, checkpoint, pc>>
      /\ seen \in [Thread -> SeenType] /\ seen[x] \in SeenType
  BY <1>1 DEF PublishDelivery, Finalizing, FinalizeFrame, Types, GraphTypes
<1>3. k \in Keys  BY <1>1, <1>2, InComplete
<1>4. CallInv(x) /\ FinalizeCall(x) /\ call[x].graph = "run" /\ TableInv
  <2>1. CallInv(x)  BY <1>2 DEF Kept, ThreadInv, InGraph, Inside, InsidePlace
  <2>. QED  BY <1>2, <2>1, InFinalize DEF Kept
<1>5. StoreGrows
  <2>. SUFFICES ASSUME NEW c \in Contract, NEW i \in 1..Len(store[c])
                PROVE  store'[c][i] = store[c][i]
    BY DEF StoreGrows
  <2>1. PICK j \in Keys : store' = Released(j)  BY DeliveryPublished
  <2>. DEFINE artifact == [by |-> j, turn |-> attempt[j]]
  <2>2. store'[c] = store[c] \/ store'[c] = Append(store[c], artifact)
    BY <2>1, ReleaseEffect
  <2>3. store[c] \in Seq(ArtifactType) /\ artifact \in ArtifactType
    BY DEF Types, StoreTypes, AnswerTypes, ArtifactType, Execution
  <2>. HIDE DEF artifact
  <2>. QED  BY <2>2, <2>3
<1>6. Done' = Done /\ Begun' = Begun /\ Accepted' = Accepted /\ Review' = Review
  BY <1>2 DEF Done, Begun, Accepted, Review
<1>7. DoneWell' /\ RefusedEnded' /\ AnswersFit' /\ Judged' /\ AnswersStay(call[x].at.work)
  BY <1>2, <1>4, <1>6 DEF TableInv, DoneWell, RefusedEnded, AnswersFit, Judged, AnswersStay
<1>8. TableInv' /\ CheckInv' /\ NoneWaits
  BY <1>2, <1>5, <1>6, <1>7, FinalTables
<1>9. s.pending = k /\ s.todo = seen[x].todo /\ s.step = seen[x].step
  <2>. DEFINE new == [seen[x] EXCEPT !.pending = k]
  <2>1. new.pending = k /\ new.todo = seen[x].todo /\ new.step = seen[x].step
    BY <1>2 DEF SeenType
  <2>2. seen' = [seen EXCEPT ![x] = new]  BY <1>2
  <2>. HIDE DEF new
  <2>3. seen'[x] = new  BY <1>2, <2>2
  <2>. QED  BY <2>1, <2>3
<1>10. First(seen[x].todo)' = k
  <2>1. plan.steps' = plan.steps /\ seen'[x].todo = seen[x].todo  BY <1>2, <1>9
  <2>. QED  BY <1>1, <1>2, <2>1 DEF First
<1>. HIDE DEF s
<1>11. FinalizeCall(x)'
  BY <1>1, <1>2, <1>4, <1>6, <1>9, <1>10 DEF FinalizeCall, s
<1>12. Sync(x)' /\ GraphCall(x)'
  BY <1>2, <1>4, <1>6 DEF CallInv, Sync, GraphCall
<1>13. NodesCall(x)' /\ ScheduleCall(x)' /\ pc'[x] \notin {"planned", "finish"}
  BY <1>2 DEF NodesCall, ScheduleCall
<1>14. CallInv(x)'  BY <1>11, <1>12, <1>13 DEF CallInv
<1>15. Kept'  BY <1>0, <1>2, <1>8, <1>14, InsideKeeps
<1>. QED  BY <1>2, <1>6, <1>15

\* finalize_step and finalize_parallel_specialists.
LEMMA FinalizeKeeps ==
  ASSUME Types, Serial, Kept, NEW x \in Thread, Finalizes(x)
  PROVE  /\ Kept' /\ plan' = plan /\ Begun' = Begun
         /\ Done' = Done \/ \E j \in Begun \ Done : Done' = Done \cup {j}
<1>1. CASE StartFinalize(x)  BY <1>1, StartFinalizeKeeps
<1>2. CASE FinalizeStep(x)  BY <1>2, FinalizeStepKeeps
<1>3. CASE EndWave(x)  BY <1>3, EndWaveKeeps
<1>4. CASE RefuseAnswer(x) \/ RefuseFiles(x)  BY <1>4, RefusalKeeps
<1>5. CASE BlockStep(x)  BY <1>5, BlockKeeps
<1>6. CASE CompleteReview(x)  BY <1>6, CompleteReviewKeeps
<1>7. CASE PublishDelivery(x)  BY <1>7, PublishKeeps
<1>8. CASE CompleteStep(x)  BY <1>8, CompleteStepKeeps
<1>. QED  BY <1>1, <1>2, <1>3, <1>4, <1>5, <1>6, <1>7, <1>8 DEF Finalizes

-----------------------------------------------------------------------------
(* The invariant.                                                          *)

\* It holds at the start.
LEMMA PlanInvInit ==
  ASSUME PlanInit
  PROVE  PlanInv
<1>1. /\ plan = NoPlan /\ Done = {} /\ Begun = {} /\ refused = {} /\ ~Accepted
      /\ \A k \in Execution : answer[k] = NoAnswer /\ exec[k] = "absent"
      /\ \A k \in Keys, c \in Contract : bound[k][c] = 0
      /\ \A g \in {"planning", "run"} : checkpoint[g] = NoCheckpoint
      /\ \A x \in Thread : pc[x] = "idle"
      /\ held = None /\ graphLock = None /\ watched = {} /\ up /\ taskStatus = "created"
  BY DEF PlanInit, Done, Begun, Accepted, Execution
<1>2. KeysOf(plan) = {}  BY <1>1 DEF KeysOf, Indices, NoPlan
<1>3. Serial  BY <1>1, ThreadNames DEF Serial, Inside, InsidePlace
<1>4. TableInv
  <2>1. Keys \subseteq Execution /\ "nothing" \notin Good  BY DEF Execution, Good, Verdict
  <2>. QED
    BY <1>1, <1>2, <2>1 DEF TableInv, BegunPlanned, DoneWell, RefusedEnded, AnswersFit, OrderKept,
       BoundWell, Unbound, Judged, NoAnswer
<1>5. Ended  BY <1>1 DEF Ended
<1>6. CheckInv
  <2>1. /\ NoCheckpoint.stage = "none" /\ NoCheckpoint.work = {} /\ NoCheckpoint.done = {}
        /\ NoCheckpoint.parked = {} /\ NoCheckpoint.review = None
    BY DEF NoCheckpoint
  <2>2. None # "accepted"  BY PlanFlowAssumption
  <2>3. PICK c : c = NoCheckpoint  OBVIOUS
  <2>4. RunFits(c) /\ PlanningFits(c)
    BY <1>1, <1>2, <2>1, <2>2, <2>3
       DEF RunFits, ResultsFit, Reported, PlanningFits, Working, Scheduled
  <2>5. RunFits(checkpoint["run"]) /\ PlanningFits(checkpoint["planning"])
    BY <1>1, <2>3, <2>4
  <2>. QED  BY <1>1, <2>5 DEF CheckInv, WaitingFits
<1>7. ThreadInv  BY <1>1, ThreadNames DEF ThreadInv, ApiInv, InGraph, Inside, InsidePlace
<1>. QED  BY <1>3, <1>4, <1>5, <1>6, <1>7 DEF PlanInv

\* A step of a graph keeps it.
LEMMA GraphKeeps ==
  ASSUME Types, Serial, Kept, NEW x \in Thread, GraphStep(x)
  PROVE  Kept'
<1>1. ASSUME NEW e \in Execution, Node(x, e)  PROVE Kept'  BY <1>1, NodeKeeps
<1>2. CASE PrepareStep(x) \/ PrepareWave(x)  BY <1>2, PrepareKeeps
<1>3. CASE Schedule(x)  BY <1>3, ScheduleKeeps
<1>4. CASE Finalizes(x)  BY <1>4, FinalizeKeeps
<1>5. CASE EndSuperstep(x)  BY <1>5, EndSuperstepKeeps
<1>6. CASE Returned(x)  BY <1>6, ReturnedKeeps
<1>7. CASE Finish(x) \/ MarkPlanned(x) \/ RefusePlan(x)  BY <1>7, FinishKeeps
<1>8. CASE AdoptPlan(x)  BY <1>8, AdoptKeeps
<1>. QED  BY <1>1, <1>2, <1>3, <1>4, <1>5, <1>6, <1>7, <1>8 DEF GraphStep, Prepares

\* Every step keeps it.
LEMMA PlanInvNext ==
  ASSUME Types, ~Overlapping, PlanInv, [Next]_vars
  PROVE  PlanInv'
<1>1. Serial /\ Kept  BY DEF PlanInv, Kept
<1>2. Serial'  BY <1>1, SerialNext
<1>3. Kept'
  <2>1. CASE ClientCalls
    BY <1>1, <2>1, ClientKeeps, RetryKeeps DEF ClientCalls
  <2>2. CASE ClientSteps
    BY <1>1, <2>2, ClientKeeps, PlanningKeeps, InvokeKeeps DEF ClientSteps
  <2>3. ASSUME NEW x \in Thread, GraphStep(x)  PROVE Kept'  BY <1>1, <2>3, GraphKeeps
  <2>4. ASSUME NEW e \in Execution, Resume(e)  PROVE Kept'  BY <1>1, <2>4, ResumeKeeps
  <2>5. ASSUME NEW e \in Execution, TurnEnds(e) \/ Orphaned(e)  PROVE Kept'
    <3>1. TurnCompletes(e) \/ FailTurn(e)  BY <2>5 DEF TurnEnds, TurnFails, Orphaned
    <3>. QED  BY <1>1, <3>1, TurnKeeps
  <2>6. CASE CancelTask  BY <1>1, <2>6, CancelKeeps
  <2>7. CASE Crash \/ Startup \/ (\E e \in Execution : Reattach(e)) \/ UNCHANGED vars
    BY <1>1, <2>7, BackendKeeps
  <2>8. ASSUME NEW c \in Contract, PublishInput(c)  PROVE Kept'  BY <1>1, <2>8, InputKeeps
  <2>. QED  BY <2>1, <2>2, <2>3, <2>4, <2>5, <2>6, <2>7, <2>8 DEF Next
<1>. QED  BY <1>2, <1>3 DEF PlanInv, Kept

\* It holds always, when no client calls while a Turn or a thread is busy.
THEOREM PlanInvHolds ==
  ASSUME ~Overlapping
  PROVE  Spec => []PlanInv
<1>1. PlanInit => PlanInv  BY PlanInvInit
<1>2. Types /\ PlanInv /\ [Next]_vars => PlanInv'  BY PlanInvNext
<1>. QED  BY <1>1, <1>2, TypesAlways, PTL DEF Spec

-----------------------------------------------------------------------------
(* Where inputs come from, whatever overlaps.                              *)

\* A version of c that k may read.
Readable(k, c, i) ==
  LET bytes == store[c][i] IN
  \/ bytes.by = None /\ c \in plan.initial
  \/ bytes.by \in Ancestors(plan)[k]

Supplied(k) == \A c \in InputsOf(k) : bound[k][c] # 0

\* The steps among ks have an assignment.
Placed(ks) == ks \cap Keys \subseteq Begun

\* What a thread is to run or to finalize has an assignment, or the thread is
\* about to commit one, with the inputs bound before.
Carries(x) ==
  /\ pc[x] = "nodes" =>
       /\ call[x].raised \/ call[x].at.stage \in Working => None \notin call[x].todo
       /\ call[x].raised \/ Placed(call[x].at.work)
  /\ pc[x] = "schedule" =>
       /\ Placed(call[x].at.work \ (seen[x].todo \cup {seen[x].pending}))
       /\ seen[x].pending # None =>
            seen[x].pending \in KeysOf(plan) /\ Supplied(seen[x].pending)
  /\ pc[x] \in {"finalize", "complete"} => Placed(call[x].at.work \cup seen[x].todo)

SourceTables ==
  /\ \A k \in Begun : k \in KeysOf(plan) /\ Supplied(k)
  /\ \A k \in Keys, c \in Contract : bound[k][c] # 0 =>
       k \in KeysOf(plan) /\ Readable(k, c, bound[k][c])

SourceInv ==
  /\ SourceTables /\ Placed(refused)
  /\ \A g \in {"planning", "run"} : Placed(checkpoint[g].work)
  /\ \A x \in Thread : Carries(x)

\* A task that has no plan has nothing that could be bound or placed.
LEMMA NoSteps == ASSUME plan = NoPlan PROVE KeysOf(plan) = {}
BY DEF NoPlan, KeysOf, Indices

\* The plan is stored once.
PlanStays == plan' = plan \/ plan = NoPlan

\* Rows keep their sources when nothing is bound or placed.
LEMMA TablesStay ==
  ASSUME Types, SourceTables, PlanStays, StoreGrows, bound' = bound, Begun' = Begun
  PROVE  SourceTables'
<1>1. CASE plan = NoPlan
  <2>1. Begun = {} /\ \A k \in Keys, c \in Contract : bound[k][c] = 0
    BY <1>1, NoSteps DEF SourceTables
  <2>. QED  BY <2>1 DEF SourceTables
<1>2. CASE plan' = plan
  <2>1. \A k \in Begun' : k \in KeysOf(plan') /\ Supplied(k)'
    BY <1>2 DEF SourceTables, Supplied, InputsOf
  <2>2. ASSUME NEW k \in Keys, NEW c \in Contract, bound'[k][c] # 0
        PROVE  k \in KeysOf(plan') /\ Readable(k, c, bound[k][c])'
    <3>1. PICK i : i = bound[k][c]  OBVIOUS
    <3>2. k \in KeysOf(plan) /\ Readable(k, c, i)  BY <2>2, <3>1 DEF SourceTables
    <3>3. i \in 1..Len(store[c])
      <4>1. i \in 0..Len(store[c]) /\ i # 0  BY <2>2, <3>1 DEF Types, StoreTypes
      <4>. QED  BY <4>1
    <3>4. store'[c][i] = store[c][i]  BY <3>3 DEF StoreGrows
    <3>. QED  BY <1>2, <2>2, <3>1, <3>2, <3>4 DEF Readable
  <2>. QED  BY <2>1, <2>2 DEF SourceTables
<1>. QED  BY <1>1, <1>2 DEF PlanStays

\* A thread that does not move still has what it carries.
LEMMA OthersCarry ==
  ASSUME Types, NEW y \in Thread, Carries(y), PlanStays, Begun \subseteq Begun',
         \A k \in Keys, c \in Contract : bound[k][c] # 0 => bound'[k][c] = bound[k][c],
         call'[y] = call[y], seen'[y] = seen[y], pc'[y] = pc[y]
  PROVE  Carries(y)'
<1>1. ASSUME NEW k \in KeysOf(plan), Supplied(k)
      PROVE  k \in KeysOf(plan') /\ Supplied(k)'
  <2>1. plan' = plan  BY NoSteps DEF PlanStays
  <2>2. k \in Keys /\ \A c \in InputsOf(k) : c \in Contract
    BY PlanKeys, StepFields DEF InputsOf
  <2>. QED  BY <1>1, <2>1, <2>2 DEF Supplied, InputsOf
<1>2. ASSUME NEW ks, Placed(ks)  PROVE ks \cap Keys \subseteq Begun'
  BY <1>2 DEF Placed
<1>. QED  BY <1>1, <1>2 DEF Carries, Placed

\* What a step keeps that binds and places nothing.
LEMMA SourceKept ==
  ASSUME Types, SourceInv, PlanStays, StoreGrows, bound' = bound, Begun' = Begun,
         refused' \cap Keys \subseteq Begun,
         \A g \in {"planning", "run"} : checkpoint'[g].work \cap Keys \subseteq Begun,
         \A y \in Thread : \/ Carries(y)'
                           \/ call'[y] = call[y] /\ seen'[y] = seen[y] /\ pc'[y] = pc[y]
  PROVE  SourceInv'
<1>1. SourceTables'  BY TablesStay DEF SourceInv
<1>2. \A y \in Thread : Carries(y)'  BY OthersCarry DEF SourceInv
<1>. QED  BY <1>1, <1>2 DEF SourceInv, Placed

\* Of the places of a thread, four carry something.
LEMMA CarriesNothing ==
  ASSUME NEW x \in Thread, pc'[x] \notin {"nodes", "schedule", "finalize", "complete"}
  PROVE  Carries(x)'
BY DEF Carries

LEMMA CarriesWork ==
  ASSUME NEW x \in Thread, pc'[x] = "nodes", Begun' = Begun,
         call'[x].raised \/ call'[x].at.stage \in Working => None \notin call'[x].todo,
         call'[x].raised \/ call'[x].at.work \cap Keys \subseteq Begun
  PROVE  Carries(x)'
BY DEF Carries, Placed

\* Tables that stay have grown.
LEMMA TablesAlike ==
  ASSUME UNCHANGED tables
  PROVE  /\ PlanStays /\ StoreGrows /\ bound' = bound /\ Begun' = Begun /\ refused' = refused
BY DEF tables, PlanStays, StoreGrows, Begun

\* A node of _execute_assignment.
LEMMA NodeSource ==
  ASSUME Types, SourceInv, NEW x \in Thread, NEW e \in Execution, Node(x, e)
  PROVE  SourceInv'
<1>1. NodeSteps(x, e) /\ CallSteps(x)  BY NodeTypes DEF NodeSteps
<1>2. pc[x] = "nodes" /\ call[x].at.stage \in Working
  BY DEF Node, NodeReturns, NodeParks, NodeRejected, Submits, SubmissionWaits,
         SubmissionCompletes, SubmissionFails, RunsNode
<1>3. UNCHANGED <<plan, refused, store, bound, seen>>  BY NodeTables
<1>4. Begun' = Begun
  <2>1. /\ \A k \in Execution \ {e} : exec'[k] = exec[k]
        /\ exec'[e] = exec[e] \/ (exec[e] # "absent" /\ exec'[e] # "absent")
    BY NodeTables
  <2>. QED  BY <2>1 DEF Begun, Execution
<1>5. call'[x].raised \/ call'[x].raised = call[x].raised
  <2>1. pc' = pc /\ Types'  BY <1>1, NodeTypes DEF NodeSteps
  <2>2. PICK a \in Answer : a = answer'[e]  BY <2>1 DEF Types, AnswerTypes
  <2>3. NodeDone(x, e, a) \/ NodeInterrupts(x, e) \/ NodeRaises(x, e)
    BY <2>2, NodeTables
  <2>4. CASE NodeDone(x, e, a)  BY <2>1, <2>4, NodeDoneEffect
  <2>5. CASE NodeInterrupts(x, e)  BY <2>1, <2>5, NodeInterruptsEffect
  <2>6. CASE NodeRaises(x, e)  BY <2>1, <2>6, NodeRaisesEffect
  <2>. QED  BY <2>3, <2>4, <2>5, <2>6
<1>6. Carries(x)'
  <2>1. pc'[x] = "nodes" /\ call'[x].todo = call[x].todo \ {e}
        /\ call'[x].at.work = call[x].at.work
    BY <1>1, <1>2 DEF NodeSteps, KeepsAt
  <2>2. None \notin call[x].todo /\ (call[x].raised \/ Placed(call[x].at.work))
    BY <1>2 DEF SourceInv, Carries
  <2>. QED  BY <1>4, <1>5, <2>1, <2>2, CarriesWork DEF Placed
<1>7. ASSUME NEW g \in {"planning", "run"}  PROVE checkpoint'[g].work \cap Keys \subseteq Begun
  <2>1. checkpoint'[g].work = checkpoint[g].work
    BY <1>1 DEF NodeSteps, OtherGraph, KeepsAt
  <2>. QED  BY <2>1 DEF SourceInv, Placed
<1>8. \A y \in Thread \ {x} : call'[y] = call[y] /\ seen'[y] = seen[y] /\ pc'[y] = pc[y]
  BY <1>1, <1>3 DEF CallSteps
<1>9. PlanStays /\ StoreGrows  BY <1>3 DEF PlanStays, StoreGrows
<1>. QED  BY <1>3, <1>4, <1>6, <1>7, <1>8, <1>9, SourceKept DEF SourceInv, Placed

\* prepare_step and prepare_parallel_specialists hand on what is placed, and go
\* on to place the rest.
LEMMA PrepareSource ==
  ASSUME Types, SourceInv, NEW x \in Thread, PrepareStep(x) \/ PrepareWave(x)
  PROVE  SourceInv'
<1>1. UNCHANGED tables /\ pc[x] = "nodes" /\ call[x].todo = {None}
  BY DEF PrepareStep, PrepareWave, RunsScheduler
<1>2. KeysOf(plan) \subseteq Keys /\ SpecialistKeys(plan) \subseteq KeysOf(plan)
      /\ None \notin Keys /\ Keys \subseteq Execution
  BY PlanKeys, PlanFlowAssumption DEF KeysOf, SpecialistKeys, Execution
<1>3. ASSUME CallSteps(x), checkpoint' = checkpoint, Carries(x)',
             \A y \in Thread \ {x} : seen'[y] = seen[y]
      PROVE  SourceInv'
  <2>1. \A y \in Thread \ {x} : call'[y] = call[y] /\ seen'[y] = seen[y] /\ pc'[y] = pc[y]
    BY <1>3 DEF CallSteps
  <2>2. \A g \in {"planning", "run"} : checkpoint'[g].work \cap Keys \subseteq Begun
    BY <1>3 DEF SourceInv, Placed
  <2>3. refused' \cap Keys \subseteq Begun  BY <1>1, TablesAlike DEF SourceInv, Placed
  <2>. QED  BY <1>1, <1>3, <2>1, <2>2, <2>3, TablesAlike, SourceKept
<1>4. ASSUME NEW next \in Stage, NEW work \in SUBSET Keys, work \subseteq Begun,
             SchedulerDone(x, next, work, None), seen' = seen
      PROVE  SourceInv'
  <2>0. work \in SUBSET Execution  BY <1>2
  <2>1. /\ CallSteps(x) /\ checkpoint' = checkpoint /\ pc'[x] = "nodes"
        /\ call'[x].todo = {} /\ call'[x].at.work = work
    <3>1. PICK r \in Verdicts \cup {None, "needs_revision"} : r = None  OBVIOUS
    <3>2. SchedulerDone(x, next, work, r)  BY <1>4, <3>1
    <3>3. /\ CallSteps(x) /\ checkpoint' = checkpoint /\ pc'[x] = "nodes"
          /\ call'[x].todo = {} /\ call'[x].next = next /\ call'[x].raised = call[x].raised
          /\ call'[x].graph = call[x].graph
          /\ SameAt(call'[x].at, call[x].at) /\ call'[x].at.parked = call[x].at.parked
          /\ call'[x].at.work = work /\ call'[x].at.review = r
      BY <2>0, <3>2, SchedulerDoneEffect
    <3>. QED  BY <3>3
  <2>2. Carries(x)'  BY <1>1, <1>4, <2>1, CarriesWork, TablesAlike
  <2>. QED  BY <1>3, <1>4, <2>1, <2>2
<1>5. ASSUME SchedulerRaises(x), seen' = seen  PROVE SourceInv'
  <2>1. /\ CallSteps(x) /\ checkpoint' = checkpoint /\ pc'[x] = "nodes"
        /\ call'[x].todo = call[x].todo \ {None} /\ call'[x].raised
    BY <1>5, SchedulerRaisesEffect
  <2>2. Carries(x)'  BY <1>1, <2>1, CarriesWork, TablesAlike
  <2>. QED  BY <1>3, <1>5, <2>1, <2>2
<1>6. ASSUME NEW w \in SUBSET Keys, NEW ks \in SUBSET Keys, w \ ks \subseteq Begun,
             seen' = [seen EXCEPT ![x] = [Snapshot EXCEPT !.todo = ks]],
             call' = [call EXCEPT ![x].at.work = w], GoTo(x, "schedule"),
             UNCHANGED checkpoint
      PROVE  SourceInv'
  <2>0. w \in SUBSET Execution  BY <1>2
  <2>1. seen'[x].todo = ks /\ seen'[x].pending = None  BY <1>6, Loaded
  <2>2. /\ call' \in [Thread -> CallType] /\ \A y \in Thread \ {x} : call'[y] = call[y]
        /\ call'[x].at.work = w
    BY <1>6, <2>0, WorkSet
  <2>3. pc' \in [Thread -> Place] /\ pc'[x] = "schedule"
        /\ \A y \in Thread \ {x} : pc'[y] = pc[y] /\ seen'[y] = seen[y]
    BY <1>6 DEF GoTo, Types, GraphTypes, Place
  <2>4. CallSteps(x)  BY <1>6, <2>2, <2>3 DEF CallSteps, Types, GraphTypes
  <2>5. Carries(x)'
    <3>1. Begun' = Begun  BY <1>1, TablesAlike
    <3>. QED  BY <1>6, <2>1, <2>2, <2>3, <3>1 DEF Carries, Placed
  <2>. QED  BY <1>3, <1>6, <2>3, <2>4, <2>5
<1>7. {} \in SUBSET Keys /\ {} \subseteq Begun
      /\ {"end", "prepare", "execute", "wave_execute"} \subseteq Stage
  BY DEF Stage, Working
<1>8. CASE PrepareStep(x)
  <2>1. CASE NothingReady
    <3>1. SchedulerDone(x, "end", {}, None) \/ SchedulerRaises(x)
      BY <1>8, <2>1 DEF PrepareStep
    <3>2. seen' = seen  BY <1>8, <2>1 DEF PrepareStep
    <3>. QED  BY <1>4, <1>5, <1>7, <3>1, <3>2
  <2>2. CASE ~NothingReady
    <3>1. First(OpenSteps) \in KeysOf(plan)
      BY <2>2, FirstOpen DEF NothingReady, OpenSteps
    <3>2. PICK k \in Keys : k = First(OpenSteps)  BY <1>2, <3>1
    <3>3. CASE exec[k] # "absent"
      <4>1. SchedulerDone(x, "execute", {k}, None) /\ seen' = seen
        BY <1>8, <2>2, <3>2, <3>3 DEF PrepareStep, SchedulerDone
      <4>2. {k} \in SUBSET Keys /\ {k} \subseteq Begun  BY <3>3 DEF Begun
      <4>. QED  BY <1>4, <1>7, <4>1, <4>2
    <3>4. CASE exec[k] = "absent"
      <4>1. /\ seen' = [seen EXCEPT ![x] = [Snapshot EXCEPT !.todo = {k}]]
            /\ call' = [call EXCEPT ![x].at.work = {k}]
            /\ GoTo(x, "schedule") /\ UNCHANGED checkpoint
        BY <1>8, <2>2, <3>2, <3>4 DEF PrepareStep
      <4>2. {k} \in SUBSET Keys /\ {k} \ {k} \subseteq Begun  OBVIOUS
      <4>. QED  BY <1>6, <4>1, <4>2
    <3>. QED  BY <3>3, <3>4
  <2>. QED  BY <2>1, <2>2
<1>9. CASE PrepareWave(x)
  <2>1. PICK wave \in SUBSET Keys :
          wave = {k \in SpecialistKeys(plan) : step[k] # "completed"}
    BY <1>2
  <2>2. PICK absent \in SUBSET Keys : absent = {k \in wave : exec[k] = "absent"}
    BY <2>1
  <2>3. wave \ absent \subseteq Begun /\ (absent = {} => wave \subseteq Begun)
    BY <2>1, <2>2 DEF Begun
  <2>4. \/ SchedulerDone(x, "prepare", {}, None) /\ seen' = seen
        \/ absent = {} /\ SchedulerDone(x, "prepare", wave, None) /\ seen' = seen
        \/ absent = {} /\ SchedulerDone(x, "wave_execute", wave, None) /\ seen' = seen
        \/ /\ seen' = [seen EXCEPT ![x] = [Snapshot EXCEPT !.todo = absent]]
           /\ call' = [call EXCEPT ![x].at.work = wave]
           /\ GoTo(x, "schedule") /\ UNCHANGED checkpoint
    BY <1>9, <2>1, <2>2 DEF PrepareWave, SchedulerDone
  <2>5. CASE SchedulerDone(x, "prepare", {}, None) /\ seen' = seen  BY <1>4, <1>7, <2>5
  <2>6. CASE absent = {} /\ SchedulerDone(x, "prepare", wave, None) /\ seen' = seen
    BY <1>4, <1>7, <2>3, <2>6
  <2>7. CASE absent = {} /\ SchedulerDone(x, "wave_execute", wave, None) /\ seen' = seen
    BY <1>4, <1>7, <2>3, <2>7
  <2>8. CASE /\ seen' = [seen EXCEPT ![x] = [Snapshot EXCEPT !.todo = absent]]
             /\ call' = [call EXCEPT ![x].at.work = wave]
             /\ GoTo(x, "schedule") /\ UNCHANGED checkpoint
    BY <1>6, <2>3, <2>8
  <2>. QED  BY <2>4, <2>5, <2>6, <2>7, <2>8
<1>. QED  BY <1>8, <1>9

\* A node of the scheduler that ends on the work it had.
LEMMA SameWork ==
  ASSUME Types, NEW x \in Thread, NEW next \in Stage,
         SchedulerDone(x, next, call[x].at.work, None)
  PROVE  /\ CallSteps(x) /\ checkpoint' = checkpoint /\ pc'[x] = "nodes"
         /\ call'[x].todo = {} /\ call'[x].at.work = call[x].at.work
<1>1. PICK w \in SUBSET Execution : w = call[x].at.work
  BY DEF Types, GraphTypes, CallType, Checkpoint
<1>2. PICK r \in Verdicts \cup {None, "needs_revision"} : r = None  OBVIOUS
<1>3. SchedulerDone(x, next, w, r)  BY <1>1, <1>2
<1>4. /\ CallSteps(x) /\ checkpoint' = checkpoint /\ pc'[x] = "nodes"
      /\ call'[x].todo = {} /\ call'[x].next = next /\ call'[x].raised = call[x].raised
      /\ call'[x].graph = call[x].graph
      /\ SameAt(call'[x].at, call[x].at) /\ call'[x].at.parked = call[x].at.parked
      /\ call'[x].at.work = w /\ call'[x].at.review = r
  BY <1>3, SchedulerDoneEffect
<1>. QED  BY <1>1, <1>4

\* A commit of the scheduler: the assignment it flushed has its inputs, and what
\* it binds for the next step is the user's or an ancestor's.
LEMMA ScheduleSource ==
  ASSUME Types, SourceInv, NEW x \in Thread, Schedule(x)
  PROVE  SourceInv'
<1>1. pc[x] = "schedule" /\ None \notin Keys  BY PlanFlowAssumption DEF Schedule, Execution
<1>2. \A y \in Thread \ {x} : seen'[y] = seen[y]
  BY DEF Schedule, Types, GraphTypes
<1>3. CASE SchedulerRaises(x) /\ UNCHANGED tables
  <2>1. /\ CallSteps(x) /\ checkpoint' = checkpoint /\ pc'[x] = "nodes"
        /\ call'[x].todo = call[x].todo \ {None} /\ call'[x].raised
    BY <1>3, SchedulerRaisesEffect
  <2>2. Carries(x)'  BY <1>3, <2>1, CarriesWork, TablesAlike
  <2>3. \A g \in {"planning", "run"} : checkpoint'[g].work \cap Keys \subseteq Begun
    BY <2>1 DEF SourceInv, Placed
  <2>4. refused' \cap Keys \subseteq Begun  BY <1>3, TablesAlike DEF SourceInv, Placed
  <2>. QED
    BY <1>2, <1>3, <2>1, <2>2, <2>3, <2>4, TablesAlike, SourceKept DEF CallSteps
<1>4. ASSUME NEW k \in Keys \cup {None}, NEW n \in Keys \cup {None}, k = seen[x].pending,
             IF n = None THEN seen[x].todo = {} ELSE n \in seen[x].todo,
             Places(x, k, n), PlacedThread(x, n)
      PROVE  SourceInv'
  <2>1. plan' = plan /\ store' = store /\ refused' = refused
    BY <1>4 DEF Places
  <2>2. Begun' = Begun \cup (Keys \cap {k})
    BY <1>1, <1>4 DEF Places, Begun, Types, TaskTypes, Execution
  <2>3. k # None => k \in KeysOf(plan) /\ Supplied(k)
    BY <1>1, <1>4 DEF SourceInv, Carries
  <2>4. /\ \A j \in Keys, c \in Contract :
             /\ bound[j][c] # 0 => bound'[j][c] = bound[j][c]
             /\ bound'[j][c] # bound[j][c] =>
                  n # None /\ j = n /\ c \in InputsOf(n) /\ bound'[j][c] = Len(store[c])
        /\ n # None => \A c \in Contract : c \in InputsOf(n) => bound'[n][c] # 0 \/ store[c] = <<>>
    <3>1. CASE n = None  BY <1>4, <3>1 DEF Places
    <3>2. CASE n # None
      <4>1. PICK m \in Keys : m = n /\ Bind(m)  BY <1>4, <3>2 DEF Places
      <4>. QED  BY <2>1, <3>2, <4>1, BindEffect
    <3>. QED  BY <3>1, <3>2
  <2>5. n # None => /\ n \in KeysOf(plan) /\ AncestorSteps(plan, n) \subseteq Ancestors(plan)[n]
                    /\ InputsOf(n) \subseteq Contract
                    /\ \A c \in InputsOf(n) : bound[n][c] # 0 \/ Eligible(n, c)
    <3>. SUFFICES ASSUME n # None
                  PROVE  /\ n \in KeysOf(plan) /\ AncestorSteps(plan, n) \subseteq Ancestors(plan)[n]
                         /\ InputsOf(n) \subseteq Contract
                         /\ \A c \in InputsOf(n) : bound[n][c] # 0 \/ Eligible(n, c)
      OBVIOUS
    <3>1. n \in KeysOf(plan)  BY <1>1, <1>4 DEF Types, GraphTypes
    <3>2. plan # NoPlan  BY <3>1, NoSteps
    <3>3. AcceptedPlan(plan) /\ plan.steps \in Seq(StepType)
      BY <3>2, PlanKeys DEF Types, PlanTypes
    <3>4. InputsOf(n) \subseteq Contract  BY <3>1, <3>3, StepFields DEF InputsOf
    <3>. QED  BY <1>4, <3>1, <3>3, <3>4, SearchFindsAncestors DEF Places
  <2>6. \A j \in KeysOf(plan) : Supplied(j) => Supplied(j)'
    <3>1. \A j \in KeysOf(plan) : j \in Keys /\ InputsOf(j) \subseteq Contract
      BY PlanKeys, StepFields DEF InputsOf
    <3>. QED  BY <2>1, <2>4, <3>1 DEF Supplied, InputsOf
  <2>7. n # None => Supplied(n)'
    <3>. SUFFICES ASSUME n # None, NEW c \in InputsOf(n)  PROVE bound'[n][c] # 0
      BY <2>1 DEF Supplied, InputsOf
    <3>1. n \in Keys /\ c \in Contract  BY <2>5
    <3>2. CASE bound[n][c] # 0  BY <2>4, <3>1, <3>2
    <3>3. CASE bound[n][c] = 0  BY <2>4, <2>5, <3>1, <3>3 DEF Eligible
    <3>. QED  BY <3>2, <3>3
  <2>8. SourceTables'
    <3>1. ASSUME NEW j \in Begun'  PROVE j \in KeysOf(plan') /\ Supplied(j)'
      <4>1. j \in Begun \/ (k # None /\ j = k)  BY <1>1, <2>2
      <4>2. j \in KeysOf(plan) /\ Supplied(j)
        BY <2>3, <4>1 DEF SourceInv, SourceTables
      <4>3. Supplied(j)'  BY <2>6, <4>2
      <4>. QED  BY <2>1, <4>2, <4>3
    <3>2. ASSUME NEW j \in Keys, NEW c \in Contract, bound'[j][c] # 0
          PROVE  j \in KeysOf(plan') /\ Readable(j, c, bound[j][c])'
      <4>1. CASE bound'[j][c] = bound[j][c]
        <5>1. j \in KeysOf(plan) /\ Readable(j, c, bound[j][c])
          BY <3>2, <4>1 DEF SourceInv, SourceTables
        <5>. QED  BY <2>1, <4>1, <5>1 DEF Readable
      <4>2. CASE bound'[j][c] # bound[j][c]
        <5>1. n # None /\ j = n /\ c \in InputsOf(n) /\ bound'[j][c] = Len(store[c])
              /\ bound[j][c] = 0
          BY <2>4, <4>2
        <5>2. j \in KeysOf(plan) /\ Eligible(n, c) /\ AncestorSteps(plan, n) \subseteq Ancestors(plan)[n]
          BY <2>5, <5>1
        <5>. QED  BY <2>1, <5>1, <5>2 DEF Readable, Eligible
      <4>. QED  BY <4>1, <4>2
    <3>. QED  BY <3>1, <3>2 DEF SourceTables
  <2>9. Placed(call[x].at.work \ (seen[x].todo \cup {k}))
    BY <1>1, <1>4 DEF SourceInv, Carries
  <2>10. CallSteps(x) /\ checkpoint' = checkpoint /\ Carries(x)'
    <3>1. CASE n = None
      <4>1. PICK next \in Stage : SchedulerDone(x, next, call[x].at.work, None)
        BY <1>4, <3>1 DEF PlacedThread, Stage
      <4>2. /\ CallSteps(x) /\ checkpoint' = checkpoint /\ pc'[x] = "nodes"
            /\ call'[x].todo = {} /\ call'[x].at.work = call[x].at.work
        BY <4>1, SameWork
      <4>3. call[x].at.work \cap Keys \subseteq Begun'  BY <1>4, <2>2, <2>9, <3>1 DEF Placed
      <4>. QED  BY <4>2, <4>3 DEF Carries, Placed
    <3>2. CASE n # None
      <4>1. /\ seen'[x].pending = n /\ seen'[x].todo = seen[x].todo \ {n}
            /\ UNCHANGED <<call, checkpoint, pc>>
        BY <1>4, <3>2 DEF PlacedThread
      <4>2. CallSteps(x)  BY <4>1 DEF CallSteps, Types, GraphTypes
      <4>3. (call[x].at.work \ (seen'[x].todo \cup {n})) \cap Keys \subseteq Begun'
        BY <1>4, <2>2, <2>9, <3>2, <4>1 DEF Placed
      <4>4. n \in KeysOf(plan') /\ Supplied(n)'  BY <2>1, <2>5, <2>7, <3>2
      <4>5. Carries(x)'
        <5>1. pc'[x] = "schedule" /\ call'[x] = call[x]  BY <1>1, <4>1
        <5>. QED  BY <4>1, <4>3, <4>4, <5>1 DEF Carries, Placed
      <4>. QED  BY <4>1, <4>2, <4>5
    <3>. QED  BY <3>1, <3>2
  <2>11. \A y \in Thread : Carries(y)'
    <3>. SUFFICES ASSUME NEW y \in Thread \ {x}  PROVE Carries(y)'  BY <2>10
    <3>1. call'[y] = call[y] /\ seen'[y] = seen[y] /\ pc'[y] = pc[y]
      BY <1>2, <2>10 DEF CallSteps
    <3>2. Carries(y) /\ PlanStays /\ Begun \subseteq Begun'
      BY <2>1, <2>2 DEF SourceInv, PlanStays
    <3>3. \A j \in Keys, c \in Contract : bound[j][c] # 0 => bound'[j][c] = bound[j][c]
      BY <2>4
    <3>. QED  BY <3>1, <3>2, <3>3, OthersCarry
  <2>12. Placed(refused)' /\ \A g \in {"planning", "run"} : Placed(checkpoint[g].work)'
    BY <2>1, <2>2, <2>10 DEF SourceInv, Placed
  <2>. QED  BY <2>8, <2>11, <2>12 DEF SourceInv
<1>. QED  BY <1>3, <1>4, ScheduleBranches

\* A delivery that is finalized, of steps that are placed.
LEMMA HandlesSource ==
  ASSUME Types, SourceInv, NEW x \in Thread, NEW review, Handles(x, review),
         pc[x] \in {"finalize", "complete"}, Begun' = Begun
  PROVE  Carries(x)' /\ \A y \in Thread \ {x} : seen'[y] = seen[y]
<1>1. Placed(call[x].at.work \cup seen[x].todo)  BY DEF SourceInv, Carries
<1>2. /\ \A y \in Thread \ {x} : seen'[y] = seen[y]
      /\ call'[x].at.work = call[x].at.work
      /\ \/ /\ pc'[x] = "finalize"
            /\ seen'[x].todo = seen[x].todo \ {First(seen[x].todo)}
         \/ pc'[x] = "nodes" /\ call'[x].todo \in {{}, call[x].todo \ {None}}
  BY DEF Handles
<1>3. CASE pc'[x] = "finalize"
  <2>1. seen'[x].todo \subseteq seen[x].todo  BY <1>2, <1>3
  <2>. QED  BY <1>1, <1>2, <1>3, <2>1 DEF Carries, Placed
<1>4. CASE pc'[x] = "nodes"
  <2>1. None \notin call'[x].todo  BY <1>2, <1>4
  <2>2. call'[x].at.work \cap Keys \subseteq Begun  BY <1>1, <1>2 DEF Placed
  <2>. QED  BY <1>2, <1>4, <2>1, <2>2, CarriesWork
<1>. QED  BY <1>2, <1>3, <1>4

\* finalize_step and finalize_parallel_specialists.
LEMMA FinalizeSource ==
  ASSUME Types, SourceInv, NEW x \in Thread, Finalizes(x)
  PROVE  SourceInv'
<1>1. CallSteps(x) /\ checkpoint' = checkpoint /\ plan' = plan
  BY FinalizeThreads
<1>2. exec' = exec /\ bound' = bound
  BY DEF Finalizes, StartFinalize, FinalizeStep, EndWave, RefuseAnswer, RefuseFiles, BlockStep,
         CompleteReview, PublishDelivery, CompleteStep, FinalizeFrame, FailStep, tables
<1>3. Begun' = Begun  BY <1>2 DEF Begun
<1>4. StoreGrows
  <2>1. CASE PublishDelivery(x)
    <3>1. PICK k \in Keys : k = First(seen[x].todo)
      BY <2>1, SeenFirst DEF PublishDelivery, Finalizing
    <3>2. store' = Released(k)  BY <2>1, <3>1 DEF PublishDelivery
    <3>3. \A c \in Contract : \/ store'[c] = store[c]
                              \/ store'[c] = Append(store[c], [by |-> k, turn |-> attempt[k]])
      BY <3>2, ReleaseEffect
    <3>4. [by |-> k, turn |-> attempt[k]] \in ArtifactType
      BY DEF ArtifactType, Types, AnswerTypes, Execution
    <3>5. \A c \in Contract : store[c] \in Seq(ArtifactType)  BY DEF Types, StoreTypes
    <3>. QED  BY <3>3, <3>4, <3>5 DEF StoreGrows
  <2>2. CASE ~PublishDelivery(x)
    <3>1. store' = store
      BY <2>2 DEF Finalizes, StartFinalize, FinalizeStep, EndWave, RefuseAnswer, RefuseFiles,
                  BlockStep, CompleteReview, CompleteStep, FailStep, tables
    <3>. QED  BY <3>1 DEF StoreGrows
  <2>. QED  BY <2>1, <2>2
<1>5. refused' \cap Keys \subseteq Begun
  <2>1. \/ refused' = refused
        \/ pc[x] = "complete" /\ refused' = refused \cup {First(seen[x].todo)}
    <3>1. CASE RefuseAnswer(x) \/ RefuseFiles(x) \/ BlockStep(x)
      BY <3>1 DEF RefuseAnswer, RefuseFiles, BlockStep, FailStep, Finalizing
    <3>2. CASE ~(RefuseAnswer(x) \/ RefuseFiles(x) \/ BlockStep(x))
      BY <3>2 DEF Finalizes, StartFinalize, FinalizeStep, EndWave, CompleteReview,
                  PublishDelivery, CompleteStep, tables
    <3>. QED  BY <3>1, <3>2
  <2>2. Placed(refused) /\ (pc[x] = "complete" => Placed(call[x].at.work \cup seen[x].todo))
    BY DEF SourceInv, Carries
  <2>. QED  BY <2>1, <2>2, SeenFirst DEF Placed
<1>6. ASSUME Carries(x)', \A y \in Thread \ {x} : seen'[y] = seen[y]
      PROVE  SourceInv'
  <2>1. \A y \in Thread \ {x} : call'[y] = call[y] /\ pc'[y] = pc[y]  BY <1>1 DEF CallSteps
  <2>2. \A g \in {"planning", "run"} : checkpoint'[g].work \cap Keys \subseteq Begun
    BY <1>1 DEF SourceInv, Placed
  <2>3. PlanStays  BY <1>1 DEF PlanStays
  <2>. QED  BY <1>2, <1>3, <1>4, <1>5, <1>6, <2>1, <2>2, <2>3, SourceKept
<1>7. ASSUME NEW review, Handles(x, review), pc[x] \in {"finalize", "complete"}
      PROVE  SourceInv'
  BY <1>3, <1>6, <1>7, HandlesSource
<1>8. ASSUME NEW k \in Keys, call[x].at.results[k].says \in {"accepted", "needs_revision"},
             Leaves(x, TRUE, call[x].at.results[k].says), pc[x] \in {"finalize", "complete"}
      PROVE  SourceInv'
  <2>1. call[x].at.results[k] \in Answer
    BY DEF Types, GraphTypes, CallType, Checkpoint, Execution
  <2>2. call[x].at.results[k].says \in Verdicts \cup {None, "needs_revision"}
    BY <1>8, <2>1, PlanFlowAssumption DEF Answer
  <2>3. PICK review \in Verdicts \cup {None, "needs_revision"} :
          review = call[x].at.results[k].says
    BY <2>2
  <2>4. Leaves(x, TRUE, review)  BY <1>8, <2>3 DEF Leaves, SchedulerDone
  <2>5. Handles(x, review)  BY <2>4, LeavesEffect
  <2>. QED  BY <1>7, <1>8, <2>5
<1>9. CASE StartFinalize(x)
  <2>1. seen' = [seen EXCEPT ![x] = [NothingSeen EXCEPT !.todo = KeysOf(plan) \cap call[x].at.work]]
        /\ pc' = [pc EXCEPT ![x] = "finalize"] /\ call' = call
    BY <1>9 DEF StartFinalize, GoTo
  <2>2. pc'[x] = "finalize" /\ seen'[x].todo = KeysOf(plan) \cap call[x].at.work
        /\ \A y \in Thread \ {x} : seen'[y] = seen[y]
    BY <2>1 DEF NothingSeen, Types, GraphTypes
  <2>3. pc[x] = "nodes" /\ None \in call[x].todo
    BY <1>9 DEF StartFinalize, RunsScheduler
  <2>4. Placed(call[x].at.work)  BY <2>3 DEF SourceInv, Carries
  <2>5. Carries(x)'  BY <1>3, <2>1, <2>2, <2>4 DEF Carries, Placed
  <2>. QED  BY <1>6, <2>2, <2>5
<1>10. CASE FinalizeStep(x)
  <2>1. pc[x] = "finalize" /\ seen[x].todo # {} /\ seen[x].todo \subseteq KeysOf(plan)
    BY <1>10 DEF FinalizeStep, Types, GraphTypes
  <2>2. PICK k \in Keys : k = First(seen[x].todo)  BY <2>1, PlanKeys, FirstIn
  <2>3. CASE Leaves(x, TRUE, None) \/ Leaves(x, FALSE, None) \/ Refuses(x)
    <3>1. \E review : Handles(x, review)  BY <2>3, LeavesEffect, RefusesEffect
    <3>. QED  BY <1>7, <2>1, <3>1
  <2>4. CASE /\ call[x].at.results[k].says \in {"accepted", "needs_revision"}
             /\ Leaves(x, TRUE, call[x].at.results[k].says)
    BY <1>8, <2>1, <2>4
  <2>5. CASE /\ seen' = [seen EXCEPT ![x] = [Snapshot EXCEPT
                            !.todo = seen[x].todo, !.failures = seen[x].failures]]
             /\ GoTo(x, "complete")
             /\ UNCHANGED <<call, checkpoint>>
    <3>1. pc'[x] = "complete" /\ seen'[x].todo = seen[x].todo /\ call' = call
          /\ \A y \in Thread \ {x} : seen'[y] = seen[y]
      BY <2>5 DEF GoTo, Snapshot, NothingSeen, Types, GraphTypes
    <3>2. Placed(call[x].at.work \cup seen[x].todo)  BY <2>1 DEF SourceInv, Carries
    <3>3. Carries(x)'  BY <1>3, <3>1, <3>2 DEF Carries, Placed
    <3>. QED  BY <1>6, <3>1, <3>3
  <2>. QED  BY <1>10, <2>2, <2>3, <2>4, <2>5 DEF FinalizeStep
<1>11. CASE EndWave(x)
  <2>1. call[x].at.work \in SUBSET Execution
        /\ call[x].at.review \in Verdicts \cup {None, "needs_revision"}
    BY DEF Types, GraphTypes, CallType, Checkpoint
  <2>2. PICK work \in SUBSET Execution : work = call[x].at.work  BY <2>1
  <2>n. PICK next \in Stage :
          next = (IF seen[x].failures \/ call[x].at.review # None THEN "end" ELSE "prepare")
    BY DEF Stage
  <2>r. PICK review \in Verdicts \cup {None, "needs_revision"} :
          review = (IF seen[x].failures THEN None ELSE call[x].at.review)
    BY <2>1
  <2>3. SchedulerDone(x, next, work, review)
    BY <1>11, <2>2, <2>n, <2>r DEF EndWave, SchedulerDone
  <2>5. /\ CallSteps(x) /\ checkpoint' = checkpoint /\ pc'[x] = "nodes"
        /\ call'[x].todo = {} /\ call'[x].next = next /\ call'[x].raised = call[x].raised
        /\ call'[x].graph = call[x].graph
        /\ SameAt(call'[x].at, call[x].at) /\ call'[x].at.parked = call[x].at.parked
        /\ call'[x].at.work = work /\ call'[x].at.review = review
    BY <2>3, SchedulerDoneEffect
  <2>6. pc[x] = "finalize"  BY <1>11 DEF EndWave
  <2>7. Placed(call[x].at.work)  BY <2>6 DEF SourceInv, Carries, Placed
  <2>8. call'[x].at.work \cap Keys \subseteq Begun  BY <2>2, <2>5, <2>7 DEF Placed
  <2>9. None \notin call'[x].todo  BY <2>5
  <2>10. Carries(x)'  BY <1>3, <2>5, <2>8, <2>9, CarriesWork
  <2>. QED  BY <1>6, <1>11, <2>10, ForgetEffect DEF EndWave
<1>12. CASE RefuseAnswer(x) \/ RefuseFiles(x)
  <2>1. Refuses(x) /\ pc[x] = "complete"
    BY <1>12 DEF RefuseAnswer, RefuseFiles, Finalizing
  <2>. QED  BY <1>7, <2>1, RefusesEffect
<1>13. CASE BlockStep(x)
  <2>1. Leaves(x, TRUE, "needs_revision") /\ pc[x] = "complete"
    BY <1>13 DEF BlockStep, Finalizing
  <2>2. Handles(x, "needs_revision")  BY <2>1, LeavesEffect
  <2>. QED  BY <1>7, <2>1, <2>2
<1>14. CASE CompleteReview(x)
  <2>1. pc[x] = "complete"  BY <1>14 DEF CompleteReview, Finalizing
  <2>2. PICK k \in Keys : k = First(seen[x].todo)  BY <2>1, SeenFirst
  <2>. QED  BY <1>8, <1>14, <2>1, <2>2 DEF CompleteReview, Finalizing
<1>15. CASE PublishDelivery(x)
  <2>1. pc[x] = "complete" /\ UNCHANGED <<call, checkpoint, pc>>
        /\ seen' = [seen EXCEPT ![x].pending = First(seen[x].todo)]
    BY <1>15 DEF PublishDelivery, Finalizing
  <2>2. seen'[x].todo = seen[x].todo /\ \A y \in Thread \ {x} : seen'[y] = seen[y]
    BY <2>1 DEF Types, GraphTypes, SeenType
  <2>3. Placed(call[x].at.work \cup seen[x].todo)  BY <2>1 DEF SourceInv, Carries
  <2>4. Carries(x)'  BY <1>3, <2>1, <2>2, <2>3 DEF Carries, Placed
  <2>. QED  BY <1>6, <2>2, <2>4
<1>16. CASE CompleteStep(x)
  <2>1. Leaves(x, FALSE, None) /\ pc[x] = "complete"  BY <1>16 DEF CompleteStep
  <2>2. Handles(x, None)  BY <2>1, LeavesEffect
  <2>. QED  BY <1>7, <2>1, <2>2
<1>. QED
  BY <1>9, <1>10, <1>11, <1>12, <1>13, <1>14, <1>15, <1>16 DEF Finalizes

\* A thread that leaves carries nothing.
LEMMA LeaveSource ==
  ASSUME Types, SourceInv, NEW x \in Thread, Leave(x), PlanStays, StoreGrows,
         bound' = bound, Begun' = Begun, refused' \cap Keys \subseteq Begun,
         checkpoint' = checkpoint
  PROVE  SourceInv'
<1>1. pc'[x] = "idle"
      /\ \A y \in Thread \ {x} : call'[y] = call[y] /\ pc'[y] = pc[y] /\ seen'[y] = seen[y]
  BY LeaveEffect
<1>2. Carries(x)'  BY <1>1, CarriesNothing
<1>3. \A g \in {"planning", "run"} : checkpoint'[g].work \cap Keys \subseteq Begun
  BY DEF SourceInv, Placed
<1>. QED  BY <1>1, <1>2, <1>3, SourceKept

\* A thread goes to a place where it carries nothing.
LEMMA GoSource ==
  ASSUME Types, SourceInv, NEW x \in Thread, NEW place, GoTo(x, place),
         place \notin {"nodes", "schedule", "finalize", "complete"},
         PlanStays, StoreGrows, bound' = bound, Begun' = Begun,
         refused' \cap Keys \subseteq Begun, UNCHANGED <<checkpoint, call, seen>>
  PROVE  SourceInv'
<1>1. pc'[x] = place /\ \A y \in Thread \ {x} : pc'[y] = pc[y]
  BY DEF GoTo, Types, GraphTypes
<1>2. Carries(x)'  BY <1>1, CarriesNothing
<1>3. \A g \in {"planning", "run"} : checkpoint'[g].work \cap Keys \subseteq Begun
  BY DEF SourceInv, Placed
<1>. QED  BY <1>1, <1>2, <1>3, SourceKept

\* A graph is entered on a checkpoint whose work is placed.
LEMMA EnterSource ==
  ASSUME Types, SourceInv, NEW x \in Thread, NEW g \in {"planning", "run"},
         NEW c \in Checkpoint, NEW given \in Execution \cup {None}, Enter(x, g, c, given),
         Placed(c.work), UNCHANGED <<tables, seen>>,
         checkpoint' = checkpoint \/ checkpoint' = [checkpoint EXCEPT ![g] = c]
  PROVE  SourceInv'
<1>1. Entered(x, g, c, given)  BY EnterEffect
<1>2. Begun' = Begun  BY TablesAlike
<1>3. Carries(x)'
  <2>1. CASE c.stage = "end"
    <3>1. pc'[x] = "returned"  BY <1>1, <2>1 DEF Entered
    <3>. QED  BY <3>1, CarriesNothing
  <2>2. CASE c.stage # "end"
    <3>1. /\ pc'[x] = "nodes" /\ ~call'[x].raised /\ call'[x].at.stage = c.stage
          /\ call'[x].at.work = c.work /\ (c.stage \in Working => call'[x].todo = c.work \ c.done)
      BY <1>1, <2>2 DEF Entered, SameAt
    <3>2. None \notin c.work  BY PlanFlowAssumption DEF Checkpoint
    <3>3. call'[x].at.work \cap Keys \subseteq Begun  BY <3>1 DEF Placed
    <3>. QED  BY <1>2, <3>1, <3>2, <3>3, CarriesWork
  <2>. QED  BY <2>1, <2>2
<1>4. \A y \in Thread \ {x} : call'[y] = call[y] /\ pc'[y] = pc[y] /\ seen'[y] = seen[y]
  BY <1>1 DEF Entered
<1>5. \A h \in {"planning", "run"} : checkpoint'[h].work \cap Keys \subseteq Begun
  BY DEF SourceInv, Placed, Types, GraphTypes
<1>6. refused' \cap Keys \subseteq Begun  BY TablesAlike DEF SourceInv, Placed
<1>. QED  BY <1>3, <1>4, <1>5, <1>6, TablesAlike, SourceKept

\* The superstep is over: what the next stage works on is placed.
LEMMA EndSuperstepSource ==
  ASSUME Types, SourceInv, NEW x \in Thread, EndSuperstep(x)
  PROVE  SourceInv'
<1>1. UNCHANGED tables /\ pc[x] = "nodes" /\ refused' \cap Keys \subseteq Begun
  BY TablesAlike DEF EndSuperstep, SourceInv, Placed
<1>2. CASE Leave(x) /\ checkpoint' = checkpoint  BY <1>1, <1>2, TablesAlike, LeaveSource
<1>3. CASE GoTo(x, "returned") /\ UNCHANGED <<checkpoint, call, seen>>
  BY <1>1, <1>3, TablesAlike, GoSource
<1>4. CASE ~call[x].raised
  <2>. DEFINE c == call[x].at
              next == [c EXCEPT !.stage = call[x].next, !.by = <<x, calls>>,
                                !.done = {}, !.parked = {}]
  <2>1. CASE c.parked # {}  BY <1>3, <1>4, <2>1 DEF EndSuperstep
  <2>2. CASE c.parked = {}
    <3>1. /\ checkpoint' = [checkpoint EXCEPT ![call[x].graph] = next]
          /\ Enter(x, call[x].graph, next, None) /\ seen' = seen
      BY <1>4, <2>2 DEF EndSuperstep
    <3>2. Placed(c.work)  BY <1>1, <1>4 DEF SourceInv, Carries
    <3>3. next \in Checkpoint /\ next.work = c.work
      <4>1. c \in Checkpoint /\ call[x].next \in Stage /\ calls \in Nat
        BY DEF Types, GraphTypes, BackendTypes, CallType
      <4>. QED  BY <4>1 DEF Checkpoint
    <3>4. PICK n \in Checkpoint, g \in {"planning", "run"}, given \in Execution \cup {None} :
            n = next /\ g = call[x].graph /\ given = None
      BY <3>3 DEF Types, GraphTypes, CallType
    <3>. HIDE DEF next
    <3>5. Enter(x, g, n, given) /\ Placed(n.work) /\ UNCHANGED <<tables, seen>>
          /\ checkpoint' = [checkpoint EXCEPT ![g] = n]
      BY <1>1, <3>1, <3>2, <3>3, <3>4
    <3>. QED  BY <3>5, EnterSource
  <2>. QED  BY <2>1, <2>2
<1>5. CASE call[x].raised  BY <1>2, <1>4, <1>5 DEF EndSuperstep
<1>. QED  BY <1>4, <1>5

\* What a thread does with the result of an invocation.
LEMMA ResultSource ==
  ASSUME Types, SourceInv, NEW x \in Thread,
         Returned(x) \/ Finish(x) \/ AdoptPlan(x) \/ MarkPlanned(x) \/ RefusePlan(x)
  PROVE  SourceInv'
<1>. DEFINE Alike == PlanStays /\ StoreGrows /\ bound' = bound /\ Begun' = Begun
<1>1. UNCHANGED <<store, bound, exec, checkpoint>>
  BY DEF Returned, Finish, AdoptPlan, MarkPlanned, RefusePlan, tables
<1>2. Alike
  <2>1. plan' = plan \/ plan = NoPlan
    BY DEF Returned, Finish, AdoptPlan, MarkPlanned, RefusePlan, tables
  <2>. QED  BY <1>1, <2>1 DEF PlanStays, StoreGrows, Begun
<1>3. refused' \cap Keys \subseteq Begun
  <2>1. refused' = refused \/ refused' = refused \cup {Planner}
    BY DEF Returned, Finish, AdoptPlan, MarkPlanned, RefusePlan, tables
  <2>. QED  BY <2>1, PlanFlowAssumption DEF SourceInv, Placed
<1>4. CASE Leave(x)  BY <1>1, <1>2, <1>3, <1>4, LeaveSource
<1>5. ASSUME NEW place \in {"planned", "finish", "mark"}, GoTo(x, place), UNCHANGED <<call, seen>>
      PROVE  SourceInv'
  BY <1>1, <1>2, <1>3, <1>5, GoSource
<1>. HIDE DEF Alike
<1>6. CASE Returned(x)
  <2>1. Leave(x) \/ ((GoTo(x, "planned") \/ GoTo(x, "finish")) /\ UNCHANGED <<call, seen>>)
    BY <1>6 DEF Returned
  <2>. QED  BY <1>4, <1>5, <2>1
<1>7. CASE Finish(x) \/ MarkPlanned(x) \/ RefusePlan(x)
  BY <1>4, <1>7 DEF Finish, MarkPlanned, RefusePlan
<1>8. CASE AdoptPlan(x)  BY <1>5, <1>8 DEF AdoptPlan
<1>. QED  BY <1>6, <1>7, <1>8

LEMMA GraphSource ==
  ASSUME Types, SourceInv, NEW x \in Thread, GraphStep(x)
  PROVE  SourceInv'
BY NodeSource, PrepareSource, ScheduleSource, FinalizeSource, EndSuperstepSource, ResultSource
   DEF GraphStep, Prepares

\* plan, start and retry: a refused delivery is one of a step that is placed.
LEMMA ClientSource ==
  ASSUME Types, SourceInv, ClientCalls \/ Planning \/ Running
  PROVE  SourceInv'
<1>1. Api \in Thread  BY ThreadNames
<1>2. UNCHANGED <<plan, store, bound, checkpoint>>
  BY DEF ClientCalls, CallPlan, CallStart, CallRetry, Planning, Running, tables
<1>3. PlanStays /\ StoreGrows /\ bound' = bound  BY <1>2 DEF PlanStays, StoreGrows
<1>4. exec \in [Execution -> ExecStatus] /\ Placed(refused)
  BY DEF Types, TaskTypes, SourceInv
<1>5. Begun' = Begun
  <2>1. CASE CallPlan \/ CallStart \/ Running
    BY <2>1 DEF CallPlan, CallStart, Running, tables, Begun
  <2>2. CASE CallRetry
    <3>1. \A k \in Keys : exec'[k] # "absent" <=> exec[k] # "absent"
      BY <1>4, <2>2 DEF CallRetry, FailedAssignments, Placed, Begun, Execution
    <3>. QED  BY <3>1 DEF Begun
  <2>3. CASE Planning
    <3>1. \A k \in Keys : exec'[k] = exec[k]
      BY <1>4, <2>3, PlanFlowAssumption DEF Planning, Execution
    <3>. QED  BY <3>1 DEF Begun
  <2>. QED  BY <2>1, <2>2, <2>3 DEF ClientCalls
<1>6. refused' \cap Keys \subseteq Begun
  <2>1. refused' = refused \/ refused' = {}
    BY DEF ClientCalls, CallPlan, CallStart, CallRetry, Planning, Running, tables
  <2>. QED  BY <1>4, <2>1 DEF Placed
<1>7. CASE Leave(Api)  BY <1>1, <1>2, <1>3, <1>5, <1>6, <1>7, LeaveSource
<1>8. ASSUME NEW place \in {"plan", "run", "invoke"}, GoTo(Api, place), UNCHANGED <<call, seen>>
      PROVE  SourceInv'
  BY <1>1, <1>2, <1>3, <1>5, <1>6, <1>8, GoSource
<1>9. \/ Leave(Api)
      \/ /\ GoTo(Api, "plan") \/ GoTo(Api, "run") \/ GoTo(Api, "invoke")
         /\ UNCHANGED <<call, seen>>
  BY DEF ClientCalls, CallPlan, CallStart, CallRetry, Planning, Running
<1>. QED  BY <1>7, <1>8, <1>9

\* A graph starts on lead.plan or on nothing, or goes on.
LEMMA InvokeSource ==
  ASSUME Types, SourceInv, Invoke
  PROVE  SourceInv'
<1>. DEFINE g == IF held = Api THEN "planning" ELSE "run"
            first == IF g = "planning" THEN "execute"
                     ELSE IF Parallel THEN "wave_prepare" ELSE "prepare"
            fresh == [NoCheckpoint EXCEPT
                !.stage = first, !.by = <<Api, calls>>, !.results = checkpoint[g].results,
                !.work = IF g = "planning" THEN {Planner} ELSE {}]
<1>1. first \in Stage  BY DEF Stage, Working
<1>. HIDE DEF first
<1>2. fresh \in Checkpoint /\ checkpoint[g] \in Checkpoint
  BY <1>1, Fresh DEF Types, GraphTypes
<1>3. Placed(fresh.work)
  BY PlanFlowAssumption DEF Placed, NoCheckpoint
<1>4. Placed(checkpoint[g].work)  BY DEF SourceInv
<1>5. \E c \in {checkpoint[g], fresh} :
        checkpoint' = [checkpoint EXCEPT ![g] = c] /\ Enter(Api, g, c, None)
  BY DEF Invoke, first
<1>6. UNCHANGED <<tables, seen>>  BY DEF Invoke
<1>7. PICK h \in {"planning", "run"} : h = g  OBVIOUS
<1>. HIDE DEF fresh, g
<1>8. PICK c \in Checkpoint :
        checkpoint' = [checkpoint EXCEPT ![h] = c] /\ Enter(Api, h, c, None) /\ Placed(c.work)
  BY <1>2, <1>3, <1>4, <1>5, <1>7
<1>9. Api \in Thread  BY ThreadNames
<1>10. PICK given \in Execution \cup {None} : given = None  OBVIOUS
<1>11. Enter(Api, h, c, given)  BY <1>8, <1>10
<1>. QED  BY <1>6, <1>8, <1>9, <1>11, EnterSource

\* A resume goes on from the checkpoint of the graph.
LEMMA ResumeSource ==
  ASSUME Types, SourceInv, NEW e \in Execution, Resume(e)
  PROVE  SourceInv'
<1>1. Worker(e) \in Thread /\ UNCHANGED <<tables, checkpoint>>
      /\ refused' \cap Keys \subseteq Begun
  BY ThreadNames, TablesAlike DEF Resume, SourceInv, Placed
<1>2. CASE Leave(Worker(e))  BY <1>1, <1>2, TablesAlike, LeaveSource
<1>3. CASE (Enter(Worker(e), Graph, checkpoint[Graph], e)
            \/ Enter(Worker(e), Graph, checkpoint[Graph], None)) /\ seen' = seen
  <2>1. PICK g \in {"planning", "run"} : g = Graph  BY DEF Graph
  <2>2. PICK c \in Checkpoint : c = checkpoint[g]  BY DEF Types, GraphTypes
  <2>3. PICK given \in Execution \cup {None} : Enter(Worker(e), g, c, given)
    BY <1>3, <2>1, <2>2
  <2>4. Placed(c.work)  BY <2>2 DEF SourceInv
  <2>. QED  BY <1>1, <1>3, <2>3, <2>4, EnterSource
<1>. QED  BY <1>2, <1>3 DEF Resume

\* The end of a Turn, whoever tells it, and a Turn that is attached again.
LEMMA TurnSource ==
  ASSUME Types, SourceInv, NEW e \in Execution, TurnCompletes(e) \/ FailTurn(e) \/ Reattach(e)
  PROVE  SourceInv'
<1>1. UNCHANGED <<plan, refused, store, bound, checkpoint, call, seen>>
  BY DEF TurnCompletes, FailTurn, Reattach, tables, threads
<1>2. PlanStays /\ StoreGrows  BY <1>1 DEF PlanStays, StoreGrows
<1>3. Begun' = Begun
  <2>1. \/ exec' = exec
        \/ /\ exec[e] = "waiting"
           /\ \/ exec' = [exec EXCEPT ![e] = "completed"]
              \/ exec' = [exec EXCEPT ![e] = "failed"]
    <3>1. CASE TurnCompletes(e)  BY <3>1 DEF TurnCompletes
    <3>2. CASE FailTurn(e)  BY <3>2 DEF FailTurn
    <3>3. CASE Reattach(e)  BY <3>3 DEF Reattach, tables
    <3>. QED  BY <3>1, <3>2, <3>3
  <2>. QED  BY <2>1 DEF Begun, Types, TaskTypes, Execution
<1>4. /\ refused' \cap Keys \subseteq Begun
      /\ \A g \in {"planning", "run"} : checkpoint'[g].work \cap Keys \subseteq Begun
  BY <1>1 DEF SourceInv, Placed
<1>5. ASSUME NEW y \in Thread
      PROVE  Carries(y)' \/ (call'[y] = call[y] /\ seen'[y] = seen[y] /\ pc'[y] = pc[y])
  <2>1. pc' = pc \/ \E place \in {"idle", "resume"} : GoTo(Worker(e), place)
    BY DEF TurnCompletes, FailTurn, Reattach, threads
  <2>2. pc'[y] = pc[y] \/ pc'[y] \in {"idle", "resume"}
    BY <2>1 DEF GoTo, Types, GraphTypes
  <2>. QED  BY <1>1, <2>2, CarriesNothing
<1>. QED  BY <1>1, <1>2, <1>3, <1>4, <1>5, SourceKept

\* Cancellation, a new task input, and the backend.
LEMMA OutsideSource ==
  ASSUME Types, SourceInv,
         CancelTask \/ Crash \/ Startup \/ (\E c \in Contract : PublishInput(c))
           \/ UNCHANGED vars
  PROVE  SourceInv'
<1>1. plan' = plan /\ bound' = bound /\ checkpoint' = checkpoint
  BY DEF CancelTask, Crash, Startup, PublishInput, tables, vars
<1>2. PlanStays  BY <1>1 DEF PlanStays
<1>3. StoreGrows
  <2>1. CASE CancelTask \/ Crash \/ Startup \/ UNCHANGED vars
    BY <2>1 DEF CancelTask, Crash, Startup, tables, vars, StoreGrows
  <2>2. ASSUME NEW c \in Contract, PublishInput(c)  PROVE StoreGrows
    <3>1. PICK a \in ArtifactType : store' = [store EXCEPT ![c] = Append(@, a)]
      <4>1. inputs' \in Nat
        BY <2>2, PlanFlowAssumption DEF PublishInput, Types, BackendTypes
      <4>2. [by |-> None, turn |-> inputs'] \in ArtifactType  BY <4>1 DEF ArtifactType
      <4>. QED  BY <2>2, <4>2 DEF PublishInput
    <3>2. store \in [Contract -> Seq(ArtifactType)]  BY DEF Types, StoreTypes
    <3>. QED  BY <3>1, <3>2 DEF StoreGrows
  <2>. QED  BY <2>1, <2>2
<1>4. Begun' = Begun
  <2>1. CASE CancelTask
    <3>1. \A k \in Keys : exec'[k] # "absent" <=> exec[k] # "absent"
      BY <2>1 DEF CancelTask, Execution
    <3>. QED  BY <3>1 DEF Begun
  <2>2. CASE ~CancelTask
    BY <2>2 DEF Crash, Startup, PublishInput, tables, vars, Begun
  <2>. QED  BY <2>1, <2>2
<1>5. refused' \cap Keys \subseteq Begun
  <2>1. refused' = refused \/ refused' = {}
    BY DEF CancelTask, Crash, Startup, PublishInput, tables, vars
  <2>. QED  BY <2>1 DEF SourceInv, Placed
<1>6. \A g \in {"planning", "run"} : checkpoint'[g].work \cap Keys \subseteq Begun
  BY <1>1 DEF SourceInv, Placed
<1>7. ASSUME NEW y \in Thread
      PROVE  Carries(y)' \/ (call'[y] = call[y] /\ seen'[y] = seen[y] /\ pc'[y] = pc[y])
  <2>1. UNCHANGED <<call, seen, pc>> \/ pc'[y] = "idle"
    BY DEF CancelTask, Crash, Startup, PublishInput, threads, vars
  <2>. QED  BY <2>1, CarriesNothing
<1>. QED  BY <1>1, <1>2, <1>3, <1>4, <1>5, <1>6, <1>7, SourceKept

LEMMA SourceInit == PlanInit => SourceInv
<1>. SUFFICES ASSUME PlanInit PROVE SourceInv  OBVIOUS
<1>1. Begun = {} /\ refused = {} /\ \A x \in Thread : pc[x] = "idle"
  BY DEF PlanInit, Begun, Execution
<1>2. \A k \in Keys, c \in Contract : bound[k][c] = 0  BY DEF PlanInit
<1>3. \A g \in {"planning", "run"} : checkpoint[g].work = {}
  BY DEF PlanInit, NoCheckpoint
<1>4. \A x \in Thread : Carries(x)  BY <1>1 DEF Carries
<1>. QED  BY <1>1, <1>2, <1>3, <1>4 DEF SourceInv, SourceTables, Placed

LEMMA SourceNext == Types /\ SourceInv /\ [Next]_vars => SourceInv'
<1>. SUFFICES ASSUME Types, SourceInv, [Next]_vars PROVE SourceInv'  OBVIOUS
<1>1. CASE ClientCalls \/ ClientSteps
  BY <1>1, ClientSource, InvokeSource DEF ClientSteps
<1>2. ASSUME NEW x \in Thread, GraphStep(x)  PROVE SourceInv'  BY <1>2, GraphSource
<1>3. ASSUME NEW e \in Execution, Resume(e)  PROVE SourceInv'  BY <1>3, ResumeSource
<1>4. ASSUME NEW e \in Execution, TurnEnds(e) \/ Reattach(e) \/ Orphaned(e)  PROVE SourceInv'
  BY <1>4, TurnSource DEF TurnEnds, TurnFails, Orphaned
<1>5. CASE CancelTask \/ Crash \/ Startup \/ (\E c \in Contract : PublishInput(c))
           \/ UNCHANGED vars
  BY <1>5, OutsideSource
<1>. QED  BY <1>1, <1>2, <1>3, <1>4, <1>5 DEF Next

LEMMA SourceInvHolds == Spec => []SourceInv
<1>1. Types /\ SourceInv /\ [Next]_vars => SourceInv'  BY SourceNext
<1>. QED  BY <1>1, SourceInit, TypesAlways, PTL DEF Spec

\* Whatever the lead planned, however calls overlap and however often a step is
\* retried or the backend restarts, a step that has an assignment has all its
\* inputs, each from the user or from an ancestor; when no client calls while a
\* Turn or a thread is busy, that ancestor is completed (InputsFromAncestors).
THEOREM PlanInputsFromAncestors == Spec => []InputsFromAncestors
<1>. DEFINE Inv == Overlapping \/ PlanInv
<1>1. Types /\ SourceInv /\ Inv => InputsFromAncestors
  <2>. SUFFICES ASSUME Types, SourceInv, Overlapping \/ PlanInv  PROVE InputsFromAncestors
    OBVIOUS
  <2>1. ASSUME NEW k \in Keys, exec[k] # "absent", NEW c \in InputsOf(k)
        PROVE  /\ bound[k][c] # 0
               /\ \/ store[c][bound[k][c]].by = None /\ c \in plan.initial
                  \/ /\ store[c][bound[k][c]].by \in Ancestors(plan)[k]
                     /\ Overlapping \/ store[c][bound[k][c]].by \in Done
    <3>1. k \in Begun  BY <2>1 DEF Begun
    <3>2. k \in KeysOf(plan) /\ bound[k][c] # 0
      BY <3>1 DEF SourceInv, SourceTables, Supplied
    <3>3. c \in Contract  BY <3>2, PlanKeys, StepFields DEF InputsOf
    <3>4. Readable(k, c, bound[k][c])  BY <3>2, <3>3 DEF SourceInv, SourceTables
    <3>5. ~Overlapping => Sourced(k, c, bound[k][c])
      BY <3>2, <3>3 DEF PlanInv, TableInv, BoundWell
    <3>. QED  BY <3>2, <3>4, <3>5 DEF Readable, Sourced
  <2>. QED  BY <2>1 DEF InputsFromAncestors
<1>2. PlanInit => Inv  BY PlanInvInit
<1>3. Types /\ Inv /\ [Next]_vars => Inv'  BY PlanInvNext
<1>. HIDE DEF Inv
<1>. QED  BY <1>1, <1>2, <1>3, TypesAlways, SourceInvHolds, PTL DEF Spec

-----------------------------------------------------------------------------
(* What an accepted review says, and the order of the steps.               *)

\* The task, its plan and its steps agree on an accepted review: a task is
\* completed only when its plan is, and every step of it (AcceptedTogether).
THEOREM PlanAcceptedTogether ==
  ASSUME ~Overlapping
  PROVE  Spec => []AcceptedTogether
<1>1. Types /\ PlanInv => AcceptedTogether
  <2>. SUFFICES ASSUME Types, PlanInv, taskStatus = "completed"
                PROVE  planStatus = "completed" /\ Done = KeysOf(plan)
    BY DEF AcceptedTogether
  <2>1. Accepted /\ TableInv  BY DEF PlanInv, Ended
  <2>2. planStatus = "completed"  BY <2>1 DEF TableInv, Judged
  <2>3. KeysOf(plan) \subseteq Done  BY <2>1, AcceptedAll DEF TableInv
  <2>4. Done \subseteq KeysOf(plan)
    BY <2>1 DEF TableInv, DoneWell, BegunPlanned, Begun, Done
  <2>. QED  BY <2>2, <2>3, <2>4
<1>. QED  BY <1>1, TypesAlways, PlanInvHolds, PTL

-----------------------------------------------------------------------------
(* The tables and the threads implement PlanOrder.                         *)

\* A step that leaves the plan, what was handed out and what was delivered.
StepsKept == plan' = plan /\ Begun' = Begun /\ Done' = Done

\* What a step may do to them: the plan is adopted, steps are handed out, or one
\* of those delivers.
Progress ==
  \/ /\ plan = NoPlan /\ Begun = {} /\ Done = {} /\ Begun' = {} /\ Done' = {}
     /\ taskStatus' = taskStatus /\ plan'.steps \in Seq(StepType) /\ AcceptedPlan(plan')
  \/ plan' = plan /\ Done' = Done /\ Begun \subseteq Begun'
  \/ /\ plan' = plan /\ Begun' = Begun
     /\ \E k \in Begun \ Done : Done' = Done \cup {k}

LEMMA StepsSame ==
  ASSUME UNCHANGED <<plan, step, exec>>
  PROVE  StepsKept
BY DEF StepsKept, Begun, Done

\* A step of a graph does one of the three.
LEMMA GraphProgress ==
  ASSUME Types, Serial, Kept, NEW x \in Thread, GraphStep(x)
  PROVE  Progress
<1>1. StepsKept => Progress  BY DEF StepsKept, Progress
<1>2. ASSUME NEW e \in Execution, Node(x, e)  PROVE Progress
  BY <1>2, NodeKeeps DEF Progress
<1>3. CASE Schedule(x)  BY <1>3, ScheduleKeeps DEF Progress
<1>4. CASE Finalizes(x)  BY <1>4, FinalizeKeeps DEF Progress
<1>5. CASE AdoptPlan(x)
  <2>1. plan = NoPlan /\ Begun = {} /\ Done' = {}  BY <1>5, AdoptKeeps
  <2>2. plan' = offered /\ AcceptedPlan(offered) /\ UNCHANGED <<exec, taskStatus>>
    BY <1>5 DEF AdoptPlan
  <2>3. Begun' = {}  BY <2>1, <2>2 DEF Begun
  <2>4. Done = {}
    <3>1. \A k \in Done : k \in Begun  BY DEF Kept, TableInv, DoneWell, Begun, Done
    <3>. QED  BY <2>1, <3>1
  <2>5. offered.steps \in Seq(StepType)  BY DEF Types, PlanTypes, Plan
  <2>. QED  BY <2>1, <2>2, <2>3, <2>4, <2>5 DEF Progress
<1>6. CASE PrepareStep(x) \/ PrepareWave(x) \/ EndSuperstep(x) \/ Returned(x)
           \/ Finish(x) \/ MarkPlanned(x) \/ RefusePlan(x)
  <2>1. UNCHANGED <<plan, step, exec>>
    BY <1>6 DEF PrepareStep, PrepareWave, EndSuperstep, Returned, Finish, MarkPlanned,
                RefusePlan, tables
  <2>. QED  BY <1>1, <2>1, StepsSame
<1>. QED  BY <1>2, <1>3, <1>4, <1>5, <1>6 DEF GraphStep, Prepares

\* And so does every step.
LEMMA ProgressNext ==
  ASSUME Types, ~Overlapping, PlanInv, [Next]_vars
  PROVE  Progress
<1>1. Serial /\ Kept  BY DEF PlanInv, Kept
<1>2. StepsKept => Progress  BY DEF StepsKept, Progress
<1>3. CASE CallRetry  BY <1>1, <1>2, <1>3, RetryKeeps DEF StepsKept
<1>4. CASE CallPlan \/ CallStart \/ Running \/ Invoke
  <2>1. UNCHANGED <<plan, step, exec>>
    BY <1>4 DEF CallPlan, CallStart, Running, Invoke, tables
  <2>. QED  BY <1>2, <2>1, StepsSame
<1>5. CASE Planning
  <2>1. UNCHANGED <<plan, step>> /\ \A k \in Execution \ {Planner} : exec'[k] = exec[k]
    BY <1>5 DEF Planning, Types, TaskTypes
  <2>2. \A k \in Keys : exec'[k] = exec[k]  BY <2>1, PlanFlowAssumption DEF Execution
  <2>. QED  BY <1>2, <2>1, <2>2 DEF StepsKept, Begun, Done
<1>6. ASSUME NEW x \in Thread, GraphStep(x)  PROVE Progress  BY <1>1, <1>6, GraphProgress
<1>7. ASSUME NEW e \in Execution, TurnEnds(e) \/ Orphaned(e)  PROVE Progress
  <2>1. TurnCompletes(e) \/ FailTurn(e)  BY <1>7 DEF TurnEnds, TurnFails, Orphaned
  <2>. QED  BY <1>1, <1>2, <2>1, TurnKeeps DEF StepsKept
<1>8. CASE CancelTask  BY <1>1, <1>2, <1>8, CancelKeeps DEF StepsKept
<1>9. CASE \/ \E e \in Execution : Resume(e) \/ Reattach(e)
           \/ \E c \in Contract : PublishInput(c)
           \/ Crash \/ Startup \/ UNCHANGED vars
  <2>1. UNCHANGED <<plan, step, exec>>
    BY <1>9 DEF Resume, Reattach, PublishInput, Crash, Startup, vars, tables
  <2>. QED  BY <1>2, <2>1, StepsSame
<1>. QED  BY <1>3, <1>4, <1>5, <1>6, <1>7, <1>8, <1>9 DEF Next, ClientCalls, ClientSteps

\* Only the end of a graph completes a task.
LEMMA FinishAccepts ==
  ASSUME Types, NEW x \in Thread, GraphStep(x), taskStatus' = "completed",
         taskStatus # "completed"
  PROVE  Finish(x)
<1>1. ASSUME NEW e \in Execution, Node(x, e)  PROVE FALSE
  BY <1>1 DEF Node, NodeReturns, NodeParks, NodeRejected, SubmissionWaits,
              SubmissionCompletes, SubmissionFails
<1>2. ASSUME PrepareStep(x) \/ PrepareWave(x) \/ EndSuperstep(x) \/ Returned(x) \/ AdoptPlan(x)
      PROVE  FALSE
  BY <1>2 DEF PrepareStep, PrepareWave, EndSuperstep, Returned, AdoptPlan, tables
<1>3. ASSUME MarkPlanned(x) \/ RefusePlan(x)  PROVE FALSE
  BY <1>3 DEF MarkPlanned, RefusePlan, MarkReady
<1>4. ASSUME Schedule(x)  PROVE FALSE
  <2>1. \/ UNCHANGED tables
        \/ taskStatus' = taskStatus
        \/ taskStatus' = Written(seen[x].task, "running", taskStatus)
    BY <1>4 DEF Schedule
  <2>. QED  BY <2>1 DEF tables, Written
<1>5. ASSUME Finalizes(x)  PROVE FALSE
  <2>1. \/ taskStatus' = taskStatus
        \/ \E s : taskStatus' = Written(s, "failed", taskStatus)
    BY <1>5 DEF Finalizes, StartFinalize, FinalizeStep, EndWave, RefuseAnswer, RefuseFiles,
                BlockStep, CompleteReview, PublishDelivery, CompleteStep, FailStep, tables
  <2>. QED  BY <2>1 DEF Written
<1>. QED  BY <1>1, <1>2, <1>3, <1>4, <1>5 DEF GraphStep, Prepares

\* No Turn runs once the plan was delivered.
LEMMA AcceptedQuiet ==
  ASSUME Types, TableInv, CheckInv, Accepted, NEW e \in Execution
  PROVE  exec[e] # "waiting"
<1>. SUFFICES ASSUME exec[e] = "waiting"  PROVE FALSE  OBVIOUS
<1>1. e \notin Keys  BY WaitingOpen
<1>2. e = Planner  BY <1>1 DEF Execution
<1>3. checkpoint["planning"].stage \in Working  BY <1>2 DEF CheckInv, WaitingFits, GraphOf
<1>4. checkpoint["planning"].stage = "end"  BY DEF CheckInv, PlanningFits, Accepted
<1>. QED  BY <1>3, <1>4 DEF Working

\* A completed task stays completed, and completing it touches no step.
LEMMA AcceptanceNext ==
  ASSUME Types, ~Overlapping, PlanInv, [Next]_vars
  PROVE  \/ taskStatus' = "completed" <=> taskStatus = "completed"
         \/ taskStatus' = "completed" /\ StepsKept
<1>1. Serial /\ TableInv /\ Ended /\ CheckInv  BY DEF PlanInv
<1>2. ASSUME taskStatus = "completed"  PROVE taskStatus' = "completed"
  <2>1. Accepted /\ \A x \in Thread : ~Inside(x)  BY <1>1, <1>2 DEF Ended
  <2>2. CASE ClientCalls \/ ClientSteps
    <3>1. plan # NoPlan  BY <2>1 DEF Accepted
    <3>. QED
      BY <1>2, <2>2, <3>1 DEF ClientCalls, ClientSteps, CallPlan, CallStart, CallRetry,
                              Planning, Running, Invoke, MarkReady, Terminal, tables
  <2>3. ASSUME NEW x \in Thread, GraphStep(x)  PROVE FALSE
    BY <2>1, <2>3, GraphMoves DEF Moves
  <2>4. ASSUME NEW e \in Execution, FailTurn(e)  PROVE FALSE
    BY <1>1, <2>1, <2>4, AcceptedQuiet DEF FailTurn
  <2>5. ASSUME NEW e \in Execution, TurnEnds(e) \/ Orphaned(e)  PROVE FALSE
    <3>1. exec[e] = "waiting"  BY <2>4, <2>5 DEF TurnEnds, TurnCompletes, TurnFails, Orphaned
    <3>. QED  BY <1>1, <2>1, <3>1, AcceptedQuiet
  <2>6. CASE \/ \E e \in Execution : Resume(e) \/ Reattach(e)
             \/ \E c \in Contract : PublishInput(c)
             \/ CancelTask \/ Crash \/ Startup \/ UNCHANGED vars
    BY <1>2, <2>6 DEF Resume, Reattach, PublishInput, CancelTask, Terminal, Crash, Startup,
                      vars, tables
  <2>. QED  BY <2>2, <2>3, <2>5, <2>6 DEF Next
<1>3. ASSUME taskStatus # "completed", taskStatus' = "completed"  PROVE StepsKept
  <2>1. PICK x \in Thread : GraphStep(x)
    <3>1. ~ClientCalls /\ ~ClientSteps
      BY <1>3 DEF ClientCalls, ClientSteps, CallPlan, CallStart, CallRetry, Planning,
                  Running, Invoke, MarkReady, tables
    <3>2. \A e \in Execution : ~Resume(e) /\ ~TurnEnds(e) /\ ~Reattach(e) /\ ~Orphaned(e)
      BY <1>3 DEF Resume, TurnEnds, TurnCompletes, TurnFails, FailTurn, Reattach, Orphaned,
                  tables
    <3>3. /\ ~CancelTask /\ ~Crash /\ ~Startup /\ ~UNCHANGED vars
          /\ \A c \in Contract : ~PublishInput(c)
      BY <1>3 DEF CancelTask, Crash, Startup, PublishInput, vars, tables
    <3>. QED  BY <3>1, <3>2, <3>3 DEF Next
  <2>2. Finish(x)  BY <1>3, <2>1, FinishAccepts
  <2>3. UNCHANGED <<plan, step, exec>>  BY <2>2 DEF Finish
  <2>. QED  BY <2>3, StepsSame
<1>. QED  BY <1>2, <1>3

\* An accepted review is one of a plan that was delivered as a whole.
Whole == Accepted => KeysOf(plan) # {} /\ KeysOf(plan) = Done

LEMMA WholeHolds ==
  ASSUME Types, PlanInv
  PROVE  Whole
<1>. SUFFICES ASSUME Accepted  PROVE KeysOf(plan) # {} /\ KeysOf(plan) = Done
  BY DEF Whole
<1>1. KeysOf(plan) \subseteq Done  BY AcceptedAll DEF PlanInv, TableInv
<1>2. Done \subseteq KeysOf(plan)
  BY DEF PlanInv, TableInv, DoneWell, BegunPlanned, Begun, Done
<1>3. Done # {}  BY DEF Accepted
<1>. QED  BY <1>1, <1>2, <1>3

\* Every step is one of PlanOrder, or none.
LEMMA OrderNextHolds ==
  ASSUME Types, ~Overlapping, PlanInv, PlanInv', Whole', [Next]_vars
  PROVE  [Order!OrderNext]_(Order!orderVars)
<1>. DEFINE deps == [k \in KeysOf(plan) |-> DepsOf(plan, k)]
            accepted == taskStatus = "completed"
<1>1. /\ DOMAIN deps = KeysOf(plan) /\ \A k \in KeysOf(plan) : deps[k] = DepsOf(plan, k)
      /\ DOMAIN deps' = KeysOf(plan') /\ \A k \in KeysOf(plan') : deps'[k] = DepsOf(plan', k)
      /\ plan' = plan => deps' = deps
  OBVIOUS
<1>2. (taskStatus' = "completed" <=> taskStatus = "completed") => accepted' = accepted
  OBVIOUS
<1>3. taskStatus' = "completed" => accepted' = TRUE
  OBVIOUS
<1>4. /\ Order!Planned = DOMAIN deps /\ Order!Planned' = DOMAIN deps'
      /\ Order!orderVars = <<deps, Begun, Done, accepted>>
      /\ Order!orderVars' = <<deps', Begun', Done', accepted'>>
  BY DEF Order!Planned, Order!orderVars, Begun
<1>5. /\ Order!Adopt <=> /\ DOMAIN deps = {} /\ DOMAIN deps' # {} /\ DOMAIN deps' \subseteq Keys
                         /\ \A k \in DOMAIN deps' : deps'[k] \subseteq DOMAIN deps' \ {k}
                         /\ UNCHANGED <<Begun, Done, accepted>>
      /\ Order!Begin <=> /\ Begun \subseteq Begun' /\ Begun # Begun' /\ Begun' \subseteq DOMAIN deps
                         /\ \A k \in Begun' \ Begun : deps[k] \subseteq Done
                         /\ UNCHANGED <<deps, Done, accepted>>
      /\ Order!Deliver <=> /\ \E k \in Begun \ Done : Done' = Done \cup {k}
                           /\ UNCHANGED <<deps, Begun, accepted>>
      /\ Order!Accept <=> /\ DOMAIN deps # {} /\ Done = DOMAIN deps /\ accepted' = TRUE
                          /\ UNCHANGED <<deps, Begun, Done>>
  BY DEF Order!Adopt, Order!Begin, Order!Deliver, Order!Accept, Order!Planned, Begun
<1>. HIDE DEF deps, accepted
<1>6. \/ taskStatus' = "completed" <=> taskStatus = "completed"
      \/ taskStatus' = "completed" /\ StepsKept
  BY AcceptanceNext
<1>7. TableInv' /\ Ended'  BY DEF PlanInv
<1>8. CASE /\ plan = NoPlan /\ Begun = {} /\ Done = {} /\ Begun' = {} /\ Done' = {}
           /\ taskStatus' = taskStatus /\ plan'.steps \in Seq(StepType) /\ AcceptedPlan(plan')
  <2>1. PICK p : p = plan'  OBVIOUS
  <2>2. p.steps \in Seq(StepType) /\ AcceptedPlan(p)  BY <1>8, <2>1
  <2>3. /\ KeysOf(p) # {} /\ KeysOf(p) \subseteq Keys
        /\ \A k \in KeysOf(p) : DepsOf(p, k) \subseteq KeysOf(p) \ {k}
    BY <2>2, Shape, StepFields
  <2>4. KeysOf(plan) = {}  BY <1>8 DEF KeysOf, Indices, NoPlan
  <2>5. Order!Adopt  BY <1>1, <1>2, <1>5, <1>8, <2>1, <2>3, <2>4
  <2>. QED  BY <2>5 DEF Order!OrderNext
<1>9. CASE plan' = plan /\ Done' = Done /\ Begun' = Begun
  <2>1. CASE taskStatus' = "completed" <=> taskStatus = "completed"
    <3>1. UNCHANGED Order!orderVars  BY <1>1, <1>2, <1>4, <1>9, <2>1
    <3>. QED  BY <3>1
  <2>2. CASE taskStatus' = "completed"
    <3>1. Accepted'  BY <1>7, <2>2 DEF Ended
    <3>2. (KeysOf(plan) # {} /\ KeysOf(plan) = Done)'  BY <3>1 DEF Whole
    <3>3. KeysOf(plan) # {} /\ KeysOf(plan) = Done  BY <1>9, <3>2
    <3>4. Order!Accept  BY <1>1, <1>3, <1>5, <1>9, <2>2, <3>3
    <3>. QED  BY <3>4 DEF Order!OrderNext
  <2>. QED  BY <1>6, <2>1, <2>2
<1>10. CASE plan' = plan /\ Done' = Done /\ Begun \subseteq Begun' /\ Begun' # Begun
  <2>1. taskStatus' = "completed" <=> taskStatus = "completed"
    BY <1>6, <1>10 DEF StepsKept
  <2>2. Begun' \subseteq KeysOf(plan)  BY <1>7, <1>10 DEF TableInv, BegunPlanned
  <2>3. \A k \in Begun' : DepsOf(plan, k) \subseteq Done  BY <1>7, <1>10 DEF TableInv, OrderKept
  <2>4. Order!Begin  BY <1>1, <1>2, <1>5, <1>10, <2>1, <2>2, <2>3
  <2>. QED  BY <2>4 DEF Order!OrderNext
<1>11. CASE plan' = plan /\ Begun' = Begun /\ \E k \in Begun \ Done : Done' = Done \cup {k}
  <2>1. Done' # Done  BY <1>11
  <2>2. taskStatus' = "completed" <=> taskStatus = "completed"
    BY <1>6, <2>1 DEF StepsKept
  <2>3. Order!Deliver  BY <1>1, <1>2, <1>5, <1>11, <2>2
  <2>. QED  BY <2>3 DEF Order!OrderNext
<1>. QED
  <2>1. Progress  BY ProgressNext
  <2>. QED  BY <1>8, <1>9, <1>10, <1>11, <2>1 DEF Progress

\* The tables and the threads implement PlanOrder: whatever is retried, cancelled
\* or restarted, a step is handed to its role only when the steps before it
\* delivered, delivers once and for all, and the task is accepted when every step
\* delivered (StepsInOrder).
THEOREM PlanStepsInOrder ==
  ASSUME ~Overlapping
  PROVE  Spec => StepsInOrder
<1>1. PlanInit => Order!OrderInit
  <2>. SUFFICES ASSUME PlanInit  PROVE Order!OrderInit  OBVIOUS
  <2>1. KeysOf(plan) = {}  BY DEF PlanInit, KeysOf, Indices, NoPlan
  <2>2. \A k \in Keys : exec[k] = "absent" /\ step[k] = "absent"
    BY DEF PlanInit, Execution
  <2>3. (taskStatus = "completed") = FALSE  BY DEF PlanInit
  <2>. QED  BY <2>1, <2>2, <2>3 DEF Order!OrderInit, Done
<1>2. Types /\ PlanInv => Whole  BY WholeHolds
<1>3. Types /\ PlanInv /\ PlanInv' /\ Whole' /\ [Next]_vars
        => [Order!OrderNext]_(Order!orderVars)
  BY OrderNextHolds
<1>. QED
  BY <1>1, <1>2, <1>3, TypesAlways, PlanInvHolds, PTL DEF Spec, StepsInOrder, Order!OrderSpec

-----------------------------------------------------------------------------
(* A valid delivery is not lost with a sibling of its wave.                *)

Single(w) == \A j, k \in w : j = k

\* The valid answers of the steps outside ks are delivered.
Spared(ks) == \A k \in SpecialistKeys(plan) : answer[k].says = "valid" => k \in Done \cup ks

\* A cancellation that no thread overwrites any more.
Dropped ==
  taskStatus = "cancelled" /\ \A x \in Thread : pc[x] \notin {"schedule", "complete", "finish"}

\* The steps whose deliveries the graph has still to handle.
OpenWork(c) == IF c.stage \in Working \cup Scheduled THEN c.work ELSE {}

\* A linear stage has one step, and the deliveries of a stage are handled before
\* the graph goes on.
SiblingCall(x) ==
  LET at == call[x].at IN
  /\ pc[x] = "schedule" /\ at.stage = "prepare" => Single(at.work)
  /\ pc[x] = "nodes" /\ at.stage = "wave_execute" => call[x].next = "wave_finalize"
  /\ pc[x] = "nodes" /\ call[x].todo = {} /\ ~call[x].raised =>
       /\ call[x].next = "execute" => Single(at.work)
       /\ at.stage \in Scheduled => Spared({}) \/ Dropped
  /\ pc[x] \in {"finalize", "complete"} => Spared(seen[x].todo) \/ Dropped

SiblingWork ==
  LET c == checkpoint["run"] IN
  /\ c.stage \in {"execute", "finalize"} => Single(c.work)
  /\ Spared(OpenWork(c)) \/ Dropped

SiblingThreads == \A x \in Thread : InGraph(x) => SiblingCall(x)

SiblingInv == plan # NoPlan => SiblingWork /\ SiblingThreads

\* A step makes no answer valid outside ks.
ValidIn(ks) == \A k \in SpecialistKeys(plan) :
  answer'[k].says = "valid" => answer[k].says = "valid" \/ k \in ks

\* What was handled stays handled.
LEMMA SparedKept ==
  ASSUME NEW ks, NEW ls, Spared(ks), plan' = plan, Done \subseteq Done', ValidIn(ls),
         \A k \in ks : k \in ls \cup Done' \/ answer'[k].says # "valid"
  PROVE  Spared(ls)'
<1>. SUFFICES ASSUME NEW k \in SpecialistKeys(plan), answer'[k].says = "valid",
                     k \notin ls
              PROVE  k \in Done'
  BY DEF Spared, SpecialistKeys, Indices
<1>1. answer[k].says = "valid"  BY DEF ValidIn
<1>. QED  BY <1>1 DEF Spared

\* Once it is out of the reach of every thread, a cancellation stays.
LEMMA DroppedStays ==
  ASSUME Types, Serial, Kept, plan # NoPlan, Dropped, [Next]_vars
  PROVE  Dropped'
<1>1. /\ taskStatus = "cancelled" /\ taskStatus \in Terminal /\ pc \in [Thread -> Place]
      /\ \A x \in Thread : pc[x] \notin {"schedule", "complete", "finish"}
  BY DEF Dropped, Terminal, Types, GraphTypes
<1>2. ASSUME NEW x \in Thread, NEW place, pc' = [pc EXCEPT ![x] = place],
             place \notin {"schedule", "complete", "finish"}, taskStatus' = taskStatus
      PROVE  Dropped'
  BY <1>1, <1>2 DEF Dropped
<1>3. CASE UNCHANGED <<taskStatus, pc>>  BY <1>1, <1>3 DEF Dropped
<1>4. CASE ClientCalls
  <2>1. CallStart  BY <1>1, <1>4 DEF ClientCalls, CallPlan, CallRetry
  <2>. QED  BY <1>2, <2>1, ThreadNames DEF CallStart, GoTo, tables
<1>5. CASE ClientSteps
  <2>1. CASE Planning
    <3>1. taskStatus' = taskStatus /\ pc' = [pc EXCEPT ![Api] = "idle"]
      BY <1>1, <2>1 DEF Planning, MarkReady, Leave, GoTo
    <3>. QED  BY <1>2, <3>1, ThreadNames
  <2>2. CASE Running
    <3>1. taskStatus' = taskStatus /\ pc' = [pc EXCEPT ![Api] = "idle"]
      BY <1>1, <2>2 DEF Running, Leave, GoTo, tables
    <3>. QED  BY <1>2, <3>1, ThreadNames
  <2>3. CASE Invoke
    <3>1. PICK place \in {"returned", "nodes"} :
            taskStatus' = taskStatus /\ pc' = [pc EXCEPT ![Api] = place]
      BY <2>3 DEF Invoke, Enter, GoTo, tables
    <3>. QED  BY <1>2, <3>1, ThreadNames
  <2>. QED  BY <1>5, <2>1, <2>2, <2>3 DEF ClientSteps
<1>6. ASSUME NEW x \in Thread, GraphStep(x)  PROVE Dropped'
  <2>0. pc[x] \notin {"schedule", "complete", "finish"}  BY <1>1
  <2>1. ASSUME NEW e \in Execution, Node(x, e)  PROVE Dropped'
    <3>1. pc' = pc  BY <2>1, NodeTypes DEF NodeSteps
    <3>2. taskStatus' = taskStatus  BY <1>1, <2>1, NodeTables
    <3>. QED  BY <1>3, <3>1, <3>2
  <2>2. CASE PrepareStep(x) \/ PrepareWave(x)
    <3>1. taskStatus' = taskStatus  BY <2>2 DEF PrepareStep, PrepareWave, tables
    <3>2. NothingReady /\ taskStatus \in Terminal \ {"failed"}  BY <1>1 DEF NothingReady
    <3>3. pc' = [pc EXCEPT ![x] = "nodes"]
      BY <2>2, <3>2 DEF PrepareStep, PrepareWave, SchedulerDone, SchedulerRaises, GoTo
    <3>. QED  BY <1>2, <3>1, <3>3
  <2>3. CASE StartFinalize(x) \/ EndWave(x)
    <3>1. PICK place \in {"finalize", "nodes"} :
            taskStatus' = taskStatus /\ pc' = [pc EXCEPT ![x] = place]
      BY <2>3 DEF StartFinalize, EndWave, SchedulerDone, GoTo, tables
    <3>. QED  BY <1>2, <3>1
  <2>4. CASE FinalizeStep(x)
    <3>1. PICK done \in BOOLEAN : taskStatus' = taskStatus /\ Leaves(x, done, None)
      BY <1>1, <2>4 DEF FinalizeStep
    <3>2. PICK place \in {"finalize", "nodes"} : pc' = [pc EXCEPT ![x] = place]
      BY <3>1 DEF Leaves, SchedulerDone, SchedulerRaises, GoTo
    <3>. QED  BY <1>2, <3>1, <3>2
  <2>5. CASE EndSuperstep(x)
    <3>1. PICK place \in {"idle", "returned", "nodes"} :
            taskStatus' = taskStatus /\ pc' = [pc EXCEPT ![x] = place]
      BY <2>5 DEF EndSuperstep, Leave, Enter, GoTo, tables
    <3>. QED  BY <1>2, <3>1
  <2>6. CASE Returned(x)
    <3>1. PICK place \in {"idle", "planned"} :
            taskStatus' = taskStatus /\ pc' = [pc EXCEPT ![x] = place]
      BY <1>1, <2>6 DEF Returned, Leave, GoTo, tables
    <3>. QED  BY <1>2, <3>1
  <2>7. CASE AdoptPlan(x) \/ MarkPlanned(x)
    <3>1. PICK place \in {"idle", "mark"} :
            taskStatus' = taskStatus /\ pc' = [pc EXCEPT ![x] = place]
      BY <1>1, <2>7 DEF AdoptPlan, MarkPlanned, MarkReady, Leave, GoTo
    <3>. QED  BY <1>2, <3>1
  <2>8. ~RefusePlan(x)
    <3>. SUFFICES ASSUME pc[x] = "planned"  PROVE FALSE
      BY DEF RefusePlan
    <3>1. CallInv(x)  BY DEF Kept, ThreadInv, InGraph, Inside, InsidePlace
    <3>. QED  BY <3>1 DEF CallInv, GraphCall, Types, GraphTypes, CallType
  <2>9. ~Finish(x) /\ ~Schedule(x) /\ pc[x] # "complete"
    BY <2>0 DEF Finish, Schedule
  <2>10. Finalizes(x) => StartFinalize(x) \/ FinalizeStep(x) \/ EndWave(x)
    BY <2>9 DEF Finalizes, RefuseAnswer, RefuseFiles, BlockStep, CompleteReview, PublishDelivery,
                CompleteStep, Finalizing
  <2>. QED
    BY <1>6, <2>1, <2>2, <2>3, <2>4, <2>5, <2>6, <2>7, <2>8, <2>9, <2>10
       DEF GraphStep, Prepares
<1>7. ASSUME NEW e \in Execution, Resume(e)  PROVE Dropped'
  <2>1. Leave(Worker(e)) /\ taskStatus' = taskStatus
    BY <1>1, <1>7 DEF Resume, tables
  <2>. QED  BY <1>2, <2>1, ThreadNames DEF Leave, GoTo
<1>8. ASSUME NEW e \in Execution, TurnEnds(e) \/ Orphaned(e)  PROVE Dropped'
  <2>1. exec[e] = "waiting"
    BY <1>8 DEF TurnEnds, TurnCompletes, TurnFails, Orphaned, FailTurn
  <2>. QED  BY <1>1, <2>1 DEF Kept, Ended
<1>9. CASE Crash
  <2>1. taskStatus' = taskStatus /\ pc' = [x \in Thread |-> "idle"]
    BY <1>9 DEF Crash, tables
  <2>. QED  BY <1>1, <2>1 DEF Dropped
<1>10. ~CancelTask  BY <1>1 DEF CancelTask
<1>11. CASE Startup \/ (\E e \in Execution : Reattach(e)) \/ UNCHANGED vars
  BY <1>3, <1>11 DEF Startup, Reattach, vars, tables, threads
<1>12. ASSUME NEW c \in Contract, PublishInput(c)  PROVE Dropped'
  BY <1>3, <1>12 DEF PublishInput, threads
<1>. QED
  BY <1>4, <1>5, <1>6, <1>7, <1>8, <1>9, <1>10, <1>11, <1>12 DEF Next

\* The graph that is run when there is a plan is the one of the plan.
LEMMA RunCall ==
  ASSUME Types, Kept, plan # NoPlan, NEW x \in Thread, InGraph(x)
  PROVE  /\ CallInv(x) /\ call[x].graph = "run"
         /\ call[x].at.stage = checkpoint["run"].stage
<1>1. CallInv(x) /\ call[x].graph \in {"planning", "run"}
  BY DEF Kept, ThreadInv, Types, GraphTypes, CallType
<1>2. call[x].graph = "run"  BY <1>1 DEF CallInv, GraphCall
<1>. QED  BY <1>1, <1>2 DEF CallInv, Sync, SameAt

\* What leaves the threads in a graph alone keeps the invariant, when an answer
\* becomes valid only for a node that runs.
LEMMA SiblingOutside ==
  ASSUME Types, Serial, Kept, SiblingInv, [Next]_vars, plan # NoPlan, plan' = plan,
         checkpoint' = checkpoint, Done \subseteq Done',
         ValidIn({}) \/ (checkpoint["run"].stage \in Working /\ ValidIn(checkpoint["run"].work)),
         \A x \in Thread : InGraph(x)' =>
           InGraph(x) /\ call'[x] = call[x] /\ seen'[x] = seen[x] /\ pc'[x] = pc[x]
  PROVE  SiblingInv'
<1>1. SiblingWork /\ SiblingThreads  BY DEF SiblingInv
<1>2. Dropped => Dropped'  BY DroppedStays
<1>3. ASSUME NEW ks, Spared(ks), ValidIn(ks)  PROVE Spared(ks)'
  BY <1>3, SparedKept
<1>4. PICK open : open = OpenWork(checkpoint["run"])  OBVIOUS
<1>5. ValidIn(open)
  BY <1>4 DEF ValidIn, OpenWork
<1>6. SiblingWork'
  <2>1. Spared(open) => Spared(open)'  BY <1>3, <1>5
  <2>2. OpenWork(checkpoint["run"])' = open  BY <1>4 DEF OpenWork
  <2>. QED  BY <1>1, <1>2, <1>4, <2>1, <2>2 DEF SiblingWork
<1>7. ASSUME NEW x \in Thread, InGraph(x)'  PROVE SiblingCall(x)'
  <2>1. /\ InGraph(x) /\ call'[x] = call[x] /\ seen'[x] = seen[x] /\ pc'[x] = pc[x]
        /\ SiblingCall(x)
    BY <1>1, <1>7 DEF SiblingThreads
  <2>2. CallInv(x) /\ call[x].at.stage = checkpoint["run"].stage  BY <2>1, RunCall
  <2>3. ASSUME call[x].at.stage \in Scheduled  PROVE \A ks : ValidIn(ks)
    BY <2>2, <2>3 DEF Scheduled, Working, ValidIn
  <2>4. PICK ks : ks = seen[x].todo  OBVIOUS
  <2>5. call[x].at.stage \in Scheduled /\ Spared({}) => Spared({})'  BY <1>3, <2>3
  <2>6. call[x].at.stage \in Scheduled /\ Spared(ks) => Spared(ks)'  BY <1>3, <2>3
  <2>7. pc[x] \in {"finalize", "complete"} => call[x].at.stage \in Scheduled
    BY <2>2 DEF CallInv, FinalizeCall
  <2>8. /\ pc[x] = "schedule" /\ call[x].at.stage = "prepare" => Single(call[x].at.work)
        /\ pc[x] = "nodes" /\ call[x].at.stage = "wave_execute" => call[x].next = "wave_finalize"
        /\ pc[x] = "nodes" /\ call[x].todo = {} /\ ~call[x].raised =>
             /\ call[x].next = "execute" => Single(call[x].at.work)
             /\ call[x].at.stage \in Scheduled => Spared({})' \/ Dropped'
        /\ pc[x] \in {"finalize", "complete"} => Spared(ks)' \/ Dropped'
    BY <1>2, <2>1, <2>4, <2>5, <2>6, <2>7 DEF SiblingCall
  <2>. QED  BY <2>1, <2>4, <2>8 DEF SiblingCall, Single
<1>. QED  BY <1>6, <1>7 DEF SiblingInv, SiblingThreads

\* The client, the Turns, cancellation and the backend.
LEMMA SiblingQuiet ==
  ASSUME Types, Serial, Kept, ~Overlapping, SiblingInv, [Next]_vars,
         \/ ClientCalls \/ Planning \/ Running
         \/ \E e \in Execution : TurnEnds(e) \/ Reattach(e) \/ Orphaned(e)
         \/ CancelTask \/ Crash \/ Startup \/ UNCHANGED vars
         \/ \E c \in Contract : PublishInput(c)
  PROVE  SiblingInv'
<1>1. plan' = plan /\ checkpoint' = checkpoint
  BY DEF ClientCalls, CallPlan, CallStart, CallRetry, Planning, Running, TurnEnds, TurnCompletes,
         TurnFails, Reattach, Orphaned, FailTurn, CancelTask, Crash, Startup, PublishInput,
         tables, vars
<1>2. CASE plan = NoPlan  BY <1>1, <1>2 DEF SiblingInv
<1>3. SUFFICES ASSUME plan # NoPlan  PROVE SiblingInv'
  BY <1>2
<1>4. pc \in [Thread -> Place] /\ TableInv /\ CheckInv /\ ThreadInv
  BY DEF Types, GraphTypes, Kept
<1>5. ASSUME ValidIn({}), Done' = Done,
             \A x \in Thread :
               \/ pc'[x] = pc[x] /\ call'[x] = call[x] /\ seen'[x] = seen[x]
               \/ pc'[x] \in {"idle", "plan", "run", "invoke", "resume"}
      PROVE  SiblingInv'
  <2>1. \A x \in Thread : InGraph(x)' =>
          InGraph(x) /\ call'[x] = call[x] /\ seen'[x] = seen[x] /\ pc'[x] = pc[x]
    BY <1>5 DEF InGraph, Inside, InsidePlace
  <2>. QED  BY <1>1, <1>3, <1>5, <2>1, SiblingOutside
<1>6. CASE CallPlan \/ CallStart
  <2>1. /\ answer' = answer /\ step' = step /\ call' = call /\ seen' = seen
        /\ \A x \in Thread : pc'[x] = pc[x] \/ pc'[x] \in {"plan", "run"}
    BY <1>4, <1>6, ThreadNames DEF CallPlan, CallStart, GoTo, tables
  <2>. QED  BY <1>5, <2>1 DEF ValidIn, Done
<1>7. CASE CallRetry
  <2>1. /\ Done' = Done /\ call' = call /\ seen' = seen
        /\ \A x \in Thread : pc'[x] = pc[x] \/ pc'[x] \in {"plan", "run"}
    BY <1>4, <1>7, ThreadNames, RetryKeeps DEF CallRetry, GoTo
  <2>2. \A k \in SpecialistKeys(plan) : k \in Execution
    BY <1>3, Placeable DEF Execution
  <2>3. \A e \in Execution : answer'[e] = answer[e] \/ answer'[e] = NoAnswer
    BY <1>7 DEF CallRetry
  <2>4. NoAnswer.says # "valid"  BY DEF NoAnswer
  <2>5. ValidIn({})  BY <2>2, <2>3, <2>4 DEF ValidIn
  <2>. QED  BY <1>5, <2>1, <2>5
<1>8. CASE Planning \/ Running
  <2>1. answer' = answer /\ step' = step  BY <1>8 DEF Planning, Running, tables
  <2>2. Leave(Api) \/ (GoTo(Api, "invoke") /\ call' = call /\ seen' = seen)
    BY <1>8 DEF Planning, Running
  <2>3. \A x \in Thread : \/ pc'[x] = pc[x] /\ call'[x] = call[x] /\ seen'[x] = seen[x]
                          \/ pc'[x] \in {"idle", "invoke"}
    BY <1>4, <2>2, ThreadNames, LeaveEffect DEF GoTo
  <2>. QED  BY <1>5, <2>1, <2>3 DEF ValidIn, Done
<1>9. ASSUME NEW e \in Execution, TurnEnds(e) \/ Orphaned(e)  PROVE SiblingInv'
  <2>1. TurnCompletes(e) \/ FailTurn(e)  BY <1>9 DEF TurnEnds, TurnFails, Orphaned
  <2>2. Done' = Done  BY <2>1, TurnKeeps
  <2>3. CASE FailTurn(e)
    BY <1>5, <2>2, <2>3 DEF FailTurn, threads, ValidIn
  <2>4. CASE TurnCompletes(e)
    <3>1. /\ exec[e] = "waiting" /\ call' = call /\ seen' = seen
          /\ \A x \in Thread : pc'[x] = pc[x] \/ pc'[x] \in {"idle", "resume"}
      BY <1>4, <2>4, ThreadNames DEF TurnCompletes, GoTo
    <3>2. \A k \in Execution \ {e} : answer'[k] = answer[k]
      BY <2>4, DeliversVerdict DEF TurnCompletes
    <3>3. \A k \in SpecialistKeys(plan) : k \in Execution /\ k \in Keys
      BY <1>3, Placeable DEF Execution
    <3>4. CASE e = Planner
      <4>1. ValidIn({})  BY <3>2, <3>3, <3>4, PlanFlowAssumption DEF ValidIn
      <4>. QED  BY <1>5, <2>2, <3>1, <4>1
    <3>5. CASE e # Planner
      <4>1. checkpoint["run"].stage \in Working /\ e \in checkpoint["run"].work
        BY <1>4, <3>1, <3>5 DEF CheckInv, WaitingFits, GraphOf
      <4>2. ValidIn(checkpoint["run"].work)  BY <3>2, <3>3, <4>1 DEF ValidIn
      <4>3. \A x \in Thread : InGraph(x)' =>
              InGraph(x) /\ call'[x] = call[x] /\ seen'[x] = seen[x] /\ pc'[x] = pc[x]
        BY <3>1 DEF InGraph, Inside, InsidePlace
      <4>. QED  BY <1>1, <1>3, <2>2, <4>1, <4>2, <4>3, SiblingOutside
    <3>. QED  BY <3>4, <3>5
  <2>. QED  BY <2>1, <2>3, <2>4
<1>10. CASE CancelTask
  <2>1. Done' = Done  BY <1>10, CancelKeeps
  <2>. QED  BY <1>5, <1>10, <2>1 DEF CancelTask, threads, ValidIn
<1>11. CASE Crash
  <2>1. answer' = answer /\ step' = step /\ \A x \in Thread : pc'[x] = "idle"
    BY <1>11 DEF Crash, tables
  <2>. QED  BY <1>5, <2>1 DEF ValidIn, Done
<1>12. CASE Startup \/ (\E e \in Execution : Reattach(e)) \/ UNCHANGED vars
            \/ \E c \in Contract : PublishInput(c)
  <2>1. answer' = answer /\ step' = step /\ pc' = pc /\ call' = call /\ seen' = seen
    BY <1>12 DEF Startup, Reattach, PublishInput, vars, tables, threads
  <2>. QED  BY <1>5, <2>1 DEF ValidIn, Done
<1>. QED
  BY <1>6, <1>7, <1>8, <1>9, <1>10, <1>11, <1>12 DEF ClientCalls

\* What the graph has still to handle stays, and so does what it handled.
LEMMA WorkKept ==
  ASSUME SiblingWork, plan' = plan, Done \subseteq Done', Dropped => Dropped',
         checkpoint'["run"].stage = checkpoint["run"].stage,
         checkpoint'["run"].work = checkpoint["run"].work,
         ValidIn(OpenWork(checkpoint["run"]))
  PROVE  SiblingWork'
<1>1. PICK open : open = OpenWork(checkpoint["run"])  OBVIOUS
<1>2. OpenWork(checkpoint["run"])' = open  BY <1>1 DEF OpenWork
<1>3. Spared(open) => Spared(open)'  BY <1>1, SparedKept
<1>. QED  BY <1>1, <1>2, <1>3 DEF SiblingWork, Single

LEMMA TablesSpare ==
  ASSUME UNCHANGED tables
  PROVE  /\ plan' = plan /\ Done' = Done /\ \A ks : ValidIn(ks)
         /\ \A ks : Spared(ks) => Spared(ks)'
BY DEF tables, Done, ValidIn, Spared, SpecialistKeys, Indices

\* A thread that enters the graph of the plan.
LEMMA SiblingEnters ==
  ASSUME NEW x \in Thread, NEW c, NEW given, Entered(x, "run", c, given)
  PROVE  SiblingCall(x)'
<1>1. CASE c.stage = "end"  BY <1>1 DEF Entered, SiblingCall
<1>2. CASE c.stage # "end"
  <2>1. /\ pc'[x] = "nodes" /\ call'[x].at.stage = c.stage
        /\ call'[x].next = IF c.stage = "wave_execute" THEN "wave_finalize" ELSE "finalize"
        /\ c.stage \notin Working => call'[x].todo = {None}
    BY <1>2 DEF Entered, SameAt
  <2>. QED  BY <2>1 DEF SiblingCall, Working, Scheduled
<1>. QED  BY <1>1, <1>2

\* One thread moves in the graph.
LEMMA SiblingMoves ==
  ASSUME Types, Serial, NEW x \in Thread, Moves(x), plan # NoPlan => SiblingWork',
         plan # NoPlan /\ InGraph(x)' => SiblingCall(x)', plan' = plan
  PROVE  SiblingInv'
<1>1. \A y \in Thread : InGraph(y)' => y = x  BY MoverOnly DEF InGraph
<1>. QED  BY <1>1 DEF SiblingInv, SiblingThreads

\* The client's thread enters the graph.
LEMMA SiblingInvoke ==
  ASSUME Types, Serial, Kept, SiblingInv, [Next]_vars, Invoke
  PROVE  SiblingInv'
<1>. DEFINE g == IF held = Api THEN "planning" ELSE "run"
            c == checkpoint[g]
            first == IF g = "planning" THEN "execute"
                     ELSE IF Parallel THEN "wave_prepare" ELSE "prepare"
            fresh == [NoCheckpoint EXCEPT
                        !.stage = first, !.by = <<Api, calls>>, !.results = c.results,
                        !.work = IF g = "planning" THEN {Planner} ELSE {}]
            loaded == IF c.stage \notin {"none", "end"} \/ Finished(g, c) THEN c ELSE fresh
<1>1. /\ ThreadInv /\ Api \in Thread /\ pc[Api] = "invoke" /\ pc \in [Thread -> Place]
      /\ checkpoint' = [checkpoint EXCEPT ![g] = loaded]
      /\ Enter(Api, g, loaded, None)
      /\ UNCHANGED <<tables, seen, held, graphLock, watched, up, bounds>>
  BY ThreadNames DEF Kept, Invoke, Types, GraphTypes
<1>2. plan' = plan /\ Done' = Done /\ \A ks : ValidIn(ks)  BY <1>1, TablesSpare
<1>3. CASE plan = NoPlan  BY <1>2, <1>3 DEF SiblingInv
<1>4. SUFFICES ASSUME plan # NoPlan  PROVE SiblingInv'
  BY <1>3
<1>5. g = "run"  BY <1>1, <1>4 DEF ThreadInv, ApiInv
<1>6. PICK d \in Checkpoint : d = c  BY <1>5 DEF Types, GraphTypes
<1>7. fresh \in Checkpoint /\ fresh.stage = first /\ fresh.work = {}
      /\ first \in {"prepare", "wave_prepare"}
  <2>1. PICK f \in Stage : f = first  BY <1>5 DEF Stage
  <2>2. fresh \in Checkpoint  BY <1>5, <2>1, Fresh
  <2>. QED  BY <1>5, <2>2 DEF NoCheckpoint
<1>. HIDE DEF fresh, first
<1>8. \/ loaded = d
      \/ loaded = fresh /\ d.stage \in {"none", "end"}
  BY <1>6
<1>9. loaded \in Checkpoint  BY <1>6, <1>7, <1>8
<1>10. d = checkpoint["run"] /\ checkpoint'["run"] = loaded
  BY <1>1, <1>5, <1>6 DEF Types, GraphTypes
<1>. HIDE DEF loaded
<1>11. Entered(Api, "run", loaded, None)  BY <1>1, <1>5, <1>9, EnterEffect
<1>12. SiblingCall(Api)'  BY <1>1, <1>11, SiblingEnters
<1>13. Moves(Api)
  <2>1. pc'[Api] \in {"nodes", "returned"} /\ \A y \in Thread \ {Api} : pc'[y] = pc[y]
    BY <1>11 DEF Entered
  <2>. QED  BY <1>1, <2>1 DEF Moves, Stays, Inside, InsidePlace
<1>14. SiblingWork'
  <2>1. SiblingWork /\ (Dropped => Dropped')  BY <1>4, DroppedStays DEF SiblingInv
  <2>2. CASE loaded = d  BY <1>2, <1>10, <2>1, <2>2, WorkKept
  <2>3. CASE loaded = fresh /\ d.stage \in {"none", "end"}
    <3>1. OpenWork(d) = {} /\ OpenWork(fresh) = {}
      BY <1>7, <2>3 DEF OpenWork, Working, Scheduled
    <3>2. Spared({}) => Spared({})'  BY <1>1, TablesSpare
    <3>3. OpenWork(checkpoint["run"])' = {}  BY <1>10, <2>3, <3>1 DEF OpenWork
    <3>. QED  BY <1>7, <1>10, <2>1, <2>3, <3>1, <3>2, <3>3 DEF SiblingWork
  <2>. QED  BY <1>8, <2>2, <2>3
<1>. QED  BY <1>1, <1>2, <1>12, <1>13, <1>14, SiblingMoves

\* The thread of a Turn enters it.
LEMMA SiblingResume ==
  ASSUME Types, Serial, Kept, SiblingInv, [Next]_vars, NEW e \in Execution, Resume(e)
  PROVE  SiblingInv'
<1>. DEFINE x == Worker(e)
            c == checkpoint[Graph]
<1>1. /\ x \in Thread /\ pc \in [Thread -> Place] /\ pc[x] = "resume" /\ graphLock = None
      /\ UNCHANGED <<tables, checkpoint>>
      /\ checkpoint \in [{"planning", "run"} -> Checkpoint]
  BY ThreadNames DEF Kept, Resume, Types, GraphTypes
<1>2. plan' = plan /\ Done' = Done /\ \A ks : ValidIn(ks)  BY <1>1, TablesSpare
<1>3. CASE plan = NoPlan  BY <1>2, <1>3 DEF SiblingInv
<1>4. SUFFICES ASSUME plan # NoPlan  PROVE SiblingInv'
  BY <1>3
<1>5. \A y \in Thread : ~Inside(y)
  <2>1. pc[Api] = "idle"  BY <1>1 DEF Serial
  <2>2. ~Inside(Api)  BY <2>1 DEF Inside, InsidePlace
  <2>3. \A f \in Execution : ~Inside(Worker(f))  BY <1>1, ThreadNames DEF Serial
  <2>. QED  BY <2>2, <2>3, ThreadNames
<1>6. SiblingWork'
  <2>1. SiblingWork /\ (Dropped => Dropped')  BY <1>4, DroppedStays DEF SiblingInv
  <2>. QED  BY <1>1, <1>2, <2>1, WorkKept
<1>7. CASE Leave(x)
  <2>1. pc'[x] = "idle" /\ \A y \in Thread \ {x} : pc'[y] = pc[y]
    BY <1>1, <1>7, LeaveEffect
  <2>2. \A y \in Thread : ~InGraph(y)'  BY <1>5, <2>1 DEF InGraph, Inside, InsidePlace
  <2>. QED  BY <1>6, <2>2 DEF SiblingInv, SiblingThreads
<1>8. CASE \E given \in Execution \cup {None} : Enter(x, Graph, c, given)
  <2>1. PICK given \in Execution \cup {None} : Enter(x, Graph, c, given)  BY <1>8
  <2>2. Graph = "run" /\ c \in Checkpoint  BY <1>1, <1>4 DEF Graph
  <2>3. Entered(x, "run", c, given)  BY <1>1, <2>1, <2>2, EnterEffect
  <2>4. SiblingCall(x)'  BY <1>1, <2>3, SiblingEnters
  <2>5. \A y \in Thread : InGraph(y)' => y = x
    <3>1. \A y \in Thread \ {x} : pc'[y] = pc[y]  BY <2>3 DEF Entered
    <3>. QED  BY <1>5, <3>1 DEF InGraph, Inside
  <2>. QED  BY <1>6, <2>4, <2>5 DEF SiblingInv, SiblingThreads
<1>. QED  BY <1>7, <1>8 DEF Resume

\* The superstep is over: a graph that goes on has handled what it did.
LEMMA SiblingSuperstep ==
  ASSUME Types, Serial, Kept, SiblingInv, [Next]_vars, NEW x \in Thread, EndSuperstep(x)
  PROVE  SiblingInv'
<1>. DEFINE g == call[x].graph
            at == call[x].at
            next == [at EXCEPT !.stage = call[x].next, !.by = <<x, calls>>,
                               !.done = {}, !.parked = {}]
<1>0. Moves(x)  BY GraphMoves DEF GraphStep
<1>1. /\ pc[x] = "nodes" /\ call[x].todo = {} /\ UNCHANGED tables /\ pc \in [Thread -> Place]
      /\ at \in Checkpoint /\ call[x].next \in Stage /\ calls \in Nat
      /\ checkpoint \in [{"planning", "run"} -> Checkpoint]
  BY DEF EndSuperstep, Types, GraphTypes, CallType, BackendTypes
<1>2. plan' = plan /\ Done' = Done /\ \A ks : ValidIn(ks)  BY <1>1, TablesSpare
<1>3. CASE plan = NoPlan  BY <1>2, <1>3 DEF SiblingInv
<1>4. SUFFICES ASSUME plan # NoPlan  PROVE SiblingInv'
  BY <1>3
<1>5. SiblingWork /\ SiblingCall(x) /\ (Dropped => Dropped')
  BY <1>1, <1>4, DroppedStays DEF SiblingInv, SiblingThreads, InGraph, Inside, InsidePlace
<1>6. CallInv(x) /\ g = "run" /\ at.stage = checkpoint["run"].stage
  BY <1>1, <1>4, RunCall DEF InGraph, Inside, InsidePlace
<1>7. CASE Leave(x) /\ UNCHANGED checkpoint
  <2>1. pc'[x] = "idle"  BY <1>7, LeaveEffect
  <2>2. ~InGraph(x)'  BY <2>1 DEF InGraph, Inside, InsidePlace
  <2>3. SiblingWork'  BY <1>2, <1>5, <1>7, WorkKept
  <2>. QED  BY <1>0, <1>2, <2>2, <2>3, SiblingMoves
<1>8. CASE GoTo(x, "returned") /\ UNCHANGED checkpoint
  <2>1. pc'[x] = "returned"  BY <1>1, <1>8 DEF GoTo
  <2>2. SiblingCall(x)'  BY <2>1 DEF SiblingCall
  <2>3. SiblingWork'  BY <1>2, <1>5, <1>8, WorkKept
  <2>. QED  BY <1>0, <1>2, <2>2, <2>3, SiblingMoves
<1>9. CASE /\ ~call[x].raised
           /\ checkpoint' = [checkpoint EXCEPT ![g] = next] /\ Enter(x, g, next, None)
  <2>1. next \in Checkpoint /\ next.stage = call[x].next /\ next.work = at.work
    BY <1>1 DEF Checkpoint
  <2>. HIDE DEF next
  <2>2. Entered(x, "run", next, None)  BY <1>6, <1>9, <2>1, EnterEffect
  <2>3. SiblingCall(x)'  BY <2>2, SiblingEnters
  <2>4. checkpoint'["run"] = next  BY <1>1, <1>6, <1>9
  <2>5. NodesCall(x) /\ at.stage \notin {"none", "end"}
    BY <1>1, <1>6 DEF CallInv, NodesCall
  <2>6. \A ks : Spared(ks) => Spared(ks)'  BY <1>1, TablesSpare
  <2>7. SUFFICES /\ next.stage \in {"execute", "finalize"} => Single(next.work)
                 /\ Spared(OpenWork(next)) \/ Dropped
    <3>1. PICK open : open = OpenWork(next)  OBVIOUS
    <3>2. OpenWork(checkpoint["run"])' = open  BY <2>4, <3>1 DEF OpenWork
    <3>3. SUFFICES ASSUME /\ next.stage \in {"execute", "finalize"} => Single(next.work)
                          /\ Spared(open) \/ Dropped
                   PROVE  SiblingWork'
      BY <1>0, <1>2, <2>3, <3>1, SiblingMoves
    <3>. QED  BY <1>5, <2>4, <2>6, <3>2, <3>3 DEF SiblingWork, Single
  <2>8. CASE at.stage \in Working
    <3>1. at.work = checkpoint["run"].work /\ call[x].next \in Scheduled
      BY <1>1, <1>6, <2>5, <2>8 DEF NodesCall, WorkingCall
    <3>2. OpenWork(next) = OpenWork(checkpoint["run"])
      BY <1>6, <2>1, <2>8, <3>1 DEF OpenWork
    <3>3. next.stage \in {"execute", "finalize"} => at.stage = "execute"
      BY <1>1, <1>5, <2>1, <2>8, <3>1 DEF SiblingCall, Working, Scheduled
    <3>. QED  BY <1>5, <1>6, <2>1, <3>1, <3>2, <3>3 DEF SiblingWork
  <2>9. CASE at.stage \notin Working
    <3>1. call[x].next \in {"prepare", "end"} \cup Working
      BY <1>1, <1>6, <1>9, <2>5, <2>9 DEF NodesCall, SchedulerCall
    <3>2. next.stage \in {"execute", "finalize"} => Single(next.work)
      BY <1>1, <1>5, <1>9, <2>1, <3>1 DEF SiblingCall, Working
    <3>3. Spared({}) \/ Dropped
      <4>1. CASE at.stage \in Scheduled  BY <1>1, <1>5, <1>9, <4>1 DEF SiblingCall
      <4>2. CASE at.stage \notin Scheduled
        <5>1. OpenWork(checkpoint["run"]) = {}  BY <1>6, <2>9, <4>2 DEF OpenWork
        <5>. QED  BY <1>5, <5>1 DEF SiblingWork
      <4>. QED  BY <4>1, <4>2
    <3>4. Spared({}) => Spared(OpenWork(next))  BY DEF Spared
    <3>. QED  BY <3>2, <3>3, <3>4
  <2>. QED  BY <2>8, <2>9
<1>. QED  BY <1>7, <1>8, <1>9 DEF EndSuperstep

\* What a thread does with the result of an invocation.
LEMMA SiblingHandsOn ==
  ASSUME Types, Serial, Kept, SiblingInv, [Next]_vars, NEW x \in Thread,
         Returned(x) \/ Finish(x) \/ MarkPlanned(x) \/ RefusePlan(x)
  PROVE  SiblingInv'
<1>0. Moves(x)  BY GraphMoves DEF GraphStep
<1>1. plan' = plan /\ answer' = answer /\ step' = step /\ checkpoint' = checkpoint
  BY DEF Returned, Finish, MarkPlanned, RefusePlan, tables
<1>2. Done' = Done /\ \A ks : ValidIn(ks)  BY <1>1 DEF Done, ValidIn
<1>3. pc'[x] \in {"idle", "planned", "finish"}
  <2>1. CASE Leave(x)  BY <2>1, LeaveEffect
  <2>2. CASE \E place \in {"planned", "finish"} : GoTo(x, place)
    BY <2>2 DEF GoTo, Types, GraphTypes
  <2>. QED  BY <2>1, <2>2 DEF Returned, Finish, MarkPlanned, RefusePlan
<1>4. SiblingCall(x)'  BY <1>3 DEF SiblingCall
<1>5. plan # NoPlan => SiblingWork'
  BY <1>1, <1>2, DroppedStays, WorkKept DEF SiblingInv
<1>. QED  BY <1>0, <1>1, <1>4, <1>5, SiblingMoves

\* A plan is adopted before anything was answered.
LEMMA SiblingAdopt ==
  ASSUME Types, Types', Serial, Kept, NEW x \in Thread, AdoptPlan(x)
  PROVE  SiblingInv'
<1>0. Moves(x)  BY GraphMoves DEF GraphStep
<1>1. plan = NoPlan /\ Begun = {}  BY AdoptKeeps
<1>2. UNCHANGED <<answer, checkpoint>> /\ pc'[x] = "mark"
  BY DEF AdoptPlan, GoTo, Types, GraphTypes
<1>3. \A y \in Thread : ~InGraph(y)'
  BY <1>0, <1>2, MoverOnly DEF InGraph, Inside, InsidePlace
<1>4. \A k \in Keys : answer[k].says # "valid"
  <2>1. \A k \in Keys : exec[k] = "absent"  BY <1>1 DEF Begun
  <2>2. AnswersFit /\ "valid" \in Good  BY DEF Kept, TableInv, Good
  <2>. QED  BY <2>1, <2>2 DEF AnswersFit
<1>5. (\A k \in SpecialistKeys(plan) : k \in Keys)'
  <2>1. (SpecialistKeys(plan) \subseteq KeysOf(plan))'
    BY DEF SpecialistKeys, KeysOf, Indices
  <2>2. plan'.steps \in Seq(StepType)  BY DEF Types, PlanTypes, Plan
  <2>3. KeysOf(plan)' \subseteq Keys  BY <2>2, StepFields
  <2>. QED  BY <2>1, <2>3
<1>6. Spared({})'  BY <1>2, <1>4, <1>5 DEF Spared
<1>7. checkpoint'["run"].stage = "none"
  BY <1>1, <1>2 DEF Kept, CheckInv, RunFits
<1>8. SiblingWork'
  BY <1>6, <1>7 DEF SiblingWork, OpenWork, Working, Scheduled
<1>. QED  BY <1>3, <1>8 DEF SiblingInv, SiblingThreads

\* A node of _execute_assignment.
LEMMA SiblingNode ==
  ASSUME Types, Serial, Kept, SiblingInv, [Next]_vars, NEW x \in Thread, NEW e \in Execution,
         Node(x, e)
  PROVE  SiblingInv'
<1>0. Moves(x)  BY GraphMoves DEF GraphStep
<1>1. plan' = plan /\ Done' = Done  BY NodeKeeps
<1>2. CASE plan = NoPlan  BY <1>1, <1>2 DEF SiblingInv
<1>3. SUFFICES ASSUME plan # NoPlan  PROVE SiblingInv'
  BY <1>2
<1>4. pc[x] = "nodes" /\ call[x].at.stage \in Working /\ e \in call[x].todo
  BY DEF Node, NodeReturns, NodeParks, NodeRejected, SubmissionWaits, SubmissionCompletes,
         SubmissionFails, Submits, RunsNode
<1>5. NodeSteps(x, e) /\ \A k \in Execution \ {e} : answer'[k] = answer[k]
  BY NodeTypes, NodeTables
<1>6. CallInv(x) /\ call[x].graph = "run" /\ call[x].at.stage = checkpoint["run"].stage
  BY <1>3, <1>4, RunCall DEF InGraph, Inside, InsidePlace
<1>7. /\ e \in checkpoint["run"].work
      /\ call[x].next \in Scheduled
  BY <1>4, <1>6 DEF CallInv, NodesCall, WorkingCall
<1>8. SiblingWork /\ SiblingCall(x) /\ (Dropped => Dropped')
  BY <1>3, <1>4, DroppedStays DEF SiblingInv, SiblingThreads, InGraph, Inside, InsidePlace
<1>9. SiblingWork'
  <2>1. OpenWork(checkpoint["run"]) = checkpoint["run"].work
    BY <1>4, <1>6 DEF OpenWork
  <2>2. \A k \in SpecialistKeys(plan) : k \in Execution
    BY <1>3, Placeable DEF Execution
  <2>3. ValidIn(OpenWork(checkpoint["run"]))
    BY <1>5, <1>7, <2>1, <2>2 DEF ValidIn
  <2>4. checkpoint'["run"].stage = checkpoint["run"].stage
        /\ checkpoint'["run"].work = checkpoint["run"].work
    BY <1>5, <1>6 DEF NodeSteps, KeepsAt
  <2>. QED  BY <1>1, <1>8, <2>3, <2>4, WorkKept
<1>10. SiblingCall(x)'
  <2>1. /\ pc'[x] = "nodes" /\ call'[x].at.stage = call[x].at.stage
        /\ call'[x].next = call[x].next
    BY <1>4, <1>5 DEF NodeSteps, KeepsAt
  <2>. QED  BY <1>4, <1>7, <1>8, <2>1 DEF SiblingCall, Working, Scheduled
<1>. QED  BY <1>0, <1>1, <1>9, <1>10, SiblingMoves

\* prepare_step takes one step.
LEMMA SiblingPrepare ==
  ASSUME Types, Serial, Kept, SiblingInv, [Next]_vars, NEW x \in Thread,
         PrepareStep(x) \/ PrepareWave(x)
  PROVE  SiblingInv'
<1>0. Moves(x)  BY GraphMoves DEF GraphStep, Prepares
<1>1. /\ UNCHANGED tables /\ pc[x] = "nodes" /\ pc \in [Thread -> Place]
      /\ \/ call[x].at.stage = "prepare" /\ PrepareStep(x)
         \/ call[x].at.stage = "wave_prepare" /\ PrepareWave(x)
      /\ RunsScheduler(x, {"prepare", "wave_prepare"})
  BY DEF PrepareStep, PrepareWave, RunsScheduler, Types, GraphTypes
<1>2. plan' = plan /\ Done' = Done /\ \A ks : ValidIn(ks)  BY <1>1, TablesSpare
<1>3. plan # NoPlan
  <2>1. {"prepare", "wave_prepare"} \cap Working = {}  BY DEF Working
  <2>. QED  BY <1>1, <2>1, AtScheduler
<1>4. KeysOf(plan) \subseteq Execution  BY <1>3, Placeable DEF Execution
<1>5. ASSUME NEW next \in Stage, NEW w \in SUBSET Execution, SchedulerDone(x, next, w, None),
             next = "execute" => Single(w)
      PROVE  SiblingCall(x)' /\ checkpoint' = checkpoint
  <2>1. /\ checkpoint' = checkpoint /\ pc'[x] = "nodes" /\ call'[x].next = next
        /\ call'[x].at.work = w /\ call'[x].at.stage = call[x].at.stage
    BY <1>5, SchedulerDoneEffect DEF SameAt
  <2>2. call[x].at.stage \notin Scheduled \cup {"wave_execute"}  BY <1>1 DEF Scheduled
  <2>. QED  BY <1>5, <2>1, <2>2 DEF SiblingCall, Single
<1>6. ASSUME SchedulerRaises(x)
      PROVE  SiblingCall(x)' /\ checkpoint' = checkpoint
  <2>1. /\ checkpoint' = checkpoint /\ pc'[x] = "nodes" /\ call'[x].raised
        /\ call'[x].at.stage = call[x].at.stage
    BY <1>6, SchedulerRaisesEffect
  <2>. QED  BY <1>1, <2>1 DEF SiblingCall
<1>7. ASSUME NEW w \in SUBSET Execution, call' = [call EXCEPT ![x].at.work = w],
             GoTo(x, "schedule"), UNCHANGED checkpoint,
             call[x].at.stage = "prepare" => Single(w)
      PROVE  SiblingCall(x)' /\ checkpoint' = checkpoint
  <2>1. pc'[x] = "schedule" /\ call'[x].at.work = w /\ call'[x].at.stage = call[x].at.stage
    BY <1>1, <1>7, WorkSet DEF GoTo, SameAt
  <2>. QED  BY <1>7, <2>1 DEF SiblingCall, Single
<1>8. CASE call[x].at.stage = "prepare" /\ PrepareStep(x)
  <2>1. CASE NothingReady
    <3>1. PICK next \in Stage, w \in SUBSET Execution : next = "end" /\ w = {}
      BY DEF Stage
    <3>2. SchedulerRaises(x) \/ SchedulerDone(x, next, w, None)
      BY <1>8, <2>1, <3>1 DEF PrepareStep
    <3>3. SiblingCall(x)' /\ checkpoint' = checkpoint  BY <1>5, <1>6, <3>1, <3>2
    <3>4. SiblingWork'
      BY <1>2, <1>3, <3>3, DroppedStays, WorkKept DEF SiblingInv
    <3>. QED  BY <1>0, <1>2, <3>3, <3>4, SiblingMoves
  <2>2. CASE ~NothingReady
    <3>1. First(OpenSteps) \in KeysOf(plan)
      BY <2>2, FirstOpen DEF NothingReady, OpenSteps
    <3>2. PICK next \in Stage, w \in SUBSET Execution :
            next = "execute" /\ w = {First(OpenSteps)} /\ Single(w)
      <4>1. PICK k \in Execution : k = First(OpenSteps)  BY <1>4, <3>1
      <4>2. {k} \in SUBSET Execution /\ Single({k})  BY DEF Single
      <4>. QED  BY <4>1, <4>2 DEF Stage, Working
    <3>3. \/ SchedulerDone(x, next, w, None)
          \/ /\ call' = [call EXCEPT ![x].at.work = w]
             /\ GoTo(x, "schedule") /\ UNCHANGED checkpoint
      BY <1>8, <2>2, <3>2 DEF PrepareStep
    <3>4. SiblingCall(x)' /\ checkpoint' = checkpoint  BY <1>5, <1>7, <3>2, <3>3
    <3>5. SiblingWork'
      BY <1>2, <1>3, <3>4, DroppedStays, WorkKept DEF SiblingInv
    <3>. QED  BY <1>0, <1>2, <3>4, <3>5, SiblingMoves
  <2>. QED  BY <2>1, <2>2
<1>9. CASE call[x].at.stage = "wave_prepare" /\ PrepareWave(x)
  <2>1. PICK wave \in SUBSET Execution :
          wave = {k \in SpecialistKeys(plan) : step[k] # "completed"}
    BY <1>3, <1>4, Placeable
  <2>2. {} \in SUBSET Execution /\ "prepare" \in Stage /\ "wave_execute" \in Stage
    BY DEF Stage, Working
  <2>3. \/ \E next \in {"prepare", "wave_execute"}, w \in SUBSET Execution :
             SchedulerDone(x, next, w, None)
        \/ /\ call' = [call EXCEPT ![x].at.work = wave]
           /\ GoTo(x, "schedule") /\ UNCHANGED checkpoint
    BY <1>9, <2>1, <2>2 DEF PrepareWave
  <2>4. SiblingCall(x)' /\ checkpoint' = checkpoint
    BY <1>5, <1>7, <1>9, <2>2, <2>3
  <2>5. SiblingWork'
    BY <1>2, <1>3, <2>4, DroppedStays, WorkKept DEF SiblingInv
  <2>. QED  BY <1>0, <1>2, <2>4, <2>5, SiblingMoves
<1>. QED  BY <1>1, <1>8, <1>9

\* The step that was prepared is handed out.
LEMMA SiblingSchedule ==
  ASSUME Types, Serial, Kept, SiblingInv, [Next]_vars, NEW x \in Thread, Schedule(x)
  PROVE  SiblingInv'
<1>0. Moves(x)  BY GraphMoves DEF GraphStep, Prepares
<1>1. plan' = plan /\ Done' = Done  BY ScheduleKeeps
<1>2. answer' = answer /\ pc[x] = "schedule"  BY ScheduleBinds DEF Schedule
<1>3. /\ plan # NoPlan /\ call[x].at.stage \in {"prepare", "wave_prepare"}
      /\ call[x].at.stage \notin Scheduled /\ call[x].at.work \subseteq KeysOf(plan)
  BY <1>2, InSchedule
<1>4. SiblingWork /\ SiblingCall(x) /\ (Dropped => Dropped')
  BY <1>2, <1>3, DroppedStays DEF SiblingInv, SiblingThreads, InGraph, Inside, InsidePlace
<1>5. ValidIn(OpenWork(checkpoint["run"]))  BY <1>2 DEF ValidIn
<1>6. SUFFICES SiblingCall(x)' /\ checkpoint' = checkpoint
  BY <1>0, <1>1, <1>4, <1>5, WorkKept, SiblingMoves
<1>7. \/ SchedulerRaises(x)
      \/ SchedulerDone(x, IF InWave(x) THEN "wave_execute" ELSE "execute", call[x].at.work, None)
      \/ UNCHANGED <<call, checkpoint, pc>>
  BY DEF Schedule
<1>8. CASE SchedulerRaises(x)
  <2>1. /\ checkpoint' = checkpoint /\ pc'[x] = "nodes" /\ call'[x].raised
        /\ call'[x].at.stage = call[x].at.stage
    BY <1>8, SchedulerRaisesEffect
  <2>. QED  BY <1>3, <2>1 DEF SiblingCall
<1>9. CASE SchedulerDone(x, IF InWave(x) THEN "wave_execute" ELSE "execute", call[x].at.work,
                         None)
  <2>1. PICK next \in Stage, w \in SUBSET Execution :
          /\ next = IF InWave(x) THEN "wave_execute" ELSE "execute"
          /\ w = call[x].at.work
    BY <1>3, Placeable DEF Stage, Working, Execution
  <2>2. SchedulerDone(x, next, w, None)  BY <1>9, <2>1
  <2>3. /\ checkpoint' = checkpoint /\ pc'[x] = "nodes" /\ call'[x].next = next
        /\ call'[x].at.work = w /\ call'[x].at.stage = call[x].at.stage
    BY <2>2, SchedulerDoneEffect DEF SameAt
  <2>4. next = "execute" => Single(w)
    BY <1>2, <1>3, <1>4, <2>1 DEF InWave, SiblingCall
  <2>. QED  BY <1>3, <2>3, <2>4 DEF SiblingCall, Single
<1>10. CASE UNCHANGED <<call, checkpoint, pc>>
  BY <1>2, <1>4, <1>10 DEF SiblingCall, Single
<1>. QED  BY <1>7, <1>8, <1>9, <1>10

\* A delivery was handled: of a stage with one step it was the last.
LEMMA SiblingHandled ==
  ASSUME Types, Serial, Kept, SiblingInv, [Next]_vars, NEW x \in Thread, Finalizes(x),
         pc[x] \in {"finalize", "complete"}, NEW review, Handles(x, review),
         pc'[x] = "nodes" => ~InWave(x), ValidIn({}),
         NEW k, k = First(seen[x].todo), k \in seen[x].todo,
         k \in Done' \/ answer'[k].says # "valid" \/ Dropped'
  PROVE  SiblingInv'
<1>. DEFINE at == call[x].at
<1>0. Moves(x)  BY GraphMoves DEF GraphStep
<1>1. plan' = plan /\ Done \subseteq Done' /\ checkpoint' = checkpoint
  BY FinalizeKeeps DEF Handles
<1>2. /\ plan # NoPlan /\ at.stage \in Scheduled /\ at.stage = checkpoint["run"].stage
      /\ at.work = checkpoint["run"].work /\ seen[x].todo \subseteq at.work
  BY InFinalize DEF FinalizeCall, Sync, SameAt
<1>3. SiblingWork /\ SiblingCall(x) /\ (Dropped => Dropped')
  BY <1>2, DroppedStays DEF SiblingInv, SiblingThreads, InGraph, Inside, InsidePlace
<1>4. SiblingWork'
  <2>1. ValidIn(OpenWork(checkpoint["run"]))  BY DEF ValidIn
  <2>. QED  BY <1>1, <1>3, <2>1, WorkKept
<1>5. PICK ks, rest : ks = seen[x].todo /\ rest = ks \ {k}  OBVIOUS
<1>6. Spared(rest)' \/ Dropped'
  <2>1. CASE Dropped'  BY <2>1
  <2>2. CASE Dropped  BY <1>3, <2>2
  <2>3. CASE Spared(ks) /\ ~Dropped'
    <3>1. ValidIn(rest)  BY DEF ValidIn
    <3>2. \A j \in ks : j \in rest \cup Done' \/ answer'[j].says # "valid"
      BY <1>5, <2>3
    <3>. QED  BY <1>1, <2>3, <3>1, <3>2, SparedKept
  <2>4. Spared(ks) \/ Dropped  BY <1>3, <1>5 DEF SiblingCall
  <2>. QED  BY <2>1, <2>2, <2>3, <2>4
<1>7. SUFFICES SiblingCall(x)'
  BY <1>0, <1>1, <1>4, SiblingMoves
<1>8. CASE pc'[x] = "finalize"
  <2>1. seen'[x].todo = rest  BY <1>5, <1>8 DEF Handles
  <2>. QED  BY <1>6, <1>8, <2>1 DEF SiblingCall
<1>9. CASE pc'[x] = "nodes"
  <2>1. at.stage = "finalize"  BY <1>2, <1>9 DEF InWave, Scheduled
  <2>2. rest = {}  BY <1>2, <1>3, <1>5, <2>1 DEF SiblingWork, Single
  <2>3. call'[x].at.stage = "finalize" /\ (call'[x].raised \/ call'[x].next # "execute")
    BY <1>9, <2>1 DEF Handles, SameAt
  <2>. QED  BY <1>6, <1>9, <2>2, <2>3 DEF SiblingCall
<1>. QED  BY <1>8, <1>9 DEF Handles

\* A wave stays in its loop.
LEMMA WaveGoesOn ==
  ASSUME Types, NEW x \in Thread, NEW done, NEW review,
         Leaves(x, done, review) \/ Refuses(x), InWave(x)
  PROVE  pc'[x] = "finalize"
<1>1. GoTo(x, "finalize")  BY DEF Leaves, Refuses
<1>. QED  BY <1>1 DEF GoTo, Types, GraphTypes

\* The deliveries of a stage are taken up, and read one by one.
LEMMA SiblingReads ==
  ASSUME Types, Serial, Kept, SiblingInv, [Next]_vars, NEW x \in Thread,
         StartFinalize(x) \/ EndWave(x) \/ FinalizeStep(x)
  PROVE  SiblingInv'
<1>0. Moves(x) /\ Finalizes(x)  BY GraphMoves DEF GraphStep, Finalizes
<1>1. /\ plan' = plan /\ Done' = Done /\ answer' = answer /\ checkpoint' = checkpoint
      /\ taskStatus' = taskStatus /\ pc \in [Thread -> Place] /\ seen \in [Thread -> SeenType]
  BY <1>0, FinalizeThreads, StartFinalizeKeeps, EndWaveKeeps, FinalizeStepKeeps
     DEF StartFinalize, EndWave, FinalizeStep, tables, Types, GraphTypes
<1>2. \A ks : ValidIn(ks)  BY <1>1 DEF ValidIn
<1>3. \A ks : Spared(ks) => Spared(ks)'
  BY <1>1 DEF Spared, SpecialistKeys, Indices
<1>4. CASE StartFinalize(x)
  <2>1. RunsScheduler(x, Scheduled)  BY <1>4 DEF StartFinalize, Scheduled
  <2>2. /\ SchedulerCall(x) /\ call[x].at.stage \in Scheduled /\ plan # NoPlan
        /\ checkpoint["run"].stage = call[x].at.stage
    <3>1. Scheduled \cap Working = {}  BY DEF Scheduled, Working
    <3>. QED  BY <2>1, <3>1, AtScheduler DEF RunsScheduler
  <2>3. SiblingWork /\ (Dropped => Dropped')  BY <2>2, DroppedStays DEF SiblingInv
  <2>4. pc'[x] = "finalize" /\ seen'[x].todo = KeysOf(plan) \cap call[x].at.work
    <3>. DEFINE ks == KeysOf(plan) \cap call[x].at.work
                new == [NothingSeen EXCEPT !.todo = ks]
    <3>1. new.todo = ks  BY DEF NothingSeen
    <3>2. seen' = [seen EXCEPT ![x] = new] /\ pc'[x] = "finalize"
      BY <1>1, <1>4 DEF StartFinalize, GoTo
    <3>. HIDE DEF new
    <3>. QED  BY <1>1, <3>1, <3>2
  <2>5. seen'[x].todo = OpenWork(checkpoint["run"])
    BY <2>2, <2>4 DEF SchedulerCall, OpenWork
  <2>6. PICK ks : ks = OpenWork(checkpoint["run"])  OBVIOUS
  <2>7. Spared(ks)' \/ Dropped'  BY <1>3, <2>3, <2>6 DEF SiblingWork
  <2>8. SiblingCall(x)'  BY <2>4, <2>5, <2>6, <2>7 DEF SiblingCall
  <2>9. SiblingWork'  BY <1>1, <1>2, <2>3, WorkKept
  <2>. QED  BY <1>0, <1>1, <2>8, <2>9, SiblingMoves
<1>5. SUFFICES ASSUME EndWave(x) \/ FinalizeStep(x)  PROVE SiblingInv'
  BY <1>4
<1>6. pc[x] = "finalize" /\ plan # NoPlan
  BY <1>5, InFinalize DEF EndWave, FinalizeStep
<1>7. /\ SiblingWork /\ (Dropped => Dropped')
      /\ (Spared(seen[x].todo) \/ Dropped)
  BY <1>6, DroppedStays
     DEF SiblingInv, SiblingThreads, SiblingCall, InGraph, Inside, InsidePlace
<1>8. SiblingWork'  BY <1>1, <1>2, <1>7, WorkKept
<1>9. CASE EndWave(x)
  <2>1. Spared({})' \/ Dropped'  BY <1>3, <1>7, <1>9 DEF EndWave
  <2>2. PICK next \in {"end", "prepare"} :
          \E w, review : SchedulerDone(x, next, w, review)
    BY <1>9 DEF EndWave
  <2>3. /\ call' = [call EXCEPT ![x].todo = call'[x].todo, ![x].next = next,
                                ![x].at.work = call'[x].at.work,
                                ![x].at.review = call'[x].at.review]
        /\ pc'[x] = "nodes"
    BY <1>1, <2>2 DEF SchedulerDone, GoTo, Types, GraphTypes, CallType, Checkpoint
  <2>4. call'[x].next = next /\ call'[x].at.stage = call[x].at.stage
    BY <2>3 DEF Types, GraphTypes, CallType, Checkpoint
  <2>5. call[x].at.stage # "wave_execute"
    BY <1>9 DEF EndWave, InWave
  <2>6. SiblingCall(x)'  BY <2>1, <2>2, <2>3, <2>4, <2>5 DEF SiblingCall
  <2>. QED  BY <1>0, <1>1, <1>8, <2>6, SiblingMoves
<1>10. CASE FinalizeStep(x)
  <2>1. PICK k : k = First(seen[x].todo)  OBVIOUS
  <2>2. k \in seen[x].todo /\ k \in Keys
    <3>1. seen[x].todo # {} /\ seen[x].todo \subseteq KeysOf(plan)
      BY <1>6, <1>10 DEF FinalizeStep, Types, GraphTypes
    <3>. QED  BY <2>1, <3>1, PlanKeys, FirstIn
  <2>3. ASSUME NEW review, Handles(x, review), pc'[x] = "nodes" => ~InWave(x),
               k \in Done' \/ answer'[k].says # "valid" \/ Dropped'
        PROVE  SiblingInv'
    BY <1>0, <1>2, <1>6, <2>1, <2>2, <2>3, SiblingHandled
  <2>4. CASE Leaves(x, TRUE, None) /\ taskStatus = "cancelled"
    <3>1. Handles(x, None)  BY <2>4, LeavesEffect
    <3>2. pc'[x] \in {"finalize", "nodes"}  BY <3>1 DEF Handles
    <3>3. Dropped'
      <4>1. \A y \in Thread : y # x => ~Inside(y)'  BY <1>0, MoverOnly
      <4>. QED  BY <1>1, <2>4, <3>2, <4>1 DEF Dropped, Inside, InsidePlace
    <3>4. pc'[x] = "nodes" => ~InWave(x)  BY <2>4, WaveGoesOn
    <3>. QED  BY <2>3, <3>1, <3>3, <3>4
  <2>5. CASE step[k] = "completed"
    <3>1. k \in Done'  BY <1>1, <2>2, <2>5 DEF Done
    <3>2. CASE Leaves(x, TRUE, None) \/ Leaves(x, FALSE, None) \/ Refuses(x)
      <4>1. Handles(x, None)  BY <3>2, LeavesEffect, RefusesEffect
      <4>2. pc'[x] = "nodes" => ~InWave(x)  BY <3>2, WaveGoesOn
      <4>. QED  BY <2>3, <3>1, <4>1, <4>2
    <3>3. CASE LET says == call[x].at.results[k].says IN
               says \in {"accepted", "needs_revision"} /\ Leaves(x, TRUE, says)
      <4>1. PICK review \in Verdicts \cup {None, "needs_revision"} : Leaves(x, TRUE, review)
        <5>1. k \in Execution  BY <2>2 DEF Execution
        <5>2. call[x].at.results[k] \in Answer
          BY <5>1 DEF Types, GraphTypes, CallType, Checkpoint
        <5>3. call[x].at.results[k].says \in Verdicts \cup {None, "needs_revision"}
          BY <3>3, <5>2, PlanFlowAssumption DEF Answer
        <5>4. PICK review \in Verdicts \cup {None, "needs_revision"} :
                review = call[x].at.results[k].says
          BY <5>3
        <5>. QED  BY <3>3, <5>4 DEF Leaves, SchedulerDone
      <4>2. Handles(x, review)  BY <4>1, LeavesEffect
      <4>3. pc'[x] = "nodes" => ~InWave(x)  BY <4>1, WaveGoesOn
      <4>. QED  BY <2>3, <3>1, <4>2, <4>3
    <3>. QED  BY <1>10, <2>1, <2>5, <3>2, <3>3 DEF FinalizeStep
  <2>6. CASE /\ taskStatus # "cancelled" /\ GoTo(x, "complete") /\ UNCHANGED call
             /\ seen' = [seen EXCEPT ![x] = [Snapshot EXCEPT
                           !.todo = seen[x].todo, !.failures = seen[x].failures]]
    <3>1. pc'[x] = "complete" /\ seen'[x].todo = seen[x].todo
      <4>. DEFINE new == [Snapshot EXCEPT !.todo = seen[x].todo, !.failures = seen[x].failures]
      <4>1. new.todo = seen[x].todo  BY DEF Snapshot, NothingSeen
      <4>2. seen' = [seen EXCEPT ![x] = new] /\ pc'[x] = "complete"
        BY <1>1, <2>6 DEF GoTo
      <4>. HIDE DEF new
      <4>. QED  BY <1>1, <4>1, <4>2
    <3>2. PICK ks : ks = seen[x].todo  OBVIOUS
    <3>3. Spared(ks)'  BY <1>3, <1>7, <2>6, <3>2 DEF Dropped
    <3>4. SiblingCall(x)'  BY <3>1, <3>2, <3>3 DEF SiblingCall
    <3>. QED  BY <1>0, <1>1, <1>8, <3>4, SiblingMoves
  <2>. QED  BY <1>10, <2>1, <2>4, <2>5, <2>6 DEF FinalizeStep
<1>. QED  BY <1>5, <1>9, <1>10

\* A delivery is refused, published or completes its step.
LEMMA SiblingCompletes ==
  ASSUME Types, Serial, Kept, SiblingInv, [Next]_vars, NEW x \in Thread,
         \/ RefuseAnswer(x) \/ RefuseFiles(x) \/ BlockStep(x) \/ CompleteReview(x)
         \/ PublishDelivery(x) \/ CompleteStep(x)
  PROVE  SiblingInv'
<1>0. Moves(x) /\ Finalizes(x)  BY GraphMoves DEF GraphStep, Finalizes
<1>1. pc[x] = "complete"
  BY DEF RefuseAnswer, RefuseFiles, BlockStep, CompleteReview, PublishDelivery, CompleteStep,
         Finalizing
<1>2. PICK k : k = First(seen[x].todo)  OBVIOUS
<1>3. /\ k \in Keys /\ k \in Execution /\ k \in seen[x].todo
      /\ call[x].at.results[k].says \in Good \/ answer[k].says \in Good =>
           call[x].at.results[k] = answer[k]
      /\ seen[x].pending \in {None, k}
  BY <1>1, <1>2, SeenFirst, InComplete DEF Execution
<1>4. step \in [Keys -> StepStatus] /\ answer \in [Execution -> Answer]
  BY DEF Types, TaskTypes, AnswerTypes
<1>5. ASSUME NEW review, Handles(x, review), pc'[x] = "nodes" => ~InWave(x), ValidIn({}),
             k \in Done' \/ answer'[k].says # "valid"
      PROVE  SiblingInv'
  BY <1>0, <1>1, <1>2, <1>3, <1>5, SiblingHandled
<1>6. CASE RefuseAnswer(x) \/ RefuseFiles(x)
  <2>1. answer' = [answer EXCEPT ![k].says = "invalid"] /\ Refuses(x)
    BY <1>2, <1>6 DEF RefuseAnswer, RefuseFiles, FailStep
  <2>2. answer'[k].says = "invalid"  BY <1>3, <1>4, <2>1 DEF Answer
  <2>3. \A j \in Execution \ {k} : answer'[j] = answer[j]  BY <1>4, <2>1
  <2>4. \A j \in SpecialistKeys(plan) : j \in Execution
    BY <1>1, InFinalize, Placeable DEF Execution
  <2>5. ValidIn({})  BY <2>2, <2>3, <2>4 DEF ValidIn
  <2>6. Handles(x, None) /\ (pc'[x] = "nodes" => ~InWave(x))
    BY <2>1, RefusesEffect, WaveGoesOn
  <2>. QED  BY <1>5, <2>2, <2>5, <2>6
<1>7. CASE BlockStep(x)
  <2>1. /\ answer' = answer /\ Leaves(x, TRUE, "needs_revision")
        /\ call[x].at.results[k].says = "blocked"
    BY <1>2, <1>7 DEF BlockStep, Finalizing
  <2>2. answer'[k].says # "valid"  BY <1>3, <2>1 DEF Good
  <2>3. Handles(x, "needs_revision") /\ (pc'[x] = "nodes" => ~InWave(x))
    BY <2>1, LeavesEffect, WaveGoesOn
  <2>4. ValidIn({})  BY <2>1 DEF ValidIn
  <2>. QED  BY <1>5, <2>2, <2>3, <2>4
<1>8. CASE CompleteReview(x)
  <2>1. answer' = answer /\ step' = [step EXCEPT ![k] = "completed"]
    BY <1>2, <1>8 DEF CompleteReview
  <2>2. PICK review \in Verdicts \cup {None, "needs_revision"} : Leaves(x, TRUE, review)
    <3>1. /\ call[x].at.results[k].says \in {"accepted", "needs_revision"}
          /\ Leaves(x, TRUE, call[x].at.results[k].says)
      BY <1>2, <1>8 DEF CompleteReview, Finalizing
    <3>2. call[x].at.results[k] \in Answer
      BY <1>3 DEF Types, GraphTypes, CallType, Checkpoint
    <3>3. PICK review \in Verdicts \cup {None, "needs_revision"} :
            review = call[x].at.results[k].says
      BY <3>1, <3>2, PlanFlowAssumption DEF Answer
    <3>. QED  BY <3>1, <3>3 DEF Leaves, SchedulerDone
  <2>3. k \in Done'  BY <1>3, <1>4, <2>1 DEF Done
  <2>4. Handles(x, review) /\ (pc'[x] = "nodes" => ~InWave(x))
    BY <2>2, LeavesEffect, WaveGoesOn
  <2>5. ValidIn({})  BY <2>1 DEF ValidIn
  <2>. QED  BY <1>5, <2>3, <2>4, <2>5
<1>9. CASE CompleteStep(x)
  <2>1. answer' = answer /\ step' = [step EXCEPT ![k] = "completed"] /\ Leaves(x, FALSE, None)
    BY <1>3, <1>9 DEF CompleteStep
  <2>2. k \in Done'  BY <1>3, <1>4, <2>1 DEF Done
  <2>3. Handles(x, None) /\ (pc'[x] = "nodes" => ~InWave(x))
    BY <2>1, LeavesEffect, WaveGoesOn
  <2>4. ValidIn({})  BY <2>1 DEF ValidIn
  <2>. QED  BY <1>5, <2>2, <2>3, <2>4
<1>10. CASE PublishDelivery(x)
  <2>1. /\ UNCHANGED <<plan, answer, step, call, checkpoint, pc>>
        /\ seen' = [seen EXCEPT ![x].pending = k]
        /\ seen \in [Thread -> SeenType]
    BY <1>2, <1>10 DEF PublishDelivery, FinalizeFrame, Types, GraphTypes
  <2>2. seen'[x].todo = seen[x].todo
    <3>1. seen[x] \in SeenType /\ seen'[x] = [seen[x] EXCEPT !.pending = k]  BY <2>1
    <3>. QED  BY <3>1 DEF SeenType
  <2>3. \A ks : ValidIn(ks) /\ (Spared(ks) => Spared(ks)')
    BY <2>1 DEF ValidIn, Spared, SpecialistKeys, Indices, Done
  <2>4. Done' = Done  BY <2>1 DEF Done
  <2>5. plan # NoPlan  BY <1>1, InFinalize
  <2>6. /\ SiblingWork /\ (Dropped => Dropped')
        /\ (Spared(seen[x].todo) \/ Dropped)
    BY <1>1, <2>5, DroppedStays
       DEF SiblingInv, SiblingThreads, SiblingCall, InGraph, Inside, InsidePlace
  <2>7. SiblingWork'  BY <2>1, <2>3, <2>4, <2>6, WorkKept
  <2>8. PICK ks : ks = seen[x].todo  OBVIOUS
  <2>9. SiblingCall(x)'  BY <1>1, <2>1, <2>2, <2>3, <2>6, <2>8 DEF SiblingCall
  <2>. QED  BY <1>0, <2>1, <2>7, <2>9, SiblingMoves
<1>. QED  BY <1>6, <1>7, <1>8, <1>9, <1>10

\* Nothing is planned at the start.
LEMMA SiblingInit == PlanInit => SiblingInv
BY DEF PlanInit, SiblingInv

\* Every step keeps it.
LEMMA SiblingNext ==
  ASSUME Types, Types', ~Overlapping, PlanInv, SiblingInv, [Next]_vars
  PROVE  SiblingInv'
<1>1. Serial /\ Kept  BY DEF PlanInv, Kept
<1>2. ASSUME NEW x \in Thread, GraphStep(x)  PROVE SiblingInv'
  <2>1. ASSUME NEW e \in Execution, Node(x, e)  PROVE SiblingInv'  BY <1>1, <2>1, SiblingNode
  <2>2. CASE PrepareStep(x) \/ PrepareWave(x)  BY <1>1, <2>2, SiblingPrepare
  <2>3. CASE Schedule(x)  BY <1>1, <2>3, SiblingSchedule
  <2>4. CASE Finalizes(x)
    <3>1. CASE StartFinalize(x) \/ EndWave(x) \/ FinalizeStep(x)  BY <1>1, <3>1, SiblingReads
    <3>2. CASE \/ RefuseAnswer(x) \/ RefuseFiles(x) \/ BlockStep(x) \/ CompleteReview(x)
               \/ PublishDelivery(x) \/ CompleteStep(x)
      BY <1>1, <3>2, SiblingCompletes
    <3>. QED  BY <2>4, <3>1, <3>2 DEF Finalizes
  <2>5. CASE EndSuperstep(x)  BY <1>1, <2>5, SiblingSuperstep
  <2>6. CASE Returned(x) \/ Finish(x) \/ MarkPlanned(x) \/ RefusePlan(x)
    BY <1>1, <2>6, SiblingHandsOn
  <2>7. CASE AdoptPlan(x)  BY <1>1, <2>7, SiblingAdopt
  <2>. QED  BY <1>2, <2>1, <2>2, <2>3, <2>4, <2>5, <2>6, <2>7 DEF GraphStep, Prepares
<1>3. ASSUME NEW e \in Execution, Resume(e)  PROVE SiblingInv'  BY <1>1, <1>3, SiblingResume
<1>4. CASE Invoke  BY <1>1, <1>4, SiblingInvoke
<1>5. CASE \/ ClientCalls \/ Planning \/ Running
           \/ \E e \in Execution : TurnEnds(e) \/ Reattach(e) \/ Orphaned(e)
           \/ CancelTask \/ Crash \/ Startup \/ UNCHANGED vars
           \/ \E c \in Contract : PublishInput(c)
  BY <1>1, <1>5, SiblingQuiet
<1>. QED  BY <1>2, <1>3, <1>4, <1>5 DEF Next, ClientSteps

\* A refused delivery does not cost a sibling of the wave its own: when the graph
\* of a parallel plan ends, every specialist that answered validly has completed
\* its step (SiblingsKept), unless the user cancelled the task, after which
\* nothing more is completed.
THEOREM PlanSiblingsKept ==
  ASSUME ~Overlapping
  PROVE  Spec => [](taskStatus = "cancelled" \/ SiblingsKept)
<1>1. Types /\ PlanInv /\ SiblingInv => taskStatus = "cancelled" \/ SiblingsKept
  <2>. SUFFICES ASSUME Types, PlanInv, SiblingInv, taskStatus # "cancelled", plan # NoPlan,
                       checkpoint["run"].stage = "end", NEW k \in SpecialistKeys(plan),
                       answer[k].says = "valid"
                PROVE  step[k] = "completed"
    BY DEF SiblingsKept
  <2>1. OpenWork(checkpoint["run"]) = {}  BY DEF OpenWork, Working, Scheduled
  <2>2. Spared({})  BY <2>1 DEF SiblingInv, SiblingWork, Dropped
  <2>. QED  BY <2>2 DEF Spared, Done
<1>2. Types /\ Types' /\ PlanInv /\ SiblingInv /\ [Next]_vars => SiblingInv'  BY SiblingNext
<1>. QED  BY <1>1, <1>2, SiblingInit, TypesAlways, PlanInvHolds, PTL DEF Spec
==============================================================================
