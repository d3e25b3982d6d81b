------------------------ MODULE LanePlanner_proofs ------------------------
(***************************************************************************)
(* Lemmas about the planner's operators, and what a whole round of starts  *)
(* gives, turn after turn: instances of their own, free, within every      *)
(* budget - for every lane and every input.                                *)
(***************************************************************************)
EXTENDS LanePlanner, FiniteSetTheorems, WellFoundedInduction, TLAPS

\* A nonempty set of naturals has a least element: the initial segments up to
\* its members are finite sets, well-founded under strict inclusion.
LEMMA Minimum ==
    ASSUME NEW S \in SUBSET Nat, S # {}
    PROVE  \E n \in S : \A m \in S : n <= m
<1> DEFINE T == {0 .. n : n \in S}
<1>1. \A n \in S : 0 .. n \in FiniteSubsetsOf(Nat)
  <2> SUFFICES ASSUME NEW n \in S PROVE 0 .. n \in FiniteSubsetsOf(Nat)
    OBVIOUS
  <2>1. n \in Int /\ 0 \in Int /\ 0 .. n \subseteq Nat
    OBVIOUS
  <2>2. IsFiniteSet(0 .. n)
    BY <2>1, FS_Interval
  <2> QED
    BY <2>1, <2>2 DEF FiniteSubsetsOf
<1>0. T \subseteq FiniteSubsetsOf(Nat) /\ T # {}
  BY <1>1
<1> HIDE DEF T
<1>2. PICK X \in T : \A Y \in T : ~ (<<Y, X>> \in StrictSubsetOrdering(Nat))
  <2>1. IsWellFoundedOn(StrictSubsetOrdering(Nat), FiniteSubsetsOf(Nat))
    BY FS_StrictSubsetOrderingWellFounded
  <2> QED
    BY <1>0, <2>1, WFMin
<1>3. PICK n \in S : X = 0 .. n
  BY <1>2 DEF T
<1>4. ASSUME NEW m \in S, m < n PROVE FALSE
  <2>1. 0 .. m \in T
    BY DEF T
  <2>2. m \in Nat /\ n \in Nat
    OBVIOUS
  <2>3. 0 .. m \subseteq 0 .. n /\ 0 .. n \subseteq Nat
    BY <1>4, <2>2
  <2>4. n \in 0 .. n /\ n \notin 0 .. m
    BY <1>4, <2>2
  <2>5. <<0 .. m, 0 .. n>> \in StrictSubsetOrdering(Nat)
    BY <2>3, <2>4 DEF StrictSubsetOrdering
  <2> QED
    BY <1>2, <1>3, <2>1, <2>5
<1> QED
  BY <1>3, <1>4

\* Every kind's budget is a budget and a number.
LEMMA BudgetTypes ==
    /\ \A kind \in Kinds : BudgetOf(kind) \in Budgets
    /\ \A b \in Budgets : BudgetSlots(b) \in Nat
    /\ \A kind \in Kinds : SlotsOf(kind) \in Nat /\ SlotsOf(kind) = BudgetSlots(BudgetOf(kind))
BY PlannerAssumption DEF BudgetOf, Budgets, BudgetSlots, SlotsOf

\* Where a kind has a usable instance, the lowest one is usable, and so an
\* instance of the lane that is not taken and has its file.
LEMMA LowestFreeUsable ==
    ASSUME NEW i, NEW s, NEW kind \in Kinds, UsableInstances(i, s, kind) # {}
    PROVE  /\ LowestFree(i, s, kind) \in UsableInstances(i, s, kind)
           /\ LowestFree(i, s, kind) \in 1 .. Instances[kind]
           /\ <<kind, LowestFree(i, s, kind)>> \in Refs
           /\ <<kind, LowestFree(i, s, kind)>> \notin s.taken
           /\ <<kind, LowestFree(i, s, kind)>> \notin i.missing
<1> DEFINE U == UsableInstances(i, s, kind)
<1>1. U \subseteq 1 .. Instances[kind] /\ Instances[kind] \in Nat
  BY PlannerAssumption DEF UsableInstances, FreeInstances
<1>2. U \in SUBSET Nat /\ U # {}
  BY <1>1
<1>3. \E n \in U : \A m \in U : n <= m
  <2> HIDE DEF U
  <2> QED BY <1>2, Minimum
<1>4. LowestFree(i, s, kind) \in U
  BY <1>3 DEF LowestFree
<1>5. LowestFree(i, s, kind) \in 1 .. SlotsOf(kind)
  BY <1>1, <1>4, InstancesAssumption, BudgetTypes
<1>6. <<kind, LowestFree(i, s, kind)>> \in Refs
  BY <1>5 DEF Refs
<1> QED
  BY <1>1, <1>4, <1>6 DEF UsableInstances, FreeInstances

\* Parts of a finite set of instances are finite.
LEMMA HeldFinite ==
    ASSUME NEW R, IsFiniteSet(R)
    PROVE  /\ \A b : IsFiniteSet(HeldBy(R, b)) /\ Cardinality(HeldBy(R, b)) \in Nat
           /\ IsFiniteSet(QAEHeld(R)) /\ Cardinality(QAEHeld(R)) \in Nat
<1>1. \A b : IsFiniteSet(HeldBy(R, b))
  BY FS_Subset DEF HeldBy
<1>2. IsFiniteSet(QAEHeld(R))
  BY FS_Subset DEF QAEHeld
<1> QED
  BY <1>1, <1>2, FS_CardinalityType

\* Taking one more instance counts in its kind's budget, and among the qae
\* instances if it is one, and nowhere else.
LEMMA HeldOneMore ==
    ASSUME NEW R, IsFiniteSet(R), NEW ref, ref \notin R
    PROVE  /\ IsFiniteSet(R \cup {ref})
           /\ \A b : Cardinality(HeldBy(R \cup {ref}, b)) =
                        IF b = BudgetOf(ref[1]) THEN Cardinality(HeldBy(R, b)) + 1
                        ELSE Cardinality(HeldBy(R, b))
           /\ Cardinality(QAEHeld(R \cup {ref})) =
                 IF ref[1] = QAEKind THEN Cardinality(QAEHeld(R)) + 1
                 ELSE Cardinality(QAEHeld(R))
<1>1. IsFiniteSet(R \cup {ref})
  BY FS_AddElement
<1>2. ASSUME NEW b
      PROVE  Cardinality(HeldBy(R \cup {ref}, b)) =
               IF b = BudgetOf(ref[1]) THEN Cardinality(HeldBy(R, b)) + 1
               ELSE Cardinality(HeldBy(R, b))
  <2>1. CASE b = BudgetOf(ref[1])
    <3>1. HeldBy(R \cup {ref}, b) = HeldBy(R, b) \cup {ref} /\ ref \notin HeldBy(R, b)
      BY <2>1 DEF HeldBy
    <3>2. IsFiniteSet(HeldBy(R, b))
      BY HeldFinite
    <3>3. Cardinality(HeldBy(R, b) \cup {ref}) = Cardinality(HeldBy(R, b)) + 1
      BY <3>1, <3>2, FS_AddElement
    <3> QED
      BY <2>1, <3>1, <3>3
  <2>2. CASE b # BudgetOf(ref[1])
    <3>1. HeldBy(R \cup {ref}, b) = HeldBy(R, b)
      BY <2>2 DEF HeldBy
    <3> QED
      BY <2>2, <3>1
  <2> QED
    BY <2>1, <2>2
<1>3. Cardinality(QAEHeld(R \cup {ref})) =
        IF ref[1] = QAEKind THEN Cardinality(QAEHeld(R)) + 1 ELSE Cardinality(QAEHeld(R))
  <2>1. CASE ref[1] = QAEKind
    <3>1. QAEHeld(R \cup {ref}) = QAEHeld(R) \cup {ref} /\ ref \notin QAEHeld(R)
      BY <2>1 DEF QAEHeld
    <3> QED
      BY <2>1, <3>1, HeldFinite, FS_AddElement
  <2>2. CASE ref[1] # QAEKind
    <3>1. QAEHeld(R \cup {ref}) = QAEHeld(R)
      BY <2>2 DEF QAEHeld
    <3> QED
      BY <2>2, <3>1
  <2> QED
    BY <2>1, <2>2
<1> QED
  BY <1>1, <1>2, <1>3

\* What holds of zero and of each number's successor holds of every number.
LEMMA Counting ==
    ASSUME NEW S, 0 \in S, \A n \in Nat : n \in S => n + 1 \in S
    PROVE  Nat \subseteq S
<1> SUFFICES ASSUME NEW n \in Nat, n \notin S PROVE FALSE
  OBVIOUS
<1> DEFINE T == Nat \ S
<1>1. PICK m \in T : \A l \in T : m <= l
  <2>1. T \in SUBSET Nat /\ T # {}
    OBVIOUS
  <2> HIDE DEF T
  <2> QED
    BY <2>1, Minimum
<1>2. m \in Nat /\ m # 0 /\ m - 1 \in Nat
  OBVIOUS
<1>3. m - 1 \in S
  BY <1>1, <1>2
<1>4. m - 1 + 1 = m
  BY <1>2
<1> QED
  BY <1>2, <1>3, <1>4

------------------------------------------------------------------------------
(* Sums *)

\* The function by which a fold adds up what v says of the members of S, on the subsets of S.
OneOf(s) == CHOOSE r \in s : TRUE

IsTotal(f, v, S) ==
    f = [s \in SUBSET S |-> IF s = {} THEN 0 ELSE v[OneOf(s)] + f[s \ {OneOf(s)}]]

Total(v, S) == (CHOOSE f : IsTotal(f, v, S))[S]

\* What such a function says of each subset is its sum.
Totals(f, v, S) ==
    /\ f \in [SUBSET S -> Nat] /\ IsTotal(f, v, S)
    /\ \A T \in SUBSET S : Total(v, T) = f[T]

Counts(v, S) == \A x \in S : v[x] \in Nat

\* A set without one of its members has one member less.
LEMMA WithoutOne ==
    ASSUME NEW S, IsFiniteSet(S), NEW s \in SUBSET S
    PROVE  /\ IsFiniteSet(s) /\ Cardinality(s) \in Nat
           /\ Cardinality(s) <= Cardinality(S) /\ Cardinality(S) \in Nat
           /\ Cardinality(s) = 0 <=> s = {}
           /\ \A r \in s : s \ {r} \in SUBSET S /\ Cardinality(s \ {r}) = Cardinality(s) - 1
           /\ s # {} => OneOf(s) \in s
<1>1. IsFiniteSet(s) /\ Cardinality(s) <= Cardinality(S)
  BY FS_Subset
<1>2. Cardinality(s) \in Nat /\ Cardinality(S) \in Nat
  BY <1>1, FS_CardinalityType
<1>3. Cardinality(s) = 0 <=> s = {}
  BY <1>1, FS_EmptySet
<1>4. \A r \in s : Cardinality(s \ {r}) = Cardinality(s) - 1
  BY <1>1, FS_RemoveElement
<1> QED
  BY <1>1, <1>2, <1>3, <1>4 DEF OneOf

\* The fold's function exists, and its values are numbers.
LEMMA TotalExists ==
    ASSUME NEW S, IsFiniteSet(S), NEW v, Counts(v, S)
    PROVE  \E f \in [SUBSET S -> Nat] : IsTotal(f, v, S)
<1> DEFINE Plus(f, s) == IF s = {} THEN 0 ELSE v[OneOf(s)] + f[s \ {OneOf(s)}]
           Upto(f, n) == f \in [SUBSET S -> Nat] /\ \A s \in SUBSET S : Cardinality(s) <= n => f[s] = Plus(f, s)
           N == {n \in Nat : \E f : Upto(f, n)}
<1>1. \A s \in SUBSET S : /\ Cardinality(s) \in Nat /\ Cardinality(s) <= Cardinality(S)
                          /\ Cardinality(s) = 0 <=> s = {}
                          /\ s # {} => /\ OneOf(s) \in s /\ s \ {OneOf(s)} \in SUBSET S
                                       /\ Cardinality(s \ {OneOf(s)}) = Cardinality(s) - 1
                                       /\ v[OneOf(s)] \in Nat
  <2> SUFFICES ASSUME NEW s \in SUBSET S
               PROVE  /\ Cardinality(s) \in Nat /\ Cardinality(s) <= Cardinality(S)
                      /\ Cardinality(s) = 0 <=> s = {}
                      /\ s # {} => /\ OneOf(s) \in s /\ s \ {OneOf(s)} \in SUBSET S
                                   /\ Cardinality(s \ {OneOf(s)}) = Cardinality(s) - 1
                                   /\ v[OneOf(s)] \in Nat
    OBVIOUS
  <2>1. s # {} => v[OneOf(s)] \in Nat
    BY WithoutOne DEF Counts
  <2> QED
    BY <2>1, WithoutOne
<1>2. 0 \in N
  <2> DEFINE f == [s \in SUBSET S |-> 0]
  <2>1. f \in [SUBSET S -> Nat]
    OBVIOUS
  <2>2. ASSUME NEW s \in SUBSET S, Cardinality(s) <= 0 PROVE f[s] = Plus(f, s)
    <3>1. Cardinality(s) \in Nat /\ (Cardinality(s) = 0 => s = {})
      BY WithoutOne
    <3>2. s = {}
      BY <2>2, <3>1
    <3> QED
      BY <3>2
  <2>3. Upto(f, 0)
    BY <2>1, <2>2
  <2> QED
    BY <2>3
<1>3. ASSUME NEW n \in Nat, n \in N PROVE n + 1 \in N
  <2>1. PICK f : Upto(f, n)
    BY <1>3
  <2> DEFINE g == [s \in SUBSET S |-> IF Cardinality(s) <= n THEN f[s] ELSE Plus(f, s)]
  <2>2. g \in [SUBSET S -> Nat]
    <3>1. ASSUME NEW s \in SUBSET S PROVE Plus(f, s) \in Nat /\ f[s] \in Nat
      <4>1. CASE s = {}
        BY <2>1, <4>1
      <4>2. CASE s # {}
        <5>1. v[OneOf(s)] \in Nat /\ f[s \ {OneOf(s)}] \in Nat
          BY <1>1, <2>1, <4>2
        <5> QED
          BY <2>1, <4>2, <5>1
      <4> QED
        BY <4>1, <4>2
    <3> HIDE DEF Plus
    <3> QED
      BY <3>1
  <2>3. ASSUME NEW s \in SUBSET S, Cardinality(s) <= n + 1 PROVE g[s] = Plus(g, s)
    <3>1. g[s] = Plus(f, s)
      BY <2>1, <2>3
    <3>2. s # {} => g[s \ {OneOf(s)}] = f[s \ {OneOf(s)}]
      <4>1. s # {} => s \ {OneOf(s)} \in SUBSET S /\ Cardinality(s \ {OneOf(s)}) <= n
        BY <1>1, <2>3
      <4> QED
        BY <4>1
    <3> HIDE DEF g
    <3> QED
      BY <3>1, <3>2
  <2> HIDE DEF g
  <2>4. Upto(g, n + 1)
    BY <2>2, <2>3, Zenon
  <2> QED
    BY <2>4
<1>4. Cardinality(S) \in Nat
  BY FS_CardinalityType
<1> HIDE DEF N
<1>5. Cardinality(S) \in N
  BY <1>2, <1>3, <1>4, Counting
<1>6. PICK f : Upto(f, Cardinality(S))
  BY <1>5 DEF N
<1>7. \A s \in SUBSET S : f[s] = Plus(f, s)
  BY <1>1, <1>6
<1>8. f = [s \in SUBSET S |-> f[s]]
  BY <1>6
<1>9. f = [s \in SUBSET S |-> Plus(f, s)]
  BY <1>7, <1>8
<1> QED
  BY <1>6, <1>9 DEF IsTotal

\* It is the same on the sets two of them share.
LEMMA TotalsAgree ==
    ASSUME NEW S, NEW T \in SUBSET S, IsFiniteSet(S), NEW v, NEW w, \A x \in T : v[x] = w[x],
           NEW f, NEW g, IsTotal(f, v, S), IsTotal(g, w, T)
    PROVE  f[T] = g[T]
<1> DEFINE N == {n \in Nat : \A s \in SUBSET T : Cardinality(s) = n => f[s] = g[s]}
<1>0. IsFiniteSet(T)
  BY FS_Subset
<1>1. \A s \in SUBSET T : s \in SUBSET S
  OBVIOUS
<1>2. 0 \in N
  <2> SUFFICES ASSUME NEW s \in SUBSET T, Cardinality(s) = 0 PROVE f[s] = g[s]
    OBVIOUS
  <2>1. s = {}
    BY <1>0, WithoutOne
  <2> QED
    BY <1>1, <2>1 DEF IsTotal
<1>3. ASSUME NEW n \in Nat, n \in N PROVE n + 1 \in N
  <2> SUFFICES ASSUME NEW s \in SUBSET T, Cardinality(s) = n + 1 PROVE f[s] = g[s]
    OBVIOUS
  <2>1. s # {} /\ OneOf(s) \in s /\ s \ {OneOf(s)} \in SUBSET T /\ Cardinality(s \ {OneOf(s)}) = n
    <3>1. s # {} /\ OneOf(s) \in s
      BY <1>0, WithoutOne
    <3>2. \A r \in s : s \ {r} \in SUBSET T /\ Cardinality(s \ {r}) = Cardinality(s) - 1
      BY <1>0, WithoutOne
    <3> QED
      BY <3>1, <3>2
  <2>2. f[s \ {OneOf(s)}] = g[s \ {OneOf(s)}]
    BY <1>3, <2>1
  <2>3. f[s] = v[OneOf(s)] + f[s \ {OneOf(s)}]
    BY <1>1, <2>1 DEF IsTotal
  <2>4. g[s] = w[OneOf(s)] + g[s \ {OneOf(s)}]
    BY <2>1 DEF IsTotal
  <2>5. v[OneOf(s)] = w[OneOf(s)]
    BY <2>1
  <2> QED
    BY <2>2, <2>3, <2>4, <2>5
<1>4. Cardinality(T) \in Nat
  BY <1>0, FS_CardinalityType
<1> HIDE DEF N
<1>5. Cardinality(T) \in N
  BY <1>2, <1>3, <1>4, Counting
<1> QED
  BY <1>5 DEF N

AnyFirst(f, v, S) == \A r \in S : f[S] = v[r] + f[S \ {r}]

\* The order in which members are counted does not matter.
LEMMA AnyOrder ==
    ASSUME NEW S, IsFiniteSet(S), NEW v, Counts(v, S),
           NEW f \in [SUBSET S -> Nat], IsTotal(f, v, S)
    PROVE  AnyFirst(f, v, S)
<1> DEFINE N == {n \in Nat : \A s \in SUBSET S : Cardinality(s) = n =>
                                 \A q \in s : f[s] = v[q] + f[s \ {q}]}
<1>1. 0 \in N
  BY WithoutOne
<1>2. ASSUME NEW n \in Nat, n \in N PROVE n + 1 \in N
  <2> SUFFICES ASSUME NEW s \in SUBSET S, Cardinality(s) = n + 1, NEW q \in s
               PROVE  f[s] = v[q] + f[s \ {q}]
    OBVIOUS
  <2> DEFINE o == OneOf(s)
  <2>1. /\ o \in s /\ s \ {o} \in SUBSET S /\ Cardinality(s \ {o}) = n
        /\ s \ {q} \in SUBSET S /\ Cardinality(s \ {q}) = n
    BY WithoutOne
  <2>2. f[s] = v[o] + f[s \ {o}]
    BY <2>1 DEF IsTotal
  <2> HIDE DEF o
  <2>3. CASE o = q
    BY <2>2, <2>3
  <2>4. CASE o # q
    <3>1. q \in s \ {o} /\ o \in s \ {q} /\ (s \ {o}) \ {q} = (s \ {q}) \ {o}
      BY <2>1, <2>4
    <3>2. f[s \ {o}] = v[q] + f[(s \ {o}) \ {q}]
      BY <1>2, <2>1, <3>1
    <3>3. f[s \ {q}] = v[o] + f[(s \ {q}) \ {o}]
      BY <1>2, <2>1, <3>1
    <3>4. f[(s \ {q}) \ {o}] \in Nat
      <4>1. (s \ {q}) \ {o} \in SUBSET S
        OBVIOUS
      <4> QED
        BY <4>1
    <3>5. v[q] \in Nat /\ v[o] \in Nat
      BY <2>1 DEF Counts
    <3>6. \A a, b, c \in Nat : a + (b + c) = b + (a + c)
      OBVIOUS
    <3>7. f[s] = v[o] + (v[q] + f[(s \ {q}) \ {o}])
      BY <2>2, <3>1, <3>2
    <3> QED
      BY <3>3, <3>4, <3>5, <3>6, <3>7
  <2> QED
    BY <2>3, <2>4
<1>3. Cardinality(S) \in Nat
  BY FS_CardinalityType
<1> HIDE DEF N
<1>4. Cardinality(S) \in N
  BY <1>1, <1>2, <1>3, Counting
<1> QED
  BY <1>4 DEF N, AnyFirst

\* So the sum is a number, it is what the members say, and each adds its own.
LEMMA TotalOf ==
    ASSUME NEW S, IsFiniteSet(S), NEW v, Counts(v, S)
    PROVE  \E f : Totals(f, v, S)
<1>1. PICK f \in [SUBSET S -> Nat] : IsTotal(f, v, S)
  BY TotalExists
<1>2. ASSUME NEW T \in SUBSET S PROVE Total(v, T) = f[T]
  <2> DEFINE g == CHOOSE h : IsTotal(h, v, T)
  <2>1. IsFiniteSet(T) /\ Counts(v, T)
    BY FS_Subset DEF Counts
  <2>2. IsTotal(g, v, T)
    <3>1. PICK h \in [SUBSET T -> Nat] : IsTotal(h, v, T)
      BY <2>1, TotalExists, Zenon
    <3> QED
      BY <3>1
  <2>3. Total(v, T) = g[T]
    BY DEF Total
  <2> HIDE DEF g
  <2> QED
    BY <1>1, <2>2, <2>3, TotalsAgree
<1> QED
  BY <1>1, <1>2 DEF Totals

LEMMA TotalType ==
    ASSUME NEW S, IsFiniteSet(S), NEW v, Counts(v, S)
    PROVE  Total(v, S) \in Nat
<1>1. PICK f : Totals(f, v, S)
  BY TotalOf, Zenon
<1>2. S \in SUBSET S
  OBVIOUS
<1> QED
  BY <1>1, <1>2 DEF Totals

LEMMA TotalOfNone == \A v : Total(v, {}) = 0
<1> TAKE v
<1>1. IsFiniteSet({}) /\ Counts(v, {})
  BY FS_EmptySet DEF Counts
<1>2. PICK f : Totals(f, v, {})
  BY <1>1, TotalOf, Zenon
<1>3. f[{}] = 0
  BY <1>2 DEF Totals, IsTotal
<1> QED
  BY <1>2, <1>3 DEF Totals

LEMMA TotalTakes ==
    ASSUME NEW S, IsFiniteSet(S), NEW v, Counts(v, S), NEW r \in S
    PROVE  /\ Total(v, S) = v[r] + Total(v, S \ {r})
           /\ Total(v, S) \in Nat /\ Total(v, S \ {r}) \in Nat /\ v[r] <= Total(v, S)
<1>1. PICK f : Totals(f, v, S)
  BY TotalOf, Zenon
<1>2. f[S] = v[r] + f[S \ {r}]
  <2>1. f \in [SUBSET S -> Nat] /\ IsTotal(f, v, S)
    BY <1>1 DEF Totals
  <2>2. AnyFirst(f, v, S)
    BY <2>1, AnyOrder, Zenon
  <2> QED
    BY <2>2 DEF AnyFirst
<1>3. S \in SUBSET S /\ S \ {r} \in SUBSET S
  OBVIOUS
<1>4. Total(v, S) = f[S] /\ Total(v, S \ {r}) = f[S \ {r}] /\ f[S] \in Nat /\ f[S \ {r}] \in Nat /\ v[r] \in Nat
  BY <1>1, <1>3 DEF Counts, Totals
<1> QED
  BY <1>2, <1>4

LEMMA TotalSame ==
    ASSUME NEW S, IsFiniteSet(S), NEW v, NEW w, Counts(v, S), \A x \in S : v[x] = w[x]
    PROVE  Total(v, S) = Total(w, S)
<1>1. PICK f : Totals(f, v, S)
  BY TotalOf, Zenon
<1>2. PICK g : Totals(g, w, S)
  <2>1. Counts(w, S)
    BY DEF Counts
  <2> QED
    BY <2>1, TotalOf, Zenon
<1>3. S \in SUBSET S /\ \A x \in S : v[x] = w[x]
  OBVIOUS
<1>4. f[S] = g[S]
  BY <1>1, <1>2, <1>3, TotalsAgree DEF Totals
<1> QED
  BY <1>1, <1>2, <1>3, <1>4 DEF Totals

\* Nothing adds up to nothing.
LEMMA TotalOfZeros ==
    ASSUME NEW S, IsFiniteSet(S), NEW v, \A x \in S : v[x] = 0
    PROVE  Total(v, S) = 0
<1> DEFINE N == {n \in Nat : \A T \in SUBSET S : Cardinality(T) = n => Total(v, T) = 0}
<1>1. 0 \in N
  <2> SUFFICES ASSUME NEW T \in SUBSET S, Cardinality(T) = 0 PROVE Total(v, T) = 0
    OBVIOUS
  <2>1. T = {}
    BY WithoutOne
  <2> QED
    BY <2>1, TotalOfNone
<1>2. ASSUME NEW n \in Nat, n \in N PROVE n + 1 \in N
  <2> SUFFICES ASSUME NEW T \in SUBSET S, Cardinality(T) = n + 1 PROVE Total(v, T) = 0
    OBVIOUS
  <2>1. IsFiniteSet(T) /\ Counts(v, T)
    BY WithoutOne DEF Counts
  <2>2. PICK r \in T : TRUE
    BY WithoutOne
  <2>3. T \ {r} \in SUBSET S /\ Cardinality(T \ {r}) = n
    BY WithoutOne
  <2>4. Total(v, T \ {r}) = 0
    BY <1>2, <2>3
  <2>5. Total(v, T) = v[r] + Total(v, T \ {r})
    BY <2>1, TotalTakes
  <2> QED
    BY <2>4, <2>5
<1>3. Cardinality(S) \in Nat
  BY FS_CardinalityType
<1> HIDE DEF N
<1>4. Cardinality(S) \in N
  BY <1>1, <1>2, <1>3, Counting
<1> QED
  BY <1>4 DEF N

\* Two sums that differ in one member differ by what it says.
LEMMA TotalDiffers ==
    ASSUME NEW S, IsFiniteSet(S), NEW v, NEW w, Counts(v, S), Counts(w, S), NEW r \in S,
           \A x \in S \ {r} : v[x] = w[x]
    PROVE  Total(v, S) + w[r] = Total(w, S) + v[r]
<1>1. IsFiniteSet(S \ {r}) /\ Counts(v, S \ {r})
  BY FS_Subset DEF Counts
<1>2. Total(v, S \ {r}) = Total(w, S \ {r})
  BY <1>1, TotalSame
<1>3. Total(v, S) = v[r] + Total(v, S \ {r}) /\ Total(v, S \ {r}) \in Nat
  BY TotalTakes
<1>4. Total(w, S) = w[r] + Total(w, S \ {r})
  BY TotalTakes
<1>5. v[r] \in Nat /\ w[r] \in Nat
  BY DEF Counts
<1> QED
  BY <1>2, <1>3, <1>4, <1>5

------------------------------------------------------------------------------
(* Sums of the containers' memory *)

LEMMA RefBytes == \A r \in Refs : r[1] \in Kinds /\ ContainerBytes[r[1]] \in Nat
<1>1. ContainerBytes \in [Kinds -> Nat]
  BY PlannerAssumption
<1>2. ASSUME NEW r \in Refs PROVE r[1] \in Kinds
  <2>1. PICK kind \in Kinds : r \in {kind} \X (1 .. SlotsOf(kind))
    BY DEF Refs
  <2> QED
    BY <2>1
<1> QED
  BY <1>1, <1>2

\* The memory of the containers on a set of instances.
Bytes(S) == MapThenSumSet(LAMBDA r : ContainerBytes[r[1]], S)

Weight == [r \in Refs |-> ContainerBytes[r[1]]]

IsSum(f, S) ==
    f = [s \in SUBSET S |-> IF s = {} THEN 0 ELSE ContainerBytes[OneOf(s)[1]] + f[s \ {OneOf(s)}]]

LEMMA BytesFold == \A S : Bytes(S) = (CHOOSE f : IsSum(f, S))[S]
BY DEF Bytes, MapThenSumSet, MapThenFoldSet, IsSum, OneOf

LEMMA BytesTotal ==
    ASSUME NEW S \in SUBSET Refs
    PROVE  Bytes(S) = Total(Weight, S)
<1>1. ASSUME NEW f PROVE IsSum(f, S) <=> IsTotal(f, Weight, S)
  <2>1. \A s \in SUBSET S : s # {} => Weight[OneOf(s)] = ContainerBytes[OneOf(s)[1]]
    BY DEF Weight, OneOf
  <2> QED
    BY <2>1 DEF IsSum, IsTotal
<1>2. (CHOOSE f : IsSum(f, S)) = (CHOOSE f : IsTotal(f, Weight, S))
  BY <1>1
<1> QED
  BY <1>2, BytesFold DEF Total

LEMMA WeightType ==
    ASSUME NEW S \in SUBSET Refs
    PROVE  Counts(Weight, S) /\ \A r \in S : Weight[r] = ContainerBytes[r[1]]
BY RefBytes DEF Weight, Counts

\* The memory of a set of containers is a number, and one more container adds its own.
LEMMA BytesType ==
    ASSUME NEW S \in SUBSET Refs, IsFiniteSet(S)
    PROVE  Bytes(S) \in Nat
BY BytesTotal, WeightType, TotalType

LEMMA NoBytes == Bytes({}) = 0
<1>1. {} \in SUBSET Refs
  OBVIOUS
<1> QED
  BY <1>1, BytesTotal, TotalOfNone

LEMMA OneMoreBytes ==
    ASSUME NEW S \in SUBSET Refs, IsFiniteSet(S), NEW r \in Refs, r \notin S
    PROVE  Bytes(S \cup {r}) = Bytes(S) + ContainerBytes[r[1]]
<1> DEFINE U == S \cup {r}
<1>1. IsFiniteSet(U) /\ U \in SUBSET Refs /\ r \in U /\ U \ {r} = S
  BY FS_AddElement
<1> HIDE DEF U
<1>2. Counts(Weight, U)
  BY <1>1, WeightType
<1>3. Total(Weight, U) = Weight[r] + Total(Weight, S) /\ Total(Weight, S) \in Nat
  BY <1>1, <1>2, TotalTakes
<1>4. Bytes(U) = Total(Weight, U) /\ Bytes(S) = Total(Weight, S)
  BY <1>1, BytesTotal
<1>5. Weight[r] \in Nat /\ Weight[r] = ContainerBytes[r[1]]
  BY <1>1, <1>2, WeightType DEF Counts
<1>6. Bytes(U) = Bytes(S) + ContainerBytes[r[1]]
  BY <1>3, <1>4, <1>5
<1> QED
  BY <1>6 DEF U

\* The memory the planner counts for the slots already starting is such a sum.
StartingRefs(i) == {r \in DOMAIN i.occupied : i.occupied[r].phase = "starting"}

LEMMA StartingIsBytes == \A i : StartingBytes(i) = Bytes(StartingRefs(i))
<1>1. \A i : StartingBytes(i) = (CHOOSE f : IsSum(f, StartingRefs(i)))[StartingRefs(i)]
  BY DEF StartingBytes, StartingRefs, MapThenSumSet, MapThenFoldSet, IsSum, OneOf
<1> QED
  BY <1>1, BytesFold

LEMMA StartingType ==
    ASSUME NEW i, DOMAIN i.occupied \subseteq Refs, IsFiniteSet(DOMAIN i.occupied)
    PROVE  StartingBytes(i) \in Nat
<1>1. StartingRefs(i) \in SUBSET Refs /\ IsFiniteSet(StartingRefs(i))
  BY FS_Subset DEF StartingRefs
<1> QED
  BY <1>1, StartingIsBytes, BytesType

------------------------------------------------------------------------------
(* The loop *)

\* A lane has finitely many instances, so the loop's turns are a number.
LEMMA RefsFinite == IsFiniteSet(Refs) /\ MaxTurns \in Nat
<1> DEFINE parts == {{kind} \X (1 .. SlotsOf(kind)) : kind \in Kinds}
           f == [kind \in Kinds |-> {kind} \X (1 .. SlotsOf(kind))]
<1>1. f \in Surjection(Kinds, parts)
  BY DEF Surjection
<1>2. IsFiniteSet(parts)
  <2> HIDE DEF parts, f
  <2> QED
    BY <1>1, PlannerAssumption, FS_Surjection
<1>3. \A part \in parts : IsFiniteSet(part)
  <2> SUFFICES ASSUME NEW kind \in Kinds PROVE IsFiniteSet({kind} \X (1 .. SlotsOf(kind)))
    OBVIOUS
  <2>1. IsFiniteSet(1 .. SlotsOf(kind))
    <3>1. SlotsOf(kind) \in Int /\ 1 \in Int
      BY BudgetTypes
    <3> QED
      BY <3>1, FS_Interval
  <2> QED
    BY <2>1, FS_Singleton, FS_Product
<1>4. IsFiniteSet(UNION parts)
  <2> HIDE DEF parts
  <2> QED
    BY <1>2, <1>3, FS_UNION
<1>5. IsFiniteSet(Refs)
  BY <1>4 DEF Refs
<1>6. Cardinality(Refs) \in Nat /\ Cardinality(SetKeys) \in Nat
  BY <1>5, PlannerAssumption, FS_CardinalityType
<1> QED
  BY <1>5, <1>6 DEF MaxTurns

\* Some wanting set has the fewest active slots, and of those the first name.
LEMMA NeediestExists ==
    ASSUME NEW s, s.active \in [SetKeys -> Nat], Wanting(s, TierOf(s)) # {}
    PROVE  \E k \in SetKeys : Neediest(s, k)
<1> DEFINE W == Wanting(s, TierOf(s))
           counts == {s.active[k] : k \in W}
<1>1. W \subseteq SetKeys
  BY DEF Wanting
<1>2. PICK a \in counts : \A b \in counts : a <= b
  <2>1. counts \in SUBSET Nat /\ counts # {}
    BY <1>1
  <2> HIDE DEF counts
  <2> QED
    BY <2>1, Minimum
<1> DEFINE ranks == {Rank[k] : k \in {l \in W : s.active[l] = a}}
<1>3. PICK p \in ranks : \A q \in ranks : p <= q
  <2>1. ranks \in SUBSET Nat
    <3>1. \A k \in W : Rank[k] \in Nat
      BY <1>1, PlannerAssumption
    <3> HIDE DEF W
    <3> QED
      BY <3>1
  <2>2. ranks # {}
    <3>1. PICK k \in W : s.active[k] = a
      BY <1>2
    <3>2. Rank[k] \in ranks
      BY <3>1
    <3> QED
      BY <3>2
  <2> HIDE DEF ranks
  <2> QED
    BY <2>1, <2>2, Minimum
<1>4. PICK k \in W : s.active[k] = a /\ Rank[k] = p
  BY <1>3
<1>5. ASSUME NEW l \in W \ {k}
      PROVE  s.active[k] < s.active[l] \/ (s.active[k] = s.active[l] /\ Rank[k] < Rank[l])
  <2>1. s.active[k] \in Nat /\ s.active[l] \in Nat /\ Rank[k] \in Nat /\ Rank[l] \in Nat /\ Rank[k] # Rank[l]
    BY <1>1, PlannerAssumption
  <2>2. s.active[k] <= s.active[l]
    BY <1>2, <1>4
  <2>3. s.active[k] = s.active[l] => Rank[k] <= Rank[l]
    BY <1>3, <1>4
  <2> QED
    BY <2>1, <2>2, <2>3
<1> QED
  BY <1>1, <1>4, <1>5 DEF Neediest

------------------------------------------------------------------------------
(* A round, turn after turn *)

StartedIn(starts) == {x.ref : x \in starts}

\* No start takes an instance that is occupied or that another start has.
StartsApart(i, starts) ==
    \A x \in starts :
        /\ x.ref \notin DOMAIN i.occupied /\ x.ref[1] = KindOf[x.set]
        /\ \A y \in starts : y.ref = x.ref => y = x

\* Where something is started, all that is occupied stays within the limit.
StartsWithin(i, starts) ==
    /\ \A b \in Budgets :
          HeldBy(StartedIn(starts), b) # {} =>
              Cardinality(HeldBy(DOMAIN i.occupied \cup StartedIn(starts), b)) <= BudgetSlots(b)
    /\ QAEHeld(StartedIn(starts)) # {} =>
          Cardinality(QAEHeld(DOMAIN i.occupied \cup StartedIn(starts))) <= QAEConcurrency

Fields == {"want", "active", "taken", "used", "usedQAE", "planned", "starts", "refused"}

\* The loop's state at any turn: its counts are those of the instances taken.
InRound(i, s) ==
    /\ s = [field \in Fields |-> s[field]]
    /\ s.active \in [SetKeys -> Nat] /\ s.used \in [Budgets -> Nat] /\ s.usedQAE \in Nat
    /\ s.starts \subseteq [set : SetKeys, ref : Refs]
    /\ s.taken = DOMAIN i.occupied \cup StartedIn(s.starts) /\ IsFiniteSet(s.taken)
    /\ \A b \in Budgets : s.used[b] = Cardinality(HeldBy(s.taken, b))
    /\ s.usedQAE = Cardinality(QAEHeld(s.taken))
    /\ StartsApart(i, s.starts) /\ StartsWithin(i, s.starts)

LEMMA RoundBegins ==
    ASSUME NEW i, IsFiniteSet(DOMAIN i.occupied)
    PROVE  InRound(i, BeforeStarts(i))
<1> DEFINE s == BeforeStarts(i)
<1>1. s.active \in [SetKeys -> Nat]
  <2>1. \A k \in SetKeys : ActiveSlots(i, k) \in Nat
    <3> TAKE k \in SetKeys
    <3>1. IsFiniteSet(SlotsIn(i, k, ActivePhases))
      BY FS_Subset DEF SlotsIn
    <3> QED
      BY <3>1, FS_CardinalityType DEF ActiveSlots
  <2> QED
    BY <2>1 DEF BeforeStarts
<1>2. s.starts = {} /\ StartedIn(s.starts) = {} /\ s.taken = DOMAIN i.occupied
  BY DEF BeforeStarts, StartedIn
<1>3. /\ s.used = [b \in Budgets |-> Cardinality(HeldBy(DOMAIN i.occupied, b))]
      /\ s.usedQAE = Cardinality(QAEHeld(DOMAIN i.occupied))
  BY DEF BeforeStarts
<1>4. s.used \in [Budgets -> Nat] /\ s.usedQAE \in Nat
  BY <1>3, HeldFinite
<1>5. s = [field \in Fields |-> s[field]]
  BY DEF BeforeStarts, Fields
<1>6. StartsApart(i, s.starts) /\ StartsWithin(i, s.starts)
  BY <1>2 DEF StartsApart, StartsWithin, HeldBy, QAEHeld
<1> HIDE DEF s
<1>7. InRound(i, s)
  BY <1>1, <1>2, <1>3, <1>4, <1>5, <1>6 DEF InRound
<1> QED
  BY <1>7 DEF s

\* A start takes a free instance, and passed the checks against the counts.
LEMMA StartKeeps ==
    ASSUME NEW i, NEW s, InRound(i, s), NEW k \in SetKeys, MayStart(i, s, KindOf[k])
    PROVE  InRound(i, StartOne(i, s, k))
<1> DEFINE kind == KindOf[k]
           ref == <<kind, LowestFree(i, s, kind)>>
           t == StartOne(i, s, k)
           new == [set |-> k, ref |-> ref]
<1>1. kind \in Kinds /\ BudgetOf(kind) \in Budgets
  BY PlannerAssumption, BudgetTypes
<1>2. ref \in Refs /\ ref \notin s.taken /\ ref[1] = kind
  BY <1>1, LowestFreeUsable DEF MayStart
<1>3. /\ t.taken = s.taken \cup {ref} /\ t.starts = s.starts \cup {new}
      /\ t.active = [s.active EXCEPT ![k] = @ + 1]
      /\ t.used = [s.used EXCEPT ![BudgetOf(kind)] = @ + 1]
      /\ t.usedQAE = IF kind = QAEKind THEN s.usedQAE + 1 ELSE s.usedQAE
  BY DEF StartOne, InRound, Fields
<1>4. t = [field \in Fields |-> t[field]]
  BY DEF StartOne, InRound
<1> HIDE DEF t, ref
<1>5. new \in [set : SetKeys, ref : Refs] /\ new.ref = ref /\ new.set = k
  BY <1>2
<1> HIDE DEF new
<1>6. StartedIn(t.starts) = StartedIn(s.starts) \cup {ref}
  BY <1>3, <1>5 DEF StartedIn
<1>7. t.taken = DOMAIN i.occupied \cup StartedIn(t.starts)
  BY <1>3, <1>6 DEF InRound
<1>8. /\ IsFiniteSet(t.taken)
      /\ \A b : Cardinality(HeldBy(t.taken, b)) =
                  IF b = BudgetOf(kind) THEN Cardinality(HeldBy(s.taken, b)) + 1 ELSE Cardinality(HeldBy(s.taken, b))
      /\ Cardinality(QAEHeld(t.taken)) =
            IF kind = QAEKind THEN Cardinality(QAEHeld(s.taken)) + 1 ELSE Cardinality(QAEHeld(s.taken))
  <2>1. IsFiniteSet(s.taken) /\ ref \notin s.taken /\ ref[1] = kind
    BY <1>2 DEF InRound
  <2>2. /\ IsFiniteSet(s.taken \cup {ref})
        /\ \A b : Cardinality(HeldBy(s.taken \cup {ref}, b)) =
                    IF b = BudgetOf(ref[1]) THEN Cardinality(HeldBy(s.taken, b)) + 1
                    ELSE Cardinality(HeldBy(s.taken, b))
        /\ Cardinality(QAEHeld(s.taken \cup {ref})) =
              IF ref[1] = QAEKind THEN Cardinality(QAEHeld(s.taken)) + 1 ELSE Cardinality(QAEHeld(s.taken))
    BY <2>1, HeldOneMore
  <2>3. t.taken = s.taken \cup {ref}
    BY <1>3
  <2> QED
    BY <2>1, <2>2, <2>3
<1>9. /\ s.used \in [Budgets -> Nat] /\ s.usedQAE \in Nat /\ s.active \in [SetKeys -> Nat]
      /\ \A b \in Budgets : s.used[b] = Cardinality(HeldBy(s.taken, b))
      /\ s.usedQAE = Cardinality(QAEHeld(s.taken))
  BY DEF InRound
<1>10. /\ \A b \in Budgets : t.used[b] = Cardinality(HeldBy(t.taken, b))
       /\ t.usedQAE = Cardinality(QAEHeld(t.taken))
  <2>1. \A b \in Budgets : t.used[b] = IF b = BudgetOf(kind) THEN s.used[b] + 1 ELSE s.used[b]
    BY <1>3, <1>9
  <2>2. t.usedQAE = IF kind = QAEKind THEN s.usedQAE + 1 ELSE s.usedQAE
    BY <1>3
  <2> QED
    BY <1>8, <1>9, <2>1, <2>2
<1>11. t.active \in [SetKeys -> Nat] /\ t.used \in [Budgets -> Nat] /\ t.usedQAE \in Nat
  <2>1. [s.active EXCEPT ![k] = @ + 1] \in [SetKeys -> Nat]
    BY <1>9
  <2>2. [s.used EXCEPT ![BudgetOf(kind)] = @ + 1] \in [Budgets -> Nat]
    BY <1>1, <1>9
  <2>3. t.usedQAE \in Nat
    BY <1>3, <1>9
  <2> QED
    BY <1>3, <2>1, <2>2, <2>3
<1>12. t.starts \subseteq [set : SetKeys, ref : Refs]
  BY <1>3, <1>5 DEF InRound
<1>13. StartsApart(i, t.starts)
  <2>1. StartsApart(i, s.starts) /\ ref \notin DOMAIN i.occupied /\ \A x \in s.starts : x.ref # ref
    BY <1>2 DEF InRound, StartedIn
  <2> QED
    BY <1>2, <1>3, <1>5, <2>1 DEF StartsApart
<1>14. ASSUME NEW b \in Budgets, HeldBy(StartedIn(t.starts), b) # {}
       PROVE  Cardinality(HeldBy(t.taken, b)) <= BudgetSlots(b)
  <2>1. s.used[b] \in Nat /\ BudgetSlots(b) \in Nat
    BY <1>9, BudgetTypes
  <2>2. CASE b = BudgetOf(kind)
    <3>1. s.used[b] < BudgetSlots(b)
      BY <1>1, <2>2, BudgetTypes DEF MayStart
    <3> QED
      BY <1>8, <1>9, <2>1, <2>2, <3>1
  <2>3. CASE b # BudgetOf(kind)
    <3>1. HeldBy(StartedIn(s.starts), b) # {}
      BY <1>2, <1>6, <1>14, <2>3 DEF HeldBy
    <3>2. Cardinality(HeldBy(s.taken, b)) <= BudgetSlots(b)
      BY <3>1 DEF InRound, StartsWithin
    <3> QED
      BY <1>8, <2>3, <3>2
  <2> QED
    BY <2>2, <2>3
<1>15. ASSUME QAEHeld(StartedIn(t.starts)) # {}
       PROVE  Cardinality(QAEHeld(t.taken)) <= QAEConcurrency
  <2>1. s.usedQAE \in Nat /\ QAEConcurrency \in Nat
    BY <1>9, PlannerAssumption
  <2>2. CASE kind = QAEKind
    <3>1. s.usedQAE < QAEConcurrency
      BY <2>2 DEF MayStart
    <3> QED
      BY <1>8, <1>9, <2>1, <2>2, <3>1
  <2>3. CASE kind # QAEKind
    <3>1. QAEHeld(StartedIn(s.starts)) # {}
      BY <1>2, <1>6, <1>15, <2>3 DEF QAEHeld
    <3>2. Cardinality(QAEHeld(s.taken)) <= QAEConcurrency
      BY <3>1 DEF InRound, StartsWithin
    <3> QED
      BY <1>8, <2>3, <3>2
  <2> QED
    BY <2>2, <2>3
<1>16. StartsWithin(i, t.starts)
  BY <1>7, <1>14, <1>15 DEF StartsWithin
<1>17. InRound(i, t)
  BY <1>4, <1>7, <1>8, <1>10, <1>11, <1>12, <1>13, <1>16 DEF InRound
<1> QED
  BY <1>17 DEF t

\* A refusal gives up demand and nothing else.
LEMMA RefuseKeeps ==
    ASSUME NEW i, NEW s, InRound(i, s), NEW k
    PROVE  InRound(i, RefuseSet(s, k))
<1> DEFINE t == RefuseSet(s, k)
<1>1. /\ t.active = s.active /\ t.taken = s.taken /\ t.used = s.used /\ t.usedQAE = s.usedQAE
      /\ t.starts = s.starts /\ t = [field \in Fields |-> t[field]]
  BY DEF RefuseSet, InRound, Fields
<1> HIDE DEF t
<1>2. InRound(i, t)
  BY <1>1 DEF InRound
<1> QED
  BY <1>2 DEF t

LEMMA TurnKeeps ==
    ASSUME NEW i, NEW s, InRound(i, s)
    PROVE  InRound(i, TurnOf(i, s))
<1>1. CASE Wanting(s, TierOf(s)) = {}
  BY <1>1 DEF TurnOf
<1>2. CASE Wanting(s, TierOf(s)) # {}
  <2> DEFINE k == CHOOSE l \in SetKeys : Neediest(s, l)
  <2>1. k \in SetKeys
    BY <1>2, NeediestExists DEF InRound
  <2>2. TurnOf(i, s) = StartTurn(i, s, k)
    BY <1>2 DEF TurnOf
  <2> HIDE DEF k
  <2> QED
    BY <2>1, <2>2, StartKeeps, RefuseKeeps DEF StartTurn
<1> QED
  BY <1>1, <1>2

------------------------------------------------------------------------------
(* The whole round *)

\* The loop's states after up to m turns.
IsLoop(after, i, m) ==
    after = [n \in 0 .. m |-> IF n = 0 THEN {BeforeStarts(i)} ELSE {TurnOf(i, s) : s \in after[n - 1]}]

LEMMA LoopExists ==
    ASSUME NEW i, NEW m \in Nat
    PROVE  \E after : IsLoop(after, i, m)
<1> DEFINE S == {n \in Nat : \E after : IsLoop(after, i, n)}
<1>1. 0 \in S
  <2>1. IsLoop([n \in 0 .. 0 |-> {BeforeStarts(i)}], i, 0)
    BY DEF IsLoop
  <2> QED
    BY <2>1
<1>2. ASSUME NEW n \in Nat, n \in S PROVE n + 1 \in S
  <2>1. PICK g : IsLoop(g, i, n)
    BY <1>2
  <2> DEFINE h == [l \in 0 .. n + 1 |-> IF l = n + 1 THEN {TurnOf(i, s) : s \in g[n]} ELSE g[l]]
  <2>2. \A l \in 0 .. n + 1 : h[l] = IF l = 0 THEN {BeforeStarts(i)} ELSE {TurnOf(i, s) : s \in h[l - 1]}
    <3>1. h[n + 1] = {TurnOf(i, s) : s \in g[n]} /\ \A l \in 0 .. n : h[l] = g[l]
      OBVIOUS
    <3>2. \A l \in 0 .. n : g[l] = IF l = 0 THEN {BeforeStarts(i)} ELSE {TurnOf(i, s) : s \in g[l - 1]}
      BY <2>1 DEF IsLoop
    <3> HIDE DEF h
    <3> TAKE l \in 0 .. n + 1
    <3>3. CASE l = n + 1
      <4>1. l - 1 = n /\ n \in 0 .. n /\ l # 0
        BY <3>3
      <4>2. h[l - 1] = g[n] /\ h[l] = {TurnOf(i, s) : s \in g[n]}
        BY <3>1, <3>3, <4>1
      <4> QED
        BY <4>1, <4>2
    <3>4. CASE l = 0
      <4>1. 0 \in 0 .. n
        OBVIOUS
      <4>2. h[0] = g[0] /\ g[0] = {BeforeStarts(i)}
        BY <3>1, <3>2, <4>1
      <4> QED
        BY <3>4, <4>2
    <3>5. CASE l \in 1 .. n
      <4>1. l - 1 \in 0 .. n /\ l \in 0 .. n /\ l # 0
        BY <3>5
      <4>2. h[l - 1] = g[l - 1] /\ h[l] = g[l]
        BY <3>1, <4>1
      <4>3. g[l] = {TurnOf(i, s) : s \in g[l - 1]}
        BY <3>2, <4>1
      <4> QED
        BY <4>1, <4>2, <4>3
    <3> QED
      BY <3>3, <3>4, <3>5
  <2>3. h = [l \in 0 .. n + 1 |-> IF l = 0 THEN {BeforeStarts(i)} ELSE {TurnOf(i, s) : s \in h[l - 1]}]
    <3>1. DOMAIN h = 0 .. n + 1 /\ h = [l \in 0 .. n + 1 |-> h[l]]
      OBVIOUS
    <3> HIDE DEF h
    <3> QED
      BY <2>2, <3>1
  <2> HIDE DEF h
  <2>4. IsLoop(h, i, n + 1)
    BY <2>3 DEF IsLoop
  <2> QED
    BY <2>4
<1> HIDE DEF S
<1>3. m \in S
  BY <1>1, <1>2, Counting
<1> QED
  BY <1>3 DEF S

\* A round ends in one state of the loop, and its starts are that state's.
LEMMA RoundEnds ==
    ASSUME NEW i, IsFiniteSet(DOMAIN i.occupied)
    PROVE  \E s : InRound(i, s) /\ PlanStarts(i) = s.starts
<1> DEFINE loop == CHOOSE after : IsLoop(after, i, MaxTurns)
<1>1. IsLoop(loop, i, MaxTurns) /\ MaxTurns \in Nat
  BY RefsFinite, LoopExists
<1>2. PlanStarts(i) = UNION {s.starts : s \in loop[MaxTurns]}
  BY DEF PlanStarts, IsLoop
<1> HIDE DEF loop
<1> DEFINE S == {n \in Nat : n <= MaxTurns => \E s : loop[n] = {s} /\ InRound(i, s)}
<1>3. 0 \in S
  BY <1>1, RoundBegins DEF IsLoop
<1>4. ASSUME NEW n \in Nat, n \in S PROVE n + 1 \in S
  <2> SUFFICES ASSUME n + 1 <= MaxTurns PROVE \E s : loop[n + 1] = {s} /\ InRound(i, s)
    OBVIOUS
  <2>1. PICK s : loop[n] = {s} /\ InRound(i, s)
    BY <1>1, <1>4
  <2>2. loop[n + 1] = {TurnOf(i, u) : u \in loop[n]}
    BY <1>1 DEF IsLoop
  <2>3. loop[n + 1] = {TurnOf(i, s)}
    BY <2>1, <2>2
  <2> QED
    BY <2>1, <2>3, TurnKeeps
<1> HIDE DEF S
<1>5. MaxTurns \in S
  BY <1>1, <1>3, <1>4, Counting
<1>6. PICK s : loop[MaxTurns] = {s} /\ InRound(i, s)
  BY <1>1, <1>5 DEF S
<1>7. PlanStarts(i) = s.starts
  BY <1>2, <1>6
<1> QED
  BY <1>6, <1>7

\* Whatever the lane and whatever it holds, the starts of a whole round are on instances of their own
\* that were free, and keep every budget and qae_concurrency (plan.go planStarts).
THEOREM RoundIsSafe ==
    ASSUME NEW i, IsFiniteSet(DOMAIN i.occupied)
    PROVE  /\ PlanStarts(i) \subseteq [set : SetKeys, ref : Refs]
           /\ StartsApart(i, PlanStarts(i)) /\ StartsWithin(i, PlanStarts(i))
BY RoundEnds DEF InRound
=============================================================================
