-------------------------- MODULE LanePlan_proofs --------------------------
(***************************************************************************)
(* Proofs that the rounds of planStarts keep their types, the budgets, the *)
(* instances and the refusals, for every lane and every input.             *)
(***************************************************************************)
EXTENDS LanePlan, LanePlanner_proofs

------------------------------------------------------------------------------
(* The inductive invariant *)

\* The counts the loop keeps are those of the instances it has taken.
Accounts ==
    /\ st.taken = DOMAIN in.occupied \cup StartedRefs
    /\ IsFiniteSet(st.taken)
    /\ \A b \in Budgets : st.used[b] = Cardinality(HeldBy(st.taken, b))
    /\ st.usedQAE = Cardinality(QAEHeld(st.taken))

\* The memory planned is that of the slots starting and of the round's starts,
\* and the last start left the reserve free beside it.
Planned ==
    /\ st.planned = StartingBytes(in) + Bytes(StartedRefs)
    /\ st.starts # {} => st.planned + ReserveBytes <= in.mem

IInv == TypeOK /\ Accounts /\ Planned /\ BudgetKept /\ InstancesKept /\ RefusalsStand

\* What a start changes, and the instance it takes.
LEMMA StartFacts ==
    ASSUME IInv, NEW k \in SetKeys, Start(k)
    PROVE  \E ref \in Refs :
             /\ ref[1] = KindOf[k] /\ ref[2] \in 1 .. Instances[ref[1]]
             /\ ref \notin st.taken /\ ref \notin in.missing
             /\ in' = in
             /\ st'.taken = st.taken \cup {ref}
             /\ st'.used = [st.used EXCEPT ![BudgetOf(KindOf[k])] = @ + 1]
             /\ st'.usedQAE = IF KindOf[k] = QAEKind THEN st.usedQAE + 1 ELSE st.usedQAE
             /\ st'.planned = st.planned + ContainerBytes[KindOf[k]]
             /\ st'.starts = st.starts \cup {[set |-> k, ref |-> ref]}
             /\ st'.refused = st.refused
             /\ StartedRefs' = StartedRefs \cup {ref}
<1> DEFINE ref == <<KindOf[k], LowestFree(in, st, KindOf[k])>>
<1>1. KindOf[k] \in Kinds
  BY PlannerAssumption
<1>2. UsableInstances(in, st, KindOf[k]) # {}
  BY DEF Start, MayStart
<1>3. /\ ref \in Refs /\ ref \notin st.taken /\ ref \notin in.missing
      /\ ref[1] = KindOf[k] /\ ref[2] \in 1 .. Instances[ref[1]]
  BY <1>1, <1>2, LowestFreeUsable
<1>4. /\ in' = in
      /\ st'.taken = st.taken \cup {ref}
      /\ st'.used = [st.used EXCEPT ![BudgetOf(KindOf[k])] = @ + 1]
      /\ st'.usedQAE = IF KindOf[k] = QAEKind THEN st.usedQAE + 1 ELSE st.usedQAE
      /\ st'.planned = st.planned + ContainerBytes[KindOf[k]]
      /\ st'.starts = st.starts \cup {[set |-> k, ref |-> ref]}
      /\ st'.refused = st.refused
  BY DEF Start, StartOne, IInv, TypeOK
<1>5. StartedRefs' = StartedRefs \cup {ref}
  <2>1. \A s : s \in st'.starts <=> s \in st.starts \/ s = [set |-> k, ref |-> ref]
    BY <1>4
  <2>2. [set |-> k, ref |-> ref].ref = ref
    OBVIOUS
  <2> HIDE DEF ref
  <2> QED
    BY <2>1, <2>2, Zenon DEF StartedRefs
<1> QED
  BY <1>3, <1>4, <1>5

\* What a refusal leaves alone.
LEMMA RefuseFacts ==
    ASSUME IInv, NEW k \in SetKeys, Refuse(k)
    PROVE  /\ in' = in
           /\ st'.taken = st.taken /\ st'.used = st.used /\ st'.usedQAE = st.usedQAE
           /\ st'.planned = st.planned /\ st'.starts = st.starts
           /\ st'.refused = st.refused \cup {k}
           /\ StartedRefs' = StartedRefs
BY DEF Refuse, RefuseSet, IInv, TypeOK, StartedRefs

\* A tier's demand is a number: the jobs' share never exceeds the whole.
LEMMA WantsType ==
    ASSUME NEW i, IsPlanInput(i), NEW k \in SetKeys
    PROVE  Wants(i, k) \in [Tiers -> Nat] /\ ActiveSlots(i, k) \in Nat
<1>1. ActiveSlots(i, k) \in Nat
  <2>1. IsFiniteSet(SlotsIn(i, k, ActivePhases))
    BY FS_Subset DEF SlotsIn, IsPlanInput
  <2> QED
    BY <2>1, FS_CardinalityType DEF ActiveSlots
<1>2. i.minimum[k] \in Nat /\ i.assigned[k] \in Nat
  BY DEF IsPlanInput
<1>3. SlotsOf(KindOf[k]) \in Nat
  BY BudgetTypes, PlannerAssumption
<1>4. Wants(i, k) \in [Tiers -> Nat]
  BY <1>1, <1>2, <1>3 DEF Wants, Desired, Least, Positive, Tiers
<1> QED
  BY <1>1, <1>4

\* The loop's state is well typed before its first turn.
LEMMA InitType == Init => TypeOK
<1> SUFFICES ASSUME Init PROVE TypeOK
  OBVIOUS
<1>1. IsPlanInput(in)
  BY LanePlanAssumption DEF Init
<1>2. /\ [k \in SetKeys |-> Wants(in, k)] \in [SetKeys -> [Tiers -> Nat]]
      /\ [k \in SetKeys |-> ActiveSlots(in, k)] \in [SetKeys -> Nat]
  BY <1>1, WantsType
<1>3. DOMAIN in.occupied \subseteq Refs /\ IsFiniteSet(DOMAIN in.occupied)
  BY <1>1 DEF IsPlanInput
<1>4. /\ [b \in Budgets |-> Cardinality(HeldBy(DOMAIN in.occupied, b))] \in [Budgets -> Nat]
      /\ Cardinality(QAEHeld(DOMAIN in.occupied)) \in Nat
  BY <1>3, HeldFinite
<1>5. StartingBytes(in) \in Nat
  BY <1>3, StartingType
<1> QED
  BY <1>1, <1>2, <1>3, <1>4, <1>5 DEF Init, TypeOK, BeforeStarts

\* The invariant holds before the first turn.
LEMMA InitIInv == Init => IInv
<1> SUFFICES ASSUME Init PROVE IInv
  OBVIOUS
<1>1. TypeOK
  BY InitType
<1>2. st.starts = {} /\ st.refused = {} /\ StartedRefs = {}
  BY DEF Init, BeforeStarts, StartedRefs
<1>3. /\ st.taken = DOMAIN in.occupied
      /\ st.used = [b \in Budgets |-> Cardinality(HeldBy(DOMAIN in.occupied, b))]
      /\ st.usedQAE = Cardinality(QAEHeld(DOMAIN in.occupied))
  BY DEF Init, BeforeStarts
<1>4. Accounts
  BY <1>1, <1>2, <1>3 DEF Accounts, TypeOK, IsPlanInput
<1>5. BudgetKept
  BY <1>2 DEF BudgetKept, HeldBy, QAEHeld
<1>6. InstancesKept /\ RefusalsStand
  BY <1>2 DEF InstancesKept, RefusalsStand
<1>7. Planned
  <2>1. st.planned = StartingBytes(in) /\ StartingBytes(in) \in Nat
    BY <1>1, StartingType DEF Init, BeforeStarts, TypeOK, IsPlanInput
  <2> QED
    BY <1>2, <2>1, NoBytes DEF Planned
<1> QED
  BY <1>1, <1>4, <1>5, <1>6, <1>7 DEF IInv

\* A start keeps the types.
LEMMA StartType ==
    ASSUME IInv, NEW k \in SetKeys, Start(k)
    PROVE  TypeOK'
<1> DEFINE kind == KindOf[k]
           t == TierOf(st)
           ref == <<kind, LowestFree(in, st, kind)>>
<1>1. kind \in Kinds /\ BudgetOf(kind) \in Budgets /\ ContainerBytes[kind] \in Nat
  BY PlannerAssumption, BudgetTypes
<1>2. t \in Tiers
  BY DEF TierOf, Tiers
<1>3. st.want[k][t] > 0
  BY DEF Start, Neediest, Wanting
<1>4. ref \in Refs
  BY <1>1, LowestFreeUsable DEF Start, MayStart
<1>5. st' = StartOne(in, st, k) /\ in' = in
  BY DEF Start
<1>6. TypeOK
  BY DEF IInv
<1>7. st.want[k][t] - 1 \in Nat /\ st.active[k] + 1 \in Nat
  BY <1>2, <1>3, <1>6 DEF TypeOK
<1>8. [st.want EXCEPT ![k] = [st.want[k] EXCEPT ![t] = @ - 1]] \in [SetKeys -> [Tiers -> Nat]]
  BY <1>2, <1>6, <1>7 DEF TypeOK
<1>9. [st.active EXCEPT ![k] = @ + 1] \in [SetKeys -> Nat]
  BY <1>6, <1>7 DEF TypeOK
<1>10. [st.used EXCEPT ![BudgetOf(kind)] = @ + 1] \in [Budgets -> Nat]
  BY <1>1, <1>6 DEF TypeOK
<1>11. (IF kind = QAEKind THEN st.usedQAE + 1 ELSE st.usedQAE) \in Nat
  BY <1>6 DEF TypeOK
<1>12. st.planned + ContainerBytes[kind] \in Nat
  BY <1>1, <1>6 DEF TypeOK
<1>13. st.taken \cup {ref} \in SUBSET Refs
  BY <1>4, <1>6 DEF TypeOK
<1>14. st.starts \cup {[set |-> k, ref |-> ref]} \in SUBSET [set : SetKeys, ref : Refs]
  <2>1. st.starts \subseteq [set : SetKeys, ref : Refs]
    BY <1>6 DEF TypeOK
  <2> HIDE DEF ref
  <2>2. [set |-> k, ref |-> ref] \in [set : SetKeys, ref : Refs]
    BY <1>4
  <2> QED
    BY <2>1, <2>2
<1>15. st' = [st EXCEPT !.want = [st.want EXCEPT ![k] = [st.want[k] EXCEPT ![t] = @ - 1]],
                         !.active = [st.active EXCEPT ![k] = @ + 1],
                         !.taken = st.taken \cup {ref},
                         !.used = [st.used EXCEPT ![BudgetOf(kind)] = @ + 1],
                         !.usedQAE = IF kind = QAEKind THEN st.usedQAE + 1 ELSE st.usedQAE,
                         !.planned = st.planned + ContainerBytes[kind],
                         !.starts = st.starts \cup {[set |-> k, ref |-> ref]}]
  BY <1>5 DEF StartOne
<1> HIDE DEF kind, t, ref
<1>16. st' \in [want : [SetKeys -> [Tiers -> Nat]], active : [SetKeys -> Nat],
               taken : SUBSET Refs, used : [Budgets -> Nat], usedQAE : Nat,
               planned : Nat, starts : SUBSET [set : SetKeys, ref : Refs],
               refused : SUBSET SetKeys]
  BY <1>6, <1>8, <1>9, <1>10, <1>11, <1>12, <1>13, <1>14, <1>15 DEF TypeOK
<1> QED
  BY <1>5, <1>6, <1>16 DEF TypeOK

\* A start keeps the accounts.
LEMMA StartAccounts ==
    ASSUME IInv, NEW k \in SetKeys, Start(k)
    PROVE  Accounts'
<1>1. PICK ref \in Refs :
        /\ ref[1] = KindOf[k] /\ ref \notin st.taken /\ in' = in
        /\ st'.taken = st.taken \cup {ref}
        /\ st'.used = [st.used EXCEPT ![BudgetOf(KindOf[k])] = @ + 1]
        /\ st'.usedQAE = IF KindOf[k] = QAEKind THEN st.usedQAE + 1 ELSE st.usedQAE
        /\ StartedRefs' = StartedRefs \cup {ref}
  BY StartFacts
<1>2. Accounts /\ TypeOK
  BY DEF IInv
<1>3. st'.taken = DOMAIN in'.occupied \cup StartedRefs'
  BY <1>1, <1>2 DEF Accounts
<1>4. IsFiniteSet(st.taken)
  BY <1>2 DEF Accounts
<1>5. /\ IsFiniteSet(st'.taken)
      /\ \A b : Cardinality(HeldBy(st'.taken, b)) =
                  IF b = BudgetOf(ref[1]) THEN Cardinality(HeldBy(st.taken, b)) + 1
                  ELSE Cardinality(HeldBy(st.taken, b))
      /\ Cardinality(QAEHeld(st'.taken)) =
            IF ref[1] = QAEKind THEN Cardinality(QAEHeld(st.taken)) + 1
            ELSE Cardinality(QAEHeld(st.taken))
  <2>1. /\ IsFiniteSet(st.taken \cup {ref})
        /\ \A b : Cardinality(HeldBy(st.taken \cup {ref}, b)) =
                    IF b = BudgetOf(ref[1]) THEN Cardinality(HeldBy(st.taken, b)) + 1
                    ELSE Cardinality(HeldBy(st.taken, b))
        /\ Cardinality(QAEHeld(st.taken \cup {ref})) =
              IF ref[1] = QAEKind THEN Cardinality(QAEHeld(st.taken)) + 1
              ELSE Cardinality(QAEHeld(st.taken))
    <3>1. ref \notin st.taken
      BY <1>1
    <3> QED
      BY <1>4, <3>1, HeldOneMore
  <2>2. st'.taken = st.taken \cup {ref}
    BY <1>1
  <2> QED
    BY <2>1, <2>2
<1>6. st.used \in [Budgets -> Nat]
  BY <1>2 DEF TypeOK
<1>7. \A b \in Budgets : st'.used[b] = Cardinality(HeldBy(st'.taken, b))
  <2> TAKE b \in Budgets
  <2>1. st'.used[b] = IF b = BudgetOf(KindOf[k]) THEN st.used[b] + 1 ELSE st.used[b]
    BY <1>1, <1>6
  <2>2. st.used[b] = Cardinality(HeldBy(st.taken, b))
    BY <1>2 DEF Accounts
  <2>3. ref[1] = KindOf[k]
    BY <1>1
  <2> QED
    BY <1>5, <2>1, <2>2, <2>3
<1>8. st'.usedQAE = Cardinality(QAEHeld(st'.taken))
  BY <1>1, <1>2, <1>5 DEF Accounts
<1> QED
  BY <1>3, <1>5, <1>7, <1>8 DEF Accounts

\* A start keeps the budgets: it passed the two checks against the counts,
\* and the counts are those of all instances taken.
LEMMA StartBudget ==
    ASSUME IInv, NEW k \in SetKeys, Start(k)
    PROVE  BudgetKept'
<1>1. PICK ref \in Refs :
        /\ ref[1] = KindOf[k] /\ in' = in
        /\ st'.used = [st.used EXCEPT ![BudgetOf(KindOf[k])] = @ + 1]
        /\ st'.usedQAE = IF KindOf[k] = QAEKind THEN st.usedQAE + 1 ELSE st.usedQAE
        /\ StartedRefs' = StartedRefs \cup {ref}
  BY StartFacts
<1>2. TypeOK /\ Accounts /\ BudgetKept
  BY DEF IInv
<1>3. Accounts'
  BY StartAccounts
<1>4. KindOf[k] \in Kinds /\ BudgetOf(KindOf[k]) \in Budgets
  BY PlannerAssumption, BudgetTypes
<1>5. /\ st.used[BudgetOf(KindOf[k])] < BudgetSlots(BudgetOf(KindOf[k]))
      /\ KindOf[k] = QAEKind => st.usedQAE < QAEConcurrency
  BY <1>4, BudgetTypes DEF Start, MayStart
<1>6. ASSUME NEW b \in Budgets, HeldBy(StartedRefs', b) # {}
      PROVE  Cardinality(HeldBy((DOMAIN in.occupied \cup StartedRefs)', b)) <= BudgetSlots(b)
  <2>1. Cardinality(HeldBy((DOMAIN in.occupied \cup StartedRefs)', b)) = st'.used[b]
    BY <1>3 DEF Accounts
  <2>2. st.used[b] \in Nat /\ BudgetSlots(b) \in Nat
    BY <1>2, BudgetTypes DEF TypeOK
  <2>3. CASE b = BudgetOf(KindOf[k])
    <3>1. st'.used[b] = st.used[b] + 1
      BY <1>1, <1>2, <2>3 DEF TypeOK
    <3> QED
      BY <1>5, <2>1, <2>2, <2>3, <3>1
  <2>4. CASE b # BudgetOf(KindOf[k])
    <3>1. st'.used[b] = st.used[b]
      BY <1>1, <1>2, <2>4 DEF TypeOK
    <3>2. HeldBy(StartedRefs, b) # {}
      BY <1>1, <1>6, <2>4 DEF HeldBy
    <3>3. Cardinality(HeldBy(DOMAIN in.occupied \cup StartedRefs, b)) = st.used[b]
      BY <1>2 DEF Accounts
    <3> QED
      BY <1>2, <2>1, <3>1, <3>2, <3>3 DEF BudgetKept
  <2> QED
    BY <2>3, <2>4
<1>7. ASSUME QAEHeld(StartedRefs') # {}
      PROVE  Cardinality(QAEHeld((DOMAIN in.occupied \cup StartedRefs)')) <= QAEConcurrency
  <2>1. /\ Cardinality(QAEHeld((DOMAIN in.occupied \cup StartedRefs)')) = st'.usedQAE
        /\ Cardinality(QAEHeld(DOMAIN in.occupied \cup StartedRefs)) = st.usedQAE
    BY <1>2, <1>3 DEF Accounts
  <2>2. st.usedQAE \in Nat /\ QAEConcurrency \in Nat
    BY <1>2, PlannerAssumption DEF TypeOK
  <2>3. CASE KindOf[k] = QAEKind
    BY <1>1, <1>5, <2>1, <2>2, <2>3
  <2>4. CASE KindOf[k] # QAEKind
    <3>1. QAEHeld(StartedRefs) # {}
      BY <1>1, <1>7, <2>4 DEF QAEHeld
    <3> QED
      BY <1>1, <1>2, <2>1, <2>4, <3>1 DEF BudgetKept
  <2> QED
    BY <2>3, <2>4
<1> QED
  BY <1>6, <1>7 DEF BudgetKept

\* The starts of a round are among the instances taken, so they are finitely many.
LEMMA StartedFinite ==
    ASSUME IInv
    PROVE  StartedRefs \in SUBSET Refs /\ IsFiniteSet(StartedRefs) /\ StartedRefs \subseteq st.taken
<1>1. StartedRefs \subseteq st.taken /\ IsFiniteSet(st.taken)
  BY DEF IInv, Accounts
<1>2. st.taken \subseteq Refs
  BY DEF IInv, TypeOK
<1> QED
  BY <1>1, <1>2, FS_Subset

\* A start adds its container to the memory planned, and it passed the check
\* against the memory planned before: nothing wrapped.
LEMMA StartPlanned ==
    ASSUME IInv, NEW k \in SetKeys, Start(k)
    PROVE  Planned'
<1>1. PICK ref \in Refs :
        /\ ref[1] = KindOf[k] /\ ref \notin st.taken /\ in' = in
        /\ st'.planned = st.planned + ContainerBytes[KindOf[k]]
        /\ StartedRefs' = StartedRefs \cup {ref}
  BY StartFacts
<1>2. st.planned = StartingBytes(in) + Bytes(StartedRefs)
  BY DEF IInv, Planned
<1>3. Bytes(StartedRefs \cup {ref}) = Bytes(StartedRefs) + ContainerBytes[KindOf[k]]
  <2>1. ref \notin StartedRefs
    BY <1>1, StartedFinite
  <2> QED
    BY <1>1, <2>1, StartedFinite, OneMoreBytes
<1>4. /\ StartingBytes(in) \in Nat /\ Bytes(StartedRefs) \in Nat /\ ContainerBytes[KindOf[k]] \in Nat
      /\ ReserveBytes \in Nat /\ Word \in Nat /\ st.planned \in Nat
      /\ in.mem \in Nat /\ in.mem < Word
  <2>1. StartingBytes(in) \in Nat
    BY StartingType DEF IInv, TypeOK, IsPlanInput
  <2>2. Bytes(StartedRefs) \in Nat
    BY StartedFinite, BytesType
  <2>3. ContainerBytes[KindOf[k]] \in Nat /\ ReserveBytes \in Nat /\ Word \in Nat
    BY PlannerAssumption
  <2>4. st.planned \in Nat
    BY DEF IInv, TypeOK
  <2>5. in.mem \in 0 .. Word - 1
    BY DEF IInv, TypeOK, IsPlanInput
  <2> QED
    BY <2>1, <2>2, <2>3, <2>4, <2>5
<1>5. in.mem >= st.planned /\ in.mem - st.planned >= ContainerBytes[KindOf[k]] + ReserveBytes
  <2>1. ~MemoryShort(in, st, KindOf[k])
    BY DEF Start, MayStart
  <2>2. in.mem >= st.planned
    BY <1>4, <2>1 DEF MemoryShort
  <2>3. WordMinus(in.mem, st.planned) = in.mem - st.planned
    BY <1>4, <2>2 DEF WordMinus
  <2> QED
    BY <1>4, <2>1, <2>2, <2>3 DEF MemoryShort
<1>6. st'.planned + ReserveBytes <= in'.mem
  BY <1>1, <1>4, <1>5
<1>7. st'.planned = StartingBytes(in) + Bytes(StartedRefs \cup {ref})
  <2> DEFINE a == StartingBytes(in)
             b == Bytes(StartedRefs)
             c == ContainerBytes[KindOf[k]]
  <2>1. \A x, y, z \in Nat : (x + y) + z = x + (y + z)
    OBVIOUS
  <2>2. a \in Nat /\ b \in Nat /\ c \in Nat
    BY <1>4
  <2>3. st'.planned = (a + b) + c /\ Bytes(StartedRefs \cup {ref}) = b + c
    BY <1>1, <1>2, <1>3
  <2> HIDE DEF a, b, c
  <2>4. st'.planned = a + Bytes(StartedRefs \cup {ref})
    BY <2>1, <2>2, <2>3
  <2> QED
    BY <2>4 DEF a
<1>8. StartingBytes(in)' = StartingBytes(in)
  BY <1>1
<1>9. Bytes(StartedRefs)' = Bytes(StartedRefs \cup {ref})
  BY <1>1
<1> QED
  BY <1>6, <1>7, <1>8, <1>9 DEF Planned

\* A start takes an instance no other start of the round has.
LEMMA StartInstances ==
    ASSUME IInv, NEW k \in SetKeys, Start(k)
    PROVE  InstancesKept'
<1>1. PICK ref \in Refs :
        /\ ref[1] = KindOf[k] /\ ref[2] \in 1 .. Instances[ref[1]]
        /\ ref \notin st.taken /\ ref \notin in.missing /\ in' = in
        /\ st'.starts = st.starts \cup {[set |-> k, ref |-> ref]}
  BY StartFacts
<1>2. InstancesKept /\ Accounts
  BY DEF IInv
<1>3. ref \notin DOMAIN in.occupied /\ \A s \in st.starts : s.ref # ref
  BY <1>1, <1>2 DEF Accounts, StartedRefs
<1>4. ASSUME NEW s \in st'.starts
      PROVE  /\ s.ref[1] = KindOf[s.set] /\ s.ref[2] \in 1 .. Instances[s.ref[1]]
             /\ s.ref \notin DOMAIN in.occupied /\ s.ref \notin in.missing
             /\ \A u \in st'.starts : u.ref = s.ref => u = s
  <2>1. CASE s \in st.starts
    BY <1>1, <1>2, <1>3, <2>1 DEF InstancesKept
  <2>2. CASE s = [set |-> k, ref |-> ref]
    BY <1>1, <1>3, <2>2
  <2> QED
    BY <1>1, <1>4, <2>1, <2>2
<1> QED
  BY <1>1, <1>4 DEF InstancesKept

\* Every check only tightens, so a start lets no refused set in again.
LEMMA StartRefusals ==
    ASSUME IInv, NEW k \in SetKeys, Start(k)
    PROVE  RefusalsStand'
<1>1. PICK ref \in Refs :
        /\ in' = in
        /\ st'.taken = st.taken \cup {ref}
        /\ st'.used = [st.used EXCEPT ![BudgetOf(KindOf[k])] = @ + 1]
        /\ st'.usedQAE = IF KindOf[k] = QAEKind THEN st.usedQAE + 1 ELSE st.usedQAE
        /\ st'.planned = st.planned + ContainerBytes[KindOf[k]]
        /\ st'.refused = st.refused
  BY StartFacts
<1>2. TypeOK /\ RefusalsStand
  BY DEF IInv
<1> SUFFICES ASSUME NEW l \in st.refused, MayStart(in, st', KindOf[l])
             PROVE  FALSE
  BY <1>1 DEF RefusalsStand
<1> DEFINE kind == KindOf[l]
<1>3. /\ l \in SetKeys /\ kind \in Kinds /\ BudgetOf(kind) \in Budgets
      /\ SlotsOf(kind) \in Nat /\ QAEConcurrency \in Nat /\ ReserveBytes \in Nat
      /\ ContainerBytes[kind] \in Nat /\ ContainerBytes[KindOf[k]] \in Nat /\ Word \in Nat
  BY <1>2, BudgetTypes, PlannerAssumption DEF TypeOK
<1>4. UsableInstances(in, st, kind) # {}
  BY <1>1 DEF MayStart, UsableInstances, FreeInstances
<1>5. st.used[BudgetOf(kind)] < SlotsOf(kind)
  <2>1. st.used[BudgetOf(kind)] <= st'.used[BudgetOf(kind)]
    BY <1>1, <1>2, <1>3 DEF TypeOK
  <2>2. st.used[BudgetOf(kind)] \in Nat /\ st'.used[BudgetOf(kind)] \in Nat
    BY <1>1, <1>2, <1>3 DEF TypeOK
  <2> QED
    BY <1>3, <2>1, <2>2 DEF MayStart
<1>6. kind = QAEKind => st.usedQAE < QAEConcurrency
  BY <1>1, <1>2, <1>3 DEF MayStart, TypeOK
<1>7. ~ MemoryShort(in, st, kind)
  <2>1. /\ in.mem \in Nat /\ st.planned \in Nat /\ st'.planned \in Nat
        /\ st.planned <= st'.planned
    BY <1>1, <1>2, <1>3 DEF TypeOK, IsPlanInput
  <2>2. ~ MemoryShort(in, st', kind)
    BY DEF MayStart
  <2> QED
    BY <1>3, <2>1, <2>2 DEF MemoryShort, WordMinus
<1> QED
  BY <1>2, <1>4, <1>5, <1>6, <1>7 DEF RefusalsStand, MayStart

\* A refusal keeps the invariant: it gives up demand and nothing else.
LEMMA RefuseIInv ==
    ASSUME IInv, NEW k \in SetKeys, Refuse(k)
    PROVE  IInv'
<1>1. TypeOK /\ Accounts /\ Planned /\ BudgetKept /\ InstancesKept /\ RefusalsStand
  BY DEF IInv
<1>2. /\ in' = in
      /\ st'.taken = st.taken /\ st'.used = st.used /\ st'.usedQAE = st.usedQAE
      /\ st'.planned = st.planned /\ st'.starts = st.starts
      /\ st'.refused = st.refused \cup {k}
      /\ StartedRefs' = StartedRefs
  BY RefuseFacts
<1>3. TypeOK'
  <2>1. [st.want EXCEPT ![k] = [t \in Tiers |-> 0]] \in [SetKeys -> [Tiers -> Nat]]
    BY <1>1 DEF TypeOK
  <2>2. st' = [st EXCEPT !.want = [st.want EXCEPT ![k] = [t \in Tiers |-> 0]],
                         !.refused = st.refused \cup {k}]
    BY DEF Refuse, RefuseSet
  <2> QED
    BY <1>1, <1>2, <2>1, <2>2 DEF TypeOK
<1>4. Accounts'
  BY <1>1, <1>2 DEF Accounts
<1>5. BudgetKept'
  BY <1>1, <1>2 DEF BudgetKept
<1>6. InstancesKept'
  BY <1>1, <1>2 DEF InstancesKept
<1>7. RefusalsStand'
  <2>1. \A l : MayStart(in', st', KindOf[l]) <=> MayStart(in, st, KindOf[l])
    BY <1>2 DEF MayStart, UsableInstances, FreeInstances, MemoryShort
  <2>2. ~ MayStart(in, st, KindOf[k])
    BY DEF Refuse
  <2> QED
    BY <1>1, <1>2, <2>1, <2>2 DEF RefusalsStand
<1>8. Planned'
  BY <1>1, <1>2 DEF Planned
<1> QED
  BY <1>3, <1>4, <1>5, <1>6, <1>7, <1>8 DEF IInv

\* Every turn keeps the invariant.
LEMMA NextIInv == IInv /\ [Next]_vars => IInv'
<1> SUFFICES ASSUME IInv, [Next]_vars PROVE IInv'
  OBVIOUS
<1>1. ASSUME NEW k \in SetKeys, Start(k) PROVE IInv'
  BY <1>1, StartType, StartAccounts, StartPlanned, StartBudget, StartInstances, StartRefusals DEF IInv
<1>2. ASSUME NEW k \in SetKeys, Refuse(k) PROVE IInv'
  BY <1>2, RefuseIInv
<1>3. CASE UNCHANGED vars
  BY <1>3 DEF vars, IInv, TypeOK, Accounts, Planned, BudgetKept, InstancesKept, RefusalsStand,
              StartedRefs, MayStart, UsableInstances, FreeInstances, MemoryShort
<1> QED
  BY <1>1, <1>2, <1>3 DEF Next

------------------------------------------------------------------------------
(* Sums of demands *)

Demands == [SetKeys -> [Tiers -> Nat]]

JobsOf(s) == [k \in SetKeys |-> s.want[k]["job"]]

JobBytesOf(s) == [k \in SetKeys |-> s.want[k]["job"] * ContainerBytes[KindOf[k]]]

IsJobSum(f, s, K) ==
    f = [T \in SUBSET K |-> IF T = {} THEN 0 ELSE s.want[OneOf(T)]["job"] + f[T \ {OneOf(T)}]]

IsJobBytesSum(f, s, K) ==
    f = [T \in SUBSET K |-> IF T = {} THEN 0
                            ELSE s.want[OneOf(T)]["job"] * ContainerBytes[KindOf[OneOf(T)]]
                                   + f[T \ {OneOf(T)}]]

\* The jobs a set of sets still wants are such a sum,
LEMMA JobsTotal ==
    ASSUME NEW s, NEW K \in SUBSET SetKeys
    PROVE  JobsWanted(s, K) = Total(JobsOf(s), K)
<1>1. JobsWanted(s, K) = (CHOOSE f : IsJobSum(f, s, K))[K]
  BY DEF JobsWanted, MapThenSumSet, MapThenFoldSet, IsJobSum, OneOf
<1>2. ASSUME NEW f PROVE IsJobSum(f, s, K) <=> IsTotal(f, JobsOf(s), K)
  <2>1. \A T \in SUBSET K : T # {} => JobsOf(s)[OneOf(T)] = s.want[OneOf(T)]["job"]
    BY DEF JobsOf, OneOf
  <2> QED
    BY <2>1 DEF IsJobSum, IsTotal
<1>3. (CHOOSE f : IsJobSum(f, s, K)) = (CHOOSE f : IsTotal(f, JobsOf(s), K))
  BY <1>2
<1> QED
  BY <1>1, <1>3 DEF Total

\* and so is the memory they need.
LEMMA JobsBytesTotal ==
    ASSUME NEW s
    PROVE  JobsBytes(s) = Total(JobBytesOf(s), SetKeys)
<1>1. JobsBytes(s) = (CHOOSE f : IsJobBytesSum(f, s, SetKeys))[SetKeys]
  BY DEF JobsBytes, MapThenSumSet, MapThenFoldSet, IsJobBytesSum, OneOf
<1>2. ASSUME NEW f PROVE IsJobBytesSum(f, s, SetKeys) <=> IsTotal(f, JobBytesOf(s), SetKeys)
  <2>1. \A T \in SUBSET SetKeys :
          T # {} => JobBytesOf(s)[OneOf(T)] = s.want[OneOf(T)]["job"] * ContainerBytes[KindOf[OneOf(T)]]
    BY DEF JobBytesOf, OneOf
  <2> QED
    BY <2>1 DEF IsJobBytesSum, IsTotal
<1>3. (CHOOSE f : IsJobBytesSum(f, s, SetKeys)) = (CHOOSE f : IsTotal(f, JobBytesOf(s), SetKeys))
  BY <1>2
<1> QED
  BY <1>1, <1>3 DEF Total

LEMMA DemandCounts ==
    ASSUME NEW s, s.want \in Demands, NEW K \in SUBSET SetKeys
    PROVE  Counts(JobsOf(s), K) /\ Counts(JobBytesOf(s), K) /\ IsFiniteSet(K)
<1>1. \A k \in SetKeys : s.want[k]["job"] \in Nat
  BY DEF Demands, Tiers
<1>2. \A k \in SetKeys : ContainerBytes[KindOf[k]] \in Nat
  BY PlannerAssumption
<1>3. \A a, b \in Nat : a * b \in Nat
  OBVIOUS
<1>4. \A k \in SetKeys : s.want[k]["job"] * ContainerBytes[KindOf[k]] \in Nat
  BY <1>1, <1>2, <1>3
<1> QED
  BY <1>1, <1>4, PlannerAssumption, FS_Subset DEF Counts, JobsOf, JobBytesOf

\* A sum of demands is a number, no less than each of them; none is left when none wants a job.
LEMMA JobsSum ==
    ASSUME NEW s, s.want \in Demands, NEW K \in SUBSET SetKeys
    PROVE  /\ JobsWanted(s, K) \in Nat
           /\ \A k \in K : s.want[k]["job"] <= JobsWanted(s, K)
           /\ (\A k \in K : s.want[k]["job"] = 0) => JobsWanted(s, K) = 0
<1>1. Counts(JobsOf(s), K) /\ IsFiniteSet(K) /\ JobsWanted(s, K) = Total(JobsOf(s), K)
  BY DemandCounts, JobsTotal
<1>2. \A k \in K : JobsOf(s)[k] = s.want[k]["job"]
  BY DEF JobsOf
<1>3. Total(JobsOf(s), K) \in Nat
  BY <1>1, TotalType
<1>4. \A k \in K : JobsOf(s)[k] <= Total(JobsOf(s), K)
  BY <1>1, TotalTakes
<1>5. (\A k \in K : JobsOf(s)[k] = 0) => Total(JobsOf(s), K) = 0
  BY <1>1, TotalOfZeros
<1> QED
  BY <1>1, <1>2, <1>3, <1>4, <1>5

LEMMA JobsBytesSum ==
    ASSUME NEW s, s.want \in Demands
    PROVE  /\ JobsBytes(s) \in Nat
           /\ \A k \in SetKeys : s.want[k]["job"] * ContainerBytes[KindOf[k]] <= JobsBytes(s)
           /\ (\A k \in SetKeys : s.want[k]["job"] = 0) => JobsBytes(s) = 0
<1>1. Counts(JobBytesOf(s), SetKeys) /\ IsFiniteSet(SetKeys) /\ JobsBytes(s) = Total(JobBytesOf(s), SetKeys)
  BY DemandCounts, JobsBytesTotal
<1>2. \A k \in SetKeys : JobBytesOf(s)[k] = s.want[k]["job"] * ContainerBytes[KindOf[k]]
  BY DEF JobBytesOf
<1>3. Total(JobBytesOf(s), SetKeys) \in Nat
  BY <1>1, TotalType
<1>4. \A k \in SetKeys : JobBytesOf(s)[k] <= Total(JobBytesOf(s), SetKeys)
  BY <1>1, TotalTakes
<1>5. (\A k \in SetKeys : JobBytesOf(s)[k] = 0) => Total(JobBytesOf(s), SetKeys) = 0
  BY <1>1, TotalOfZeros
<1>6. \A k \in SetKeys : ContainerBytes[KindOf[k]] \in Nat
  BY PlannerAssumption
<1> QED
  BY <1>1, <1>2, <1>3, <1>4, <1>5, <1>6

\* When one set's demand changes, a sum it is in changes by as much, and no other sum does.
LEMMA JobsDiffer ==
    ASSUME NEW s, NEW u, s.want \in Demands, u.want \in Demands, NEW k \in SetKeys,
           \A l \in SetKeys \ {k} : u.want[l]["job"] = s.want[l]["job"], NEW K \in SUBSET SetKeys
    PROVE  /\ k \in K => JobsWanted(u, K) + s.want[k]["job"] = JobsWanted(s, K) + u.want[k]["job"]
           /\ k \notin K => JobsWanted(u, K) = JobsWanted(s, K)
<1>1. /\ Counts(JobsOf(s), K) /\ IsFiniteSet(K) /\ JobsWanted(s, K) = Total(JobsOf(s), K)
      /\ Counts(JobsOf(u), K) /\ JobsWanted(u, K) = Total(JobsOf(u), K)
  BY DemandCounts, JobsTotal
<1>2. \A l \in SetKeys : JobsOf(s)[l] = s.want[l]["job"] /\ JobsOf(u)[l] = u.want[l]["job"]
  BY DEF JobsOf
<1>3. \A l \in K \ {k} : JobsOf(s)[l] = JobsOf(u)[l]
  BY <1>2
<1>4. CASE k \in K
  <2>1. Total(JobsOf(s), K) + JobsOf(u)[k] = Total(JobsOf(u), K) + JobsOf(s)[k]
    BY <1>1, <1>3, <1>4, TotalDiffers
  <2> QED
    BY <1>1, <1>2, <1>4, <2>1
<1>5. CASE k \notin K
  <2>1. \A l \in K : JobsOf(s)[l] = JobsOf(u)[l]
    BY <1>3, <1>5
  <2> QED
    BY <1>1, <1>5, <2>1, TotalSame
<1> QED
  BY <1>4, <1>5

LEMMA JobsBytesDiffer ==
    ASSUME NEW s, NEW u, s.want \in Demands, u.want \in Demands, NEW k \in SetKeys,
           \A l \in SetKeys \ {k} : u.want[l]["job"] = s.want[l]["job"]
    PROVE  JobsBytes(u) + s.want[k]["job"] * ContainerBytes[KindOf[k]]
             = JobsBytes(s) + u.want[k]["job"] * ContainerBytes[KindOf[k]]
<1>1. /\ Counts(JobBytesOf(s), SetKeys) /\ IsFiniteSet(SetKeys)
      /\ JobsBytes(s) = Total(JobBytesOf(s), SetKeys)
      /\ Counts(JobBytesOf(u), SetKeys) /\ JobsBytes(u) = Total(JobBytesOf(u), SetKeys)
  BY DemandCounts, JobsBytesTotal
<1>2. \A l \in SetKeys : /\ JobBytesOf(s)[l] = s.want[l]["job"] * ContainerBytes[KindOf[l]]
                         /\ JobBytesOf(u)[l] = u.want[l]["job"] * ContainerBytes[KindOf[l]]
  BY DEF JobBytesOf
<1>3. \A l \in SetKeys \ {k} : JobBytesOf(s)[l] = JobBytesOf(u)[l]
  BY <1>2
<1>4. Total(JobBytesOf(s), SetKeys) + JobBytesOf(u)[k] = Total(JobBytesOf(u), SetKeys) + JobBytesOf(s)[k]
  BY <1>1, <1>3, TotalDiffers
<1> QED
  BY <1>1, <1>2, <1>4

------------------------------------------------------------------------------
(* What the round's demands become *)

\* A set wants what it lacks, and nothing once refused.
Shares ==
    \A k \in SetKeys :
        /\ k \notin in.known \/ k \in st.refused => st.want[k]["job"] = 0 /\ st.want[k]["warm"] = 0
        /\ k \in in.known /\ k \notin st.refused =>
              /\ st.want[k]["job"] = Positive(JobTarget(k) - st.active[k])
              /\ st.want[k]["job"] + st.want[k]["warm"] = Positive(Desired(in, k) - st.active[k])
        /\ GotStart(k) => st.active[k] <= Desired(in, k)

\* No set is ahead of one of its kind that is left short, but for jobs the other does not have.
Evenly ==
    \A k, l \in in.known :
        /\ KindOf[k] = KindOf[l] /\ k # l
        /\ GotStart(k) /\ st.active[l] < Desired(in, l)
        => \/ st.active[k] <= st.active[l] + 1
           \/ st.active[k] <= JobTarget(k) /\ JobTarget(l) <= st.active[l]

\* Where all jobs fitted, those left still fit, and no set with one was refused.
FitsStill ==
    JobsFit => /\ FitsIn(st)
               /\ \A k \in st.refused : JobTarget(k) <= st.active[k]

DInv == Shares /\ Evenly /\ FitsStill

LEMMA Targets ==
    ASSUME TypeOK, NEW k \in SetKeys
    PROVE  JobTarget(k) \in Nat /\ Desired(in, k) \in Nat /\ JobTarget(k) <= Desired(in, k)
<1>1. in.minimum[k] \in Nat /\ in.assigned[k] \in Nat
  BY DEF TypeOK, IsPlanInput
<1>2. SlotsOf(KindOf[k]) \in Nat
  BY BudgetTypes, PlannerAssumption
<1> QED
  BY <1>1, <1>2 DEF JobTarget, Desired, Least

\* What a start changes of the demands: one is met, of the first tier that has any.
LEMMA StartDemand ==
    ASSUME IInv, NEW k \in SetKeys, Start(k)
    PROVE  /\ in' = in /\ st'.refused = st.refused
           /\ \A l : GotStart(l)' <=> GotStart(l) \/ l = k
           /\ st.want \in Demands /\ st'.want \in Demands
           /\ st.active \in [SetKeys -> Nat] /\ st'.active \in [SetKeys -> Nat]
           /\ \A l \in SetKeys \ {k} : st'.want[l] = st.want[l] /\ st'.active[l] = st.active[l]
           /\ st'.active[k] = st.active[k] + 1
           /\ \/ /\ Wanting(st, "job") # {} /\ st.want[k]["job"] > 0
                 /\ st'.want[k]["job"] = st.want[k]["job"] - 1
                 /\ st'.want[k]["warm"] = st.want[k]["warm"]
                 /\ \A l \in SetKeys : st.want[l]["job"] > 0 => st.active[k] <= st.active[l]
              \/ /\ \A l \in SetKeys : st.want[l]["job"] = 0
                 /\ st.want[k]["warm"] > 0
                 /\ st'.want[k]["warm"] = st.want[k]["warm"] - 1
                 /\ st'.want[k]["job"] = st.want[k]["job"]
                 /\ \A l \in SetKeys : st.want[l]["warm"] > 0 => st.active[k] <= st.active[l]
<1> DEFINE t == TierOf(st)
<1>1. TypeOK /\ TypeOK'
  BY StartType DEF IInv
<1>2. /\ st.want \in Demands /\ st'.want \in Demands
      /\ st.active \in [SetKeys -> Nat] /\ st'.active \in [SetKeys -> Nat]
  BY <1>1 DEF TypeOK, Demands
<1>3. /\ in' = in
      /\ st'.want = [st.want EXCEPT ![k] = [st.want[k] EXCEPT ![t] = @ - 1]]
      /\ st'.active = [st.active EXCEPT ![k] = @ + 1]
      /\ st'.refused = st.refused
  BY DEF Start, StartOne, IInv, TypeOK
<1>4. \A l : GotStart(l)' <=> GotStart(l) \/ l = k
  <2>1. PICK ref : st'.starts = st.starts \cup {[set |-> k, ref |-> ref]}
    BY StartFacts
  <2> DEFINE new == [set |-> k, ref |-> ref]
  <2>2. new.set = k
    OBVIOUS
  <2> HIDE DEF new
  <2>3. st'.starts = st.starts \cup {new}
    BY <2>1 DEF new
  <2>4. \A l : (\E x \in st'.starts : x.set = l) <=> (\E x \in st.starts : x.set = l) \/ l = k
    BY <2>2, <2>3
  <2> QED
    BY <2>4 DEF GotStart
<1>5. t \in Tiers /\ st.want[k][t] > 0
  BY DEF Start, Neediest, Wanting, TierOf, Tiers
<1>6. \A l \in SetKeys : st.want[l][t] > 0 => st.active[k] <= st.active[l]
  <2> SUFFICES ASSUME NEW l \in SetKeys, st.want[l][t] > 0 PROVE st.active[k] <= st.active[l]
    OBVIOUS
  <2>1. l = k \/ st.active[k] < st.active[l] \/ st.active[k] = st.active[l]
    BY DEF Start, Neediest, Wanting
  <2> QED
    BY <1>2, <2>1
<1>7. \A l \in SetKeys, u \in Tiers : st.want[l][u] \in Nat
  BY <1>2 DEF Demands
<1>8. CASE t = "job"
  <2>1. Wanting(st, "job") # {} /\ st.want[k]["job"] > 0
    BY <1>5, <1>8 DEF Wanting
  <2>2. st'.want[k]["job"] = st.want[k]["job"] - 1 /\ st'.want[k]["warm"] = st.want[k]["warm"]
    BY <1>2, <1>3, <1>8 DEF Demands, Tiers
  <2>3. \A l \in SetKeys : st.want[l]["job"] > 0 => st.active[k] <= st.active[l]
    BY <1>6, <1>8
  <2> HIDE DEF t
  <2>4. \A l \in SetKeys \ {k} : st'.want[l] = st.want[l] /\ st'.active[l] = st.active[l]
    BY <1>2, <1>3 DEF Demands
  <2>5. st'.active[k] = st.active[k] + 1
    BY <1>2, <1>3
  <2> QED
    BY <1>2, <1>3, <1>4, <2>1, <2>2, <2>3, <2>4, <2>5
<1>9. CASE t = "warm"
  <2>0. Wanting(st, "job") = {} /\ "job" \in Tiers
    BY <1>9 DEF TierOf, Tiers
  <2>1. \A l \in SetKeys : st.want[l]["job"] = 0
    BY <1>7, <2>0 DEF Wanting
  <2>2. /\ st'.want[k]["warm"] = st.want[k]["warm"] - 1 /\ st'.want[k]["job"] = st.want[k]["job"]
        /\ st.want[k]["warm"] > 0
    BY <1>2, <1>3, <1>5, <1>9 DEF Demands, Tiers
  <2>3. \A l \in SetKeys : st.want[l]["warm"] > 0 => st.active[k] <= st.active[l]
    BY <1>6, <1>9
  <2> HIDE DEF t
  <2>4. \A l \in SetKeys \ {k} : st'.want[l] = st.want[l] /\ st'.active[l] = st.active[l]
    BY <1>2, <1>3 DEF Demands
  <2>5. st'.active[k] = st.active[k] + 1
    BY <1>2, <1>3
  <2> QED
    BY <1>2, <1>3, <1>4, <2>1, <2>2, <2>3, <2>4, <2>5
<1> QED
  BY <1>5, <1>8, <1>9 DEF Tiers

LEMMA RefuseDemand ==
    ASSUME IInv, NEW k \in SetKeys, Refuse(k)
    PROVE  /\ in' = in /\ st'.refused = st.refused \cup {k}
           /\ \A l : GotStart(l)' <=> GotStart(l)
           /\ st.want \in Demands /\ st'.want \in Demands
           /\ st.active \in [SetKeys -> Nat] /\ st'.active = st.active
           /\ \A l \in SetKeys \ {k} : st'.want[l] = st.want[l]
           /\ st'.want[k]["job"] = 0 /\ st'.want[k]["warm"] = 0
<1>1. TypeOK /\ TypeOK'
  BY RefuseIInv DEF IInv
<1>2. st'.starts = st.starts
  BY RefuseFacts
<1>3. \A l : GotStart(l)' <=> GotStart(l)
  BY <1>2 DEF GotStart
<1>4. st.want \in Demands /\ st'.want \in Demands /\ st.active \in [SetKeys -> Nat]
  BY <1>1 DEF TypeOK, Demands
<1>5. /\ in' = in /\ st'.refused = st.refused \cup {k} /\ st'.active = st.active
      /\ st'.want = [st.want EXCEPT ![k] = [t \in Tiers |-> 0]]
  BY DEF Refuse, RefuseSet, IInv, TypeOK
<1>6. st'.want[k]["job"] = 0 /\ st'.want[k]["warm"] = 0
  BY <1>4, <1>5 DEF Demands, Tiers
<1>7. \A l \in SetKeys \ {k} : st'.want[l] = st.want[l]
  BY <1>4, <1>5 DEF Demands
<1> QED
  BY <1>3, <1>4, <1>5, <1>6, <1>7

\* The loop's demands before its first turn are what the sets lack.
LEMMA InitShares == Init => Shares /\ Evenly
<1> SUFFICES ASSUME Init PROVE Shares /\ Evenly
  OBVIOUS
<1>1. TypeOK
  BY InitType
<1>2. /\ \A k : ~ GotStart(k)
      /\ st.refused = {}
      /\ st.want = [k \in SetKeys |-> Wants(in, k)]
      /\ st.active = [k \in SetKeys |-> ActiveSlots(in, k)]
  BY DEF Init, BeforeStarts, GotStart
<1>3. ASSUME NEW k \in SetKeys
      PROVE  /\ k \notin in.known => st.want[k]["job"] = 0 /\ st.want[k]["warm"] = 0
             /\ k \in in.known =>
                  /\ st.want[k]["job"] = Positive(JobTarget(k) - st.active[k])
                  /\ st.want[k]["job"] + st.want[k]["warm"] = Positive(Desired(in, k) - st.active[k])
  <2> DEFINE J == JobTarget(k)
             D == Desired(in, k)
             a == ActiveSlots(in, k)
  <2>1. J \in Nat /\ D \in Nat /\ J <= D /\ a \in Nat
    BY <1>1, Targets, WantsType DEF TypeOK
  <2>2. Wants(in, k) = [t \in Tiers |-> IF k \notin in.known \/ D - a <= 0 THEN 0
                                       ELSE IF t = "job" THEN Positive(J - a) ELSE D - a - Positive(J - a)]
    BY DEF Wants, JobTarget
  <2>3. st.want[k] = Wants(in, k) /\ st.active[k] = a
    BY <1>2
  <2> HIDE DEF J, D, a
  <2>4. /\ st.want[k]["job"] = IF k \notin in.known \/ D - a <= 0 THEN 0 ELSE Positive(J - a)
        /\ st.want[k]["warm"] = IF k \notin in.known \/ D - a <= 0 THEN 0 ELSE D - a - Positive(J - a)
    BY <2>2, <2>3 DEF Tiers
  <2>5. k \in in.known => /\ st.want[k]["job"] = Positive(J - a)
                          /\ st.want[k]["job"] + st.want[k]["warm"] = Positive(D - a)
    BY <2>1, <2>4 DEF Positive
  <2> QED
    BY <2>3, <2>4, <2>5 DEF J, D
<1> QED
  BY <1>2, <1>3 DEF Shares, Evenly

LEMMA StartShares ==
    ASSUME IInv, Shares, NEW k \in SetKeys, Start(k)
    PROVE  Shares'
<1>1. TypeOK
  BY DEF IInv
<1>2. in' = in /\ st'.refused = st.refused /\ \A l : GotStart(l)' <=> GotStart(l) \/ l = k
  BY StartDemand
<1>3. \A l \in SetKeys \ {k} : st'.want[l] = st.want[l] /\ st'.active[l] = st.active[l]
  BY StartDemand
<1>4. k \in in.known /\ k \notin st.refused
  BY StartDemand DEF Shares
<1>5. /\ st'.want[k]["job"] = Positive(JobTarget(k) - st'.active[k])
      /\ st'.want[k]["job"] + st'.want[k]["warm"] = Positive(Desired(in, k) - st'.active[k])
      /\ st'.active[k] <= Desired(in, k)
  <2> DEFINE J == JobTarget(k)
             D == Desired(in, k)
             a == st.active[k]
             j == st.want[k]["job"]
             w == st.want[k]["warm"]
  <2>1. J \in Nat /\ D \in Nat /\ J <= D
    BY <1>1, Targets
  <2>2. a \in Nat /\ j \in Nat /\ w \in Nat
    BY <1>1 DEF TypeOK, Tiers
  <2>3. j = Positive(J - a) /\ j + w = Positive(D - a)
    BY <1>4 DEF Shares
  <2>4. st'.active[k] = a + 1
    BY StartDemand
  <2>5. \/ j > 0 /\ st'.want[k]["job"] = j - 1 /\ st'.want[k]["warm"] = w
        \/ j = 0 /\ w > 0 /\ st'.want[k]["warm"] = w - 1 /\ st'.want[k]["job"] = j
    BY StartDemand
  <2> HIDE DEF J, D, a, j, w
  <2>6. /\ st'.want[k]["job"] = Positive(J - (a + 1))
        /\ st'.want[k]["job"] + st'.want[k]["warm"] = Positive(D - (a + 1))
        /\ a + 1 <= D
    BY <2>1, <2>2, <2>3, <2>5 DEF Positive
  <2> QED
    BY <2>4, <2>6 DEF J, D
<1>6. \A l \in SetKeys : JobTarget(l)' = JobTarget(l) /\ Desired(in, l)' = Desired(in, l)
  BY <1>2 DEF JobTarget
<1> SUFFICES ASSUME NEW l \in SetKeys
             PROVE  /\ l \notin in.known \/ l \in st.refused => st'.want[l]["job"] = 0 /\ st'.want[l]["warm"] = 0
                    /\ l \in in.known /\ l \notin st.refused =>
                          /\ st'.want[l]["job"] = Positive(JobTarget(l) - st'.active[l])
                          /\ st'.want[l]["job"] + st'.want[l]["warm"] = Positive(Desired(in, l) - st'.active[l])
                    /\ GotStart(l)' => st'.active[l] <= Desired(in, l)
  BY <1>2, <1>6 DEF Shares
<1>7. CASE l = k
  BY <1>4, <1>5, <1>7
<1>8. CASE l # k
  BY <1>2, <1>3, <1>8 DEF Shares
<1> QED
  BY <1>7, <1>8

LEMMA RefuseShares ==
    ASSUME IInv, Shares, NEW k \in SetKeys, Refuse(k)
    PROVE  Shares'
<1>1. /\ in' = in /\ st'.refused = st.refused \cup {k} /\ st'.active = st.active
      /\ \A l : GotStart(l)' <=> GotStart(l)
      /\ \A l \in SetKeys \ {k} : st'.want[l] = st.want[l]
      /\ st'.want[k]["job"] = 0 /\ st'.want[k]["warm"] = 0
  BY RefuseDemand
<1>2. \A l \in SetKeys : JobTarget(l)' = JobTarget(l) /\ Desired(in, l)' = Desired(in, l)
  BY <1>1 DEF JobTarget
<1> SUFFICES ASSUME NEW l \in SetKeys
             PROVE  /\ l \notin in.known \/ l \in st'.refused => st'.want[l]["job"] = 0 /\ st'.want[l]["warm"] = 0
                    /\ l \in in.known /\ l \notin st'.refused =>
                          /\ st'.want[l]["job"] = Positive(JobTarget(l) - st.active[l])
                          /\ st'.want[l]["job"] + st'.want[l]["warm"] = Positive(Desired(in, l) - st.active[l])
                    /\ GotStart(l) => st.active[l] <= Desired(in, l)
  BY <1>1, <1>2 DEF Shares
<1>3. CASE l = k
  BY <1>1, <1>3 DEF Shares
<1>4. CASE l # k
  BY <1>1, <1>4 DEF Shares
<1> QED
  BY <1>3, <1>4

\* The neediest set goes first, so none gets ahead of one of its kind that still wants a slot; and
\* one that was refused wants none, for its kind gets no more.
LEMMA StartEvenly ==
    ASSUME IInv, Shares, Evenly, NEW k \in SetKeys, Start(k)
    PROVE  Evenly'
<1>1. TypeOK /\ RefusalsStand
  BY DEF IInv
<1>2. /\ in' = in /\ st'.refused = st.refused
      /\ \A l : GotStart(l)' <=> GotStart(l) \/ l = k
      /\ st.active \in [SetKeys -> Nat] /\ st'.active[k] = st.active[k] + 1
      /\ \A l \in SetKeys \ {k} : st'.active[l] = st.active[l]
  BY StartDemand
<1>3. \A l \in SetKeys : JobTarget(l)' = JobTarget(l) /\ Desired(in, l)' = Desired(in, l)
  BY <1>2 DEF JobTarget
<1>4. in.known \subseteq SetKeys
  BY <1>1 DEF TypeOK, IsPlanInput
<1> SUFFICES ASSUME NEW m \in in.known, NEW l \in in.known, KindOf[m] = KindOf[l], m # l,
                    GotStart(m)', st'.active[l] < Desired(in, l)
             PROVE  \/ st'.active[m] <= st'.active[l] + 1
                    \/ st'.active[m] <= JobTarget(m) /\ JobTarget(l) <= st'.active[l]
  BY <1>2, <1>3, <1>4, Zenon DEF Evenly
<1>5. /\ st.active[m] \in Nat /\ st.active[l] \in Nat
      /\ JobTarget(m) \in Nat /\ JobTarget(l) \in Nat /\ Desired(in, l) \in Nat
      /\ JobTarget(l) <= Desired(in, l)
  BY <1>1, <1>2, <1>4, Targets
<1>6. CASE m = k
  <2>1. st'.active[l] = st.active[l] /\ st'.active[m] = st.active[m] + 1
    BY <1>2, <1>4, <1>6
  <2>2. l \notin st.refused
    BY <1>1, <1>6 DEF RefusalsStand, Start
  <2>3. /\ st.want[l]["job"] = Positive(JobTarget(l) - st.active[l])
        /\ st.want[l]["job"] + st.want[l]["warm"] = Positive(Desired(in, l) - st.active[l])
        /\ st.want[m]["job"] > 0 => st.want[m]["job"] = Positive(JobTarget(m) - st.active[m])
    BY <1>4, <2>2 DEF Shares
  <2>4. st.want[l]["job"] \in Nat /\ st.want[l]["warm"] \in Nat
    BY <1>1, <1>4 DEF TypeOK, Tiers
  <2>5. \/ /\ st.want[m]["job"] > 0
           /\ st.want[l]["job"] > 0 => st.active[m] <= st.active[l]
        \/ /\ st.want[l]["job"] = 0
           /\ st.want[l]["warm"] > 0 => st.active[m] <= st.active[l]
    BY <1>4, <1>6, StartDemand
  <2> QED
    BY <1>5, <2>1, <2>3, <2>4, <2>5 DEF Positive
<1>7. CASE m # k
  <2>1. st'.active[m] = st.active[m] /\ GotStart(m)
    BY <1>2, <1>4, <1>7
  <2>2. st.active[l] <= st'.active[l] /\ st'.active[l] \in Nat
    BY <1>2, <1>4
  <2>3. st.active[l] < Desired(in, l)
    BY <1>5, <2>2
  <2>4. \/ st.active[m] <= st.active[l] + 1
        \/ st.active[m] <= JobTarget(m) /\ JobTarget(l) <= st.active[l]
    BY <2>1, <2>3 DEF Evenly
  <2> QED
    BY <1>5, <2>1, <2>2, <2>4
<1> QED
  BY <1>6, <1>7

LEMMA RefuseEvenly ==
    ASSUME IInv, Evenly, NEW k \in SetKeys, Refuse(k)
    PROVE  Evenly'
<1>1. in' = in /\ st'.active = st.active /\ \A l : GotStart(l)' <=> GotStart(l)
  BY RefuseDemand
<1>2. \A l : JobTarget(l)' = JobTarget(l) /\ Desired(in, l)' = Desired(in, l)
  BY <1>1 DEF JobTarget
<1> QED
  BY <1>1, <1>2 DEF Evenly

\* A start takes one usable instance of its kind and none of another.
LEMMA UsableCount ==
    ASSUME NEW s, NEW kind \in Kinds
    PROVE  /\ IsFiniteSet(UsableInstances(in, s, kind))
           /\ Cardinality(UsableInstances(in, s, kind)) \in Nat
           /\ UsableInstances(in, s, kind) = {} <=> Cardinality(UsableInstances(in, s, kind)) = 0
<1>1. Instances[kind] \in Nat
  BY PlannerAssumption
<1>2. IsFiniteSet(1 .. Instances[kind])
  BY <1>1, FS_Interval
<1>3. IsFiniteSet(UsableInstances(in, s, kind))
  BY <1>2, FS_Subset DEF UsableInstances, FreeInstances
<1> QED
  BY <1>3, FS_CardinalityType, FS_EmptySet

LEMMA StartUsable ==
    ASSUME IInv, NEW k \in SetKeys, Start(k), NEW kind \in Kinds
    PROVE  Cardinality(UsableInstances(in', st', kind)) =
             IF kind = KindOf[k] THEN Cardinality(UsableInstances(in, st, kind)) - 1
             ELSE Cardinality(UsableInstances(in, st, kind))
<1>1. PICK ref \in Refs :
        /\ ref[1] = KindOf[k] /\ ref[2] \in 1 .. Instances[ref[1]]
        /\ ref \notin st.taken /\ ref \notin in.missing
        /\ in' = in /\ st'.taken = st.taken \cup {ref}
  BY StartFacts
<1>2. ref = <<KindOf[k], ref[2]>>
  <2>1. PICK q \in Kinds : ref \in {q} \X (1 .. SlotsOf(q))
    BY DEF Refs
  <2> QED
    BY <1>1, <2>1
<1>3. UsableInstances(in', st', kind) = {n \in UsableInstances(in, st, kind) : <<kind, n>> # ref}
  BY <1>1 DEF UsableInstances, FreeInstances
<1>4. CASE kind = KindOf[k]
  <2>1. ref[2] \in UsableInstances(in, st, kind)
    BY <1>1, <1>2, <1>4 DEF UsableInstances, FreeInstances
  <2>2. \A n : <<kind, n>> = ref <=> n = ref[2]
    BY <1>2, <1>4
  <2>3. UsableInstances(in', st', kind) = UsableInstances(in, st, kind) \ {ref[2]}
    BY <1>3, <2>2
  <2>4. IsFiniteSet(UsableInstances(in, st, kind))
    BY UsableCount
  <2>5. Cardinality(UsableInstances(in, st, kind) \ {ref[2]}) = Cardinality(UsableInstances(in, st, kind)) - 1
    BY <2>1, <2>4, FS_RemoveElement
  <2> QED
    BY <1>4, <2>3, <2>5
<1>5. CASE kind # KindOf[k]
  <2>1. UsableInstances(in', st', kind) = UsableInstances(in, st, kind)
    BY <1>2, <1>3, <1>5
  <2> QED
    BY <1>5, <2>1
<1> QED
  BY <1>4, <1>5

\* While what is left fits, a set that wants a job may start: so none is refused.
LEMMA FittingStarts ==
    ASSUME IInv, FitsIn(st), NEW k \in SetKeys, st.want[k]["job"] > 0
    PROVE  MayStart(in, st, KindOf[k])
<1> DEFINE kind == KindOf[k]
           b == BudgetOf(kind)
           j == st.want[k]["job"]
           c == ContainerBytes[kind]
<1>1. TypeOK /\ st.want \in Demands
  BY DEF IInv, TypeOK, Demands
<1>2. /\ kind \in Kinds /\ b \in Budgets /\ SlotsOf(kind) = BudgetSlots(b) /\ SlotsOf(kind) \in Nat
      /\ c \in Nat /\ ReserveBytes \in Nat /\ QAEConcurrency \in Nat /\ Word \in Nat
  BY PlannerAssumption, BudgetTypes
<1>3. /\ SetsIn(b) \in SUBSET SetKeys /\ SetsOf(kind) \in SUBSET SetKeys
      /\ k \in SetsIn(b) /\ k \in SetsOf(kind)
  BY DEF SetsIn, SetsOf
<1>4. /\ JobsWanted(st, SetsIn(b)) \in Nat /\ j <= JobsWanted(st, SetsIn(b))
      /\ JobsWanted(st, SetsOf(kind)) \in Nat /\ j <= JobsWanted(st, SetsOf(kind))
  BY <1>1, <1>3, JobsSum
<1>5. j \in Nat /\ j > 0
  BY <1>1 DEF TypeOK, Tiers
<1>6. UsableInstances(in, st, kind) # {}
  <2>1. JobsWanted(st, SetsOf(kind)) <= Cardinality(UsableInstances(in, st, kind))
    BY <1>2 DEF FitsIn
  <2>2. /\ Cardinality(UsableInstances(in, st, kind)) \in Nat
        /\ UsableInstances(in, st, kind) = {} <=> Cardinality(UsableInstances(in, st, kind)) = 0
    BY <1>2, UsableCount
  <2> HIDE DEF kind, j
  <2> QED
    BY <1>4, <1>5, <2>1, <2>2
<1>7. st.used[b] < SlotsOf(kind)
  <2>1. st.used[b] + JobsWanted(st, SetsIn(b)) <= BudgetSlots(b) /\ st.used[b] \in Nat
    BY <1>1, <1>2 DEF FitsIn, TypeOK
  <2> HIDE DEF kind, j, b
  <2> QED
    BY <1>2, <1>4, <1>5, <2>1
<1>8. ASSUME kind = QAEKind PROVE st.usedQAE < QAEConcurrency
  <2>1. st.usedQAE + JobsWanted(st, SetsOf(kind)) <= QAEConcurrency /\ st.usedQAE \in Nat
    BY <1>1, <1>2, <1>8 DEF FitsIn, TypeOK
  <2> HIDE DEF kind, j, b
  <2> QED
    BY <1>2, <1>4, <1>5, <2>1
<1>9. ~ MemoryShort(in, st, kind)
  <2>1. JobsBytes(st) \in Nat /\ j * c <= JobsBytes(st)
    BY <1>1, JobsBytesSum
  <2>2. st.planned + ReserveBytes + JobsBytes(st) <= in.mem /\ st.planned \in Nat /\ in.mem \in Nat
    BY <1>1 DEF FitsIn, TypeOK, IsPlanInput
  <2> HIDE DEF j, c, kind
  <2>3. c <= j * c
    <3>1. \A x, y \in Nat : x > 0 => y <= x * y
      <4> SUFFICES ASSUME NEW x \in Nat, NEW y \in Nat, x > 0 PROVE y <= x * y
        OBVIOUS
      <4>1. x * y = (x - 1) * y + y /\ x - 1 \in Nat
        OBVIOUS
      <4>2. (x - 1) * y \in Nat
        BY <4>1
      <4> QED
        BY <4>1, <4>2
    <3> QED
      BY <1>2, <1>5, <3>1
  <2>4. j * c \in Nat
    BY <1>2, <1>5
  <2>5. st.planned + (c + ReserveBytes) <= in.mem
    BY <1>2, <2>1, <2>2, <2>3, <2>4
  <2>6. /\ ~ (in.mem < st.planned) /\ WordMinus(in.mem, st.planned) = in.mem - st.planned
        /\ ~ (in.mem - st.planned < c + ReserveBytes)
    BY <1>2, <2>2, <2>5 DEF WordMinus
  <2> QED
    BY <2>6 DEF MemoryShort, c
<1> QED
  BY <1>6, <1>7, <1>8, <1>9 DEF MayStart

LEMMA StartFits ==
    ASSUME IInv, FitsIn(st), NEW k \in SetKeys, Start(k)
    PROVE  FitsIn(st)'
<1> DEFINE kind == KindOf[k]
           j == st.want[k]["job"]
           i == st'.want[k]["job"]
<1>1. PICK ref \in Refs :
        /\ in' = in
        /\ st'.used = [st.used EXCEPT ![BudgetOf(KindOf[k])] = @ + 1]
        /\ st'.usedQAE = IF KindOf[k] = QAEKind THEN st.usedQAE + 1 ELSE st.usedQAE
        /\ st'.planned = st.planned + ContainerBytes[KindOf[k]]
  BY StartFacts
<1>2. /\ st.want \in Demands /\ st'.want \in Demands
      /\ \A l \in SetKeys \ {k} : st'.want[l]["job"] = st.want[l]["job"]
      /\ \/ j > 0 /\ i = j - 1
         \/ (\A l \in SetKeys : st.want[l]["job"] = 0) /\ i = j
  BY StartDemand
<1>3. TypeOK /\ j \in Nat /\ i \in Nat
  BY <1>2 DEF IInv, Demands, Tiers
<1>4. /\ kind \in Kinds /\ BudgetOf(kind) \in Budgets /\ ContainerBytes[kind] \in Nat
      /\ SlotsOf(kind) = BudgetSlots(BudgetOf(kind))
      /\ ReserveBytes \in Nat /\ QAEConcurrency \in Nat /\ Word \in Nat
  BY PlannerAssumption, BudgetTypes
<1>5. ASSUME NEW K \in SUBSET SetKeys
      PROVE  /\ JobsWanted(st, K) \in Nat /\ JobsWanted(st', K) \in Nat
             /\ k \in K => \/ JobsWanted(st', K) + 1 = JobsWanted(st, K)
                          \/ JobsWanted(st', K) = 0
             /\ k \notin K => JobsWanted(st', K) = JobsWanted(st, K)
  <2>1. /\ JobsWanted(st, K) \in Nat /\ JobsWanted(st', K) \in Nat
        /\ (\A l \in K : st.want[l]["job"] = 0) => JobsWanted(st, K) = 0
    BY <1>2, JobsSum
  <2>2. /\ k \in K => JobsWanted(st', K) + j = JobsWanted(st, K) + i
        /\ k \notin K => JobsWanted(st', K) = JobsWanted(st, K)
    BY <1>2, JobsDiffer
  <2> HIDE DEF j, i
  <2> QED
    BY <1>2, <1>3, <2>1, <2>2
<1>6. \A b \in Budgets : SetsIn(b) \in SUBSET SetKeys /\ (k \in SetsIn(b) <=> b = BudgetOf(kind))
  BY DEF SetsIn
<1>7. \A q \in Kinds : SetsOf(q) \in SUBSET SetKeys /\ (k \in SetsOf(q) <=> q = kind)
  BY DEF SetsOf
<1>8. MayStart(in, st, kind)
  BY DEF Start
<1>9. ASSUME NEW b \in Budgets PROVE st'.used[b] + JobsWanted(st', SetsIn(b)) <= BudgetSlots(b)
  <2>1. st.used[b] + JobsWanted(st, SetsIn(b)) <= BudgetSlots(b) /\ st.used[b] \in Nat /\ BudgetSlots(b) \in Nat
    BY <1>3, BudgetTypes DEF FitsIn, TypeOK
  <2>2. st'.used[b] = IF b = BudgetOf(kind) THEN st.used[b] + 1 ELSE st.used[b]
    BY <1>1, <1>3 DEF TypeOK
  <2>3. b = BudgetOf(kind) => st.used[b] < BudgetSlots(b)
    BY <1>4, <1>8 DEF MayStart
  <2> HIDE DEF kind
  <2> QED
    BY <1>5, <1>6, <2>1, <2>2, <2>3
<1>10. ASSUME NEW q \in Kinds
       PROVE  JobsWanted(st', SetsOf(q)) <= Cardinality(UsableInstances(in', st', q))
  <2>1. JobsWanted(st, SetsOf(q)) <= Cardinality(UsableInstances(in, st, q))
    BY DEF FitsIn
  <2>2. /\ Cardinality(UsableInstances(in, st, q)) \in Nat
        /\ UsableInstances(in, st, q) = {} <=> Cardinality(UsableInstances(in, st, q)) = 0
    BY UsableCount
  <2>3. Cardinality(UsableInstances(in', st', q)) =
          IF q = kind THEN Cardinality(UsableInstances(in, st, q)) - 1
          ELSE Cardinality(UsableInstances(in, st, q))
    BY StartUsable
  <2>4. q = kind => UsableInstances(in, st, q) # {}
    BY <1>8 DEF MayStart
  <2> HIDE DEF kind
  <2> QED
    BY <1>5, <1>7, <2>1, <2>2, <2>3, <2>4
<1>11. ASSUME QAEKind \in Kinds PROVE st'.usedQAE + JobsWanted(st', SetsOf(QAEKind)) <= QAEConcurrency
  <2>1. st.usedQAE + JobsWanted(st, SetsOf(QAEKind)) <= QAEConcurrency /\ st.usedQAE \in Nat
    BY <1>3, <1>11 DEF FitsIn, TypeOK
  <2>2. kind = QAEKind => st.usedQAE < QAEConcurrency
    BY <1>8 DEF MayStart
  <2>3. st'.usedQAE = IF kind = QAEKind THEN st.usedQAE + 1 ELSE st.usedQAE
    BY <1>1
  <2> HIDE DEF kind
  <2> QED
    BY <1>4, <1>5, <1>7, <1>11, <2>1, <2>2, <2>3
<1>12. st'.planned + ReserveBytes + JobsBytes(st') <= in.mem
  <2> DEFINE c == ContainerBytes[kind]
  <2>1. /\ JobsBytes(st) \in Nat /\ JobsBytes(st') \in Nat
        /\ (\A l \in SetKeys : st.want[l]["job"] = 0) => JobsBytes(st) = 0
    BY <1>2, JobsBytesSum
  <2>2. JobsBytes(st') + j * c = JobsBytes(st) + i * c
    BY <1>2, JobsBytesDiffer
  <2>3. /\ st.planned + ReserveBytes + JobsBytes(st) <= in.mem
        /\ st.planned \in Nat /\ in.mem \in Nat
    BY <1>3 DEF FitsIn, TypeOK, IsPlanInput
  <2>4. st'.planned = st.planned + c
    BY <1>1
  <2>5. st.planned + c + ReserveBytes <= in.mem
    <3>1. ~ MemoryShort(in, st, kind)
      BY <1>8 DEF MayStart
    <3> QED
      BY <1>4, <2>3, <3>1 DEF MemoryShort, WordMinus
  <2>6. c \in Nat
    BY <1>4
  <2> HIDE DEF kind, c, j, i
  <2>7. CASE j > 0 /\ i = j - 1
    <3>1. j * c = i * c + c /\ i * c \in Nat
      BY <1>3, <2>6, <2>7
    <3>2. JobsBytes(st') + c = JobsBytes(st)
      BY <2>1, <2>2, <2>6, <3>1
    <3> QED
      BY <1>4, <2>1, <2>3, <2>4, <2>6, <3>2
  <2>8. CASE (\A l \in SetKeys : st.want[l]["job"] = 0) /\ i = j
    <3>1. j * c \in Nat
      BY <1>3, <2>6
    <3>2. JobsBytes(st') = 0
      BY <2>1, <2>2, <2>8, <3>1
    <3> QED
      BY <1>4, <2>3, <2>4, <2>5, <2>6, <3>2
  <2> QED
    BY <1>2, <2>7, <2>8 DEF j, i
<1> QED
  BY <1>1, <1>9, <1>10, <1>11, <1>12 DEF FitsIn

LEMMA RefuseFits ==
    ASSUME IInv, FitsIn(st), NEW k \in SetKeys, Refuse(k)
    PROVE  FitsIn(st)'
<1>1. /\ in' = in /\ st'.taken = st.taken /\ st'.used = st.used /\ st'.usedQAE = st.usedQAE
      /\ st'.planned = st.planned
  BY RefuseFacts
<1>2. /\ st.want \in Demands /\ st'.want \in Demands
      /\ \A l \in SetKeys \ {k} : st'.want[l]["job"] = st.want[l]["job"]
      /\ st'.want[k]["job"] = 0
  BY RefuseDemand
<1>3. st.want[k]["job"] = 0
  BY <1>2, FittingStarts DEF Refuse, Demands, Tiers
<1>4. \A K \in SUBSET SetKeys :
        JobsWanted(st', K) = JobsWanted(st, K) /\ JobsWanted(st, K) \in Nat
  <2> TAKE K \in SUBSET SetKeys
  <2>1. /\ k \in K => JobsWanted(st', K) + st.want[k]["job"] = JobsWanted(st, K) + st'.want[k]["job"]
        /\ k \notin K => JobsWanted(st', K) = JobsWanted(st, K)
    BY <1>2, JobsDiffer
  <2>2. JobsWanted(st, K) \in Nat /\ JobsWanted(st', K) \in Nat
    BY <1>2, JobsSum
  <2> QED
    BY <1>2, <1>3, <2>1, <2>2
<1>5. JobsBytes(st') = JobsBytes(st)
  <2>1. JobsBytes(st') + st.want[k]["job"] * ContainerBytes[KindOf[k]]
          = JobsBytes(st) + st'.want[k]["job"] * ContainerBytes[KindOf[k]]
    BY <1>2, JobsBytesDiffer
  <2>2. JobsBytes(st) \in Nat /\ JobsBytes(st') \in Nat /\ ContainerBytes[KindOf[k]] \in Nat
    BY <1>2, JobsBytesSum, PlannerAssumption
  <2> QED
    BY <1>2, <1>3, <2>1, <2>2
<1>6. \A kind : UsableInstances(in', st', kind) = UsableInstances(in, st, kind)
  BY <1>1 DEF UsableInstances, FreeInstances
<1>7. /\ \A b : SetsIn(b) \in SUBSET SetKeys
      /\ \A kind : SetsOf(kind) \in SUBSET SetKeys
  BY DEF SetsIn, SetsOf
<1> QED
  BY <1>1, <1>4, <1>5, <1>6, <1>7 DEF FitsIn

LEMMA NextFits ==
    ASSUME IInv, Shares, FitsStill, NEW k \in SetKeys, Start(k) \/ Refuse(k)
    PROVE  FitsStill'
<1>1. CASE Start(k)
  <2>1. /\ in' = in /\ st'.refused = st.refused
        /\ \A l \in SetKeys : st.active[l] \in Nat /\ st'.active[l] \in Nat /\ st.active[l] <= st'.active[l]
    <3>1. /\ in' = in /\ st'.refused = st.refused
          /\ st.active \in [SetKeys -> Nat] /\ st'.active \in [SetKeys -> Nat]
          /\ st'.active[k] = st.active[k] + 1
          /\ \A l \in SetKeys \ {k} : st'.active[l] = st.active[l]
      BY <1>1, StartDemand
    <3> QED
      BY <3>1
  <2>2. JobsFit' <=> JobsFit
    BY <2>1 DEF JobsFit, FitsIn
  <2>3. \A l \in SetKeys : JobTarget(l)' = JobTarget(l) /\ JobTarget(l) \in Nat
    BY <2>1, Targets DEF JobTarget, IInv
  <2>4. st.refused \subseteq SetKeys
    BY DEF IInv, TypeOK
  <2> SUFFICES ASSUME JobsFit
               PROVE  FitsIn(st)' /\ \A l \in st'.refused : JobTarget(l)' <= st'.active[l]
    BY <2>2 DEF FitsStill
  <2>5. FitsIn(st)'
    BY <1>1, StartFits DEF FitsStill
  <2> QED
    BY <2>1, <2>3, <2>4, <2>5 DEF FitsStill
<1>2. CASE Refuse(k)
  <2>1. /\ in' = in /\ st'.refused = st.refused \cup {k} /\ st'.active = st.active
        /\ st.active \in [SetKeys -> Nat] /\ st.want \in Demands
    BY <1>2, RefuseDemand
  <2>2. JobsFit' <=> JobsFit
    BY <2>1 DEF JobsFit, FitsIn
  <2>3. \A l \in SetKeys : JobTarget(l)' = JobTarget(l) /\ JobTarget(l) \in Nat
    BY <2>1, Targets DEF JobTarget, IInv
  <2> SUFFICES ASSUME JobsFit
               PROVE  FitsIn(st)' /\ \A l \in st'.refused : JobTarget(l)' <= st'.active[l]
    BY <2>2 DEF FitsStill
  <2>4. FitsIn(st)'
    BY <1>2, RefuseFits DEF FitsStill
  <2>5. st.want[k]["job"] = 0
    BY <1>2, <2>1, FittingStarts DEF Refuse, Demands, Tiers, FitsStill
  <2>6. k \in in.known /\ k \notin st.refused
    BY <1>2 DEF Refuse, Neediest, Wanting, TierOf, Shares
  <2>7. JobTarget(k) <= st.active[k]
    BY <2>1, <2>3, <2>5, <2>6 DEF Shares, Positive
  <2>8. st.refused \subseteq SetKeys
    BY DEF IInv, TypeOK
  <2> QED
    BY <2>1, <2>3, <2>4, <2>7, <2>8 DEF FitsStill
<1> QED
  BY <1>1, <1>2

LEMMA InitDInv == Init => DInv
<1> SUFFICES ASSUME Init PROVE DInv
  OBVIOUS
<1>1. st = BeforeStarts(in) /\ st.refused = {}
  BY DEF Init, BeforeStarts
<1>2. FitsStill
  BY <1>1 DEF FitsStill, JobsFit
<1> QED
  BY <1>2, InitShares DEF DInv

LEMMA NextDInv == IInv /\ DInv /\ [Next]_vars => DInv'
<1> SUFFICES ASSUME IInv, DInv, [Next]_vars PROVE DInv'
  OBVIOUS
<1>1. Shares /\ Evenly /\ FitsStill
  BY DEF DInv
<1>2. ASSUME NEW k \in SetKeys, Start(k) PROVE DInv'
  BY <1>1, <1>2, StartShares, StartEvenly, NextFits DEF DInv
<1>3. ASSUME NEW k \in SetKeys, Refuse(k) PROVE DInv'
  BY <1>1, <1>3, RefuseShares, RefuseEvenly, NextFits DEF DInv
<1>4. CASE UNCHANGED vars
  <2>1. in' = in /\ st' = st
    BY <1>4 DEF vars
  <2> QED
    BY <1>1, <2>1 DEF DInv, Shares, Evenly, FitsStill, FitsIn, JobsFit, JobTarget, GotStart
<1> QED
  BY <1>2, <1>3, <1>4 DEF Next

\* What the invariant says of a round that has ended.
LEMMA DemandIsMet ==
    ASSUME IInv, DInv
    PROVE  DemandMet
<1> SUFFICES ASSUME Finished PROVE DemandMet
  BY DEF DemandMet
<1>1. /\ TypeOK /\ st.active \in [SetKeys -> Nat] /\ in.known \subseteq SetKeys
      /\ Shares /\ Evenly /\ FitsStill
  BY DEF IInv, DInv, TypeOK, IsPlanInput
<1>2. \A k \in SetKeys : st.want[k]["job"] = 0 /\ st.want[k]["warm"] = 0
  <2>1. \A k \in SetKeys : st.want[k]["job"] \in Nat /\ st.want[k]["warm"] \in Nat
    BY <1>1 DEF TypeOK, Tiers
  <2>2. Wanting(st, "job") = {} /\ Wanting(st, "warm") = {}
    BY DEF Finished, Tiers
  <2> QED
    BY <2>1, <2>2 DEF Wanting
<1>3. ASSUME NEW k \in in.known, k \notin st.refused
      PROVE  Desired(in, k) <= st.active[k] /\ JobTarget(k) <= st.active[k]
  <2>1. /\ JobTarget(k) \in Nat /\ Desired(in, k) \in Nat /\ JobTarget(k) <= Desired(in, k)
        /\ st.active[k] \in Nat
    BY <1>1, Targets
  <2>2. 0 + 0 = Positive(Desired(in, k) - st.active[k])
    BY <1>1, <1>2, <1>3 DEF Shares
  <2> QED
    BY <2>1, <2>2 DEF Positive
<1>4. \A k \in in.known : st.active[k] >= Desired(in, k) \/ k \in st.refused
  <2>1. \A k \in in.known : Desired(in, k) \in Nat /\ st.active[k] \in Nat
    BY <1>1, Targets
  <2> QED
    BY <1>3, <2>1
<1>5. \A k \in SetKeys : GotStart(k) => st.active[k] <= Desired(in, k)
  BY <1>1 DEF Shares
<1>6. ASSUME JobsFit PROVE \A k \in in.known : st.active[k] >= JobTarget(k)
  <2>1. \A k \in in.known : JobTarget(k) \in Nat /\ st.active[k] \in Nat
    BY <1>1, Targets
  <2>2. \A k \in in.known : JobTarget(k) <= st.active[k]
    BY <1>1, <1>3, <1>6 DEF FitsStill
  <2> QED
    BY <2>1, <2>2
<1> QED
  BY <1>1, <1>4, <1>5, <1>6 DEF DemandMet, Evenly

------------------------------------------------------------------------------
(* What stops and recycles take away *)

Older(k, r) == {s \in IdleOf(in, k) : IdleBefore(in, s, r)}

Newer(k, r) == {s \in IdleOf(in, k) : IdleBefore(in, r, s)}

\* The idle slots of a set are instances of one kind, and their ages and numbers are comparable.
LEMMA IdleFacts ==
    ASSUME IsPlanInput(in), NEW k \in SetKeys
    PROVE  /\ IsFiniteSet(IdleOf(in, k)) /\ Cardinality(IdleOf(in, k)) \in Nat
           /\ \A r \in IdleOf(in, k) :
                 /\ in.occupied[r].since \in Nat /\ r[2] \in Nat
                 /\ r \in DOMAIN in.unitStart => in.unitStart[r] \in Int
           /\ \A r, s \in IdleOf(in, k) : r[2] = s[2] => r = s
<1>1. IdleOf(in, k) \subseteq DOMAIN in.occupied
  BY DEF IdleOf, SlotsIn
<1>2. IsFiniteSet(IdleOf(in, k))
  BY <1>1, FS_Subset DEF IsPlanInput
<1>3. ASSUME NEW r \in IdleOf(in, k)
      PROVE  /\ in.occupied[r].since \in Nat
             /\ r = <<KindOf[k], r[2]>> /\ r[2] \in Nat
             /\ r \in DOMAIN in.unitStart => in.unitStart[r] \in Int
  <2>1. r \in DOMAIN in.occupied /\ in.occupied[r].set = k
    BY DEF IdleOf, SlotsIn
  <2>2. r \in Refs
    BY <2>1 DEF IsPlanInput
  <2>3. PICK kind \in Kinds : r \in {kind} \X (1 .. SlotsOf(kind))
    BY <2>2 DEF Refs
  <2>4. KindOf[k] = r[1]
    BY <2>1, PlannerAssumption DEF IsPlanInput
  <2>5. SlotsOf(kind) \in Nat
    BY BudgetTypes
  <2>6. r = <<KindOf[k], r[2]>> /\ r[2] \in Nat
    BY <2>3, <2>4, <2>5
  <2>7. in.occupied[r].since \in Nat
    BY <2>1 DEF IsPlanInput, OccupiedSlot
  <2>8. r \in DOMAIN in.unitStart => in.unitStart[r] \in Int
    BY DEF IsPlanInput
  <2> QED
    BY <2>6, <2>7, <2>8
<1> QED
  BY <1>2, <1>3, FS_CardinalityType

\* sortIdle's order leaves no two idle slots of a set unordered.
LEMMA IdleOrder ==
    ASSUME IsPlanInput(in), NEW k \in SetKeys
    PROVE  \A x, y, z \in IdleOf(in, k) :
               /\ ~ IdleBefore(in, x, x)
               /\ IdleBefore(in, x, y) /\ IdleBefore(in, y, z) => IdleBefore(in, x, z)
               /\ x # y => IdleBefore(in, x, y) \/ IdleBefore(in, y, x)
<1> SUFFICES ASSUME NEW x \in IdleOf(in, k), NEW y \in IdleOf(in, k), NEW z \in IdleOf(in, k)
             PROVE  /\ ~ IdleBefore(in, x, x)
                    /\ IdleBefore(in, x, y) /\ IdleBefore(in, y, z) => IdleBefore(in, x, z)
                    /\ x # y => IdleBefore(in, x, y) \/ IdleBefore(in, y, x)
  OBVIOUS
<1>1. /\ in.occupied[x].since \in Nat /\ x[2] \in Nat
      /\ in.occupied[y].since \in Nat /\ y[2] \in Nat
      /\ in.occupied[z].since \in Nat /\ z[2] \in Nat
      /\ x # y => x[2] # y[2]
  BY IdleFacts
<1> QED
  BY <1>1 DEF IdleBefore

\* The slots before and after one are all the others.
LEMMA OlderAndNewer ==
    ASSUME IsPlanInput(in), NEW k \in SetKeys, NEW r \in IdleOf(in, k)
    PROVE  /\ IsFiniteSet(Older(k, r)) /\ Cardinality(Older(k, r)) \in Nat
           /\ IsFiniteSet(Newer(k, r)) /\ Cardinality(Newer(k, r)) \in Nat
           /\ Cardinality(IdleOf(in, k)) = Cardinality(Older(k, r)) + Cardinality(Newer(k, r)) + 1
<1> DEFINE A == Older(k, r)
           B == Newer(k, r)
           I == IdleOf(in, k)
<1>1. IsFiniteSet(I) /\ IsFiniteSet(A) /\ IsFiniteSet(B)
  BY IdleFacts, FS_Subset DEF Older, Newer
<1>2. A \cap B = {} /\ r \notin A \cup B /\ I = (A \cup B) \cup {r}
  BY IdleOrder DEF Older, Newer
<1> HIDE DEF A, B, I
<1>3. Cardinality(A) \in Nat /\ Cardinality(B) \in Nat
  BY <1>1, FS_CardinalityType
<1>4. IsFiniteSet(A \cup B) /\ Cardinality(A \cup B) = Cardinality(A) + Cardinality(B) - Cardinality(A \cap B)
  BY <1>1, FS_Union
<1>5. Cardinality(A \cap B) = 0
  BY <1>2, FS_EmptySet
<1>6. Cardinality(I) = Cardinality(A \cup B) + 1
  BY <1>2, <1>4, FS_AddElement
<1>7. Cardinality(I) = Cardinality(A) + Cardinality(B) + 1
  BY <1>3, <1>4, <1>5, <1>6
<1> QED
  BY <1>1, <1>3, <1>7 DEF A, B, I

\* No more than p idle slots have fewer than p older ones.
LEMMA OldestFew ==
    ASSUME IsPlanInput(in), NEW k \in SetKeys, NEW p \in Nat, NEW T \in SUBSET IdleOf(in, k),
           \A r \in T : Cardinality(Older(k, r)) < p
    PROVE  IsFiniteSet(T) /\ Cardinality(T) \in Nat /\ Cardinality(T) <= p
<1>1. IsFiniteSet(T) /\ Cardinality(T) \in Nat
  BY IdleFacts, FS_Subset, FS_CardinalityType
<1>2. CASE T = {}
  BY <1>1, <1>2, FS_EmptySet
<1>3. CASE T # {}
  <2> DEFINE ages == {Cardinality(Newer(k, r)) : r \in T}
  <2>1. PICK a \in ages : \A b \in ages : a <= b
    <3>1. ages \in SUBSET Nat
      BY OlderAndNewer
    <3>2. ages # {}
      BY <1>3
    <3> HIDE DEF ages
    <3> QED
      BY <3>1, <3>2, Minimum
  <2>2. PICK x \in T : a = Cardinality(Newer(k, x))
    BY <2>1
  <2>3. \A y \in T : Cardinality(Newer(k, x)) <= Cardinality(Newer(k, y))
    BY <2>1, <2>2
  <2> HIDE DEF ages
  <2>4. ASSUME NEW y \in T \ {x} PROVE y \in Older(k, x)
    <3> SUFFICES ASSUME IdleBefore(in, x, y) PROVE FALSE
      BY IdleOrder DEF Older
    <3>1. Newer(k, y) \subseteq Newer(k, x) /\ y \in Newer(k, x) /\ y \notin Newer(k, y)
      BY IdleOrder DEF Newer
    <3>2. IsFiniteSet(Newer(k, x)) /\ IsFiniteSet(Newer(k, y))
      BY OlderAndNewer
    <3>3. Cardinality(Newer(k, x)) \in Nat /\ Cardinality(Newer(k, y)) \in Nat
      BY OlderAndNewer
    <3>4. Cardinality(Newer(k, y)) < Cardinality(Newer(k, x))
      <4>1. Newer(k, y) \subseteq Newer(k, x) \ {y}
        BY <3>1
      <4>2. /\ IsFiniteSet(Newer(k, x) \ {y})
            /\ Cardinality(Newer(k, x) \ {y}) = Cardinality(Newer(k, x)) - 1
        BY <3>1, <3>2, FS_RemoveElement
      <4>3. Cardinality(Newer(k, y)) <= Cardinality(Newer(k, x) \ {y})
        BY <4>1, <4>2, FS_Subset
      <4> QED
        BY <3>3, <4>2, <4>3
    <3> QED
      BY <2>3, <3>3, <3>4
  <2>5. T \ {x} \subseteq Older(k, x) /\ IsFiniteSet(Older(k, x)) /\ Cardinality(Older(k, x)) \in Nat
    BY <2>4, OlderAndNewer
  <2>6. Cardinality(T \ {x}) <= Cardinality(Older(k, x))
    BY <2>5, FS_Subset
  <2>7. Cardinality(T \ {x}) = Cardinality(T) - 1
    BY <1>1, FS_RemoveElement
  <2>8. Cardinality(Older(k, x)) < p
    OBVIOUS
  <2> QED
    BY <1>1, <2>5, <2>6, <2>7, <2>8
<1> QED
  BY <1>2, <1>3

\* Of a set's slots a round stops only its own idle ones, and recycles at most one of them.
LEMMA StopsOfSet ==
    ASSUME IsPlanInput(in), NEW k \in SetKeys, NEW stops, stops = PlanIdleStops(in)
    PROVE  /\ SlotsIn(in, k, Phases) \cap stops = IdleStopsOf(in, k)
           /\ IdleStopsOf(in, k) \subseteq IdleOf(in, k)
           /\ SlotsIn(in, k, Phases) \cap PlanRecycles(in, stops) = RecyclesOf(in, stops, k)
           /\ RecyclesOf(in, stops, k) \subseteq IdleOf(in, k)
<1>1. \A l \in SetKeys : IdleStopsOf(in, l) \subseteq IdleOf(in, l)
  BY DEF IdleStopsOf
<1>2. \A l \in SetKeys : RecyclesOf(in, stops, l) \subseteq IdleOf(in, l)
  BY DEF RecyclesOf, Recyclable
<1>3. \A l : IdleOf(in, l) \subseteq SlotsIn(in, l, Phases)
  BY DEF IdleOf, SlotsIn, Phases
<1>4. \A l, q, r : r \in SlotsIn(in, l, Phases) /\ r \in SlotsIn(in, q, Phases) => l = q
  BY DEF SlotsIn
<1>5. SlotsIn(in, k, Phases) \cap stops = IdleStopsOf(in, k)
  <2>1. ASSUME NEW r \in SlotsIn(in, k, Phases), r \in stops PROVE r \in IdleStopsOf(in, k)
    <3>1. PICK l \in SetKeys : r \in IdleStopsOf(in, l)
      BY <2>1 DEF PlanIdleStops
    <3>2. r \in SlotsIn(in, l, Phases)
      BY <1>1, <1>3, <3>1
    <3>3. l = k
      BY <1>4, <3>2
    <3> QED
      BY <3>1, <3>3
  <2>2. IdleStopsOf(in, k) \subseteq SlotsIn(in, k, Phases) /\ IdleStopsOf(in, k) \subseteq stops
    BY <1>1, <1>3 DEF PlanIdleStops
  <2> QED
    BY <2>1, <2>2
<1>6. SlotsIn(in, k, Phases) \cap PlanRecycles(in, stops) = RecyclesOf(in, stops, k)
  <2>1. ASSUME NEW r \in SlotsIn(in, k, Phases), r \in PlanRecycles(in, stops)
        PROVE  r \in RecyclesOf(in, stops, k)
    <3>1. PICK l \in SetKeys : r \in RecyclesOf(in, stops, l)
      BY <2>1 DEF PlanRecycles
    <3>2. r \in SlotsIn(in, l, Phases)
      BY <1>2, <1>3, <3>1
    <3>3. l = k
      BY <1>4, <3>2
    <3> QED
      BY <3>1, <3>3
  <2>2. /\ RecyclesOf(in, stops, k) \subseteq SlotsIn(in, k, Phases)
        /\ RecyclesOf(in, stops, k) \subseteq PlanRecycles(in, stops)
    BY <1>2, <1>3 DEF PlanRecycles
  <2> QED
    BY <2>1, <2>2
<1> QED
  BY <1>1, <1>2, <1>5, <1>6

LEMMA OneRecycle ==
    ASSUME IsPlanInput(in), NEW k \in SetKeys, NEW stops
    PROVE  \/ RecyclesOf(in, stops, k) = {}
           \/ \E x \in IdleOf(in, k) : RecyclesOf(in, stops, k) = {x}
<1> DEFINE R == RecyclesOf(in, stops, k)
<1>1. \A x \in R : x \in Recyclable(in, k) /\ x \in IdleOf(in, k) /\ x \in DOMAIN in.unitStart
  BY DEF RecyclesOf, Recyclable
<1>2. ASSUME NEW x \in R, NEW y \in R, x # y PROVE FALSE
  <2>1. UnitBefore(in, x, y) /\ UnitBefore(in, y, x)
    BY <1>1, <1>2 DEF RecyclesOf
  <2>2. in.unitStart[x] \in Int /\ in.unitStart[y] \in Int /\ x[2] \in Nat /\ y[2] \in Nat
    BY <1>1, IdleFacts
  <2> QED
    BY <2>1, <2>2 DEF UnitBefore
<1> HIDE DEF R
<1>3. R = {} \/ \E x \in IdleOf(in, k) : R = {x}
  BY <1>1, <1>2
<1> QED
  BY <1>3 DEF R

\* Idle stops leave the warm pool, and they are of a set with no job.
LEMMA StopsFew ==
    ASSUME IsPlanInput(in), NEW k \in SetKeys, IdleStopsOf(in, k) # {}
    PROVE  /\ in.assigned[k] = 0
           /\ IsFiniteSet(IdleStopsOf(in, k)) /\ Cardinality(IdleStopsOf(in, k)) \in Nat
           /\ Cardinality(IdleStopsOf(in, k)) + in.minimum[k] <= Cardinality(IdleOf(in, k))
<1> DEFINE n == Cardinality(IdleOf(in, k))
           m == in.minimum[k]
           T == IdleStopsOf(in, k)
<1>1. n \in Nat /\ m \in Nat
  BY IdleFacts DEF IsPlanInput
<1>2. T \in SUBSET IdleOf(in, k) /\ \A r \in T : Cardinality(Older(k, r)) < n - m
  BY DEF IdleStopsOf, OlderIdle, Older
<1>3. in.assigned[k] = 0
  BY DEF IdleStopsOf
<1>4. n - m \in Nat
  <2>1. PICK r \in T : TRUE
    OBVIOUS
  <2>2. Cardinality(Older(k, r)) \in Nat /\ Cardinality(Older(k, r)) < n - m
    BY <1>2, OlderAndNewer
  <2> QED
    BY <1>1, <2>2
<1> HIDE DEF T, n, m
<1>5. IsFiniteSet(T) /\ Cardinality(T) \in Nat /\ Cardinality(T) <= n - m
  BY <1>2, <1>4, OldestFew
<1>6. Cardinality(T) + m <= n
  BY <1>1, <1>5
<1> QED
  BY <1>3, <1>5, <1>6 DEF T, n, m

\* The idle slots queue.json names as warm are the newest, the idle stops the oldest.
LEMMA WarmStays ==
    ASSUME IsPlanInput(in), NEW k \in SetKeys
    PROVE  IdleStopsOf(in, k) \cap WarmInstances(in, k) = {}
<1> SUFFICES ASSUME NEW r \in IdleOf(in, k), r \in IdleStopsOf(in, k), r \in WarmInstances(in, k)
             PROVE  FALSE
  BY DEF WarmInstances
<1>1. Cardinality(Older(k, r)) < Cardinality(IdleOf(in, k)) - in.minimum[k]
  BY DEF IdleStopsOf, OlderIdle, Older
<1>2. Cardinality(Newer(k, r)) < in.minimum[k]
  BY DEF WarmInstances, Newer
<1>3. in.minimum[k] \in Nat
  BY DEF IsPlanInput
<1> QED
  BY <1>1, <1>2, <1>3, OlderAndNewer

LEMMA LeastIsLeast ==
    ASSUME NEW a \in Nat, NEW b \in Nat
    PROVE  Least(a, b) \in Nat /\ a >= Least(a, b) /\ b >= Least(a, b)
BY DEF Least

LEMMA NeededIsSpared ==
    ASSUME IsPlanInput(in)
    PROVE  StopsSpareNeeded
<1> DEFINE stops == PlanIdleStops(in)
           recycles == PlanRecycles(in, stops)
<1> SUFFICES ASSUME NEW k \in SetKeys
             PROVE  LET idle == IdleOf(in, k)
                        left == SlotsIn(in, k, ActivePhases) \ (stops \cup recycles)
                        gone == Cardinality(idle \cap recycles)
                    IN  /\ Cardinality(left) >= Least(ActiveSlots(in, k), JobTarget(k))
                        /\ Cardinality(left \cap idle) >= Least(Cardinality(idle), in.minimum[k]) - gone
                        /\ gone <= 1 /\ (gone = 1 => idle \cap stops = {})
                        /\ stops \cap WarmInstances(in, k) = {}
  <2>1. in.known \subseteq SetKeys
    BY DEF IsPlanInput
  <2> QED
    BY <2>1 DEF StopsSpareNeeded
<1> DEFINE idle == IdleOf(in, k)
           all  == SlotsIn(in, k, ActivePhases)
           busy == SlotsIn(in, k, {"busy"})
           S    == IdleStopsOf(in, k)
           R    == RecyclesOf(in, stops, k)
           left == all \ (stops \cup recycles)
           J    == JobTarget(k)
           m    == in.minimum[k]
<1>1. /\ idle \subseteq all /\ busy \subseteq all /\ idle \cap busy = {}
      /\ all \subseteq SlotsIn(in, k, Phases) /\ IsFiniteSet(all)
  <2>1. all \subseteq DOMAIN in.occupied
    BY DEF SlotsIn
  <2>2. IsFiniteSet(all)
    BY <2>1, FS_Subset DEF IsPlanInput
  <2> QED
    BY <2>2 DEF IdleOf, SlotsIn, ActivePhases, Phases
<1>2. /\ SlotsIn(in, k, Phases) \cap stops = S /\ S \subseteq idle
      /\ SlotsIn(in, k, Phases) \cap recycles = R /\ R \subseteq idle
  BY StopsOfSet
<1>3. R = {} \/ \E x \in idle : R = {x}
  BY OneRecycle
<1>4. R # {} => /\ SlotsIn(in, k, Phases) \cap stops = {}
               /\ in.assigned[k] <= Cardinality(busy)
  BY DEF RecyclesOf, Settling
<1>5. S # {} => in.assigned[k] = 0 /\ Cardinality(S) \in Nat /\ Cardinality(S) + m <= Cardinality(idle)
  BY StopsFew
<1>6. /\ m \in Nat /\ in.assigned[k] \in Nat /\ J = Least(SlotsOf(KindOf[k]), in.assigned[k])
      /\ SlotsOf(KindOf[k]) \in Nat /\ ActiveSlots(in, k) = Cardinality(all)
  BY BudgetTypes, PlannerAssumption DEF IsPlanInput, JobTarget, ActiveSlots
<1>7. stops \cap WarmInstances(in, k) = {}
  <2>1. WarmInstances(in, k) \subseteq idle
    BY DEF WarmInstances
  <2>2. S \cap WarmInstances(in, k) = {}
    BY WarmStays
  <2> HIDE DEF idle, all, S, stops
  <2> QED
    BY <1>1, <1>2, <2>1, <2>2
<1> HIDE DEF idle, all, busy, S, R, stops, recycles, J, m
<1>8. left = all \ (S \cup R) /\ left \cap idle = idle \ (S \cup R)
  BY <1>1, <1>2
<1>. SUFFICES /\ Cardinality(left) >= Least(ActiveSlots(in, k), J)
              /\ Cardinality(left \cap idle) >= Least(Cardinality(idle), m) - Cardinality(R)
              /\ Cardinality(R) <= 1
              /\ Cardinality(R) = 1 => S = {}
  <2>1. idle \cap recycles = R
    BY <1>1, <1>2
  <2>2. idle \cap stops = S
    BY <1>1, <1>2
  <2> QED
    BY <1>7, <2>1, <2>2, Zenon DEF left, J, m, idle, all
<1> HIDE DEF left
<1>9. /\ IsFiniteSet(idle) /\ IsFiniteSet(busy) /\ IsFiniteSet(left)
      /\ Cardinality(idle) \in Nat /\ Cardinality(busy) \in Nat /\ Cardinality(left) \in Nat
      /\ Cardinality(all) \in Nat
  <2>1. IsFiniteSet(idle) /\ IsFiniteSet(busy) /\ IsFiniteSet(left)
    BY <1>1, <1>8, FS_Subset
  <2> QED
    BY <1>1, <2>1, FS_CardinalityType
<1>10. CASE R = {}
  <2>1. Cardinality(R) = 0
    BY <1>10, FS_EmptySet
  <2>0. Least(Cardinality(idle), m) - 0 = Least(Cardinality(idle), m)
    BY <1>6, <1>9, LeastIsLeast
  <2>2. CASE S = {}
    <3>1. left = all /\ left \cap idle = idle
      BY <1>1, <1>8, <1>10, <2>2
    <3>2. Cardinality(left) >= Least(ActiveSlots(in, k), J)
      BY <1>6, <1>9, <3>1 DEF Least
    <3>3. Cardinality(left \cap idle) >= Least(Cardinality(idle), m)
      <4>1. Cardinality(left \cap idle) = Cardinality(idle)
        BY <3>1, Zenon
      <4>2. m \in Nat /\ Cardinality(idle) \in Nat
        BY <1>6, <1>9
      <4>3. Cardinality(idle) >= Least(Cardinality(idle), m)
        BY <4>2, LeastIsLeast
      <4> QED
        BY ONLY <4>1, <4>3, Zenon
    <3> QED
      BY <2>0, <2>1, <2>2, <3>2, <3>3
  <2>3. CASE S # {}
    <3>1. Cardinality(left) >= Least(ActiveSlots(in, k), J)
      <4>1. J = 0
        BY <1>5, <1>6, <2>3 DEF Least
      <4> QED
        BY <1>6, <1>9, <4>1 DEF Least
    <3>2. Cardinality(left \cap idle) >= Least(Cardinality(idle), m)
      <4>1. left \cap idle = idle \ S
        BY <1>8, <1>10
      <4>2. Cardinality(idle \ S) = Cardinality(idle) - Cardinality(idle \cap S)
        BY <1>9, FS_Difference
      <4>3. idle \cap S = S
        BY <1>2
      <4>4. Cardinality(left \cap idle) = Cardinality(idle) - Cardinality(S)
        BY <4>1, <4>2, <4>3
      <4> QED
        BY <1>5, <1>6, <1>9, <2>3, <4>4 DEF Least
    <3> QED
      BY <2>0, <2>1, <3>1, <3>2
  <2> QED
    BY <2>2, <2>3
<1>11. CASE R # {}
  <2>1. PICK x \in idle : R = {x}
    BY <1>3, <1>11
  <2>2. S = {} /\ Cardinality(R) = 1
    BY <1>2, <1>4, <1>11, <2>1, FS_Singleton
  <2>3. Cardinality(left) >= Least(ActiveSlots(in, k), J)
    <3>1. busy \subseteq left
      BY <1>1, <1>8, <2>1, <2>2
    <3>2. Cardinality(busy) <= Cardinality(left)
      BY <1>9, <3>1, FS_Subset
    <3> QED
      BY <1>4, <1>6, <1>9, <1>11, <3>2 DEF Least
  <2>4. Cardinality(left \cap idle) >= Least(Cardinality(idle), m) - 1
    <3>1. left \cap idle = idle \ {x}
      BY <1>8, <2>1, <2>2
    <3>2. Cardinality(idle \ {x}) = Cardinality(idle) - 1
      BY <1>9, FS_RemoveElement
    <3> QED
      BY <1>6, <1>9, <3>1, <3>2 DEF Least
  <2> QED
    BY <2>2, <2>3, <2>4
<1> QED
  BY <1>10, <1>11

------------------------------------------------------------------------------
(* The theorems *)

LEMMA SpecIInv == Spec => []IInv
BY InitIInv, NextIInv, PTL DEF Spec

\* The loop keeps its types: no demand, count or planned memory ever leaves
\* the naturals, whatever the input.
THEOREM TypeCorrect == Spec => []TypeOK
<1>1. IInv => TypeOK
  BY DEF IInv
<1> QED
  BY <1>1, SpecIInv, PTL

\* For every lane and input no round starts a slot beyond a budget or beyond
\* qae_concurrency (plan.go makePlan: "Every start keeps ...").
THEOREM BudgetSafe == Spec => []BudgetKept
<1>1. IInv => BudgetKept
  BY DEF IInv
<1> QED
  BY <1>1, SpecIInv, PTL

\* For every lane and input each start of a round has an instance of its own,
\* free and with its required file.
THEOREM InstancesSafe == Spec => []InstancesKept
<1>1. IInv => InstancesKept
  BY DEF IInv
<1> QED
  BY <1>1, SpecIInv, PTL

\* For every lane and input a set refused once would be refused at every
\* later turn of the round (plan.go planStarts: "Every rule only tightens").
THEOREM RefusalsSafe == Spec => []RefusalsStand
<1>1. IInv => RefusalsStand
  BY DEF IInv
<1> QED
  BY <1>1, SpecIInv, PTL

\* For every lane and input the containers a round starts, with those still
\* starting, leave the host its reserve, and the unsigned subtraction of the
\* check never wraps (plan.go planStarts: MemAvailable, plannedBytes).
THEOREM MemorySafe == Spec => []MemoryKept
<1>1. IInv => MemoryKept
  <2> SUFFICES ASSUME IInv, st.starts # {}
               PROVE  StartingBytes(in) + Bytes(StartedRefs) + ReserveBytes <= in.mem
    BY DEF MemoryKept, Bytes
  <2> QED
    BY DEF IInv, Planned
<1> QED
  BY <1>1, SpecIInv, PTL

\* For every lane and input, a round that ends has given each set its desired count unless it was
\* refused, has met every job where all of them fitted, and has shared what did not; and what it
\* idle-stops and recycles leaves the assigned jobs and the warm pools their slots (plan.go
\* planStarts, planIdleStops, planRecycles).
THEOREM NeedsAreServed == Spec => []NeedsServed
<1>1. Spec => []DInv
  BY InitIInv, NextIInv, InitDInv, NextDInv, PTL DEF Spec
<1>2. IInv /\ DInv => NeedsServed
  <2>1. IInv => IsPlanInput(in)
    BY DEF IInv, TypeOK
  <2> QED
    BY <2>1, DemandIsMet, NeededIsSpared DEF NeedsServed
<1> QED
  BY <1>1, <1>2, SpecIInv, PTL
=============================================================================
