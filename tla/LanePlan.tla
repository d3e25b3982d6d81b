----------------------------- MODULE LanePlan -----------------------------
(***************************************************************************)
(* One round of planStarts, turn by turn, over a set of inputs, with the   *)
(* properties a round of planning must have.  LanePlan_proofs proves the   *)
(* safety ones for every input.                                            *)
(***************************************************************************)
EXTENDS LanePlanner

CONSTANT Inputs

OccupiedSlot ==
    [set : SetKeys \cup {NoSet}, phase : Phases, since : Nat, noRecycleBefore : Nat]

\* The inputs the caller can build (scaler.go replan).
IsPlanInput(i) ==
    /\ i.now \in Nat /\ i.mem \in 0 .. Word - 1
    /\ i.missing \subseteq Refs /\ i.known \subseteq SetKeys
    /\ i.assigned \in [SetKeys -> Nat] /\ i.minimum \in [SetKeys -> Nat]
    /\ DOMAIN i.occupied \subseteq Refs /\ IsFiniteSet(DOMAIN i.occupied)
    /\ i.occupied \in [DOMAIN i.occupied -> OccupiedSlot]
    /\ \A r \in DOMAIN i.occupied :
          i.occupied[r].set # NoSet => KindOf[i.occupied[r].set] = r[1]
    /\ DOMAIN i.unitStart \subseteq Refs
    /\ i.unitStart \in [DOMAIN i.unitStart -> Int]

ASSUME LanePlanAssumption == \A i \in Inputs : IsPlanInput(i)

VARIABLES in, st

vars == <<in, st>>

TypeOK ==
    /\ IsPlanInput(in)
    /\ st \in [want : [SetKeys -> [Tiers -> Nat]], active : [SetKeys -> Nat],
               taken : SUBSET Refs, used : [Budgets -> Nat], usedQAE : Nat,
               planned : Nat, starts : SUBSET [set : SetKeys, ref : Refs],
               refused : SUBSET SetKeys]

Init ==
    /\ in \in Inputs
    /\ st = BeforeStarts(in)

Start(k) ==
    /\ Neediest(st, k)
    /\ MayStart(in, st, KindOf[k])
    /\ st' = StartOne(in, st, k)
    /\ UNCHANGED in

Refuse(k) ==
    /\ Neediest(st, k)
    /\ ~MayStart(in, st, KindOf[k])
    /\ st' = RefuseSet(st, k)
    /\ UNCHANGED in

Next == \E k \in SetKeys : Start(k) \/ Refuse(k)

Spec == Init /\ [][Next]_vars /\ WF_vars(Next)

Finished == \A t \in Tiers : Wanting(st, t) = {}

------------------------------------------------------------------------------
(* Properties *)

StartedRefs == {s.ref : s \in st.starts}

\* No round starts a slot beyond a budget or beyond qae_concurrency, counting
\* every occupied instance, whoever started it (plan.go makePlan: "Every start
\* keeps ...").
BudgetKept ==
    /\ \A b \in Budgets :
          HeldBy(StartedRefs, b) # {} =>
              Cardinality(HeldBy(DOMAIN in.occupied \cup StartedRefs, b)) <= BudgetSlots(b)
    /\ QAEHeld(StartedRefs) # {} =>
          Cardinality(QAEHeld(DOMAIN in.occupied \cup StartedRefs)) <= QAEConcurrency

\* Every start is on an instance of its set's kind that was free, has its
\* required file, and is given to no other start of the round.
InstancesKept ==
    \A s \in st.starts :
        /\ s.ref[1] = KindOf[s.set] /\ s.ref[2] \in 1 .. Instances[s.ref[1]]
        /\ s.ref \notin DOMAIN in.occupied /\ s.ref \notin in.missing
        /\ \A t \in st.starts : t.ref = s.ref => t = s

\* A round's starts, with the slots still starting, leave the reserve free:
\* memory is counted in unsigned words, and no subtraction wraps.
MemoryKept ==
    st.starts # {} =>
        StartingBytes(in) + MapThenSumSet(LAMBDA r : ContainerBytes[r[1]], StartedRefs)
            + ReserveBytes <= in.mem

\* A refused set would be refused again at any later turn, so giving its
\* whole remaining demand up loses no start (plan.go planStarts: "Every rule
\* only tightens as the round's starts are planned").
RefusalsStand == \A k \in st.refused : ~MayStart(in, st, KindOf[k])

JobTarget(k) == Least(SlotsOf(KindOf[k]), in.assigned[k])

GotStart(k) == \E s \in st.starts : s.set = k

JobsWanted(s, sets) == MapThenSumSet(LAMBDA k : s.want[k]["job"], sets)

JobsBytes(s) ==
    MapThenSumSet(LAMBDA k : s.want[k]["job"] * ContainerBytes[KindOf[k]], SetKeys)

SetsOf(kind) == {k \in SetKeys : KindOf[k] = kind}

SetsIn(b) == {k \in SetKeys : BudgetOf(KindOf[k]) = b}

\* Whether every job demand left in the round fits beside what is taken.
FitsIn(s) ==
    /\ \A b \in Budgets : s.used[b] + JobsWanted(s, SetsIn(b)) <= BudgetSlots(b)
    /\ \A kind \in Kinds :
          JobsWanted(s, SetsOf(kind)) <= Cardinality(UsableInstances(in, s, kind))
    /\ QAEKind \in Kinds => s.usedQAE + JobsWanted(s, SetsOf(QAEKind)) <= QAEConcurrency
    /\ s.planned + ReserveBytes + JobsBytes(s) <= in.mem

JobsFit == FitsIn(BeforeStarts(in))

\* The round meets what it can, and shares it: every set reaches its desired count unless refused,
\* no start exceeds it, and when the job demand of all sets fits, all of it is met - no warm pool
\* ever crowds a job out. No set takes what a set of the same kind lacks: a set that started slots
\* ends at most one slot ahead of a set left short, except for jobs of its own when the other lacks
\* only warm slots.
DemandMet ==
    Finished =>
        /\ \A k \in in.known : st.active[k] >= Desired(in, k) \/ k \in st.refused
        /\ \A k \in SetKeys : GotStart(k) => st.active[k] <= Desired(in, k)
        /\ JobsFit => \A k \in in.known : st.active[k] >= JobTarget(k)
        /\ \A k, l \in in.known :
               /\ KindOf[k] = KindOf[l] /\ k # l
               /\ GotStart(k) /\ st.active[l] < Desired(in, l)
               => \/ st.active[k] <= st.active[l] + 1
                  \/ st.active[k] <= JobTarget(k) /\ JobTarget(l) <= st.active[l]

\* Idle stops and recycles of a round spare what is needed: the slots left
\* cover the assigned jobs as far as the slots before did, the idle ones left
\* cover the warm pool but for the one being recycled, and nothing queue.json
\* names as warm is idle-stopped.
StopsSpareNeeded ==
    LET stops    == PlanIdleStops(in)
        recycles == PlanRecycles(in, stops)
    IN  \A k \in in.known :
            LET idle == IdleOf(in, k)
                left == SlotsIn(in, k, ActivePhases) \ (stops \cup recycles)
                gone == Cardinality(idle \cap recycles)
            IN  /\ Cardinality(left) >= Least(ActiveSlots(in, k), JobTarget(k))
                /\ Cardinality(left \cap idle) >= Least(Cardinality(idle), in.minimum[k]) - gone
                /\ gone <= 1 /\ (gone = 1 => idle \cap stops = {})
                /\ stops \cap WarmInstances(in, k) = {}

\* A round of planning meets what is needed and takes nothing away that is: what it starts, and what it stops.
NeedsServed == DemandMet /\ StopsSpareNeeded
=============================================================================
