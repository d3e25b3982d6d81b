--------------------------- MODULE LanePlanner ---------------------------
(***************************************************************************)
(* The pure planner of a runner lane (lanes/listener/plan.go).  One round  *)
(* takes an input - what the caller read of set demand, occupied instances *)
(* and free memory - and decides starts, idle stops and warm recycles.     *)
(*                                                                         *)
(* planStarts is a loop.  StartTurn is one turn of it, so that LanePlan    *)
(* can check what holds between turns, and PlanStarts the whole loop, for  *)
(* the modules that run a round in one step.                               *)
(*                                                                         *)
(* An input is a record:                                                   *)
(*   now        the clock                                                  *)
(*   mem        MemAvailable                                               *)
(*   missing    the instances whose required file is absent                *)
(*   known      the sets with statistics                                   *)
(*   assigned   set -> the jobs GitHub assigned to it and not yet done     *)
(*   minimum    set -> its warm pool                                       *)
(*   occupied   instance -> slot, for every instance in use                *)
(*   unitStart  instance -> when its unit became active, where that is     *)
(*              known                                                      *)
(***************************************************************************)
EXTENDS Integers, FiniteSets, FiniteSetsExt

CONSTANTS
    SetKeys,          \* the scale sets
    NoSet,            \* the zero SetKey, of an instance a foreign unit holds
    KindOf,           \* set -> its kind
    Rank,             \* set -> the place of its name in string order
    Kinds,            \* the configured kinds
    QAEKind,          \* the kind that qae_concurrency limits
    SharedSlots,      \* budget.slots
    OwnSlots,         \* each kind with a budget of its own -> that budget
    QAEConcurrency,   \* budget.qae_concurrency
    Instances,        \* kind -> n, its instances being 1..n
    ContainerBytes,   \* kind -> the memory of one container
    ReserveBytes,     \* admission.reserve_bytes
    Word,             \* 2^64: memory is counted in unsigned words
    IdleStopSec,
    WarmMaxAgeSec

ASSUME PlannerAssumption ==
    /\ IsFiniteSet(SetKeys) /\ IsFiniteSet(Kinds) /\ NoSet \notin SetKeys
    /\ KindOf \in [SetKeys -> Kinds]
    /\ Rank \in [SetKeys -> Nat]
    /\ \A k, l \in SetKeys : Rank[k] = Rank[l] => k = l
    /\ "" \notin Kinds
    /\ SharedSlots \in Nat
    /\ DOMAIN OwnSlots \subseteq Kinds
    /\ \A kind \in DOMAIN OwnSlots : OwnSlots[kind] \in Nat
    /\ QAEConcurrency \in Nat
    /\ Instances \in [Kinds -> Nat]
    /\ ContainerBytes \in [Kinds -> Nat]
    /\ ReserveBytes \in Nat
    /\ Word \in Nat
    /\ IdleStopSec \in Nat /\ WarmMaxAgeSec \in Nat

Phases == {"starting", "idle", "busy", "stopping", "done"}

\* The phases in which a slot serves its set's demand.
ActivePhases == {"starting", "idle", "busy"}

\* A kind's budget is its own or the lane's shared one, named "".
BudgetOf(kind) == IF kind \in DOMAIN OwnSlots THEN kind ELSE ""

Budgets == DOMAIN OwnSlots \cup {""}

BudgetSlots(b) == IF b = "" THEN SharedSlots ELSE OwnSlots[b]

SlotsOf(kind) == BudgetSlots(BudgetOf(kind))

\* An instance is a kind and a number, held as a pair.
Refs == UNION {{kind} \X (1 .. SlotsOf(kind)) : kind \in Kinds}

\* validateKinds: no kind requires more files than it has slots.
ASSUME InstancesAssumption == \A kind \in Kinds : Instances[kind] <= SlotsOf(kind)

Least(a, b) == IF a < b THEN a ELSE b

Positive(n) == IF n > 0 THEN n ELSE 0

\* Unsigned subtraction: it wraps below zero.
WordMinus(a, b) == IF b <= a THEN a - b ELSE Word + a - b

------------------------------------------------------------------------------
(* Demand *)

Tiers == {"job", "warm"}

SlotsIn(in, k, phases) ==
    {r \in DOMAIN in.occupied : /\ in.occupied[r].set = k
                                /\ in.occupied[r].phase \in phases}

ActiveSlots(in, k) == Cardinality(SlotsIn(in, k, ActivePhases))

Desired(in, k) == Least(SlotsOf(KindOf[k]), in.minimum[k] + in.assigned[k])

\* Job demand is what the assigned jobs still lack; warm demand the rest of
\* what the set lacks.
Wants(in, k) ==
    LET slots  == SlotsOf(KindOf[k])
        active == ActiveSlots(in, k)
        jobs   == Positive(Least(slots, in.assigned[k]) - active)
        total  == Desired(in, k) - active
    IN  [t \in Tiers |-> IF k \notin in.known \/ total <= 0 THEN 0
                         ELSE IF t = "job" THEN jobs ELSE total - jobs]

------------------------------------------------------------------------------
(* Starts *)

StartingBytes(in) ==
    MapThenSumSet(LAMBDA r : ContainerBytes[r[1]],
                  {r \in DOMAIN in.occupied : in.occupied[r].phase = "starting"})

HeldBy(instances, b) == {r \in instances : BudgetOf(r[1]) = b}

QAEHeld(instances) == {r \in instances : r[1] = QAEKind}

\* The loop's state before its first turn.
BeforeStarts(in) ==
    [want    |-> [k \in SetKeys |-> Wants(in, k)],
     active  |-> [k \in SetKeys |-> ActiveSlots(in, k)],
     taken   |-> DOMAIN in.occupied,
     used    |-> [b \in Budgets |-> Cardinality(HeldBy(DOMAIN in.occupied, b))],
     usedQAE |-> Cardinality(QAEHeld(DOMAIN in.occupied)),
     planned |-> StartingBytes(in),
     starts  |-> {},
     refused |-> {}]

Wanting(st, t) == {k \in SetKeys : st.want[k][t] > 0}

\* (mutant) the warm pools come first
TierOf_WarmFirst(st) == IF Wanting(st, "warm") # {} THEN "warm" ELSE "job"

\* Warm demand waits until no job demand is left.
TierOf(st) == IF Wanting(st, "job") # {} THEN "job" ELSE "warm"

\* The next start goes to the set with the fewest active slots, ties in
\* name order.
Neediest(st, k) ==
    LET wanting == Wanting(st, TierOf(st))
    IN  /\ k \in wanting
        /\ \A l \in wanting \ {k} :
              \/ st.active[k] < st.active[l]
              \/ st.active[k] = st.active[l] /\ Rank[k] < Rank[l]

\* (mutant) only the occupied instances a listener's slot holds are taken
FreeInstances_Any(st, kind) == 1 .. Instances[kind]

FreeInstances(st, kind) ==
    {n \in 1 .. Instances[kind] : <<kind, n>> \notin st.taken}

UsableInstances(in, st, kind) ==
    {n \in FreeInstances(st, kind) : <<kind, n>> \notin in.missing}

LowestFree(in, st, kind) ==
    CHOOSE n \in UsableInstances(in, st, kind) :
        \A m \in UsableInstances(in, st, kind) : n <= m

\* (mutant) the unsigned difference may wrap
MemoryShort_Unguarded(in, st, kind) ==
    WordMinus(in.mem, st.planned) < ContainerBytes[kind] + ReserveBytes

MemoryShort(in, st, kind) ==
    \/ in.mem < st.planned
    \/ WordMinus(in.mem, st.planned) < ContainerBytes[kind] + ReserveBytes

\* (mutant) the budgets are not looked at
MayStart_NoBudget(in, st, kind) ==
    /\ UsableInstances(in, st, kind) # {}
    /\ kind = QAEKind => st.usedQAE < QAEConcurrency
    /\ ~MemoryShort(in, st, kind)

\* The checks of one start.  Which one fails is only logged, so the order of
\* the checks does not matter.
MayStart(in, st, kind) ==
    /\ UsableInstances(in, st, kind) # {}
    /\ st.used[BudgetOf(kind)] < SlotsOf(kind)
    /\ kind = QAEKind => st.usedQAE < QAEConcurrency
    /\ ~MemoryShort(in, st, kind)

\* (mutant) only the last start's memory is planned
StartOne_LastMemory(in, st, k) ==
    LET ref == <<KindOf[k], LowestFree(in, st, KindOf[k])>>
    IN  [st EXCEPT !.want[k][TierOf(st)] = @ - 1, !.active[k] = @ + 1,
                   !.taken = @ \cup {ref},
                   !.used[BudgetOf(KindOf[k])] = @ + 1,
                   !.usedQAE = IF KindOf[k] = QAEKind THEN @ + 1 ELSE @,
                   !.planned = ContainerBytes[KindOf[k]],
                   !.starts = @ \cup {[set |-> k, ref |-> ref]}]

StartOne(in, st, k) ==
    LET kind == KindOf[k]
        ref  == <<kind, LowestFree(in, st, kind)>>
    IN  [st EXCEPT !.want[k][TierOf(st)] = @ - 1,
                   !.active[k] = @ + 1,
                   !.taken = @ \cup {ref},
                   !.used[BudgetOf(kind)] = @ + 1,
                   !.usedQAE = IF kind = QAEKind THEN @ + 1 ELSE @,
                   !.planned = @ + ContainerBytes[kind],
                   !.starts = @ \cup {[set |-> k, ref |-> ref]}]

\* A set refused once gets no more starts this round.
RefuseSet(st, k) ==
    [st EXCEPT !.want[k] = [t \in Tiers |-> 0], !.refused = @ \cup {k}]

StartTurn(in, st, k) ==
    IF MayStart(in, st, KindOf[k]) THEN StartOne(in, st, k) ELSE RefuseSet(st, k)

\* Every turn is a start or the one refusal of a set.
MaxTurns == Cardinality(Refs) + Cardinality(SetKeys)

TurnOf(in, st) ==
    IF Wanting(st, TierOf(st)) = {} THEN st
    ELSE StartTurn(in, st, CHOOSE k \in SetKeys : Neediest(st, k))

\* after[n] holds the loop's one state after n turns.
PlanStarts(in) ==
    LET after[n \in 0 .. MaxTurns] ==
            IF n = 0 THEN {BeforeStarts(in)} ELSE {TurnOf(in, st) : st \in after[n - 1]}
    IN  UNION {st.starts : st \in after[MaxTurns]}

------------------------------------------------------------------------------
(* Idle stops and warm recycles *)

IdleOf(in, k) == SlotsIn(in, k, {"idle"})

\* sortIdle's order: by Since, then by instance.
IdleBefore(in, r, s) ==
    \/ in.occupied[r].since < in.occupied[s].since
    \/ in.occupied[r].since = in.occupied[s].since /\ r[2] < s[2]

\* (mutant) the newest first
OlderIdle_Newer(in, k, r) == Cardinality({s \in IdleOf(in, k) : IdleBefore(in, r, s)})

\* How many idle slots of its set are older than r.
OlderIdle(in, k, r) == Cardinality({s \in IdleOf(in, k) : IdleBefore(in, s, r)})

\* Of a set without an assigned job, the oldest idle slots beyond its warm
\* pool, if they are old enough.
IdleStopsOf(in, k) ==
    {r \in IdleOf(in, k) :
        /\ k \in in.known /\ in.assigned[k] = 0
        /\ OlderIdle(in, k, r) < Cardinality(IdleOf(in, k)) - in.minimum[k]
        /\ in.now - in.occupied[r].since >= IdleStopSec}

PlanIdleStops(in) == UNION {IdleStopsOf(in, k) : k \in SetKeys}

\* A set with a slot on its way up or down does not recycle.
Settling(in, stops, k) ==
    \/ SlotsIn(in, k, {"starting", "stopping"}) # {}
    \/ SlotsIn(in, k, Phases) \cap stops # {}

Recyclable(in, k) ==
    {r \in IdleOf(in, k) :
        /\ r \in DOMAIN in.unitStart
        /\ in.now - in.unitStart[r] >= WarmMaxAgeSec
        /\ in.now >= in.occupied[r].noRecycleBefore}

UnitBefore(in, r, s) ==
    \/ in.unitStart[r] < in.unitStart[s]
    \/ in.unitStart[r] = in.unitStart[s] /\ r[2] < s[2]

\* (mutant) only sets without a warm pool recycle
RecyclesOf_NoPool(in, stops, k) ==
    {r \in Recyclable(in, k) : in.minimum[k] = 0 /\ ~Settling(in, stops, k)}

\* The slot with the oldest unit, while the set has all it wants and every
\* assigned job is on a busy slot.
RecyclesOf(in, stops, k) ==
    {r \in Recyclable(in, k) :
        /\ k \in in.known /\ in.minimum[k] # 0
        /\ \A s \in Recyclable(in, k) \ {r} : UnitBefore(in, r, s)
        /\ ~Settling(in, stops, k)
        /\ ActiveSlots(in, k) >= Desired(in, k)
        /\ in.assigned[k] <= Cardinality(SlotsIn(in, k, {"busy"}))}

PlanRecycles(in, stops) == UNION {RecyclesOf(in, stops, k) : k \in SetKeys}

\* makePlan: a round's starts, idle stops and recycles.
MakePlan(in) ==
    LET idle == PlanIdleStops(in)
    IN  [starts |-> PlanStarts(in), idleStops |-> idle, recycles |-> PlanRecycles(in, idle)]

\* The instances queue.json names as the warm pool: the newest idle slots.
WarmInstances(in, k) ==
    {r \in IdleOf(in, k) :
        Cardinality({s \in IdleOf(in, k) : IdleBefore(in, r, s)}) < in.minimum[k]}
=============================================================================
