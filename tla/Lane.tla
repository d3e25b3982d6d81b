------------------------------- MODULE Lane -------------------------------
(***************************************************************************)
(* A runner lane at work: the listener's slots and the goroutines that     *)
(* start and stop them (lanes/listener/scaler.go), the run-dir files       *)
(* (state.go), the slot units systemd runs (lanes/bin/provision-lane.sh    *)
(* and lane-slot.sh), and GitHub's runners and job messages as the code    *)
(* uses them.                                                              *)
(*                                                                         *)
(* A slot is started for one runner, so a runner also names the slot       *)
(* object and its goroutine: op[r] is where the goroutine working on r's   *)
(* slot stands.  Runner identifiers are reused once nothing refers to      *)
(* them, which stands for the fresh names of the code.                     *)
(*                                                                         *)
(* Time is a choice: a reconcile finds any set of idle slots older than    *)
(* idle_stop_sec and any set of warm units older than warm_max_age_sec.    *)
(***************************************************************************)
EXTENDS LanePlanner

CONSTANTS
    RunnersPerRef,    \* bound: runner identifiers of one instance
    MaxQueued,        \* bound: set -> its jobs waiting for a runner
    MaxFaults,        \* bound: failures of any kind in one behaviour
    MemReadings,      \* what MemAvailable may read; 0 when unreadable
    MinRunners,       \* set -> min_runners
    DroppedSets,      \* the sets a user's lane may stop serving
    NoRunner, NoSlot

ASSUME LaneAssumption ==
    /\ RunnersPerRef \in Nat /\ MaxFaults \in Nat
    /\ MaxQueued \in [SetKeys -> Nat]
    /\ MemReadings \subseteq 0 .. Word - 1
    /\ DroppedSets \subseteq SetKeys
    /\ MinRunners \in [SetKeys -> Nat]
    /\ IdleStopSec > 0

Runners == Refs \X (1 .. RunnersPerRef)
RefOf(r) == r[1]

VARIABLES
    (* the listener, lost when it stops *)
    up,          \* whether it runs
    served,      \* the sets it serves (l.sets)
    assigned,    \* set -> its statistics, -1 before the first message
    slots,       \* instance -> slot (l.slots)
    op,          \* runner -> the step its goroutine is at
    removing,    \* runners a background removal is in flight for
    (* the machine *)
    file,        \* instance -> the runner its jit and job files name
    marker,      \* the instances with an idle-stop file
    unit,        \* instance -> the state of its unit
    load,        \* instance -> the runner its container was started with
    (* GitHub *)
    runner,      \* runner -> its registration
    setOf,       \* runner -> the set it was minted for
    queued,      \* set -> assigned jobs no runner has taken yet
    events,      \* job messages not yet delivered
    (* history *)
    faults,      \* failures so far
    orphans      \* registrations a failure left to the provisioner's sweep

listener == <<up, served, assigned, slots, op, removing>>
machine  == <<file, marker, unit, load>>
github   == <<runner, setOf, queued, events>>
vars     == <<listener, machine, github, faults, orphans>>

OpSteps == {"none", "mint", "write", "start", "starting", "started", "failed",
            "undo", "marker", "remove", "stop", "stopping"}

UnitStates == {"inactive", "activating", "active", "deactivating", "cleaned"}

Slot == [set : SetKeys \cup {NoSet}, phase : Phases, runner : Runners]

ASSUME NoneAssumption == NoRunner \notin Runners /\ NoSlot \notin Slot

TypeOK ==
    /\ up \in BOOLEAN
    /\ served \subseteq SetKeys
    /\ assigned \in [SetKeys -> Int]
    /\ slots \in [Refs -> Slot \cup {NoSlot}]
    /\ op \in [Runners -> OpSteps]
    /\ removing \subseteq Runners
    /\ file \in [Refs -> Runners \cup {NoRunner}]
    /\ marker \subseteq Refs
    /\ unit \in [Refs -> UnitStates]
    /\ load \in [Refs -> Runners \cup {NoRunner}]
    /\ runner \in [Runners -> {"none", "ready", "busy"}]
    /\ setOf \in [Runners -> SetKeys \cup {NoSet}]
    /\ queued \in [SetKeys -> Nat]
    /\ events \subseteq {"started", "completed"} \X Runners
    /\ faults \in 0 .. MaxFaults
    /\ orphans \subseteq Runners

Init ==
    /\ up = TRUE /\ served = {} /\ removing = {}
    /\ assigned = [k \in SetKeys |-> -1]
    /\ slots = [x \in Refs |-> NoSlot]
    /\ op = [r \in Runners |-> "none"]
    /\ file = [x \in Refs |-> NoRunner]
    /\ marker = {}
    /\ unit = [x \in Refs |-> "inactive"]
    /\ load = [x \in Refs |-> NoRunner]
    /\ runner = [r \in Runners |-> "none"]
    /\ setOf = [r \in Runners |-> NoSet]
    /\ queued = [k \in SetKeys |-> 0]
    /\ events = {}
    /\ faults = 0 /\ orphans = {}

Fault == faults < MaxFaults /\ faults' = faults + 1

\* systemd reports both the cleanup and what follows it as deactivating.
Running(x) == unit[x] # "inactive"

Tracks(r) == slots[RefOf(r)] # NoSlot /\ slots[RefOf(r)].runner = r

SetPhase(r, phase) == [slots EXCEPT ![RefOf(r)].phase = phase]

\* A goroutine's change of phase, which holds only for its own slot and only
\* while the slot is in the phase the goroutine left it in.
PhaseIf(r, from, to) ==
    IF Tracks(r) /\ slots[RefOf(r)].phase = from THEN SetPhase(r, to) ELSE slots

Forget(r) == IF Tracks(r) THEN [slots EXCEPT ![RefOf(r)] = NoSlot] ELSE slots

TotalAssigned(k) ==
    queued[k] + Cardinality({r \in Runners : runner[r] = "busy" /\ setOf[r] = k})

\* The instances in some way in use.
InUse == {x \in Refs : Running(x) \/ file[x] # NoRunner \/ slots[x] # NoSlot}

------------------------------------------------------------------------------
(* reconcile: refresh, plan, begin *)

Tracked == {x \in Refs : slots[x] # NoSlot}

\* A start or an idle stop in flight owns its instance, whatever the unit does.
Owned == {x \in Tracked : Running(x) \/ slots[x].phase \in {"starting", "stopping"}}

\* (mutant) a done slot is kept
Lost_KeepsDone == {x \in Tracked \ Owned : slots[x].phase # "done"}

Lost == Tracked \ Owned

Leftover == {x \in Refs \ Tracked : ~Running(x) /\ file[x] # NoRunner}

\* (mutant) units of no slot are not counted
Foreign_NotCounted == {}

Foreign == {x \in Refs \ Tracked : Running(x)}

\* (mutant) only what still has its files
Withdrawn_OnlyWithFiles == {file[x] : x \in Lost \cup Leftover} \ {NoRunner}

\* The runners refresh removes from GitHub in the background.
Withdrawn ==
    {slots[x].runner : x \in {y \in Lost : file[y] # NoRunner \/ slots[y].phase = "idle"}}
        \cup {file[x] : x \in Leftover}

\* The instances whose files refresh clears.
Cleared == Leftover \cup {x \in Lost : file[x] # NoRunner}

Now == IdleStopSec + WarmMaxAgeSec

Occupied(aged) ==
    [x \in Owned \cup Foreign |->
        [set   |-> IF x \in Foreign THEN NoSet ELSE slots[x].set,
         phase |-> IF x \in Foreign THEN "done" ELSE slots[x].phase,
         since |-> IF x \in aged THEN Now - IdleStopSec ELSE Now,
         noRecycleBefore |-> 0]]

\* A slot's set that is no longer served counts as having no job.
OrphanedSets == {slots[x].set : x \in Owned} \ served

\* warmUnitStarts asks only for the active units of idle slots of a warm pool.
WarmUnits ==
    {x \in Owned : slots[x].phase = "idle" /\ unit[x] = "active" /\ MinRunners[slots[x].set] > 0}

RoundInput(aged, old, mem) ==
    [now       |-> Now,
     mem       |-> mem,
     missing   |-> {},
     known     |-> {k \in served : assigned[k] >= 0} \cup OrphanedSets,
     assigned  |-> [k \in SetKeys |-> IF k \in served THEN assigned[k] ELSE 0],
     minimum   |-> [k \in SetKeys |-> IF k \in served THEN MinRunners[k] ELSE 0],
     occupied  |-> Occupied(aged),
     unitStart |-> [x \in WarmUnits |-> IF x \in old THEN Now - WarmMaxAgeSec ELSE Now]]

\* Nothing refers to the runner any more, once refresh is done.
Unused(r) ==
    /\ op[r] = "none" /\ r \notin removing \cup Withdrawn \cup orphans
    /\ runner[r] = "none"
    /\ file[RefOf(r)] # r /\ load[RefOf(r)] # r
    /\ Tracks(r) => RefOf(r) \in Lost
    /\ \A kind \in {"started", "completed"} : <<kind, r>> \notin events

RunnerFor(ref) == CHOOSE r \in Runners : RefOf(r) = ref /\ Unused(r)

\* The bound on identifiers: a start with none left waits for another round.
Startable(starts) == {s \in starts : \E r \in Runners : RefOf(r) = s.ref /\ Unused(r)}

StartAt(starts, x) == CHOOSE s \in starts : s.ref = x

\* Begin the plan's stops and starts on what refresh left.
Begin(starts, stops) ==
    LET starting == {s.ref : s \in starts}
        minted   == {RunnerFor(x) : x \in starting}
        stopped  == {slots[x].runner : x \in stops}
    IN  /\ slots' = [x \in Refs |->
               CASE x \in starting -> [set |-> StartAt(starts, x).set, phase |-> "starting",
                                       runner |-> RunnerFor(x)]
                 [] x \in stops -> [slots[x] EXCEPT !.phase = "stopping"]
                 [] x \in Lost \ starting -> NoSlot
                 [] OTHER -> slots[x]]
        /\ op' = [r \in Runners |-> IF r \in minted THEN "mint"
                                    ELSE IF r \in stopped THEN "marker" ELSE op[r]]
        /\ setOf' = [r \in Runners |->
                        IF r \in minted THEN StartAt(starts, RefOf(r)).set ELSE setOf[r]]

\* One reconcile under the lane's lock, with any idle slots aged, any warm
\* units old and any memory reading.
Reconcile(aged, old, mem) ==
    /\ up
    /\ \E plan \in {MakePlan(in) : in \in {RoundInput(aged, old, mem)}} :
          Begin(Startable(plan.starts), plan.idleStops \cup plan.recycles)
    /\ removing' = removing \cup Withdrawn
    /\ file' = [x \in Refs |-> IF x \in Cleared THEN NoRunner ELSE file[x]]
    /\ marker' = marker \ Cleared
    /\ UNCHANGED <<up, served, assigned, unit, load, runner, queued, events, faults, orphans>>

------------------------------------------------------------------------------
(* The goroutine of a start *)

Goroutine(r, step, next) == up /\ op[r] = step /\ op' = [op EXCEPT ![r] = next]

\* The runner is registered, and its answer read or lost.
Mint(r) ==
    /\ runner' = [runner EXCEPT ![r] = "ready"]
    /\ \/ /\ Goroutine(r, "mint", "write")
          /\ UNCHANGED <<slots, faults, orphans>>
       \/ /\ Goroutine(r, "mint", "none")
          /\ Fault
          /\ slots' = Forget(r)
          /\ orphans' = orphans \cup {r}
    /\ UNCHANGED <<up, served, assigned, removing, machine, setOf, queued, events>>

\* GitHub refuses, as it always does for a set no longer served.
MintFails(r) ==
    /\ Goroutine(r, "mint", "none")
    /\ Fault \/ (setOf[r] \notin served /\ UNCHANGED faults)
    /\ slots' = Forget(r)
    /\ UNCHANGED <<up, served, assigned, removing, machine, github, orphans>>

WriteFiles(r) ==
    /\ \/ /\ Goroutine(r, "write", "start")
          /\ file' = [file EXCEPT ![RefOf(r)] = r]
          /\ UNCHANGED faults
       \/ /\ Goroutine(r, "write", "undo")
          /\ Fault
          /\ UNCHANGED file
    /\ UNCHANGED <<up, served, assigned, slots, removing, marker, unit, load, github, orphans>>

\* systemd starts a unit that is down; systemctl waits for its prepare.
StartUnit(r) ==
    /\ Goroutine(r, "start", "starting")
    /\ unit[RefOf(r)] = "inactive"
    /\ unit' = [unit EXCEPT ![RefOf(r)] = "activating"]
    /\ UNCHANGED <<up, served, assigned, slots, removing, file, marker, load, github, faults, orphans>>

StartReturns(r) ==
    /\ \/ /\ Goroutine(r, "started", "none")
          /\ slots' = PhaseIf(r, "starting", "idle")
       \/ /\ Goroutine(r, "failed", "undo")
          /\ UNCHANGED slots
    /\ UNCHANGED <<up, served, assigned, removing, machine, github, faults, orphans>>

\* systemctl's own failure, whatever the unit does.
StartMisreported(r) ==
    /\ Goroutine(r, "starting", "undo")
    /\ Fault
    /\ UNCHANGED <<up, served, assigned, slots, removing, machine, github, orphans>>

\* What RemoveRunner does at GitHub: a busy runner is refused, one already
\* gone is no error.
Removed(r) == [runner EXCEPT ![r] = IF @ = "ready" THEN "none" ELSE @]

Refused(r) == runner[r] = "busy"

Undo(r) ==
    /\ Goroutine(r, "undo", "none")
    /\ \/ ~Refused(r) /\ runner' = Removed(r) /\ UNCHANGED <<faults, orphans>>
       \/ Refused(r) /\ UNCHANGED <<runner, faults, orphans>>
       \/ Fault /\ orphans' = orphans \cup {r} /\ UNCHANGED runner
    /\ file' = [file EXCEPT ![RefOf(r)] = NoRunner]
    /\ marker' = marker \ {RefOf(r)}
    /\ slots' = Forget(r)
    /\ UNCHANGED <<up, served, assigned, removing, unit, load, setOf, queued, events>>

------------------------------------------------------------------------------
(* The goroutine of an idle stop or a warm recycle, and the background
   removals *)

\* The run dir of an instance, where a record of the job keeps it beside the
\* slot's own files.
HasDir(x) == file[x] # NoRunner \/ (slots[x] # NoSlot /\ slots[x].phase \in {"busy", "done"})

AbortStop(r) == PhaseIf(r, "stopping", "idle")

WriteMarker(r) ==
    /\ \/ /\ Goroutine(r, "marker", "remove")
          /\ HasDir(RefOf(r))
          /\ marker' = marker \cup {RefOf(r)}
          /\ UNCHANGED <<slots, faults>>
       \/ /\ Goroutine(r, "marker", "none")
          /\ Fault \/ (~HasDir(RefOf(r)) /\ UNCHANGED faults)
          /\ slots' = AbortStop(r)
          /\ UNCHANGED marker
    /\ UNCHANGED <<up, served, assigned, removing, file, unit, load, github, orphans>>

\* (mutant) GitHub's refusal is not looked at
RemoveForStop_Unchecked(r) ==
    /\ Goroutine(r, "remove", "stop")
    /\ runner' = Removed(r)
    /\ UNCHANGED <<up, served, assigned, slots, removing, machine, setOf, queued, events, faults, orphans>>

RemoveForStop(r) ==
    /\ ~Refused(r)
    /\ Goroutine(r, "remove", "stop")
    /\ runner' = Removed(r)
    /\ UNCHANGED <<up, served, assigned, slots, removing, machine, setOf, queued, events, faults, orphans>>

\* A busy runner, or a failure before or after the removal took effect.
RemoveForStopFails(r) ==
    /\ Goroutine(r, "remove", "none")
    /\ \/ Refused(r) /\ UNCHANGED <<runner, faults>>
       \/ Fault /\ runner' \in {runner, Removed(r)}
    /\ marker' = marker \ {RefOf(r)}
    /\ slots' = AbortStop(r)
    /\ UNCHANGED <<up, served, assigned, removing, file, unit, load, setOf, queued, events, orphans>>

\* Stopping a unit that is starting fails its start.
StopUnit(r) ==
    LET x == RefOf(r)
        halts == unit[x] \in {"activating", "active"}
    IN  /\ up /\ op[r] = "stop"
        /\ unit' = [unit EXCEPT ![x] = IF halts THEN "deactivating" ELSE @]
        /\ op' = [q \in Runners |->
                    IF q = r THEN "stopping"
                    ELSE IF RefOf(q) = x /\ op[q] = "starting" /\ halts THEN "failed" ELSE op[q]]
        /\ UNCHANGED <<up, served, assigned, slots, removing, file, marker, load, github, faults, orphans>>

StopReturns(r) ==
    /\ Goroutine(r, "stopping", "none")
    /\ unit[RefOf(r)] = "inactive"
    /\ slots' = PhaseIf(r, "stopping", "done")
    /\ UNCHANGED <<up, served, assigned, removing, machine, github, faults, orphans>>

RemoveLater(r) ==
    /\ up /\ r \in removing
    /\ removing' = removing \ {r}
    /\ \/ ~Refused(r) /\ runner' = Removed(r) /\ UNCHANGED <<faults, orphans>>
       \/ Refused(r) /\ UNCHANGED <<runner, faults, orphans>>
       \/ Fault /\ orphans' = orphans \cup {r} /\ UNCHANGED runner
    /\ UNCHANGED <<up, served, assigned, slots, op, machine, setOf, queued, events>>

------------------------------------------------------------------------------
(* GitHub's messages to the listener *)

Deliver(kind, r) ==
    /\ up /\ setOf[r] \in served
    /\ <<kind, r>> \in events
    /\ events' = events \ {<<kind, r>>}
    /\ UNCHANGED <<up, served, assigned, op, removing, machine, runner, setOf, queued, faults, orphans>>

\* A slot at any phase but done is busy.
JobStarted(r) ==
    /\ Deliver("started", r)
    /\ slots' = IF Tracks(r) /\ slots[RefOf(r)].phase # "done" THEN SetPhase(r, "busy") ELSE slots

JobCompleted(r) ==
    /\ <<"started", r>> \notin events
    /\ Deliver("completed", r)
    /\ slots' = IF Tracks(r) THEN SetPhase(r, "done") ELSE slots

Statistics(k) ==
    /\ up /\ k \in served
    /\ assigned' = [assigned EXCEPT ![k] = TotalAssigned(k)]
    /\ UNCHANGED <<up, served, slots, op, removing, machine, github, faults, orphans>>

------------------------------------------------------------------------------
(* The sets, and the listener's own life *)

ServeSet(k) ==
    /\ up /\ k \notin served
    /\ served' = served \cup {k}
    /\ assigned' = [assigned EXCEPT ![k] = -1]
    /\ UNCHANGED <<up, slots, op, removing, machine, github, faults, orphans>>

\* A dropped set is deleted, with what waited in it.
DropSet(k) ==
    /\ up /\ k \in served \cap DroppedSets
    /\ served' = served \ {k}
    /\ queued' = [queued EXCEPT ![k] = 0]
    /\ events' = {e \in events : setOf[e[2]] # k}
    /\ UNCHANGED <<up, assigned, slots, op, removing, machine, runner, setOf, faults, orphans>>

\* The listener dies with its goroutines.  A registration no file names is
\* then nobody's, and so is one its slot's cleanup takes for removed - for the
\* idle-stop marker that is left - or has already left alone.
Crash ==
    /\ up /\ up' = FALSE
    /\ Fault
    /\ served' = {} /\ removing' = {}
    /\ assigned' = [k \in SetKeys |-> -1]
    /\ slots' = [x \in Refs |-> NoSlot]
    /\ op' = [r \in Runners |-> "none"]
    /\ orphans' = orphans \cup {r \in Runners : runner[r] = "ready"
                                          /\ \/ file[RefOf(r)] # r
                                             \/ RefOf(r) \in marker
                                             \/ unit[RefOf(r)] = "cleaned"}
    /\ UNCHANGED <<machine, github>>

\* A message the dead listener had taken off the queue.
LoseEvent(e) ==
    /\ ~up \/ setOf[e[2]] \notin served
    /\ events' = events \ {e}
    /\ UNCHANGED <<listener, machine, runner, setOf, queued, faults, orphans>>

\* rebuild: adopt what runs, clear what does not.
Restart ==
    /\ ~up /\ up' = TRUE
    /\ \E unreadable \in BOOLEAN :
        LET adopted == {x \in Refs : file[x] # NoRunner /\ (Running(x) \/ unreadable)}
            stale   == {x \in Refs : file[x] # NoRunner} \ adopted
        IN  /\ IF unreadable THEN Fault ELSE UNCHANGED faults
            /\ slots' = [x \in Refs |->
                   IF x \in adopted
                   THEN [set |-> setOf[file[x]], phase |-> "idle", runner |-> file[x]]
                   ELSE NoSlot]
            /\ removing' = {file[x] : x \in stale}
            /\ file' = [x \in Refs |-> IF x \in stale THEN NoRunner ELSE file[x]]
            /\ marker' = marker \ stale
    /\ UNCHANGED <<served, assigned, op, unit, load, github, orphans>>

------------------------------------------------------------------------------
(* The slot units *)

UnitMoves(x, from, to) == unit[x] = from /\ unit' = [unit EXCEPT ![x] = to]

\* The goroutine waiting for the unit to start hears how it ended.
StartEnds(x, step) ==
    op' = [r \in Runners |-> IF RefOf(r) = x /\ op[r] = "starting" THEN step ELSE op[r]]

\* prepare needs the slot's files, and the container takes its jit file.
PrepareOk(x) ==
    /\ file[x] # NoRunner
    /\ UnitMoves(x, "activating", "active")
    /\ load' = [load EXCEPT ![x] = file[x]]
    /\ StartEnds(x, "started")
    /\ UNCHANGED <<up, served, assigned, slots, removing, file, marker, github, faults, orphans>>

PrepareFails(x) ==
    /\ Fault \/ (file[x] = NoRunner /\ UNCHANGED faults)
    /\ UnitMoves(x, "activating", "deactivating")
    /\ StartEnds(x, "failed")
    /\ UNCHANGED <<up, served, assigned, slots, removing, file, marker, load, github, orphans>>

\* The container of x is gone: its runner ran its job, failed, or ran out of
\* time.
Exit(x) ==
    /\ \/ load[x] # NoRunner /\ runner[load[x]] = "none" /\ UNCHANGED faults
       \/ Fault
    /\ UnitMoves(x, "active", "deactivating")
    /\ UNCHANGED <<up, served, assigned, slots, op, removing, file, marker, load, github, orphans>>

\* cleanup deregisters the runner of the job file, unless an idle stop did.
Deregister(x) ==
    /\ UnitMoves(x, "deactivating", "cleaned")
    /\ LET r == file[x]
       IN  \/ /\ x \in marker \/ r = NoRunner
              /\ UNCHANGED <<runner, faults, orphans>>
           \/ /\ x \notin marker /\ r # NoRunner
              /\ \/ ~Refused(r) /\ runner' = Removed(r) /\ UNCHANGED <<faults, orphans>>
                 \/ Refused(r) /\ UNCHANGED <<runner, faults, orphans>>
                 \/ Fault /\ orphans' = orphans \cup {r} /\ UNCHANGED runner
    /\ UNCHANGED <<up, served, assigned, slots, op, removing, file, marker, load, setOf, queued, events>>

\* The job file goes last, and with it the instance is free.
CleanupFiles(x) ==
    /\ UnitMoves(x, "cleaned", "inactive")
    /\ file' = [file EXCEPT ![x] = NoRunner]
    /\ marker' = marker \ {x}
    /\ load' = [load EXCEPT ![x] = NoRunner]
    /\ UNCHANGED <<listener, github, faults, orphans>>

\* systemd kills a cleanup past TimeoutStopSec.
CleanupKilled(x) ==
    /\ unit[x] \in {"deactivating", "cleaned"}
    /\ Fault
    /\ unit' = [unit EXCEPT ![x] = "inactive"]
    /\ load' = [load EXCEPT ![x] = NoRunner]
    /\ UNCHANGED <<listener, file, marker, github, orphans>>

------------------------------------------------------------------------------
(* GitHub *)

JobArrives(k) ==
    /\ k \in served /\ queued[k] < MaxQueued[k]
    /\ queued' = [queued EXCEPT ![k] = @ + 1]
    /\ UNCHANGED <<listener, machine, runner, setOf, events, faults, orphans>>

TakeJob(r) ==
    /\ unit[RefOf(r)] = "active" /\ load[RefOf(r)] = r
    /\ runner[r] = "ready" /\ queued[setOf[r]] > 0
    /\ runner' = [runner EXCEPT ![r] = "busy"]
    /\ queued' = [queued EXCEPT ![setOf[r]] = @ - 1]
    /\ events' = events \cup {<<"started", r>>}
    /\ UNCHANGED <<listener, machine, setOf, faults, orphans>>

\* The job ends, or GitHub closes it once its runner is lost.
JobEnds(r) ==
    /\ runner[r] = "busy"
    /\ runner' = [runner EXCEPT ![r] = "none"]
    /\ events' = events \cup {<<"completed", r>>}
    /\ UNCHANGED <<listener, machine, setOf, queued, faults, orphans>>

\* The provisioner's sweep of offline registrations.
Sweep(r) ==
    /\ r \in orphans /\ runner[r] # "busy"
    /\ runner' = Removed(r)
    /\ orphans' = orphans \ {r}
    /\ UNCHANGED <<listener, machine, setOf, queued, events, faults>>

------------------------------------------------------------------------------

AnyReconcile ==
    \E aged \in SUBSET {x \in Owned : slots[x].phase = "idle"}, old \in SUBSET WarmUnits,
       mem \in MemReadings : Reconcile(aged, old, mem)

StartStep(r) ==
    \/ Mint(r) \/ MintFails(r) \/ WriteFiles(r) \/ StartUnit(r) \/ StartReturns(r) \/ Undo(r)

StopStep(r) ==
    \/ WriteMarker(r) \/ RemoveForStop(r) \/ RemoveForStopFails(r)
    \/ StopUnit(r) \/ StopReturns(r)

UnitStep(x) == PrepareOk(x) \/ PrepareFails(x) \/ Exit(x) \/ Deregister(x) \/ CleanupFiles(x)

Next ==
    \/ AnyReconcile
    \/ \E r \in Runners : \/ StartStep(r) \/ StartMisreported(r) \/ StopStep(r)
                          \/ RemoveLater(r) \/ JobStarted(r) \/ JobCompleted(r)
                          \/ TakeJob(r) \/ JobEnds(r) \/ Sweep(r)
    \/ \E k \in SetKeys : Statistics(k) \/ ServeSet(k) \/ DropSet(k) \/ JobArrives(k)
    \/ \E x \in Refs : UnitStep(x) \/ CleanupKilled(x)
    \/ \E e \in events : LoseEvent(e)
    \/ Crash \/ Restart

Spec == Init /\ [][Next]_vars

\* The goroutines run, the messages arrive, the units and jobs end, and a
\* reconcile every five seconds sees slots and units age and memory freed.
\* GitHub keeps offering a waiting job: it reaches a runner that is there
\* again and again.
Fairness ==
    /\ WF_vars(Reconcile(Refs, Refs, CHOOSE m \in MemReadings : \A n \in MemReadings : n <= m))
    /\ \A r \in Runners :
          /\ WF_vars(StartStep(r)) /\ WF_vars(StopStep(r)) /\ WF_vars(RemoveLater(r))
          /\ WF_vars(JobStarted(r)) /\ WF_vars(JobCompleted(r))
          /\ SF_vars(TakeJob(r)) /\ WF_vars(JobEnds(r)) /\ WF_vars(Sweep(r))
    /\ \A k \in SetKeys : WF_vars(Statistics(k)) /\ WF_vars(ServeSet(k))
    /\ \A x \in Refs : WF_vars(UnitStep(x))
    /\ WF_vars(Restart)

FairSpec == Spec /\ Fairness

------------------------------------------------------------------------------
(* Properties *)

HeldOf(b) == {x \in InUse : BudgetOf(x[1]) = b}

\* However starts, stops, crashes, restarts and foreign units interleave, the
\* instances in use stay within every budget and within qae_concurrency.
BudgetHeld ==
    /\ \A b \in Budgets : Cardinality(HeldOf(b)) <= BudgetSlots(b)
    /\ QAEKind \in Kinds => Cardinality(QAEHeld(InUse)) <= QAEConcurrency

\* The files beside a running container are its own or gone, so its cleanup
\* deregisters no other runner, and a slot the listener tracks on an active
\* unit is the one whose container runs there; a start reaches its unit only when the unit is down.
FilesNameUnit ==
    /\ \A r \in Runners : op[r] = "start" => unit[RefOf(r)] = "inactive"
    /\ \A x \in Refs : unit[x] = "active" =>
         /\ load[x] # NoRunner /\ file[x] \in {load[x], NoRunner}
         /\ slots[x] # NoSlot => slots[x].runner = load[x]

\* A registration that may still take a job is always someone's to remove: a
\* goroutine's, the files', the slot's, or - after a failure the code only
\* logs - the provisioner's sweep's.
NoSilentLeak ==
    \A r \in Runners : runner[r] = "ready" =>
        \/ r \in orphans \cup removing
        \/ op[r] \notin {"none", "mint", "stop", "stopping"}
        \/ file[RefOf(r)] = r
        \/ Tracks(r) /\ slots[RefOf(r)].phase = "idle"

\* A goroutine about to stop its slot's unit has taken its runner off GitHub:
\* the slot's own container runs no job and can take none.
StopSparesOwnJob ==
    \A r \in Runners : op[r] = "stop" => runner[r] = "none"

\* Goroutines, files and units of different slots never touch each other's: both hold in every state, however old
\* goroutines, late messages and restarts outlive the slots they were about.
SlotsStayApart == FilesNameUnit /\ StopSparesOwnJob

\* The listener never stops a slot that took a job (listener/README.md,
\* "Reporting"; scaler.go refresh: "a stop must never land on the next slot's
\* unit").
NeverStopsAJob ==
    [][\A r \in Runners :
         LET x == RefOf(r)
         IN  StopUnit(r) /\ load[x] # NoRunner => runner[load[x]] # "busy"]_vars

\* A registration does not stay ready forever: it takes a job or is removed,
\* or is left to the sweep.
RunnersSettle == \A r \in Runners : runner[r] = "ready" ~> runner[r] # "ready" \/ r \in orphans

\* A job waiting in a set is taken, also across a restart and a failed start,
\* or goes with its set.
JobsTaken == \A k \in SetKeys : queued[k] > 0 ~> queued[k] = 0
=============================================================================
