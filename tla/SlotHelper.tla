---------------------------- MODULE SlotHelper ----------------------------
(***************************************************************************)
(* The slot units of one machine and their helper (lanes/bin/lane-slot.sh, *)
(* on an XFS store): prepare, the job's container, cleanup, the reaper of  *)
(* the store trash and the Codex keepalive, which all work beside each     *)
(* other on the store's trash and on a qae instance's Codex store.         *)
(*                                                                         *)
(* What cleanup does about the runner's registration is in Lane.  docker   *)
(* rm -f is taken to remove the container.  A reading of the store's free  *)
(* space is a free choice: what jobs write is not bounded.                 *)
(***************************************************************************)
EXTENDS Integers, FiniteSets

CONSTANTS
    Instances,
    KindOf,        \* instance -> "ci", "qae" or "wait"
    TrashMax,
    MaxRuns,       \* bound: instance -> starts of its unit
    MaxFaults,     \* bound: failed steps and kills
    None

ASSUME SlotHelperAssumption ==
    /\ IsFiniteSet(Instances) /\ "reaper" \notin Instances
    /\ None \notin Instances \cup {"reaper", "slot", "keepalive"}
    /\ KindOf \in [Instances -> {"ci", "qae", "wait"}]
    /\ TrashMax \in Nat \ {0} /\ MaxRuns \in [Instances -> Nat] /\ MaxFaults \in Nat

VARIABLES
    (* each instance *)
    unit,         \* the step its helper is at, and the one after a retire
    job,          \* its job file is there
    copy,         \* its store copy: none, fresh, or what a job used or a failed copy left
    container,    \* its container runs
    runs,
    (* the trash *)
    trash,        \* its entries: an instance and a number
    stuck,        \* those that cannot be deleted
    reap,         \* whoever holds its lock, the rest of its listing, what its pass did
    reaper,       \* the reaper's unit
    (* each qae instance's Codex store *)
    codex,        \* whose it is, whether more than the login is left in it, and
                  \* whether its last reset had a step that failed unheard
    lock,         \* who holds its lock
    keeper,       \* the keepalive: the store whose lock it holds, and whether Codex runs
    (* history *)
    faults,
    missed        \* the instances whose last cleanup, or keepalive, was cut short

slot == <<unit, job, copy, container, runs>>
pile == <<trash, stuck, reap, reaper>>
login == <<codex, lock, keeper>>
vars == <<slot, pile, login, faults, missed>>

PrepareSteps == {"ready", "room", "wait", "reaping", "recheck", "copy", "lock", "reset", "exec"}
CleanupSteps == {"clean", "codex", "return", "end"}
RetireSteps == {"retire", "rename", "delete"}
Steps == PrepareSteps \cup CleanupSteps \cup RetireSteps \cup {"running", "down"}

TypeOK ==
    /\ unit \in [Instances ->
                    [at : Steps, then : {"", "room", "copy", "clean", "codex", "end"}]]
    /\ job \in [Instances -> BOOLEAN] /\ container \in [Instances -> BOOLEAN]
    /\ copy \in [Instances -> {"none", "fresh", "used"}]
    /\ runs \in [Instances -> Nat] /\ \A i \in Instances : runs[i] <= MaxRuns[i]
    /\ trash \subseteq Instances \X Nat /\ stuck \subseteq trash
    /\ reap \in [by : Instances \cup {"reaper", None}, left : SUBSET trash, progressed : BOOLEAN]
    /\ reaper \in {"off", "start", "work"} /\ (reap.by = "reaper" <=> reaper = "work")
    /\ codex \in [Instances ->
                    [owner : {"lane", "job"}, left : BOOLEAN, unheard : BOOLEAN]]
    /\ lock \in [Instances -> {None, "slot", "keepalive"}]
    /\ keeper \in [store : Instances \cup {None}, runs : BOOLEAN]
    /\ faults \in 0 .. MaxFaults /\ missed \subseteq Instances

Unlocked == [by |-> None, left |-> {}, progressed |-> FALSE]

Off == [store |-> None, runs |-> FALSE]

Login == [owner |-> "lane", left |-> FALSE, unheard |-> FALSE]

At(i, step) == unit[i].at = step

Step(i, from, to) ==
    /\ At(i, from)
    /\ unit' = [unit EXCEPT ![i] = [at |-> to, then |-> ""]]

\* A step of the helper that leads into retire_store and goes on at next.
Retiring(i, from, next) ==
    /\ At(i, from)
    /\ unit' = [unit EXCEPT ![i] = [at |-> "retire", then |-> next]]

Fault == faults < MaxFaults /\ faults' = faults + 1

Init ==
    /\ unit = [i \in Instances |-> [at |-> "down", then |-> ""]]
    /\ job = [i \in Instances |-> FALSE] /\ container = [i \in Instances |-> FALSE]
    /\ copy = [i \in Instances |-> "none"] /\ runs = [i \in Instances |-> 0]
    /\ trash = {} /\ stuck = {} /\ reap = Unlocked /\ reaper = "off"
    /\ codex = [i \in Instances |-> Login] /\ lock = [i \in Instances |-> None]
    /\ keeper = Off
    /\ faults = 0 /\ missed = {}

------------------------------------------------------------------------------
(* The listener: it starts a unit on a free instance, and clears what a     *)
(* killed cleanup left (Lane)                                               *)

ListenerStarts(i) ==
    /\ ~job[i] /\ runs[i] < MaxRuns[i]
    /\ Step(i, "down", "ready")
    /\ job' = [job EXCEPT ![i] = TRUE]
    /\ runs' = [runs EXCEPT ![i] = @ + 1]
    /\ UNCHANGED <<copy, container, pile, login, faults, missed>>

ListenerClears(i) ==
    /\ At(i, "down") /\ job[i]
    /\ job' = [job EXCEPT ![i] = FALSE]
    /\ UNCHANGED <<unit, copy, container, runs, pile, login, faults, missed>>

------------------------------------------------------------------------------
(* retire_store *)

Counted(entries) == {e \in entries : KindOf[e[1]] # "wait"}

\* (mutant) a trash at its bound still takes one
TrashHasSpace_OneMore == Cardinality(Counted(trash)) <= TrashMax

TrashHasSpace == Cardinality(Counted(trash)) < TrashMax

StartReaper == reaper' = IF reaper = "off" THEN "start" ELSE reaper

\* There is nothing to retire; or the copy goes to the trash; or it is deleted
\* in place, as the trash is full, the store short of room or the trash not to
\* be had.
ChooseRetire(i) ==
    /\ At(i, "retire")
    /\ \/ /\ copy[i] = "none"
          /\ Step(i, "retire", unit[i].then)
          /\ UNCHANGED <<reaper, faults>>
       \/ /\ copy[i] # "none"
          /\ KindOf[i] = "wait" \/ TrashHasSpace
          /\ unit' = [unit EXCEPT ![i].at = "rename"]
          /\ UNCHANGED <<reaper, faults>>
       \/ /\ copy[i] # "none"
          /\ unit' = [unit EXCEPT ![i].at = "delete"]
          /\ \/ KindOf[i] # "wait" /\ ~TrashHasSpace /\ StartReaper /\ UNCHANGED faults
             \/ KindOf[i] # "wait" /\ TrashHasSpace /\ UNCHANGED <<reaper, faults>>
             \/ Fault /\ UNCHANGED reaper
    /\ UNCHANGED <<job, copy, container, runs, trash, stuck, reap, login, missed>>

\* An entry's name is one that no other has.
NewEntry(i) == CHOOSE e \in {i} \X (0 .. Cardinality(trash)) : e \notin trash

\* The rename comes after the look at the trash; another slot's may come
\* between.  One that fails leaves the copy to be deleted in place.
Rename(i) ==
    /\ At(i, "rename")
    /\ \/ /\ Step(i, "rename", unit[i].then)
          /\ trash' = trash \cup {NewEntry(i)}
          /\ copy' = [copy EXCEPT ![i] = "none"]
          /\ StartReaper
          /\ UNCHANGED faults
       \/ /\ Fault
          /\ unit' = [unit EXCEPT ![i].at = "delete"]
          /\ UNCHANGED <<copy, trash, reaper>>
    /\ UNCHANGED <<job, container, runs, stuck, reap, login, missed>>

DeleteInPlace(i) ==
    /\ Step(i, "delete", unit[i].then)
    /\ \/ copy' = [copy EXCEPT ![i] = "none"] /\ UNCHANGED <<faults, missed>>
       \/ Fault /\ missed' = missed \cup {i} /\ UNCHANGED copy
    /\ UNCHANGED <<job, container, runs, pile, login>>

------------------------------------------------------------------------------
(* prepare *)

Fails(i, from) == Fault /\ Step(i, from, "clean")

\* Back-off, firewall, container, mount and image; then a leftover copy is
\* retired.
Ready(i) ==
    /\ \/ /\ Retiring(i, "ready", IF KindOf[i] = "wait" THEN "copy" ELSE "room")
          /\ container' = [container EXCEPT ![i] = FALSE]
          /\ missed' = missed \ {i}
          /\ UNCHANGED faults
       \/ Fails(i, "ready") /\ UNCHANGED <<container, missed>>
    /\ UNCHANGED <<job, copy, runs, pile, login>>

\* make_room, to the wait for the trash's lock.
MakeRoom(i) ==
    /\ \/ Retiring(i, "room", "copy")
       \/ trash # {} /\ Step(i, "room", "wait")
    /\ UNCHANGED <<job, copy, container, runs, pile, login, faults, missed>>

\* The lock is gone with its holder.
Released(who) == reap' = IF reap.by = who THEN Unlocked ELSE reap

LockTrash(i) ==
    /\ \/ /\ reap.by = None
          /\ reap' = [by |-> i, left |-> trash, progressed |-> FALSE]
          /\ Step(i, "wait", "reaping")
       \/ /\ reap.by # None
          /\ Step(i, "wait", "recheck")
          /\ UNCHANGED reap
    /\ UNCHANGED <<job, copy, container, runs, trash, stuck, reaper, login, faults, missed>>

\* With room enough it starts no further delete.
RoomReaped(i) ==
    /\ reap.by = i /\ reap.left # {}
    /\ Step(i, "reaping", "recheck")
    /\ Released(i)
    /\ UNCHANGED <<job, copy, container, runs, trash, stuck, reaper, login, faults, missed>>

\* A pass deleted nothing.
NoneReaped(i) ==
    /\ reap.by = i /\ reap.left = {} /\ ~reap.progressed
    /\ Step(i, "reaping", "recheck")
    /\ Released(i)
    /\ UNCHANGED <<job, copy, container, runs, trash, stuck, reaper, login, faults, missed>>

\* Short of room with a backlog left, the job is refused.
Recheck(i) ==
    /\ \/ Retiring(i, "recheck", "copy")
       \/ trash # {} /\ Step(i, "recheck", "clean")
    /\ UNCHANGED <<job, copy, container, runs, pile, login, faults, missed>>

\* snapshot, or a wait job's empty store: mkdir fails where something is left.
Copy(i) ==
    /\ \/ /\ copy[i] = "none"
          /\ copy' = [copy EXCEPT ![i] = "fresh"]
          /\ Step(i, "copy", IF KindOf[i] = "qae" THEN "lock" ELSE "exec")
          /\ UNCHANGED faults
       \/ /\ (copy[i] # "none" /\ UNCHANGED faults) \/ Fault
          /\ copy' = [copy EXCEPT ![i] = "used"]
          /\ IF KindOf[i] = "wait" THEN Step(i, "copy", "clean") ELSE Retiring(i, "copy", "clean")
    /\ UNCHANGED <<job, container, runs, pile, login, missed>>

Locks(i, who) == lock[i] = None /\ lock' = [lock EXCEPT ![i] = who]

Unlocks(i) == lock' = [lock EXCEPT ![i] = None]

\* (mutant) it waits for as long as it takes
LockCodex_Waits(i) ==
    /\ Locks(i, "slot") /\ Step(i, "lock", "reset")
    /\ UNCHANGED <<job, copy, container, runs, pile, codex, keeper, faults, missed>>

LockCodex(i) ==
    /\ \/ Locks(i, "slot") /\ Step(i, "lock", "reset")
       \/ lock[i] # None /\ Step(i, "lock", "clean") /\ UNCHANGED lock
    /\ UNCHANGED <<job, copy, container, runs, pile, codex, keeper, faults, missed>>

\* A prune that fails may leave everything.
LeftBy(i) == {FALSE, codex[i].left}

\* reset_codex_store for the job.  It runs in an || list, where bash ignores
\* set -e: of its steps only the chown, the last, and the looks before the first
\* can fail it; a prune, a copy of the config or a chmod that fails goes unheard
\* and the prepare goes on.
ResetCodex(i) ==
    /\ \/ /\ Step(i, "reset", "exec")
          /\ codex' = [codex EXCEPT ![i] = [owner |-> "job", left |-> FALSE, unheard |-> FALSE]]
          /\ UNCHANGED faults
       \/ /\ Fault /\ Step(i, "reset", "exec")
          /\ \E left \in LeftBy(i) :
                codex' = [codex EXCEPT ![i] = [owner |-> "job", left |-> left, unheard |-> TRUE]]
       \/ /\ Fails(i, "reset")
          /\ \E left \in LeftBy(i) : codex' = [codex EXCEPT ![i].left = left]
    /\ Unlocks(i)
    /\ UNCHANGED <<job, copy, container, runs, pile, keeper, missed>>

------------------------------------------------------------------------------
(* The run: a qae job's container holds its store's lock *)

Exec(i) ==
    /\ \/ /\ Step(i, "exec", "running")
          /\ container' = [container EXCEPT ![i] = TRUE]
          /\ copy' = [copy EXCEPT ![i] = "used"]
          /\ \/ KindOf[i] # "qae" /\ UNCHANGED <<codex, lock>>
             \/ KindOf[i] = "qae" /\ Locks(i, "slot") /\ codex' = [codex EXCEPT ![i].left = TRUE]
       \/ /\ lock[i] # None
          /\ Step(i, "exec", "clean")
          /\ UNCHANGED <<container, copy, codex, lock>>
    /\ UNCHANGED <<job, runs, pile, keeper, faults, missed>>

\* docker run ends, or is killed without its container.
RunEnds(i) ==
    /\ Step(i, "running", "clean")
    /\ Unlocks(i)
    /\ \/ container' = [container EXCEPT ![i] = FALSE] /\ UNCHANGED faults
       \/ Fault /\ UNCHANGED container
    /\ UNCHANGED <<job, copy, runs, pile, codex, keeper, missed>>

------------------------------------------------------------------------------
(* cleanup *)

Clean(i) ==
    /\ Retiring(i, "clean", IF KindOf[i] = "qae" THEN "codex" ELSE "end")
    /\ container' = [container EXCEPT ![i] = FALSE]
    /\ UNCHANGED <<job, copy, runs, pile, login, faults, missed>>

LockForReturn(i) ==
    /\ \/ Locks(i, "slot") /\ Step(i, "codex", "return") /\ UNCHANGED missed
       \/ /\ lock[i] # None /\ Step(i, "codex", "end")
          /\ missed' = missed \cup {i}
          /\ UNCHANGED lock
    /\ UNCHANGED <<job, copy, container, runs, pile, codex, keeper, faults>>

\* return_codex_store: what fails, of the prune and the chown, is only logged.
PartlyReturned(i) ==
    [owner : {"lane", codex[i].owner}, left : LeftBy(i), unheard : {codex[i].unheard}]

ReturnCodex(i) ==
    /\ Step(i, "return", "end")
    /\ Unlocks(i)
    /\ \/ codex' = [codex EXCEPT ![i] = Login] /\ UNCHANGED <<faults, missed>>
       \/ /\ Fault /\ missed' = missed \cup {i}
          /\ \E store \in PartlyReturned(i) : codex' = [codex EXCEPT ![i] = store]
    /\ UNCHANGED <<job, copy, container, runs, pile, keeper>>

\* The job file goes last: the instance is free.
End(i) ==
    /\ Step(i, "end", "down")
    /\ job' = [job EXCEPT ![i] = FALSE]
    /\ UNCHANGED <<copy, container, runs, pile, login, faults, missed>>

\* A helper past its unit's timeout, or stopped, is killed: a prepare's unit
\* goes to its cleanup, a cleanup's is down with its job file left.
Kill(i) ==
    /\ unit[i].at \notin {"down", "running"}
    /\ Fault
    /\ LET cleaning == unit[i].at \in CleanupSteps \/ unit[i].then \in {"codex", "end"}
       IN  /\ unit' = [unit EXCEPT ![i] = [at |-> IF cleaning THEN "down" ELSE "clean", then |-> ""]]
           /\ missed' = IF cleaning THEN missed \cup {i} ELSE missed
    /\ copy' = [copy EXCEPT ![i] = IF At(i, "copy") THEN "used" ELSE @]
    /\ Released(i)
    /\ lock' = [lock EXCEPT ![i] = IF unit[i].at \in {"reset", "return"} THEN None ELSE @]
    /\ UNCHANGED <<job, container, runs, trash, stuck, reaper, codex, keeper>>

------------------------------------------------------------------------------
(* The trash: reap_trash, by the reaper or by a prepare short of room *)

ReaperLocks ==
    /\ reaper = "start"
    /\ \/ /\ reap.by = None
          /\ reap' = [by |-> "reaper", left |-> trash, progressed |-> FALSE]
          /\ reaper' = "work"
       \/ /\ reap.by # None
          /\ reaper' = "off"
          /\ UNCHANGED reap
    /\ UNCHANGED <<slot, trash, stuck, login, faults, missed>>

\* A delete of the pass ends.  An entry that cannot be deleted stays.
DeleteEntry(e) ==
    /\ e \in reap.left
    /\ \/ /\ e \notin stuck
          /\ trash' = trash \ {e}
          /\ reap' = [reap EXCEPT !.left = @ \ {e}, !.progressed = TRUE]
          /\ UNCHANGED <<stuck, faults>>
       \/ /\ (e \in stuck /\ UNCHANGED <<stuck, faults>>) \/ (Fault /\ stuck' = stuck \cup {e})
          /\ reap' = [reap EXCEPT !.left = @ \ {e}]
          /\ UNCHANGED trash
    /\ UNCHANGED <<slot, reaper, login, missed>>

\* A pass that deleted something is followed by another.
Relist ==
    /\ reap.by # None /\ reap.left = {} /\ reap.progressed
    /\ reap' = [reap EXCEPT !.left = trash, !.progressed = FALSE]
    /\ UNCHANGED <<slot, trash, stuck, reaper, login, faults, missed>>

ReaperEnds ==
    /\ reaper = "work" /\ reap.left = {} /\ ~reap.progressed
    /\ reaper' = "off" /\ Released("reaper")
    /\ UNCHANGED <<slot, trash, stuck, login, faults, missed>>

\* Past REAP_MAX_SEC, with something deleted, it starts afresh: the lock goes
\* first.
Afresh ==
    /\ reaper = "work" /\ reap.left # {} /\ reap.progressed
    /\ reaper' = "start" /\ Released("reaper")
    /\ UNCHANGED <<slot, trash, stuck, login, faults, missed>>

ReaperKilled ==
    /\ reaper # "off" /\ Fault
    /\ reaper' = "off" /\ Released("reaper")
    /\ UNCHANGED <<slot, trash, stuck, login, missed>>

\* The reaper's timer, five minutes after its last run.
Timer ==
    /\ reaper = "off" /\ trash # {}
    /\ reaper' = "start"
    /\ UNCHANGED <<slot, trash, stuck, reap, login, faults, missed>>

------------------------------------------------------------------------------
(* codex_keepalive, store by store *)

KeeperLocks(i) ==
    /\ KindOf[i] = "qae" /\ keeper = Off
    /\ Locks(i, "keepalive")
    /\ keeper' = [store |-> i, runs |-> FALSE]
    /\ UNCHANGED <<slot, pile, codex, faults, missed>>

\* (mutant) whether the instance has a job is not looked at
MayKeep_Unasked(i) == TRUE

\* Looked at under the lock.
MayKeep(i) == ~job[i]

\* It skips a store whose instance has a job, or whose login is fresh.
KeeperSkips(i) ==
    /\ keeper = [store |-> i, runs |-> FALSE]
    /\ keeper' = Off /\ Unlocks(i)
    /\ UNCHANGED <<slot, pile, codex, faults, missed>>

\* refresh_codex_store resets the store for the lane user, also in an || list,
\* and runs Codex.
KeeperRuns(i) ==
    /\ keeper = [store |-> i, runs |-> FALSE] /\ MayKeep(i)
    /\ keeper' = [keeper EXCEPT !.runs = TRUE]
    /\ \E unheard \in BOOLEAN :
          /\ codex' = [codex EXCEPT ![i] = [owner |-> "lane", left |-> TRUE, unheard |-> unheard]]
          /\ IF unheard THEN Fault ELSE UNCHANGED faults
    /\ UNCHANGED <<slot, pile, lock, missed>>

\* Its reset fails: Codex is not run, and the store not returned.
KeeperFails(i) ==
    /\ keeper = [store |-> i, runs |-> FALSE] /\ MayKeep(i)
    /\ Fault
    /\ keeper' = Off /\ Unlocks(i)
    /\ \E store \in PartlyReturned(i) : codex' = [codex EXCEPT ![i] = store]
    /\ UNCHANGED <<slot, pile, missed>>

KeeperReturns(i) ==
    /\ keeper = [store |-> i, runs |-> TRUE]
    /\ keeper' = Off /\ Unlocks(i)
    /\ \/ codex' = [codex EXCEPT ![i] = Login] /\ UNCHANGED <<faults, missed>>
       \/ /\ Fault /\ missed' = missed \cup {i}
          /\ \E store \in PartlyReturned(i) : codex' = [codex EXCEPT ![i] = store]
    /\ UNCHANGED <<slot, pile>>

------------------------------------------------------------------------------

UnitStep(i) ==
    \/ ChooseRetire(i) \/ Rename(i) \/ DeleteInPlace(i)
    \/ Ready(i) \/ MakeRoom(i) \/ LockTrash(i) \/ NoneReaped(i) \/ Recheck(i) \/ Copy(i)
    \/ LockCodex(i) \/ ResetCodex(i) \/ Exec(i) \/ RunEnds(i)
    \/ Clean(i) \/ LockForReturn(i) \/ ReturnCodex(i) \/ End(i)

PassStep == Relist \/ ReaperEnds \/ \E e \in reap.left : DeleteEntry(e)

KeeperStep(i) == KeeperSkips(i) \/ KeeperRuns(i) \/ KeeperFails(i) \/ KeeperReturns(i)

Next ==
    \/ \E i \in Instances : \/ ListenerStarts(i) \/ ListenerClears(i) \/ UnitStep(i) \/ RoomReaped(i) \/ Kill(i)
                            \/ KeeperLocks(i) \/ KeeperStep(i)
    \/ ReaperLocks \/ PassStep \/ Afresh \/ ReaperKilled \/ Timer

Spec == Init /\ [][Next]_vars

\* Some unit that can go on does, and the reaper, and the timer comes.  Nothing
\* is asked of the keepalive - waiting for a lock ends with the lock or
\* without - nor of the store to have room.
Fairness ==
    /\ WF_vars(\E i \in Instances : UnitStep(i))
    /\ WF_vars(PassStep) /\ WF_vars(ReaperLocks) /\ WF_vars(Timer)

FairSpec == Spec /\ Fairness

------------------------------------------------------------------------------
(* Properties *)

\* Codex never works on a store for the lane user while that instance's
\* container, on which the same login is mounted, runs (lane-slot.sh, "The
\* Codex store lock"): the lock is free in the gaps, and the job file covers
\* them.  A cleanup cut short before it removed the container is excepted.
CodexAlone ==
    \A i \in Instances \ missed : ~(keeper = [store |-> i, runs |-> TRUE] /\ container[i])

\* A container starts only on a copy made for it, and a qae job's only on a
\* Codex store its own prepare has handed to it, with no more in it than the
\* login (lane-slot.sh, reset_codex_store: "only auth.json survives") - unless a
\* step of that very reset failed unheard: the one way there is for what a run
\* left to reach the next, however many steps fail or are killed.
FreshStart ==
    [][\A i \in Instances : ~container[i] /\ container'[i] =>
          /\ copy[i] = "fresh"
          /\ KindOf[i] = "qae" =>
                codex[i].owner = "job" /\ (codex[i].left => codex[i].unheard)]_vars

CountedInstances == {i \in Instances : KindOf[i] # "wait"}

\* The trash outgrows its bound by no more than the slots that look at it at
\* the same time.
TrashWithin ==
    Cardinality(Counted(trash)) + Cardinality({i \in CountedInstances : At(i, "rename")})
        <= TrashMax - 1 + Cardinality(CountedInstances)

\* A started unit comes down again, whoever holds which lock.
UnitsEnd == \A i \in Instances : At(i, "ready") ~> At(i, "down")
=============================================================================
