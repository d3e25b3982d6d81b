---------------------------- MODULE JobRecords ----------------------------
(***************************************************************************)
(* The records a lane's listener keeps of its jobs for the dashboard       *)
(* (lanes/listener/scaler.go, state.go): the assignment file of a slot and *)
(* the history in jobs.json.                                               *)
(*                                                                         *)
(* Job messages arrive one at a time per set, late and in either order.  A *)
(* handler works in steps: what it finds under the lane's lock, then the   *)
(* files, without it.  Reconcile, the other sets' handlers and a crash     *)
(* come between the steps.                                                 *)
(*                                                                         *)
(* A runner is named once and runs one job, so it stands for its slot and  *)
(* for its job.  The phases of slots are Lane's matter: no record depends  *)
(* on one.                                                                 *)
(***************************************************************************)
EXTENDS Integers, Sequences, FiniteSets, SequencesExt

CONSTANTS
    Runners,
    SetKeys,
    SetOf,           \* runner -> its set, which has one session
    Refs,            \* the instances
    RefOf,           \* runner -> its instance
    MaxJobHistory,
    MaxRetired,
    MaxFaults,       \* bound: failed writes, unreadable files, lost messages and crashes
    None

ASSUME JobRecordsAssumption ==
    /\ IsFiniteSet(Runners) /\ IsFiniteSet(Refs)
    /\ SetOf \in [Runners -> SetKeys] /\ RefOf \in [Runners -> Refs]
    /\ MaxJobHistory \in Nat \ {0} /\ MaxRetired \in Nat \ {0}
    /\ MaxFaults \in Nat
    /\ None \notin Runners

VARIABLES
    (* the listener, lost when it stops *)
    up,
    slots,         \* instance -> the runner of the slot tracked there, or None
    retired,       \* the runners of forgotten slots, oldest first
    hand,          \* set -> what its handler is doing
    jobs,          \* the history (l.jobs)
    (* the run dir *)
    assignment,    \* instance -> the runner whose job its assignment file names, or None
    jobsFile,      \* jobs.json
    (* the units and GitHub *)
    life,          \* runner -> how far it has come
    events,        \* job messages not yet heard
    (* history *)
    faults,
    missed         \* the runners of which a message never reached the history,
                   \* or whose entry was pushed out of it

lane == <<up, slots, retired, hand, jobs>>
files == <<assignment, jobsFile>>
world == <<life, events>>
vars == <<lane, files, world, faults, missed>>

Entry == [runner : Runners, started : BOOLEAN, finished : BOOLEAN]

Idle == [at |-> "idle", runner |-> None]

TypeOK ==
    /\ up \in BOOLEAN
    /\ slots \in [Refs -> Runners \cup {None}]
    /\ retired \in Seq(Runners) /\ Len(retired) <= MaxRetired
    /\ hand \in [SetKeys -> [at : {"assign", "record", "finish"}, runner : Runners] \cup {Idle}]
    /\ jobs \in Seq(Entry) /\ Len(jobs) <= MaxJobHistory
    /\ jobsFile \in Seq(Entry) /\ Len(jobsFile) <= MaxJobHistory
    /\ assignment \in [Refs -> Runners \cup {None}]
    /\ life \in [Runners -> {"new", "waiting", "running", "ended", "gone", "unused"}]
    /\ events \subseteq {"started", "completed"} \X Runners
    /\ faults \in 0 .. MaxFaults
    /\ missed \subseteq Runners

Init ==
    /\ up = TRUE
    /\ slots = [x \in Refs |-> None]
    /\ retired = <<>> /\ hand = [k \in SetKeys |-> Idle]
    /\ jobs = <<>> /\ jobsFile = <<>>
    /\ assignment = [x \in Refs |-> None]
    /\ life = [r \in Runners |-> "new"] /\ events = {}
    /\ faults = 0 /\ missed = {}

Fault == faults < MaxFaults /\ faults' = faults + 1

UnitRuns(r) == life[r] \in {"waiting", "running", "ended"}

Tracked(r) == slots[RefOf[r]] = r

IsRetired(r) == \E i \in 1 .. Len(retired) : retired[i] = r

\* An existing instance's unit is down when no runner's container is up there.
UnitDown(x) == \A r \in Runners : RefOf[r] = x => ~UnitRuns(r)

------------------------------------------------------------------------------
(* The history *)

\* writeJobs: the oldest jobs past the bound go.
Bounded(s) == IF Len(s) > MaxJobHistory THEN SubSeq(s, Len(s) - MaxJobHistory + 1, Len(s)) ELSE s

EntriesOf(s, r) == {i \in 1 .. Len(s) : s[i].runner = r}

LastEntry(s, r) == CHOOSE i \in EntriesOf(s, r) : \A j \in EntriesOf(s, r) : j <= i

\* moveLast: the changed entry goes to the end.
Changed(s, i, entry) == Append(RemoveAt(s, i), entry)

\* (mutant) a late start's entry is the start's, not the finished one filled in
WithStart_Replaces(s, r) ==
    IF EntriesOf(s, r) # {}
    THEN Bounded(Changed(s, LastEntry(s, r), [runner |-> r, started |-> TRUE, finished |-> FALSE]))
    ELSE Bounded(Append(s, [runner |-> r, started |-> TRUE, finished |-> FALSE]))

\* recordJob: a start heard after the finish fills that entry in.
WithStart(s, r) ==
    IF EntriesOf(s, r) # {} /\ s[LastEntry(s, r)].finished
    THEN Bounded(Changed(s, LastEntry(s, r), [runner |-> r, started |-> TRUE, finished |-> TRUE]))
    ELSE Bounded(Append(s, [runner |-> r, started |-> TRUE, finished |-> FALSE]))

\* recordFinish: a finish without a recorded start adds the entry itself.
WithFinish(s, r) ==
    IF EntriesOf(s, r) # {}
    THEN Bounded(Changed(s, LastEntry(s, r), [s[LastEntry(s, r)] EXCEPT !.finished = TRUE]))
    ELSE Bounded(Append(s, [runner |-> r, started |-> FALSE, finished |-> TRUE]))

\* The history and its file, which keeps its old content when the write fails.
Record(history) ==
    /\ jobs' = history
    /\ missed' = missed \cup ({e.runner : e \in Range(jobs)} \ {e.runner : e \in Range(history)})
    /\ \/ jobsFile' = history /\ UNCHANGED faults
       \/ Fault /\ UNCHANGED jobsFile

------------------------------------------------------------------------------
(* The handlers of the job messages *)

Hear(kind, r) ==
    /\ up /\ hand[SetOf[r]] = Idle
    /\ <<kind, r>> \in events
    /\ events' = events \ {<<kind, r>>}
    /\ UNCHANGED <<up, slots, retired, jobs, files, life, faults>>

Then(r, at) == hand' = [hand EXCEPT ![SetOf[r]] = [at |-> at, runner |-> r]]

\* A message of a runner nobody knows is only logged.
Unknown(r) == ~Tracked(r) /\ ~IsRetired(r) /\ missed' = missed \cup {r} /\ UNCHANGED hand

\* (mutant) a forgotten slot's start is not recorded
HearStarted_OnlyTracked(r) ==
    /\ Hear("started", r)
    /\ IF Tracked(r) THEN Then(r, "assign") ELSE UNCHANGED hand
    /\ UNCHANGED missed

\* A forgotten slot's start (lateStart) writes no assignment file.
HearStarted(r) ==
    /\ Hear("started", r)
    /\ \/ Tracked(r) /\ Then(r, "assign") /\ UNCHANGED missed
       \/ ~Tracked(r) /\ IsRetired(r) /\ Then(r, "record") /\ UNCHANGED missed
       \/ Unknown(r)

HearCompleted(r) ==
    /\ Hear("completed", r)
    /\ \/ (Tracked(r) \/ IsRetired(r)) /\ Then(r, "finish") /\ UNCHANGED missed
       \/ Unknown(r)

\* recordAssignment, without the lock: the slot may be forgotten by now.  A
\* job whose name is not usable gets no record, as when the write fails.
RecordAssignment(k) ==
    /\ up /\ hand[k].at = "assign"
    /\ hand' = [hand EXCEPT ![k].at = "record"]
    /\ \/ /\ assignment' = [assignment EXCEPT ![RefOf[hand[k].runner]] = hand[k].runner]
          /\ UNCHANGED faults
       \/ Fault /\ UNCHANGED assignment
    /\ UNCHANGED <<up, slots, retired, jobs, jobsFile, world, missed>>

RecordJob(k) ==
    /\ up /\ hand[k].at = "record"
    /\ hand' = [hand EXCEPT ![k] = Idle]
    /\ Record(WithStart(jobs, hand[k].runner))
    /\ UNCHANGED <<up, slots, retired, assignment, world>>

RecordFinish(k) ==
    /\ up /\ hand[k].at = "finish"
    /\ hand' = [hand EXCEPT ![k] = Idle]
    /\ Record(WithFinish(jobs, hand[k].runner))
    /\ UNCHANGED <<up, slots, retired, assignment, world>>

------------------------------------------------------------------------------
(* reconcile, as far as the records go *)

Freed == {x \in Refs : slots[x] # None /\ ~UnitRuns(slots[x])}

\* retire: the newest MaxRetired are kept.
Retire(seq, x) ==
    LET s == Append(seq, slots[x])
    IN  IF Len(s) > MaxRetired THEN Tail(s) ELSE s

Free == Freed \cup {x \in Refs : slots[x] = None /\ UnitDown(x)}

\* The instances refresh drops the assignment of: those it frees, and those
\* nothing runs on.
Dropped == Free

\* Under the lane's lock: forget what stopped, drop records, and start new
\* slots on any free instances.
Reconcile ==
    /\ up
    /\ retired' = FoldSet(LAMBDA x, seq : Retire(seq, x), retired, Freed)
    /\ assignment' = [x \in Refs |-> IF x \in Dropped THEN None ELSE assignment[x]]
    /\ \E minted \in SUBSET {r \in Runners : life[r] = "new" /\ RefOf[r] \in Free} :
          /\ \A q, r \in minted : RefOf[q] = RefOf[r] => q = r
          /\ slots' = [x \in Refs |->
                 IF \E r \in minted : RefOf[r] = x
                 THEN CHOOSE r \in minted : RefOf[r] = x
                 ELSE IF x \in Freed THEN None ELSE slots[x]]
          /\ life' = [r \in Runners |-> IF r \in minted THEN "waiting" ELSE life[r]]
    /\ UNCHANGED <<up, hand, jobs, jobsFile, events,
                   faults, missed>>

\* retiredKeep has passed for the oldest.
Expire ==
    /\ up /\ retired # <<>>
    /\ retired' = Tail(retired)
    /\ UNCHANGED <<up, slots, hand, jobs, files, world, faults, missed>>

------------------------------------------------------------------------------
(* The listener's own life *)

\* A crash ends what the handlers were doing, with the rest of a message they
\* had taken off the queue and with what a failed write left in memory only.
\* The messages not yet heard wait for the next session, or go with this one.
Crash ==
    /\ up /\ up' = FALSE
    /\ Fault
    /\ \E lost \in {{}, events} :
          /\ events' = events \ lost
          /\ missed' = missed \cup {e[2] : e \in lost}
                 \cup {hand[k].runner : k \in {j \in SetKeys : hand[j] # Idle}}
                 \cup {e.runner : e \in Range(jobs) \ Range(jobsFile)}
    /\ slots' = [x \in Refs |-> None] /\ retired' = <<>>
    /\ hand' = [k \in SetKeys |-> Idle]
    /\ jobs' = <<>>
    /\ UNCHANGED <<files, life>>

\* rebuild: take the history up, adopt what runs, drop the records of what
\* does not.
Restart ==
    /\ ~up /\ up' = TRUE
    /\ \/ jobs' = jobsFile /\ UNCHANGED <<faults, missed>>
       \/ Fault /\ jobs' = <<>> /\ missed' = {r \in Runners : life[r] # "new"}
    /\ slots' = [x \in Refs |->
           IF UnitDown(x) THEN None ELSE CHOOSE r \in Runners : RefOf[r] = x /\ UnitRuns(r)]
    /\ assignment' = [x \in Refs |-> IF UnitDown(x) THEN None ELSE assignment[x]]
    /\ UNCHANGED <<retired, hand, jobsFile, world>>

------------------------------------------------------------------------------
(* The units and GitHub *)

Lives(r, from, to) == life[r] \in from /\ life' = [life EXCEPT ![r] = to]

TakeJob(r) ==
    /\ Lives(r, {"waiting"}, "running")
    /\ events' = events \cup {<<"started", r>>}
    /\ UNCHANGED <<lane, files, faults, missed>>

JobEnds(r) ==
    /\ Lives(r, {"running"}, "ended")
    /\ events' = events \cup {<<"completed", r>>}
    /\ UNCHANGED <<lane, files, faults, missed>>

\* A unit ends after its job, or without one.
UnitEnds(r) ==
    /\ Lives(r, {"ended"}, "gone") \/ Lives(r, {"waiting"}, "unused")
    /\ UNCHANGED <<lane, files, events, faults, missed>>

------------------------------------------------------------------------------

Next ==
    \/ \E r \in Runners :
          HearStarted(r) \/ HearCompleted(r) \/ TakeJob(r) \/ JobEnds(r) \/ UnitEnds(r)
    \/ \E k \in SetKeys : RecordAssignment(k) \/ RecordJob(k) \/ RecordFinish(k)
    \/ Reconcile \/ Expire \/ Crash \/ Restart

Spec == Init /\ [][Next]_vars

------------------------------------------------------------------------------
(* Properties *)

Settled(r) == life[r] \in {"ended", "gone"} /\ hand[SetOf[r]].runner # r
              /\ \A kind \in {"started", "completed"} : <<kind, r>> \notin events

\* Whatever order a job's messages come in, across retired slots, failed writes and restarts, a
\* runner's one job has one entry (listener/README.md: "fills the entry in rather than adding a
\* second, also after a restart"); once both its messages are handled that entry is there and
\* complete - unless it was the oldest of a full history, or the listener could not know of a
\* message (a crash, or a slot forgotten longer ago than retiredKeep).
HistoryComplete ==
    \A r \in Runners :
        /\ Cardinality(EntriesOf(jobs, r)) <= 1
        /\ Cardinality(EntriesOf(jobsFile, r)) <= 1
        /\ up /\ Settled(r) /\ r \notin missed =>
               \E i \in EntriesOf(jobs, r) : jobs[i].started /\ jobs[i].finished

\* A finish once in the history is never taken back: its entry stays finished
\* until it is the oldest of a full history, or the history is lost.
FinishesStay ==
    [][up /\ up' => \A i \in 1 .. Len(jobs) : jobs[i].finished =>
          \/ \E j \in EntriesOf(jobs', jobs[i].runner) : jobs'[j].finished
          \/ i = 1 /\ Len(jobs) = MaxJobHistory]_vars

\* What the listener's documentation says of the record, and a run refutes: it
\* is written when the slot's job starts, and a finished slot leaves its
\* directory empty (listener/README.md), so no slot carries another's.
NoStaleRecord ==
    \A x \in Refs : slots[x] # None /\ assignment[x] # None => assignment[x] = slots[x]
=============================================================================
