------------------------------ MODULE Outcomes ------------------------------
(***************************************************************************)
(* The dashboard's outcomes of merged pull requests (OutcomesFeed and its  *)
(* OutcomesReader): cycles in background threads read each merged pull     *)
(* request once, on a budget of calls, into a reader that requests are     *)
(* served from and into the state store; lost access, met by a cycle or by *)
(* the service, replaces the reader and deletes what was stored, while a   *)
(* cycle of the old reader may still be going or writing.                  *)
(*                                                                         *)
(* A pull request is known by when it merges: the greater, the newer.  The *)
(* thirty days' window is left out, and a cycle may be due at any time.    *)
(***************************************************************************)
EXTENDS FiniteSetsExt, Naturals

CONSTANTS
  Merges,      \* the pull requests, as numbers
  Attempts,    \* of each, the attempts of its runs: one job listing each
  MAX_CALLS,   \* of a cycle
  Cycles,      \* bound: threads of cycles at a time
  MaxMishaps   \* bound: losses of access, forgettings of the service and restarts

VARIABLES
  access,
  pullOf,      \* each pull request: open, merged while runs go on, finished
  running,     \* whether a cycle is started and has not ended
  reader,      \* the reader in use: its records and the job lists it holds
  cycle,       \* the threads; one whose reader was replaced is old, and what it does to that one shows nowhere
  stored,      \* the records in the state store
  clearing,    \* whether the service has still to delete what it forgot
  mishaps,
  torn         \* whether a restart found records that were being deleted

outcomeVars == <<access, pullOf, running, reader, cycle, stored, clearing, mishaps, torn>>

\* A record is a pull request's, with whether the dashboard has forgotten it since.
Record(p) == [pull |-> p, forgotten |-> FALSE]
Of(records) == {record.pull : record \in records}
Forgotten(records) == {[record EXCEPT !.forgotten = TRUE] : record \in records}
Stale(records) == \E record \in records : record.forgotten

Reader == [records |-> {}, jobs |-> [p \in Merges |-> 0]]
Idle == [at |-> "idle", old |-> FALSE, calls |-> 0, todo |-> {}, records |-> {}, lost |-> FALSE]
Step(c, new) == cycle' = [cycle EXCEPT ![c] = new]
Goes(c, step) == Step(c, [cycle[c] EXCEPT !.at = step])
Mishap == mishaps < MaxMishaps /\ mishaps' = mishaps + 1

----------------------------------------------------------------------------
(* GitHub *)

Merged(p) == pullOf[p] = "open" /\ pullOf' = [pullOf EXCEPT ![p] = "merged"] /\ UNCHANGED <<access, mishaps>>
Finished(p) == pullOf[p] = "merged" /\ pullOf' = [pullOf EXCEPT ![p] = "finished"] /\ UNCHANGED <<access, mishaps>>
Lost == access /\ access' = FALSE /\ Mishap /\ UNCHANGED pullOf
Regained == ~access /\ access' = TRUE /\ UNCHANGED <<pullOf, mishaps>>

GitHub ==
  /\ Lost \/ Regained \/ \E p \in Merges : Merged(p) \/ Finished(p)
  /\ UNCHANGED <<running, reader, cycle, stored, clearing, torn>>

----------------------------------------------------------------------------
(* A cycle *)

Same == UNCHANGED <<access, pullOf, mishaps, torn>>
Alone == UNCHANGED <<running, stored, clearing>> /\ Same

start(c) ==
  /\ ~running /\ cycle[c].at = "idle"
  /\ running' = TRUE
  /\ Step(c, [Idle EXCEPT !.at = "search", !.calls = MAX_CALLS])
  /\ UNCHANGED <<reader, stored, clearing>> /\ Same

\* What an answered call makes of the cycle and its reader; or it is refused for lost access, or has no budget:
\* another failure ends the cycle as a spent budget does.
Call(c, new, jobs) ==
  LET r == cycle[c] IN
  /\ \/ r.calls > 0 /\ access /\ Step(c, [new EXCEPT !.calls = @ - 1])
        /\ reader' = IF r.old THEN reader ELSE [reader EXCEPT !.jobs = jobs]
     \/ r.calls > 0 /\ ~access /\ Step(c, [r EXCEPT !.at = "ends", !.lost = TRUE]) /\ UNCHANGED reader
     \/ r.calls = 0 /\ Goes(c, "publish") /\ UNCHANGED reader
  /\ Alone

\* The merged pull requests without a record, to be read beside the records there are.
_merged(c) ==
  /\ cycle[c].at = "search"
  /\ Call(c, [cycle[c] EXCEPT !.at = "list", !.records = reader.records,
                              !.todo = {p \in Merges : pullOf[p] # "open"} \ Of(reader.records)], reader.jobs)

\* Nothing while the live passes' counter is low.
_reserve_low(c) ==
  /\ cycle[c].at = "search" /\ Goes(c, "ends")
  /\ UNCHANGED reader /\ Alone

Newest(c) == Max(cycle[c].todo)
Without(c) == [cycle[c] EXCEPT !.at = "list", !.todo = @ \ {Newest(c)}]

\* The newest first: its runs, and unless one is going on ...
_runs(c) ==
  /\ cycle[c].at = "list" /\ cycle[c].todo # {}
  /\ Call(c, IF pullOf[Newest(c)] = "finished" THEN [cycle[c] EXCEPT !.at = "jobs"] ELSE Without(c), reader.jobs)

\* The reader holds the job lists it read, for the next cycle to go on where this one stops.
_attempt_jobs(c) == [reader.jobs EXCEPT ![Newest(c)] = @ + 1]

\* ... the jobs of each attempt, of which the reader lets go with the record.
_record(c) ==
  LET p == Newest(c) IN
  /\ cycle[c].at = "jobs"
  /\ \/ reader.jobs[p] < Attempts[p] /\ Call(c, cycle[c], _attempt_jobs(c))
     \/ /\ reader.jobs[p] = Attempts[p]
        /\ Step(c, [Without(c) EXCEPT !.records = @ \cup {Record(p)}])
        /\ reader' = IF cycle[c].old THEN reader ELSE [reader EXCEPT !.jobs[p] = 0]
        /\ Alone

\* What the cycle read is served, unless it met lost access.
collect(c) ==
  /\ cycle[c].at = "publish" \/ (cycle[c].at = "list" /\ cycle[c].todo = {})
  /\ reader' = IF cycle[c].old THEN reader ELSE [reader EXCEPT !.records = cycle[c].records]
  /\ Goes(c, "ends")
  /\ Alone

\* The cycle is over: another may start while it forgets, or writes what its reader has now.
Ends(c) ==
  /\ cycle[c].at = "ends"
  /\ running' = FALSE
  /\ Step(c, CASE cycle[c].old -> Idle
               [] ~cycle[c].old /\ cycle[c].lost -> [cycle[c] EXCEPT !.at = "reset"]
               [] OTHER -> [cycle[c] EXCEPT !.at = "save", !.records = reader.records])
  /\ UNCHANGED <<reader, stored, clearing>> /\ Same

Save(c) ==
  /\ cycle[c].at = "save"
  /\ stored' = cycle[c].records
  /\ Goes(c, "check")
  /\ UNCHANGED <<running, reader, clearing>> /\ Same

\* (mutant) what is written stays
Check_Never(c) == stored

\* A reader replaced while its cycle wrote leaves no file.
Check(c) == IF cycle[c].old THEN {} ELSE stored

Written(c) ==
  /\ cycle[c].at = "check"
  /\ stored' = Check(c)
  /\ Step(c, Idle)
  /\ UNCHANGED <<running, reader, clearing>> /\ Same

----------------------------------------------------------------------------
(* Forgetting, by a cycle or by the service, and restarts *)

\* The reader is replaced, and then the store's documents are deleted.
reset(cycles) ==
  /\ reader' = Reader
  /\ cycle' = [c \in Cycles |-> [cycles[c] EXCEPT !.old = TRUE, !.records = Forgotten(@)]]
  /\ stored' = Forgotten(stored)
  /\ UNCHANGED <<access, pullOf, running, torn>>

CycleForgets(c) ==
  /\ cycle[c].at = "reset"
  /\ reset([cycle EXCEPT ![c].at = "clear"])
  /\ UNCHANGED <<clearing, mishaps>>

\* A pass or a beat met lost access, or could not go on from what a start handed over.
ServiceForgets == ~clearing /\ clearing' = TRUE /\ Mishap /\ reset(cycle)

Clears ==
  /\ \/ clearing /\ clearing' = FALSE /\ UNCHANGED cycle
     \/ \E c \in Cycles : cycle[c].at = "clear" /\ Step(c, Idle) /\ UNCHANGED clearing
  /\ stored' = {} /\ torn' = FALSE
  /\ UNCHANGED <<access, pullOf, running, reader, mishaps>>

\* The process ends anywhere, and its start serves what the store has.
Restart ==
  /\ Mishap
  /\ reader' = [Reader EXCEPT !.records = stored]
  /\ torn' = Stale(stored)
  /\ running' = FALSE /\ clearing' = FALSE /\ cycle' = [c \in Cycles |-> Idle]
  /\ UNCHANGED <<access, pullOf, stored>>

----------------------------------------------------------------------------

Init ==
  /\ access = TRUE /\ pullOf = [p \in Merges |-> "open"]
  /\ running = FALSE /\ reader = Reader
  /\ cycle = [c \in Cycles |-> Idle]
  /\ stored = {} /\ clearing = FALSE /\ mishaps = 0 /\ torn = FALSE

CycleStep(c) ==
  \/ start(c) \/ _reserve_low(c) \/ _merged(c) \/ _runs(c) \/ _record(c) \/ collect(c) \/ Ends(c) \/ Save(c) \/ Written(c) \/ CycleForgets(c)

Next == GitHub \/ ServiceForgets \/ Clears \/ Restart \/ \E c \in Cycles : CycleStep(c)

Spec == Init /\ [][Next]_outcomeVars

----------------------------------------------------------------------------
(* Properties *)

\* What lost access made the dashboard forget is served no more, and is not on disk once no cycle of a reader replaced
\* since is still writing and every deletion is done - however cycles, the service's own forgetting and a write of an
\* old reader follow one another; unless the process ended in between (_cycle, reset).
OutcomesForgotten ==
  ~torn =>
    /\ ~Stale(reader.records)
    /\ Stale(stored) => clearing \/ \E c \in Cycles : cycle[c].old /\ cycle[c].at \in {"clear", "check"}
=============================================================================
