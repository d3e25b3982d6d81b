------------------------------ MODULE Records ------------------------------
(***************************************************************************)
(* Three programs that keep records: the lane's listener its jobs, the     *)
(* dashboard what it read of merged pull requests, and a preview's check   *)
(* the address another job takes.  Each moves in a world of its own.       *)
(***************************************************************************)
EXTENDS JobRecords

CONSTANTS
  Merges, Attempts, MAX_CALLS, Cycles, MaxMishaps,                                          \* Outcomes
  Names, Databases, MaxRuns, WaitPolls, RunningPolls, SkippedPolls, Writes, FAILED_READS_ALLOWED  \* Preview

VARIABLES
  access, pullOf, running, reader, cycle, stored, clearing, mishaps, torn,
  checkRuns, statuses, wait, unanswered

Merging == INSTANCE Outcomes WITH Attempts <- [p \in Merges |-> Attempts]

Address == INSTANCE Preview WITH Attempts <- Writes, faults <- unanswered

\* A preview has a database of its own, or none.
ASSUME DatabasesAssumption == Databases \subseteq BOOLEAN

addressVars == <<checkRuns, statuses, wait, unanswered>>
outcomeVars == <<access, pullOf, running, reader, cycle, stored, clearing, mishaps, torn>>

\* Outcomes: what lost access made the dashboard forget is neither served nor left on disk.
OutcomesForgotten == Merging!OutcomesForgotten
\* Preview: the address a finder gives is not older than the pass it waited for, nor its database than the address.
PreviewIsProved == Address!PreviewIsProved
=============================================================================
