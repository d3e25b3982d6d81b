----------------------------- MODULE MCRecords -----------------------------
(***************************************************************************)
(* What one program records and another tells something from later: the    *)
(* listener its jobs, a dashboard the history of a lane from those and its *)
(* samples, a preview's check the address a finder takes, and a dashboard  *)
(* what it read of merged pull requests.  A behaviour moves one of them    *)
(* and leaves the others as they started.                                  *)
(***************************************************************************)
EXTENDS Records, MCJobRecords

CONSTANTS limit, SampleSpan, Cleanup, LastStart, MaxSamples, MaxTime  \* LaneHistory

VARIABLES
  part,  \* the one that moves
  clock, ran, heard, samples, kept, host, viewed, told

History == INSTANCE LaneHistory WITH jobs <- ran, file <- heard, Runners <- {1, 2}
Renamed == <<"old", "new">>

historyVars == <<clock, ran, heard, samples, kept, host, viewed, told>>
allVars == <<part, vars, historyVars, addressVars, outcomeVars>>

Recording(A) == part = "records" /\ A /\ UNCHANGED <<part, historyVars, addressVars, outcomeVars>>
Sampling(A) == part = "history" /\ A /\ UNCHANGED <<part, vars, addressVars, outcomeVars>>
Finding(A) == part = "preview" /\ A /\ UNCHANGED <<part, vars, historyVars, outcomeVars>>
Looking(A) == part = "outcomes" /\ A /\ UNCHANGED <<part, vars, historyVars, addressVars>>

\* The time a history is followed for is over, or the finder has ended.
Over ==
  /\ (part = "history" /\ clock = MaxTime) \/ (part = "preview" /\ wait.at = "done")
  /\ UNCHANGED allVars

PartInit == part \in {"records", "history", "preview", "outcomes"} /\ Init /\ History!Init /\ Address!Init /\ Merging!Init
PartNext == Recording(Next) \/ Sampling(History!Next) \/ Finding(Address!Next) \/ Looking(Merging!Next) \/ Over
PartSpec == PartInit /\ [][PartNext]_allVars

----------------------------------------------------------------------------

\* LaneHistory: the busy time shown is the time the jobs ran, as far as the samples can tell.
BusyIsReal == History!BusyIsReal
=============================================================================
