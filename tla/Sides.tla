-------------------------------- MODULE Sides --------------------------------
(***************************************************************************)
(* The programs that work on the same pull requests and meet only through  *)
(* GitHub, each checked against a GitHub of its own: a behaviour moves one *)
(* of them and leaves the others as they started.                          *)
(***************************************************************************)
EXTENDS Pins, Sequences

CONSTANTS Names, PullsOf, MaxCalls, MaxAge  \* Collector

VARIABLES
  part,  \* the one that moves
  gh, successAge, detail, urgent, heads, headsOk, detailed, attempted,
  pc, calls, listed, queue, checks, built, readNow, missed, shown

Collect == INSTANCE Collector WITH Fresh <- MaxAge
collectVars == <<gh, successAge, detail, urgent, heads, headsOk, detailed, attempted,
                 pc, calls, listed, queue, checks, built, readNow, missed, shown>>
pinVars == <<main, base, branch, pull, run>>
allVars == <<part, moves, faults, collectVars, pinVars>>

Collecting(A) == part = "collector" /\ A /\ UNCHANGED <<part, pinVars>>
Pinning(A) == part = "pins" /\ A /\ UNCHANGED <<part, collectVars>>

PartInit ==
  /\ part \in {"collector", "pins"}
  /\ Collect!Init /\ Init

PartNext == Collecting(Collect!Next) \/ Pinning(Next)

\* The fairness each module states, of the part that moves.
PartSpec ==
  /\ PartInit /\ [][PartNext]_allVars
  /\ WF_allVars(Collecting(Collect!PassGoes))
  /\ \A r \in Runs : WF_allVars(Pinning(RunStep(r))) /\ SF_allVars(Pinning(FindBump(r)))
  /\ \A t \in Targets : WF_allVars(Pinning(ChecksEnd(t)))

----------------------------------------------------------------------------
(* The properties, as the modules state them *)

\* Collector: a green title is of checks that were green within the last beat.
GreenIsTrue == Collect!GreenIsTrue
\* Collector: a repository that keeps a pull request open is read again and again, while passes are made.
TailIsRead ==
  \A r \in Collect!Repos : <>[](part = "collector" /\ Collect!HasOpen(r)) => []<>(readNow \cap PullsOf[r] # {})
=============================================================================
