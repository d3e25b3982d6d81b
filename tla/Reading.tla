------------------------------ MODULE Reading ------------------------------
(***************************************************************************)
(* What the dashboard promises of the reading it shows, whatever passes,   *)
(* beats, requests and restarts do to it: a row is read by this process,   *)
(* or handed over by a restart and not yet forgotten; what was forgotten   *)
(* or refused does not come back until it is read again.                   *)
(***************************************************************************)
CONSTANT Repos

VARIABLES
  shown,    \* per repository: nothing, a row handed over, or a row of this process
  handed,   \* whether anything handed over may still be shown
  refused   \* repositories this process knows it may not read

readingVars == <<shown, handed, refused>>

Origin == {"none", "kept", "own"}
Nowhere == [r \in Repos |-> "none"]

ReadingInit == shown = Nowhere /\ handed = FALSE /\ refused = {}

\* Each row is read anew, carried over, or lost; no row of a refused repository is left.
Read(more) ==
  /\ refused' = refused \cup more
  /\ shown' \in [Repos -> Origin]
  /\ \A r \in Repos : /\ shown'[r] \in {"none", "own", shown[r]}
                      /\ r \in refused' => shown'[r] = "none"
  /\ UNCHANGED handed

\* What was handed over goes, and with it perhaps more; nothing appears.
Forget ==
  /\ handed' = FALSE
  /\ shown' \in [Repos -> {"none", "own"}]
  /\ \A r \in Repos : shown'[r] \in {"none", shown[r]}
  /\ UNCHANGED refused

\* A process that starts shows what it was handed, if anything.
Start ==
  /\ shown' \in [Repos -> {"none", "kept"}]
  /\ handed' \in BOOLEAN
  /\ ~handed' => shown' = Nowhere
  /\ refused' = {}

ReadingNext == (\E more \in SUBSET Repos : Read(more)) \/ Forget \/ Start

ReadingSpec == ReadingInit /\ [][ReadingNext]_readingVars
=============================================================================
