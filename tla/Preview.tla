------------------------------- MODULE Preview -------------------------------
(***************************************************************************)
(* The address of a pull request's preview (actions/preview): runs of one  *)
(* check set the preview of a commit up and record its address, and its    *)
(* database when it has one of its own; a job of another check waits for   *)
(* that check to pass and takes what was recorded.  Nothing but the        *)
(* commit's check runs and statuses joins them.                            *)
(*                                                                         *)
(* Time is counted in the finder's polls.  A status links to what its run  *)
(* set up, and is known by its place.                                      *)
(***************************************************************************)
EXTENDS FiniteSets, FiniteSetsExt, Naturals, Sequences, SequencesExt

CONSTANTS
  Names,                \* the names the check goes by, in the order the finder reads them
  Databases,            \* whether the preview has one, as BOOLEANs
  MaxRuns,              \* bound: runs of the check on the commit
  WaitPolls,            \* --wait-minutes, in polls
  RunningPolls,         \* --running-minutes, in polls
  SkippedPolls,         \* SKIPPED_SECONDS, in polls
  Attempts,             \* at a write: three in the code
  MaxFaults,            \* bound: writes that fail
  FAILED_READS_ALLOWED

VARIABLES
  checkRuns, \* the check's runs on the commit, as they were made
  statuses,  \* the commit's statuses, the newest last
  wait,      \* the finder
  faults

previewVars == <<checkRuns, statuses, wait, faults>>

Made == DOMAIN checkRuns
Stamp == Max({0} \cup {checkRuns[r].at : r \in Made}) + 1

----------------------------------------------------------------------------
(* The check's runs *)

\* (mutant) the address is recorded before the database
record_AddressFirst(database) == IF database THEN <<"address", "database">> ELSE <<"address">>

\* What a run records, in order: the database first, for a reader that sees the address to see it too.
record(database) == IF database THEN <<"database", "address">> ELSE <<"address">>

\* A queued run has no start time yet; a label event makes one that is skipped at once.  A workflow may lack the step
\* that records.  Each run has the next of the check's names, for it is being renamed.
RunMade(state, records) ==
  /\ Len(checkRuns) < MaxRuns
  /\ state = "skipped" => records = <<>>
  /\ checkRuns' = Append(checkRuns,
       [name |-> Names[Min({Len(checkRuns) + 1, Len(Names)})], state |-> state,
        at |-> IF state = "queued" THEN 0 ELSE Stamp, records |-> records, done |-> 0, tries |-> Attempts])
  /\ UNCHANGED <<statuses, wait, faults>>

RunStarts(r) ==
  /\ checkRuns[r].state = "queued"
  /\ checkRuns' = [checkRuns EXCEPT ![r] = [checkRuns[r] EXCEPT !.state = "in_progress", !.at = Stamp]]
  /\ UNCHANGED <<statuses, wait, faults>>

\* A run passes once it has recorded; or it fails, is cancelled or times out.
RunEnds(r, state) ==
  /\ checkRuns[r].state = "in_progress"
  /\ state = "success" => checkRuns[r].done = Len(checkRuns[r].records)
  /\ checkRuns' = [checkRuns EXCEPT ![r].state = state]
  /\ UNCHANGED <<statuses, wait, faults>>

\* A write that fails is made again, Attempts times in all; one whose answer was lost was made.
write_status(r, made, answered) ==
  /\ checkRuns[r].state = "in_progress" /\ checkRuns[r].done < Len(checkRuns[r].records)
  /\ answered => made
  /\ ~answered => faults < MaxFaults
  /\ LET check == checkRuns[r] IN
     /\ statuses' = IF made THEN Append(statuses, [context |-> check.records[check.done + 1], link |-> r]) ELSE statuses
     /\ checkRuns' = [checkRuns EXCEPT ![r] =
          CASE answered -> [check EXCEPT !.done = check.done + 1, !.tries = Attempts]
            [] ~answered /\ check.tries > 1 -> [check EXCEPT !.tries = check.tries - 1]
            [] OTHER -> [check EXCEPT !.state = "failure"]]
  /\ faults' = faults + (IF answered THEN 0 ELSE 1)
  /\ UNCHANGED wait

----------------------------------------------------------------------------
(* The finder *)

Exits(code) == [wait EXCEPT !.at = "done", !.code = code]

\* A failed read is no answer, and the last of FAILED_READS_ALLOWED in a row ends the run.
GivesUp == wait.failed + 1 = FAILED_READS_ALLOWED /\ wait' = Exits(2)
Fails(goes) == wait.failed + 1 < FAILED_READS_ALLOWED /\ wait' = [goes EXCEPT !.failed = wait.failed + 1]

\* The newest run that was not skipped decides.
newest_run(lines) ==
  LET real == {line \in lines : line.state # "skipped"} IN
  IF real # {} THEN {line \in real : \A other \in real : other.at <= line.at}
  ELSE {[run |-> 0, at |-> 0, state |-> IF lines = {} THEN "none" ELSE "only skipped"]}

\* The code of a wait that ran out: 3 while the run last heard of has not ended.
wait_ended_code(answered) == IF answered \in {"queued", "in_progress"} THEN 3 ELSE 1

\* What a poll's verdict makes of the wait.
wait_for_check(line) ==
  LET answered == IF line.state = "unread" THEN wait.answered ELSE line.state
      polled == [wait EXCEPT !.name = 1, !.lines = {}, !.unread = FALSE, !.polls = wait.polls + 1, !.answered = answered,
                             !.skipped = wait.skipped + (IF line.state = "only skipped" THEN 1 ELSE 0),
                             !.running = wait.running + (IF line.state = "in_progress" THEN 1 ELSE 0)]
  IN  CASE line.state = "success" -> [polled EXCEPT !.at = "statuses", !.passed = line.run]
        [] \/ line.state = "failure"
           \/ line.state = "only skipped" /\ polled.skipped >= SkippedPolls
           \/ line.state = "in_progress" /\ polled.running > RunningPolls -> Exits(1)
        [] polled.polls = WaitPolls -> [polled EXCEPT !.at = "done", !.code = wait_ended_code(answered)]
        [] OTHER -> polled

Unread == [run |-> 0, at |-> 0, state |-> "unread"]
LastName == wait.name = Len(Names)

\* A poll reads the runs of every name, one after the other; of a poll it could not read whole it has no verdict,
\* and the failures add up.
read_verdict ==
  /\ wait.at = "poll"
  /\ LET lines == wait.lines \cup {[run |-> r, at |-> checkRuns[r].at, state |-> checkRuns[r].state] :
                                     r \in {q \in Made : checkRuns[q].name = Names[wait.name]}} IN
     \/ GivesUp
     \/ Fails(IF LastName THEN wait_for_check(Unread) ELSE [wait EXCEPT !.name = @ + 1, !.unread = TRUE])
     \/ ~LastName /\ wait' = [wait EXCEPT !.name = @ + 1, !.lines = lines]
     \/ LastName /\ wait.unread /\ wait' = wait_for_check(Unread)
     \/ LastName /\ ~wait.unread /\ \E line \in newest_run(lines) : wait' = [wait_for_check(line) EXCEPT !.failed = 0]
  /\ UNCHANGED <<checkRuns, statuses, faults>>

\* The newest status of a context, or 0.
newest_link(context) == Max({0} \cup {i \in DOMAIN statuses : statuses[i].context = context})

find ==
  /\ wait.at = "statuses"
  /\ \/ GivesUp \/ Fails(wait)
     \/ wait' = [Exits(IF newest_link("address") = 0 THEN 1 ELSE 0) EXCEPT
                   !.address = newest_link("address"), !.database = newest_link("database")]
  /\ UNCHANGED <<checkRuns, statuses, faults>>

----------------------------------------------------------------------------

Init ==
  /\ checkRuns = <<>>
  /\ statuses = <<>>
  /\ faults = 0
  /\ wait = [at |-> "poll", name |-> 1, lines |-> {}, unread |-> FALSE, failed |-> 0, polls |-> 0, skipped |-> 0,
             running |-> 0, answered |-> "none", passed |-> 0, code |-> 0, address |-> 0, database |-> 0]

\* The commit is followed until the finder ends.
Next ==
  \/ read_verdict \/ find
  \/ /\ wait.at # "done"
     /\ \/ \E records \in {<<>>} \cup {record(database) : database \in Databases}, state \in {"queued", "skipped"} :
             RunMade(state, records)
        \/ \E r \in Made :
             \/ RunStarts(r)
             \/ \E state \in {"success", "failure"} : RunEnds(r, state)
             \/ \E made, answered \in BOOLEAN : write_status(r, made, answered)

Spec == Init /\ [][Next]_previewVars

----------------------------------------------------------------------------
(* Properties *)

\* Where a run's record of a context first stands among the statuses.
Place(context, r) == Min({i \in DOMAIN statuses : statuses[i] = [context |-> context, link |-> r]})

\* A finder that says there is a preview names an address recorded no earlier than that of the run whose pass it waited
\* for, and a database recorded no earlier than that address's own - whichever runs were queued, repeated, skipped or
\* under another name meanwhile, and however their writes were lost or made twice; it says that a passed check recorded
\* nothing only of one without the step; and 3, that the preview is still owed, only of a check with a run to wait for
\* (record, find, wait_for_check).
PreviewIsProved ==
  wait.at = "done" =>
    /\ wait.passed # 0 /\ wait.code = 1 => checkRuns[wait.passed].records = <<>>
    /\ wait.code = 0 =>
         /\ checkRuns[wait.passed].records # <<>> => Place("address", wait.passed) <= wait.address
         /\ LET r == statuses[wait.address].link IN
            checkRuns[r].records = record(TRUE) =>
              /\ wait.database # 0
              /\ Place("database", r) <= wait.database
    /\ wait.code = 3 => \E r \in Made : checkRuns[r].state # "skipped"
=============================================================================
