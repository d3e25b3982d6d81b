----------------------------- MODULE Collector -----------------------------
(***************************************************************************)
(* The passes and head beats that read an owner's open pull requests.  A   *)
(* pass lists the repositories, samples every open head in one search and  *)
(* spends what is left of its calls on checks: changed heads first, then   *)
(* pull requests never read, then the ones whose head is still the one     *)
(* read, and the repositories longest without a reading before the others. *)
(* What it does not reach keeps its last checks, never green.  A beat only *)
(* samples the heads.                                                      *)
(*                                                                         *)
(* GitHub moves between any two requests.  A pull request's checks are one *)
(* state, which its head's rollup shows too; reading them costs one call   *)
(* and listing a repository another.  Stamps are kept by their order.      *)
(***************************************************************************)
EXTENDS FiniteSets, Integers, Sequences, SequencesExt

CONSTANTS
  Names,      \* the owner's repositories, as configured
  PullsOf,    \* the numbers of the pull requests each may have
  MaxCalls,   \* calls one pass may spend
  Fresh,      \* beats a check reading may stay green
  MaxMoves,   \* pushes, finished checks, reruns, openings and closings
  MaxFaults   \* failed searches and reads

Repos == ToSet(Names)
Pulls == UNION {PullsOf[r] : r \in Repos}
RepoOf(p) == CHOOSE r \in Repos : p \in PullsOf[r]

VARIABLES
  gh,          \* GitHub: each pull request's head, its checks' state, whether it is open
  successAge,  \* how long ago a head's checks were last all green
  detail,      \* the last checks read of each pull request, and the head they describe
  urgent,      \* pull requests whose head or rollup no longer matches their detail
  heads, headsOk,
  detailed,    \* repositories with a finished reading, the longest ago first
  attempted,   \* repositories whose reading was started, the longest ago first
  pc, calls, listed, queue, checks, built, readNow, missed,
  shown,       \* the rows of the reading
  moves, faults

envVars == <<gh, moves>>
passVars == <<pc, calls, listed, queue, checks, built, readNow, missed>>
stampVars == <<detailed, attempted>>
headVars == <<heads, headsOk, urgent>>
vars == <<envVars, successAge, detail, headVars, stampVars, passVars, shown, faults>>

Never == Fresh + 1
None == "none"
Shas == 0..MaxMoves
States == {"SUCCESS", "PENDING"}
HeadOf(p) == [sha |-> gh[p].sha, rollup |-> gh[p].state]
Open == {p \in Pulls : gh[p].open}
Fault == faults < MaxFaults /\ faults' = faults + 1

----------------------------------------------------------------------------
(* Heads and stored checks *)

\* A row of a pull request whose checks were never read.
Unloaded == [green |-> FALSE, sha |-> -1, rollup |-> None, known |-> FALSE, age |-> Never,
             blank |-> TRUE, stale |-> FALSE]

SameHead(p, sample) ==
  /\ ~detail[p].blank /\ p \in DOMAIN sample
  /\ detail[p].known
  /\ detail[p].sha = sample[p].sha /\ detail[p].rollup = sample[p].rollup

MarkUrgent(sample) == urgent \cup {p \in Pulls : ~detail[p].blank /\ ~SameHead(p, sample)}

\* The same checks, not green, stale, and the age they have.
Withheld(row) == [row EXCEPT !.green = FALSE, !.stale = TRUE]

\* The last checks when this pass does not reach the pull request, or the blank row.
StoredOrBlank(p) == IF ~detail[p].blank THEN Withheld(detail[p]) ELSE Unloaded

\* A search that fails leaves no heads.
SampleHeads ==
  \/ /\ heads' = [p \in Open |-> HeadOf(p)]
     /\ headsOk' = TRUE
     /\ urgent' = MarkUrgent(heads')
     /\ UNCHANGED faults
  \/ /\ Fault
     /\ heads' = <<>>
     /\ headsOk' = FALSE
     /\ UNCHANGED urgent

----------------------------------------------------------------------------
(* The order of a pass *)

Position(s, x) == CHOOSE i \in DOMAIN s : s[i] = x

\* (mutant) the first repositories of the list come first
Need_None(r) == <<0, 0>>

\* Never finished first, of those never started before started, then the longest ago.
Need(r) ==
  IF r \in ToSet(detailed) THEN <<1, Position(detailed, r)>>
  ELSE IF r \in ToSet(attempted) THEN <<0, Position(attempted, r)>>
  ELSE <<0, 0>>

Sooner(a, b) == a[1] < b[1] \/ (a[1] = b[1] /\ (a[2] < b[2] \/ (a[2] = b[2] /\ a[3] < b[3])))

ByNeed(names) ==
  SetToSortSeq(names, LAMBDA r, s : Sooner(Need(r) \o <<Position(Names, r)>>, Need(s) \o <<Position(Names, s)>>))

\* A changed head, a pull request never read, or one whose head is still the one read.
Kind(p) == IF p \in urgent \/ (~detail[p].blank /\ ~SameHead(p, heads)) THEN 0
           ELSE IF detail[p].blank THEN 1 ELSE 2

QueuePulls(rows) ==
  LET order == ByNeed({r \in Repos : \E p \in DOMAIN rows : RepoOf(p) = r})
      rank(p) == Position(order, RepoOf(p))
      key(p) == IF headsOk THEN <<Kind(p), rank(p), p>> ELSE <<0, rank(p), p>> IN
  SetToSortSeq(DOMAIN rows, LAMBDA p, q : Sooner(key(p), key(q)))

Stamp(stamps, r) == Append(SelectSeq(stamps, LAMBDA s : s # r), r)

----------------------------------------------------------------------------
(* A pass *)

\* Repositories are listed by need while calls are left; the rest are missed.
ListOpen ==
  /\ pc = "idle"
  /\ LET order == ByNeed(Repos)
         reached == {order[i] : i \in {j \in DOMAIN order : j <= MaxCalls}} IN
     /\ listed' = [p \in {q \in Open : RepoOf(q) \in reached} |-> gh[p].sha]
     /\ missed' = Repos \ reached
     /\ calls' = Cardinality(reached)
     \* An empty repository is read by its listing alone.
     /\ detailed' = SelectSeq(detailed, LAMBDA r : r \notin {s \in reached : PullsOf[s] \cap Open = {}})
                    \o SelectSeq(order, LAMBDA r : r \in reached /\ PullsOf[r] \cap Open = {})
  /\ readNow' = {} /\ built' = <<>>
  /\ pc' = "heads"
  /\ UNCHANGED <<envVars, successAge, detail, headVars, attempted, queue, checks, shown, faults>>

PassHeads ==
  /\ pc = "heads"
  /\ SampleHeads
  /\ pc' = "queue"
  /\ UNCHANGED <<envVars, successAge, detail, stampVars, calls, listed, queue, checks, built,
                 readNow, missed, shown>>

Queue ==
  /\ pc = "queue"
  /\ queue' = QueuePulls(listed)
  /\ pc' = "detail"
  /\ UNCHANGED <<envVars, successAge, detail, headVars, stampVars, calls, listed, checks, built,
                 readNow, missed, shown, faults>>

First == queue[1]
Spent == calls >= MaxCalls
Placed(row) ==
  /\ built' = [p \in DOMAIN built \cup {First} |-> IF p = First THEN row ELSE built[p]]
  /\ queue' = Tail(queue)

\* No calls are left for this one.
SkipPull ==
  /\ pc = "detail" /\ queue # <<>> /\ Spent
  /\ Placed(StoredOrBlank(First))
  /\ UNCHANGED <<envVars, successAge, detail, headVars, stampVars, pc, calls, listed, checks,
                 readNow, missed, shown, faults>>

\* The checks of the head the listing named.
ReadChecks ==
  /\ pc = "detail" /\ queue # <<>> /\ ~Spent
  /\ calls' = calls + 1
  /\ attempted' = Stamp(attempted, RepoOf(First))
  /\ checks' = IF gh[First].sha = listed[First] THEN gh[First].state ELSE "PENDING"
  /\ pc' = "current"
  /\ UNCHANGED <<envVars, successAge, detail, headVars, detailed, listed, queue, built, readNow,
                 missed, shown, faults>>

\* A read that fails leaves the pull request with what was stored.
PullFails ==
  /\ pc = "current"
  /\ Fault
  /\ Placed(StoredOrBlank(First))
  /\ pc' = "detail"
  /\ UNCHANGED <<envVars, successAge, detail, headVars, stampVars, calls, listed, checks, readNow,
                 missed, shown>>

\* (mutant) the checks may be of an older head
MergeReady_AnyHead(sha, known, rollup) == checks = "SUCCESS" /\ (known => rollup = "SUCCESS")

\* Green needs every check of a head that is still the head, and a rollup that agrees.
MergeReady(sha, known, rollup) == sha = listed[First] /\ checks = "SUCCESS" /\ (known => rollup = "SUCCESS")

\* The pull request as it is now; its row describes the head it has, and is remembered.
Remember ==
  /\ pc = "current"
  /\ LET p == First
         sha == gh[p].sha
         known == p \in DOMAIN heads /\ heads[p].sha = sha
         rollup == IF known THEN heads[p].rollup ELSE None
         row == [green |-> MergeReady(sha, known, rollup), sha |-> sha, rollup |-> rollup,
                 known |-> known, age |-> 0, blank |-> FALSE, stale |-> FALSE] IN
     /\ detail' = [detail EXCEPT ![p] = row]
     /\ Placed(row)
     /\ urgent' = urgent \ {p}
     /\ readNow' = readNow \cup {p}
  /\ pc' = "detail"
  /\ UNCHANGED <<envVars, successAge, heads, headsOk, stampVars, calls, listed, checks, missed,
                 shown, faults>>

\* A repository is stamped when one of its pull requests was read and none is left blank.
Noted(stamps) ==
  LET rows(r) == {p \in DOMAIN built : RepoOf(p) = r}
      left == {r \in Repos : \E p \in rows(r) : built[p].blank}
      read == {r \in Repos \ left : rows(r) \cap readNow # {}} IN
  SelectSeq(stamps, LAMBDA r : r \notin left \cup read) \o SelectSeq(Names, LAMBDA r : r \in read)

\* What it built replaces the reading; a repository it missed keeps its rows, stale.
Finish ==
  /\ pc = "detail" /\ queue = <<>>
  /\ detailed' = Noted(detailed)
  /\ shown' = [p \in DOMAIN built \cup {q \in DOMAIN shown : RepoOf(q) \in missed} |->
                 IF p \in DOMAIN built THEN built[p] ELSE [shown[p] EXCEPT !.stale = TRUE]]
  /\ pc' = "idle"
  /\ listed' = <<>> /\ built' = <<>> /\ missed' = {} /\ calls' = 0 /\ checks' = "PENDING"
  /\ UNCHANGED <<envVars, successAge, detail, headVars, attempted, queue, readNow, faults>>

----------------------------------------------------------------------------
(* Beats and time *)

\* Nothing a beat returns is green: it did not reload the checks.
ReconcilePull(row) == IF row.blank THEN row ELSE Withheld(row)

\* Every head; a pull request no longer open goes, and one not seen before comes, blank.
HeadBeat ==
  /\ pc = "idle"
  /\ SampleHeads
  /\ shown' = IF ~headsOk' THEN shown
              ELSE [p \in DOMAIN heads' |-> IF p \in DOMAIN shown THEN ReconcilePull(shown[p])
                                            ELSE Unloaded]
  /\ UNCHANGED <<envVars, successAge, detail, stampVars, passVars>>

Aged(n) == IF n > Fresh THEN n ELSE n + 1
Older(rows) == [p \in DOMAIN rows |-> [rows[p] EXCEPT !.age = Aged(@)]]
\* The requests of one pull request are answered within a beat: no beat falls between its reads.
Tick ==
  /\ pc # "current"
  /\ shown' = Older(shown)
  /\ built' = Older(built)
  /\ detail' = [p \in Pulls |-> IF detail[p].blank THEN detail[p] ELSE [detail[p] EXCEPT !.age = Aged(@)]]
  /\ successAge' = [p \in Pulls |-> [s \in Shas |->
       IF gh[p].sha = s /\ gh[p].state = "SUCCESS" THEN 0 ELSE Aged(successAge[p][s])]]
  /\ <<shown, built, detail, successAge>>' # <<shown, built, detail, successAge>>
  /\ UNCHANGED <<envVars, headVars, stampVars, pc, calls, listed, queue, checks, readNow, missed, faults>>

----------------------------------------------------------------------------
(* GitHub *)

Moves(p, new) ==
  /\ moves < MaxMoves
  /\ moves' = moves + 1
  /\ gh' = [gh EXCEPT ![p] = new]
  /\ successAge' = IF new.state = "SUCCESS" THEN [successAge EXCEPT ![p][new.sha] = 0] ELSE successAge
  /\ UNCHANGED <<detail, headVars, stampVars, passVars, shown, faults>>

Push(p) == gh[p].open /\ Moves(p, [gh[p] EXCEPT !.sha = @ + 1, !.state = "PENDING"])
ChecksEnd(p) == gh[p].state = "PENDING" /\ Moves(p, [gh[p] EXCEPT !.state = "SUCCESS"])
Rerun(p) == gh[p].state = "SUCCESS" /\ Moves(p, [gh[p] EXCEPT !.state = "PENDING"])
OpenOrClose(p) == Moves(p, [gh[p] EXCEPT !.open = ~@])

Init ==
  /\ gh \in [Pulls -> {[sha |-> 0, state |-> "SUCCESS", open |-> TRUE]}]
  /\ successAge = [p \in Pulls |-> [s \in Shas |-> IF s = 0 THEN 0 ELSE Never]]
  /\ detail = [p \in Pulls |-> Unloaded]
  /\ urgent = {} /\ heads = <<>> /\ headsOk = FALSE
  /\ detailed = <<>> /\ attempted = <<>>
  /\ pc = "idle" /\ calls = 0 /\ listed = <<>> /\ queue = <<>> /\ checks = "PENDING"
  /\ built = <<>> /\ readNow = {} /\ missed = {}
  /\ shown = <<>>
  /\ moves = 0 /\ faults = 0

PassGoes == ListOpen \/ PassHeads \/ Queue \/ SkipPull \/ ReadChecks \/ PullFails \/ Remember \/ Finish
GitHub == \E p \in Pulls : Push(p) \/ ChecksEnd(p) \/ Rerun(p) \/ OpenOrClose(p)
Next == PassGoes \/ HeadBeat \/ Tick \/ GitHub

\* The beat's thread reads pass after pass.
Spec == Init /\ [][Next]_vars /\ WF_vars(PassGoes)

----------------------------------------------------------------------------
(* What a request is served, and what it may rely on *)

\* A check reading older than a beat is not green, nor one of a stale row.
ServedGreen(p) == p \in DOMAIN shown /\ shown[p].green /\ ~shown[p].stale /\ shown[p].age <= Fresh

\* A title is green only when the checks of the very head the row shows were all green within the
\* last beat, whatever moved, failed or was carried over since.
GreenIsTrue == \A p \in Pulls : ServedGreen(p) => successAge[p][shown[p].sha] <= Fresh

\* A busy head of the list cannot starve the tail on every pass: a repository that keeps a pull
\* request open is read again and again, though one pass has calls for only one pull request.
HasOpen(r) == PullsOf[r] \cap Open # {}
TailIsRead == \A r \in Repos : <>[]HasOpen(r) => []<>(readNow \cap PullsOf[r] # {})
=============================================================================
