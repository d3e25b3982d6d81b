----------------------------- MODULE LaneHistory -----------------------------
(***************************************************************************)
(* What a dashboard says a lane's runners did: a collector samples the     *)
(* host every so often (remote_sampler), keeps its samples and the jobs    *)
(* the listener recorded, and from both tells how long the runners were    *)
(* busy (lane_history).  Meanwhile GitHub starts and ends jobs, and the    *)
(* listener hears of it late, twice or never.                              *)
(*                                                                         *)
(* A runner has one slot and at most one job.  The account's quota, read   *)
(* in the same refresh, idle time and the counts of waiting jobs are left  *)
(* out, and a run is shorter than the seven days a sample is kept.         *)
(***************************************************************************)
EXTENDS FiniteSetsExt, Integers, Sequences, SequencesExt

CONSTANTS
  limit,         \* the pool's slots: CI's alone where QAE has slots of its own
  Runners,       \* named in the order they are made
  SampleSpan,    \* a sample stands for at most so long
  Cleanup,       \* a span that ended so recently still covers its runner
  LastStart, MaxSamples, MaxTime  \* bounds

VARIABLES
  clock,
  jobs,     \* each runner's: when it started and ended, whether the slot holds it yet and has the job recorded
  file,     \* the listener's jobs.json: the ends of each runner's entries, oldest first; Never for none yet
  samples,  \* with the runners each saw on a recorded job, of which the code keeps the number
  kept,     \* the kept job of each runner
  host,     \* the runners the last good sample found on slots
  viewed,    \* what the last history calls now
  told      \* the runners whose job's end the listener's file held at a good refresh

historyVars == <<clock, jobs, file, samples, kept, host, viewed, told>>

Never == -1

----------------------------------------------------------------------------
(* The lane: a runner's slot runs a job and cleans up after it.  A unit that *)
(* is up and waits for a job is as good as down to what is counted here.     *)

Kept == <<samples, kept, host, viewed, told>>
Holds(r) == jobs[r].up

\* A unit may clean up for longer than Cleanup.
Tick ==
  /\ clock < MaxTime
  /\ clock' = clock + 1
  /\ UNCHANGED <<jobs, file, Kept>>

JobStarts(r) ==
  /\ clock <= LastStart /\ jobs[r].start = Never /\ Cardinality({q \in Runners : Holds(q)}) < limit
  /\ \A q \in Runners : jobs[q].start = Never => r <= q
  /\ jobs' = [jobs EXCEPT ![r] = [@ EXCEPT !.start = clock, !.up = TRUE]]
  /\ UNCHANGED <<clock, file, Kept>>

JobEnds(r) ==
  /\ Holds(r) /\ jobs[r].finish = Never
  /\ jobs' = [jobs EXCEPT ![r].finish = clock]
  /\ UNCHANGED <<clock, file, Kept>>

GoesDown(r) ==
  /\ Holds(r) /\ jobs[r].finish # Never
  /\ jobs' = [jobs EXCEPT ![r] = [@ EXCEPT !.up = FALSE, !.recorded = FALSE]]
  /\ UNCHANGED <<clock, file, Kept>>

----------------------------------------------------------------------------
(* The listener's records *)

\* It records the job on its slot, if that still holds the runner, and in its file; a restarted listener
\* writes a second entry for a job it heard the end of (once at most).
HearsStart(r) ==
  /\ jobs[r].start # Never
  /\ \/ file[r] = <<>>
     \/ file[r] = <<jobs[r].finish>> /\ jobs[r].finish # Never /\ \A q \in Runners : Len(file[q]) < 2
  /\ file' = [file EXCEPT ![r] = Append(@, Never)]
  /\ jobs' = [jobs EXCEPT ![r].recorded = Holds(r)]
  /\ UNCHANGED <<clock, Kept>>

\* The end of a job it never heard start is an entry too.
HearsFinish(r) ==
  /\ jobs[r].finish # Never /\ file[r] \in {<<>>, <<Never>>}
  /\ file' = [file EXCEPT ![r] = <<jobs[r].finish>>]
  /\ UNCHANGED <<clock, jobs, Kept>>

----------------------------------------------------------------------------
(* A refresh: it notes the time, asks the host, and writes one snapshot *)

\* A slot is free only with its unit down and no job file; a job is on it only while it is not.
read_assignment(r) == jobs[r].recorded
scan_slots == {[runner |-> r, job |-> read_assignment(r)] : r \in {q \in Runners : Holds(q)}}

\* What the sampler answers: the slots and the listener's file, as they are when it looks.
collect == [occupied |-> scan_slots, jobs |-> file]

\* The runners on slots
project_host(raw) == {record.runner : record \in raw.occupied}

Sample(now, raw) == [at |-> now, seen |-> {record.runner : record \in {o \in raw.occupied : o.job}}]

\* (mutant) the newest record of a runner's job wins
keep_Newest(earlier, row) == row

\* The newest record wins, but never drops a finish an earlier one had.
keep(earlier, row) ==
  IF earlier # <<>> /\ row.finish = Never THEN [row EXCEPT !.finish = earlier.finish] ELSE row

\* A job starts when GitHub gave it its runner, however late the listener heard.
project_job(r, finish) == [start |-> jobs[r].start, finish |-> finish]

\* The kept job and then the listener's entries for it.
waits(r, raw) == FoldLeft(LAMBDA row, finish : keep(row, project_job(r, finish)), kept[r], raw.jobs[r])

\* The time is noted before the host is asked, a tick before at most (a bound): jobs may start, end and be
\* cleaned up after in between.
Notes(now) == now \in {clock - 1, clock} /\ now > viewed

\* The sections of the snapshot one write replaces; the history is made of them.
capture(now, raw) ==
  /\ samples' = {p \in samples : p.at # now} \cup {Sample(now, raw)}
  /\ kept' = [r \in Runners |-> waits(r, raw)]
  /\ viewed' = now

Refresh ==
  /\ Cardinality(samples) < MaxSamples
  /\ \E now \in 0 .. clock : Notes(now) /\ capture(now, collect)
  /\ host' = project_host(collect)
  /\ told' = {r \in Runners : r \in told \/ \E i \in DOMAIN file[r] : file[r][i] # Never}
  /\ UNCHANGED <<clock, jobs, file>>

\* The host cannot be read: the history is made anew of what was kept and the host as it last was.  Of what
\* happened since the time was noted nothing is read.
RefreshFails ==
  /\ Notes(clock) /\ viewed' = clock
  /\ UNCHANGED <<clock, jobs, file, samples, kept, host, told>>

----------------------------------------------------------------------------
(* The history made at `viewed` *)

\* Each job of the pool: to its end, or to now while its runner still holds a slot.
job_spans ==
  {[start |-> kept[r].start, stop |-> IF kept[r].finish # Never THEN kept[r].finish ELSE viewed, runner |-> r] :
     r \in {q \in Runners : /\ kept[q] # <<>>
                            /\ kept[q].finish # Never \/ q \in host}}

\* A sample stands for the time until the next one, at most SampleSpan.
Ends(p) == Min({p.at + SampleSpan, viewed} \cup {q.at : q \in {o \in samples : o.at > p.at}})

\* The time of the spans in a sample's interval
Overlap(p, spans) ==
  LET end == Ends(p)
      inside(span) == Max({0, Min({span.stop, end}) - Max({span.start, p.at})})
  IN  MapThenSumSet(inside, spans)

covering(p, spans) == Cardinality({span \in spans : span.start <= p.at /\ p.at <= span.stop})
cleaning(p, spans) == Cardinality({span \in spans : span.stop < p.at /\ p.at <= span.stop + Cleanup})

\* A runner the sample saw on a job that no span covers counts for the whole interval.
unspanned(p, spans) == Max({0, Cardinality(p.seen) - covering(p, spans) - cleaning(p, spans)})
weight(p) == Ends(p) - p.at
running(p) ==
  LET spans == job_spans
  IN  Min({Overlap(p, spans) + unspanned(p, spans) * weight(p), limit * weight(p)})

----------------------------------------------------------------------------

Init ==
  /\ clock = 0
  /\ jobs = [r \in Runners |-> [start |-> Never, finish |-> Never, up |-> FALSE, recorded |-> FALSE]]
  /\ file = [r \in Runners |-> <<>>]
  /\ samples = {}
  /\ kept = [r \in Runners |-> <<>>]
  /\ host = {}
  /\ viewed = Never
  /\ told = {}

Next ==
  \/ Tick \/ Refresh \/ RefreshFails
  \/ \E r \in Runners : JobStarts(r) \/ JobEnds(r) \/ GoesDown(r) \/ HearsStart(r) \/ HearsFinish(r)

Spec == Init /\ [][Next]_historyVars

----------------------------------------------------------------------------
(* Properties *)

\* The pool's jobs that had started, how long they really ran in a sample's interval, and which of them the
\* history can know of: they still run on a slot of the last sample, or the listener told their end.
Jobs == {r \in Runners : jobs[r].start # Never /\ jobs[r].start < viewed}
Until(r) == IF jobs[r].finish = Never THEN viewed ELSE jobs[r].finish
Real(p) == Overlap(p, {[start |-> jobs[r].start, stop |-> Until(r), runner |-> r] : r \in Jobs})
Known(r) ==
  /\ kept[r] # <<>>
  /\ \/ r \in told
     \/ jobs[r].finish = Never /\ r \in host

\* The runners a sample saw on a job that had started only after the sample's time was noted, or had ended
\* more than Cleanup before: by GitHub's times they had none.
Late(p) ==
  {r \in p.seen : \/ jobs[r].start > p.at
                  \/ jobs[r].finish # Never /\ jobs[r].finish + Cleanup < p.at}

Within ==
  (\A r \in Jobs : Known(r)) =>
     \A p \in samples : running(p) - Real(p) \in 0 .. Cardinality(Late(p)) * weight(p)

\* The busy hours are the jobs' own: when a refresh knows every job of the pool, each sample's interval
\* counts exactly the time the jobs in it ran - however the samples fell, whatever was heard late or twice,
\* a job too short for any sample and a runner still cleaning up included - but for the runners seen on a job
\* they had not by GitHub's times: it is never short of the jobs' time, and for each of those at most the
\* interval too long (docs/dashboard-collector.md names the long cleanup, not the start before the sampling).
BusyIsReal ==
  [][viewed' # viewed => Within']_historyVars
=============================================================================
