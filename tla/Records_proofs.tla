--------------------------- MODULE Records_proofs ---------------------------
(***************************************************************************)
(* Proofs that a lane's listener keeps a complete history of its jobs: for *)
(* every number of runners, sets and instances, every bound of the         *)
(* history, and however messages, handlers, failed writes, crashes and     *)
(* restarts interleave; and that a dashboard which lost access to a        *)
(* repository neither serves nor keeps what it read of its merged pull     *)
(* requests, however its cycles and resets interleave; and that the        *)
(* address a finder gives of a preview is that of the pass it waited for.  *)
(***************************************************************************)
EXTENDS Records, Sequences, FiniteSetTheorems, WellFoundedInduction, TLAPS

\* A history of a permitted length with one entry per runner.
Whole(s) ==
    /\ s \in Seq(Entry) /\ Len(s) <= MaxJobHistory
    /\ \A i, j \in 1 .. Len(s) : s[i].runner = s[j].runner => i = j

\* The kinds of a handler's step on a start message.
OnStart == {"assign", "record"}

InHand(r, ats) == \E k \in SetKeys : hand[k].at \in ats /\ hand[k].runner = r

\* A message of the runner's that is not yet in the history.
StartDue(r) == <<"started", r>> \in events \/ InHand(r, OnStart)
FinishDue(r) == <<"completed", r>> \in events \/ InHand(r, {"finish"})

HasStart(s, r) == \E i \in 1 .. Len(s) : s[i].runner = r /\ s[i].started
HasFinish(s, r) == \E i \in 1 .. Len(s) : s[i].runner = r /\ s[i].finished

HandType == {Idle} \cup [at : OnStart \cup {"finish"}, runner : Runners]

Typed ==
    /\ up \in BOOLEAN
    /\ hand \in [SetKeys -> HandType]
    /\ life \in [Runners -> {"new", "waiting", "running", "ended", "gone", "unused"}]
    /\ Whole(jobs) /\ Whole(jobsFile)

\* A message is handled by its runner's set, and a start is there once.
OwnSession ==
    /\ \A k \in SetKeys : hand[k] # Idle => SetOf[hand[k].runner] = k
    /\ \A r \in Runners : <<"started", r>> \in events => ~InHand(r, OnStart)

\* A listener that is down holds nothing in memory.
NothingHeld == ~up => jobs = <<>> /\ \A k \in SetKeys : hand[k] = Idle

\* Before its unit takes a job a runner has neither messages nor an entry.
NoneBefore ==
    \A r \in Runners : life[r] \in {"new", "waiting", "unused"} =>
        /\ ~StartDue(r) /\ ~FinishDue(r)
        /\ \A s \in {jobs, jobsFile} : \A i \in 1 .. Len(s) : s[i].runner # r

\* While a start is not yet recorded, an entry of its runner is that of the finish.
FinishOnly(s) ==
    \A r \in Runners : StartDue(r) =>
        \A i \in 1 .. Len(s) : s[i].runner = r => ~s[i].started /\ s[i].finished

\* A message that is not pending is in the history, or known to be missed.
History == IF up THEN jobs ELSE jobsFile

Heard ==
    \A r \in Runners \ missed :
        /\ life[r] \in {"running", "ended", "gone"} => StartDue(r) \/ HasStart(History, r)
        /\ life[r] \in {"ended", "gone"} => FinishDue(r) \/ HasFinish(History, r)

IInv ==
    /\ Typed /\ OwnSession /\ NothingHeld /\ NoneBefore
    /\ FinishOnly(jobs) /\ FinishOnly(jobsFile) /\ Heard

------------------------------------------------------------------------------
(* The history as a sequence *)

LEMMA EntrySeqs ==
    /\ \A s \in Seq(Entry) : Len(s) \in Nat /\ \A i \in 1 .. Len(s) : s[i] \in Entry
    /\ \A s \in Seq(Entry), e \in Entry :
           /\ Append(s, e) \in Seq(Entry) /\ Len(Append(s, e)) = Len(s) + 1
           /\ \A i \in 1 .. Len(s) : Append(s, e)[i] = s[i]
           /\ Append(s, e)[Len(s) + 1] = e
OBVIOUS

LEMMA MaxLength == MaxJobHistory \in Nat /\ MaxJobHistory >= 1
BY JobRecordsAssumption

\* What recording an entry makes of a history: the entry is in it in place of
\* its runner's, and only the oldest of a full history goes.
Takes(s, t, e) ==
    /\ Whole(t)
    /\ \E j \in 1 .. Len(t) : t[j] = e
    /\ \A j \in 1 .. Len(t) :
           t[j] = e \/ (t[j].runner # e.runner /\ \E i \in 1 .. Len(s) : s[i] = t[j])
    /\ \A i \in 1 .. Len(s) :
           \/ s[i].runner = e.runner
           \/ \E j \in 1 .. Len(t) : t[j] = s[i]
           \/ i = 1 /\ Len(s) = MaxJobHistory

\* A first entry of a runner: the oldest of a full history goes.
LEMMA AddsEntry ==
    ASSUME NEW s, Whole(s), NEW e \in Entry, \A i \in 1 .. Len(s) : s[i].runner # e.runner
    PROVE  Takes(s, Bounded(Append(s, e)), e)
<1> DEFINE a == Append(s, e)
           t == Bounded(a)
<1>1. s \in Seq(Entry) /\ Len(s) \in Nat /\ Len(s) <= MaxJobHistory /\ \A i \in 1 .. Len(s) : s[i] \in Entry
  BY EntrySeqs DEF Whole
<1>2. /\ a \in Seq(Entry) /\ Len(a) = Len(s) + 1
      /\ \A i \in 1 .. Len(s) : a[i] = s[i]
      /\ a[Len(s) + 1] = e
  BY <1>1, EntrySeqs
<1>3. \A i, j \in 1 .. Len(a) : a[i].runner = a[j].runner => i = j
  <2> SUFFICES ASSUME NEW i \in 1 .. Len(a), NEW j \in 1 .. Len(a), a[i].runner = a[j].runner
               PROVE  i = j
    OBVIOUS
  <2>1. (i \in 1 .. Len(s) \/ i = Len(s) + 1) /\ (j \in 1 .. Len(s) \/ j = Len(s) + 1)
    BY <1>1, <1>2
  <2> HIDE DEF a
  <2> QED
    BY <1>2, <2>1 DEF Whole
<1> HIDE DEF a
<1>4. CASE Len(s) < MaxJobHistory
  <2>1. t = a
    BY <1>1, <1>2, <1>4, MaxLength DEF Bounded
  <2> HIDE DEF t
  <2>2. Whole(t) /\ t[Len(t)] = e /\ Len(t) \in 1 .. Len(t)
    BY <1>1, <1>2, <1>3, <1>4, <2>1, MaxLength DEF Whole
  <2>3. \A j \in 1 .. Len(t) : j \in 1 .. Len(s) \/ j = Len(s) + 1
    BY <1>1, <1>2, <2>1
  <2>4. \A i \in 1 .. Len(s) : i \in 1 .. Len(t) /\ t[i] = s[i]
    BY <1>1, <1>2, <2>1
  <2>5. \A j \in 1 .. Len(t) : t[j] = e \/ (t[j].runner # e.runner /\ \E i \in 1 .. Len(s) : s[i] = t[j])
    BY <1>2, <2>1, <2>3, <2>4
  <2>6. Takes(s, t, e)
    BY <2>2, <2>4, <2>5 DEF Takes
  <2> QED
    BY <2>6 DEF t, a
<1>5. CASE Len(s) = MaxJobHistory
  <2>1. t = SubSeq(a, 2, Len(a))
    <3>1. Len(a) > MaxJobHistory /\ Len(a) - MaxJobHistory + 1 = 2
      BY <1>1, <1>2, <1>5, MaxLength
    <3>2. t = SubSeq(a, Len(a) - MaxJobHistory + 1, Len(a))
      BY <3>1 DEF Bounded
    <3> QED
      BY <3>1, <3>2
  <2>2. t \in Seq(Entry) /\ Len(t) = Len(s)
    BY <1>1, <1>2, <1>5, <2>1, MaxLength
  <2>3. \A j \in 1 .. Len(t) : j + 1 \in 1 .. Len(a) /\ t[j] = a[j + 1]
    BY <1>1, <1>2, <1>5, <2>1, <2>2, MaxLength
  <2> HIDE DEF t
  <2>4. Whole(t)
    <3> SUFFICES ASSUME NEW i \in 1 .. Len(t), NEW j \in 1 .. Len(t), t[i].runner = t[j].runner
                 PROVE  i = j
      BY <1>1, <2>2 DEF Whole
    <3>1. i + 1 = j + 1
      BY <1>3, <2>3
    <3> QED
      BY <1>1, <2>2, <3>1
  <2>5. Len(t) \in 1 .. Len(t) /\ t[Len(t)] = e
    BY <1>1, <1>2, <1>5, <2>2, <2>3, MaxLength
  <2>6. \A j \in 1 .. Len(t) : j + 1 \in 1 .. Len(s) \/ j + 1 = Len(s) + 1
    BY <1>1, <2>2
  <2>7. \A j \in 1 .. Len(t) : t[j] = e \/ (t[j].runner # e.runner /\ \E i \in 1 .. Len(s) : s[i] = t[j])
    BY <1>2, <2>3, <2>6
  <2>8. \A i \in 1 .. Len(s) : i = 1 \/ (i - 1 \in 1 .. Len(t) /\ t[i - 1] = s[i])
    <3> SUFFICES ASSUME NEW i \in 1 .. Len(s), i # 1 PROVE i - 1 \in 1 .. Len(t) /\ t[i - 1] = s[i]
      OBVIOUS
    <3>1. i - 1 \in 1 .. Len(t) /\ (i - 1) + 1 = i
      BY <1>1, <2>2
    <3>2. t[i - 1] = a[i]
      BY <2>3, <3>1
    <3> QED
      BY <1>2, <3>1, <3>2
  <2>9. Takes(s, t, e)
    BY <1>5, <2>4, <2>5, <2>7, <2>8 DEF Takes
  <2> QED
    BY <2>9 DEF t, a
<1> QED
  BY <1>1, <1>4, <1>5, MaxLength

\* A changed entry goes to the end; nothing else goes.
LEMMA ChangesEntry ==
    ASSUME NEW s, Whole(s), NEW i \in 1 .. Len(s), NEW e \in Entry, e.runner = s[i].runner
    PROVE  /\ Takes(s, Bounded(Changed(s, i, e)), e)
           /\ \A j \in 1 .. Len(s) : j = i \/ s[j].runner # e.runner
<1> DEFINE front == SubSeq(s, 1, i - 1)
           back == SubSeq(s, i + 1, Len(s))
           rest == front \o back
           t == Append(rest, e)
           n == Len(s)
<1>1. s \in Seq(Entry) /\ n \in Nat /\ n <= MaxJobHistory /\ i \in 1 .. n /\ \A j \in 1 .. n : s[j] \in Entry
  BY EntrySeqs DEF Whole
<1>2. /\ front \in Seq(Entry) /\ Len(front) = i - 1
      /\ \A j \in 1 .. i - 1 : front[j] = s[j]
  BY <1>1
<1>3. /\ back \in Seq(Entry) /\ Len(back) = n - i
      /\ \A j \in 1 .. n - i : back[j] = s[i + j]
  BY <1>1
<1> HIDE DEF front, back
<1>4. /\ rest \in Seq(Entry) /\ Len(rest) = n - 1
      /\ \A j \in 1 .. n - 1 : rest[j] = IF j < i THEN s[j] ELSE s[j + 1]
  <2>1. rest \in Seq(Entry) /\ Len(rest) = n - 1
    <3> HIDE DEF n
    <3>0. front \in Seq(Entry) /\ back \in Seq(Entry)
      BY <1>2, <1>3
    <3>1. rest \in Seq(Entry) /\ Len(rest) = Len(front) + Len(back)
      BY <3>0
    <3>2. (i - 1) + (n - i) = n - 1
      BY <1>1
    <3> QED
      BY <1>2, <1>3, <3>1, <3>2
  <2>2. \A j \in 1 .. n - 1 : rest[j] = IF j <= i - 1 THEN front[j] ELSE back[j - (i - 1)]
    <3> SUFFICES ASSUME NEW j \in 1 .. n - 1 PROVE rest[j] = IF j <= i - 1 THEN front[j] ELSE back[j - (i - 1)]
      OBVIOUS
    <3>1. j \in 1 .. Len(front) + Len(back)
      BY <1>1, <1>2, <1>3
    <3>2. front \in Seq(Entry) /\ back \in Seq(Entry) /\ Len(front) = i - 1
      BY <1>2, <1>3
    <3> HIDE DEF n
    <3>3. (front \o back)[j] = IF j <= Len(front) THEN front[j] ELSE back[j - Len(front)]
      BY <3>1, <3>2
    <3> QED
      BY <3>2, <3>3
  <2>3. ASSUME NEW j \in 1 .. n - 1 PROVE rest[j] = IF j < i THEN s[j] ELSE s[j + 1]
    <3>1. CASE j < i
      BY <1>1, <1>2, <2>2, <3>1
    <3>2. CASE ~(j < i)
      <4>1. j - (i - 1) \in 1 .. n - i /\ i + (j - (i - 1)) = j + 1 /\ ~(j <= i - 1)
        BY <1>1, <3>2
      <4> QED
        BY <1>3, <2>2, <3>2, <4>1
    <3> QED
      BY <3>1, <3>2
  <2> QED
    BY <2>1, <2>3
<1> HIDE DEF rest
<1>5. t \in Seq(Entry) /\ Len(t) = n /\ t[n] = e /\ \A j \in 1 .. n - 1 : t[j] = rest[j]
  BY <1>1, <1>4, EntrySeqs
<1>6. t = Changed(s, i, e)
  BY DEF Changed, RemoveAt, rest, front, back
<1>7. Bounded(Changed(s, i, e)) = t
  <2>1. ~(Len(t) > MaxJobHistory)
    BY <1>1, <1>5, MaxLength
  <2> QED
    BY <1>6, <2>1 DEF Bounded
<1> HIDE DEF t, n
<1>8. \A j \in 1 .. n - 1 : \E k \in 1 .. n : /\ k # i /\ t[j] = s[k]
                                             /\ k = IF j < i THEN j ELSE j + 1
  BY <1>1, <1>4, <1>5
<1>9. \A k \in 1 .. n : k # i => \E j \in 1 .. n - 1 : t[j] = s[k]
  <2> SUFFICES ASSUME NEW k \in 1 .. n, k # i PROVE \E j \in 1 .. n - 1 : t[j] = s[k]
    OBVIOUS
  <2>1. CASE k < i
    <3>1. k \in 1 .. n - 1
      BY <1>1, <2>1
    <3> QED
      BY <1>4, <1>5, <2>1, <3>1
  <2>2. CASE k > i
    <3>1. k - 1 \in 1 .. n - 1 /\ ~(k - 1 < i) /\ (k - 1) + 1 = k
      BY <1>1, <2>2
    <3> QED
      BY <1>4, <1>5, <3>1
  <2> QED
    BY <1>1, <2>1, <2>2
<1>10. \A j, k \in 1 .. n : s[j].runner = s[k].runner => j = k
  BY DEF Whole, n
<1>11. \A j \in 1 .. n : j = i \/ s[j].runner # e.runner
  BY <1>1, <1>10
<1>12. Whole(t)
  <2> SUFFICES ASSUME NEW j \in 1 .. n, NEW k \in 1 .. n, t[j].runner = t[k].runner PROVE j = k
    BY <1>1, <1>5 DEF Whole
  <2>1. CASE j = n /\ k = n
    BY <2>1
  <2>2. CASE j = n /\ k # n
    <3>1. k \in 1 .. n - 1
      BY <1>1, <2>2
    <3> QED
      BY <1>5, <1>8, <1>11, <2>2, <3>1
  <2>3. CASE j # n /\ k = n
    <3>1. j \in 1 .. n - 1
      BY <1>1, <2>3
    <3> QED
      BY <1>5, <1>8, <1>11, <2>3, <3>1
  <2>4. CASE j # n /\ k # n
    <3>1. j \in 1 .. n - 1 /\ k \in 1 .. n - 1
      BY <1>1, <2>4
    <3>2. (IF j < i THEN j ELSE j + 1) = (IF k < i THEN k ELSE k + 1)
      BY <1>8, <1>10, <3>1
    <3> QED
      BY <1>1, <3>1, <3>2
  <2> QED
    BY <2>1, <2>2, <2>3, <2>4
<1>13. n \in 1 .. Len(t) /\ \A j \in 1 .. Len(t) : j = n \/ j \in 1 .. n - 1
  BY <1>1, <1>5
<1>14. \A j \in 1 .. Len(t) : t[j] = e \/ (t[j].runner # e.runner /\ \E k \in 1 .. n : s[k] = t[j])
  BY <1>5, <1>8, <1>11, <1>13
<1>15. \A k \in 1 .. n : s[k].runner = e.runner \/ \E j \in 1 .. Len(t) : t[j] = s[k]
  <2> SUFFICES ASSUME NEW k \in 1 .. n, k # i PROVE \E j \in 1 .. Len(t) : t[j] = s[k]
    OBVIOUS
  <2>1. \A j \in 1 .. n - 1 : j \in 1 .. Len(t)
    BY <1>1, <1>5
  <2> QED
    BY <1>9, <2>1
<1>16. Takes(s, t, e)
  BY <1>5, <1>12, <1>13, <1>14, <1>15 DEF Takes, n
<1> QED
  BY <1>7, <1>11, <1>16 DEF n

\* A whole history has at most one entry of a runner, so its last is the one.
LEMMA OneEntry ==
    ASSUME NEW s, Whole(s), NEW r, EntriesOf(s, r) # {}
    PROVE  LastEntry(s, r) \in 1 .. Len(s) /\ s[LastEntry(s, r)].runner = r
<1>1. PICK i \in 1 .. Len(s) : s[i].runner = r
  BY DEF EntriesOf
<1>2. \A j \in EntriesOf(s, r) : j = i
  BY <1>1 DEF EntriesOf, Whole
<1>3. i \in EntriesOf(s, r) /\ i \in Int
  BY <1>1, EntrySeqs DEF EntriesOf, Whole
<1>4. \E j \in EntriesOf(s, r) : \A m \in EntriesOf(s, r) : m <= j
  <2>1. \A m \in EntriesOf(s, r) : m <= i
    BY <1>2, <1>3
  <2> QED
    BY <1>3, <2>1
<1>5. LastEntry(s, r) \in EntriesOf(s, r)
  BY <1>4 DEF LastEntry
<1> QED
  BY <1>1, <1>2, <1>5

\* A start is recorded beside a finish heard before it.
LEMMA StartTaken ==
    ASSUME NEW s, Whole(s), NEW r \in Runners,
           \A i \in 1 .. Len(s) : s[i].runner = r => ~s[i].started /\ s[i].finished
    PROVE  \E e \in Entry : /\ Takes(s, WithStart(s, r), e)
                            /\ e.runner = r /\ e.started
                            /\ \A i \in 1 .. Len(s) : s[i].runner = r => e.finished
<1>1. CASE EntriesOf(s, r) # {}
  <2> DEFINE i == LastEntry(s, r)
             e == [runner |-> r, started |-> TRUE, finished |-> TRUE]
  <2>1. i \in 1 .. Len(s) /\ s[i].runner = r
    BY <1>1, OneEntry
  <2>2. WithStart(s, r) = Bounded(Changed(s, i, e))
    BY <1>1, <2>1 DEF WithStart
  <2>3. e \in Entry /\ e.runner = s[i].runner
    BY <2>1 DEF Entry
  <2>4. Takes(s, Bounded(Changed(s, i, e)), e)
    <3> HIDE DEF i, e
    <3> QED
      BY <2>1, <2>3, ChangesEntry
  <2>5. e.runner = r /\ e.started /\ e.finished
    OBVIOUS
  <2> HIDE DEF i, e
  <2> QED
    BY <2>2, <2>3, <2>4, <2>5
<1>2. CASE EntriesOf(s, r) = {}
  <2> DEFINE e == [runner |-> r, started |-> TRUE, finished |-> FALSE]
  <2>1. WithStart(s, r) = Bounded(Append(s, e))
    BY <1>2 DEF WithStart
  <2>2. e \in Entry /\ e.runner = r /\ e.started
    BY DEF Entry
  <2>3. \A i \in 1 .. Len(s) : s[i].runner # r
    BY <1>2 DEF EntriesOf
  <2> HIDE DEF e
  <2>4. Takes(s, Bounded(Append(s, e)), e)
    BY <2>2, <2>3, AddsEntry
  <2> QED
    BY <2>1, <2>2, <2>3, <2>4
<1> QED
  BY <1>1, <1>2

\* A finish is recorded in its start's entry.
LEMMA FinishTaken ==
    ASSUME NEW s, Whole(s), NEW r \in Runners
    PROVE  \E e \in Entry : /\ Takes(s, WithFinish(s, r), e)
                            /\ e.runner = r /\ e.finished
                            /\ \A i \in 1 .. Len(s) : s[i].runner = r => (e.started = s[i].started)
                            /\ e.started => \E i \in 1 .. Len(s) : s[i].runner = r /\ s[i].started
<1>1. CASE EntriesOf(s, r) # {}
  <2> DEFINE i == LastEntry(s, r)
             e == [s[i] EXCEPT !.finished = TRUE]
  <2>1. i \in 1 .. Len(s) /\ s[i].runner = r
    BY <1>1, OneEntry
  <2>2. WithFinish(s, r) = Bounded(Changed(s, i, e))
    BY <1>1 DEF WithFinish
  <2>3. s[i] \in Entry
    BY <2>1, EntrySeqs DEF Whole
  <2>4. e \in Entry /\ e.runner = s[i].runner /\ e.finished /\ (e.started = s[i].started)
    BY <2>3 DEF Entry
  <2>5. Takes(s, Bounded(Changed(s, i, e)), e) /\ \A j \in 1 .. Len(s) : j = i \/ s[j].runner # e.runner
    <3> HIDE DEF i, e
    <3> QED
      BY <2>1, <2>4, ChangesEntry
  <2> HIDE DEF i, e
  <2> QED
    BY <2>1, <2>2, <2>4, <2>5
<1>2. CASE EntriesOf(s, r) = {}
  <2> DEFINE e == [runner |-> r, started |-> FALSE, finished |-> TRUE]
  <2>1. WithFinish(s, r) = Bounded(Append(s, e))
    BY <1>2 DEF WithFinish
  <2>2. e \in Entry /\ e.runner = r /\ ~e.started /\ e.finished
    BY DEF Entry
  <2>3. \A i \in 1 .. Len(s) : s[i].runner # r
    BY <1>2 DEF EntriesOf
  <2> HIDE DEF e
  <2>4. Takes(s, Bounded(Append(s, e)), e)
    BY <2>2, <2>3, AddsEntry
  <2> QED
    BY <2>1, <2>2, <2>3, <2>4
<1> QED
  BY <1>1, <1>2

------------------------------------------------------------------------------
(* The handlers *)

LEMMA NotIdle ==
    /\ "started" # "completed"
    /\ Idle.at = "idle" /\ Idle \in HandType
    /\ \A h \in HandType : h.at \in OnStart \cup {"finish"} => h # Idle /\ h.runner \in Runners
    /\ \A h \in HandType : h # Idle => h.at \in OnStart \cup {"finish"} /\ h.runner \in Runners
BY JobRecordsAssumption DEF Idle, HandType, OnStart

\* What RecordJob and RecordFinish do to the history and to its file.
Recorded(k, e) ==
    /\ up /\ UNCHANGED <<up, life, events>>
    /\ hand[k] # Idle /\ hand' = [hand EXCEPT ![k] = Idle]
    /\ e \in Entry /\ e.runner = hand[k].runner
    /\ Takes(jobs, jobs', e)
    /\ jobsFile' = jobs' \/ jobsFile' = jobsFile
    /\ missed' = missed \cup ({f.runner : f \in Range(jobs)} \ {f.runner : f \in Range(jobs')})

LEMMA JobRecorded ==
    ASSUME IInv, NEW k \in SetKeys, RecordJob(k)
    PROVE  hand[k].at = "record"
           /\ \E e \in Entry : /\ Recorded(k, e) /\ e.started
                               /\ \A i \in 1 .. Len(jobs) : jobs[i].runner = e.runner => e.finished
<1>1. hand[k] \in HandType /\ hand[k].at = "record"
  BY DEF IInv, Typed, RecordJob
<1>2. hand[k] # Idle /\ hand[k].runner \in Runners
  BY <1>1, NotIdle DEF OnStart
<1>3. StartDue(hand[k].runner)
  BY <1>1 DEF StartDue, InHand, OnStart
<1>4. Whole(jobs) /\ FinishOnly(jobs)
  BY DEF IInv, Typed
<1>5. PICK e \in Entry : /\ Takes(jobs, WithStart(jobs, hand[k].runner), e)
                         /\ e.runner = hand[k].runner /\ e.started
                         /\ \A i \in 1 .. Len(jobs) : jobs[i].runner = hand[k].runner => e.finished
  BY <1>2, <1>3, <1>4, StartTaken DEF FinishOnly
<1>6. Recorded(k, e)
  BY <1>2, <1>5 DEF RecordJob, Record, Recorded, world
<1> QED
  BY <1>1, <1>5, <1>6

LEMMA FinishRecorded ==
    ASSUME IInv, NEW k \in SetKeys, RecordFinish(k)
    PROVE  hand[k].at = "finish"
           /\ \E e \in Entry : /\ Recorded(k, e) /\ e.finished
                               /\ \A i \in 1 .. Len(jobs) : jobs[i].runner = e.runner => (e.started = jobs[i].started)
                               /\ e.started => \E i \in 1 .. Len(jobs) : jobs[i].runner = e.runner /\ jobs[i].started
<1>1. hand[k] \in HandType /\ hand[k].at = "finish"
  BY DEF IInv, Typed, RecordFinish
<1>2. hand[k] # Idle /\ hand[k].runner \in Runners
  BY <1>1, NotIdle
<1>3. Whole(jobs)
  BY DEF IInv, Typed
<1>4. PICK e \in Entry : /\ Takes(jobs, WithFinish(jobs, hand[k].runner), e)
                         /\ e.runner = hand[k].runner /\ e.finished
                         /\ \A i \in 1 .. Len(jobs) : jobs[i].runner = hand[k].runner => (e.started = jobs[i].started)
                         /\ e.started => \E i \in 1 .. Len(jobs) : jobs[i].runner = hand[k].runner /\ jobs[i].started
  BY <1>2, <1>3, FinishTaken
<1>5. Recorded(k, e)
  BY <1>2, <1>4 DEF RecordFinish, Record, Recorded, world
<1> QED
  BY <1>1, <1>4, <1>5

\* A recorded message is in hand no more, and every other one still is.
LEMMA RecordedHand ==
    ASSUME IInv, NEW k \in SetKeys, NEW e, Recorded(k, e), NEW ats \in {OnStart, {"finish"}}
    PROVE  /\ ~InHand(e.runner, ats)'
           /\ \A r : r # e.runner => (InHand(r, ats)' <=> InHand(r, ats))
<1>1. hand \in [SetKeys -> HandType] /\ hand' = [hand EXCEPT ![k] = Idle] /\ hand[k] # Idle
      /\ e.runner = hand[k].runner
  BY DEF IInv, Typed, Recorded
<1>2. "idle" \notin ats /\ ats \subseteq OnStart \cup {"finish"}
  BY DEF OnStart
<1>3. hand'[k] = Idle /\ \A j \in SetKeys : j # k => hand'[j] = hand[j]
  BY <1>1
<1>4. \A j \in SetKeys : hand[j].at \in ats /\ hand[j].runner = e.runner => j = k
  <2> SUFFICES ASSUME NEW j \in SetKeys, hand[j].at \in ats, hand[j].runner = e.runner PROVE j = k
    OBVIOUS
  <2>1. hand[j] # Idle
    BY <1>2, NotIdle
  <2>2. SetOf[hand[j].runner] = j /\ SetOf[hand[k].runner] = k
    BY <1>1, <2>1 DEF IInv, OwnSession
  <2> QED
    BY <1>1, <2>2
<1>5. ~InHand(e.runner, ats)'
  BY <1>2, <1>3, <1>4, NotIdle DEF InHand
<1>6. ASSUME NEW r, r # e.runner PROVE InHand(r, ats)' <=> InHand(r, ats)
  <2>1. InHand(r, ats)' => InHand(r, ats)
    BY <1>2, <1>3, NotIdle DEF InHand
  <2>2. InHand(r, ats) => InHand(r, ats)'
    BY <1>1, <1>3, <1>6 DEF InHand
  <2> QED
    BY <2>1, <2>2
<1> QED
  BY <1>5, <1>6

\* So the messages of every other runner are due as before.
LEMMA RecordedDue ==
    ASSUME IInv, NEW k \in SetKeys, NEW e, Recorded(k, e)
    PROVE  /\ \A r : r # e.runner => (StartDue(r)' <=> StartDue(r)) /\ (FinishDue(r)' <=> FinishDue(r))
           /\ StartDue(e.runner)' <=> <<"started", e.runner>> \in events
           /\ FinishDue(e.runner)' <=> <<"completed", e.runner>> \in events
           /\ StartDue(e.runner)' => StartDue(e.runner)
<1>1. events' = events
  BY DEF Recorded
<1>2. /\ ~InHand(e.runner, OnStart)' /\ ~InHand(e.runner, {"finish"})'
      /\ \A r : r # e.runner => (InHand(r, OnStart)' <=> InHand(r, OnStart))
      /\ \A r : r # e.runner => (InHand(r, {"finish"})' <=> InHand(r, {"finish"}))
  BY RecordedHand
<1> QED
  BY <1>1, <1>2 DEF StartDue, FinishDue

\* What a history says of every other runner it goes on saying, or the runner is missed.
LEMMA TakesKeep ==
    ASSUME NEW s, Whole(s), NEW t, NEW e, Takes(s, t, e), NEW r, r # e.runner,
           r \notin {f.runner : f \in Range(s)} \ {f.runner : f \in Range(t)}
    PROVE  /\ HasStart(s, r) => HasStart(t, r)
           /\ HasFinish(s, r) => HasFinish(t, r)
<1>1. ASSUME NEW i \in 1 .. Len(s), s[i].runner = r
      PROVE  \E j \in 1 .. Len(t) : t[j] = s[i]
  <2>1. s[i] \in Range(s)
    BY <1>1, EntrySeqs DEF Range, Whole
  <2>2. \E f \in Range(t) : f.runner = r
    BY <1>1, <2>1
  <2>3. PICK j \in 1 .. Len(t) : t[j].runner = r
    BY <2>2 DEF Range, Takes, Whole
  <2>4. PICK m \in 1 .. Len(s) : s[m] = t[j]
    BY <2>3 DEF Takes
  <2>5. m = i
    BY <1>1, <2>3, <2>4 DEF Whole
  <2> QED
    BY <2>4, <2>5
<1> QED
  BY <1>1 DEF HasStart, HasFinish

\* Recording a message keeps the invariant.
LEMMA RecordedKeeps ==
    ASSUME IInv, NEW k \in SetKeys, NEW e, Recorded(k, e),
           \/ /\ hand[k].at = "record" /\ e.started
              /\ \A i \in 1 .. Len(jobs) : jobs[i].runner = e.runner => e.finished
           \/ /\ hand[k].at = "finish" /\ e.finished
              /\ \A i \in 1 .. Len(jobs) : jobs[i].runner = e.runner => (e.started = jobs[i].started)
              /\ e.started => \E i \in 1 .. Len(jobs) : jobs[i].runner = e.runner /\ jobs[i].started
    PROVE  IInv'
<1> DEFINE r == e.runner
<1>1. /\ up /\ up' = up /\ life' = life /\ events' = events
      /\ hand \in [SetKeys -> HandType] /\ hand' = [hand EXCEPT ![k] = Idle] /\ hand[k] # Idle
      /\ r = hand[k].runner /\ e \in Entry /\ r \in Runners
      /\ Takes(jobs, jobs', e) /\ (jobsFile' = jobs' \/ jobsFile' = jobsFile)
      /\ missed' = missed \cup ({f.runner : f \in Range(jobs)} \ {f.runner : f \in Range(jobs')})
  BY DEF IInv, Typed, Recorded, Entry
<1>2. /\ \A q : q # r => (StartDue(q)' <=> StartDue(q)) /\ (FinishDue(q)' <=> FinishDue(q))
      /\ StartDue(r)' <=> <<"started", r>> \in events
      /\ FinishDue(r)' <=> <<"completed", r>> \in events
      /\ StartDue(r)' => StartDue(r)
  BY RecordedDue
<1>3. \A j \in SetKeys : hand[j] # Idle /\ hand[j].runner = r => j = k
  BY <1>1 DEF IInv, OwnSession
<1>4. /\ hand[k].at = "record" => InHand(r, OnStart) /\ ~InHand(r, {"finish"})
      /\ hand[k].at = "finish" => InHand(r, {"finish"}) /\ ~InHand(r, OnStart)
  <2>1. \A j \in SetKeys : hand[j].at \in OnStart \cup {"finish"} => hand[j] # Idle
    BY <1>1, NotIdle
  <2>2. \A ats \in {OnStart, {"finish"}} : InHand(r, ats) <=> hand[k].at \in ats
    BY <1>1, <1>3, <2>1 DEF InHand
  <2> QED
    BY <2>2 DEF OnStart
<1>5. Whole(jobs) /\ Whole(jobs') /\ Whole(jobsFile) /\ Whole(jobsFile')
  BY <1>1 DEF IInv, Typed, Takes
<1>6. \A j \in 1 .. Len(jobs') : jobs'[j] = e \/ (jobs'[j].runner # r /\ \E i \in 1 .. Len(jobs) : jobs[i] = jobs'[j])
  BY <1>1 DEF Takes
<1>7. PICK last \in 1 .. Len(jobs') : jobs'[last] = e
  BY <1>1 DEF Takes
<1> HIDE DEF r
<1>8. Typed'
  <2>1. hand' \in [SetKeys -> HandType]
    BY <1>1, NotIdle
  <2> QED
    BY <1>1, <1>5, <2>1 DEF IInv, Typed
<1>9. OwnSession'
  <2>1. ASSUME NEW j \in SetKeys, hand'[j] # Idle PROVE SetOf[hand'[j].runner] = j
    <3>1. hand'[j] = hand[j]
      BY <1>1, <2>1
    <3> QED
      BY <2>1, <3>1 DEF IInv, OwnSession
  <2>2. ASSUME NEW q \in Runners, <<"started", q>> \in events' PROVE ~InHand(q, OnStart)'
    <3>1. ~InHand(q, OnStart)
      BY <1>1, <2>2 DEF IInv, OwnSession
    <3> QED
      BY <3>1, RecordedHand DEF r
  <2> QED
    BY <2>1, <2>2 DEF OwnSession
<1>10. NothingHeld'
  BY <1>1 DEF NothingHeld
<1>11. NoneBefore'
  <2> SUFFICES ASSUME NEW q \in Runners, life[q] \in {"new", "waiting", "unused"}
               PROVE  /\ ~StartDue(q)' /\ ~FinishDue(q)'
                      /\ \A s \in {jobs', jobsFile'} : \A i \in 1 .. Len(s) : s[i].runner # q
    BY <1>1 DEF NoneBefore
  <2>1. /\ ~StartDue(q) /\ ~FinishDue(q)
        /\ \A i \in 1 .. Len(jobs) : jobs[i].runner # q
        /\ \A i \in 1 .. Len(jobsFile) : jobsFile[i].runner # q
    BY DEF IInv, NoneBefore
  <2>2. q # r
    BY <1>4, <2>1 DEF StartDue, FinishDue
  <2>3. \A i \in 1 .. Len(jobs') : jobs'[i].runner # q
    BY <1>6, <2>1, <2>2 DEF r
  <2> QED
    BY <1>1, <1>2, <2>1, <2>2, <2>3
<1>12. FinishOnly(jobs)'
  <2> SUFFICES ASSUME NEW q \in Runners, StartDue(q)', NEW j \in 1 .. Len(jobs'), jobs'[j].runner = q
               PROVE  ~jobs'[j].started /\ jobs'[j].finished
    BY DEF FinishOnly
  <2>1. \A i \in 1 .. Len(jobs) : jobs[i].runner = q => ~jobs[i].started /\ jobs[i].finished
    BY <1>2 DEF IInv, FinishOnly
  <2>2. CASE q # r
    BY <1>6, <2>1, <2>2 DEF r
  <2>3. CASE q = r
    <3>1. ~InHand(r, OnStart)
      BY <1>1, <1>2, <2>3 DEF IInv, OwnSession
    <3>2. jobs'[j] = e
      BY <1>6, <2>3
    <3>3. hand[k].at = "finish"
      BY <1>4, <3>1
    <3> QED
      BY <2>1, <2>3, <3>2, <3>3 DEF r
  <2> QED
    BY <2>2, <2>3
<1>13. FinishOnly(jobsFile)'
  <2>1. CASE jobsFile' = jobs'
    BY <1>12, <2>1 DEF FinishOnly
  <2>2. CASE jobsFile' = jobsFile
    BY <1>2, <2>2 DEF IInv, FinishOnly
  <2> QED
    BY <1>1, <2>1, <2>2
<1>14. Heard'
  <2> SUFFICES ASSUME NEW q \in Runners, q \notin missed'
               PROVE  /\ life[q] \in {"running", "ended", "gone"} => StartDue(q)' \/ HasStart(jobs', q)
                      /\ life[q] \in {"ended", "gone"} => FinishDue(q)' \/ HasFinish(jobs', q)
    BY <1>1 DEF Heard, History, HasStart, HasFinish
  <2>1. /\ life[q] \in {"running", "ended", "gone"} => StartDue(q) \/ HasStart(jobs, q)
        /\ life[q] \in {"ended", "gone"} => FinishDue(q) \/ HasFinish(jobs, q)
    BY <1>1 DEF IInv, Heard, History
  <2>2. CASE q # r
    <3>1. /\ HasStart(jobs, q) => HasStart(jobs', q)
          /\ HasFinish(jobs, q) => HasFinish(jobs', q)
      BY <1>1, <1>5, <2>2, TakesKeep DEF r
    <3> QED
      BY <1>2, <2>1, <2>2, <3>1
  <2>3. CASE q = r
    <3>1. e.started => HasStart(jobs', q)
      BY <1>7, <2>3 DEF HasStart, r
    <3>2. e.finished => HasFinish(jobs', q)
      BY <1>7, <2>3 DEF HasFinish, r
    <3>3. CASE hand[k].at = "record"
      <4>1. e.started /\ (HasFinish(jobs, q) => e.finished)
        BY <2>3, <3>3 DEF HasFinish, r
      <4>2. FinishDue(q) => FinishDue(q)'
        BY <1>2, <1>4, <2>3, <3>3 DEF FinishDue
      <4> QED
        BY <2>1, <3>1, <3>2, <4>1, <4>2
    <3>4. CASE hand[k].at = "finish"
      <4>1. e.finished /\ (HasStart(jobs, q) => e.started)
        BY <2>3, <3>4 DEF HasStart, r
      <4>2. StartDue(q) => StartDue(q)'
        BY <1>2, <1>4, <2>3, <3>4 DEF StartDue
      <4> QED
        BY <2>1, <3>1, <3>2, <4>1, <4>2
    <3> QED
      BY <3>3, <3>4
  <2> QED
    BY <2>2, <2>3
<1> QED
  BY <1>8, <1>9, <1>10, <1>11, <1>12, <1>13, <1>14 DEF IInv

\* A step that records nothing keeps the invariant when no message becomes due,
\* those that were stay so or are missed, and no job begins or ends.
Before == {"new", "waiting", "unused"}

LEMMA QuietKeeps ==
    ASSUME IInv, Typed', OwnSession', UNCHANGED <<up, jobs, jobsFile>>, up \/ UNCHANGED hand,
           \A q \in Runners :
               /\ StartDue(q)' => StartDue(q)
               /\ FinishDue(q)' => FinishDue(q)
               /\ q \notin missed' => /\ q \notin missed
                                      /\ StartDue(q) => StartDue(q)'
                                      /\ FinishDue(q) => FinishDue(q)'
               /\ \/ life'[q] = life[q]
                  \/ life[q] \in Before /\ life'[q] \in Before
                  \/ life[q] = "ended" /\ life'[q] = "gone"
    PROVE  IInv'
<1>1. NothingHeld'
  BY DEF IInv, NothingHeld
<1>2. NoneBefore'
  <2> SUFFICES ASSUME NEW q \in Runners, life'[q] \in Before
               PROVE  /\ ~StartDue(q)' /\ ~FinishDue(q)'
                      /\ \A s \in {jobs', jobsFile'} : \A i \in 1 .. Len(s) : s[i].runner # q
    BY DEF NoneBefore, Before
  <2>1. life[q] \in Before
    BY DEF Before
  <2> QED
    BY <2>1 DEF IInv, NoneBefore, Before
<1>3. FinishOnly(jobs)' /\ FinishOnly(jobsFile)'
  BY DEF IInv, FinishOnly
<1>4. Heard'
  <2> SUFFICES ASSUME NEW q \in Runners, q \notin missed'
               PROVE  /\ life'[q] \in {"running", "ended", "gone"} => StartDue(q)' \/ HasStart(History, q)
                      /\ life'[q] \in {"ended", "gone"} => FinishDue(q)' \/ HasFinish(History, q)
    BY DEF Heard, History, HasStart, HasFinish
  <2>1. q \notin missed /\ (StartDue(q) => StartDue(q)') /\ (FinishDue(q) => FinishDue(q)')
    OBVIOUS
  <2>2. /\ life[q] \in {"running", "ended", "gone"} => StartDue(q) \/ HasStart(History, q)
        /\ life[q] \in {"ended", "gone"} => FinishDue(q) \/ HasFinish(History, q)
    BY <2>1 DEF IInv, Heard
  <2>3. /\ life'[q] \in {"running", "ended", "gone"} => life[q] \in {"running", "ended", "gone"}
        /\ life'[q] \in {"ended", "gone"} => life[q] \in {"ended", "gone"}
    BY DEF Before
  <2> QED
    BY <2>1, <2>2, <2>3
<1> QED
  BY <1>1, <1>2, <1>3, <1>4 DEF IInv

\* Hearing a message takes it in hand, or misses it.
LEMMA HearKeeps ==
    ASSUME IInv, NEW r \in Runners, NEW kind, Hear(kind, r), NEW at,
           \/ kind = "started" /\ at \in OnStart
           \/ kind = "completed" /\ at = "finish",
           \/ Then(r, at) /\ missed' = missed
           \/ missed' = missed \cup {r} /\ hand' = hand
    PROVE  IInv'
<1>1. /\ up /\ hand[SetOf[r]] = Idle /\ <<kind, r>> \in events /\ events' = events \ {<<kind, r>>}
      /\ UNCHANGED <<up, jobs, jobsFile, life>>
      /\ hand \in [SetKeys -> HandType] /\ SetOf[r] \in SetKeys
      /\ at \in OnStart \cup {"finish"}
  <2>1. SetOf[r] \in SetKeys
    BY JobRecordsAssumption
  <2>2. at \in OnStart \cup {"finish"}
    OBVIOUS
  <2> QED
    BY <2>1, <2>2 DEF Hear, IInv, Typed, files
<1>2. "idle" \notin OnStart \cup {"finish"} /\ "finish" \notin OnStart
  BY DEF OnStart
<1>3. CASE Then(r, at) /\ missed' = missed
  <2>1. /\ hand' = [hand EXCEPT ![SetOf[r]] = [at |-> at, runner |-> r]]
        /\ [at |-> at, runner |-> r] \in HandType
    BY <1>1, <1>3 DEF Then, HandType
  <2>2. /\ hand' \in [SetKeys -> HandType]
        /\ hand'[SetOf[r]].at = at /\ hand'[SetOf[r]].runner = r
        /\ \A j \in SetKeys : j # SetOf[r] => hand'[j] = hand[j]
    BY <1>1, <2>1
  <2>3. \A ats \in {OnStart, {"finish"}} : \A q :
            InHand(q, ats)' <=> InHand(q, ats) \/ (q = r /\ at \in ats)
    <3> SUFFICES ASSUME NEW ats \in {OnStart, {"finish"}}, NEW q
                 PROVE  InHand(q, ats)' <=> InHand(q, ats) \/ (q = r /\ at \in ats)
      OBVIOUS
    <3>1. hand[SetOf[r]].at \notin ats
      BY <1>1, <1>2, NotIdle
    <3>2. InHand(q, ats)' => InHand(q, ats) \/ (q = r /\ at \in ats)
      BY <2>2 DEF InHand
    <3>3. InHand(q, ats) => InHand(q, ats)'
      BY <2>2, <3>1 DEF InHand
    <3>4. q = r /\ at \in ats => InHand(q, ats)'
      BY <1>1, <2>2 DEF InHand
    <3> QED
      BY <3>2, <3>3, <3>4
  <2>4. Typed'
    BY <1>1, <2>2 DEF IInv, Typed
  <2>5. OwnSession'
    <3>1. ASSUME NEW j \in SetKeys, hand'[j] # Idle PROVE SetOf[hand'[j].runner] = j
      <4>1. CASE j = SetOf[r]
        BY <2>2, <4>1
      <4>2. CASE j # SetOf[r]
        BY <2>2, <3>1, <4>2 DEF IInv, OwnSession
      <4> QED
        BY <4>1, <4>2
    <3>2. ASSUME NEW q \in Runners, <<"started", q>> \in events' PROVE ~InHand(q, OnStart)'
      <4>1. ~InHand(q, OnStart)
        BY <1>1, <3>2 DEF IInv, OwnSession
      <4>2. ~(q = r /\ at \in OnStart)
        BY <1>1, <1>2, <3>2
      <4> QED
        BY <2>3, <4>1, <4>2
    <3> QED
      BY <3>1, <3>2 DEF OwnSession
  <2>6. ASSUME NEW q \in Runners
        PROVE  /\ StartDue(q)' <=> StartDue(q)
               /\ FinishDue(q)' <=> FinishDue(q)
    <3>1. /\ InHand(q, OnStart)' <=> InHand(q, OnStart) \/ (q = r /\ kind = "started")
          /\ InHand(q, {"finish"})' <=> InHand(q, {"finish"}) \/ (q = r /\ kind = "completed")
      BY <1>2, <2>3
    <3>2. /\ <<"started", q>> \in events' <=> <<"started", q>> \in events /\ ~(q = r /\ kind = "started")
          /\ <<"completed", q>> \in events' <=> <<"completed", q>> \in events /\ ~(q = r /\ kind = "completed")
          /\ q = r /\ kind = "started" => <<"started", q>> \in events
          /\ q = r /\ kind = "completed" => <<"completed", q>> \in events
      BY <1>1
    <3> QED
      BY <3>1, <3>2 DEF StartDue, FinishDue
  <2> QED
    BY <1>1, <1>3, <2>4, <2>5, <2>6, QuietKeeps
<1>4. CASE missed' = missed \cup {r} /\ hand' = hand
  <2>1. Typed'
    BY <1>1, <1>4 DEF IInv, Typed
  <2>2. \A q, ats : InHand(q, ats)' <=> InHand(q, ats)
    BY <1>4 DEF InHand
  <2>3. OwnSession'
    BY <1>1, <1>4, <2>2 DEF IInv, OwnSession
  <2>4. ASSUME NEW q \in Runners
        PROVE  /\ StartDue(q)' => StartDue(q)
               /\ FinishDue(q)' => FinishDue(q)
               /\ q # r => (StartDue(q)' <=> StartDue(q)) /\ (FinishDue(q)' <=> FinishDue(q))
    <3>1. /\ <<"started", q>> \in events' => <<"started", q>> \in events
          /\ <<"completed", q>> \in events' => <<"completed", q>> \in events
          /\ q # r => /\ <<"started", q>> \in events' <=> <<"started", q>> \in events
                      /\ <<"completed", q>> \in events' <=> <<"completed", q>> \in events
      BY <1>1
    <3> QED
      BY <2>2, <3>1 DEF StartDue, FinishDue
  <2>5. \A q \in Runners : q \notin missed' => q \notin missed /\ q # r
    BY <1>4
  <2> QED
    BY <1>1, <1>4, <2>1, <2>3, <2>4, <2>5, QuietKeeps
<1> QED
  BY <1>3, <1>4

\* The file of a start's assignment is no part of the history.
LEMMA AssignmentKeeps ==
    ASSUME IInv, NEW k \in SetKeys, RecordAssignment(k)
    PROVE  IInv'
<1>1. /\ UNCHANGED <<up, jobs, jobsFile, life, events, missed>> /\ up
      /\ hand \in [SetKeys -> HandType]
      /\ hand[k].at = "assign" /\ hand' = [hand EXCEPT ![k].at = "record"]
  BY DEF RecordAssignment, IInv, Typed, world
<1>2. hand[k] \in HandType /\ hand[k] # Idle
  BY <1>1, NotIdle DEF OnStart
<1>3. hand[k] \in [at : OnStart \cup {"finish"}, runner : Runners]
  BY <1>2 DEF HandType
<1>4. /\ hand'[k] = [hand[k] EXCEPT !.at = "record"]
      /\ \A j \in SetKeys : j # k => hand'[j] = hand[j]
  BY <1>1
<1>5. /\ hand'[k] \in [at : OnStart \cup {"finish"}, runner : Runners]
      /\ hand'[k].at = "record" /\ hand'[k].runner = hand[k].runner
  BY <1>3, <1>4 DEF OnStart
<1>6. hand' \in [SetKeys -> HandType]
  <2>1. DOMAIN hand' = SetKeys /\ hand' = [j \in SetKeys |-> hand'[j]]
    BY <1>1
  <2>2. \A j \in SetKeys : hand'[j] \in HandType
    BY <1>1, <1>4, <1>5 DEF HandType
  <2> QED
    BY <2>1, <2>2
<1>7. \A q, ats : ats \in {OnStart, {"finish"}} => (InHand(q, ats)' <=> InHand(q, ats))
  <2> SUFFICES ASSUME NEW q, NEW ats \in {OnStart, {"finish"}}
               PROVE  InHand(q, ats)' <=> InHand(q, ats)
    OBVIOUS
  <2>1. hand'[k].at \in ats <=> hand[k].at \in ats
    BY <1>1, <1>5 DEF OnStart
  <2> QED
    BY <1>4, <1>5, <2>1 DEF InHand
<1>8. Typed'
  BY <1>1, <1>6 DEF IInv, Typed
<1>9. OwnSession'
  <2>1. ASSUME NEW j \in SetKeys, hand'[j] # Idle PROVE SetOf[hand'[j].runner] = j
    <3>1. CASE j = k
      BY <1>2, <1>5, <3>1 DEF IInv, OwnSession
    <3>2. CASE j # k
      BY <1>4, <2>1, <3>2 DEF IInv, OwnSession
    <3> QED
      BY <3>1, <3>2
  <2> QED
    BY <1>1, <1>7, <2>1 DEF IInv, OwnSession
<1>10. \A q : (StartDue(q)' <=> StartDue(q)) /\ (FinishDue(q)' <=> FinishDue(q))
  BY <1>1, <1>7 DEF StartDue, FinishDue
<1> QED
  BY <1>1, <1>8, <1>9, <1>10, QuietKeeps

\* A step that touches neither the history nor messages nor a handler.
LEMMA AsideKeeps ==
    ASSUME IInv, UNCHANGED <<up, hand, jobs, jobsFile, events, missed>>,
           life' \in [Runners -> {"new", "waiting", "running", "ended", "gone", "unused"}],
           \A q \in Runners : \/ life'[q] = life[q]
                              \/ life[q] \in Before /\ life'[q] \in Before
                              \/ life[q] = "ended" /\ life'[q] = "gone"
    PROVE  IInv'
<1>1. Typed' /\ OwnSession'
  BY DEF IInv, Typed, OwnSession, InHand
<1>2. \A q : (StartDue(q)' <=> StartDue(q)) /\ (FinishDue(q)' <=> FinishDue(q))
  BY DEF StartDue, FinishDue, InHand
<1> QED
  BY <1>1, <1>2, QuietKeeps

LEMMA ReconcileKeeps == IInv /\ Reconcile => IInv'
<1> SUFFICES ASSUME IInv, Reconcile PROVE IInv'
  OBVIOUS
<1>1. UNCHANGED <<up, hand, jobs, jobsFile, events, missed>>
  BY DEF Reconcile
<1>2. PICK minted \in SUBSET {r \in Runners : life[r] = "new" /\ RefOf[r] \in Free} :
          life' = [r \in Runners |-> IF r \in minted THEN "waiting" ELSE life[r]]
  BY DEF Reconcile
<1>3. life \in [Runners -> {"new", "waiting", "running", "ended", "gone", "unused"}]
  BY DEF IInv, Typed
<1>4. life' \in [Runners -> {"new", "waiting", "running", "ended", "gone", "unused"}]
  BY <1>2, <1>3
<1>5. \A q \in Runners : life'[q] = life[q] \/ (life[q] \in Before /\ life'[q] \in Before)
  BY <1>2 DEF Before
<1> QED
  BY <1>1, <1>4, <1>5, AsideKeeps

LEMMA UnitEndsKeeps == ASSUME IInv, NEW r \in Runners, UnitEnds(r) PROVE IInv'
<1>1. UNCHANGED <<up, hand, jobs, jobsFile, events, missed>>
  BY DEF UnitEnds, lane, files
<1>2. \/ life[r] = "ended" /\ life' = [life EXCEPT ![r] = "gone"]
      \/ life[r] = "waiting" /\ life' = [life EXCEPT ![r] = "unused"]
  BY DEF UnitEnds, Lives
<1>3. life \in [Runners -> {"new", "waiting", "running", "ended", "gone", "unused"}]
  BY DEF IInv, Typed
<1> QED
  BY <1>1, <1>2, <1>3, AsideKeeps DEF Before

------------------------------------------------------------------------------
(* The units *)

\* A job's start is the first message of its runner.
LEMMA TakeJobKeeps == ASSUME IInv, NEW r \in Runners, TakeJob(r) PROVE IInv'
<1>1. /\ UNCHANGED <<up, hand, jobs, jobsFile, missed>>
      /\ life[r] = "waiting" /\ life' = [life EXCEPT ![r] = "running"]
      /\ events' = events \cup {<<"started", r>>}
  BY DEF TakeJob, Lives, lane, files
<1>2. life \in [Runners -> {"new", "waiting", "running", "ended", "gone", "unused"}]
  BY DEF IInv, Typed
<1>3. \A q, ats : InHand(q, ats)' <=> InHand(q, ats)
  BY <1>1 DEF InHand
<1>4. \A q : /\ <<"started", q>> \in events' <=> <<"started", q>> \in events \/ q = r
             /\ <<"completed", q>> \in events' <=> <<"completed", q>> \in events
  BY <1>1
<1>5. \A q : (StartDue(q)' <=> StartDue(q) \/ q = r) /\ (FinishDue(q)' <=> FinishDue(q))
  BY <1>3, <1>4 DEF StartDue, FinishDue
<1>6. /\ ~StartDue(r) /\ ~FinishDue(r)
      /\ \A i \in 1 .. Len(jobs) : jobs[i].runner # r
      /\ \A i \in 1 .. Len(jobsFile) : jobsFile[i].runner # r
  BY <1>1 DEF IInv, NoneBefore
<1>7. /\ life' \in [Runners -> {"new", "waiting", "running", "ended", "gone", "unused"}]
      /\ life'[r] = "running" /\ \A q \in Runners : q # r => life'[q] = life[q]
  BY <1>1, <1>2
<1>8. Typed'
  BY <1>1, <1>7 DEF IInv, Typed
<1>9. OwnSession'
  <2>1. \A q \in Runners : <<"started", q>> \in events' => ~InHand(q, OnStart)'
    BY <1>3, <1>4, <1>6 DEF IInv, OwnSession, StartDue
  <2> QED
    BY <1>1, <2>1 DEF IInv, OwnSession
<1>10. NothingHeld'
  BY <1>1 DEF IInv, NothingHeld
<1>11. NoneBefore'
  <2> SUFFICES ASSUME NEW q \in Runners, life'[q] \in {"new", "waiting", "unused"}
               PROVE  /\ ~StartDue(q)' /\ ~FinishDue(q)'
                      /\ \A s \in {jobs, jobsFile} : \A i \in 1 .. Len(s) : s[i].runner # q
    BY <1>1 DEF NoneBefore
  <2>1. q # r
    BY <1>7
  <2> QED
    BY <1>5, <1>7, <2>1 DEF IInv, NoneBefore
<1>12. FinishOnly(jobs)' /\ FinishOnly(jobsFile)'
  BY <1>1, <1>5, <1>6 DEF IInv, FinishOnly
<1>13. Heard'
  <2> SUFFICES ASSUME NEW q \in Runners, q \notin missed
               PROVE  /\ life'[q] \in {"running", "ended", "gone"} => StartDue(q)' \/ HasStart(History, q)
                      /\ life'[q] \in {"ended", "gone"} => FinishDue(q)' \/ HasFinish(History, q)
    BY <1>1 DEF Heard, History, HasStart, HasFinish
  <2>1. CASE q = r
    BY <1>5, <1>7, <2>1
  <2>2. CASE q # r
    BY <1>5, <1>7, <2>2 DEF IInv, Heard
  <2> QED
    BY <2>1, <2>2
<1> QED
  BY <1>8, <1>9, <1>10, <1>11, <1>12, <1>13 DEF IInv

LEMMA JobEndsKeeps == ASSUME IInv, NEW r \in Runners, JobEnds(r) PROVE IInv'
<1>1. /\ UNCHANGED <<up, hand, jobs, jobsFile, missed>>
      /\ life[r] = "running" /\ life' = [life EXCEPT ![r] = "ended"]
      /\ events' = events \cup {<<"completed", r>>}
  BY DEF JobEnds, Lives, lane, files
<1>2. life \in [Runners -> {"new", "waiting", "running", "ended", "gone", "unused"}]
  BY DEF IInv, Typed
<1>3. \A q, ats : InHand(q, ats)' <=> InHand(q, ats)
  BY <1>1 DEF InHand
<1>4. \A q : /\ <<"started", q>> \in events' <=> <<"started", q>> \in events
             /\ <<"completed", q>> \in events' <=> <<"completed", q>> \in events \/ q = r
  BY <1>1
<1>5. \A q : (StartDue(q)' <=> StartDue(q)) /\ (FinishDue(q)' <=> FinishDue(q) \/ q = r)
  BY <1>3, <1>4 DEF StartDue, FinishDue
<1>6. /\ life' \in [Runners -> {"new", "waiting", "running", "ended", "gone", "unused"}]
      /\ life'[r] = "ended" /\ \A q \in Runners : q # r => life'[q] = life[q]
  BY <1>1, <1>2
<1>7. Typed'
  BY <1>1, <1>6 DEF IInv, Typed
<1>8. OwnSession'
  BY <1>1, <1>3, <1>4 DEF IInv, OwnSession
<1>9. NothingHeld'
  BY <1>1 DEF IInv, NothingHeld
<1>10. NoneBefore'
  <2> SUFFICES ASSUME NEW q \in Runners, life'[q] \in {"new", "waiting", "unused"}
               PROVE  /\ ~StartDue(q)' /\ ~FinishDue(q)'
                      /\ \A s \in {jobs, jobsFile} : \A i \in 1 .. Len(s) : s[i].runner # q
    BY <1>1 DEF NoneBefore
  <2>1. q # r
    BY <1>6
  <2> QED
    BY <1>5, <1>6, <2>1 DEF IInv, NoneBefore
<1>11. FinishOnly(jobs)' /\ FinishOnly(jobsFile)'
  BY <1>1, <1>5 DEF IInv, FinishOnly
<1>12. Heard'
  <2> SUFFICES ASSUME NEW q \in Runners, q \notin missed
               PROVE  /\ life'[q] \in {"running", "ended", "gone"} => StartDue(q)' \/ HasStart(History, q)
                      /\ life'[q] \in {"ended", "gone"} => FinishDue(q)' \/ HasFinish(History, q)
    BY <1>1 DEF Heard, History, HasStart, HasFinish
  <2>1. CASE q = r
    BY <1>1, <1>5, <1>6, <2>1 DEF IInv, Heard
  <2>2. CASE q # r
    BY <1>5, <1>6, <2>2 DEF IInv, Heard
  <2> QED
    BY <2>1, <2>2
<1> QED
  BY <1>7, <1>8, <1>9, <1>10, <1>11, <1>12 DEF IInv

------------------------------------------------------------------------------
(* The listener's own life *)

LEMMA NoHistory ==
    /\ Whole(<<>>) /\ Len(<<>>) = 0
    /\ FinishOnly(<<>>) /\ \A r : ~HasStart(<<>>, r) /\ ~HasFinish(<<>>, r)
<1>1. <<>> \in Seq(Entry) /\ Len(<<>>) = 0 /\ 1 .. Len(<<>>) = {}
  OBVIOUS
<1>2. Len(<<>>) <= MaxJobHistory
  BY <1>1, MaxLength
<1> QED
  BY <1>1, <1>2 DEF Whole, FinishOnly, HasStart, HasFinish

\* A crash loses what only the listener's memory held, and makes it missed.
LEMMA CrashKeeps == IInv /\ Crash => IInv'
<1> SUFFICES ASSUME IInv, Crash PROVE IInv'
  OBVIOUS
<1>1. /\ up /\ up' = FALSE /\ hand' = [k \in SetKeys |-> Idle] /\ jobs' = <<>>
      /\ jobsFile' = jobsFile /\ life' = life
  BY DEF Crash, files
<1>2. PICK lost \in {{}, events} :
          /\ events' = events \ lost
          /\ missed' = missed \cup {e[2] : e \in lost}
                 \cup {hand[k].runner : k \in {j \in SetKeys : hand[j] # Idle}}
                 \cup {e.runner : e \in Range(jobs) \ Range(jobsFile)}
  BY DEF Crash
<1>3. hand \in [SetKeys -> HandType] /\ Whole(jobs) /\ Whole(jobsFile)
  BY DEF IInv, Typed
<1>4. \A q, ats : ats \in {OnStart, {"finish"}} => ~InHand(q, ats)'
  BY <1>1, NotIdle DEF InHand, OnStart
<1>5. \A q : /\ StartDue(q)' => StartDue(q)
             /\ FinishDue(q)' => FinishDue(q)
  BY <1>2, <1>4 DEF StartDue, FinishDue
<1>6. Typed'
  <2>1. hand' \in [SetKeys -> HandType]
    BY <1>1, NotIdle
  <2> QED
    BY <1>1, <1>3, <2>1, NoHistory DEF IInv, Typed
<1>7. OwnSession'
  BY <1>1, <1>4 DEF OwnSession
<1>8. NothingHeld'
  BY <1>1 DEF NothingHeld
<1>9. NoneBefore'
  <2> SUFFICES ASSUME NEW q \in Runners, life[q] \in {"new", "waiting", "unused"}
               PROVE  /\ ~StartDue(q)' /\ ~FinishDue(q)'
                      /\ \A s \in {<<>>, jobsFile} : \A i \in 1 .. Len(s) : s[i].runner # q
    BY <1>1 DEF NoneBefore
  <2>1. \A i \in 1 .. Len(<<>>) : <<>>[i].runner # q
    BY NoHistory
  <2> QED
    BY <1>5, <2>1 DEF IInv, NoneBefore
<1>10. FinishOnly(jobs)' /\ FinishOnly(jobsFile)'
  <2>1. FinishOnly(jobs)'
    <3>1. Len(jobs') = 0
      BY <1>1
    <3> QED
      BY <3>1 DEF FinishOnly
  <2>2. FinishOnly(jobsFile)'
    BY <1>1, <1>5 DEF IInv, FinishOnly
  <2> QED
    BY <2>1, <2>2
<1>11. Heard'
  <2> SUFFICES ASSUME NEW q \in Runners, q \notin missed'
               PROVE  /\ life[q] \in {"running", "ended", "gone"} => StartDue(q)' \/ HasStart(jobsFile, q)
                      /\ life[q] \in {"ended", "gone"} => FinishDue(q)' \/ HasFinish(jobsFile, q)
    BY <1>1 DEF Heard, History, HasStart, HasFinish
  <2>1. q \notin missed /\ \A kind \in {"started", "completed"} : <<kind, q>> \notin lost
    <3>1. \A kind \in {"started", "completed"} : <<kind, q>>[2] = q
      OBVIOUS
    <3> QED
      BY <1>2, <3>1
  <2>2. \A ats \in {OnStart, {"finish"}} : ~InHand(q, ats)
    <3> SUFFICES ASSUME NEW k \in SetKeys, hand[k].at \in OnStart \cup {"finish"}, hand[k].runner = q
                 PROVE  FALSE
      BY DEF InHand
    <3>1. hand[k] # Idle
      BY <1>3, NotIdle
    <3> QED
      BY <1>2, <3>1
  <2>3. (StartDue(q) => StartDue(q)') /\ (FinishDue(q) => FinishDue(q)')
    BY <1>2, <2>1, <2>2 DEF StartDue, FinishDue
  <2>4. ASSUME NEW i \in 1 .. Len(jobs), jobs[i].runner = q
        PROVE  \E j \in 1 .. Len(jobsFile) : jobsFile[j] = jobs[i]
    <3>1. jobs[i] \in Range(jobs)
      BY <1>3, EntrySeqs DEF Range, Whole
    <3>2. jobs[i] \in Range(jobsFile)
      BY <1>2, <2>4, <3>1
    <3> QED
      BY <1>3, <3>2 DEF Range, Whole
  <2>5. /\ HasStart(jobs, q) => HasStart(jobsFile, q)
        /\ HasFinish(jobs, q) => HasFinish(jobsFile, q)
    BY <2>4 DEF HasStart, HasFinish
  <2> QED
    BY <1>1, <2>1, <2>3, <2>5 DEF IInv, Heard, History
<1> QED
  BY <1>6, <1>7, <1>8, <1>9, <1>10, <1>11 DEF IInv

\* A restart takes the file up, or misses every job there has been.
LEMMA RestartKeeps == IInv /\ Restart => IInv'
<1> SUFFICES ASSUME IInv, Restart PROVE IInv'
  OBVIOUS
<1>1. /\ ~up /\ up' = TRUE /\ hand' = hand /\ jobsFile' = jobsFile /\ life' = life /\ events' = events
      /\ \/ jobs' = jobsFile /\ missed' = missed
         \/ jobs' = <<>> /\ missed' = {r \in Runners : life[r] # "new"}
  BY DEF Restart, world
<1>2. \A q, ats : InHand(q, ats)' <=> InHand(q, ats)
  BY <1>1 DEF InHand
<1>3. \A q : (StartDue(q)' <=> StartDue(q)) /\ (FinishDue(q)' <=> FinishDue(q))
  BY <1>1, <1>2 DEF StartDue, FinishDue
<1>4. Typed'
  BY <1>1, NoHistory DEF IInv, Typed
<1>5. OwnSession'
  BY <1>1, <1>2 DEF IInv, OwnSession
<1>6. NothingHeld'
  BY <1>1 DEF NothingHeld
<1>7. NoneBefore'
  <2> SUFFICES ASSUME NEW q \in Runners, life[q] \in {"new", "waiting", "unused"}
               PROVE  /\ ~StartDue(q)' /\ ~FinishDue(q)'
                      /\ \A s \in {jobs', jobsFile} : \A i \in 1 .. Len(s) : s[i].runner # q
    BY <1>1 DEF NoneBefore
  <2>1. /\ ~StartDue(q) /\ ~FinishDue(q)
        /\ \A i \in 1 .. Len(jobsFile) : jobsFile[i].runner # q
    BY DEF IInv, NoneBefore
  <2>2. \A i \in 1 .. Len(<<>>) : <<>>[i].runner # q
    BY NoHistory
  <2>3. jobs' \in {<<>>, jobsFile}
    BY <1>1
  <2> QED
    BY <1>3, <2>1, <2>2, <2>3
<1>8. FinishOnly(jobsFile)'
  BY <1>1, <1>3 DEF IInv, FinishOnly
<1>9. FinishOnly(jobs)'
  <2>1. CASE jobs' = jobsFile
    BY <1>3, <2>1 DEF IInv, FinishOnly
  <2>2. CASE jobs' = <<>>
    <3>1. Len(jobs') = 0
      BY <2>2
    <3> QED
      BY <3>1 DEF FinishOnly
  <2> QED
    BY <1>1, <2>1, <2>2
<1>10. Heard'
  <2> SUFFICES ASSUME NEW q \in Runners, q \notin missed'
               PROVE  /\ life[q] \in {"running", "ended", "gone"} => StartDue(q)' \/ HasStart(jobs', q)
                      /\ life[q] \in {"ended", "gone"} => FinishDue(q)' \/ HasFinish(jobs', q)
    BY <1>1 DEF Heard, History, HasStart, HasFinish
  <2>1. CASE jobs' = jobsFile /\ missed' = missed
    BY <1>1, <1>3, <2>1 DEF IInv, Heard, History
  <2>2. CASE missed' = {r \in Runners : life[r] # "new"}
    BY <2>2
  <2> QED
    BY <1>1, <2>1, <2>2
<1> QED
  BY <1>4, <1>5, <1>6, <1>7, <1>8, <1>9, <1>10 DEF IInv

------------------------------------------------------------------------------
(* The theorems *)

LEMMA Starts == Init => IInv
<1> SUFFICES ASSUME Init PROVE IInv
  OBVIOUS
<1>1. /\ up = TRUE /\ hand = [k \in SetKeys |-> Idle] /\ jobs = <<>> /\ jobsFile = <<>>
      /\ life = [r \in Runners |-> "new"] /\ events = {}
  BY DEF Init
<1>2. \A q, ats : ats \in {OnStart, {"finish"}} => ~InHand(q, ats)
  BY <1>1, NotIdle DEF InHand, OnStart
<1>3. \A q : ~StartDue(q) /\ ~FinishDue(q)
  BY <1>1, <1>2 DEF StartDue, FinishDue
<1>4. Typed
  BY <1>1, NoHistory, NotIdle DEF Typed
<1>5. OwnSession /\ NothingHeld
  BY <1>1 DEF OwnSession, NothingHeld
<1>6. \A i \in 1 .. Len(<<>>) : FALSE
  BY NoHistory
<1>7. NoneBefore
  BY <1>1, <1>3, <1>6 DEF NoneBefore
<1>8. FinishOnly(jobs) /\ FinishOnly(jobsFile)
  BY <1>1, NoHistory
<1>9. Heard
  BY <1>1 DEF Heard
<1> QED
  BY <1>4, <1>5, <1>7, <1>8, <1>9 DEF IInv

LEMMA StepKeeps == IInv /\ [Next]_vars => IInv'
<1> SUFFICES ASSUME IInv, [Next]_vars PROVE IInv'
  OBVIOUS
<1>1. ASSUME NEW r \in Runners, HearStarted(r) PROVE IInv'
  <2>1. Hear("started", r)
    BY <1>1 DEF HearStarted
  <2>2. \/ Then(r, "assign") /\ missed' = missed
        \/ Then(r, "record") /\ missed' = missed
        \/ missed' = missed \cup {r} /\ hand' = hand
    BY <1>1 DEF HearStarted, Unknown
  <2>3. "assign" \in OnStart /\ "record" \in OnStart
    BY DEF OnStart
  <2> QED
    BY <2>1, <2>2, <2>3, HearKeeps
<1>2. ASSUME NEW r \in Runners, HearCompleted(r) PROVE IInv'
  <2>1. Hear("completed", r)
    BY <1>2 DEF HearCompleted
  <2>2. \/ Then(r, "finish") /\ missed' = missed
        \/ missed' = missed \cup {r} /\ hand' = hand
    BY <1>2 DEF HearCompleted, Unknown
  <2> QED
    BY <2>1, <2>2, HearKeeps
<1>3. ASSUME NEW k \in SetKeys, RecordJob(k) PROVE IInv'
  BY <1>3, JobRecorded, RecordedKeeps
<1>4. ASSUME NEW k \in SetKeys, RecordFinish(k) PROVE IInv'
  BY <1>4, FinishRecorded, RecordedKeeps
<1>5. CASE Expire
  <2>1. UNCHANGED <<up, hand, jobs, jobsFile, events, missed, life>>
    BY <1>5 DEF Expire, files, world
  <2> QED
    BY <2>1, AsideKeeps DEF IInv, Typed
<1>6. CASE UNCHANGED vars
  <2>1. UNCHANGED <<up, hand, jobs, jobsFile, events, missed, life>>
    BY <1>6 DEF vars, lane, files, world
  <2> QED
    BY <2>1, AsideKeeps DEF IInv, Typed
<1> QED
  BY <1>1, <1>2, <1>3, <1>4, <1>5, <1>6, AssignmentKeeps, ReconcileKeeps, UnitEndsKeeps,
     TakeJobKeeps, JobEndsKeeps, CrashKeeps, RestartKeeps DEF Next

\* The invariant holds in every reachable state.
THEOREM HistoryInvariant == Spec => []IInv
<1> QED
  BY Starts, StepKeeps, PTL DEF Spec

LEMMA SingleEntry ==
    ASSUME NEW s, Whole(s), NEW r
    PROVE  Cardinality(EntriesOf(s, r)) <= 1
<1>1. CASE EntriesOf(s, r) = {}
  BY <1>1, FS_EmptySet
<1>2. CASE EntriesOf(s, r) # {}
  <2>1. PICK i : i \in EntriesOf(s, r)
    BY <1>2
  <2>2. EntriesOf(s, r) = {i}
    BY <2>1 DEF EntriesOf, Whole
  <2> QED
    BY <2>2, FS_Singleton
<1> QED
  BY <1>1, <1>2

\* Whatever order a job's two messages are handled in, across forgotten slots, failed writes,
\* crashes and restarts (listener/state.go: recordJob, recordFinish, readJobs), it has one entry,
\* and once neither is pending nor known to be missed that entry has its start and its finish.
THEOREM RecordsAreComplete == Spec => []HistoryComplete
<1>1. IInv => HistoryComplete
  <2> SUFFICES ASSUME IInv, NEW r \in Runners
               PROVE  /\ Cardinality(EntriesOf(jobs, r)) <= 1
                      /\ Cardinality(EntriesOf(jobsFile, r)) <= 1
                      /\ up /\ Settled(r) /\ r \notin missed =>
                             \E i \in EntriesOf(jobs, r) : jobs[i].started /\ jobs[i].finished
    BY DEF HistoryComplete
  <2>1. Whole(jobs) /\ Whole(jobsFile) /\ hand \in [SetKeys -> HandType]
    BY DEF IInv, Typed
  <2>2. ASSUME up, Settled(r), r \notin missed
        PROVE  \E i \in EntriesOf(jobs, r) : jobs[i].started /\ jobs[i].finished
    <3>1. \A ats \in {OnStart, {"finish"}} : ~InHand(r, ats)
      <4> SUFFICES ASSUME NEW k \in SetKeys, hand[k].at \in OnStart \cup {"finish"}, hand[k].runner = r
                   PROVE  FALSE
        BY DEF InHand
      <4>1. hand[k] # Idle
        BY <2>1, NotIdle
      <4>2. SetOf[r] = k
        BY <4>1 DEF IInv, OwnSession
      <4> QED
        BY <2>2, <4>2 DEF Settled
    <3>2. ~StartDue(r) /\ ~FinishDue(r)
      BY <2>2, <3>1 DEF Settled, StartDue, FinishDue
    <3>3. HasStart(jobs, r) /\ HasFinish(jobs, r)
      BY <2>2, <3>2 DEF IInv, Heard, History, Settled
    <3>4. PICK i \in 1 .. Len(jobs) : jobs[i].runner = r /\ jobs[i].started
      BY <3>3 DEF HasStart
    <3>5. PICK j \in 1 .. Len(jobs) : jobs[j].runner = r /\ jobs[j].finished
      BY <3>3 DEF HasFinish
    <3>6. i = j
      BY <2>1, <3>4, <3>5 DEF Whole
    <3> QED
      BY <3>4, <3>5, <3>6 DEF EntriesOf
  <2> QED
    BY <2>1, <2>2, SingleEntry
<1> QED
  BY <1>1, HistoryInvariant, PTL

\* A recorded finish is never taken back while the listener runs (listener/state.go: recordJob
\* fills a late start into the finish's entry): only the oldest entry of a full history goes.
THEOREM FinishesAreKept == Spec => FinishesStay
<1> DEFINE Stays == up /\ up' => \A i \in 1 .. Len(jobs) : jobs[i].finished =>
                        \/ \E j \in EntriesOf(jobs', jobs[i].runner) : jobs'[j].finished
                        \/ i = 1 /\ Len(jobs) = MaxJobHistory
<1>1. IInv /\ [Next]_vars => [Stays]_vars
  <2> SUFFICES ASSUME IInv, Next, up, up', NEW i \in 1 .. Len(jobs), jobs[i].finished
               PROVE  \/ \E j \in EntriesOf(jobs', jobs[i].runner) : jobs'[j].finished
                      \/ i = 1 /\ Len(jobs) = MaxJobHistory
    OBVIOUS
  <2>1. ASSUME NEW k \in SetKeys, NEW e \in Entry, Recorded(k, e), jobs[i].runner = e.runner => e.finished
        PROVE  \/ \E j \in EntriesOf(jobs', jobs[i].runner) : jobs'[j].finished
               \/ i = 1 /\ Len(jobs) = MaxJobHistory
    <3>1. Takes(jobs, jobs', e)
      BY <2>1 DEF Recorded
    <3>2. CASE jobs[i].runner = e.runner
      BY <2>1, <3>1, <3>2 DEF Takes, EntriesOf
    <3>3. CASE jobs[i].runner # e.runner
      BY <3>1, <3>3 DEF Takes, EntriesOf
    <3> QED
      BY <3>2, <3>3
  <2>2. ASSUME NEW k \in SetKeys, RecordJob(k) \/ RecordFinish(k)
        PROVE  \E e \in Entry : Recorded(k, e) /\ (jobs[i].runner = e.runner => e.finished)
    <3>1. CASE RecordJob(k)
      BY <3>1, JobRecorded
    <3>2. CASE RecordFinish(k)
      BY <3>2, FinishRecorded
    <3> QED
      BY <2>2, <3>1, <3>2
  <2>3. CASE UNCHANGED jobs
    BY <2>3 DEF EntriesOf
  <2>4. \/ UNCHANGED jobs \/ ~up'  \/ ~up
        \/ \E k \in SetKeys : RecordJob(k) \/ RecordFinish(k)
    BY DEF Next, HearStarted, HearCompleted, Hear, TakeJob, JobEnds, UnitEnds, RecordAssignment,
           Reconcile, Expire, Crash, Restart, lane
  <2> QED
    BY <2>1, <2>2, <2>3, <2>4
<1>2. FinishesStay <=> [][Stays]_vars
  BY DEF FinishesStay
<1> QED
  BY <1>1, <1>2, HistoryInvariant, PTL DEF Spec

----------------------------------------------------------------------------
(* The outcomes of merged pull requests *)

\* A thread's record has its fields.
Shaped(r) == r = [at |-> r.at, old |-> r.old, calls |-> r.calls, todo |-> r.todo, records |-> r.records, lost |-> r.lost]

CyclesKnown ==
  /\ DOMAIN cycle = Cycles /\ \A c \in Cycles : Shaped(cycle[c])
  /\ reader = [records |-> reader.records, jobs |-> reader.jobs]

\* Nothing forgotten is served, nor held by a cycle of the reader that serves.
Live ==
  /\ ~Merging!Stale(reader.records)
  /\ \A c \in Cycles : ~cycle[c].old => ~Merging!Stale(cycle[c].records)

\* Somebody is about to delete what is stored.
Clearing == clearing \/ \E c \in Cycles : cycle[c].at = "clear"

\* After a restart that found what was being deleted, only the next reset makes the reader good again: it stays so until
\* that reset's own deletion, which ends the doubt.
Doubt == ~torn \/ Clearing => Live

\* What is stored and forgotten is to be deleted: by whoever forgot it, or by the old cycle that wrote it since.
OnDisk ==
  ~torn /\ Merging!Stale(stored) =>
    clearing \/ \E c \in Cycles : cycle[c].old /\ cycle[c].at \in {"clear", "check"}

\* Only a cycle that forgot deletes, and what it forgot with made it an old one.
ClearIsOld == \A c \in Cycles : cycle[c].at = "clear" => cycle[c].old

OutcomesInv == CyclesKnown /\ Doubt /\ OnDisk /\ ClearIsOld

LEMMA OutcomesStart == Merging!Init => OutcomesInv
  BY DEF Merging!Init, OutcomesInv, CyclesKnown, Doubt, Clearing, Live, OnDisk, ClearIsOld, Shaped, Merging!Reader, Merging!Idle,
         Merging!Stale

\* What setting fields of a thread's record leaves.
LEMMA CallsSet ==
    ASSUME NEW r, Shaped(r), NEW u
    PROVE  [r EXCEPT !.calls = u] =
           [at |-> r.at, old |-> r.old, calls |-> u, todo |-> r.todo, records |-> r.records, lost |-> r.lost]
  BY DEF Shaped

LEMMA OldAndRecords ==
    ASSUME NEW r, Shaped(r), NEW u, NEW v
    PROVE  [r EXCEPT !.old = u, !.records = v] =
           [at |-> r.at, old |-> u, calls |-> r.calls, todo |-> r.todo, records |-> v, lost |-> r.lost]
<1>1. [r EXCEPT !.old = u] =
       [at |-> r.at, old |-> u, calls |-> r.calls, todo |-> r.todo, records |-> r.records, lost |-> r.lost]
  BY DEF Shaped
<1>2. [[at |-> r.at, old |-> u, calls |-> r.calls, todo |-> r.todo, records |-> r.records, lost |-> r.lost] EXCEPT !.records = v] =
       [at |-> r.at, old |-> u, calls |-> r.calls, todo |-> r.todo, records |-> v, lost |-> r.lost]
  OBVIOUS
<1>3. [r EXCEPT !.old = u, !.records = v] = [[r EXCEPT !.old = u] EXCEPT !.records = v]
  OBVIOUS
<1> QED
  BY <1>1, <1>2, <1>3

LEMMA AtAndCalls ==
    ASSUME NEW r, Shaped(r), NEW u, NEW v
    PROVE  [r EXCEPT !.at = u, !.calls = v] =
           [at |-> u, old |-> r.old, calls |-> v, todo |-> r.todo, records |-> r.records, lost |-> r.lost]
<1>1. [r EXCEPT !.at = u] =
       [at |-> u, old |-> r.old, calls |-> r.calls, todo |-> r.todo, records |-> r.records, lost |-> r.lost]
  BY DEF Shaped
<1>2. [[at |-> u, old |-> r.old, calls |-> r.calls, todo |-> r.todo, records |-> r.records, lost |-> r.lost] EXCEPT !.calls = v] =
       [at |-> u, old |-> r.old, calls |-> v, todo |-> r.todo, records |-> r.records, lost |-> r.lost]
  OBVIOUS
<1>3. [r EXCEPT !.at = u, !.calls = v] = [[r EXCEPT !.at = u] EXCEPT !.calls = v]
  OBVIOUS
<1> QED
  BY <1>1, <1>2, <1>3

LEMMA AtAndLost ==
    ASSUME NEW r, Shaped(r), NEW u, NEW v
    PROVE  [r EXCEPT !.at = u, !.lost = v] =
           [at |-> u, old |-> r.old, calls |-> r.calls, todo |-> r.todo, records |-> r.records, lost |-> v]
<1>1. [r EXCEPT !.at = u] =
       [at |-> u, old |-> r.old, calls |-> r.calls, todo |-> r.todo, records |-> r.records, lost |-> r.lost]
  BY DEF Shaped
<1>2. [[at |-> u, old |-> r.old, calls |-> r.calls, todo |-> r.todo, records |-> r.records, lost |-> r.lost] EXCEPT !.lost = v] =
       [at |-> u, old |-> r.old, calls |-> r.calls, todo |-> r.todo, records |-> r.records, lost |-> v]
  OBVIOUS
<1>3. [r EXCEPT !.at = u, !.lost = v] = [[r EXCEPT !.at = u] EXCEPT !.lost = v]
  OBVIOUS
<1> QED
  BY <1>1, <1>2, <1>3

LEMMA AtAndTodo ==
    ASSUME NEW r, Shaped(r), NEW u, NEW v
    PROVE  [r EXCEPT !.at = u, !.todo = v] =
           [at |-> u, old |-> r.old, calls |-> r.calls, todo |-> v, records |-> r.records, lost |-> r.lost]
<1>1. [r EXCEPT !.at = u] =
       [at |-> u, old |-> r.old, calls |-> r.calls, todo |-> r.todo, records |-> r.records, lost |-> r.lost]
  BY DEF Shaped
<1>2. [[at |-> u, old |-> r.old, calls |-> r.calls, todo |-> r.todo, records |-> r.records, lost |-> r.lost] EXCEPT !.todo = v] =
       [at |-> u, old |-> r.old, calls |-> r.calls, todo |-> v, records |-> r.records, lost |-> r.lost]
  OBVIOUS
<1>3. [r EXCEPT !.at = u, !.todo = v] = [[r EXCEPT !.at = u] EXCEPT !.todo = v]
  OBVIOUS
<1> QED
  BY <1>1, <1>2, <1>3

LEMMA AtRecordsAndTodo ==
    ASSUME NEW r, Shaped(r), NEW u, NEW v, NEW w
    PROVE  [r EXCEPT !.at = u, !.records = v, !.todo = w] =
           [at |-> u, old |-> r.old, calls |-> r.calls, todo |-> w, records |-> v, lost |-> r.lost]
<1>1. [r EXCEPT !.at = u] =
       [at |-> u, old |-> r.old, calls |-> r.calls, todo |-> r.todo, records |-> r.records, lost |-> r.lost]
  BY DEF Shaped
<1>2. [[at |-> u, old |-> r.old, calls |-> r.calls, todo |-> r.todo, records |-> r.records, lost |-> r.lost] EXCEPT !.records = v] =
       [at |-> u, old |-> r.old, calls |-> r.calls, todo |-> r.todo, records |-> v, lost |-> r.lost]
  OBVIOUS
<1>3. [[at |-> u, old |-> r.old, calls |-> r.calls, todo |-> r.todo, records |-> v, lost |-> r.lost] EXCEPT !.todo = w] =
       [at |-> u, old |-> r.old, calls |-> r.calls, todo |-> w, records |-> v, lost |-> r.lost]
  OBVIOUS
<1>4. [r EXCEPT !.at = u, !.records = v, !.todo = w] = [[[r EXCEPT !.at = u] EXCEPT !.records = v] EXCEPT !.todo = w]
  OBVIOUS
<1> QED
  BY <1>1, <1>2, <1>3, <1>4

LEMMA AtAndRecords ==
    ASSUME NEW r, Shaped(r), NEW u, NEW v
    PROVE  [r EXCEPT !.at = u, !.records = v] =
           [at |-> u, old |-> r.old, calls |-> r.calls, todo |-> r.todo, records |-> v, lost |-> r.lost]
<1>1. [r EXCEPT !.at = u] =
       [at |-> u, old |-> r.old, calls |-> r.calls, todo |-> r.todo, records |-> r.records, lost |-> r.lost]
  BY DEF Shaped
<1>2. [[at |-> u, old |-> r.old, calls |-> r.calls, todo |-> r.todo, records |-> r.records, lost |-> r.lost] EXCEPT !.records = v] =
       [at |-> u, old |-> r.old, calls |-> r.calls, todo |-> r.todo, records |-> v, lost |-> r.lost]
  OBVIOUS
<1>3. [r EXCEPT !.at = u, !.records = v] = [[r EXCEPT !.at = u] EXCEPT !.records = v]
  OBVIOUS
<1> QED
  BY <1>1, <1>2, <1>3

\* A step of a cycle beside the store and the deletions: what it gives itself or the reader was live where it came from.
LEMMA CycleGoes ==
    ASSUME OutcomesInv, NEW c \in Cycles, NEW new, Shaped(new), Merging!Step(c, new),
           cycle[c].at \notin {"clear", "check"}, new.at \notin {"clear", "check"},
           stored' = stored, clearing' = clearing, torn' = torn,
           reader' = [records |-> reader'.records, jobs |-> reader'.jobs],
           Live => ~Merging!Stale(reader'.records) /\ (~new.old => ~Merging!Stale(new.records))
    PROVE  OutcomesInv'
<1>1. DOMAIN cycle' = Cycles /\ \A d \in Cycles : cycle'[d] = IF d = c THEN new ELSE cycle[d]
  BY DEF Merging!Step, OutcomesInv, CyclesKnown
<1>2. CyclesKnown'
  BY <1>1 DEF OutcomesInv, CyclesKnown
<1>3. Live => Live'
  BY <1>1 DEF Live
<1>4. Clearing' => Clearing
  BY <1>1 DEF Clearing
<1>5. Doubt'
  BY <1>3, <1>4 DEF Doubt, OutcomesInv
<1>6. OnDisk'
  BY <1>1 DEF OnDisk, OutcomesInv
<1>7. ClearIsOld'
  BY <1>1 DEF ClearIsOld, OutcomesInv
<1> QED
  BY <1>2, <1>5, <1>6, <1>7 DEF OutcomesInv

\* A cycle that only goes on, with the records it had.
LEMMA JustGoes ==
    ASSUME OutcomesInv, NEW c \in Cycles, NEW step, step \notin {"clear", "check"}, Merging!Goes(c, step),
           cycle[c].at \notin {"clear", "check"}, stored' = stored, clearing' = clearing, torn' = torn, reader' = reader
    PROVE  OutcomesInv'
<1> DEFINE new == [cycle[c] EXCEPT !.at = step]
<1>1. Shaped(cycle[c]) /\ reader = [records |-> reader.records, jobs |-> reader.jobs]
  BY DEF OutcomesInv, CyclesKnown
<1>2. Shaped(new) /\ new.at = step /\ new.old = cycle[c].old /\ new.records = cycle[c].records
  BY <1>1 DEF Shaped
<1>3. Merging!Step(c, new)
  BY DEF Merging!Goes
<1>4. Live => ~Merging!Stale(reader.records) /\ (~new.old => ~Merging!Stale(new.records))
  BY <1>2 DEF Live
<1> HIDE DEF new
<1> QED
  BY <1>1, <1>2, <1>3, <1>4, CycleGoes

\* The reset of a reader, by a cycle of it or the service: nothing it had is live any more, and someone deletes.
LEMMA ResetKeeps ==
    ASSUME OutcomesInv, NEW cycles, Merging!reset(cycles), DOMAIN cycles = Cycles, \A c \in Cycles : Shaped(cycles[c]),
           clearing' \/ \E c \in Cycles : cycles[c].at = "clear"
    PROVE  OutcomesInv'
<1>1. \A c \in Cycles : Shaped(cycle'[c]) /\ cycle'[c].old = TRUE /\ cycle'[c].at = cycles[c].at
  <2> SUFFICES ASSUME NEW c \in Cycles PROVE Shaped(cycle'[c]) /\ cycle'[c].old = TRUE /\ cycle'[c].at = cycles[c].at
    OBVIOUS
  <2> DEFINE r == cycles[c]
             new == [r EXCEPT !.old = TRUE, !.records = Merging!Forgotten(r.records)]
  <2>1. cycle'[c] = new
    BY DEF Merging!reset
  <2>3. Shaped(r)
    OBVIOUS
  <2> HIDE DEF r
  <2>7. new = [at |-> r.at, old |-> TRUE, calls |-> r.calls, todo |-> r.todo, records |-> Merging!Forgotten(r.records), lost |-> r.lost]
    BY <2>3, OldAndRecords
  <2> HIDE DEF new
  <2>4. Shaped(new) /\ new.old = TRUE /\ new.at = r.at
    BY <2>7 DEF Shaped
  <2> HIDE DEF new
  <2> QED
    BY <2>1, <2>4 DEF r
<1>2. DOMAIN cycle' = Cycles /\ reader' = Merging!Reader
  BY DEF Merging!reset
<1>3. reader' = [records |-> reader'.records, jobs |-> reader'.jobs] /\ ~Merging!Stale(reader'.records)
  BY <1>2 DEF Merging!Reader, Merging!Stale
<1>4. CyclesKnown'
  BY <1>1, <1>2, <1>3 DEF CyclesKnown
<1>5. Live'
  BY <1>1, <1>3 DEF Live
<1>6. OnDisk'
  BY <1>1 DEF OnDisk
<1>7. ClearIsOld'
  BY <1>1 DEF ClearIsOld
<1> QED
  BY <1>4, <1>5, <1>6, <1>7 DEF OutcomesInv, Doubt

\* A call to GitHub: answered, refused or not made.
LEMMA CallGoes ==
    ASSUME OutcomesInv, NEW c \in Cycles, NEW new, NEW jobLists, Merging!Call(c, new, jobLists), Shaped(new),
           cycle[c].at \notin {"clear", "check"}, new.at \notin {"clear", "check"},
           Live /\ ~new.old => ~Merging!Stale(new.records)
    PROVE  OutcomesInv'
<1>1. Shaped(cycle[c]) /\ reader = [records |-> reader.records, jobs |-> reader.jobs]
  BY DEF OutcomesInv, CyclesKnown
<1>2. stored' = stored /\ clearing' = clearing /\ torn' = torn
  BY DEF Merging!Call, Merging!Alone, Merging!Same
<1>3. CASE Merging!Step(c, [new EXCEPT !.calls = new.calls - 1])
           /\ reader' = IF cycle[c].old THEN reader ELSE [reader EXCEPT !.jobs = jobLists]
  <2> DEFINE paid == [new EXCEPT !.calls = new.calls - 1]
  <2>1. paid = [at |-> new.at, old |-> new.old, calls |-> new.calls - 1, todo |-> new.todo, records |-> new.records, lost |-> new.lost]
    BY CallsSet
  <2> HIDE DEF paid
  <2>2. Shaped(paid) /\ paid.at = new.at /\ paid.old = new.old /\ paid.records = new.records
    BY <2>1 DEF Shaped
  <2>3. reader' = [records |-> reader'.records, jobs |-> reader'.jobs] /\ reader'.records = reader.records
    BY <1>1, <1>3
  <2>4. Live => ~Merging!Stale(reader'.records) /\ (~paid.old => ~Merging!Stale(paid.records))
    BY <2>2, <2>3 DEF Live
  <2>5. Merging!Step(c, paid)
    BY <1>3 DEF paid
  <2> QED
    BY <1>2, <2>2, <2>3, <2>4, <2>5, CycleGoes
<1>4. CASE Merging!Step(c, [cycle[c] EXCEPT !.at = "ends", !.lost = TRUE]) /\ reader' = reader
  <2> DEFINE ended == [cycle[c] EXCEPT !.at = "ends", !.lost = TRUE]
  <2>1. ended = [at |-> "ends", old |-> cycle[c].old, calls |-> cycle[c].calls, todo |-> cycle[c].todo,
                 records |-> cycle[c].records, lost |-> TRUE]
    BY <1>1, AtAndLost
  <2>2. Merging!Step(c, ended)
    BY <1>4
  <2> HIDE DEF ended
  <2>3. Shaped(ended) /\ ended.at = "ends" /\ ended.old = cycle[c].old /\ ended.records = cycle[c].records
    BY <2>1 DEF Shaped
  <2>4. Live => ~Merging!Stale(reader'.records) /\ (~ended.old => ~Merging!Stale(ended.records))
    BY <1>4, <2>3 DEF Live
  <2> QED
    BY <1>1, <1>2, <1>4, <2>2, <2>3, <2>4, CycleGoes
<1>5. CASE Merging!Goes(c, "publish") /\ reader' = reader
  BY <1>2, <1>5, JustGoes
<1> QED
  BY <1>3, <1>4, <1>5 DEF Merging!Call

\* What a cycle reads goes beside what its reader has, and what it read is not forgotten yet.
LEMMA ReadsKeep ==
    ASSUME OutcomesInv, NEW c \in Cycles,
           Merging!start(c) \/ Merging!_reserve_low(c) \/ Merging!_merged(c) \/ Merging!_runs(c) \/ Merging!_record(c)
    PROVE  OutcomesInv'
<1>1. Shaped(cycle[c]) /\ reader = [records |-> reader.records, jobs |-> reader.jobs]
  BY DEF OutcomesInv, CyclesKnown
<1> DEFINE without == [cycle[c] EXCEPT !.at = "list", !.todo = cycle[c].todo \ {Merging!Newest(c)}]
<1>2. /\ Merging!Without(c) = without
      /\ without = [at |-> "list", old |-> cycle[c].old, calls |-> cycle[c].calls, todo |-> cycle[c].todo \ {Merging!Newest(c)},
                    records |-> cycle[c].records, lost |-> cycle[c].lost]
  BY <1>1, AtAndTodo DEF Merging!Without
<1> HIDE DEF without
<1>3. Shaped(without) /\ without.at = "list" /\ without.old = cycle[c].old /\ without.records = cycle[c].records
  BY <1>2 DEF Shaped
<1>4. CASE Merging!start(c)
  <2> DEFINE new == [Merging!Idle EXCEPT !.at = "search", !.calls = MAX_CALLS]
  <2>5. Shaped(Merging!Idle) /\ Merging!Idle.records = {}
    BY DEF Shaped, Merging!Idle
  <2>6. new = [at |-> "search", old |-> Merging!Idle.old, calls |-> MAX_CALLS, todo |-> Merging!Idle.todo,
               records |-> Merging!Idle.records, lost |-> Merging!Idle.lost]
    BY <2>5, AtAndCalls
  <2>2. Merging!Step(c, new)
    BY <1>4 DEF Merging!start
  <2> HIDE DEF new
  <2>1. Shaped(new) /\ new.at = "search" /\ new.records = {}
    BY <2>5, <2>6 DEF Shaped
  <2>3. cycle[c].at = "idle" /\ stored' = stored /\ clearing' = clearing /\ torn' = torn /\ reader' = reader
    BY <1>4 DEF Merging!start, Merging!Same
  <2>4. Live => ~Merging!Stale(reader'.records) /\ (~new.old => ~Merging!Stale(new.records))
    BY <2>1, <2>3 DEF Live, Merging!Stale
  <2> QED
    BY <1>1, <2>1, <2>2, <2>3, <2>4, CycleGoes
<1>5. CASE Merging!_reserve_low(c)
  <2>1. cycle[c].at = "search" /\ Merging!Goes(c, "ends") /\ reader' = reader
        /\ stored' = stored /\ clearing' = clearing /\ torn' = torn
    BY <1>5 DEF Merging!_reserve_low, Merging!Alone, Merging!Same
  <2> QED
    BY <2>1, JustGoes
<1>6. CASE Merging!_merged(c)
  <2> DEFINE todo == {p \in Merges : pullOf[p] # "open"} \ Merging!Of(reader.records)
             new == [cycle[c] EXCEPT !.at = "list", !.records = reader.records, !.todo = todo]
  <2>1. cycle[c].at = "search" /\ Merging!Call(c, new, reader.jobs)
    BY <1>6 DEF Merging!_merged
  <2> HIDE DEF todo
  <2>2. new = [at |-> "list", old |-> cycle[c].old, calls |-> cycle[c].calls, todo |-> todo,
               records |-> reader.records, lost |-> cycle[c].lost]
    <3>1. Shaped(cycle[c])
      BY <1>1
    <3> QED
      BY <3>1, AtRecordsAndTodo
  <2> HIDE DEF new, todo
  <2>3. Shaped(new) /\ new.at = "list" /\ new.records = reader.records
    BY <2>2 DEF Shaped
  <2>4. Live => ~Merging!Stale(new.records)
    BY <2>3 DEF Live
  <2> QED
    BY <2>1, <2>3, <2>4, CallGoes
<1>7. CASE Merging!_runs(c)
  <2>1. PICK new \in {without, [cycle[c] EXCEPT !.at = "jobs"]} : cycle[c].at = "list" /\ Merging!Call(c, new, reader.jobs)
    BY <1>2, <1>7 DEF Merging!_runs
  <2>2. LET jobsNext == [cycle[c] EXCEPT !.at = "jobs"]
        IN  Shaped(jobsNext) /\ jobsNext.at = "jobs" /\ jobsNext.old = cycle[c].old /\ jobsNext.records = cycle[c].records
    BY <1>1 DEF Shaped
  <2>3. Shaped(new) /\ new.at \in {"list", "jobs"} /\ new.old = cycle[c].old /\ new.records = cycle[c].records
    BY <1>3, <2>2
  <2>4. Live /\ ~new.old => ~Merging!Stale(new.records)
    BY <2>3 DEF Live
  <2> QED
    BY <2>1, <2>3, <2>4, CallGoes
<1>8. CASE Merging!_record(c)
  <2>1. CASE Merging!Call(c, cycle[c], Merging!_attempt_jobs(c))
    <3>1. cycle[c].at = "jobs"
      BY <1>8 DEF Merging!_record
    <3>2. Live /\ ~cycle[c].old => ~Merging!Stale(cycle[c].records)
      BY DEF Live
    <3> QED
      BY <1>1, <2>1, <3>1, <3>2, CallGoes
  <2>2. CASE ~Merging!Call(c, cycle[c], Merging!_attempt_jobs(c))
    <3> DEFINE p == Merging!Newest(c)
               all == without.records \cup {Merging!Record(p)}
               new == [without EXCEPT !.records = all]
    <3>1. /\ cycle[c].at = "jobs" /\ Merging!Step(c, new)
          /\ reader' = IF cycle[c].old THEN reader ELSE [reader EXCEPT !.jobs[p] = 0]
          /\ stored' = stored /\ clearing' = clearing /\ torn' = torn
      BY <1>2, <1>8, <2>2 DEF Merging!_record, Merging!Alone, Merging!Same
    <3> HIDE DEF p
    <3>2. reader' = [records |-> reader'.records, jobs |-> reader'.jobs] /\ reader'.records = reader.records
      BY <1>1, <3>1
    <3> HIDE DEF all
    <3>3. Shaped(new) /\ new.at = "list" /\ new.old = cycle[c].old /\ new.records = all
      BY <1>3 DEF Shaped
    <3> HIDE DEF new
    <3>4. Merging!Stale(all) => Merging!Stale(cycle[c].records)
      BY <1>3 DEF all, Merging!Stale, Merging!Record
    <3>5. Live => ~Merging!Stale(reader'.records) /\ (~new.old => ~Merging!Stale(new.records))
      BY <3>2, <3>3, <3>4 DEF Live
    <3> QED
      BY <3>1, <3>2, <3>3, <3>5, CycleGoes
  <2> QED
    BY <2>1, <2>2
<1> QED
  BY <1>4, <1>5, <1>6, <1>7, <1>8

\* A cycle serves what it read, and ends.
LEMMA EndsKeep ==
    ASSUME OutcomesInv, NEW c \in Cycles, Merging!collect(c) \/ Merging!Ends(c)
    PROVE  OutcomesInv'
<1>1. Shaped(cycle[c]) /\ reader = [records |-> reader.records, jobs |-> reader.jobs]
  BY DEF OutcomesInv, CyclesKnown
<1>2. CASE Merging!collect(c)
  <2> DEFINE new == [cycle[c] EXCEPT !.at = "ends"]
  <2>1. /\ cycle[c].at \in {"publish", "list"} /\ Merging!Step(c, new)
        /\ reader' = IF cycle[c].old THEN reader ELSE [reader EXCEPT !.records = cycle[c].records]
        /\ stored' = stored /\ clearing' = clearing /\ torn' = torn
    BY <1>2 DEF Merging!collect, Merging!Goes, Merging!Alone, Merging!Same
  <2>2. Shaped(new) /\ new.at = "ends" /\ new.old = cycle[c].old /\ new.records = cycle[c].records
    BY <1>1 DEF Shaped
  <2> HIDE DEF new
  <2>3. /\ reader' = [records |-> reader'.records, jobs |-> reader'.jobs]
        /\ reader'.records = IF cycle[c].old THEN reader.records ELSE cycle[c].records
    BY <1>1, <2>1
  <2>4. Live => ~Merging!Stale(reader'.records) /\ (~new.old => ~Merging!Stale(new.records))
    BY <2>2, <2>3 DEF Live
  <2> QED
    BY <2>1, <2>2, <2>3, <2>4, CycleGoes
<1>3. CASE Merging!Ends(c)
  <2>1. /\ cycle[c].at = "ends" /\ reader' = reader /\ stored' = stored /\ clearing' = clearing /\ torn' = torn
    BY <1>3 DEF Merging!Ends, Merging!Same
  <2>2. \/ Merging!Step(c, Merging!Idle)
        \/ Merging!Goes(c, "reset")
        \/ ~cycle[c].old /\ Merging!Step(c, [cycle[c] EXCEPT !.at = "save", !.records = reader.records])
    BY <1>3 DEF Merging!Ends, Merging!Goes
  <2>3. CASE Merging!Step(c, Merging!Idle)
    <3>1. Shaped(Merging!Idle) /\ Merging!Idle.at = "idle" /\ Merging!Idle.records = {}
      BY DEF Shaped, Merging!Idle
    <3>2. Live => ~Merging!Stale(reader'.records) /\ (~Merging!Idle.old => ~Merging!Stale(Merging!Idle.records))
      BY <2>1, <3>1 DEF Live, Merging!Stale
    <3> QED
      BY <1>1, <2>1, <2>3, <3>1, <3>2, CycleGoes
  <2>4. CASE Merging!Goes(c, "reset")
    BY <2>1, <2>4, JustGoes
  <2>5. CASE ~cycle[c].old /\ Merging!Step(c, [cycle[c] EXCEPT !.at = "save", !.records = reader.records])
    <3> DEFINE new == [cycle[c] EXCEPT !.at = "save", !.records = reader.records]
    <3>1. new = [at |-> "save", old |-> cycle[c].old, calls |-> cycle[c].calls, todo |-> cycle[c].todo,
                 records |-> reader.records, lost |-> cycle[c].lost]
      <4>1. Shaped(cycle[c])
        BY <1>1
      <4> QED
        BY <4>1, AtAndRecords
    <3>2. Merging!Step(c, new)
      BY <2>5
    <3> HIDE DEF new
    <3>3. Shaped(new) /\ new.at = "save" /\ new.records = reader.records
      BY <3>1 DEF Shaped
    <3>4. Live => ~Merging!Stale(reader'.records) /\ (~new.old => ~Merging!Stale(new.records))
      BY <2>1, <3>3 DEF Live
    <3> QED
      BY <1>1, <2>1, <3>2, <3>3, <3>4, CycleGoes
  <2> QED
    BY <2>2, <2>3, <2>4, <2>5
<1> QED
  BY <1>2, <1>3

\* What an old cycle writes it deletes again; what another writes is what is served.
LEMMA StoreKeeps ==
    ASSUME OutcomesInv, NEW c \in Cycles, Merging!Save(c) \/ Merging!Written(c)
    PROVE  OutcomesInv'
<1>1. Shaped(cycle[c]) /\ DOMAIN cycle = Cycles /\ \A d \in Cycles : Shaped(cycle[d])
  BY DEF OutcomesInv, CyclesKnown
<1>2. reader' = reader /\ clearing' = clearing /\ torn' = torn
  BY DEF Merging!Save, Merging!Written, Merging!Same
<1>3. CASE Merging!Save(c)
  <2> DEFINE new == [cycle[c] EXCEPT !.at = "check"]
  <2>1. cycle[c].at = "save" /\ stored' = cycle[c].records /\ cycle' = [cycle EXCEPT ![c] = new]
    BY <1>3 DEF Merging!Save, Merging!Goes, Merging!Step
  <2>2. Shaped(new) /\ new.at = "check" /\ new.old = cycle[c].old /\ new.records = cycle[c].records
    BY <1>1 DEF Shaped
  <2> HIDE DEF new
  <2>3. DOMAIN cycle' = Cycles /\ \A d \in Cycles : cycle'[d] = IF d = c THEN new ELSE cycle[d]
    BY <1>1, <2>1
  <2>4. CyclesKnown'
    BY <1>2, <2>2, <2>3 DEF OutcomesInv, CyclesKnown
  <2>5. Live => Live'
    BY <1>2, <2>2, <2>3 DEF Live
  <2>6. Clearing' => Clearing
    BY <1>2, <2>2, <2>3 DEF Clearing
  <2>7. Doubt'
    BY <1>2, <2>5, <2>6 DEF Doubt, OutcomesInv
  <2>8. OnDisk'
    <3> SUFFICES ASSUME ~torn', Merging!Stale(stored)' PROVE cycle'[c].old /\ cycle'[c].at \in {"clear", "check"}
      BY DEF OnDisk
    <3>1. Live
      BY <1>2 DEF OutcomesInv, Doubt
    <3>2. Merging!Stale(cycle[c].records)
      BY <2>1 DEF Merging!Stale
    <3>3. cycle[c].old
      BY <3>1, <3>2 DEF Live
    <3> QED
      BY <2>2, <2>3, <3>3
  <2>9. ClearIsOld'
    BY <2>2, <2>3 DEF ClearIsOld, OutcomesInv
  <2> QED
    BY <2>4, <2>7, <2>8, <2>9 DEF OutcomesInv
<1>4. CASE Merging!Written(c)
  <2>1. /\ cycle[c].at = "check" /\ cycle' = [cycle EXCEPT ![c] = Merging!Idle]
        /\ stored' = IF cycle[c].old THEN {} ELSE stored
    BY <1>4 DEF Merging!Written, Merging!Check, Merging!Step
  <2>2. Shaped(Merging!Idle) /\ Merging!Idle.at = "idle" /\ Merging!Idle.records = {}
    BY DEF Shaped, Merging!Idle
  <2>3. DOMAIN cycle' = Cycles /\ \A d \in Cycles : cycle'[d] = IF d = c THEN Merging!Idle ELSE cycle[d]
    BY <1>1, <2>1
  <2>4. CyclesKnown'
    BY <1>2, <2>2, <2>3 DEF OutcomesInv, CyclesKnown
  <2>5. Live => Live'
    BY <1>2, <2>2, <2>3 DEF Live, Merging!Stale
  <2>6. Clearing' => Clearing
    BY <1>2, <2>2, <2>3 DEF Clearing
  <2>7. Doubt'
    BY <1>2, <2>5, <2>6 DEF Doubt, OutcomesInv
  <2>8. OnDisk'
    <3>1. CASE cycle[c].old
      BY <2>1, <3>1 DEF OnDisk, Merging!Stale
    <3>2. CASE ~cycle[c].old
      BY <1>2, <2>1, <2>3, <3>2 DEF OnDisk, OutcomesInv
    <3> QED
      BY <3>1, <3>2
  <2>9. ClearIsOld'
    BY <2>2, <2>3 DEF ClearIsOld, OutcomesInv
  <2> QED
    BY <2>4, <2>7, <2>8, <2>9 DEF OutcomesInv
<1> QED
  BY <1>3, <1>4

\* The deletion is of all there is, and of a reader that is good by then.
LEMMA ClearsKeep ==
    ASSUME OutcomesInv, Merging!Clears
    PROVE  OutcomesInv'
<1>1. Clearing /\ stored' = {} /\ ~torn' /\ reader' = reader
  BY DEF Merging!Clears, Clearing
<1>2. \A c \in Cycles : cycle'[c] \in {cycle[c], Merging!Idle}
  BY DEF Merging!Clears, Merging!Step, OutcomesInv, CyclesKnown
<1>3. DOMAIN cycle' = Cycles
  BY DEF Merging!Clears, Merging!Step, OutcomesInv, CyclesKnown
<1>4. Shaped(Merging!Idle) /\ Merging!Idle.at = "idle" /\ Merging!Idle.records = {}
  BY DEF Shaped, Merging!Idle
<1>5. CyclesKnown'
  BY <1>1, <1>2, <1>3, <1>4 DEF OutcomesInv, CyclesKnown
<1>6. Live
  BY <1>1 DEF OutcomesInv, Doubt
<1>7. Live'
  BY <1>1, <1>2, <1>4, <1>6 DEF Live, Merging!Stale
<1>8. OnDisk'
  BY <1>1 DEF OnDisk, Merging!Stale
<1>9. ClearIsOld'
  BY <1>2, <1>4 DEF ClearIsOld, OutcomesInv
<1> QED
  BY <1>5, <1>7, <1>8, <1>9 DEF OutcomesInv, Doubt

LEMMA OutcomesKeep ==
    ASSUME OutcomesInv, [Merging!Next]_outcomeVars
    PROVE  OutcomesInv'
<1>1. CASE Merging!GitHub
  <2>1. reader' = reader /\ cycle' = cycle /\ stored' = stored /\ clearing' = clearing /\ torn' = torn
    BY <1>1 DEF Merging!GitHub
  <2> QED
    BY <2>1 DEF OutcomesInv, CyclesKnown, Doubt, Clearing, Live, OnDisk, ClearIsOld
<1>2. CASE Merging!ServiceForgets
  <2>1. clearing' /\ Merging!reset(cycle) /\ DOMAIN cycle = Cycles /\ \A c \in Cycles : Shaped(cycle[c])
    BY <1>2 DEF Merging!ServiceForgets, OutcomesInv, CyclesKnown
  <2> QED
    BY <2>1, ResetKeeps
<1>3. CASE Merging!Clears
  BY <1>3, ClearsKeep
<1>4. CASE Merging!Restart
  <2>1. /\ reader' = [Merging!Reader EXCEPT !.records = stored] /\ torn' = Merging!Stale(stored) /\ ~clearing'
        /\ cycle' = [c \in Cycles |-> Merging!Idle] /\ stored' = stored
    BY <1>4 DEF Merging!Restart
  <2>2. Shaped(Merging!Idle) /\ Merging!Idle.at = "idle" /\ Merging!Idle.records = {}
    BY DEF Shaped, Merging!Idle
  <2>3. reader' = [records |-> reader'.records, jobs |-> reader'.jobs] /\ reader'.records = stored
    BY <2>1 DEF Merging!Reader
  <2>4. CyclesKnown'
    BY <2>1, <2>2, <2>3 DEF CyclesKnown
  <2>5. Doubt'
    <3>1. ~Clearing'
      BY <2>1, <2>2 DEF Clearing
    <3>2. ~torn' => ~Merging!Stale(stored)
      BY <2>1
    <3>3. ~Merging!Stale(stored) => Live'
      BY <2>1, <2>2, <2>3 DEF Live, Merging!Stale
    <3> QED
      BY <3>1, <3>2, <3>3 DEF Doubt
  <2>6. OnDisk'
    BY <2>1 DEF OnDisk, Merging!Stale
  <2>7. ClearIsOld'
    BY <2>1, <2>2 DEF ClearIsOld
  <2> QED
    BY <2>4, <2>5, <2>6, <2>7 DEF OutcomesInv
<1>5. ASSUME NEW c \in Cycles, Merging!CycleStep(c) PROVE OutcomesInv'
  <2>1. CASE Merging!CycleForgets(c)
    <3> DEFINE cycles == [cycle EXCEPT ![c].at = "clear"]
    <3>1. DOMAIN cycle = Cycles /\ \A d \in Cycles : Shaped(cycle[d])
      BY DEF OutcomesInv, CyclesKnown
    <3>2. DOMAIN cycles = Cycles /\ cycles[c].at = "clear" /\ \A d \in Cycles : Shaped(cycles[d])
      BY <3>1 DEF Shaped
    <3>3. Merging!reset(cycles)
      BY <2>1 DEF Merging!CycleForgets
    <3> HIDE DEF cycles
    <3> QED
      BY <3>2, <3>3, ResetKeeps
  <2> QED
    BY <1>5, <2>1, ReadsKeep, EndsKeep, StoreKeeps DEF Merging!CycleStep
<1>6. CASE UNCHANGED outcomeVars
  BY <1>6 DEF outcomeVars, OutcomesInv, CyclesKnown, Doubt, Clearing, Live, OnDisk, ClearIsOld
<1> QED
  BY <1>1, <1>2, <1>3, <1>4, <1>5, <1>6 DEF Merging!Next

\* What lost access made the dashboard forget is served no more, and is on disk only while someone is about to delete
\* it (outcomes.py, _cycle, reset): for any pull requests, cycles at a time, budget of calls, losses and restarts,
\* unless the process ended between the forgetting and the deletion.
THEOREM ForgettingHolds == Merging!Spec => []OutcomesForgotten
<1>1. OutcomesInv => OutcomesForgotten
  BY DEF OutcomesInv, Doubt, Live, OnDisk, OutcomesForgotten, Merging!OutcomesForgotten
<1>2. OutcomesInv /\ [Merging!Next]_Merging!outcomeVars => OutcomesInv'
  BY OutcomesKeep DEF outcomeVars, Merging!outcomeVars
<1> QED
  BY <1>1, <1>2, OutcomesStart, PTL DEF Merging!Spec

----------------------------------------------------------------------------
(* Sequences, and orders on finite sets *)

IsSeq(s) == \E S : s \in Seq(S)

LEMMA SeqDomain == ASSUME NEW s, IsSeq(s) PROVE Len(s) \in Nat /\ DOMAIN s = 1..Len(s)
<1>1. PICK S : s \in Seq(S)
  BY DEF IsSeq
<1> QED
  BY <1>1

LEMMA Appended ==
    ASSUME NEW s, IsSeq(s), NEW e
    PROVE  /\ IsSeq(Append(s, e)) /\ Len(Append(s, e)) = Len(s) + 1
           /\ \A i \in 1..Len(s) : Append(s, e)[i] = s[i]
           /\ Append(s, e)[Len(s) + 1] = e
<1>1. PICK S : s \in Seq(S)
  BY DEF IsSeq
<1>2. s \in Seq(S \cup {e}) /\ e \in S \cup {e}
  BY <1>1
<1>3. Append(s, e) \in Seq(S \cup {e})
  BY <1>2
<1> QED
  BY <1>2, <1>3 DEF IsSeq

\* A finite set has one after which, in a strict order, none of it comes: the sets of
\* what comes after are finite, well-founded under strict inclusion.
LEMMA Extreme ==
    ASSUME NEW S, IsFiniteSet(S), S # {}, NEW R,
           \A x \in S : <<x, x>> \notin R,
           \A x, y, z \in S : <<x, y>> \in R /\ <<y, z>> \in R => <<x, z>> \in R
    PROVE  \E x \in S : \A s \in S : <<x, s>> \notin R
<1> DEFINE After(x) == {s \in S : <<x, s>> \in R}
           T == {After(x) : x \in S}
<1>2. \A x \in S : After(x) \in FiniteSubsetsOf(S)
  BY FS_Subset DEF FiniteSubsetsOf
<1>3. T \subseteq FiniteSubsetsOf(S) /\ T # {}
  <2>1. PICK x \in S : TRUE
    OBVIOUS
  <2>2. After(x) \in T
    BY <2>1
  <2>3. \A X \in T : \E y \in S : X = After(y)
    OBVIOUS
  <2> HIDE DEF T, After
  <2> QED
    BY <1>2, <2>2, <2>3
<1>4. PICK X \in T : \A Y \in T : ~ (<<Y, X>> \in StrictSubsetOrdering(S))
  <2>1. IsWellFoundedOn(StrictSubsetOrdering(S), FiniteSubsetsOf(S))
    BY FS_StrictSubsetOrderingWellFounded
  <2> HIDE DEF T
  <2> QED
    BY <1>3, <2>1, WFMin
<1>5. PICK x \in S : X = After(x)
  BY <1>4
<1>6. ASSUME NEW s \in S, <<x, s>> \in R PROVE FALSE
  <2>1. After(s) \subseteq After(x) /\ s \in After(x) /\ s \notin After(s)
    BY <1>6
  <2>2. <<After(s), After(x)>> \in StrictSubsetOrdering(S)
    BY <2>1 DEF StrictSubsetOrdering
  <2>3. After(s) \in T
    OBVIOUS
  <2> QED
    BY <1>4, <1>5, <2>2, <2>3
<1> QED
  BY <1>6

\* A finite set of numbers has a least and a greatest.
LEMMA Extremes ==
    ASSUME NEW S \in SUBSET Nat, IsFiniteSet(S), S # {}
    PROVE  (\E x \in S : \A s \in S : x <= s) /\ (\E x \in S : \A s \in S : s <= x)
<1> DEFINE Less == {pair \in S \X S : pair[2] < pair[1]}
           More == {pair \in S \X S : pair[1] < pair[2]}
<1>1. \A x, y \in S : (<<x, y>> \in Less <=> y < x) /\ (<<x, y>> \in More <=> x < y)
  OBVIOUS
<1>2. (\A x \in S : <<x, x>> \notin Less) /\ (\A x \in S : <<x, x>> \notin More)
  BY <1>1
<1>3. \A x, y, z \in S : <<x, y>> \in Less /\ <<y, z>> \in Less => <<x, z>> \in Less
  BY <1>1
<1>4. \A x, y, z \in S : <<x, y>> \in More /\ <<y, z>> \in More => <<x, z>> \in More
  BY <1>1
<1> HIDE DEF Less, More
<1>5. PICK x \in S : \A s \in S : <<x, s>> \notin Less
  BY <1>2, <1>3, Extreme
<1>6. PICK y \in S : \A s \in S : <<y, s>> \notin More
  BY <1>2, <1>4, Extreme
<1>7. \A s \in S : ~(s < x) /\ ~(y < s) /\ s \in Nat
  BY <1>1, <1>5, <1>6
<1>8. \A s \in S : x <= s /\ s <= y
  BY <1>7
<1> QED
  BY <1>8

----------------------------------------------------------------------------
(* The address of a preview *)

CheckFields == {"name", "state", "at", "records", "done", "tries"}
WaitFields ==
  {"at", "name", "lines", "unread", "failed", "polls", "skipped", "running", "answered", "passed", "code", "address", "database"}

Checks == 1..Len(checkRuns)
Runs(r) == checkRuns[r].state # "skipped"
Link(context, r) == [context |-> context, link |-> r]
Both == Address!record(TRUE)

\* A status of a run is there for each record it has made.
Posted(r) ==
  \A j \in 1..checkRuns[r].done : \E i \in 1..Len(statuses) : statuses[i] = Link(checkRuns[r].records[j], r)

ChecksOf ==
  /\ IsSeq(checkRuns)
  /\ \A r \in Checks :
       /\ DOMAIN checkRuns[r] = CheckFields
       /\ checkRuns[r].records \in {<<>>, Address!record(FALSE), Both}
       /\ checkRuns[r].done \in 0..Len(checkRuns[r].records)
       /\ checkRuns[r].state = "success" => checkRuns[r].done = Len(checkRuns[r].records)
       /\ Posted(r)

\* An address of a run that has a database comes after that is recorded.
StatusesOf ==
  /\ IsSeq(statuses)
  /\ \A i \in 1..Len(statuses) :
       /\ statuses[i] = Link(statuses[i].context, statuses[i].link)
       /\ statuses[i].link \in Checks
       /\ statuses[i].context = "address" /\ checkRuns[statuses[i].link].records = Both
            => checkRuns[statuses[i].link].done >= 1

\* What a poll read of a run is still true of it when it passed, and was a run to wait for when it was not skipped.
LineHolds(line) ==
  /\ line.state \in {"success", "queued", "in_progress"} => line.run \in Checks /\ Runs(line.run)
  /\ line.state = "success" => checkRuns[line.run].state = "success"

Awaited(answered) == answered \in {"queued", "in_progress"} => \E r \in Checks : Runs(r)
PassedOf(passed) == passed # 0 => passed \in Checks /\ checkRuns[passed].state = "success"

\* Before its end the finder has a pass exactly when it goes for the statuses; what it ends with is proved.
WaitIs(w) ==
  /\ DOMAIN w = WaitFields
  /\ \A line \in w.lines : LineHolds(line)
  /\ Awaited(w.answered)
  /\ PassedOf(w.passed)
  /\ w.at = "statuses" => w.passed # 0
  /\ w.at = "poll" => w.passed = 0

AddressInv == ChecksOf /\ StatusesOf /\ WaitIs(wait) /\ PreviewIsProved

LEMMA AddressStart == Address!Init => AddressInv
<1> SUFFICES ASSUME Address!Init PROVE AddressInv
  OBVIOUS
<1>1. checkRuns \in Seq({}) /\ statuses \in Seq({}) /\ Len(checkRuns) = 0 /\ Len(statuses) = 0
  BY DEF Address!Init
<1>2. IsSeq(checkRuns) /\ IsSeq(statuses)
  BY <1>1 DEF IsSeq
<1>3. /\ DOMAIN wait = WaitFields /\ wait.at = "poll" /\ wait.lines = {} /\ wait.answered = "none" /\ wait.passed = 0
  BY DEF Address!Init, WaitFields
<1>4. ChecksOf /\ StatusesOf
  BY <1>1, <1>2 DEF ChecksOf, StatusesOf, Checks
<1>5. WaitIs(wait) /\ PreviewIsProved
  BY <1>3 DEF WaitIs, Awaited, PassedOf, PreviewIsProved, Address!PreviewIsProved
<1> QED
  BY <1>4, <1>5 DEF AddressInv

\* Until the finder ends, a new check run leaves all it knows true.
LEMMA RunMadeKeeps ==
    ASSUME AddressInv, wait.at # "done", NEW state \in {"queued", "skipped"},
           NEW records \in {<<>>} \cup {Address!record(database) : database \in Databases}, Address!RunMade(state, records)
    PROVE  AddressInv'
<1>1. UNCHANGED <<statuses, wait>> /\ \E name, at :
        checkRuns' = Append(checkRuns, [name |-> name, state |-> state, at |-> at, records |-> records, done |-> 0, tries |-> Writes])
  BY DEF Address!RunMade
<1>2. PICK name, at :
        checkRuns' = Append(checkRuns, [name |-> name, state |-> state, at |-> at, records |-> records, done |-> 0, tries |-> Writes])
  BY <1>1
<1> DEFINE check == [name |-> name, state |-> state, at |-> at, records |-> records, done |-> 0, tries |-> Writes]
<1>3. /\ DOMAIN check = CheckFields /\ check.records = records /\ check.done = 0 /\ check.state # "success"
  BY DEF CheckFields
<1>4. checkRuns' = Append(checkRuns, check)
  BY <1>2
<1> HIDE DEF check
<1>5. IsSeq(checkRuns) /\ Len(checkRuns) \in Nat
  BY SeqDomain DEF AddressInv, ChecksOf
<1>6. /\ IsSeq(checkRuns') /\ Len(checkRuns') = Len(checkRuns) + 1
      /\ \A r \in Checks : checkRuns'[r] = checkRuns[r]
      /\ checkRuns'[Len(checkRuns) + 1] = check
  BY <1>4, <1>5, Appended DEF Checks
<1>7. Checks \subseteq Checks' /\ \A r \in Checks' : r \in Checks \/ r = Len(checkRuns) + 1
  BY <1>5, <1>6 DEF Checks
<1>8. records \in {<<>>, Address!record(FALSE), Both}
  BY DatabasesAssumption DEF Both
<1>9. ChecksOf'
  <2>1. 0 \in 0..Len(records)
    BY <1>8 DEF Both, Address!record
  <2>2. \A r \in Checks : Posted(r)'
    BY <1>1, <1>6 DEF AddressInv, ChecksOf, Posted
  <2>3. ASSUME NEW r, r = Len(checkRuns) + 1 PROVE Posted(r)'
    BY <1>3, <1>6, <2>3 DEF Posted
  <2>4. Both' = Both /\ Address!record(FALSE)' = Address!record(FALSE)
    BY DEF Both, Address!record
  <2> QED
    BY <1>3, <1>6, <1>7, <1>8, <2>1, <2>2, <2>3, <2>4 DEF AddressInv, ChecksOf
<1>10. StatusesOf'
  BY <1>1, <1>6, <1>7 DEF AddressInv, StatusesOf, Link, Both, Address!record
<1>11. WaitIs(wait)'
  BY <1>1, <1>6, <1>7 DEF AddressInv, WaitIs, LineHolds, Awaited, PassedOf, Runs
<1>12. PreviewIsProved'
  BY <1>1 DEF PreviewIsProved, Address!PreviewIsProved
<1> QED
  BY <1>9, <1>10, <1>11, <1>12 DEF AddressInv

\* A check run goes on: it may end or post what it records next, in their order.
LEMMA CheckGoes ==
    ASSUME AddressInv, wait.at # "done", UNCHANGED wait, NEW r \in Checks, NEW check, checkRuns' = [checkRuns EXCEPT ![r] = check],
           DOMAIN check = CheckFields, check.records = checkRuns[r].records,
           checkRuns[r].state \notin {"success", "skipped"}, check.state # "skipped",
           check.done \in 0..Len(check.records), checkRuns[r].done <= check.done,
           check.state = "success" => check.done = Len(check.records),
           IsSeq(statuses'), Len(statuses') \in Nat, Len(statuses) \in Nat, Len(statuses) <= Len(statuses'),
           \A i \in 1..Len(statuses) : statuses'[i] = statuses[i],
           \A i \in 1..Len(statuses') : ~(i <= Len(statuses)) =>
             checkRuns[r].done < Len(check.records) /\ statuses'[i] = Link(check.records[checkRuns[r].done + 1], r),
           \A j \in 1..check.done : ~(j <= checkRuns[r].done) =>
             \E i \in 1..Len(statuses') : statuses'[i] = Link(check.records[j], r)
    PROVE  AddressInv'
<1>1. /\ IsSeq(checkRuns) /\ DOMAIN checkRuns = Checks /\ Len(checkRuns) \in Nat
      /\ checkRuns[r].records \in {<<>>, Address!record(FALSE), Both}
      /\ checkRuns[r].done \in 0..Len(checkRuns[r].records)
  BY SeqDomain DEF AddressInv, ChecksOf, Checks
<1>2. /\ IsSeq(checkRuns') /\ Len(checkRuns') = Len(checkRuns) /\ Checks' = Checks
      /\ \A q \in Checks : checkRuns'[q] = IF q = r THEN check ELSE checkRuns[q]
  <2>1. PICK S : checkRuns \in Seq(S)
    BY <1>1 DEF IsSeq
  <2>2. checkRuns \in Seq(S \cup {check}) /\ check \in S \cup {check}
    BY <2>1
  <2>3. checkRuns' \in Seq(S \cup {check}) /\ Len(checkRuns') = Len(checkRuns)
    BY <1>1, <2>2 DEF Checks
  <2>4. \A q \in Checks : checkRuns'[q] = IF q = r THEN check ELSE checkRuns[q]
    BY <1>1
  <2> QED
    BY <2>3, <2>4 DEF IsSeq, Checks
<1>3. Both' = Both /\ Address!record(FALSE)' = Address!record(FALSE)
  BY DEF Both, Address!record
<1>4. \A q \in Checks : Posted(q)'
  <2> SUFFICES ASSUME NEW q \in Checks, NEW j \in 1..checkRuns'[q].done
               PROVE  \E i \in 1..Len(statuses') : statuses'[i] = Link(checkRuns'[q].records[j], q)
    BY DEF Posted, Link
  <2>1. checkRuns'[q].records = checkRuns[q].records
    BY <1>2
  <2>2. CASE j \in 1..checkRuns[q].done
    <3>1. PICK i \in 1..Len(statuses) : statuses[i] = Link(checkRuns[q].records[j], q)
      BY <2>2 DEF AddressInv, ChecksOf, Posted
    <3>2. i \in 1..Len(statuses') /\ statuses'[i] = statuses[i]
      BY <3>1
    <3> QED
      BY <2>1, <3>1, <3>2
  <2>3. CASE j \notin 1..checkRuns[q].done
    <3>1. q = r
      BY <1>2, <2>3
    <3>2. j \in 1..check.done /\ ~(j <= checkRuns[r].done)
      BY <1>1, <1>2, <2>3, <3>1
    <3>3. \E i \in 1..Len(statuses') : statuses'[i] = Link(check.records[j], r)
      BY <3>2
    <3> QED
      BY <1>2, <3>1, <3>3
  <2> QED
    BY <2>2, <2>3
<1>5. ChecksOf'
  <2> SUFFICES ASSUME NEW q \in Checks
               PROVE  /\ DOMAIN checkRuns'[q] = CheckFields
                      /\ checkRuns'[q].records \in {<<>>, Address!record(FALSE), Both}
                      /\ checkRuns'[q].done \in 0..Len(checkRuns'[q].records)
                      /\ checkRuns'[q].state = "success" => checkRuns'[q].done = Len(checkRuns'[q].records)
    BY <1>2, <1>3, <1>4 DEF ChecksOf
  <2> QED
    BY <1>1, <1>2 DEF AddressInv, ChecksOf
<1>6. StatusesOf'
  <2> SUFFICES ASSUME NEW i \in 1..Len(statuses')
               PROVE  /\ statuses'[i] = Link(statuses'[i].context, statuses'[i].link)
                      /\ statuses'[i].link \in Checks
                      /\ statuses'[i].context = "address" /\ checkRuns'[statuses'[i].link].records = Both
                           => checkRuns'[statuses'[i].link].done >= 1
    BY <1>2, <1>3 DEF StatusesOf, Link
  <2>1. CASE i <= Len(statuses)
    <3>1. i \in 1..Len(statuses) /\ statuses'[i] = statuses[i]
      BY <2>1
    <3>2. /\ statuses[i] = Link(statuses[i].context, statuses[i].link) /\ statuses[i].link \in Checks
          /\ statuses[i].context = "address" /\ checkRuns[statuses[i].link].records = Both
                => checkRuns[statuses[i].link].done >= 1
      BY <3>1 DEF AddressInv, StatusesOf
    <3>3. CASE statuses[i].link = r
      BY <1>1, <1>2, <3>1, <3>2, <3>3
    <3>4. CASE statuses[i].link # r
      BY <1>2, <3>1, <3>2, <3>4
    <3> QED
      BY <3>3, <3>4
  <2>2. CASE ~(i <= Len(statuses))
    <3>1. statuses'[i] = Link(check.records[checkRuns[r].done + 1], r)
      BY <2>2
    <3>2. statuses'[i].link = r /\ statuses'[i].context = check.records[checkRuns[r].done + 1]
      BY <3>1 DEF Link
    <3>3. check.records = Both /\ check.records[checkRuns[r].done + 1] = "address" => checkRuns[r].done >= 1
      <4>1. Both[1] = "database"
        BY DEF Both, Address!record
      <4> QED
        BY <1>1, <4>1
    <3>4. check.done \in Int /\ checkRuns[r].done \in Int
      BY <1>1
    <3> QED
      BY <1>2, <3>1, <3>2, <3>3, <3>4
  <2> QED
    BY <2>1, <2>2
<1>7. WaitIs(wait)'
  <2>1. \A q \in Checks : (Runs(q) => Runs(q)') /\ (checkRuns[q].state = "success" => checkRuns'[q].state = "success")
    BY <1>2 DEF Runs
  <2>2. \A line : LineHolds(line) => LineHolds(line)'
    BY <1>2, <2>1 DEF LineHolds
  <2>3. Awaited(wait.answered)' /\ PassedOf(wait.passed)'
    BY <1>2, <2>1 DEF AddressInv, WaitIs, Awaited, PassedOf
  <2> QED
    BY <2>2, <2>3 DEF AddressInv, WaitIs
<1>8. PreviewIsProved'
  BY DEF PreviewIsProved, Address!PreviewIsProved
<1> QED
  BY <1>5, <1>6, <1>7, <1>8 DEF AddressInv

\* A check run goes on and posts nothing.
LEMMA CheckStates ==
    ASSUME AddressInv, wait.at # "done", UNCHANGED <<statuses, wait>>, NEW r \in DOMAIN checkRuns, NEW check,
           checkRuns' = [checkRuns EXCEPT ![r] = check],
           DOMAIN check = CheckFields, check.records = checkRuns[r].records, check.done = checkRuns[r].done,
           checkRuns[r].state \notin {"success", "skipped"}, check.state # "skipped",
           check.state = "success" => check.done = Len(check.records)
    PROVE  AddressInv'
<1>1. r \in Checks
  BY SeqDomain DEF AddressInv, ChecksOf, Checks
<1>2. checkRuns[r].done \in 0..Len(checkRuns[r].records)
  BY <1>1 DEF AddressInv, ChecksOf
<1>3. check.done \in 0..Len(check.records) /\ checkRuns[r].done <= check.done
  BY <1>2
<1>4. /\ IsSeq(statuses') /\ Len(statuses') \in Nat /\ Len(statuses) \in Nat /\ Len(statuses) <= Len(statuses')
      /\ \A i \in 1..Len(statuses) : statuses'[i] = statuses[i]
  BY SeqDomain DEF AddressInv, StatusesOf
<1>5. \A i \in 1..Len(statuses') : i <= Len(statuses)
  BY <1>4
<1>6. \A j \in 1..check.done : j <= checkRuns[r].done
  BY <1>2
<1> QED
  BY <1>1, <1>3, <1>4, <1>5, <1>6, CheckGoes

LEMMA RunStartsKeeps == ASSUME AddressInv, wait.at # "done", NEW r \in DOMAIN checkRuns, Address!RunStarts(r) PROVE AddressInv'
<1> DEFINE check == [checkRuns[r] EXCEPT !.state = "in_progress", !.at = Address!Stamp]
<1>1. UNCHANGED <<statuses, wait>> /\ checkRuns[r].state = "queued" /\ checkRuns' = [checkRuns EXCEPT ![r] = check]
  BY DEF Address!RunStarts
<1>2. DOMAIN checkRuns[r] = CheckFields
  BY SeqDomain DEF AddressInv, ChecksOf, Checks
<1>3. /\ DOMAIN check = CheckFields /\ check.records = checkRuns[r].records /\ check.done = checkRuns[r].done
      /\ check.state = "in_progress"
  BY <1>2 DEF CheckFields
<1> HIDE DEF check
<1> QED
  BY <1>1, <1>3, CheckStates

LEMMA RunEndsKeeps ==
    ASSUME AddressInv, wait.at # "done", NEW r \in DOMAIN checkRuns, NEW state \in {"success", "failure"}, Address!RunEnds(r, state)
    PROVE  AddressInv'
<1> DEFINE check == [checkRuns[r] EXCEPT !.state = state]
<1>1. /\ UNCHANGED <<statuses, wait>> /\ checkRuns[r].state = "in_progress"
      /\ state = "success" => checkRuns[r].done = Len(checkRuns[r].records)
  BY DEF Address!RunEnds
<1>2. DOMAIN checkRuns[r] = CheckFields
  BY SeqDomain DEF AddressInv, ChecksOf, Checks
<1>3. checkRuns' = [checkRuns EXCEPT ![r] = check]
  BY DEF Address!RunEnds
<1>4. /\ DOMAIN check = CheckFields /\ check.records = checkRuns[r].records /\ check.done = checkRuns[r].done
      /\ check.state = state
  BY <1>2 DEF CheckFields
<1> HIDE DEF check
<1> QED
  BY <1>1, <1>3, <1>4, CheckStates

LEMMA WritesKeep ==
    ASSUME AddressInv, wait.at # "done", NEW r \in DOMAIN checkRuns, NEW made \in BOOLEAN, NEW answered \in BOOLEAN,
           Address!write_status(r, made, answered)
    PROVE  AddressInv'
<1> DEFINE old == checkRuns[r]
           check == CASE answered -> [old EXCEPT !.done = old.done + 1, !.tries = Writes]
                      [] ~answered /\ old.tries > 1 -> [old EXCEPT !.tries = old.tries - 1]
                      [] OTHER -> [old EXCEPT !.state = "failure"]
           status == Link(old.records[old.done + 1], r)
<1>1. /\ UNCHANGED wait /\ old.state = "in_progress" /\ old.done < Len(old.records) /\ (answered => made)
      /\ statuses' = IF made THEN Append(statuses, status) ELSE statuses
      /\ checkRuns' = [checkRuns EXCEPT ![r] = check]
  BY DEF Address!write_status, Link
<1>2. r \in Checks
  BY SeqDomain DEF AddressInv, ChecksOf, Checks
<1>3. /\ DOMAIN old = CheckFields /\ old.done \in 0..Len(old.records)
      /\ old.records \in {<<>>, Address!record(FALSE), Both}
  BY <1>2 DEF AddressInv, ChecksOf
<1>4. /\ DOMAIN check = CheckFields /\ check.records = old.records /\ check.state \in {"in_progress", "failure"}
      /\ check.done = IF answered THEN old.done + 1 ELSE old.done
  <2>1. CASE answered
    BY <1>1, <1>3, <2>1 DEF CheckFields
  <2>2. CASE ~answered /\ old.tries > 1
    BY <1>1, <1>3, <2>2 DEF CheckFields
  <2>3. CASE ~answered /\ ~(old.tries > 1)
    BY <1>1, <1>3, <2>3 DEF CheckFields
  <2> QED
    BY <2>1, <2>2, <2>3
<1>5. Len(old.records) \in Nat
  BY <1>3 DEF Both, Address!record
<1>6. IsSeq(statuses) /\ Len(statuses) \in Nat
  BY SeqDomain DEF AddressInv, StatusesOf
<1> HIDE DEF check, status
<1>7. /\ IsSeq(statuses') /\ Len(statuses') \in Nat /\ Len(statuses) <= Len(statuses')
      /\ \A i \in 1..Len(statuses) : statuses'[i] = statuses[i]
      /\ \A i \in 1..Len(statuses') : ~(i <= Len(statuses)) => statuses'[i] = status
      /\ made => Len(statuses) + 1 \in 1..Len(statuses') /\ statuses'[Len(statuses) + 1] = status
  <2>1. CASE made
    <3>1. /\ IsSeq(statuses') /\ Len(statuses') = Len(statuses) + 1
          /\ \A i \in 1..Len(statuses) : statuses'[i] = statuses[i]
          /\ statuses'[Len(statuses) + 1] = status
      BY <1>1, <1>6, <2>1, Appended
    <3>2. \A i \in 1..Len(statuses') : ~(i <= Len(statuses)) => i = Len(statuses) + 1
      BY <1>6, <3>1
    <3> QED
      BY <1>6, <3>1, <3>2
  <2>2. CASE ~made
    BY <1>1, <1>6, <2>2
  <2> QED
    BY <2>1, <2>2
<1>8. check.done \in 0..Len(check.records) /\ old.done <= check.done
  BY <1>1, <1>3, <1>4, <1>5
<1>9. \A j \in 1..check.done : ~(j <= old.done) => \E i \in 1..Len(statuses') : statuses'[i] = Link(check.records[j], r)
  <2> SUFFICES ASSUME NEW j \in 1..check.done, ~(j <= old.done)
               PROVE  \E i \in 1..Len(statuses') : statuses'[i] = Link(check.records[j], r)
    OBVIOUS
  <2>1. answered /\ j = old.done + 1
    BY <1>3, <1>4
  <2> QED
    BY <1>1, <1>4, <1>7, <2>1 DEF status
<1>10. \A i \in 1..Len(statuses') : ~(i <= Len(statuses)) =>
         old.done < Len(check.records) /\ statuses'[i] = Link(check.records[old.done + 1], r)
  BY <1>1, <1>4, <1>7 DEF status
<1> QED
  BY <1>1, <1>2, <1>4, <1>6, <1>7, <1>8, <1>9, <1>10, CheckGoes

\* What a poll's last line decides with: a run it read, or that there was none.
LEMMA NewestHolds ==
    ASSUME NEW lines, \A line \in lines : LineHolds(line), NEW newest \in Address!newest_run(lines)
    PROVE  LineHolds(newest)
<1> DEFINE real == {line \in lines : line.state # "skipped"}
           none == [run |-> 0, at |-> 0, state |-> IF lines = {} THEN "none" ELSE "only skipped"]
<1>1. newest \in real \/ newest = none
  BY DEF Address!newest_run
<1>2. LineHolds(none)
  BY DEF LineHolds
<1> QED
  BY <1>1, <1>2

\* The finder goes on from a poll with what holds, or ends without an address.
Onward(w) ==
  /\ WaitIs(w)
  /\ w.at = "done" => w.passed = 0 /\ w.code # 0 /\ (w.code = 3 => \E r \in Checks : Runs(r))

LEMMA Ended ==
    ASSUME WaitIs(wait), wait.at = "poll", NEW code \in {1, 2}
    PROVE  Onward(Address!Exits(code))
<1> DEFINE w == Address!Exits(code)
<1>1. /\ DOMAIN w = WaitFields /\ w.lines = wait.lines /\ w.answered = wait.answered /\ w.passed = wait.passed
      /\ w.at = "done" /\ w.code = code
  BY DEF WaitIs, WaitFields, Address!Exits
<1> HIDE DEF w
<1>2. w.passed = 0
  BY <1>1 DEF WaitIs
<1>3. WaitIs(w)
  BY <1>1 DEF WaitIs
<1>4. code # 0 /\ code # 3
  OBVIOUS
<1>5. Onward(w)
  BY <1>1, <1>2, <1>3, <1>4 DEF Onward
<1> QED
  BY <1>5 DEF w

LEMMA PollGoes ==
    ASSUME WaitIs(wait), wait.at = "poll", NEW line, LineHolds(line)
    PROVE  Onward(Address!wait_for_check(line))
<1> DEFINE answered == IF line.state = "unread" THEN wait.answered ELSE line.state
           polled == [wait EXCEPT !.name = 1, !.lines = {}, !.unread = FALSE, !.polls = wait.polls + 1, !.answered = answered,
                                  !.skipped = wait.skipped + (IF line.state = "only skipped" THEN 1 ELSE 0),
                                  !.running = wait.running + (IF line.state = "in_progress" THEN 1 ELSE 0)]
           failing == \/ line.state = "failure"
                      \/ line.state = "only skipped" /\ polled.skipped >= SkippedPolls
                      \/ line.state = "in_progress" /\ polled.running > RunningPolls
<1>1. Awaited(answered)
  BY DEF WaitIs, LineHolds, Awaited
<1>2. /\ DOMAIN polled = WaitFields /\ polled.lines = {} /\ polled.answered = answered /\ polled.passed = wait.passed
      /\ polled.at = "poll"
  BY DEF WaitIs, WaitFields
<1>3. \/ line.state = "success" /\ Address!wait_for_check(line) = [polled EXCEPT !.at = "statuses", !.passed = line.run]
      \/ Address!wait_for_check(line) = Address!Exits(1)
      \/ Address!wait_for_check(line) = [polled EXCEPT !.at = "done", !.code = Address!wait_ended_code(answered)]
      \/ Address!wait_for_check(line) = polled
  <2>1. Address!wait_for_check(line) =
          CASE line.state = "success" -> [polled EXCEPT !.at = "statuses", !.passed = line.run]
            [] failing -> Address!Exits(1)
            [] polled.polls = WaitPolls -> [polled EXCEPT !.at = "done", !.code = Address!wait_ended_code(answered)]
            [] OTHER -> polled
    BY DEF Address!wait_for_check
  <2> HIDE DEF polled, answered, failing
  <2>2. CASE line.state = "success"
    <3>1. ~failing
      BY <2>2 DEF failing
    <3> QED
      BY <2>1, <2>2, <3>1
  <2> QED
    BY <2>1, <2>2
<1> HIDE DEF polled, answered
<1>4. CASE line.state = "success" /\ Address!wait_for_check(line) = [polled EXCEPT !.at = "statuses", !.passed = line.run]
  <2> DEFINE w == [polled EXCEPT !.at = "statuses", !.passed = line.run]
  <2>1. /\ DOMAIN w = WaitFields /\ w.lines = {} /\ w.answered = answered /\ w.passed = line.run /\ w.at = "statuses"
    BY <1>2 DEF WaitFields
  <2>2. line.run \in Checks /\ checkRuns[line.run].state = "success" /\ line.run # 0
    BY <1>4 DEF LineHolds, Checks
  <2> HIDE DEF w
  <2>3. WaitIs(w)
    BY <1>1, <2>1, <2>2 DEF WaitIs, PassedOf
  <2> QED
    BY <1>4, <2>1, <2>3 DEF Onward, w
<1>5. CASE Address!wait_for_check(line) = Address!Exits(1)
  BY <1>5, Ended
<1>6. CASE Address!wait_for_check(line) = [polled EXCEPT !.at = "done", !.code = Address!wait_ended_code(answered)]
  <2> DEFINE w == [polled EXCEPT !.at = "done", !.code = Address!wait_ended_code(answered)]
  <2>1. /\ DOMAIN w = WaitFields /\ w.lines = {} /\ w.answered = answered /\ w.passed = wait.passed /\ w.at = "done"
        /\ w.code = Address!wait_ended_code(answered)
    BY <1>2 DEF WaitFields
  <2>2. w.code # 0 /\ (w.code = 3 => \E r \in Checks : Runs(r))
    BY <1>1, <2>1 DEF Address!wait_ended_code, Awaited
  <2> HIDE DEF w
  <2>3. WaitIs(w)
    BY <1>1, <2>1 DEF WaitIs
  <2>4. w.passed = 0
    BY <2>1 DEF WaitIs
  <2> QED
    BY <1>6, <2>1, <2>2, <2>3, <2>4 DEF Onward, w
<1>7. CASE Address!wait_for_check(line) = polled
  BY <1>1, <1>2, <1>7 DEF Onward, WaitIs
<1> QED
  BY <1>3, <1>4, <1>5, <1>6, <1>7

\* A failed read changes only how many failed.
LEMMA FailedRead ==
    ASSUME NEW w, Onward(w), NEW failed
    PROVE  Onward([w EXCEPT !.failed = failed])
<1> DEFINE v == [w EXCEPT !.failed = failed]
<1>1. /\ DOMAIN v = WaitFields /\ v.lines = w.lines /\ v.answered = w.answered /\ v.passed = w.passed /\ v.at = w.at
      /\ v.code = w.code
  BY DEF Onward, WaitIs, WaitFields
<1> HIDE DEF v
<1>2. Onward(v)
  BY <1>1 DEF Onward, WaitIs
<1> QED
  BY <1>2 DEF v

LEMMA PollKeeps == ASSUME AddressInv, Address!read_verdict PROVE AddressInv'
<1> DEFINE read == {[run |-> r, at |-> checkRuns[r].at, state |-> checkRuns[r].state] :
                      r \in {q \in Address!Made : checkRuns[q].name = Names[wait.name]}}
           lines == wait.lines \cup read
           next == [wait EXCEPT !.name = wait.name + 1, !.unread = TRUE]
           reading == [wait EXCEPT !.name = wait.name + 1, !.lines = lines]
<1>1. /\ wait.at = "poll" /\ UNCHANGED <<checkRuns, statuses>>
      /\ \/ Address!GivesUp
         \/ Address!Fails(IF Address!LastName THEN Address!wait_for_check(Address!Unread) ELSE next)
         \/ wait' = reading
         \/ wait' = Address!wait_for_check(Address!Unread)
         \/ \E line \in Address!newest_run(lines) : wait' = [Address!wait_for_check(line) EXCEPT !.failed = 0]
  BY DEF Address!read_verdict
<1>2. WaitIs(wait)
  BY DEF AddressInv
<1>3. \A line \in lines : LineHolds(line)
  <2>1. \A r \in Address!Made : r \in Checks
    BY SeqDomain DEF AddressInv, ChecksOf, Checks, Address!Made
  <2>2. \A line \in read : LineHolds(line)
    BY <2>1 DEF LineHolds, Runs
  <2> QED
    BY <1>2, <2>2 DEF WaitIs
<1> HIDE DEF lines
<1>4. Onward(next) /\ Onward(reading)
  <2>1. /\ DOMAIN next = WaitFields /\ next.lines = wait.lines /\ next.answered = wait.answered /\ next.passed = wait.passed
        /\ next.at = "poll"
    BY <1>1, <1>2 DEF WaitIs, WaitFields
  <2>2. /\ DOMAIN reading = WaitFields /\ reading.lines = lines /\ reading.answered = wait.answered
        /\ reading.passed = wait.passed /\ reading.at = "poll"
    BY <1>1, <1>2 DEF WaitIs, WaitFields
  <2> HIDE DEF next, reading
  <2>0. wait.at = "poll"
    BY <1>1
  <2>3. Onward(next)
    BY <1>2, <2>0, <2>1 DEF Onward, WaitIs
  <2>4. Onward(reading)
    BY <1>2, <1>3, <2>0, <2>2 DEF Onward, WaitIs
  <2> QED
    BY <2>3, <2>4
<1>5. Onward(Address!wait_for_check(Address!Unread))
  <2>1. LineHolds(Address!Unread)
    BY DEF Address!Unread, LineHolds
  <2> QED
    BY <1>1, <1>2, <2>1, PollGoes
<1> HIDE DEF next, reading
<1>6. Onward(wait')
  <2>1. CASE Address!GivesUp
    BY <1>1, <1>2, <2>1, Ended DEF Address!GivesUp
  <2>2. CASE Address!Fails(IF Address!LastName THEN Address!wait_for_check(Address!Unread) ELSE next)
    BY <1>4, <1>5, <2>2, FailedRead DEF Address!Fails
  <2>3. CASE wait' = reading
    BY <1>4, <2>3
  <2>4. CASE wait' = Address!wait_for_check(Address!Unread)
    BY <1>5, <2>4
  <2>5. CASE \E line \in Address!newest_run(lines) : wait' = [Address!wait_for_check(line) EXCEPT !.failed = 0]
    <3>1. PICK line \in Address!newest_run(lines) : wait' = [Address!wait_for_check(line) EXCEPT !.failed = 0]
      BY <2>5
    <3>2. LineHolds(line)
      BY <1>3, NewestHolds
    <3>3. Onward(Address!wait_for_check(line))
      BY <1>1, <1>2, <3>2, PollGoes
    <3> QED
      BY <3>1, <3>3, FailedRead
  <2> QED
    BY <1>1, <2>1, <2>2, <2>3, <2>4, <2>5
<1>7. ChecksOf' /\ StatusesOf'
  BY <1>1 DEF AddressInv, ChecksOf, StatusesOf, Checks, Posted, Both, Address!record
<1>8. WaitIs(wait)'
  BY <1>1, <1>6 DEF Onward, WaitIs, LineHolds, Awaited, PassedOf, Checks, Runs
<1>9. PreviewIsProved'
  <2> SUFFICES ASSUME wait'.at = "done"
               PROVE  /\ wait'.passed = 0 /\ wait'.code # 0
                      /\ wait'.code = 3 => \E r \in DOMAIN checkRuns' : checkRuns'[r].state # "skipped"
    <3>1. wait'.passed = 0 => ~(wait'.passed # 0 /\ wait'.code = 1)
      OBVIOUS
    <3> QED
      BY <3>1 DEF PreviewIsProved, Address!PreviewIsProved, Address!Made
  <2>1. DOMAIN checkRuns = Checks
    BY SeqDomain DEF AddressInv, ChecksOf, Checks
  <2> QED
    BY <1>1, <1>6, <2>1 DEF Onward, Runs
<1> QED
  BY <1>7, <1>8, <1>9 DEF AddressInv

\* The newest status of a context is none, or comes after every other of it.
LEMMA NewestLink ==
    ASSUME IsSeq(statuses), NEW context
    PROVE  /\ Address!newest_link(context) \in Nat
           /\ \A i \in 1..Len(statuses) : statuses[i].context = context => i <= Address!newest_link(context)
           /\ Address!newest_link(context) # 0 =>
                /\ Address!newest_link(context) \in 1..Len(statuses)
                /\ statuses[Address!newest_link(context)].context = context
<1> DEFINE S == {0} \cup {i \in DOMAIN statuses : statuses[i].context = context}
<1>1. Len(statuses) \in Nat /\ DOMAIN statuses = 1..Len(statuses)
  BY SeqDomain
<1>2. S \subseteq 0..Len(statuses) /\ S # {} /\ S \in SUBSET Nat
  BY <1>1
<1>3. IsFiniteSet(S)
  <2>1. 0 \in Int /\ Len(statuses) \in Int
    BY <1>1
  <2>2. IsFiniteSet(0..Len(statuses))
    BY <2>1, FS_Interval
  <2> HIDE DEF S
  <2> QED
    BY <1>2, <2>2, FS_Subset
<1>4. \A i : i \in S <=> i = 0 \/ (i \in 1..Len(statuses) /\ statuses[i].context = context)
  BY <1>1
<1>5. Address!newest_link(context) = CHOOSE x \in S : \A y \in S : x >= y
  BY DEF Address!newest_link, Address!Max
<1> HIDE DEF S
<1>6. \E x \in S : \A y \in S : x >= y
  <2>1. PICK x \in S : \A y \in S : y <= x
    BY <1>2, <1>3, Extremes
  <2> QED
    BY <1>2, <2>1
<1>7. Address!newest_link(context) \in S /\ \A y \in S : Address!newest_link(context) >= y
  BY <1>5, <1>6
<1>8. \A y \in S : y <= Address!newest_link(context)
  BY <1>2, <1>7
<1> QED
  BY <1>2, <1>4, <1>7, <1>8

\* Where a run's record first stands, it stands.
LEMMA PlaceStands ==
    ASSUME IsSeq(statuses), NEW context, NEW r, NEW i \in 1..Len(statuses), statuses[i] = Link(context, r)
    PROVE  Address!Place(context, r) \in 1..Len(statuses) /\ statuses[Address!Place(context, r)] = Link(context, r)
<1> DEFINE S == {q \in DOMAIN statuses : statuses[q] = Link(context, r)}
<1>1. Len(statuses) \in Nat /\ DOMAIN statuses = 1..Len(statuses)
  BY SeqDomain
<1>2. S \subseteq 0..Len(statuses) /\ S # {} /\ S \in SUBSET Nat
  BY <1>1
<1>3. IsFiniteSet(S)
  <2>1. 0 \in Int /\ Len(statuses) \in Int
    BY <1>1
  <2>2. IsFiniteSet(0..Len(statuses))
    BY <2>1, FS_Interval
  <2> HIDE DEF S
  <2> QED
    BY <1>2, <2>2, FS_Subset
<1>4. \A q : q \in S <=> q \in 1..Len(statuses) /\ statuses[q] = Link(context, r)
  BY <1>1
<1>5. Address!Place(context, r) = CHOOSE x \in S : \A y \in S : x <= y
  BY DEF Address!Place, Address!Min, Link
<1> HIDE DEF S
<1>6. \E x \in S : \A y \in S : x <= y
  BY <1>2, <1>3, Extremes
<1>7. Address!Place(context, r) \in S
  BY <1>5, <1>6
<1> QED
  BY <1>4, <1>7

\* What the finder takes from the statuses of a commit whose check passed.
LEMMA Found ==
    ASSUME AddressInv, wait.at = "statuses"
    PROVE  /\ Address!newest_link("address") = 0 => checkRuns[wait.passed].records = <<>>
           /\ checkRuns[wait.passed].records # <<>> => Address!Place("address", wait.passed) <= Address!newest_link("address")
           /\ Address!newest_link("address") # 0 =>
                LET r == statuses[Address!newest_link("address")].link IN
                checkRuns[r].records = Both =>
                  /\ Address!newest_link("database") # 0
                  /\ Address!Place("database", r) <= Address!newest_link("database")
<1> DEFINE address == Address!newest_link("address")
           database == Address!newest_link("database")
           passed == wait.passed
<1>1. IsSeq(statuses)
  BY DEF AddressInv, StatusesOf
<1>2. /\ address \in Nat /\ \A i \in 1..Len(statuses) : statuses[i].context = "address" => i <= address
      /\ address # 0 => address \in 1..Len(statuses) /\ statuses[address].context = "address"
  BY <1>1, NewestLink
<1>3. database \in Nat /\ \A i \in 1..Len(statuses) : statuses[i].context = "database" => i <= database
  BY <1>1, NewestLink
<1>4. passed \in Checks /\ checkRuns[passed].state = "success"
  BY DEF AddressInv, WaitIs, PassedOf
<1>5. /\ checkRuns[passed].records \in {<<>>, Address!record(FALSE), Both} /\ Posted(passed)
      /\ checkRuns[passed].done = Len(checkRuns[passed].records)
  BY <1>4 DEF AddressInv, ChecksOf
<1> HIDE DEF address, database, passed
<1>6. ASSUME checkRuns[passed].records # <<>>
      PROVE  \E i \in 1..Len(statuses) : statuses[i] = Link("address", passed)
  <2>1. PICK j \in 1..checkRuns[passed].done : checkRuns[passed].records[j] = "address"
    <3>1. CASE checkRuns[passed].records = Both
      <4>1. Len(Both) = 2 /\ Both[2] = "address"
        BY DEF Both, Address!record
      <4> QED
        BY <1>5, <3>1, <4>1
    <3>2. CASE checkRuns[passed].records = Address!record(FALSE)
      <4>1. Len(Address!record(FALSE)) = 1 /\ Address!record(FALSE)[1] = "address"
        BY DEF Address!record
      <4>2. checkRuns[passed].done = 1
        BY <1>5, <3>2, <4>1
      <4>3. checkRuns[passed].records[1] = "address"
        BY <3>2, <4>1
      <4> QED
        BY <4>2, <4>3
    <3> QED
      BY <1>5, <1>6, <3>1, <3>2
  <2> QED
    BY <1>5, <2>1 DEF Posted
<1>7. ASSUME checkRuns[passed].records # <<>>
      PROVE  address # 0 /\ Address!Place("address", passed) <= address
  <2>1. PICK i \in 1..Len(statuses) : statuses[i] = Link("address", passed)
    BY <1>6, <1>7
  <2>2. Address!Place("address", passed) \in 1..Len(statuses) /\ statuses[Address!Place("address", passed)] = Link("address", passed)
    BY <1>1, <2>1, PlaceStands
  <2>3. statuses[Address!Place("address", passed)].context = "address"
    BY <2>2 DEF Link
  <2>4. Address!Place("address", passed) <= address
    BY <1>2, <2>2, <2>3
  <2> QED
    BY <1>2, <2>2, <2>4
<1>8. ASSUME address # 0, NEW r, r = statuses[address].link, checkRuns[r].records = Both
      PROVE  database # 0 /\ Address!Place("database", r) <= database
  <2>1. r \in Checks /\ checkRuns[r].done >= 1
    BY <1>2, <1>8 DEF AddressInv, StatusesOf
  <2>2. checkRuns[r].done \in 0..Len(checkRuns[r].records) /\ Posted(r)
    BY <2>1 DEF AddressInv, ChecksOf
  <2>3. Len(Both) = 2 /\ Both[1] = "database"
    BY DEF Both, Address!record
  <2>4. 1 \in 1..checkRuns[r].done
    BY <1>8, <2>1, <2>2, <2>3
  <2>5. PICK i \in 1..Len(statuses) : statuses[i] = Link("database", r)
    BY <1>8, <2>2, <2>3, <2>4 DEF Posted
  <2>6. Address!Place("database", r) \in 1..Len(statuses) /\ statuses[Address!Place("database", r)] = Link("database", r)
    BY <1>1, <2>5, PlaceStands
  <2>7. statuses[Address!Place("database", r)].context = "database"
    BY <2>6 DEF Link
  <2>8. Address!Place("database", r) <= database
    BY <1>3, <2>6, <2>7
  <2> QED
    BY <1>3, <2>6, <2>8
<1> QED
  BY <1>7, <1>8 DEF address, database, passed

LEMMA FindKeeps == ASSUME AddressInv, Address!find PROVE AddressInv'
<1> DEFINE address == Address!newest_link("address")
           database == Address!newest_link("database")
           found == [Address!Exits(IF address = 0 THEN 1 ELSE 0) EXCEPT !.address = address, !.database = database]
<1>1. /\ wait.at = "statuses" /\ UNCHANGED <<checkRuns, statuses>>
      /\ Address!GivesUp \/ Address!Fails(wait) \/ wait' = found
  BY DEF Address!find
<1>2. WaitIs(wait)
  BY DEF AddressInv
<1>3. ChecksOf' /\ StatusesOf'
  BY <1>1 DEF AddressInv, ChecksOf, StatusesOf, Checks, Posted, Both, Address!record
<1>4. WaitIs(wait') /\ PreviewIsProved' => AddressInv'
  BY <1>1, <1>3 DEF AddressInv, WaitIs, LineHolds, Awaited, PassedOf, Checks, Runs
<1>5. CASE Address!GivesUp
  <2>1. wait' = Address!Exits(2)
    BY <1>5 DEF Address!GivesUp
  <2>2. /\ DOMAIN wait' = WaitFields /\ wait'.lines = wait.lines /\ wait'.answered = wait.answered
        /\ wait'.passed = wait.passed /\ wait'.at = "done" /\ wait'.code = 2
    BY <1>2, <2>1 DEF WaitIs, WaitFields, Address!Exits
  <2>3. WaitIs(wait')
    BY <1>2, <2>2 DEF WaitIs
  <2>4. PreviewIsProved'
    BY <2>2 DEF PreviewIsProved, Address!PreviewIsProved
  <2> QED
    BY <1>4, <2>3, <2>4
<1>6. CASE Address!Fails(wait)
  <2>1. \E failed : wait' = [wait EXCEPT !.failed = failed]
    BY <1>6 DEF Address!Fails
  <2>2. /\ DOMAIN wait' = WaitFields /\ wait'.lines = wait.lines /\ wait'.answered = wait.answered
        /\ wait'.passed = wait.passed /\ wait'.at = wait.at
    BY <1>2, <2>1 DEF WaitIs, WaitFields
  <2>3. WaitIs(wait')
    BY <1>2, <2>2 DEF WaitIs
  <2>4. PreviewIsProved'
    BY <1>1, <2>2 DEF PreviewIsProved, Address!PreviewIsProved
  <2> QED
    BY <1>4, <2>3, <2>4
<1>7. CASE wait' = found
  <2>1. /\ DOMAIN found = WaitFields /\ found.lines = wait.lines /\ found.answered = wait.answered
        /\ found.passed = wait.passed /\ found.at = "done" /\ found.code = IF address = 0 THEN 1 ELSE 0
        /\ found.address = address /\ found.database = database
    BY <1>2 DEF WaitIs, WaitFields, Address!Exits
  <2> HIDE DEF found
  <2>2. WaitIs(found)
    BY <1>2, <2>1 DEF WaitIs
  <2>3. /\ address = 0 => checkRuns[wait.passed].records = <<>>
        /\ checkRuns[wait.passed].records # <<>> => Address!Place("address", wait.passed) <= address
        /\ address # 0 => (checkRuns[statuses[address].link].records = Both =>
              database # 0 /\ Address!Place("database", statuses[address].link) <= database)
    BY <1>1, Found
  <2>4. \A context, r : Address!Place(context, r)' = Address!Place(context, r)
    BY <1>1 DEF Address!Place
  <2>5. /\ checkRuns' = checkRuns /\ statuses' = statuses /\ wait' = found
        /\ Address!record(TRUE)' = Address!record(TRUE)
    BY <1>1, <1>7 DEF Address!record
  <2> HIDE DEF address, database
  <2>6. found.code # 3 /\ (found.code = 1 => address = 0) /\ (found.code = 0 => address # 0)
    BY <2>1
  <2>7. PreviewIsProved'
    <3>1. wait'.passed # 0 /\ wait'.code = 1 => checkRuns'[wait'.passed].records = <<>>
      BY <2>1, <2>3, <2>5, <2>6
    <3>2. wait'.code = 0 /\ checkRuns'[wait'.passed].records # <<>>
            => Address!Place("address", wait.passed)' <= wait'.address
      BY <2>1, <2>3, <2>4, <2>5, <2>6
    <3>3. wait'.code = 0 /\ checkRuns'[statuses'[wait'.address].link].records = Address!record(TRUE)' =>
            wait'.database # 0 /\ Address!Place("database", statuses[wait.address].link)' <= wait'.database
      BY <2>1, <2>3, <2>4, <2>5, <2>6 DEF Both
    <3> QED
      BY <2>5, <2>6, <3>1, <3>2, <3>3 DEF PreviewIsProved, Address!PreviewIsProved
  <2> QED
    BY <1>4, <1>7, <2>2, <2>7
<1> QED
  BY <1>1, <1>5, <1>6, <1>7

LEMMA AddressKeeps == ASSUME AddressInv, [Address!Next]_Address!previewVars PROVE AddressInv'
<1>1. CASE UNCHANGED Address!previewVars
  <2>1. UNCHANGED <<checkRuns, statuses, wait>>
    BY <1>1 DEF Address!previewVars
  <2> QED
    BY <2>1 DEF AddressInv, ChecksOf, StatusesOf, Checks, Posted, Both, Address!record, WaitIs, LineHolds, Awaited, PassedOf,
                Runs, PreviewIsProved, Address!PreviewIsProved, Address!Place, Address!Made
<1>2. CASE Address!Next
  <2>1. CASE Address!read_verdict
    BY <2>1, PollKeeps
  <2>2. CASE Address!find
    BY <2>2, FindKeeps
  <2>3. ASSUME wait.at # "done",
               NEW records \in {<<>>} \cup {Address!record(database) : database \in Databases},
               NEW state \in {"queued", "skipped"}, Address!RunMade(state, records)
        PROVE  AddressInv'
    BY <2>3, RunMadeKeeps
  <2>4. ASSUME wait.at # "done", NEW r \in DOMAIN checkRuns, Address!RunStarts(r) PROVE AddressInv'
    BY <2>4, RunStartsKeeps
  <2>5. ASSUME wait.at # "done", NEW r \in DOMAIN checkRuns, NEW state \in {"success", "failure"}, Address!RunEnds(r, state)
        PROVE  AddressInv'
    BY <2>5, RunEndsKeeps
  <2>6. ASSUME wait.at # "done", NEW r \in DOMAIN checkRuns, NEW made \in BOOLEAN, NEW answered \in BOOLEAN,
               Address!write_status(r, made, answered)
        PROVE  AddressInv'
    BY <2>6, WritesKeep
  <2> QED
    BY <1>2, <2>1, <2>2, <2>3, <2>4, <2>5, <2>6 DEF Address!Next, Address!Made
<1> QED
  BY <1>1, <1>2

\* A finder that says there is a preview names an address no older than that of the pass it waited for, and
\* the database of that address; whatever runs were queued, skipped or renamed meanwhile and however their writes
\* were lost or made twice (record, find, wait_for_check).
THEOREM AddressIsProved == Address!Spec => []PreviewIsProved
<1>1. Address!Init => AddressInv
  BY AddressStart
<1>2. AddressInv /\ [Address!Next]_Address!previewVars => AddressInv'
  BY AddressKeeps
<1>3. AddressInv => PreviewIsProved
  BY DEF AddressInv
<1> QED
  BY <1>1, <1>2, <1>3, PTL DEF Address!Spec
=============================================================================
