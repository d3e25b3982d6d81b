-------------------------- MODULE Dashboard_proofs --------------------------
(***************************************************************************)
(* Proofs that the dashboard's service forgets what it must: for any       *)
(* repositories, threads of the history reader, faults, restarts and       *)
(* losses of access, however passes, beats, requests, history readings and *)
(* the forgetting interleave.                                              *)
(***************************************************************************)
EXTENDS Dashboard, TLAPS

ThreadType == [pc : ThreadPc, current : BOOLEAN, cache : Data, value : Data, has : BOOLEAN, lost : BOOLEAN]

Disk == [reading : Reading, caches : Data, usage : Data]

\* TypeOK in terms of these.
Typed ==
    /\ access \in SUBSET Repos /\ noticed \in SUBSET Repos
    /\ github \in Reading /\ passPrevious \in Reading /\ passResult \in Reading /\ beatGithub \in Reading
    /\ kept \in BOOLEAN /\ clearBeforePass \in BOOLEAN
    /\ forgets \in {0, 1} /\ passForgets \in {0, 1} /\ beatForgets \in {0, 1}
    /\ caches \in Data /\ usageResult \in Data /\ usageCache \in Data
    /\ passPc \in RevokePc \cup {"idle", "clear", "collect", "keep", "saveReading", "saveCaches", "publish"}
    /\ beatPc \in RevokePc \cup {"idle", "read", "publish"}
    /\ passLost \in SUBSET Repos /\ beatLost \in SUBSET Repos
    /\ forgetPc \in {"idle", "disk", "usage"} /\ forgetBy \in {"nobody", "request", "pass", "usage"}
    /\ disk \in Disk /\ thread \in [Threads -> ThreadType]
    /\ usageRunning \in BOOLEAN /\ usageRevoked \in BOOLEAN
    /\ requestPc \in {"idle", "usage"} /\ requestRefused \in BOOLEAN
    /\ faults \in 0 .. MaxFaults /\ restarts \in 0 .. MaxRestarts /\ losses \in 0 .. MaxLosses

\* What was handed over is forgotten once: a process starts with it and never gets it again.
ForgotOnce == kept => forgets = 0

LEMMA SameTypes == TypeOK <=> Typed
BY DEF TypeOK, Typed, Disk, ThreadType

LEMMA EmptyTypes ==
    /\ Empty \in Data /\ NoReading \in Reading /\ NoThread \in ThreadType
    /\ [reading |-> NoReading, caches |-> Empty, usage |-> Empty] \in Disk
    /\ \A refused \in BOOLEAN : EmptyGithub(refused) \in Reading
BY DEF Empty, Data, Origin, NoReading, Reading, NoThread, ThreadType, ThreadPc, Disk, EmptyGithub

\* What the readings' operators return is a reading.
LEMMA ReadingTypes ==
    ASSUME NEW g \in Reading
    PROVE  /\ WithoutKept(g) \in Reading /\ MarkTransient(g) \in Reading
           /\ \A read, lost : \A refused \in BOOLEAN : Merge(read, lost, g, refused) \in Reading
           /\ \A refused \in BOOLEAN : LastOr(g, EmptyGithub(refused)) \in Reading
           /\ \A seen : ApplyHeads(g, seen) \in Reading
           /\ OldReading(g) \in Reading
<1>1. g.rows \in Data /\ g.there \in BOOLEAN /\ g.restored \in BOOLEAN /\ g.refused \in BOOLEAN
  BY DEF Reading
<1>2. \A rows \in Data : [g EXCEPT !.rows = rows] \in Reading
  BY DEF Reading
<1>3. WithoutKept(g) \in Reading
  <2>1. [r \in Repos |-> IF g.rows[r] = "kept" THEN "none" ELSE g.rows[r]] \in Data
    BY <1>1 DEF Data, Origin
  <2> QED
    BY <1>2, <2>1, EmptyTypes DEF WithoutKept
<1>4. \A read, lost : \A refused \in BOOLEAN : Merge(read, lost, g, refused) \in Reading
  <2>1. \A read, lost : [r \in Repos |-> IF r \in read THEN "own" ELSE IF r \in lost THEN "none" ELSE g.rows[r]] \in Data
    BY <1>1 DEF Data, Origin
  <2> QED
    BY <2>1 DEF Merge, Reading
<1>5. \A seen : ApplyHeads(g, seen) \in Reading
  <2>1. \A seen : [r \in Repos |-> IF r \in seen /\ g.rows[r] = "none" THEN "own" ELSE g.rows[r]] \in Data
    BY <1>1 DEF Data, Origin
  <2> QED
    BY <1>2, <2>1 DEF ApplyHeads
<1>6. OldReading(g) \in Reading
  BY <1>1 DEF OldReading, Handed, Data, Origin, Reading
<1> QED
  BY <1>3, <1>4, <1>5, <1>6, EmptyTypes DEF LastOr, MarkTransient

LEMMA DataTypes ==
    ASSUME NEW data \in Data
    PROVE  Handed(data) \in Data /\ \A read : Taken(data, read) \in Data
BY DEF Handed, Taken, Data, Origin

\* What a forgetting may change.
LEMMA ForgetTypes ==
    ASSUME Typed, ForgotOnce, NEW who \in {"request", "pass", "usage"}, ForgetKept(who)
    PROVE  /\ kept' \in BOOLEAN /\ clearBeforePass' \in BOOLEAN /\ forgets' \in {0, 1} /\ github' \in Reading
           /\ forgetPc' \in {"idle", "disk", "usage"} /\ forgetBy' \in {"nobody", "request", "pass", "usage"}
           /\ kept' => forgets' = 0
<1>1. CASE kept
  <2>1. WithoutKept(github) \in Reading
    BY ReadingTypes DEF Typed
  <2>2. forgets = 0
    BY <1>1 DEF ForgotOnce
  <2>3. ~kept' /\ kept' \in BOOLEAN /\ clearBeforePass' \in BOOLEAN
    BY <1>1 DEF ForgetKept
  <2>4. forgets' = 1 /\ github' = WithoutKept(github) /\ forgetPc' = "disk" /\ forgetBy' = who
    BY <1>1, <2>2 DEF ForgetKept
  <2> QED
    BY <2>1, <2>3, <2>4
<1>2. CASE ~kept
  BY <1>2 DEF Typed, ForgotOnce, ForgetKept, keptVars, forgetVars
<1> QED
  BY <1>1, <1>2

LEMMA ResetTypes ==
    ASSUME Typed, ResetUsage
    PROVE  thread' \in [Threads -> ThreadType] /\ usageResult' \in Data /\ usageCache' \in Data /\ usageRunning' \in BOOLEAN
<1>1. \A t \in Threads : [thread[t] EXCEPT !.current = FALSE] \in ThreadType
  <2>1. \A t \in Threads : thread[t] \in ThreadType
    BY DEF Typed
  <2> QED
    BY <2>1 DEF ThreadType
<1> QED
  BY <1>1, EmptyTypes DEF ResetUsage, Typed

LEMMA PassTypes == Typed /\ ForgotOnce /\ Pass => Typed' /\ ForgotOnce'
<1> SUFFICES ASSUME Typed, ForgotOnce, Pass PROVE Typed' /\ ForgotOnce'
  OBVIOUS
<1> USE DEF envVars, keptVars, passVars, beatVars, forgetVars, usageVars, requestVars, RevokePc
<1>2. Fault => faults' \in 0 .. MaxFaults
  BY BoundsAssumption DEF Fault, Typed
<1>3. CASE StartPass
  <2>1. /\ passPc' \in {"clear", "collect"} /\ passPrevious' = github /\ passForgets' = forgets
        /\ clearBeforePass' = FALSE
        /\ UNCHANGED <<envVars, faults, github, kept, forgets, caches, noticed, passResult, passLost,
                       beatVars, forgetVars, disk, usageVars, requestVars>>
    BY <1>3 DEF StartPass
  <2>2. ForgotOnce'
    BY <2>1 DEF ForgotOnce
  <2>3. /\ passPrevious' \in Reading /\ passForgets' \in {0, 1} /\ clearBeforePass' \in BOOLEAN
        /\ passPc' \in RevokePc \cup {"idle", "clear", "collect", "keep", "saveReading", "saveCaches", "publish"}
    BY <2>1 DEF Typed
  <2> QED
    BY <2>1, <2>2, <2>3 DEF Typed
<1>11. CASE PassLooks
  BY <1>11 DEF PassLooks, Typed, ForgotOnce
<1>12. CASE ClearFirst
  BY <1>12, EmptyTypes DEF ClearFirst, Typed, ForgotOnce
<1>4. CASE PassReads
  <2>1. PICK read \in SUBSET access, lost \in SUBSET (Repos \ access) :
           /\ IF read = access THEN UNCHANGED faults ELSE Fault
           /\ caches' = Taken(caches, read)
           /\ passResult' = Merge(read, lost, passPrevious, lost # {})
           /\ passLost' = lost
           /\ passPc' = IF lost = {} THEN "keep" ELSE "revokeUsage"
    BY <1>4 DEF PassReads
  <2>2. caches' \in Data /\ passResult' \in Reading
    BY <2>1, ReadingTypes, DataTypes DEF Typed
  <2>3. faults' \in 0 .. MaxFaults /\ passLost' \in SUBSET Repos
    BY <1>2, <2>1 DEF Typed
  <2> QED
    BY <1>4, <2>1, <2>2, <2>3 DEF PassReads, Typed, ForgotOnce
<1>5. CASE PassFails
  <2>1. passResult' \in Reading
    BY <1>5, ReadingTypes DEF PassFails, Typed
  <2>2. faults' \in 0 .. MaxFaults
    BY <1>2, <1>5 DEF PassFails
  <2>3. /\ passLost' = {} /\ passPc' = "publish"
        /\ UNCHANGED <<envVars, github, keptVars, caches, noticed, passPrevious, passForgets,
                       beatVars, forgetVars, disk, usageVars, requestVars>>
    BY <1>5 DEF PassFails
  <2> QED
    BY <2>1, <2>2, <2>3 DEF Typed, ForgotOnce
<1>6. CASE PassRefused
  <2>1. passResult' \in Reading
    BY <1>6, EmptyTypes DEF PassRefused
  <2>2. /\ passLost' = Repos /\ passPc' = "revokeUsage"
        /\ UNCHANGED <<envVars, faults, github, keptVars, caches, noticed, passPrevious, passForgets,
                       beatVars, forgetVars, disk, usageVars, requestVars>>
    BY <1>6 DEF PassRefused
  <2> QED
    BY <2>1, <2>2 DEF Typed, ForgotOnce
<1>7. CASE PassBreaks
  <2>1. passResult' \in Reading
    BY <1>7, ReadingTypes DEF PassBreaks, Typed
  <2>2. ForgetKept("pass")
    BY <1>7 DEF PassBreaks
  <2>3. /\ faults' \in 0 .. MaxFaults /\ passLost' = {} /\ passPc' = "publish"
        /\ UNCHANGED <<envVars, caches, noticed, passPrevious, passForgets,
                       beatVars, disk, usageVars, requestVars>>
    BY <1>2, <1>7 DEF PassBreaks
  <2>4. /\ kept' \in BOOLEAN /\ clearBeforePass' \in BOOLEAN /\ forgets' \in {0, 1}
        /\ github' \in Reading /\ forgetPc' \in {"idle", "disk", "usage"}
        /\ forgetBy' \in {"nobody", "request", "pass", "usage"}
        /\ ForgotOnce'
    BY <2>2, ForgetTypes DEF ForgotOnce
  <2> QED
    BY <2>1, <2>3, <2>4 DEF Typed
<1>8. CASE PassRevokes
  <2>1. /\ thread' \in [Threads -> ThreadType] /\ usageResult' \in Data /\ usageCache' \in Data /\ usageRunning' \in BOOLEAN
    BY <1>8, ResetTypes DEF PassRevokes, RevokeUsage, Typed
  <2>2. caches' \in Data /\ disk' \in Disk
    BY <1>8, EmptyTypes DEF PassRevokes, RevokeCaches, RevokeDisk, Typed
  <2>3. passPc' \in {"revokeCaches", "revokeDisk", "publish"}
    BY <1>8 DEF PassRevokes
  <2> QED
    BY <1>8, <2>1, <2>2, <2>3 DEF PassRevokes, Typed, ForgotOnce
<1>9. CASE SaveReading \/ SaveCaches
  <2>1. [disk EXCEPT !.reading = passResult] \in Disk /\ [disk EXCEPT !.caches = caches] \in Disk
    BY DEF Disk, Typed
  <2>2. disk' \in Disk
    BY <1>9, <2>1 DEF SaveReading, SaveCaches, Typed
  <2>3. faults' \in 0 .. MaxFaults
    BY <1>2, <1>9 DEF SaveReading, SaveCaches, Typed
  <2> QED
    BY <1>9, <2>2, <2>3 DEF SaveReading, SaveCaches, Typed, ForgotOnce
<1>10. CASE Publish
  <2>1. Published \in Reading
    BY ReadingTypes, EmptyTypes DEF Published, Typed
  <2>2. disk' \in Disk /\ noticed' \in SUBSET Repos
    BY <1>10, EmptyTypes DEF Publish, Typed
  <2> QED
    BY <1>10, <2>1, <2>2, EmptyTypes DEF Publish, Typed, ForgotOnce
<1> QED
  BY <1>3, <1>4, <1>5, <1>6, <1>7, <1>8, <1>9, <1>10, <1>11, <1>12 DEF Pass

LEMMA BeatTypes == Typed /\ ForgotOnce /\ Beat => Typed' /\ ForgotOnce'
<1> SUFFICES ASSUME Typed, ForgotOnce, Beat PROVE Typed' /\ ForgotOnce'
  OBVIOUS
<1> USE DEF envVars, keptVars, passVars, beatVars, forgetVars, usageVars, requestVars, RevokePc
<1>1. Fault => faults' \in 0 .. MaxFaults
  BY BoundsAssumption DEF Fault, Typed
<1>2. CASE StartBeat
  BY <1>2 DEF StartBeat, Typed, ForgotOnce
<1>3. CASE BeatReads
  <2>1. beatGithub' \in Reading
    BY <1>3, ReadingTypes DEF BeatReads, Typed
  <2> QED
    BY <1>3, <2>1 DEF BeatReads, Typed, ForgotOnce
<1>4. CASE BeatFails
  BY <1>1, <1>4, EmptyTypes DEF BeatFails, Typed, ForgotOnce
<1>5. CASE BeatRefused
  <2>1. beatGithub' \in Reading
    BY <1>5, EmptyTypes DEF BeatRefused
  <2>2. /\ beatLost' = Repos /\ beatPc' = "revokeUsage"
        /\ UNCHANGED <<envVars, faults, github, keptVars, caches, noticed, passVars, beatForgets,
                       forgetVars, disk, usageVars, requestVars>>
    BY <1>5 DEF BeatRefused
  <2> QED
    BY <2>1, <2>2 DEF Typed, ForgotOnce
<1>6. CASE BeatRevokes
  <2>1. /\ thread' \in [Threads -> ThreadType] /\ usageResult' \in Data /\ usageCache' \in Data /\ usageRunning' \in BOOLEAN
    BY <1>6, ResetTypes DEF BeatRevokes, RevokeUsage, Typed
  <2>2. caches' \in Data /\ disk' \in Disk
    BY <1>6, EmptyTypes DEF BeatRevokes, RevokeCaches, RevokeDisk, Typed
  <2>3. beatPc' \in {"revokeCaches", "revokeDisk", "publish"}
    BY <1>6 DEF BeatRevokes
  <2> QED
    BY <1>6, <2>1, <2>2, <2>3 DEF BeatRevokes, Typed, ForgotOnce
<1>7. CASE BeatPublishes
  <2>1. github' \in Reading /\ noticed' \in SUBSET Repos
    BY <1>7 DEF BeatPublishes, Typed
  <2> QED
    BY <1>7, <2>1, EmptyTypes DEF BeatPublishes, Typed, ForgotOnce
<1> QED
  BY <1>2, <1>3, <1>4, <1>5, <1>6, <1>7 DEF Beat

LEMMA UsageTypes ==
    Typed /\ ForgotOnce /\ (Request \/ RequestUsage \/ BeatUsage \/ \E t \in Threads : Usage(t)) => Typed' /\ ForgotOnce'
<1> SUFFICES ASSUME Typed, ForgotOnce, Request \/ RequestUsage \/ BeatUsage \/ \E t \in Threads : Usage(t)
             PROVE  Typed' /\ ForgotOnce'
  OBVIOUS
<1> USE DEF envVars, keptVars, passVars, beatVars, forgetVars, usageVars, requestVars
<1>1. Fault => faults' \in 0 .. MaxFaults
  BY BoundsAssumption DEF Fault, Typed
<1>2. ASSUME NEW t \in Threads, NEW revoked, StartUsage(t, revoked)
      PROVE  thread' \in [Threads -> ThreadType] /\ usageResult' \in Data /\ usageCache' \in Data /\ usageRunning' \in BOOLEAN
  <2>1. [NoThread EXCEPT !.pc = "read", !.current = TRUE, !.cache = usageCache] \in ThreadType
    BY EmptyTypes DEF NoThread, ThreadType, ThreadPc, Typed
  <2> QED
    BY <1>2, <2>1 DEF StartUsage, Typed
<1>3. \A t \in Threads : /\ thread[t] \in ThreadType
                         /\ \A pc \in ThreadPc : [thread[t] EXCEPT !.pc = pc] \in ThreadType
                         /\ \A cache, value \in Data, lost \in BOOLEAN :
                              [thread[t] EXCEPT !.pc = "finish", !.cache = cache, !.value = value, !.has = TRUE, !.lost = lost]
                                \in ThreadType
  <2>1. \A t \in Threads : thread[t] \in ThreadType
    BY DEF Typed
  <2>2. \A x \in ThreadType, pc \in ThreadPc : [x EXCEPT !.pc = pc] \in ThreadType
    BY DEF ThreadType
  <2>3. \A x \in ThreadType, cache, value \in Data, lost \in BOOLEAN :
           [x EXCEPT !.pc = "finish", !.cache = cache, !.value = value, !.has = TRUE, !.lost = lost] \in ThreadType
    BY DEF ThreadType, ThreadPc
  <2> QED
    BY <2>1, <2>2, <2>3
<1>4. CASE Request
  <2>1. requestRefused' \in BOOLEAN
    BY <1>4 DEF Request, Typed, Reading
  <2> QED
    BY <1>4, <2>1 DEF Request, Typed, ForgotOnce
<1>5. CASE RequestUsage
  <2>1. thread' \in [Threads -> ThreadType] /\ usageResult' \in Data /\ usageCache' \in Data /\ usageRunning' \in BOOLEAN
    BY <1>2, <1>5, ResetTypes DEF RequestUsage, Typed
  <2> QED
    BY <1>5, <2>1 DEF RequestUsage, Typed, ForgotOnce
<1>6. CASE BeatUsage
  <2>1. thread' \in [Threads -> ThreadType] /\ usageResult' \in Data /\ usageCache' \in Data /\ usageRunning' \in BOOLEAN
    BY <1>2, <1>6 DEF BeatUsage
  <2> QED
    BY <1>6, <2>1 DEF BeatUsage, Typed, ForgotOnce
<1>7. ASSUME NEW t \in Threads, UsageReads(t) PROVE Typed' /\ ForgotOnce'
  <2>1. thread[t] \in ThreadType /\ thread[t].cache \in Data /\ thread[t].value \in Data
    BY <1>3 DEF ThreadType
  <2>2. \A read : Taken(thread[t].cache, read) \in Data
    BY <2>1, DataTypes
  <2>3. PICK cache \in Data : /\ Reader(t, cache)
                              /\ \/ thread' = [thread EXCEPT ![t] = [@ EXCEPT !.pc = "finish", !.cache = cache,
                                                                              !.value = cache, !.has = TRUE]]
                                 \/ thread' = [thread EXCEPT ![t] = [@ EXCEPT !.pc = "finish", !.cache = cache,
                                                                              !.has = TRUE, !.lost = TRUE]]
    BY <1>7, <2>2, EmptyTypes DEF UsageReads
  <2>4. /\ [thread[t] EXCEPT !.pc = "finish", !.cache = cache, !.value = cache, !.has = TRUE] \in ThreadType
        /\ [thread[t] EXCEPT !.pc = "finish", !.cache = cache, !.has = TRUE, !.lost = TRUE] \in ThreadType
    BY <2>1 DEF ThreadType, ThreadPc
  <2>5. thread' \in [Threads -> ThreadType]
    BY <2>3, <2>4 DEF Typed
  <2>6. usageCache' \in Data
    BY <2>3 DEF Reader, Typed
  <2>7. UNCHANGED <<envVars, faults, github, keptVars, caches, noticed, passVars, beatVars,
                    forgetVars, disk, usageResult, usageRunning, requestVars>>
    BY <1>7 DEF UsageReads
  <2> QED
    BY <2>5, <2>6, <2>7 DEF Typed, ForgotOnce
<1>8. ASSUME NEW t \in Threads, NEW pc \in ThreadPc, thread' = [thread EXCEPT ![t].pc = pc] PROVE thread' \in [Threads -> ThreadType]
  <2>1. [thread[t] EXCEPT !.pc = pc] \in ThreadType
    BY <1>3
  <2>2. thread' = [thread EXCEPT ![t] = [thread[t] EXCEPT !.pc = pc]]
    BY <1>8
  <2> QED
    BY <2>1, <2>2 DEF Typed
<1>9. ASSUME NEW t \in Threads, UsageFails(t) PROVE Typed' /\ ForgotOnce'
  <2>1. thread' \in [Threads -> ThreadType]
    BY <1>8, <1>9 DEF UsageFails, ThreadPc
  <2>2. faults' \in 0 .. MaxFaults
    BY <1>1, <1>9 DEF UsageFails
  <2>3. CASE ForgetKept("usage")
    BY <1>9, <2>1, <2>2, <2>3, ForgetTypes DEF UsageFails, Typed, ForgotOnce
  <2>4. CASE UNCHANGED <<keptVars, github, forgetVars>>
    BY <1>9, <2>1, <2>2, <2>4 DEF UsageFails, Typed, ForgotOnce
  <2> QED
    BY <1>9, <2>3, <2>4 DEF UsageFails
<1>10. ASSUME NEW t \in Threads, UsageFinishes(t) PROVE Typed' /\ ForgotOnce'
  <2>1. thread' \in [Threads -> ThreadType]
    BY <1>8, <1>10 DEF UsageFinishes, ThreadPc
  <2>2. usageResult' \in Data
    BY <1>3, <1>10 DEF UsageFinishes, ThreadType, Typed
  <2>3. usageRunning' \in BOOLEAN
    BY <1>10 DEF UsageFinishes
  <2>4. UNCHANGED <<envVars, faults, github, keptVars, caches, noticed, passVars, beatVars,
                    forgetVars, disk, usageCache, requestVars>>
    BY <1>10 DEF UsageFinishes
  <2> QED
    BY <2>1, <2>2, <2>3, <2>4 DEF Typed, ForgotOnce
<1>11. ASSUME NEW t \in Threads, UsageSaves(t) PROVE Typed' /\ ForgotOnce'
  <2>1. thread' \in [Threads -> ThreadType]
    BY <1>8, <1>11 DEF UsageSaves, ThreadPc
  <2>2. [disk EXCEPT !.usage = thread[t].value] \in Disk
    BY <1>3 DEF ThreadType, Disk, Typed
  <2>3. disk' \in Disk /\ faults' \in 0 .. MaxFaults
    BY <1>1, <1>11, <2>2 DEF UsageSaves, Typed
  <2> QED
    BY <1>11, <2>1, <2>3 DEF UsageSaves, Typed, ForgotOnce
<1>12. ASSUME NEW t \in Threads, UsageRechecks(t) PROVE Typed' /\ ForgotOnce'
  <2>1. thread' \in [Threads -> ThreadType]
    BY <1>12, EmptyTypes DEF UsageRechecks, Typed
  <2>2. [disk EXCEPT !.usage = Empty] \in Disk
    BY EmptyTypes DEF Disk, Typed
  <2>3. disk' \in Disk
    BY <1>12, <2>2 DEF UsageRechecks, Typed
  <2> QED
    BY <1>12, <2>1, <2>3 DEF UsageRechecks, Typed, ForgotOnce
<1> QED
  BY <1>4, <1>5, <1>6, <1>7, <1>9, <1>10, <1>11, <1>12 DEF Usage

\* The documents a start finds good.
Loaded(good) ==
    [reading |-> IF "reading" \in good THEN disk.reading ELSE NoReading,
     caches |-> IF "caches" \in good THEN disk.caches ELSE Empty,
     usage |-> IF "usage" \in good THEN disk.usage ELSE Empty]

HandsOver(loaded) ==
    /\ disk' = loaded
    /\ github' = IF loaded.reading.there THEN OldReading(loaded.reading) ELSE NoReading
    /\ caches' = Handed(loaded.caches)
    /\ usageResult' = Handed(loaded.usage) /\ usageCache' = Handed(loaded.usage)
    /\ kept' = (loaded.reading.there \/ loaded.caches # Empty \/ loaded.usage # Empty)

LEMMA RestTypes == Typed /\ ForgotOnce /\ (Forgetting \/ Lose \/ Restart \/ UNCHANGED vars) => Typed' /\ ForgotOnce'
<1> SUFFICES ASSUME Typed, ForgotOnce, Forgetting \/ Lose \/ Restart \/ UNCHANGED vars PROVE Typed' /\ ForgotOnce'
  OBVIOUS
<1> USE DEF envVars, keptVars, passVars, beatVars, forgetVars, usageVars, requestVars
<1>1. CASE RequestBreaks
  <2>1. faults' \in 0 .. MaxFaults
    BY <1>1, BoundsAssumption DEF RequestBreaks, Fault, Typed
  <2> QED
    BY <1>1, <2>1, ForgetTypes DEF RequestBreaks, Typed, ForgotOnce
<1>2. CASE ForgetDisk
  BY <1>2, EmptyTypes DEF ForgetDisk, Typed, ForgotOnce
<1>3. CASE ForgetUsage
  BY <1>3, ResetTypes DEF ForgetUsage, Typed, ForgotOnce
<1>4. CASE Lose
  BY <1>4, BoundsAssumption DEF Lose, Typed, ForgotOnce
<1>5. CASE Restart
  <2>1. PICK good \in SUBSET Docs : HandsOver(Loaded(good))
    BY <1>5 DEF Restart, Loaded, HandsOver
  <2>2. Loaded(good) \in Disk
    BY EmptyTypes DEF Loaded, Disk, Typed
  <2>3. Loaded(good).reading \in Reading /\ Loaded(good).caches \in Data /\ Loaded(good).usage \in Data
    BY <2>2 DEF Disk
  <2>4. disk' \in Disk /\ caches' \in Data /\ usageResult' \in Data /\ usageCache' \in Data /\ kept' \in BOOLEAN
    BY <2>1, <2>2, <2>3, DataTypes DEF HandsOver
  <2>5. github' \in Reading
    BY <2>1, <2>3, ReadingTypes, EmptyTypes DEF HandsOver
  <2>6. restarts' \in 0 .. MaxRestarts
    BY <1>5, BoundsAssumption DEF Restart, Typed
  <2>7. thread' \in [Threads -> ThreadType]
    BY <1>5, EmptyTypes DEF Restart
  <2> QED
    BY <1>5, <2>4, <2>5, <2>6, <2>7, EmptyTypes DEF Restart, Typed, ForgotOnce
<1>6. CASE UNCHANGED vars
  BY <1>6 DEF vars, Typed, ForgotOnce
<1> QED
  BY <1>1, <1>2, <1>3, <1>4, <1>5, <1>6 DEF Forgetting
----------------------------------------------------------------------------
(* The inductive invariants *)

\* A pass and a head beat exclude each other, and hold nothing when they are not under way; a
\* pass that keeps what it read, and a beat that has not read, were refused nothing.
InTurn ==
    /\ passPc = "idle" \/ beatPc = "idle"
    /\ passPc = "idle" => passPrevious = NoReading /\ passResult = NoReading
    /\ beatPc = "idle" => beatGithub = NoReading
    /\ passPc \in {"keep", "saveReading", "saveCaches"} => passLost = {}
    /\ beatPc = "read" => beatLost = {}

\* The stages at which a pass or a beat that was refused has the history reader, the caches and
\* the disk behind it.
Refused == RevokePc \cup {"publish"}
UsageRevoked == {"revokeCaches", "revokeDisk", "publish"}
CachesRevoked == {"revokeDisk", "publish"}

\* Access to r was refused: to this process, or to the pass or the beat that is at such a stage.
Lost(r, stages) ==
    \/ r \in noticed
    \/ passPc \in stages /\ r \in passLost
    \/ beatPc \in stages /\ r \in beatLost

\* What each of them leaves of a repository it was refused.
RowsLost(r) ==
    /\ Lost(r, Refused) => r \notin access
    /\ r \in noticed => /\ github.rows[r] = "none" /\ passPrevious.rows[r] = "none"
                        /\ passResult.rows[r] = "none" /\ beatGithub.rows[r] = "none"
    /\ passPc \in Refused /\ r \in passLost => passResult.rows[r] = "none"
    /\ beatPc \in Refused /\ r \in beatLost => beatGithub.rows[r] = "none"
UsageLost(r) ==
    Lost(r, UsageRevoked) =>
      /\ usageResult[r] = "none" /\ usageCache[r] = "none"
      /\ \A t \in Threads : thread[t].current => thread[t].cache[r] = "none" /\ thread[t].value[r] = "none"
CachesLost(r) == Lost(r, CachesRevoked) => caches[r] = "none"
DiskLost(r) ==
    Lost(r, {"publish"}) =>
      /\ disk.reading.rows[r] = "none" /\ disk.caches[r] = "none"
      /\ disk.usage[r] = "none" \/ \E t \in Threads : Writing(t) /\ Gone(t)
AllLost(r) == RowsLost(r) /\ UsageLost(r) /\ CachesLost(r) /\ DiskLost(r)

Clean(data) == ~HandedOver(data)
CleanReading(g) == Clean(g.rows) /\ ~g.restored

\* What was forgotten is in no reading taken since; the history reader has none of it when the
\* forgetting is over, the disk from the moment the pass that was under way has published.
GithubForgot ==
    /\ passForgets <= forgets /\ beatForgets <= forgets
    /\ forgets = 1 => CleanReading(github)
    /\ passForgets = 1 => CleanReading(passPrevious) /\ CleanReading(passResult)
    /\ beatForgets = 1 => CleanReading(beatGithub)
UsageForgot ==
    forgets = 1 /\ forgetPc = "idle" =>
      /\ Clean(usageResult) /\ Clean(usageCache)
      /\ \A t \in Threads : thread[t].current => Clean(thread[t].cache) /\ Clean(thread[t].value)
CachesForgot ==
    /\ forgets = 1 /\ HandedOver(caches) => clearBeforePass \/ passPc = "clear"
    /\ passForgets = 1 /\ passPc # "idle" => ~clearBeforePass
DiskForgot ==
    forgets = 1 /\ forgetPc # "disk" /\ (passPc = "idle" \/ passForgets = 1) =>
      Clean(disk.reading.rows) /\ Clean(disk.caches)

\* A reading that is under way differs from the one shown by what it read and what it lost.
Follows(g, of) == \A r \in Repos : g.rows[r] \in {"none", "own", of.rows[r]}
ReadingsFollow ==
    /\ passPc # "idle" /\ forgets = passForgets => passPrevious = github /\ Follows(passResult, github)
    /\ beatPc # "idle" /\ forgets = beatForgets => Follows(beatGithub, github)

----------------------------------------------------------------------------
(* Types and turns *)

LEMMA TypesStart == Init => Typed /\ ForgotOnce
<1> SUFFICES ASSUME Init PROVE Typed /\ ForgotOnce
  OBVIOUS
<1>1. /\ github \in Reading /\ passPrevious \in Reading /\ passResult \in Reading /\ beatGithub \in Reading
      /\ caches \in Data /\ usageResult \in Data /\ usageCache \in Data /\ disk \in Disk
      /\ thread \in [Threads -> ThreadType]
  BY EmptyTypes DEF Init
<1>2. /\ kept \in BOOLEAN /\ clearBeforePass \in BOOLEAN /\ usageRunning \in BOOLEAN /\ usageRevoked \in BOOLEAN
      /\ requestRefused \in BOOLEAN
  BY DEF Init
<1>3. access = Repos /\ noticed = {} /\ passLost = {} /\ beatLost = {} /\ passPc = "idle" /\ beatPc = "idle" /\ forgetPc = "idle"
      /\ forgetBy = "nobody" /\ requestPc = "idle"
  BY DEF Init
<1>4. forgets = 0 /\ passForgets = 0 /\ beatForgets = 0 /\ faults = 0 /\ restarts = 0 /\ losses = 0
  BY DEF Init
<1> QED
  BY <1>1, <1>2, <1>3, <1>4, BoundsAssumption DEF Typed, ForgotOnce

LEMMA TypesKept == Typed /\ ForgotOnce /\ [Next]_vars => Typed' /\ ForgotOnce'
BY PassTypes, BeatTypes, UsageTypes, RestTypes DEF Next

\* Every variable of the service holds what its operations may put there.
THEOREM TypeCorrect == Spec => []TypeOK
<1>1. Init /\ [][Next]_vars => [](Typed /\ ForgotOnce)
  BY TypesStart, TypesKept, PTL
<1> QED
  BY <1>1, SameTypes, PTL DEF Spec

LEMMA InTurnStarts == Init => InTurn
BY DEF Init, InTurn

LEMMA InTurnKept == Typed /\ InTurn /\ [Next]_vars => InTurn'
<1> SUFFICES ASSUME Typed, InTurn, [Next]_vars PROVE InTurn'
  OBVIOUS
<1> USE DEF InTurn, envVars, keptVars, passVars, beatVars, forgetVars, usageVars, requestVars, RevokePc
<1>1. CASE StartPass \/ ClearFirst \/ PassLooks
  BY <1>1 DEF StartPass, ClearFirst, PassLooks, Typed
<1>2. CASE PassReads
  BY <1>2 DEF PassReads, Typed
<1>3. CASE PassFails \/ PassRefused \/ PassBreaks
  <2>1. passPc = "collect" /\ passPc' \in {"publish", "revokeUsage"} /\ UNCHANGED beatVars
    BY <1>3 DEF PassFails, PassRefused, PassBreaks
  <2> QED
    BY <2>1
<1>4. CASE PassRevokes
  <2>1. passPc # "idle" /\ passPc' \in {"revokeCaches", "revokeDisk", "publish"} /\ UNCHANGED beatVars
    BY <1>4 DEF PassRevokes, RevokeUsage, RevokeCaches, RevokeDisk
  <2> QED
    BY <2>1
<1>5. CASE SaveReading \/ SaveCaches
  BY <1>5 DEF SaveReading, SaveCaches
<1>6. CASE Publish
  BY <1>6 DEF Publish
<1>7. CASE StartBeat \/ BeatFails \/ BeatPublishes
  BY <1>7 DEF StartBeat, BeatFails, BeatPublishes
<1>8. CASE BeatReads \/ BeatRefused
  <2>1. beatPc = "read" /\ beatPc' \in {"publish", "revokeUsage"} /\ UNCHANGED passVars
    BY <1>8 DEF BeatReads, BeatRefused
  <2> QED
    BY <2>1
<1>9. CASE BeatRevokes
  <2>1. beatPc # "idle" /\ beatPc' \in {"revokeCaches", "revokeDisk", "publish"} /\ UNCHANGED passVars
    BY <1>9 DEF BeatRevokes, RevokeUsage, RevokeCaches, RevokeDisk
  <2> QED
    BY <2>1
<1>10. CASE Restart
  <2>1. /\ passPc' = "idle" /\ passPrevious' = NoReading /\ passResult' = NoReading
        /\ beatPc' = "idle" /\ beatGithub' = NoReading
    BY <1>10 DEF Restart
  <2> QED
    BY <2>1
<1>11. CASE Forgetting \/ Request \/ RequestUsage \/ BeatUsage \/ (\E t \in Threads : Usage(t)) \/ Lose \/ UNCHANGED vars
  <2>1. UNCHANGED <<passVars, beatVars>>
    BY <1>11 DEF Forgetting, RequestBreaks, ForgetDisk, ForgetUsage, Request, RequestUsage, BeatUsage, Usage, UsageReads,
                 UsageFails, UsageFinishes, UsageSaves, UsageRechecks, Lose, vars
  <2> QED
    BY <2>1
<1> QED
  BY <1>1, <1>2, <1>3, <1>4, <1>5, <1>6, <1>7, <1>8, <1>9, <1>10, <1>11 DEF Next, Pass, Beat

----------------------------------------------------------------------------
(* Refused access *)

\* No operator on readings finds a row of a repository that is not read.
LEMMA NoneStays ==
    ASSUME NEW g \in Reading, NEW r \in Repos
    PROVE  /\ Empty[r] = "none" /\ NoReading.rows[r] = "none" /\ \A refused \in BOOLEAN : EmptyGithub(refused).rows[r] = "none"
           /\ g.rows[r] = "none" =>
                /\ WithoutKept(g).rows[r] = "none" /\ LastOr(g, EmptyGithub(FALSE)).rows[r] = "none"
                /\ \A seen : r \notin seen => ApplyHeads(g, seen).rows[r] = "none"
<1>1. Empty[r] = "none" /\ NoReading.rows[r] = "none" /\ \A refused \in BOOLEAN : EmptyGithub(refused).rows[r] = "none"
  BY DEF Empty, NoReading, EmptyGithub
<1>2. \A rows : [g EXCEPT !.rows = rows].rows = rows
  BY DEF Reading
<1>3. ASSUME g.rows[r] = "none"
      PROVE  WithoutKept(g).rows[r] = "none" /\ \A seen : r \notin seen => ApplyHeads(g, seen).rows[r] = "none"
  BY <1>1, <1>2, <1>3 DEF WithoutKept, ApplyHeads
<1>4. g.rows[r] = "none" => LastOr(g, EmptyGithub(FALSE)).rows[r] = "none"
  BY <1>1 DEF LastOr, MarkTransient
<1> QED
  BY <1>1, <1>3, <1>4

LEMMA TakenIn ==
    ASSUME NEW data \in Data, NEW r \in Repos, NEW read, NEW O, r \notin read \/ "own" \in O, data[r] \in O
    PROVE  Taken(data, read)[r] \in O
BY DEF Taken

\* What a forgetting does to a row that is not there.
LEMMA ForgetNone ==
    ASSUME Typed, NEW r \in Repos, NEW who, ForgetKept(who), github.rows[r] = "none"
    PROVE  github'.rows[r] = "none"
<1>1. WithoutKept(github).rows[r] = "none"
  BY NoneStays DEF Typed
<1> QED
  BY <1>1 DEF ForgetKept

\* The steps outside a pass and a beat.
Others == Forgetting \/ Request \/ RequestUsage \/ BeatUsage \/ (\E t \in Threads : Usage(t)) \/ Lose \/ UNCHANGED vars

LEMMA OthersKeep ==
    ASSUME Typed, Others
    PROVE  /\ access' \subseteq access /\ UNCHANGED <<noticed, passVars, beatVars, caches>>
           /\ UNCHANGED <<github, keptVars>> \/ \E who : ForgetKept(who)
<1>1. UNCHANGED <<noticed, passVars, beatVars, caches>>
  BY DEF Others, Forgetting, RequestBreaks, ForgetDisk, ForgetUsage, Request, RequestUsage, BeatUsage, Usage, UsageReads,
         UsageFails, UsageFinishes, UsageSaves, UsageRechecks, Lose, vars
<1>2. access' \subseteq access
  BY DEF Others, Forgetting, RequestBreaks, ForgetDisk, ForgetUsage, Request, RequestUsage, BeatUsage, Usage, UsageReads,
         UsageFails, UsageFinishes, UsageSaves, UsageRechecks, Lose, vars, envVars
<1>3. UNCHANGED <<github, keptVars>> \/ \E who : ForgetKept(who)
  BY DEF Others, Forgetting, RequestBreaks, ForgetDisk, ForgetUsage, Request, RequestUsage, BeatUsage, Usage, UsageReads,
         UsageFails, UsageFinishes, UsageSaves, UsageRechecks, Lose, vars
<1> QED
  BY <1>1, <1>2, <1>3

LEMMA RowsKept ==
    ASSUME Typed, InTurn, NEW r \in Repos, RowsLost(r), [Next]_vars
    PROVE  RowsLost(r)'
<1> USE DEF RowsLost, Lost, Refused, RevokePc, envVars, keptVars, passVars, beatVars, forgetVars
<1>1. CASE StartPass \/ ClearFirst \/ PassLooks \/ SaveReading \/ SaveCaches
  <2>1. UNCHANGED <<access, noticed, github, beatVars, passResult, passLost>> /\ (passPrevious' = passPrevious \/ passPrevious' = github)
    BY <1>1 DEF StartPass, ClearFirst, PassLooks, SaveReading, SaveCaches
  <2>2. passPc' \in Refused => passLost' = {}
    BY <1>1 DEF StartPass, ClearFirst, PassLooks, SaveReading, SaveCaches, InTurn
  <2> QED
    BY <2>1, <2>2
<1>2. CASE PassReads
  <2>1. PICK read \in SUBSET access, lost \in SUBSET (Repos \ access) :
          passResult' = Merge(read, lost, passPrevious, lost # {}) /\ passLost' = lost
    BY <1>2 DEF PassReads
  <2>2. UNCHANGED <<access, noticed, github, beatVars, passPrevious>> /\ passPc' \in {"keep", "revokeUsage"}
    BY <1>2 DEF PassReads
  <2>3. beatPc = "idle"
    BY <1>2 DEF PassReads, InTurn
  <2>4. r \in lost \/ r \in noticed => r \notin access
    BY DEF Typed
  <2>5. r \in lost \/ r \in noticed => passResult'.rows[r] = "none"
    <3>1. passResult'.rows[r] = IF r \in read THEN "own" ELSE IF r \in lost THEN "none" ELSE passPrevious.rows[r]
      BY <2>1 DEF Merge
    <3> QED
      BY <2>4, <3>1
  <2> QED
    BY <2>1, <2>2, <2>3, <2>4, <2>5
<1>3. CASE PassFails \/ PassBreaks
  <2>1. /\ UNCHANGED <<access, noticed, beatVars, passPrevious>> /\ passLost' = {} /\ passPc' = "publish"
        /\ passResult' = LastOr(passPrevious, EmptyGithub(FALSE))
    BY <1>3 DEF PassFails, PassBreaks
  <2>2. github' = github \/ ForgetKept("pass")
    BY <1>3 DEF PassFails, PassBreaks
  <2>3. r \in noticed => passResult'.rows[r] = "none" /\ github'.rows[r] = "none"
    BY <2>1, <2>2, NoneStays, ForgetNone DEF Typed
  <2> QED
    BY <2>1, <2>3
<1>4. CASE PassRefused
  <2>1. /\ UNCHANGED <<access, noticed, github, beatVars, passPrevious>> /\ access = {} /\ passResult' = EmptyGithub(TRUE)
    BY <1>4 DEF PassRefused
  <2>2. passResult'.rows[r] = "none"
    <3>1. EmptyGithub(TRUE).rows[r] = "none"
      BY DEF EmptyGithub, Empty
    <3> QED
      BY <2>1, <3>1
  <2> QED
    BY <2>1, <2>2
<1>5. CASE PassRevokes
  <2>1. /\ passPc \in Refused /\ passPc' \in Refused
        /\ UNCHANGED <<access, noticed, github, beatVars, passPrevious, passResult, passLost>>
    BY <1>5 DEF PassRevokes, RevokeUsage, RevokeCaches, RevokeDisk
  <2> QED
    BY <2>1
<1>6. CASE Publish
  <2>1. /\ UNCHANGED <<access, beatVars>> /\ passPc = "publish" /\ passPc' = "idle" /\ noticed' = noticed \cup passLost
        /\ github' = Published /\ passPrevious' = NoReading /\ passResult' = NoReading
    BY <1>6 DEF Publish
  <2>2. beatPc = "idle" /\ beatGithub = NoReading
    BY <2>1 DEF InTurn
  <2>3. r \in noticed' => passResult.rows[r] = "none" /\ r \notin access
    BY <2>1
  <2>4. r \in noticed' => github'.rows[r] = "none"
    BY <2>1, <2>3, NoneStays DEF Published, Typed
  <2>5. NoReading.rows[r] = "none"
    BY NoneStays DEF Typed
  <2> QED
    BY <2>1, <2>2, <2>3, <2>4, <2>5
<1>7. CASE StartBeat
  BY <1>7 DEF StartBeat
<1>8. CASE BeatReads
  <2>1. PICK seen \in SUBSET access : beatGithub' = ApplyHeads(beatGithub, seen)
    BY <1>8 DEF BeatReads
  <2>2. UNCHANGED <<access, noticed, github, passVars, beatLost>> /\ beatLost = {}
    BY <1>8 DEF BeatReads, InTurn
  <2>3. ASSUME r \in noticed PROVE beatGithub'.rows[r] = "none"
    <3>1. beatGithub \in Reading /\ beatGithub.rows[r] = "none" /\ r \notin seen
      BY <2>3 DEF Typed
    <3>2. ApplyHeads(beatGithub, seen).rows[r] = "none"
      BY <3>1, NoneStays
    <3> QED
      BY <2>1, <3>2
  <2> QED
    BY <2>2, <2>3
<1>9. CASE BeatFails
  <2>1. /\ UNCHANGED <<access, noticed, github, passVars>> /\ beatPc' = "idle" /\ beatGithub' = NoReading
    BY <1>9 DEF BeatFails
  <2>2. NoReading.rows[r] = "none"
    BY NoneStays DEF Typed
  <2> QED
    BY <2>1, <2>2
<1>10. CASE BeatRefused
  <2>1. /\ UNCHANGED <<access, noticed, github, passVars>> /\ access = {} /\ beatGithub' = EmptyGithub(TRUE)
    BY <1>10 DEF BeatRefused
  <2>2. beatGithub'.rows[r] = "none"
    <3>1. EmptyGithub(TRUE).rows[r] = "none"
      BY DEF EmptyGithub, Empty
    <3> QED
      BY <2>1, <3>1
  <2> QED
    BY <2>1, <2>2
<1>11. CASE BeatRevokes
  <2>1. /\ beatPc \in Refused /\ beatPc' \in Refused
        /\ UNCHANGED <<access, noticed, github, passVars, beatGithub, beatLost>>
    BY <1>11 DEF BeatRevokes, RevokeUsage, RevokeCaches, RevokeDisk
  <2> QED
    BY <2>1
<1>12. CASE BeatPublishes
  <2>1. /\ UNCHANGED <<access, passVars>> /\ beatPc = "publish" /\ beatPc' = "idle" /\ beatGithub' = NoReading
        /\ \/ UNCHANGED <<github, noticed>>
           \/ passPc = "idle" /\ github' = beatGithub /\ noticed' = noticed \cup beatLost
    BY <1>12 DEF BeatPublishes, BeatCurrent
  <2>2. NoReading.rows[r] = "none"
    BY NoneStays DEF Typed
  <2>3. CASE UNCHANGED <<github, noticed>>
    BY <2>1, <2>2, <2>3
  <2>4. CASE passPc = "idle" /\ github' = beatGithub /\ noticed' = noticed \cup beatLost
    <3>1. passPrevious = NoReading /\ passResult = NoReading
      BY <2>4 DEF InTurn
    <3> QED
      BY <2>1, <2>2, <2>4, <3>1
  <2> QED
    BY <2>1, <2>3, <2>4
<1>13. CASE Restart
  <2>1. noticed' = {} /\ passPc' = "idle" /\ beatPc' = "idle"
    BY <1>13 DEF Restart
  <2> QED
    BY <2>1
<1>14. CASE Others
  <2>1. r \in noticed => github'.rows[r] = "none"
    BY <1>14, OthersKeep, ForgetNone
  <2> QED
    BY <1>14, <2>1, OthersKeep
<1> QED
  BY <1>1, <1>2, <1>3, <1>4, <1>5, <1>6, <1>7, <1>8, <1>9, <1>10, <1>11, <1>12, <1>13, <1>14 DEF Next, Pass, Beat, Others

\* A repository is refused to a stage only by the step that leaves the stage with nothing.
LEMMA LostSteps ==
    ASSUME Typed, InTurn, NEW r \in Repos, [Next]_vars
    PROVE  /\ Lost(r, UsageRevoked)' => Lost(r, UsageRevoked) \/ ResetUsage
           /\ Lost(r, CachesRevoked)' => Lost(r, CachesRevoked) \/ caches' = Empty
           /\ Lost(r, {"publish"})' =>
                Lost(r, {"publish"}) \/ disk' = [reading |-> NoReading, caches |-> Empty, usage |-> Empty]
<1> USE DEF Lost, UsageRevoked, CachesRevoked
<1>1. CASE StartPass \/ ClearFirst \/ PassLooks \/ SaveReading \/ SaveCaches \/ PassFails \/ PassBreaks
  <2>1. UNCHANGED <<noticed, beatVars>>
    BY <1>1 DEF StartPass, ClearFirst, PassLooks, SaveReading, SaveCaches, PassFails, PassBreaks
  <2>2. passPc' \in UsageRevoked => passLost' = {}
    BY <1>1 DEF StartPass, ClearFirst, PassLooks, SaveReading, SaveCaches, PassFails, PassBreaks, InTurn
  <2> QED
    BY <2>1, <2>2 DEF beatVars
<1>2. CASE PassReads \/ PassRefused
  <2>1. UNCHANGED <<noticed, beatVars>> /\ passPc' \in {"keep", "revokeUsage"}
    BY <1>2 DEF PassReads, PassRefused
  <2> QED
    BY <2>1 DEF beatVars
<1>3. CASE PassRevokes
  <2>1. UNCHANGED <<noticed, beatVars, passLost>>
    BY <1>3 DEF PassRevokes
  <2>2. \/ passPc' = "revokeCaches" /\ ResetUsage
        \/ passPc = "revokeCaches" /\ passPc' = "revokeDisk" /\ caches' = Empty
        \/ passPc = "revokeDisk" /\ passPc' = "publish" /\ disk' = [reading |-> NoReading, caches |-> Empty, usage |-> Empty]
    BY <1>3 DEF PassRevokes, RevokeUsage, RevokeCaches, RevokeDisk
  <2> QED
    BY <2>1, <2>2 DEF beatVars
<1>4. CASE Publish
  <2>1. UNCHANGED beatVars /\ passPc = "publish" /\ passPc' = "idle" /\ noticed' = noticed \cup passLost
    BY <1>4 DEF Publish
  <2> QED
    BY <2>1 DEF beatVars
<1>5. CASE StartBeat \/ BeatReads \/ BeatFails \/ BeatRefused
  <2>1. UNCHANGED <<noticed, passVars>>
    BY <1>5 DEF StartBeat, BeatReads, BeatFails, BeatRefused
  <2>2. beatPc' \in UsageRevoked => beatLost' = {}
    BY <1>5 DEF StartBeat, BeatReads, BeatFails, BeatRefused, InTurn
  <2> QED
    BY <2>1, <2>2 DEF passVars
<1>6. CASE BeatRevokes
  <2>1. UNCHANGED <<noticed, passVars, beatLost>>
    BY <1>6 DEF BeatRevokes
  <2>2. \/ beatPc' = "revokeCaches" /\ ResetUsage
        \/ beatPc = "revokeCaches" /\ beatPc' = "revokeDisk" /\ caches' = Empty
        \/ beatPc = "revokeDisk" /\ beatPc' = "publish" /\ disk' = [reading |-> NoReading, caches |-> Empty, usage |-> Empty]
    BY <1>6 DEF BeatRevokes, RevokeUsage, RevokeCaches, RevokeDisk
  <2> QED
    BY <2>1, <2>2 DEF passVars
<1>7. CASE BeatPublishes
  <2>1. UNCHANGED passVars /\ beatPc = "publish" /\ beatPc' = "idle" /\ (noticed' = noticed \/ noticed' = noticed \cup beatLost)
    BY <1>7 DEF BeatPublishes
  <2> QED
    BY <2>1 DEF passVars
<1>8. CASE Restart
  <2>1. noticed' = {} /\ passPc' = "idle" /\ beatPc' = "idle"
    BY <1>8 DEF Restart
  <2> QED
    BY <2>1
<1>9. CASE Others
  BY <1>9, OthersKeep DEF passVars, beatVars
<1> QED
  BY <1>1, <1>2, <1>3, <1>4, <1>5, <1>6, <1>7, <1>8, <1>9 DEF Next, Pass, Beat, Others

LEMMA CachesKept ==
    ASSUME Typed, InTurn, NEW r \in Repos, RowsLost(r), CachesLost(r), [Next]_vars
    PROVE  CachesLost(r)'
<1> SUFFICES ASSUME Lost(r, CachesRevoked)' PROVE caches'[r] = "none"
  BY DEF CachesLost
<1>1. CASE caches' = Empty
  BY <1>1 DEF Empty
<1>2. CASE Lost(r, CachesRevoked)
  <2>1. caches[r] = "none" /\ r \notin access
    BY <1>2 DEF CachesLost, RowsLost, Lost, CachesRevoked, Refused, RevokePc
  <2>2. CASE PassReads
    <3>1. PICK read \in SUBSET access : caches' = Taken(caches, read)
      BY <2>2 DEF PassReads
    <3>2. caches \in Data /\ r \notin read /\ caches[r] \in {"none"}
      BY <2>1, <3>1 DEF Typed
    <3>3. Taken(caches, read)[r] \in {"none"}
      BY <3>2, TakenIn
    <3> QED
      BY <3>1, <3>3
  <2>3. CASE Restart
    BY <2>3 DEF Restart, Lost, CachesRevoked
  <2>4. CASE Pass \/ Beat
    <3>1. caches' = caches \/ caches' = Empty \/ PassReads
      BY <2>4 DEF Pass, Beat, StartPass, ClearFirst, PassLooks, SaveReading, SaveCaches, PassFails, PassRefused, PassBreaks, PassRevokes,
                  RevokeCaches, Publish, StartBeat, BeatReads, BeatFails, BeatRefused, BeatRevokes, BeatPublishes
    <3> QED
      BY <1>1, <2>1, <2>2, <3>1
  <2>5. CASE Others
    BY <2>1, <2>5, OthersKeep
  <2> QED
    BY <2>3, <2>4, <2>5 DEF Next, Others
<1> QED
  BY <1>1, <1>2, LostSteps

\* What the history reader has of a repository comes from one of O.
HistoryIn(r, O) ==
    /\ usageResult[r] \in O /\ usageCache[r] \in O
    /\ \A t \in Threads : thread[t].current => thread[t].cache[r] \in O /\ thread[t].value[r] \in O

LEMMA ResetLeaves ==
    ASSUME Typed, NEW r \in Repos, NEW O, "none" \in O, ResetUsage PROVE HistoryIn(r, O)'
<1>1. usageResult'[r] \in O /\ usageCache'[r] \in O
  BY DEF ResetUsage, Empty
<1>2. \A t \in Threads : ~thread'[t].current
  BY DEF ResetUsage, Typed, ThreadType
<1> QED
  BY <1>1, <1>2 DEF HistoryIn

LEMMA StartLeaves ==
    ASSUME Typed, NEW r \in Repos, NEW O, "none" \in O, HistoryIn(r, O), NEW t \in Threads, NEW revoked, StartUsage(t, revoked) PROVE HistoryIn(r, O)'
<1>1. usageResult' = usageResult /\ usageCache' = usageCache
  BY DEF StartUsage
<1>2. thread' = [thread EXCEPT ![t] = [NoThread EXCEPT !.pc = "read", !.current = TRUE, !.cache = usageCache]]
  BY DEF StartUsage
<1>3. thread'[t].cache = usageCache /\ thread'[t].value = Empty
  BY <1>2 DEF NoThread, Typed
<1>4. \A s \in Threads \ {t} : thread'[s] = thread[s]
  BY <1>2 DEF Typed
<1>5. Empty[r] \in O
  BY DEF Empty
<1> QED
  BY <1>1, <1>3, <1>4, <1>5 DEF HistoryIn

LEMMA ReadingLeaves ==
    ASSUME Typed, NEW r \in Repos, NEW O, "none" \in O, r \notin access \/ "own" \in O, HistoryIn(r, O), NEW t \in Threads, UsageReads(t) PROVE HistoryIn(r, O)'
<1>1. thread[t] \in ThreadType /\ thread[t].cache \in Data
  BY DEF Typed, ThreadType
<1>2. \A s \in Threads \ {t} : thread'[s] = thread[s]
  BY DEF UsageReads, Typed
<1>3. thread'[t].current = thread[t].current
  <2>1. \/ \E cache : thread' = [thread EXCEPT ![t] = [thread[t] EXCEPT !.pc = "finish", !.cache = cache, !.value = cache, !.has = TRUE]]
        \/ thread' = [thread EXCEPT ![t] = [thread[t] EXCEPT !.pc = "finish", !.cache = Empty, !.has = TRUE, !.lost = TRUE]]
    BY DEF UsageReads
  <2>2. \A cache : [thread[t] EXCEPT !.pc = "finish", !.cache = cache, !.value = cache, !.has = TRUE].current = thread[t].current
    BY <1>1 DEF ThreadType
  <2>3. [thread[t] EXCEPT !.pc = "finish", !.cache = Empty, !.has = TRUE, !.lost = TRUE].current = thread[t].current
    BY <1>1 DEF ThreadType
  <2> QED
    BY <2>1, <2>2, <2>3 DEF Typed
<1>4. usageResult' = usageResult
  BY DEF UsageReads
<1>5. CASE thread[t].current
  <2>1. PICK cache : /\ Reader(t, cache) /\ cache[r] \in O /\ thread'[t].cache = cache
                     /\ thread'[t].value = cache \/ thread'[t].value = thread[t].value
    <3>1. CASE \E read \in SUBSET access :
                 LET cache == Taken(thread[t].cache, read) IN
                 /\ Reader(t, cache)
                 /\ thread' = [thread EXCEPT ![t] = [@ EXCEPT !.pc = "finish", !.cache = cache, !.value = cache, !.has = TRUE]]
      <4>1. PICK read \in SUBSET access :
                 /\ Reader(t, Taken(thread[t].cache, read))
                 /\ thread' = [thread EXCEPT ![t] = [@ EXCEPT !.pc = "finish", !.cache = Taken(thread[t].cache, read),
                                                               !.value = Taken(thread[t].cache, read), !.has = TRUE]]
        BY <3>1
      <4>2. Taken(thread[t].cache, read)[r] \in O
        BY <1>1, <1>5, TakenIn DEF HistoryIn
      <4>3. thread'[t].cache = Taken(thread[t].cache, read) /\ thread'[t].value = Taken(thread[t].cache, read)
        BY <1>1, <4>1 DEF Typed, ThreadType
      <4> QED
        BY <4>1, <4>2, <4>3
    <3>2. CASE /\ Reader(t, Empty)
               /\ thread' = [thread EXCEPT ![t] = [@ EXCEPT !.pc = "finish", !.cache = Empty, !.has = TRUE, !.lost = TRUE]]
      <4>1. Empty[r] \in O
        BY DEF Empty
      <4>2. thread'[t].cache = Empty /\ thread'[t].value = thread[t].value
        BY <1>1, <3>2 DEF Typed, ThreadType
      <4> QED
        BY <3>2, <4>1, <4>2
    <3> QED
      BY <3>1, <3>2 DEF UsageReads
  <2>2. usageCache' = cache
    BY <1>5, <2>1 DEF Reader
  <2> QED
    BY <1>2, <1>4, <1>5, <2>1, <2>2 DEF HistoryIn
<1>6. CASE ~thread[t].current
  <2>1. usageCache' = usageCache
    BY <1>6 DEF UsageReads, Reader
  <2> QED
    BY <1>2, <1>3, <1>4, <1>6, <2>1 DEF HistoryIn
<1> QED
  BY <1>5, <1>6

LEMMA ThreadLeaves ==
    ASSUME Typed, NEW r \in Repos, NEW O, "none" \in O, HistoryIn(r, O), NEW t \in Threads,
           UsageFails(t) \/ UsageFinishes(t) \/ UsageSaves(t) \/ UsageRechecks(t)
    PROVE  HistoryIn(r, O)'
<1>1. thread[t] \in ThreadType
  BY DEF Typed
<1>2. \A s \in Threads \ {t} : thread'[s] = thread[s]
  BY DEF UsageFails, UsageFinishes, UsageSaves, UsageRechecks, Typed
<1>3. usageCache' = usageCache
  BY DEF UsageFails, UsageFinishes, UsageSaves, UsageRechecks
<1>4. usageResult' = usageResult \/ (thread[t].current /\ usageResult' = thread[t].value)
  BY DEF UsageFails, UsageFinishes, UsageSaves, UsageRechecks
<1>5. CASE UsageRechecks(t)
  <2>1. thread'[t] = NoThread
    BY <1>5 DEF UsageRechecks, Typed
  <2>2. ~thread'[t].current
    BY <2>1 DEF NoThread
  <2> QED
    BY <1>2, <1>3, <1>4, <2>2 DEF HistoryIn
<1>6. CASE UsageFails(t) \/ UsageFinishes(t) \/ UsageSaves(t)
  <2>1. PICK pc : thread' = [thread EXCEPT ![t].pc = pc]
    BY <1>6 DEF UsageFails, UsageFinishes, UsageSaves
  <2>2. thread'[t].current = thread[t].current /\ thread'[t].cache = thread[t].cache /\ thread'[t].value = thread[t].value
    BY <1>1, <2>1 DEF Typed, ThreadType
  <2> QED
    BY <1>2, <1>3, <1>4, <2>2 DEF HistoryIn
<1> QED
  BY <1>5, <1>6

LEMMA UsageKept ==
    ASSUME Typed, InTurn, NEW r \in Repos, RowsLost(r), UsageLost(r), [Next]_vars
    PROVE  UsageLost(r)'
<1> SUFFICES ASSUME Lost(r, UsageRevoked)' PROVE HistoryIn(r, {"none"})'
  BY DEF UsageLost, HistoryIn
<1>1. CASE ResetUsage
  BY <1>1, ResetLeaves
<1>2. CASE Lost(r, UsageRevoked)
  <2>1. HistoryIn(r, {"none"}) /\ r \notin access
    BY <1>2 DEF UsageLost, HistoryIn, RowsLost, Lost, UsageRevoked, Refused, RevokePc
  <2>2. CASE UNCHANGED usageVars
    BY <2>1, <2>2 DEF HistoryIn, usageVars
  <2>3. CASE Pass \/ Beat
    <3>1. ResetUsage \/ UNCHANGED usageVars
      BY <2>3 DEF Pass, Beat, StartPass, ClearFirst, PassReads, PassLooks, SaveReading, SaveCaches, PassFails, PassRefused, PassBreaks,
                  PassRevokes, RevokeUsage, Publish, StartBeat, BeatReads, BeatFails, BeatRefused, BeatRevokes, BeatPublishes
    <3> QED
      BY <1>1, <2>2, <3>1
  <2>4. CASE Forgetting \/ Request \/ Lose \/ UNCHANGED vars
    <3>1. ResetUsage \/ UNCHANGED usageVars
      BY <2>4 DEF Forgetting, RequestBreaks, ForgetDisk, ForgetUsage, Request, Lose, vars
    <3> QED
      BY <1>1, <2>2, <3>1
  <2>5. CASE RequestUsage \/ BeatUsage
    BY <1>1, <2>1, <2>2, <2>5, StartLeaves DEF RequestUsage, BeatUsage
  <2>6. CASE \E t \in Threads : Usage(t)
    BY <2>1, <2>6, ReadingLeaves, ThreadLeaves DEF Usage
  <2>7. CASE Restart
    BY <2>7 DEF Restart, Lost, UsageRevoked
  <2> QED
    BY <2>3, <2>4, <2>5, <2>6, <2>7 DEF Next
<1> QED
  BY <1>1, <1>2, LostSteps

\* The documents the store keeps about a repository, but for a history that is being written.
NoDocuments(r) ==
    /\ disk.reading.rows[r] = "none" /\ disk.caches[r] = "none"
    /\ disk.usage[r] = "none" \/ \E t \in Threads : Writing(t) /\ Gone(t)

\* The steps that leave the history threads alone or replace the reader.
LEMMA ThreadsRest ==
    ASSUME Pass \/ Beat \/ Forgetting \/ Request \/ Lose \/ UNCHANGED vars
    PROVE  ResetUsage \/ UNCHANGED usageVars
BY DEF Pass, Beat, StartPass, ClearFirst, PassReads, PassLooks, SaveReading, SaveCaches, PassFails, PassRefused, PassBreaks,
       PassRevokes, RevokeUsage, Publish, StartBeat, BeatReads, BeatFails, BeatRefused, BeatRevokes, BeatPublishes,
       Forgetting, RequestBreaks, ForgetDisk, ForgetUsage, Request, Lose, vars

\* A thread that must leave no history behind goes on until it has looked again.
LEMMA GoneStays ==
    ASSUME Typed, NEW t \in Threads, Writing(t), Gone(t), [Next]_vars, ~UsageRechecks(t), ~Restart
    PROVE  Writing(t)' /\ Gone(t)'
<1> USE DEF Writing, Gone
<1>1. thread[t] \in ThreadType
  BY DEF Typed
<1>2. CASE ResetUsage
  <2>1. thread'[t] = [thread[t] EXCEPT !.current = FALSE]
    BY <1>2 DEF ResetUsage
  <2>2. thread'[t].pc = thread[t].pc /\ ~thread'[t].current
    BY <1>1, <2>1 DEF ThreadType
  <2> QED
    BY <2>2
<1>3. CASE thread'[t] = thread[t]
  BY <1>3
<1>4. ASSUME NEW s \in Threads, NEW revoked, StartUsage(s, revoked) PROVE thread'[t] = thread[t]
  <2>1. s # t /\ \E new : thread' = [thread EXCEPT ![s] = new]
    BY <1>4 DEF StartUsage
  <2> QED
    BY <2>1 DEF Typed
<1>5. ASSUME NEW s \in Threads, Usage(s) PROVE Writing(t)' /\ Gone(t)'
  <2>1. CASE s # t
    <3>1. \E new : thread' = [thread EXCEPT ![s] = new]
      BY <1>5 DEF Usage, UsageReads, UsageFails, UsageFinishes, UsageSaves, UsageRechecks
    <3> QED
      BY <1>3, <2>1, <3>1 DEF Typed
  <2>2. CASE s = t
    <3>1. UsageSaves(t)
      BY <1>5, <2>2 DEF Usage, UsageReads, UsageFails, UsageFinishes
    <3>2. thread'[t] = [thread[t] EXCEPT !.pc = "recheck"]
      BY <3>1 DEF UsageSaves, Typed
    <3>3. thread'[t].pc = "recheck" /\ thread'[t].current = thread[t].current /\ thread'[t].lost = thread[t].lost
      BY <1>1, <3>2 DEF ThreadType
    <3> QED
      BY <3>3
  <2> QED
    BY <2>1, <2>2
<1>6. CASE RequestUsage \/ BeatUsage
  BY <1>2, <1>3, <1>4, <1>6 DEF RequestUsage, BeatUsage, usageVars
<1>7. CASE Pass \/ Beat \/ Forgetting \/ Request \/ Lose \/ UNCHANGED vars
  BY <1>2, <1>3, <1>7, ThreadsRest DEF usageVars
<1> QED
  BY <1>5, <1>6, <1>7 DEF Next

\* The steps that write the store or empty it.
LEMMA DiskSteps ==
    ASSUME [Next]_vars, ~Restart
    PROVE  \/ SaveReading \/ SaveCaches \/ disk' = disk
           \/ disk' = [reading |-> NoReading, caches |-> Empty, usage |-> Empty] \/ \E t \in Threads : UsageSaves(t) \/ UsageRechecks(t)
<1>1. Pass => \/ SaveReading \/ SaveCaches \/ disk' = disk
              \/ disk' = [reading |-> NoReading, caches |-> Empty, usage |-> Empty]
  BY DEF Pass, StartPass, ClearFirst, PassReads, PassLooks, PassFails, PassRefused, PassBreaks, PassRevokes, RevokeDisk, Publish
<1>2. Beat => disk' = disk \/ disk' = [reading |-> NoReading, caches |-> Empty, usage |-> Empty]
  BY DEF Beat, StartBeat, BeatReads, BeatFails, BeatRefused, BeatRevokes, RevokeDisk, BeatPublishes
<1>3. Forgetting \/ Request \/ RequestUsage \/ BeatUsage \/ Lose \/ UNCHANGED vars =>
        disk' = disk \/ disk' = [reading |-> NoReading, caches |-> Empty, usage |-> Empty]
  BY DEF Forgetting, RequestBreaks, ForgetDisk, ForgetUsage, Request, RequestUsage, BeatUsage, Lose, vars
<1>4. ASSUME NEW t \in Threads, Usage(t) PROVE disk' = disk \/ UsageSaves(t) \/ UsageRechecks(t)
  BY <1>4 DEF Usage, UsageReads, UsageFails, UsageFinishes
<1> QED
  BY <1>1, <1>2, <1>3, <1>4 DEF Next

LEMMA DiskKept ==
    ASSUME Typed, InTurn, NEW r \in Repos, RowsLost(r), UsageLost(r), CachesLost(r), DiskLost(r), [Next]_vars
    PROVE  DiskLost(r)'
<1> SUFFICES ASSUME Lost(r, {"publish"})' PROVE NoDocuments(r)'
  BY DEF DiskLost, NoDocuments
<1>1. CASE disk' = [reading |-> NoReading, caches |-> Empty, usage |-> Empty]
  BY <1>1 DEF NoDocuments, NoReading, Empty
<1>2. CASE Lost(r, {"publish"})
  <2>1. NoDocuments(r) /\ caches[r] = "none" /\ HistoryIn(r, {"none"})
    BY <1>2 DEF DiskLost, NoDocuments, CachesLost, UsageLost, HistoryIn, Lost, CachesRevoked, UsageRevoked
  <2>2. ~Restart
    BY DEF Restart, Lost
  <2>3. ASSUME \A t \in Threads : ~UsageRechecks(t), disk'.usage = disk.usage
        PROVE  disk'.usage[r] = "none" \/ \E t \in Threads : Writing(t)' /\ Gone(t)'
    BY <2>1, <2>2, <2>3, GoneStays DEF NoDocuments
  <2>4. CASE SaveReading
    <3>1. r \in noticed
      BY <1>2, <2>4 DEF SaveReading, Lost, InTurn
    <3>2. passResult.rows[r] = "none"
      BY <3>1 DEF RowsLost
    <3>3. disk' = [disk EXCEPT !.reading = passResult] \/ disk' = disk
      BY <2>4 DEF SaveReading
    <3>4. disk'.reading.rows[r] = "none" /\ disk'.caches[r] = "none" /\ disk'.usage = disk.usage
      BY <2>1, <3>2, <3>3 DEF NoDocuments, Typed, Disk
    <3>5. UNCHANGED thread
      BY <2>4 DEF SaveReading, usageVars
    <3> QED
      BY <2>1, <3>4, <3>5 DEF NoDocuments, Writing, Gone
  <2>5. CASE SaveCaches
    <3>1. disk' = [disk EXCEPT !.caches = caches] \/ disk' = disk
      BY <2>5 DEF SaveCaches
    <3>2. disk'.reading.rows[r] = "none" /\ disk'.caches[r] = "none" /\ disk'.usage = disk.usage
      BY <2>1, <3>1 DEF NoDocuments, Typed, Disk
    <3>3. UNCHANGED thread
      BY <2>5 DEF SaveCaches, usageVars
    <3> QED
      BY <2>1, <3>2, <3>3 DEF NoDocuments, Writing, Gone
  <2>6. ASSUME NEW t \in Threads, UsageSaves(t) PROVE NoDocuments(r)'
    <3>1. disk' = [disk EXCEPT !.usage = thread[t].value] \/ disk' = disk
      BY <2>6 DEF UsageSaves
    <3>2. disk'.reading = disk.reading /\ disk'.caches = disk.caches /\ (disk'.usage = thread[t].value \/ disk'.usage = disk.usage)
      BY <3>1 DEF Typed, Disk
    <3>3. thread'[t] = [thread[t] EXCEPT !.pc = "recheck"] /\ thread[t] \in ThreadType
      BY <2>6 DEF UsageSaves, Typed
    <3>4. thread'[t].pc = "recheck" /\ thread'[t].current = thread[t].current /\ thread'[t].lost = thread[t].lost
      BY <3>3 DEF ThreadType
    <3>5. CASE Gone(t)
      BY <2>1, <3>2, <3>4, <3>5 DEF NoDocuments, Writing, Gone
    <3>6. CASE ~Gone(t)
      <4>1. thread[t].value[r] = "none"
        BY <2>1, <3>6 DEF HistoryIn, Gone
      <4>2. \A s \in Threads \ {t} : thread'[s] = thread[s]
        BY <2>6 DEF UsageSaves, Typed
      <4> QED
        BY <2>1, <3>2, <3>6, <4>1, <4>2 DEF NoDocuments, Writing, Gone
    <3> QED
      BY <3>5, <3>6
  <2>7. ASSUME NEW t \in Threads, UsageRechecks(t) PROVE NoDocuments(r)'
    <3>1. CASE Gone(t)
      <4>1. disk' = [disk EXCEPT !.usage = Empty]
        BY <2>7, <3>1 DEF UsageRechecks
      <4>2. disk'.reading = disk.reading /\ disk'.caches = disk.caches /\ disk'.usage = Empty
        BY <4>1 DEF Typed, Disk
      <4> QED
        BY <2>1, <4>2 DEF NoDocuments, Empty
    <3>2. CASE ~Gone(t)
      <4>1. disk' = disk
        BY <2>7, <3>2 DEF UsageRechecks
      <4>2. \A s \in Threads \ {t} : thread'[s] = thread[s]
        BY <2>7 DEF UsageRechecks, Typed
      <4> QED
        BY <2>1, <3>2, <4>1, <4>2 DEF NoDocuments, Writing, Gone
    <3> QED
      BY <3>1, <3>2
  <2>8. CASE disk' = disk /\ \A t \in Threads : ~UsageRechecks(t)
    BY <2>1, <2>3, <2>8 DEF NoDocuments, Writing, Gone
  <2> QED
    BY <1>1, <2>2, <2>4, <2>5, <2>6, <2>7, <2>8, DiskSteps
<1> QED
  BY <1>1, <1>2, LostSteps

LEMMA AllKept ==
    ASSUME Typed, InTurn, \A r \in Repos : AllLost(r), [Next]_vars
    PROVE  \A r \in Repos : AllLost(r)'
BY RowsKept, UsageKept, CachesKept, DiskKept DEF AllLost

LEMMA AllStarts == Init => \A r \in Repos : AllLost(r)
<1> SUFFICES ASSUME Init, NEW r \in Repos PROVE AllLost(r)
  OBVIOUS
<1>1. noticed = {} /\ passPc = "idle" /\ beatPc = "idle"
  BY DEF Init
<1> QED
  BY <1>1 DEF AllLost, RowsLost, UsageLost, CachesLost, DiskLost, Lost, Refused, RevokePc, UsageRevoked, CachesRevoked

\* Access that GitHub refused takes with it what was read: of a repository a pass or a beat
\* published as refused no reading, cache or document holds anything, whatever ran beside it.
THEOREM RefusalStands == Spec => []RefusedLeavesNothing
<1>1. Typed /\ (\A r \in Repos : AllLost(r)) => RefusedLeavesNothing
  BY DEF Typed, AllLost, RowsLost, UsageLost, CachesLost, DiskLost, Lost, RefusedLeavesNothing
<1>2. Init => Typed /\ ForgotOnce /\ InTurn /\ \A r \in Repos : AllLost(r)
  BY TypesStart, InTurnStarts, AllStarts
<1>3. Typed /\ ForgotOnce /\ InTurn /\ (\A r \in Repos : AllLost(r)) /\ [Next]_vars
        => Typed' /\ ForgotOnce' /\ InTurn' /\ \A r \in Repos : AllLost(r)'
  BY TypesKept, InTurnKept, AllKept
<1> DEFINE Inv == Typed /\ ForgotOnce /\ InTurn /\ \A r \in Repos : AllLost(r)
<1>4. Init => Inv
  BY <1>2
<1>5. Inv /\ [Next]_vars => Inv'
  BY <1>3
<1>6. Inv => RefusedLeavesNothing
  BY <1>1
<1> QED
  BY <1>4, <1>5, <1>6, PTL DEF Spec

----------------------------------------------------------------------------
(* Forgetting *)

\* No operator on readings finds what a start handed over.
LEMMA CleanStays ==
    ASSUME NEW g \in Reading
    PROVE  /\ CleanReading(NoReading) /\ \A refused \in BOOLEAN : CleanReading(EmptyGithub(refused))
           /\ CleanReading(WithoutKept(g))
           /\ CleanReading(g) => /\ CleanReading(LastOr(g, EmptyGithub(FALSE)))
                                 /\ \A seen : CleanReading(ApplyHeads(g, seen))
<1> USE DEF CleanReading, Clean, HandedOver
<1>1. CleanReading(NoReading) /\ \A refused \in BOOLEAN : CleanReading(EmptyGithub(refused))
  BY DEF NoReading, EmptyGithub, Empty
<1>2. \A rows : [g EXCEPT !.rows = rows].rows = rows /\ [g EXCEPT !.rows = rows].restored = g.restored
  BY DEF Reading
<1>3. CleanReading(WithoutKept(g))
  BY <1>1, <1>2 DEF WithoutKept
<1>4. CleanReading(g) => \A seen : CleanReading(ApplyHeads(g, seen))
  BY <1>2 DEF ApplyHeads
<1>5. CleanReading(g) => CleanReading(LastOr(g, EmptyGithub(FALSE)))
  BY <1>1 DEF LastOr, MarkTransient
<1> QED
  BY <1>1, <1>3, <1>4, <1>5

LEMMA TakenClean ==
    ASSUME NEW data \in Data, NEW read, HandedOver(Taken(data, read)) PROVE HandedOver(data)
BY DEF HandedOver, Taken

\* A process forgets once, and says so to the next pass, the disk and the history reader.
LEMMA Once ==
    ASSUME Typed, ForgotOnce, [Next]_vars, ~Restart, forgets' = 1
    PROVE  \/ /\ forgets = 0 /\ clearBeforePass' /\ forgetPc' = "disk" /\ github' = WithoutKept(github)
              /\ UNCHANGED <<passForgets, beatForgets>>
           \/ /\ forgets = 1
              /\ StartPass \/ UNCHANGED clearBeforePass
              /\ ForgetDisk \/ ForgetUsage \/ UNCHANGED forgetPc
<1>1. \/ \E who : ForgetKept(who) /\ UNCHANGED <<passForgets, beatForgets>>
      \/ UNCHANGED forgets /\ (StartPass \/ UNCHANGED clearBeforePass) /\ (ForgetDisk \/ ForgetUsage \/ UNCHANGED forgetPc)
  <2>1. ASSUME Pass PROVE \/ \E who : ForgetKept(who) /\ UNCHANGED <<passForgets, beatForgets>>
                          \/ UNCHANGED <<forgets, forgetPc>> /\ (StartPass \/ UNCHANGED clearBeforePass)
    BY <2>1 DEF Pass, StartPass, ClearFirst, PassReads, PassLooks, SaveReading, SaveCaches, PassFails, PassRefused, PassBreaks,
                PassRevokes, Publish, keptVars, beatVars, forgetVars
  <2>2. ASSUME Beat PROVE UNCHANGED <<forgets, forgetPc, clearBeforePass>>
    BY <2>2 DEF Beat, StartBeat, BeatReads, BeatFails, BeatRefused, BeatRevokes, BeatPublishes, keptVars, forgetVars
  <2>3. ASSUME Forgetting \/ Request \/ RequestUsage \/ BeatUsage \/ (\E t \in Threads : Usage(t)) \/ Lose \/ UNCHANGED vars
        PROVE  \/ \E who : ForgetKept(who) /\ UNCHANGED <<passForgets, beatForgets>>
               \/ UNCHANGED <<forgets, clearBeforePass>> /\ (ForgetDisk \/ ForgetUsage \/ UNCHANGED forgetPc)
    BY <2>3 DEF Forgetting, RequestBreaks, ForgetDisk, ForgetUsage, Request, RequestUsage, BeatUsage, Usage, UsageReads, UsageFails,
                UsageFinishes, UsageSaves, UsageRechecks, Lose, vars, keptVars, passVars, beatVars, forgetVars
  <2> QED
    BY <2>1, <2>2, <2>3 DEF Next
<1>2. ASSUME NEW who, ForgetKept(who), UNCHANGED <<passForgets, beatForgets>>, kept
      PROVE  /\ forgets = 0 /\ clearBeforePass' /\ forgetPc' = "disk" /\ github' = WithoutKept(github)
             /\ UNCHANGED <<passForgets, beatForgets>>
  BY <1>2 DEF ForgetKept, ForgotOnce
<1>3. ASSUME NEW who, ForgetKept(who), ~kept PROVE forgets = 1 /\ UNCHANGED <<clearBeforePass, forgetPc>>
  BY <1>3 DEF ForgetKept, keptVars, forgetVars
<1> QED
  BY <1>1, <1>2, <1>3

LEMMA ForgetCleans ==
    ASSUME Typed, ForgotOnce, forgets = 1 => CleanReading(github), NEW who, ForgetKept(who)
    PROVE  forgets' \in {0, 1} /\ forgets <= forgets' /\ (forgets' = 1 => CleanReading(github'))
<1>1. CASE kept
  <2>1. forgets = 0 /\ forgets' = 1 /\ github' = WithoutKept(github)
    BY <1>1 DEF ForgetKept, ForgotOnce
  <2>2. CleanReading(WithoutKept(github))
    BY CleanStays DEF Typed
  <2> QED
    BY <2>1, <2>2
<1>2. CASE ~kept
  <2>1. forgets' = forgets /\ github' = github
    BY <1>2 DEF ForgetKept, keptVars
  <2> QED
    BY <2>1 DEF Typed
<1> QED
  BY <1>1, <1>2

LEMMA GithubForgets == Typed /\ ForgotOnce /\ InTurn /\ GithubForgot /\ [Next]_vars => GithubForgot'
<1> SUFFICES ASSUME Typed, ForgotOnce, InTurn, GithubForgot, [Next]_vars PROVE GithubForgot'
  OBVIOUS
<1> USE DEF GithubForgot
<1>0. /\ forgets \in {0, 1} /\ passForgets \in {0, 1} /\ beatForgets \in {0, 1}
      /\ github \in Reading /\ passPrevious \in Reading /\ passResult \in Reading /\ beatGithub \in Reading
  BY DEF Typed
<1>1. CleanReading(NoReading)
  BY <1>0, CleanStays
<1>2. CASE StartPass
  <2>1. /\ UNCHANGED <<forgets, github, beatForgets, beatGithub, passResult>> /\ passForgets' = forgets /\ passPrevious' = github
        /\ passResult = NoReading
    BY <1>2 DEF StartPass, InTurn, beatVars
  <2> QED
    BY <1>0, <1>1, <2>1
<1>3. CASE ClearFirst \/ PassRevokes \/ PassLooks \/ SaveReading \/ SaveCaches \/ BeatRevokes
  <2>1. UNCHANGED <<forgets, github, beatForgets, beatGithub, passForgets, passPrevious, passResult>>
    BY <1>3 DEF ClearFirst, PassRevokes, PassLooks, SaveReading, SaveCaches, BeatRevokes, keptVars, passVars, beatVars
  <2> QED
    BY <2>1
<1>4. CASE PassReads
  <2>1. PICK read, lost : passResult' = Merge(read, lost, passPrevious, lost # {})
    BY <1>4 DEF PassReads
  <2>2. UNCHANGED <<forgets, github, beatForgets, beatGithub, passForgets, passPrevious>>
    BY <1>4 DEF PassReads, keptVars, beatVars
  <2>3. passForgets = 1 => CleanReading(passResult')
    BY <2>1 DEF Merge, CleanReading, Clean, HandedOver
  <2> QED
    BY <2>2, <2>3
<1>5. CASE PassFails \/ PassBreaks
  <2>1. UNCHANGED <<beatForgets, beatGithub, passForgets, passPrevious>>
    BY <1>5 DEF PassFails, PassBreaks, beatVars
  <2>2. passResult' = LastOr(passPrevious, EmptyGithub(FALSE))
    BY <1>5 DEF PassFails, PassBreaks
  <2>3. passForgets = 1 => CleanReading(passResult')
    BY <1>0, <2>2, CleanStays
  <2>4. UNCHANGED <<forgets, github>> \/ ForgetKept("pass")
    BY <1>5 DEF PassFails, PassBreaks, keptVars
  <2>5. forgets' \in {0, 1} /\ forgets <= forgets' /\ (forgets' = 1 => CleanReading(github'))
    <3>1. CASE UNCHANGED <<forgets, github>>
      BY <1>0, <3>1
    <3>2. CASE ForgetKept("pass")
      BY <3>2, ForgetCleans
    <3> QED
      BY <2>4, <3>1, <3>2
  <2> QED
    BY <1>0, <2>1, <2>3, <2>5
<1>6. CASE PassRefused
  <2>1. UNCHANGED <<forgets, github, beatForgets, beatGithub, passForgets, passPrevious>> /\ passResult' = EmptyGithub(TRUE)
    BY <1>6 DEF PassRefused, keptVars, beatVars
  <2>2. CleanReading(EmptyGithub(TRUE))
    BY DEF CleanReading, Clean, HandedOver, EmptyGithub, Empty
  <2> QED
    BY <2>1, <2>2
<1>7. CASE Publish
  <2>1. /\ UNCHANGED <<forgets, beatForgets, beatGithub, passForgets>> /\ github' = Published
        /\ passPrevious' = NoReading /\ passResult' = NoReading
    BY <1>7 DEF Publish, keptVars, beatVars
  <2>2. CleanReading(EmptyGithub(FALSE))
    BY DEF CleanReading, Clean, HandedOver, EmptyGithub, Empty
  <2>3. forgets = 1 => CleanReading(Published)
    BY <1>0, <2>2, CleanStays DEF Published
  <2> QED
    BY <1>1, <2>1, <2>3
<1>8. CASE StartBeat
  <2>1. UNCHANGED <<forgets, github, passForgets, passPrevious, passResult>> /\ beatForgets' = forgets /\ beatGithub' = github
    BY <1>8 DEF StartBeat, keptVars, passVars
  <2> QED
    BY <1>0, <2>1
<1>9. CASE BeatReads \/ BeatFails
  <2>1. /\ UNCHANGED <<forgets, github, beatForgets, passForgets, passPrevious, passResult>>
        /\ (\E seen : beatGithub' = ApplyHeads(beatGithub, seen)) \/ beatGithub' = NoReading
    BY <1>9 DEF BeatReads, BeatFails, keptVars, passVars
  <2>2. beatForgets = 1 => CleanReading(beatGithub')
    BY <1>0, <1>1, <2>1, CleanStays
  <2> QED
    BY <2>1, <2>2
<1>10. CASE BeatRefused
  <2>1. UNCHANGED <<forgets, github, beatForgets, passForgets, passPrevious, passResult>> /\ beatGithub' = EmptyGithub(TRUE)
    BY <1>10 DEF BeatRefused, keptVars, passVars
  <2>2. CleanReading(EmptyGithub(TRUE))
    BY DEF CleanReading, Clean, HandedOver, EmptyGithub, Empty
  <2> QED
    BY <2>1, <2>2
<1>11. CASE BeatPublishes
  <2>1. /\ UNCHANGED <<forgets, beatForgets, passForgets, passPrevious, passResult>> /\ beatGithub' = NoReading
        /\ github' = github \/ (forgets = beatForgets /\ github' = beatGithub)
    BY <1>11 DEF BeatPublishes, BeatCurrent, keptVars, passVars
  <2> QED
    BY <1>1, <2>1
<1>12. CASE Restart
  <2>1. /\ forgets' = 0 /\ passForgets' = 0 /\ beatForgets' = 0
    BY <1>12 DEF Restart
  <2> QED
    BY <2>1
<1>13. CASE Others
  <2>1. UNCHANGED <<beatForgets, beatGithub, passForgets, passPrevious, passResult>>
    BY <1>13, OthersKeep DEF passVars, beatVars
  <2>2. forgets' \in {0, 1} /\ forgets <= forgets' /\ (forgets' = 1 => CleanReading(github'))
    BY <1>0, <1>13, OthersKeep, ForgetCleans DEF keptVars
  <2> QED
    BY <1>0, <2>1, <2>2
<1> QED
  BY <1>2, <1>3, <1>4, <1>5, <1>6, <1>7, <1>8, <1>9, <1>10, <1>11, <1>12, <1>13 DEF Next, Pass, Beat, Others

LEMMA UsageForgets == Typed /\ ForgotOnce /\ UsageForgot /\ [Next]_vars => UsageForgot'
<1> SUFFICES ASSUME Typed, ForgotOnce, UsageForgot, [Next]_vars, forgets' = 1, forgetPc' = "idle", NEW r \in Repos
             PROVE  HistoryIn(r, {"none", "own"})'
  BY DEF UsageForgot, HistoryIn, Clean, HandedOver
<1>1. ~Restart
  BY DEF Restart
<1>2. CASE ResetUsage
  BY <1>2, ResetLeaves
<1>3. CASE ~ResetUsage
  <2>1. forgets = 1 /\ forgetPc = "idle"
    BY <1>1, <1>3, Once DEF ForgetDisk, ForgetUsage
  <2>2. HistoryIn(r, {"none", "own"})
    BY <2>1 DEF UsageForgot, HistoryIn, Clean, HandedOver, Typed, Data, Origin, ThreadType
  <2>3. CASE UNCHANGED usageVars
    BY <2>2, <2>3 DEF HistoryIn, usageVars
  <2>4. CASE RequestUsage \/ BeatUsage
    BY <1>3, <2>2, <2>3, <2>4, StartLeaves DEF RequestUsage, BeatUsage
  <2>5. CASE \E t \in Threads : Usage(t)
    BY <2>2, <2>5, ReadingLeaves, ThreadLeaves DEF Usage
  <2> QED
    BY <1>1, <1>3, <2>3, <2>4, <2>5, ThreadsRest DEF Next
<1> QED
  BY <1>2, <1>3

LEMMA CachesForget == Typed /\ ForgotOnce /\ InTurn /\ GithubForgot /\ CachesForgot /\ [Next]_vars => CachesForgot'
<1> SUFFICES ASSUME Typed, ForgotOnce, InTurn, GithubForgot, CachesForgot, [Next]_vars PROVE CachesForgot'
  OBVIOUS
<1>1. CASE Restart
  BY <1>1 DEF Restart, CachesForgot
<1>2. CASE ~Restart
  <2>1. \/ caches' = Empty \/ caches' = caches \/ \E read : caches' = Taken(caches, read)
    <3>1. Pass => \/ caches' = Empty \/ caches' = caches \/ \E read : caches' = Taken(caches, read)
      BY DEF Pass, StartPass, ClearFirst, PassReads, PassLooks, SaveReading, SaveCaches, PassFails, PassRefused, PassBreaks,
             PassRevokes, RevokeCaches, Publish
    <3>2. Beat => caches' = Empty \/ caches' = caches
      BY DEF Beat, StartBeat, BeatReads, BeatFails, BeatRefused, BeatRevokes, RevokeCaches, BeatPublishes
    <3> QED
      BY <1>2, <3>1, <3>2, OthersKeep DEF Next, Others
  <2>2. HandedOver(caches)' => HandedOver(caches)
    BY <2>1, TakenClean DEF HandedOver, Empty, Typed
  <2>3. \/ StartPass /\ passForgets' = forgets /\ ~clearBeforePass' /\ passPc = "idle" /\ (clearBeforePass => passPc' = "clear")
        \/ ~StartPass /\ ClearFirst /\ ~HandedOver(caches)' /\ UNCHANGED <<passForgets, clearBeforePass>> /\ passPc # "idle"
        \/ /\ ~StartPass /\ UNCHANGED passForgets
           /\ passPc = "clear" => passPc' = "clear"
           /\ passPc' # "idle" => passPc # "idle"
        \/ ~StartPass /\ UNCHANGED passForgets /\ passPc = "publish"
    <3>1. StartPass => passForgets' = forgets /\ ~clearBeforePass' /\ passPc = "idle" /\ (clearBeforePass => passPc' = "clear")
      BY DEF StartPass
    <3>2. ClearFirst => ~HandedOver(caches)' /\ UNCHANGED <<passForgets, clearBeforePass>> /\ passPc # "idle"
      BY DEF ClearFirst, keptVars, HandedOver, Empty
    <3>3. ASSUME PassReads \/ PassLooks \/ SaveReading \/ SaveCaches \/ PassFails \/ PassRefused \/ PassBreaks \/ PassRevokes \/ Publish
          PROVE  UNCHANGED passForgets /\ passPc # "clear" /\ passPc # "idle"
      BY <3>3 DEF PassReads, PassLooks, SaveReading, SaveCaches, PassFails, PassRefused, PassBreaks, PassRevokes, RevokeUsage, RevokeCaches,
                  RevokeDisk, Publish
    <3>4. Beat => UNCHANGED passVars
      BY DEF Beat, StartBeat, BeatReads, BeatFails, BeatRefused, BeatRevokes, BeatPublishes
    <3>5. Others => UNCHANGED passVars
      BY OthersKeep
    <3> QED
      BY <1>2, <3>1, <3>2, <3>3, <3>4, <3>5 DEF Next, Pass, Others, passVars
  <2>4. ASSUME forgets' = 1, HandedOver(caches)' PROVE clearBeforePass' \/ passPc' = "clear"
    <3>1. CASE forgets = 0
      BY <1>2, <2>4, <3>1, Once
    <3>2. CASE forgets = 1
      <4>1. clearBeforePass \/ passPc = "clear"
        BY <2>2, <2>4, <3>2 DEF CachesForgot
      <4>2. StartPass \/ UNCHANGED clearBeforePass
        BY <1>2, <2>4, <3>2, Once
      <4> QED
        BY <2>3, <2>4, <4>1, <4>2
    <3> QED
      BY <3>1, <3>2 DEF Typed
  <2>5. ASSUME passForgets' = 1, passPc' # "idle" PROVE ~clearBeforePass'
    <3>1. CASE StartPass
      BY <2>3, <3>1
    <3>2. CASE ~StartPass
      <4>1. passForgets = 1 /\ passPc # "idle"
        BY <2>3, <2>5, <3>2
      <4>2. forgets = 1
        BY <4>1 DEF GithubForgot, Typed
      <4>3. UNCHANGED clearBeforePass
        <5>1. forgets' = 1
          BY <2>5, GithubForgets, TypesKept DEF GithubForgot, Typed
        <5> QED
          BY <1>2, <3>2, <4>2, <5>1, Once
      <4> QED
        BY <4>1, <4>3 DEF CachesForgot
    <3> QED
      BY <3>1, <3>2
  <2> QED
    BY <2>4, <2>5 DEF CachesForgot
<1> QED
  BY <1>1, <1>2

LEMMA DiskForgets ==
    Typed /\ ForgotOnce /\ GithubForgot /\ CachesForgot /\ DiskForgot /\ [Next]_vars => DiskForgot'
<1> SUFFICES ASSUME Typed, ForgotOnce, GithubForgot, CachesForgot, DiskForgot, [Next]_vars,
                    forgets' = 1, forgetPc' # "disk", passPc' = "idle" \/ passForgets' = 1
             PROVE  Clean(disk'.reading.rows) /\ Clean(disk'.caches)
  BY DEF DiskForgot, Clean, HandedOver
<1>1. ~Restart
  BY DEF Restart
<1>2. forgets = 1 /\ (ForgetDisk \/ ForgetUsage \/ UNCHANGED forgetPc)
  BY <1>1, Once
<1>3. CASE disk' = [reading |-> NoReading, caches |-> Empty, usage |-> Empty]
  BY <1>3 DEF Clean, HandedOver, NoReading, Empty
<1>4. CASE ~ForgetDisk /\ ~(Publish /\ forgets # passForgets)
  <2>1. forgetPc # "disk"
    BY <1>2, <1>4 DEF ForgetUsage
  <2>2. passPc = "idle" \/ passForgets = 1
    <3>1. CASE StartPass
      BY <3>1 DEF StartPass
    <3>2. CASE Publish
      BY <1>2, <1>4, <3>2
    <3>3. CASE ClearFirst \/ PassReads \/ PassLooks \/ SaveReading \/ SaveCaches \/ PassFails \/ PassRefused \/ PassBreaks \/ PassRevokes
      BY <3>3 DEF ClearFirst, PassReads, PassLooks, SaveReading, SaveCaches, PassFails, PassRefused, PassBreaks, PassRevokes
    <3>4. CASE Beat
      BY <3>4 DEF Beat, StartBeat, BeatReads, BeatFails, BeatRefused, BeatRevokes, BeatPublishes, passVars
    <3>5. CASE Others
      BY <3>5, OthersKeep DEF passVars
    <3> QED
      BY <1>1, <3>1, <3>2, <3>3, <3>4, <3>5 DEF Next, Pass, Others
  <2>3. Clean(disk.reading.rows) /\ Clean(disk.caches)
    BY <1>2, <2>1, <2>2 DEF DiskForgot
  <2>4. CASE SaveReading
    <3>1. passForgets = 1
      BY <2>2, <2>4 DEF SaveReading
    <3>2. Clean(passResult.rows)
      BY <3>1 DEF GithubForgot, CleanReading
    <3>3. disk' = [disk EXCEPT !.reading = passResult] \/ disk' = disk
      BY <2>4 DEF SaveReading
    <3>4. disk'.reading \in {passResult, disk.reading} /\ disk'.caches = disk.caches
      BY <3>3 DEF Typed, Disk
    <3> QED
      BY <2>3, <3>2, <3>4
  <2>5. CASE SaveCaches
    <3>1. passForgets = 1 /\ passPc = "saveCaches"
      BY <2>2, <2>5 DEF SaveCaches
    <3>2. Clean(caches)
      BY <1>2, <3>1 DEF CachesForgot, Clean
    <3>3. disk' = [disk EXCEPT !.caches = caches] \/ disk' = disk
      BY <2>5 DEF SaveCaches
    <3>4. disk'.caches \in {caches, disk.caches} /\ disk'.reading = disk.reading
      BY <3>3 DEF Typed, Disk
    <3> QED
      BY <2>3, <3>2, <3>4
  <2>6. ASSUME NEW t \in Threads, UsageSaves(t) \/ UsageRechecks(t) PROVE Clean(disk'.reading.rows) /\ Clean(disk'.caches)
    <3>1. disk' = disk \/ \E usage : disk' = [disk EXCEPT !.usage = usage]
      BY <2>6 DEF UsageSaves, UsageRechecks
    <3>2. disk'.reading = disk.reading /\ disk'.caches = disk.caches
      BY <3>1 DEF Typed, Disk
    <3> QED
      BY <2>3, <3>2
  <2>7. CASE disk' = disk
    BY <2>3, <2>7
  <2> QED
    BY <1>1, <1>3, <2>4, <2>5, <2>6, <2>7, DiskSteps
<1> QED
  BY <1>3, <1>4 DEF ForgetDisk, Publish

LEMMA ForgetStarts == Init => GithubForgot /\ UsageForgot /\ CachesForgot /\ DiskForgot
<1> SUFFICES ASSUME Init PROVE GithubForgot /\ UsageForgot /\ CachesForgot /\ DiskForgot
  OBVIOUS
<1>1. forgets = 0 /\ passForgets = 0 /\ beatForgets = 0
  BY DEF Init
<1> QED
  BY <1>1 DEF GithubForgot, UsageForgot, CachesForgot, DiskForgot

\* What a start handed over and a failure had forgotten is gone: from the reading, the history
\* and, but for a pass that began before, the store and the caches the next pass reads with.
THEOREM ForgettingStands == Spec => []ForgottenIsGone
<1> DEFINE Inv == Typed /\ ForgotOnce /\ InTurn /\ GithubForgot /\ UsageForgot /\ CachesForgot /\ DiskForgot
<1>1. Init => Inv
  BY TypesStart, InTurnStarts, ForgetStarts
<1>2. Inv /\ [Next]_vars => Inv'
  BY TypesKept, InTurnKept, GithubForgets, UsageForgets, CachesForget, DiskForgets
<1>3. Inv => ForgottenIsGone
  <2> SUFFICES ASSUME Inv, forgets = 1, forgetPc = "idle" PROVE ForgottenIsGone
    BY DEF ForgottenIsGone
  <2>1. ~HandedOver(github.rows) /\ ~github.restored
    BY DEF GithubForgot, CleanReading, Clean
  <2>2. ~HandedOver(usageResult) /\ ~HandedOver(usageCache)
    BY DEF UsageForgot, Clean
  <2>3. passPc = "idle" \/ passForgets = 1 => ~HandedOver(disk.reading.rows) /\ ~HandedOver(disk.caches)
    BY DEF DiskForgot, Clean
  <2>4. HandedOver(caches) => clearBeforePass \/ passPc = "clear"
    BY DEF CachesForgot
  <2> QED
    BY <2>1, <2>2, <2>3, <2>4 DEF ForgottenIsGone
<1> QED
  BY <1>1, <1>2, <1>3, PTL DEF Spec

----------------------------------------------------------------------------
(* The promise *)

\* What a row can become without being forgotten.
LEMMA FollowsStays ==
    ASSUME NEW g \in Reading, NEW of \in Reading
    PROVE  /\ Follows(NoReading, of) /\ \A refused \in BOOLEAN : Follows(EmptyGithub(refused), of)
           /\ Follows(of, of) /\ Follows(LastOr(of, EmptyGithub(FALSE)), of)
           /\ Follows(g, of) => \A seen : Follows(ApplyHeads(g, seen), of)
<1> USE DEF Follows
<1>1. Follows(NoReading, of) /\ \A refused \in BOOLEAN : Follows(EmptyGithub(refused), of)
  BY DEF NoReading, EmptyGithub, Empty
<1>2. Follows(of, of) /\ Follows(LastOr(of, EmptyGithub(FALSE)), of)
  BY DEF LastOr, MarkTransient, EmptyGithub, Empty
<1>3. \A rows : [g EXCEPT !.rows = rows].rows = rows
  BY DEF Reading
<1>4. Follows(g, of) => \A seen : Follows(ApplyHeads(g, seen), of)
  BY <1>3 DEF ApplyHeads
<1> QED
  BY <1>1, <1>2, <1>4

\* After a forgetting no reading taken before it is current.
LEMMA ForgetEnds ==
    ASSUME Typed, ForgotOnce, GithubForgot, NEW who, ForgetKept(who)
    PROVE  UNCHANGED <<github, forgets>> \/ (forgets' # passForgets /\ forgets' # beatForgets)
<1>1. CASE kept
  BY <1>1 DEF ForgetKept, ForgotOnce, GithubForgot, Typed
<1>2. CASE ~kept
  BY <1>2 DEF ForgetKept, keptVars
<1> QED
  BY <1>1, <1>2

LEMMA FollowKept == Typed /\ ForgotOnce /\ InTurn /\ GithubForgot /\ ReadingsFollow /\ [Next]_vars => ReadingsFollow'
<1> SUFFICES ASSUME Typed, ForgotOnce, InTurn, GithubForgot, ReadingsFollow, [Next]_vars PROVE ReadingsFollow'
  OBVIOUS
<1> USE DEF ReadingsFollow
<1>0. github \in Reading /\ passPrevious \in Reading /\ passResult \in Reading /\ beatGithub \in Reading
  BY DEF Typed
<1>1. CASE StartPass
  <2>1. /\ UNCHANGED <<forgets, github>> /\ passPrevious' = github /\ passResult' = passResult /\ passResult = NoReading
        /\ beatPc' = "idle"
    BY <1>1 DEF StartPass, InTurn, beatVars
  <2>2. Follows(NoReading, github)
    BY <1>0, FollowsStays
  <2> QED
    BY <2>1, <2>2 DEF Follows
<1>2. CASE ClearFirst \/ PassRevokes \/ PassLooks \/ SaveReading \/ SaveCaches
  <2>1. UNCHANGED <<forgets, github, beatVars, passForgets, passPrevious, passResult>> /\ passPc # "idle"
    BY <1>2 DEF ClearFirst, PassRevokes, RevokeUsage, RevokeCaches, RevokeDisk, PassLooks, SaveReading, SaveCaches, keptVars
  <2> QED
    BY <2>1 DEF beatVars, Follows
<1>3. CASE PassReads
  <2>1. PICK read, lost : passResult' = Merge(read, lost, passPrevious, lost # {})
    BY <1>3 DEF PassReads
  <2>2. UNCHANGED <<forgets, github, beatVars, passForgets, passPrevious>> /\ passPc = "collect"
    BY <1>3 DEF PassReads, keptVars
  <2>3. passPrevious = github => Follows(passResult', github)
    BY <2>1 DEF Merge, Follows
  <2> QED
    BY <2>2, <2>3 DEF beatVars, Follows
<1>4. CASE PassFails \/ PassBreaks
  <2>1. UNCHANGED <<beatVars, passForgets, passPrevious>> /\ passPc = "collect"
    BY <1>4 DEF PassFails, PassBreaks
  <2>2. passResult' = LastOr(passPrevious, EmptyGithub(FALSE))
    BY <1>4 DEF PassFails, PassBreaks
  <2>3. passPrevious = github => Follows(passResult', github)
    BY <1>0, <2>2, FollowsStays
  <2>4. UNCHANGED <<github, forgets>> \/ ForgetKept("pass")
    BY <1>4 DEF PassFails, PassBreaks, keptVars
  <2>5. UNCHANGED <<github, forgets>> \/ (forgets' # passForgets /\ forgets' # beatForgets)
    BY <2>4, ForgetEnds
  <2> QED
    BY <2>1, <2>3, <2>5 DEF beatVars, Follows
<1>5. CASE PassRefused
  <2>1. UNCHANGED <<forgets, github, beatVars, passForgets, passPrevious>> /\ passPc = "collect"
    BY <1>5 DEF PassRefused, keptVars
  <2>2. passResult' = EmptyGithub(TRUE)
    BY <1>5 DEF PassRefused
  <2>3. Follows(passResult', github)
    BY <2>2 DEF Follows, EmptyGithub, Empty
  <2> QED
    BY <2>1, <2>3 DEF beatVars, Follows
<1>6. CASE Publish
  <2>1. passPc' = "idle" /\ UNCHANGED beatVars /\ beatPc = "idle"
    BY <1>6 DEF Publish, InTurn
  <2> QED
    BY <2>1 DEF beatVars
<1>7. CASE StartBeat
  <2>1. UNCHANGED <<forgets, github, passVars>> /\ beatGithub' = github
    BY <1>7 DEF StartBeat, keptVars
  <2>2. Follows(github, github)
    BY <1>0, FollowsStays
  <2> QED
    BY <2>1, <2>2 DEF passVars, Follows
<1>8. CASE BeatReads
  <2>1. PICK seen : beatGithub' = ApplyHeads(beatGithub, seen)
    BY <1>8 DEF BeatReads
  <2>2. UNCHANGED <<forgets, github, passVars, beatForgets>> /\ beatPc = "read"
    BY <1>8 DEF BeatReads, keptVars
  <2>3. Follows(beatGithub, github) => Follows(beatGithub', github)
    BY <1>0, <2>1, FollowsStays
  <2> QED
    BY <2>2, <2>3 DEF passVars, Follows
<1>9. CASE BeatRefused
  <2>1. UNCHANGED <<forgets, github, passVars, beatForgets>>
    BY <1>9 DEF BeatRefused, keptVars
  <2>2. beatGithub' = EmptyGithub(TRUE)
    BY <1>9 DEF BeatRefused
  <2>3. Follows(beatGithub', github)
    BY <2>2 DEF Follows, EmptyGithub, Empty
  <2> QED
    BY <2>1, <2>3 DEF passVars, Follows
<1>10. CASE BeatRevokes
  <2>1. UNCHANGED <<forgets, github, passVars, beatForgets, beatGithub>> /\ beatPc # "idle"
    BY <1>10 DEF BeatRevokes, RevokeUsage, RevokeCaches, RevokeDisk, keptVars
  <2> QED
    BY <2>1 DEF passVars, Follows
<1>11. CASE BeatFails \/ BeatPublishes
  <2>1. UNCHANGED <<forgets, passVars>> /\ beatPc' = "idle" /\ (github' = github \/ passPc = "idle")
    BY <1>11 DEF BeatFails, BeatPublishes, BeatCurrent, keptVars
  <2> QED
    BY <2>1 DEF passVars, Follows
<1>12. CASE Restart
  BY <1>12 DEF Restart
<1>13. CASE Others
  <2>1. UNCHANGED <<passVars, beatVars>>
    BY <1>13, OthersKeep
  <2>2. UNCHANGED <<github, forgets>> \/ (forgets' # passForgets /\ forgets' # beatForgets)
    BY <1>13, OthersKeep, ForgetEnds DEF keptVars
  <2> QED
    BY <2>1, <2>2 DEF passVars, beatVars, Follows
<1> QED
  BY <1>1, <1>2, <1>3, <1>4, <1>5, <1>6, <1>7, <1>8, <1>9, <1>10, <1>11, <1>12, <1>13 DEF Next, Pass, Beat, Others

\* A forgetting is the promise's, or none.
LEMMA ForgetsByPromise ==
    ASSUME Typed, NEW who, ForgetKept(who), UNCHANGED noticed
    PROVE  R!Forget \/ UNCHANGED R!readingVars
<1>1. CASE kept
  <2>1. kept' = FALSE
    BY <1>1 DEF ForgetKept
  <2>2. github' = WithoutKept(github)
    BY <1>1 DEF ForgetKept
  <2>3. github.rows \in Data
    BY DEF Typed, Reading
  <2>4. github'.rows = Empty \/ github'.rows = [r \in Repos |-> IF github.rows[r] = "kept" THEN "none" ELSE github.rows[r]]
    BY <2>2 DEF WithoutKept, NoReading, Typed, Reading
  <2>5. github'.rows \in [Repos -> {"none", "own"}]
    BY <2>3, <2>4 DEF Empty, Data, Origin
  <2>6. \A r \in Repos : github'.rows[r] \in {"none", github.rows[r]}
    BY <2>4 DEF Empty
  <2> QED
    BY <2>1, <2>5, <2>6 DEF R!Forget
<1>2. CASE ~kept
  BY <1>2 DEF ForgetKept, keptVars, R!readingVars
<1> QED
  BY <1>1, <1>2

\* A reading published is one the promise allows.
LEMMA ReadByPromise ==
    ASSUME NEW more \in SUBSET Repos, noticed' = noticed \cup more, kept' = kept, github'.rows \in Data,
           Follows(github', github), \A r \in Repos : r \in noticed' => github'.rows[r] = "none"
    PROVE  R!Read(more)
BY DEF R!Read, R!Origin, Data, Origin, Follows

LEMMA StepsByPromise ==
    ASSUME Typed, InTurn, \A r \in Repos : AllLost(r), ReadingsFollow, GithubForgot, [Next]_vars
    PROVE  R!ReadingNext \/ UNCHANGED R!readingVars
<1>1. CASE Publish
  <2>1. /\ passPc = "publish" /\ noticed' = noticed \cup passLost /\ kept' = kept /\ github' = Published
    BY <1>1 DEF Publish, keptVars
  <2>2. \A r \in Repos : r \in noticed' => passResult.rows[r] = "none"
    BY <2>1 DEF AllLost, RowsLost, Refused
  <2>3. passResult \in Reading
    BY DEF Typed
  <2>4. CASE forgets = passForgets
    <3>1. github' = passResult /\ Follows(passResult, github)
      BY <2>1, <2>4 DEF Published, ReadingsFollow
    <3>2. Follows(github', github)
      BY <3>1 DEF Follows
    <3>3. github'.rows \in Data
      BY <2>3, <3>1 DEF Reading
    <3>4. R!Read(passLost)
      BY <2>1, <2>2, <3>1, <3>2, <3>3, ReadByPromise DEF Typed
    <3> QED
      BY <3>4 DEF R!ReadingNext, Typed
  <2>5. CASE forgets # passForgets
    <3>1. \/ github'.rows = Empty
          \/ github'.rows = [r \in Repos |-> IF passResult.rows[r] = "kept" THEN "none" ELSE passResult.rows[r]]
      <4>1. github' = WithoutKept(passResult) \/ github' = EmptyGithub(FALSE)
        BY <2>1, <2>5 DEF Published
      <4>2. EmptyGithub(FALSE).rows = Empty
        BY DEF EmptyGithub
      <4>3. \/ WithoutKept(passResult).rows = Empty
            \/ WithoutKept(passResult).rows = [r \in Repos |-> IF passResult.rows[r] = "kept" THEN "none" ELSE passResult.rows[r]]
        BY <2>3 DEF WithoutKept, NoReading, Reading
      <4> QED
        BY <4>1, <4>2, <4>3
    <3>2. passResult.rows \in Data
      BY <2>3 DEF Reading
    <3>3. github'.rows \in Data /\ \A r \in Repos : github'.rows[r] \in {"none", "own"}
      BY <3>1, <3>2 DEF Empty, Data, Origin
    <3>4. \A r \in Repos : r \in noticed' => github'.rows[r] = "none"
      BY <2>2, <3>1 DEF Empty
    <3>5. Follows(github', github)
      BY <3>3 DEF Follows
    <3>6. R!Read(passLost)
      BY <2>1, <3>3, <3>4, <3>5, ReadByPromise DEF Typed
    <3> QED
      BY <3>6 DEF R!ReadingNext, Typed
  <2> QED
    BY <2>4, <2>5
<1>2. CASE BeatPublishes
  <2>1. CASE BeatCurrent
    <3>1. /\ beatPc = "publish" /\ github' = beatGithub /\ noticed' = noticed \cup beatLost /\ kept' = kept
      BY <1>2, <2>1 DEF BeatPublishes, keptVars
    <3>2. Follows(beatGithub, github)
      BY <2>1, <3>1 DEF ReadingsFollow, BeatCurrent
    <3>3. Follows(github', github)
      BY <3>1, <3>2 DEF Follows
    <3>4. github'.rows \in Data
      BY <3>1 DEF Typed, Reading
    <3>5. \A r \in Repos : r \in noticed' => github'.rows[r] = "none"
      BY <3>1 DEF AllLost, RowsLost, Refused
    <3>6. R!Read(beatLost)
      BY <3>1, <3>3, <3>4, <3>5, ReadByPromise DEF Typed
    <3> QED
      BY <3>6 DEF R!ReadingNext, Typed
  <2>2. CASE ~BeatCurrent
    BY <1>2, <2>2 DEF BeatPublishes, keptVars, R!readingVars
  <2> QED
    BY <2>1, <2>2
<1>3. CASE Restart
  <2>1. PICK good \in SUBSET Docs : HandsOver(Loaded(good))
    BY <1>3 DEF Restart, Loaded, HandsOver
  <2>2. Loaded(good) \in Disk
    BY EmptyTypes DEF Loaded, Disk, Typed
  <2>3. Loaded(good).reading \in Reading /\ Loaded(good).caches \in Data /\ Loaded(good).usage \in Data
    BY <2>2 DEF Disk
  <2>4. github' = IF Loaded(good).reading.there THEN OldReading(Loaded(good).reading) ELSE NoReading
    BY <2>1 DEF HandsOver
  <2>5. github'.rows \in [Repos -> {"none", "kept"}]
    BY <2>4 DEF OldReading, Handed, NoReading, Empty
  <2>6. ~kept' => github'.rows = Empty
    <3>1. ~kept' => ~Loaded(good).reading.there
      BY <2>1 DEF HandsOver
    <3> QED
      BY <2>4, <3>1 DEF NoReading
  <2>7. kept' \in BOOLEAN
    BY <2>1 DEF HandsOver
  <2>8. noticed' = {}
    BY <1>3 DEF Restart
  <2>9. R!Start
    BY <2>5, <2>6, <2>7, <2>8 DEF R!Start, R!Nowhere, Empty
  <2> QED
    BY <2>9 DEF R!ReadingNext
<1>4. CASE Others
  <2>1. UNCHANGED noticed /\ (UNCHANGED <<github, keptVars>> \/ \E who : ForgetKept(who))
    BY <1>4, OthersKeep
  <2>2. R!Forget \/ UNCHANGED R!readingVars
    BY <2>1, ForgetsByPromise DEF R!readingVars, keptVars
  <2> QED
    BY <2>2 DEF R!ReadingNext
<1>5. CASE PassBreaks
  <2>1. UNCHANGED noticed /\ ForgetKept("pass")
    BY <1>5 DEF PassBreaks
  <2> QED
    BY <2>1, ForgetsByPromise DEF R!ReadingNext
<1>6. CASE \/ StartPass \/ ClearFirst \/ PassReads \/ PassFails \/ PassRefused \/ PassRevokes \/ PassLooks \/ SaveReading \/ SaveCaches
           \/ StartBeat \/ BeatReads \/ BeatFails \/ BeatRefused \/ BeatRevokes
  BY <1>6 DEF StartPass, ClearFirst, PassReads, PassFails, PassRefused, PassRevokes, PassLooks, SaveReading, SaveCaches,
              StartBeat, BeatReads, BeatFails, BeatRefused, BeatRevokes, keptVars, R!readingVars
<1> QED
  BY <1>1, <1>2, <1>3, <1>4, <1>5, <1>6 DEF Next, Pass, Beat, Others

\* The service implements the dashboard's promise: whatever passes, beats, requests, readers and
\* restarts do, a row is of this process or handed over and not yet forgotten, and what was
\* forgotten or refused comes back only by being read again.
THEOREM PromiseKept == Spec => KeepsPromise
<1> DEFINE Inv == /\ Typed /\ ForgotOnce /\ InTurn /\ (\A r \in Repos : AllLost(r))
                  /\ GithubForgot /\ ReadingsFollow
<1>1. Init => Inv
  <2>1. Init => ReadingsFollow
    BY DEF Init, ReadingsFollow
  <2> QED
    BY <2>1, TypesStart, InTurnStarts, AllStarts, ForgetStarts
<1>2. Inv /\ [Next]_vars => Inv'
  BY TypesKept, InTurnKept, AllKept, GithubForgets, FollowKept
<1>3. Init => R!ReadingInit
  BY DEF Init, NoReading, Empty, R!ReadingInit, R!Nowhere
<1>4. Inv /\ [Next]_vars => [R!ReadingNext]_R!readingVars
  BY StepsByPromise
<1> QED
  BY <1>1, <1>2, <1>3, <1>4, PTL DEF Spec, KeepsPromise, R!ReadingSpec
=============================================================================
