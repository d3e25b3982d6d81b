----------------------------- MODULE Dashboard -----------------------------
(***************************************************************************)
(* The dashboard's service: one pass or one head beat at a time reads      *)
(* GitHub, requests serve the reading they left, a token-history reader    *)
(* runs beside them, and a state store carries the reading and the caches  *)
(* across a restart.  A process starts with what the last one kept and     *)
(* forgets it at the first failure it cannot explain; access that GitHub   *)
(* refuses takes what was read with it, in memory and on disk.             *)
(*                                                                         *)
(* A row, a cache and a document are followed by where their content comes *)
(* from: this process's own reading, a start's inheritance, or nowhere.    *)
(* Ages are left out, so a pass, a beat or a history reading may be due    *)
(* whenever the code allows one; so is the inventory, which only says      *)
(* whether a repository subscribes.  The collector's two cache documents   *)
(* are one here, and so are the history reader's two.                      *)
(***************************************************************************)
EXTENDS FiniteSets, Naturals

CONSTANTS
  Repos,        \* the owner's repositories
  Threads,      \* threads of the token-history reader
  MaxFaults,    \* failed passes, beats, readings, requests and writes, all told
  MaxRestarts,  \* crashes or restarts
  MaxLosses     \* times GitHub takes access away

ASSUME BoundsAssumption ==
  /\ MaxFaults \in Nat
  /\ MaxRestarts \in Nat
  /\ MaxLosses \in Nat

VARIABLES
  access,           \* repositories the token may read
  github,           \* the reading requests are served from
  kept,             \* whether a start handed something over that is not forgotten
  forgets,          \* how often this process forgot it
  clearBeforePass,  \* the next pass empties the collector's caches first
  caches,           \* the collector's caches
  noticed,          \* repositories this process published as refused
  passPc, passPrevious, passForgets, passResult, passLost,
  beatPc, beatForgets, beatGithub, beatLost,
  forgetPc,         \* how far the one forgetting has come, and whose it is
  forgetBy,
  disk,             \* the state store's documents
  usageResult,      \* the token history the page shows
  usageCache,       \* the current history reader's records
  usageRunning,
  usageRevoked,     \* whether the last request saw access refused
  thread,           \* the history threads
  requestPc,        \* a request that has its copy of the reading
  requestRefused,   \* whether that copy says access was refused
  faults, restarts, losses

passVars == <<passPc, passPrevious, passForgets, passResult, passLost>>
beatVars == <<beatPc, beatForgets, beatGithub, beatLost>>
forgetVars == <<forgetPc, forgetBy>>
keptVars == <<kept, forgets, clearBeforePass>>
usageVars == <<usageResult, usageCache, usageRunning, thread>>
requestVars == <<usageRevoked, requestPc, requestRefused>>
envVars == <<access, losses, restarts>>
vars == <<envVars, faults, github, keptVars, caches, noticed, passVars, beatVars,
          forgetVars, disk, usageVars, requestVars>>

Origin == {"none", "kept", "own"}
Data == [Repos -> Origin]
Empty == [r \in Repos |-> "none"]
Docs == {"reading", "caches", "usage"}

Reading == [there : BOOLEAN, rows : Data, restored : BOOLEAN, refused : BOOLEAN]
NoReading == [there |-> FALSE, rows |-> Empty, restored |-> FALSE, refused |-> FALSE]

----------------------------------------------------------------------------
(* Readings *)

\* No repository's row holds anything; refused names lost access as the cause.
EmptyGithub(refused) ==
  [there |-> TRUE, rows |-> Empty, restored |-> FALSE, refused |-> refused]

\* (mutant) rows carried over from the last process stay
WithoutKept_Carried(g) == IF g.restored THEN NoReading ELSE g

\* Nothing handed over: no reading at all when it is the kept one.
WithoutKept(g) ==
  IF g.restored THEN NoReading
  ELSE [g EXCEPT !.rows = [r \in Repos |-> IF g.rows[r] = "kept" THEN "none" ELSE g.rows[r]]]

\* (mutant) what a merge returns is still called restored
Merge_Restored(read, lost, previous, refused) ==
  [there |-> TRUE, restored |-> previous.restored, refused |-> refused,
   rows |-> [r \in Repos |-> IF r \in read THEN "own"
                             ELSE IF r \in lost THEN "none" ELSE previous.rows[r]]]

\* Rows read, then old rows of the ones missed for another reason than lost access.
Merge(read, lost, previous, refused) ==
  [there |-> TRUE, restored |-> FALSE, refused |-> refused,
   rows |-> [r \in Repos |-> IF r \in read THEN "own"
                             ELSE IF r \in lost THEN "none" ELSE previous.rows[r]]]

\* The last reading, marked stale. What it says of refused access stays in it.
MarkTransient(previous) == previous

LastOr(previous, empty) == IF previous.there THEN MarkTransient(previous) ELSE empty

\* Only the rows of pull requests the head search returns may appear.
ApplyHeads(g, seen) ==
  [g EXCEPT !.rows = [r \in Repos |-> IF r \in seen /\ g.rows[r] = "none" THEN "own" ELSE g.rows[r]]]

\* What a cache that held `old` holds after `read` was read: an answer GitHub confirms stays.
Taken(old, read) == [r \in Repos |-> IF r \in read /\ old[r] = "none" THEN "own" ELSE old[r]]

Handed(data) == [r \in Repos |-> IF data[r] = "none" THEN "none" ELSE "kept"]
OldReading(data) ==
  [there |-> TRUE, rows |-> Handed(data.rows), restored |-> TRUE, refused |-> data.refused]

Fault == faults < MaxFaults /\ faults' = faults + 1

----------------------------------------------------------------------------
(* Forgetting what a start handed over *)

\* Under the service's lock; the disk and the history reader follow.
ForgetKept(who) ==
  /\ IF kept THEN /\ kept' = FALSE
                  /\ forgets' = forgets + 1
                  /\ clearBeforePass' = TRUE
                  /\ github' = WithoutKept(github)
                  /\ forgetPc' = "disk"
                  /\ forgetBy' = who
             ELSE UNCHANGED <<keptVars, github, forgetVars>>

ForgetDisk ==
  /\ forgetPc = "disk"
  /\ disk' = [reading |-> NoReading, caches |-> Empty, usage |-> Empty]
  /\ forgetPc' = "usage"
  /\ UNCHANGED <<envVars, faults, github, keptVars, caches, noticed, passVars, beatVars,
                 forgetBy, usageVars, requestVars>>

\* A new history reader with no records; a thread of the old one is no longer current.
ResetUsage ==
  /\ usageResult' = Empty
  /\ usageCache' = Empty
  /\ thread' = [t \in Threads |-> [thread[t] EXCEPT !.current = FALSE]]
  /\ UNCHANGED usageRunning

ForgetUsage ==
  /\ forgetPc = "usage"
  /\ ResetUsage
  /\ forgetPc' = "idle"
  /\ UNCHANGED <<envVars, faults, github, keptVars, caches, noticed, passVars, beatVars,
                 forgetBy, disk, requestVars>>

\* A request fails for no reason this code names: it forgets, or, with nothing kept, raises.
RequestBreaks ==
  /\ kept
  /\ Fault
  /\ ForgetKept("request")
  /\ UNCHANGED <<envVars, caches, noticed, passVars, beatVars, disk, usageVars, requestVars>>

\* A step of a thread that is itself in the middle of forgetting waits for that to end.
Free(who) == forgetPc = "idle" \/ forgetBy # who

----------------------------------------------------------------------------
(* Passes *)

\* The beat's thread, or a request that finds the reading due, takes the refresh slot.
StartPass ==
  /\ passPc = "idle"
  /\ beatPc = "idle"
  /\ passPc' = IF clearBeforePass THEN "clear" ELSE "collect"
  /\ passPrevious' = github
  /\ passForgets' = forgets
  /\ clearBeforePass' = FALSE
  /\ UNCHANGED <<envVars, faults, github, kept, forgets, caches, noticed, passResult, passLost,
                 beatVars, forgetVars, disk, usageVars, requestVars>>

ClearFirst ==
  /\ passPc = "clear"
  /\ caches' = Empty
  /\ passPc' = "collect"
  /\ UNCHANGED <<envVars, faults, github, keptVars, noticed, passPrevious, passForgets, passResult,
                 passLost, beatVars, forgetVars, disk, usageVars, requestVars>>

\* The repositories it could read, the ones refused, and the rest missed for another reason.
PassReads ==
  /\ passPc = "collect"
  /\ \E read \in SUBSET access, lost \in SUBSET (Repos \ access) :
       /\ IF read = access THEN UNCHANGED faults ELSE Fault
       /\ caches' = Taken(caches, read)
       /\ passResult' = Merge(read, lost, passPrevious, lost # {})
       /\ passLost' = lost
       /\ passPc' = IF lost = {} THEN "keep" ELSE "revokeUsage"
  /\ UNCHANGED <<envVars, github, keptVars, noticed, passPrevious, passForgets,
                 beatVars, forgetVars, disk, usageVars, requestVars>>

\* The pass ends on a failure of GitHub's that is not a refusal.
PassFails ==
  /\ passPc = "collect"
  /\ Fault
  /\ passResult' = LastOr(passPrevious, EmptyGithub(FALSE))
  /\ passLost' = {}
  /\ passPc' = "publish"
  /\ UNCHANGED <<envVars, github, keptVars, caches, noticed, passPrevious, passForgets,
                 beatVars, forgetVars, disk, usageVars, requestVars>>

\* The token itself is refused.
PassRefused ==
  /\ passPc = "collect"
  /\ access = {}
  /\ passResult' = EmptyGithub(TRUE)
  /\ passLost' = Repos
  /\ passPc' = "revokeUsage"
  /\ UNCHANGED <<envVars, faults, github, keptVars, caches, noticed, passPrevious, passForgets,
                 beatVars, forgetVars, disk, usageVars, requestVars>>

\* A failure this code cannot explain is blamed on what was handed over.
PassBreaks ==
  /\ passPc = "collect"
  /\ Fault
  /\ ForgetKept("pass")
  /\ passResult' = LastOr(passPrevious, EmptyGithub(FALSE))
  /\ passLost' = {}
  /\ passPc' = "publish"
  /\ UNCHANGED <<envVars, caches, noticed, passPrevious, passForgets,
                 beatVars, disk, usageVars, requestVars>>

RevokeUsage(pc) == pc = "revokeUsage" /\ ResetUsage
RevokeCaches(pc) == pc = "revokeCaches" /\ caches' = Empty
RevokeDisk(pc) ==
  /\ pc = "revokeDisk"
  /\ disk' = [reading |-> NoReading, caches |-> Empty, usage |-> Empty]

\* Access was refused: the history reader, the collector's caches and the disk, in this order.
PassRevokes ==
  /\ \/ /\ RevokeUsage(passPc)
        /\ passPc' = "revokeCaches"
        /\ UNCHANGED <<caches, disk>>
     \/ /\ RevokeCaches(passPc)
        /\ passPc' = "revokeDisk"
        /\ UNCHANGED <<disk, usageVars>>
     \/ /\ RevokeDisk(passPc)
        /\ passPc' = "publish"
        /\ UNCHANGED <<caches, usageVars>>
  /\ UNCHANGED <<envVars, faults, github, keptVars, noticed, passPrevious, passForgets, passResult,
                 passLost, beatVars, forgetVars, requestVars>>

\* What it read is kept on disk unless kept state was forgotten meanwhile, as this looks at it.
MayKeep == forgets = passForgets
PassLooks ==
  /\ passPc = "keep"
  /\ passPc' = IF MayKeep THEN "saveReading" ELSE "publish"
  /\ UNCHANGED <<envVars, faults, github, keptVars, caches, noticed, passPrevious, passForgets,
                 passResult, passLost, beatVars, forgetVars, disk, usageVars, requestVars>>

\* One document after the other; one the disk refuses leaves the document before it.
SaveReading ==
  /\ passPc = "saveReading"
  /\ \/ disk' = [disk EXCEPT !.reading = passResult] /\ UNCHANGED faults
     \/ Fault /\ UNCHANGED disk
  /\ passPc' = "saveCaches"
  /\ UNCHANGED <<envVars, github, keptVars, caches, noticed, passPrevious, passForgets,
                 passResult, passLost, beatVars, forgetVars, usageVars, requestVars>>

SaveCaches ==
  /\ passPc = "saveCaches"
  /\ \/ disk' = [disk EXCEPT !.caches = caches] /\ UNCHANGED faults
     \/ Fault /\ UNCHANGED disk
  /\ passPc' = "publish"
  /\ UNCHANGED <<envVars, github, keptVars, caches, noticed, passPrevious, passForgets,
                 passResult, passLost, beatVars, forgetVars, usageVars, requestVars>>

\* A pass that began before a forgetting publishes nothing kept and leaves no file.
Published ==
  IF forgets = passForgets THEN passResult
  ELSE IF WithoutKept(passResult).there THEN WithoutKept(passResult) ELSE EmptyGithub(FALSE)

Publish ==
  /\ passPc = "publish"
  /\ Free("pass")
  /\ github' = Published
  /\ disk' = IF forgets = passForgets THEN disk
             ELSE [reading |-> NoReading, caches |-> Empty, usage |-> Empty]
  /\ noticed' = noticed \cup passLost
  /\ passPc' = "idle"
  /\ passPrevious' = NoReading
  /\ passResult' = NoReading
  /\ UNCHANGED <<envVars, faults, keptVars, caches, passForgets, passLost,
                 beatVars, forgetVars, usageVars, requestVars>>

----------------------------------------------------------------------------
(* Head beats *)

StartBeat ==
  /\ passPc = "idle"
  /\ beatPc = "idle"
  /\ github.there
  /\ beatPc' = "read"
  /\ beatForgets' = forgets
  /\ beatGithub' = github
  /\ beatLost' = {}
  /\ UNCHANGED <<envVars, faults, github, keptVars, caches, noticed, passVars,
                 forgetVars, disk, usageVars, requestVars>>

BeatReads ==
  /\ beatPc = "read"
  /\ \E seen \in SUBSET access : beatGithub' = ApplyHeads(beatGithub, seen)
  /\ beatPc' = "publish"
  /\ UNCHANGED <<envVars, faults, github, keptVars, caches, noticed, passVars, beatForgets, beatLost,
                 forgetVars, disk, usageVars, requestVars>>

BeatFails ==
  /\ beatPc = "read"
  /\ Fault
  /\ beatPc' = "idle"
  /\ beatGithub' = NoReading
  /\ UNCHANGED <<envVars, github, keptVars, caches, noticed, passVars, beatForgets, beatLost,
                 forgetVars, disk, usageVars, requestVars>>

BeatRefused ==
  /\ beatPc = "read"
  /\ access = {}
  /\ beatGithub' = EmptyGithub(TRUE)
  /\ beatLost' = Repos
  /\ beatPc' = "revokeUsage"
  /\ UNCHANGED <<envVars, faults, github, keptVars, caches, noticed, passVars, beatForgets,
                 forgetVars, disk, usageVars, requestVars>>

BeatRevokes ==
  /\ \/ /\ RevokeUsage(beatPc)
        /\ beatPc' = "revokeCaches"
        /\ UNCHANGED <<caches, disk>>
     \/ /\ RevokeCaches(beatPc)
        /\ beatPc' = "revokeDisk"
        /\ UNCHANGED <<disk, usageVars>>
     \/ /\ RevokeDisk(beatPc)
        /\ beatPc' = "publish"
        /\ UNCHANGED <<caches, usageVars>>
  /\ UNCHANGED <<envVars, faults, github, keptVars, noticed, passVars, beatForgets, beatGithub, beatLost,
                 forgetVars, requestVars>>

\* (mutant) a forgetting meanwhile is not looked at
BeatCurrent_Any == passPc = "idle"

\* Only onto the reading it copied: a pass or a forgetting in between wins.
BeatCurrent == passPc = "idle" /\ forgets = beatForgets

BeatPublishes ==
  /\ beatPc = "publish"
  /\ IF BeatCurrent
     THEN /\ github' = beatGithub
          /\ noticed' = noticed \cup beatLost
     ELSE UNCHANGED <<github, noticed>>
  /\ beatPc' = "idle"
  /\ beatGithub' = NoReading
  /\ UNCHANGED <<envVars, faults, keptVars, caches, passVars, beatForgets, beatLost,
                 forgetVars, disk, usageVars, requestVars>>

----------------------------------------------------------------------------
(* The token history *)

NoThread == [pc |-> "idle", current |-> FALSE, cache |-> Empty, value |-> Empty,
             has |-> FALSE, lost |-> FALSE]

\* One reader at a time, with the records of the current reader.
StartUsage(t, revoked) ==
  /\ ~usageRunning
  /\ ~revoked
  /\ github.there
  /\ thread[t].pc = "idle"
  /\ usageRunning' = TRUE
  /\ thread' = [thread EXCEPT ![t] = [NoThread EXCEPT !.pc = "read", !.current = TRUE,
                                                      !.cache = usageCache]]
  /\ UNCHANGED <<usageResult, usageCache>>

\* A request takes its copy of the reading, and then looks at the token history.
Request ==
  /\ requestPc = "idle"
  /\ requestPc' = "usage"
  /\ requestRefused' = github.refused
  /\ UNCHANGED <<envVars, faults, github, keptVars, caches, noticed, passVars, beatVars,
                 forgetVars, disk, usageVars, usageRevoked>>

\* Access newly refused makes the reader's history forgotten once more.
RequestUsage ==
  /\ requestPc = "usage"
  /\ requestPc' = "idle"
  /\ usageRevoked' = requestRefused
  /\ IF requestRefused /\ ~usageRevoked THEN ResetUsage
     ELSE \/ \E t \in Threads : StartUsage(t, requestRefused)
          \/ UNCHANGED usageVars
  /\ UNCHANGED <<envVars, faults, github, keptVars, caches, noticed, passVars, beatVars,
                 forgetVars, disk, requestRefused>>

\* The beat's thread starts a reading too, by what the last request saw.
BeatUsage ==
  /\ \E t \in Threads : StartUsage(t, usageRevoked)
  /\ UNCHANGED <<envVars, faults, github, keptVars, caches, noticed, passVars, beatVars,
                 forgetVars, disk, requestVars>>

\* The reader's own cache, while it is still the current reader.
Reader(t, cache) == usageCache' = IF thread[t].current THEN cache ELSE usageCache

\* What it could list, and for the rest the records it had; a refusal takes them all.
UsageReads(t) ==
  /\ thread[t].pc = "read"
  /\ \/ \E read \in SUBSET access :
          LET cache == Taken(thread[t].cache, read) IN
          /\ Reader(t, cache)
          /\ thread' = [thread EXCEPT ![t] = [@ EXCEPT !.pc = "finish", !.cache = cache,
                                                       !.value = cache, !.has = TRUE]]
     \/ /\ access # Repos
        /\ Reader(t, Empty)
        /\ thread' = [thread EXCEPT ![t] = [@ EXCEPT !.pc = "finish", !.cache = Empty,
                                                     !.has = TRUE, !.lost = TRUE]]
  /\ UNCHANGED <<envVars, faults, github, keptVars, caches, noticed, passVars, beatVars,
                 forgetVars, disk, usageResult, usageRunning, requestVars>>

\* A failure without a result; one this code cannot explain is blamed on what was handed over.
UsageFails(t) ==
  /\ thread[t].pc = "read"
  /\ Fault
  /\ \/ ForgetKept("usage")
     \/ UNCHANGED <<keptVars, github, forgetVars>>
  /\ thread' = [thread EXCEPT ![t].pc = "finish"]
  /\ UNCHANGED <<envVars, caches, noticed, passVars, beatVars, disk, usageResult, usageCache,
                 usageRunning, requestVars>>

UsageFinishes(t) ==
  /\ thread[t].pc = "finish"
  /\ Free("usage")
  /\ usageRunning' = FALSE
  /\ usageResult' = IF thread[t].current /\ thread[t].has THEN thread[t].value ELSE usageResult
  /\ thread' = [thread EXCEPT ![t].pc = IF ~thread[t].current THEN "idle"
                                        ELSE IF thread[t].has /\ ~thread[t].lost THEN "save"
                                        ELSE "recheck"]
  /\ UNCHANGED <<envVars, faults, github, keptVars, caches, noticed, passVars, beatVars,
                 forgetVars, disk, usageCache, requestVars>>

\* Written without the lock that requests take.
UsageSaves(t) ==
  /\ thread[t].pc = "save"
  /\ \/ disk' = [disk EXCEPT !.usage = thread[t].value] /\ UNCHANGED faults
     \/ Fault /\ UNCHANGED disk
  /\ thread' = [thread EXCEPT ![t].pc = "recheck"]
  /\ UNCHANGED <<envVars, github, keptVars, caches, noticed, passVars, beatVars,
                 forgetVars, usageResult, usageCache, usageRunning, requestVars>>

\* (mutant) a thread replaced by a newer one writes on
Gone_Lost(t) == thread[t].lost

\* Access lost, or a new reader, while it was writing leaves no file.
Gone(t) == thread[t].lost \/ ~thread[t].current
UsageRechecks(t) ==
  /\ thread[t].pc = "recheck"
  /\ disk' = IF Gone(t) THEN [disk EXCEPT !.usage = Empty] ELSE disk
  /\ thread' = [thread EXCEPT ![t] = NoThread]
  /\ UNCHANGED <<envVars, faults, github, keptVars, caches, noticed, passVars, beatVars,
                 forgetVars, usageResult, usageCache, usageRunning, requestVars>>

----------------------------------------------------------------------------
(* GitHub and the process *)

Lose ==
  /\ losses < MaxLosses
  /\ losses' = losses + 1
  /\ \E lost \in (SUBSET access) \ {{}} : access' = access \ lost
  /\ UNCHANGED <<restarts, faults, github, keptVars, caches, noticed, passVars, beatVars,
                 forgetVars, disk, usageVars, requestVars>>

\* A document too old, unreadable or not this owner's is deleted; the rest is handed over.
Restart ==
  /\ restarts < MaxRestarts
  /\ restarts' = restarts + 1
  /\ \E good \in SUBSET Docs :
       LET loaded == [reading |-> IF "reading" \in good THEN disk.reading ELSE NoReading,
                      caches |-> IF "caches" \in good THEN disk.caches ELSE Empty,
                      usage |-> IF "usage" \in good THEN disk.usage ELSE Empty] IN
       /\ disk' = loaded
       /\ github' = IF loaded.reading.there THEN OldReading(loaded.reading) ELSE NoReading
       /\ caches' = Handed(loaded.caches)
       /\ usageResult' = Handed(loaded.usage)
       /\ usageCache' = Handed(loaded.usage)
       /\ kept' = (loaded.reading.there \/ loaded.caches # Empty \/ loaded.usage # Empty)
  /\ forgets' = 0 /\ clearBeforePass' = FALSE /\ noticed' = {}
  /\ passPc' = "idle" /\ passPrevious' = NoReading /\ passForgets' = 0
  /\ passResult' = NoReading /\ passLost' = {}
  /\ beatPc' = "idle" /\ beatForgets' = 0 /\ beatGithub' = NoReading /\ beatLost' = {}
  /\ forgetPc' = "idle" /\ forgetBy' = "nobody"
  /\ usageRunning' = FALSE /\ usageRevoked' = FALSE
  /\ thread' = [t \in Threads |-> NoThread]
  /\ requestPc' = "idle" /\ requestRefused' = FALSE
  /\ UNCHANGED <<access, losses, faults>>

Init ==
  /\ access = Repos /\ losses = 0 /\ restarts = 0 /\ faults = 0
  /\ github = NoReading /\ kept = FALSE /\ forgets = 0 /\ clearBeforePass = FALSE
  /\ caches = Empty /\ noticed = {}
  /\ passPc = "idle" /\ passPrevious = NoReading /\ passForgets = 0
  /\ passResult = NoReading /\ passLost = {}
  /\ beatPc = "idle" /\ beatForgets = 0 /\ beatGithub = NoReading /\ beatLost = {}
  /\ forgetPc = "idle" /\ forgetBy = "nobody"
  /\ disk = [reading |-> NoReading, caches |-> Empty, usage |-> Empty]
  /\ usageResult = Empty /\ usageCache = Empty /\ usageRunning = FALSE /\ usageRevoked = FALSE
  /\ thread = [t \in Threads |-> NoThread]
  /\ requestPc = "idle" /\ requestRefused = FALSE

Pass == \/ StartPass \/ ClearFirst \/ PassReads \/ PassFails \/ PassRefused \/ PassBreaks
        \/ PassRevokes \/ PassLooks \/ SaveReading \/ SaveCaches \/ Publish
Beat == StartBeat \/ BeatReads \/ BeatFails \/ BeatRefused \/ BeatRevokes \/ BeatPublishes
Usage(t) == UsageReads(t) \/ UsageFails(t) \/ UsageFinishes(t) \/ UsageSaves(t) \/ UsageRechecks(t)
Forgetting == RequestBreaks \/ ForgetDisk \/ ForgetUsage

Next == \/ Pass \/ Beat \/ Forgetting
        \/ Request \/ RequestUsage \/ BeatUsage \/ \E t \in Threads : Usage(t)
        \/ Lose \/ Restart

\* A thread that began goes on; the beat's loop tries a pass again and again, between its beats.
PassEnds == ClearFirst \/ PassReads \/ PassFails \/ PassRefused \/ PassRevokes \/ PassLooks
            \/ SaveReading \/ SaveCaches \/ Publish
BeatEnds == BeatReads \/ BeatFails \/ BeatRefused \/ BeatRevokes \/ BeatPublishes
Fairness == /\ WF_vars(PassEnds) /\ WF_vars(BeatEnds) /\ SF_vars(StartPass)
            /\ WF_vars(ForgetDisk \/ ForgetUsage)

Spec == Init /\ [][Next]_vars /\ Fairness

----------------------------------------------------------------------------
(* Properties *)

\* Every variable holds what its operations may put there.
ThreadPc == {"idle", "read", "finish", "save", "recheck"}
RevokePc == {"revokeUsage", "revokeCaches", "revokeDisk"}
TypeOK ==
  /\ access \in SUBSET Repos /\ noticed \in SUBSET Repos
  /\ github \in Reading /\ passPrevious \in Reading /\ passResult \in Reading /\ beatGithub \in Reading
  /\ kept \in BOOLEAN /\ clearBeforePass \in BOOLEAN
  /\ forgets \in {0, 1} /\ passForgets \in {0, 1} /\ beatForgets \in {0, 1}
  /\ caches \in Data /\ usageResult \in Data /\ usageCache \in Data
  /\ passPc \in RevokePc \cup {"idle", "clear", "collect", "keep", "saveReading", "saveCaches", "publish"}
  /\ beatPc \in RevokePc \cup {"idle", "read", "publish"}
  /\ passLost \in SUBSET Repos /\ beatLost \in SUBSET Repos
  /\ forgetPc \in {"idle", "disk", "usage"} /\ forgetBy \in {"nobody", "request", "pass", "usage"}
  /\ disk \in [reading : Reading, caches : Data, usage : Data]
  /\ usageRunning \in BOOLEAN /\ usageRevoked \in BOOLEAN
  /\ requestPc \in {"idle", "usage"} /\ requestRefused \in BOOLEAN
  /\ thread \in [Threads -> [pc : ThreadPc, current : BOOLEAN, cache : Data, value : Data,
                             has : BOOLEAN, lost : BOOLEAN]]
  /\ faults \in 0..MaxFaults /\ restarts \in 0..MaxRestarts /\ losses \in 0..MaxLosses

Writing(t) == thread[t].pc \in {"save", "recheck"}

\* Access was refused: nothing read with it stays, in memory or on disk. Once a pass or beat has
\* published that a repository is refused, no row, cache or document of this process holds
\* anything of it; only a history being written may lie on disk, until its thread looks again.
RefusedLeavesNothing ==
  \A r \in noticed :
    /\ github.rows[r] = "none" /\ caches[r] = "none"
    /\ usageResult[r] = "none" /\ usageCache[r] = "none"
    /\ disk.reading.rows[r] = "none" /\ disk.caches[r] = "none"
    /\ disk.usage[r] = "none" \/ \E t \in Threads : Writing(t) /\ Gone(t)

HandedOver(data) == \E r \in Repos : data[r] = "kept"

\* What a start handed over is dropped in memory and on disk: once it was forgotten, and the pass
\* that was under way has published, neither the reading, nor the caches of a pass, nor the token
\* history, nor the store's reading and caches hold any of it.
ForgottenIsGone ==
  (forgets = 1 /\ forgetPc = "idle") =>
    /\ ~HandedOver(github.rows) /\ ~github.restored
    /\ ~HandedOver(usageResult) /\ ~HandedOver(usageCache)
    /\ passPc = "idle" \/ passForgets = 1 =>
         /\ ~HandedOver(disk.reading.rows) /\ ~HandedOver(disk.caches)
         /\ HandedOver(caches) => clearBeforePass \/ passPc = "clear"

\* With the page closed or not, a reading handed over is in the end replaced by one of this
\* process's own, by an empty one, or forgotten.
OldReadingGoes == []<>~github.restored

\* The service keeps the dashboard's promise (Reading).
R == INSTANCE Reading WITH shown <- github.rows, handed <- kept, refused <- noticed
KeepsPromise == R!ReadingSpec
=============================================================================
