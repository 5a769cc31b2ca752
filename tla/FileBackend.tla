---------------------------- MODULE FileBackend ----------------------------
(***************************************************************************)
(* storage.File: one record per key, holding its counter and its ban,      *)
(* under one mutex, and a JSON file that the records are saved to every    *)
(* 30 seconds while dirty, and by Close.                                   *)
(*                                                                         *)
(* A call holds the mutex throughout and is one action.  A save holds it   *)
(* too, but the process may crash in the middle and the clock moves on: it *)
(* is a first step that prunes and fixes the image to write, and a second  *)
(* that renames the finished temp file over the live one, or fails.        *)
(* Creating, writing, syncing and closing the temp file change nothing a   *)
(* client or a restart can see, and each may fail with the same effect.    *)
(***************************************************************************)
EXTENDS Integers

CONSTANTS Keys,         \* the keys in use
          WindowOf,     \* key -> the window its callers pass to Incr
          Durations,    \* the durations passed to Block
          LegacyWindow, \* recordWindow's five minutes
          InitialFiles, \* what the file may hold before the first start
          Epoch,        \* the clock at the first start
          MaxTime,      \* bound on the clock
          MaxCount,     \* bound on a counter
          MaxCrashes    \* bound on the crashes

NoRecord == [count |-> 0, windowStart |-> 0, window |-> 0, blockUntil |-> 0]

ASSUME FileAssumption ==
    /\ WindowOf \in [Keys -> Nat \ {0}]
    /\ Durations \subseteq Nat \ {0}
    /\ LegacyWindow \in Nat \ {0}
    /\ InitialFiles \subseteq
         [Keys -> [count : Nat, windowStart : Nat, window : Nat, blockUntil : Nat]]
    /\ Epoch \in Nat \ {0}
    /\ \A k \in Keys : WindowOf[k] < Epoch
    /\ MaxTime \in Nat /\ MaxCount \in Nat /\ MaxCrashes \in Nat

\* The files were written by this program: Incr starts a counter at 1 and notes
\* the instant and the window, an older version of it did not note the window,
\* and Block alone leaves a record without a counter.
ASSUME FilesAssumption ==
    \A f \in InitialFiles, k \in Keys :
      /\ f[k].count = 0 <=> f[k].windowStart = 0
      /\ f[k].window \in {0, WindowOf[k]}

VARIABLES now,      \* the wall clock
          up,       \* the process runs
          records,  \* File.records; NoRecord where the map has no entry
          dirty,    \* File.dirty
          closed,   \* File.closed
          autosaver,\* the autoSave goroutine: "running" or "stopped"
          saver,    \* who is inside saveLocked: "none", "auto" or "close"
          image,    \* the records that the save in progress writes
          disk,     \* the live file; no file and an empty array are the same
          pending,  \* the keys changed since the last save that succeeded
          crashes,  \* how many crashes there were
          answer,   \* result of the last Incr or Get
          verdict   \* result of the last IsBlocked

vars == <<now, up, records, dirty, closed, autosaver, saver, image, disk, pending, crashes,
          answer, verdict>>

NoRecords == [k \in Keys |-> NoRecord]

NoResult == [op |-> "none"]

\* The live file: whether it is one complete JSON array, and of what.
FileOf(recs) == [whole |-> TRUE, recs |-> recs]

Torn == [whole |-> FALSE, recs |-> NoRecords]

\* NewFile: a file that cannot be read or parsed counts as empty.
Loaded(file) == IF file.whole THEN file.recs ELSE NoRecords

Init ==
    /\ now = Epoch
    /\ up = TRUE
    /\ disk \in {FileOf(f) : f \in InitialFiles}
    /\ records = Loaded(disk)
    /\ dirty = FALSE
    /\ closed = FALSE
    /\ autosaver = "running"
    /\ saver = "none"
    /\ image = NoRecords
    /\ pending = {}
    /\ crashes = 0
    /\ answer = NoResult
    /\ verdict = NoResult

Tick ==
    /\ now < MaxTime
    /\ now' = now + 1
    /\ UNCHANGED <<up, records, dirty, closed, autosaver, saver, image, disk, pending, crashes,
                   answer, verdict>>

-----------------------------------------------------------------------------
(***************************************************************************)
(* Calls.                                                                  *)
(***************************************************************************)

Unlocked == up /\ saver = "none"

\* Mutant: a counter that grows does not mark the records dirty.
MutatedClean(k) ==
    /\ dirty' = (dirty \/ records[k].count = 0)
    /\ pending' = pending \cup {k}

Mutated(k) ==
    /\ dirty' = TRUE
    /\ pending' = pending \cup {k}

Incr(k) ==
    /\ Unlocked
    /\ records[k].count < MaxCount
    /\ IF records[k] = NoRecord \/ now - records[k].windowStart > WindowOf[k]
         THEN records' = [records EXCEPT ![k] = [count |-> 1, windowStart |-> now,
                                                 window |-> WindowOf[k], blockUntil |-> 0]]
         ELSE records' = [records EXCEPT ![k].count = @ + 1, ![k].window = WindowOf[k]]
    /\ Mutated(k)
    /\ answer' = [op |-> "incr", key |-> k, val |-> records'[k].count]
    /\ UNCHANGED <<now, up, closed, autosaver, saver, image, disk, crashes, verdict>>

Get(k) ==
    /\ Unlocked
    /\ LET r == records[k] IN
         answer' = [op |-> "get", key |-> k,
                    val |-> IF r.window > 0 /\ now - r.windowStart > r.window
                              THEN 0 ELSE r.count]
    /\ UNCHANGED <<now, up, records, dirty, closed, autosaver, saver, image, disk, pending, crashes,
                   verdict>>

Block(k, d) ==
    /\ Unlocked
    /\ records' = [records EXCEPT ![k].blockUntil = now + d]
    /\ Mutated(k)
    /\ UNCHANGED <<now, up, closed, autosaver, saver, image, disk, crashes, answer, verdict>>

IsBlocked(k) ==
    /\ Unlocked
    /\ verdict' = [op |-> "isBlocked", key |-> k, val |-> now < records[k].blockUntil]
    /\ UNCHANGED <<now, up, records, dirty, closed, autosaver, saver, image, disk, pending, crashes,
                   answer>>

-----------------------------------------------------------------------------
(***************************************************************************)
(* Saving.                                                                 *)
(***************************************************************************)

recordWindow(r) == IF r.window > 0 THEN r.window ELSE LegacyWindow

BlockAlive(r) == r.blockUntil # 0 /\ now < r.blockUntil

WindowAlive(r) == r.windowStart # 0 /\ now - r.windowStart <= recordWindow(r)

\* Mutant: a record goes as soon as either its ban or its counter is over.
PrunedEager == [k \in Keys |-> IF BlockAlive(records[k]) /\ WindowAlive(records[k])
                                 THEN records[k] ELSE NoRecord]

\* What saveLocked keeps, in the map and in the array it writes.
Pruned == [k \in Keys |-> IF BlockAlive(records[k]) \/ WindowAlive(records[k])
                            THEN records[k] ELSE NoRecord]

\* Mutant: the live file is rewritten in place.
BeginSaveInPlace(who) ==
    /\ Unlocked
    /\ saver' = who
    /\ records' = Pruned
    /\ image' = Pruned
    /\ disk' = Torn
    /\ UNCHANGED <<now, up, dirty, autosaver, pending, crashes, answer, verdict>>

BeginSave(who) ==
    /\ Unlocked
    /\ saver' = who
    /\ records' = Pruned
    /\ image' = Pruned
    /\ UNCHANGED <<now, up, dirty, autosaver, disk, pending, crashes, answer, verdict>>

\* The ticker fires with something to save.  The select may still choose the
\* ticker after Close, when both of its channels are ready.
AutoSave ==
    /\ autosaver = "running"
    /\ dirty
    /\ BeginSave("auto")
    /\ UNCHANGED closed

\* The goroutine, not inside a save, sees the closed channel.
AutoSaveStop ==
    /\ up /\ autosaver = "running"
    /\ closed /\ saver # "auto"
    /\ autosaver' = "stopped"
    /\ UNCHANGED <<now, up, records, dirty, closed, saver, image, disk, pending, crashes,
                   answer, verdict>>

\* Close, and any later call of it, saves whatever dirty says.
Close ==
    /\ BeginSave("close")
    /\ closed' = TRUE

\* The rename succeeded.  Only autoSave clears dirty.
SaveDone ==
    /\ up /\ saver # "none"
    /\ disk' = FileOf(image)
    /\ dirty' = (dirty /\ saver # "auto")
    /\ pending' = {}
    /\ saver' = "none"
    /\ image' = NoRecords
    /\ UNCHANGED <<now, up, records, closed, autosaver, crashes, answer, verdict>>

\* Mutant: dirty is cleared whether or not the save succeeded.
SaveFailsClean ==
    /\ up /\ saver # "none"
    /\ saver' = "none"
    /\ image' = NoRecords
    /\ dirty' = (dirty /\ saver # "auto")
    /\ UNCHANGED <<now, up, records, closed, autosaver, disk, pending, crashes, answer, verdict>>

\* Marshalling, the temp file or the rename failed; the temp file is removed.
SaveFails ==
    /\ up /\ saver # "none"
    /\ saver' = "none"
    /\ image' = NoRecords
    /\ UNCHANGED <<now, up, records, dirty, closed, autosaver, disk, pending, crashes, answer, verdict>>

\* The process dies, in the middle of a save or not.
Crash ==
    /\ up
    /\ crashes < MaxCrashes
    /\ crashes' = crashes + 1
    /\ up' = FALSE
    /\ records' = NoRecords
    /\ dirty' = FALSE
    /\ closed' = FALSE
    /\ autosaver' = "running"
    /\ saver' = "none"
    /\ image' = NoRecords
    /\ pending' = {}
    /\ answer' = NoResult
    /\ verdict' = NoResult
    /\ UNCHANGED <<now, disk>>

\* NewFile in a new process.
NewFile ==
    /\ ~up
    /\ up' = TRUE
    /\ records' = Loaded(disk)
    /\ UNCHANGED <<now, dirty, closed, autosaver, saver, image, disk, pending, crashes, answer, verdict>>

Next ==
    \/ Tick
    \/ \E k \in Keys : Incr(k) \/ Get(k) \/ IsBlocked(k)
    \/ \E k \in Keys, d \in Durations : Block(k, d)
    \/ AutoSave \/ AutoSaveStop \/ Close \/ SaveDone \/ SaveFails
    \/ Crash \/ NewFile

Spec == Init /\ [][Next]_vars

-----------------------------------------------------------------------------
(***************************************************************************)
(* Properties.                                                             *)
(***************************************************************************)

Records == [count : Nat, windowStart : Nat, window : Nat, blockUntil : Nat]

\* The type invariant.
TypeOK ==
    /\ now \in Nat
    /\ up \in BOOLEAN /\ dirty \in BOOLEAN /\ closed \in BOOLEAN
    /\ records \in [Keys -> Records]
    /\ saver \in {"none", "auto", "close"}
    /\ image \in [Keys -> Records]
    /\ disk \in [whole : BOOLEAN, recs : [Keys -> Records]]
    /\ autosaver \in {"running", "stopped"}
    /\ pending \subseteq Keys
    /\ crashes \in Nat

\* What of a record still matters to a client: its counter and its ban.
Counter(r) == IF WindowAlive(r) THEN [count |-> r.count, since |-> r.windowStart]
                                ELSE [count |-> 0, since |-> 0]

BanEnd(r) == IF BlockAlive(r) THEN r.blockUntil ELSE 0

SameToClient(r, s) == Counter(r) = Counter(s) /\ BanEnd(r) = BanEnd(s)

\* A crash at any instant, in the middle of a save that fails or not, loses
\* only what was changed after the last save that succeeded: every other live
\* counter and ban reads the same from the file.  A clean exit therefore loses
\* nothing, once Close's own save has succeeded.
CrashLosesOnlyPending ==
    up => \A k \in Keys \ pending : SameToClient(records[k], Loaded(disk)[k])

\* What is not yet on disk will be saved again: a failed save, and Close, keep
\* the dirty flag, so the next autosave retries.
PendingIsDirty == pending # {} => dirty

\* The two together: what is true of the records and flags in every state.
FileInvariant == TypeOK /\ PendingIsDirty

-----------------------------------------------------------------------------
(***************************************************************************)
(* Refinement, while the process runs.                                     *)
(***************************************************************************)

Counting == INSTANCE WindowCounter
              WITH counter <- [k \in Keys |-> Counter(records[k])]

Banning == INSTANCE BanList
              WITH ban <- [k \in Keys |-> BanEnd(records[k])]

\* A counter of the format that did not record its window.
Legacy(r) == r.count > 0 /\ r.window = 0

\* Incr and Get keep the counting contract while the process runs, whatever a
\* save prunes and a restart has read from the file, but for counters of the
\* old format, whose window nobody knows.
CountsAsPromised ==
    [][up /\ up' /\ (\A k \in Keys : ~Legacy(records[k])) => Counting!CNext]_Counting!cvars

\* "block for the given duration" (Backend.Block): the ban contract.
BansAsPromised == Banning!BSpec

-----------------------------------------------------------------------------
(***************************************************************************)
(* Liveness.  The autosave goroutine runs and its ticker fires until Close *)
(* (weak fairness); a disk that is tried again and again does not fail for *)
(* ever (strong fairness of a save that succeeds); a crashed process is    *)
(* started again.                                                          *)
(***************************************************************************)

FairSpec ==
    /\ Spec
    /\ WF_vars(AutoSave) /\ WF_vars(NewFile)
    /\ WF_vars(SaveFails \/ SaveDone) /\ SF_vars(SaveDone)

\* A change reaches the disk however often a save fails, unless the process
\* crashes or closes the backend first.
ChangesReachDisk ==
    \A k \in Keys : (k \in pending /\ ~closed) ~> (k \notin pending \/ closed)
=============================================================================
