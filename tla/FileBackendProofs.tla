------------------------- MODULE FileBackendProofs -------------------------
(***************************************************************************)
(* A crash of storage.File loses only what was changed after the last save *)
(* that succeeded, and neither saves nor restarts disturb its counting: for *)
(* any keys, windows and files to start from.                              *)
(***************************************************************************)
EXTENDS FileBackend, TLAPS

\* A record that no client can see any more, now or later.
Over(r) == ~BlockAlive(r) /\ ~WindowAlive(r)

\* The file holds what is in memory, up to a record that a save has pruned.
Backed(r, d) == r = d \/ (r = NoRecord /\ Over(d))

\* What a save works on is the map as it is.
SaveIsCurrent == saver # "none" => up /\ image = records

DiskIsBehind ==
    /\ disk.whole
    /\ ~up => pending = {} /\ ~dirty
    /\ up => \A k \in Keys \ pending : Backed(records[k], disk.recs[k])

IInv == TypeOK /\ PendingIsDirty /\ SaveIsCurrent /\ DiskIsBehind

RecordMaps == [Keys -> Records]

LEMMA NoRecordIsOver == NoRecord \in Records /\ (now \in Nat => Over(NoRecord))
  BY DEF NoRecord, Records, Over, BlockAlive, WindowAlive

LEMMA BackedReads ==
    ASSUME TypeOK, NEW r, NEW d, Backed(r, d)
    PROVE  SameToClient(r, d)
<1>1. CASE r = d
  BY <1>1 DEF SameToClient
<1>2. CASE r = NoRecord /\ Over(d)
  <2>1. Over(r)
    BY <1>2, NoRecordIsOver DEF TypeOK
  <2> QED BY <1>2, <2>1 DEF Over, SameToClient, Counter, BanEnd
<1> QED BY <1>1, <1>2 DEF Backed

LEMMA CrashLoss == IInv => CrashLosesOnlyPending
<1> SUFFICES ASSUME IInv, up, NEW k \in Keys \ pending
             PROVE  SameToClient(records[k], Loaded(disk)[k])
    BY DEF CrashLosesOnlyPending
<1>1. Loaded(disk) = disk.recs
  BY DEF IInv, DiskIsBehind, Loaded
<1>2. Backed(records[k], disk.recs[k])
  BY DEF IInv, DiskIsBehind
<1> QED BY <1>1, <1>2, BackedReads DEF IInv

-----------------------------------------------------------------------------

LEMMA InitIInv == Init => IInv
<1> SUFFICES ASSUME Init PROVE IInv
    OBVIOUS
<1>1. PICK f \in InitialFiles : disk = FileOf(f)
  BY DEF Init
<1>2. f \in RecordMaps
  BY FileAssumption DEF RecordMaps, Records
<1>3. /\ disk.whole /\ disk.recs = f
      /\ disk \in [whole : BOOLEAN, recs : [Keys -> Records]]
  BY <1>1, <1>2 DEF FileOf, RecordMaps
<1>4. records = f
  BY <1>3 DEF Init, Loaded
<1>5. NoRecords \in RecordMaps
  BY NoRecordIsOver DEF NoRecords, RecordMaps
<1>6. TypeOK
  BY <1>2, <1>3, <1>4, <1>5, FileAssumption DEF Init, TypeOK, RecordMaps
<1>7. DiskIsBehind
  BY <1>3, <1>4 DEF Init, DiskIsBehind, Backed
<1>8. PendingIsDirty /\ SaveIsCurrent
  BY DEF Init, PendingIsDirty, SaveIsCurrent
<1> QED BY <1>6, <1>7, <1>8 DEF IInv

\* Time passes, and what is over stays over.
LEMMA TickKeeps == IInv /\ Tick => IInv'
<1> SUFFICES ASSUME IInv, Tick PROVE IInv'
    OBVIOUS
<1>1. TypeOK'
  BY DEF IInv, TypeOK, Tick
<1>2. ASSUME NEW d \in Records, Over(d) PROVE Over(d)'
  <2>1. now \in Nat /\ now' = now + 1 /\ recordWindow(d) \in Nat
    BY FileAssumption DEF IInv, TypeOK, Tick, Records, recordWindow
  <2>2. d.windowStart \in Nat /\ d.blockUntil \in Nat
    BY DEF Records
  <2>3. recordWindow(d)' = recordWindow(d)
    BY DEF recordWindow
  <2> QED BY <1>2, <2>1, <2>2, <2>3 DEF Over, BlockAlive, WindowAlive
<1>3. disk.recs \in [Keys -> Records]
  BY DEF IInv, TypeOK
<1>4. DiskIsBehind'
  <2>1. ASSUME up, NEW k \in Keys \ pending PROVE Backed(records[k], disk.recs[k])'
    <3>1. Backed(records[k], disk.recs[k]) /\ disk.recs[k] \in Records
      BY <1>3, <2>1 DEF IInv, DiskIsBehind
    <3>2. records' = records /\ disk' = disk
      BY DEF Tick
    <3>3. Over(disk.recs[k]) => Over(disk.recs[k])'
      BY <1>2, <3>1, <3>2
    <3> QED BY <3>1, <3>2, <3>3 DEF Backed
  <2> QED BY <2>1 DEF IInv, DiskIsBehind, Tick
<1>5. PendingIsDirty' /\ SaveIsCurrent'
  BY DEF IInv, PendingIsDirty, SaveIsCurrent, Tick
<1> QED BY <1>1, <1>4, <1>5 DEF IInv

\* A call that changes the record of k marks it, and changes nothing else.
LEMMA MutationKeeps ==
    ASSUME IInv, NEW k \in Keys, Unlocked, Mutated(k),
           NEW r \in Records, records' = [records EXCEPT ![k] = r],
           UNCHANGED <<now, up, closed, autosaver, saver, image, disk, crashes>>
    PROVE  IInv'
<1>1. records' \in [Keys -> Records] /\ \A j \in Keys \ {k} : records'[j] = records[j]
  BY DEF IInv, TypeOK
<1>2. TypeOK'
  BY <1>1 DEF IInv, TypeOK, Mutated
<1>3. \A j \in Keys \ pending' : Backed(records'[j], disk.recs[j]) <=> Backed(records[j], disk.recs[j])
  BY <1>1 DEF Mutated
<1>4. \A j \in Keys \ pending' : up => Backed(records'[j], disk.recs[j])
  BY <1>3 DEF IInv, DiskIsBehind, Mutated
<1>5. DiskIsBehind'
  BY <1>4 DEF IInv, DiskIsBehind, Unlocked, Backed, Over, BlockAlive, WindowAlive, recordWindow
<1>6. PendingIsDirty' /\ SaveIsCurrent'
  BY DEF IInv, PendingIsDirty, SaveIsCurrent, Mutated, Unlocked
<1> QED BY <1>2, <1>5, <1>6 DEF IInv

LEMMA CountedIsRecord ==
    ASSUME NEW q \in Records, NEW w \in Nat
    PROVE  [q EXCEPT !.count = @ + 1, !.window = w] \in Records
<1>1. q.count + 1 \in Nat
  BY DEF Records
<1> DEFINE n == q.count + 1
<1> HIDE DEF n
<1>2. n \in Nat
  BY <1>1 DEF n
<1>3. [q EXCEPT !.count = n] \in Records
  BY <1>2 DEF Records
<1>4. [[q EXCEPT !.count = n] EXCEPT !.window = w] \in Records
  BY <1>3 DEF Records
<1> QED BY <1>4 DEF n

LEMMA IncrKeeps == ASSUME IInv, NEW k \in Keys, Incr(k) PROVE IInv'
<1>1. /\ records[k] \in Records /\ now \in Nat /\ WindowOf[k] \in Nat
      /\ records \in [Keys -> Records]
  BY FileAssumption DEF IInv, TypeOK
<1>2. CASE records[k] = NoRecord \/ now - records[k].windowStart > WindowOf[k]
  <2> DEFINE r == [count |-> 1, windowStart |-> now, window |-> WindowOf[k], blockUntil |-> 0]
  <2>1. r \in Records
    BY <1>1 DEF Records
  <2>2. records' = [records EXCEPT ![k] = r]
    BY <1>2 DEF Incr
  <2> HIDE DEF r
  <2> QED BY <2>1, <2>2, MutationKeeps DEF Incr
<1>3. CASE ~(records[k] = NoRecord \/ now - records[k].windowStart > WindowOf[k])
  <2> DEFINE r == [records[k] EXCEPT !.count = @ + 1, !.window = WindowOf[k]]
  <2>1. r \in Records
    BY <1>1, CountedIsRecord
  <2>2. records' = [records EXCEPT ![k] = r]
    BY <1>1, <1>3 DEF Incr
  <2> HIDE DEF r
  <2> QED BY <2>1, <2>2, MutationKeeps DEF Incr
<1> QED BY <1>2, <1>3

LEMMA BlockKeeps == ASSUME IInv, NEW k \in Keys, NEW d \in Durations, Block(k, d) PROVE IInv'
<1> DEFINE r == [records[k] EXCEPT !.blockUntil = now + d]
<1>1. r \in Records
  BY FileAssumption DEF IInv, TypeOK, Records
<1>2. records' = [records EXCEPT ![k] = r]
  BY DEF Block
<1> HIDE DEF r
<1> QED BY <1>1, <1>2, MutationKeeps DEF Block

\* A save forgets in memory only what is over on disk, too.
LEMMA BeginSaveKeeps ==
    ASSUME IInv, NEW who \in {"auto", "close"}, BeginSave(who), closed' \in BOOLEAN
    PROVE  IInv'
<1>1. Pruned \in [Keys -> Records]
  BY NoRecordIsOver DEF IInv, TypeOK, Pruned
<1>2. TypeOK'
  BY <1>1 DEF IInv, TypeOK, BeginSave
<1>3. ASSUME NEW k \in Keys \ pending, up PROVE Backed(Pruned[k], disk.recs[k])
  <2>1. Backed(records[k], disk.recs[k])
    BY <1>3 DEF IInv, DiskIsBehind
  <2>2. CASE BlockAlive(records[k]) \/ WindowAlive(records[k])
    BY <2>1, <2>2 DEF Pruned
  <2>3. CASE Over(records[k])
    BY <2>1, <2>3 DEF Pruned, Backed, Over
  <2> QED BY <2>2, <2>3 DEF Over
<1>4. UNCHANGED <<now, up, disk, pending, dirty>> /\ records' = Pruned
  BY DEF BeginSave
<1>5. \A d : Over(d)' = Over(d)
  BY <1>4 DEF Over, BlockAlive, WindowAlive, recordWindow
<1>6. DiskIsBehind'
  BY <1>3, <1>4, <1>5 DEF IInv, DiskIsBehind, Backed
<1>7. PendingIsDirty' /\ SaveIsCurrent'
  BY DEF IInv, PendingIsDirty, SaveIsCurrent, BeginSave, Unlocked
<1> QED BY <1>2, <1>6, <1>7 DEF IInv

LEMMA SaveDoneKeeps == IInv /\ SaveDone => IInv'
<1> SUFFICES ASSUME IInv, SaveDone PROVE IInv'
    OBVIOUS
<1>1. NoRecords \in [Keys -> Records]
  BY NoRecordIsOver DEF NoRecords
<1>2. /\ image \in [Keys -> Records] /\ image = records /\ up
      /\ disk' = [whole |-> TRUE, recs |-> image]
  BY DEF IInv, TypeOK, SaveIsCurrent, SaveDone, FileOf
<1>3. disk' \in [whole : BOOLEAN, recs : [Keys -> Records]] /\ disk'.whole /\ disk'.recs = records
  BY <1>2
<1>4. dirty' \in BOOLEAN
  BY DEF SaveDone
<1>5. TypeOK'
  BY <1>1, <1>3, <1>4 DEF IInv, TypeOK, SaveDone
<1>6. DiskIsBehind'
  BY <1>2, <1>3 DEF DiskIsBehind, Backed, SaveDone
<1>7. PendingIsDirty' /\ SaveIsCurrent'
  BY DEF PendingIsDirty, SaveIsCurrent, SaveDone
<1> QED BY <1>5, <1>6, <1>7 DEF IInv

\* A step that leaves the clock, the records and the file alone.
LEMMA RestKeeps ==
    ASSUME IInv, UNCHANGED <<now, up, records, dirty, disk, pending, crashes>>,
           closed' \in BOOLEAN, autosaver' \in {"running", "stopped"},
           \/ UNCHANGED <<saver, image>>
           \/ saver' = "none" /\ image' = NoRecords
    PROVE  IInv'
<1>1. NoRecords \in [Keys -> Records]
  BY NoRecordIsOver DEF NoRecords
<1>2. TypeOK'
  BY <1>1 DEF IInv, TypeOK
<1>3. DiskIsBehind'
  BY DEF IInv, DiskIsBehind, Backed, Over, BlockAlive, WindowAlive, recordWindow
<1>4. PendingIsDirty' /\ SaveIsCurrent'
  BY DEF IInv, PendingIsDirty, SaveIsCurrent
<1> QED BY <1>2, <1>3, <1>4 DEF IInv

LEMMA CrashKeeps == IInv /\ Crash => IInv'
<1> SUFFICES ASSUME IInv, Crash PROVE IInv'
    OBVIOUS
<1>1. NoRecords \in [Keys -> Records]
  BY NoRecordIsOver DEF NoRecords
<1>2. up' \in BOOLEAN /\ dirty' \in BOOLEAN /\ closed' \in BOOLEAN
  BY DEF Crash
<1>3. now' \in Nat /\ disk' = disk /\ crashes' \in Nat
  BY DEF IInv, TypeOK, Crash
<1>4. TypeOK'
  BY <1>1, <1>2, <1>3 DEF IInv, TypeOK, Crash
<1> QED BY <1>4 DEF IInv, DiskIsBehind, PendingIsDirty, SaveIsCurrent, Crash

LEMMA NewFileKeeps == IInv /\ NewFile => IInv'
<1> SUFFICES ASSUME IInv, NewFile PROVE IInv'
    OBVIOUS
<1>1. records' = disk.recs /\ disk.recs \in [Keys -> Records]
  BY DEF IInv, TypeOK, DiskIsBehind, NewFile, Loaded
<1>2. TypeOK'
  BY <1>1 DEF IInv, TypeOK, NewFile
<1>3. DiskIsBehind'
  BY <1>1 DEF IInv, DiskIsBehind, Backed, NewFile
<1>4. PendingIsDirty' /\ SaveIsCurrent'
  BY DEF IInv, DiskIsBehind, PendingIsDirty, SaveIsCurrent, NewFile
<1> QED BY <1>2, <1>3, <1>4 DEF IInv

LEMMA NextIInv == IInv /\ [Next]_vars => IInv'
<1> SUFFICES ASSUME IInv, [Next]_vars PROVE IInv'
    OBVIOUS
<1>0. closed \in BOOLEAN /\ autosaver \in {"running", "stopped"}
  BY DEF IInv, TypeOK
<1>1. CASE Tick
  BY <1>1, TickKeeps
<1>2. ASSUME NEW k \in Keys, Incr(k) PROVE IInv'
  BY <1>2, IncrKeeps
<1>3. ASSUME NEW k \in Keys, NEW d \in Durations, Block(k, d) PROVE IInv'
  BY <1>3, BlockKeeps
<1>4. ASSUME NEW k \in Keys, Get(k) \/ IsBlocked(k) PROVE IInv'
  BY <1>0, <1>4, RestKeeps DEF Get, IsBlocked
<1>5. CASE AutoSave
  BY <1>0, <1>5, BeginSaveKeeps DEF AutoSave
<1>6. CASE Close
  BY <1>6, BeginSaveKeeps DEF Close
<1>7. CASE AutoSaveStop
  BY <1>0, <1>7, RestKeeps DEF AutoSaveStop
<1>8. CASE SaveDone
  BY <1>8, SaveDoneKeeps
<1>9. CASE SaveFails
  BY <1>0, <1>9, RestKeeps DEF SaveFails
<1>10. CASE Crash
  BY <1>10, CrashKeeps
<1>11. CASE NewFile
  BY <1>11, NewFileKeeps
<1>12. CASE UNCHANGED vars
  BY <1>0, <1>12, RestKeeps DEF vars
<1> QED BY <1>1, <1>2, <1>3, <1>4, <1>5, <1>6, <1>7, <1>8, <1>9, <1>10, <1>11, <1>12 DEF Next

-----------------------------------------------------------------------------

\* Every reachable state is well typed, and what is not on disk yet will be
\* tried again: no save, failed or made by Close, hides a change.
THEOREM FileKeepsDirty == Spec => []FileInvariant
<1>1. Spec => []IInv
  BY InitIInv, NextIInv, PTL DEF Spec
<1>2. IInv => FileInvariant
  BY DEF IInv, FileInvariant
<1> QED BY <1>1, <1>2, PTL

\* Whatever the instant of a crash, in the middle of a save or not, the file
\* holds every live counter and ban that was not changed since the last save
\* that succeeded.
THEOREM FileSurvivesCrash == Spec => []CrashLosesOnlyPending
<1>1. Spec => []IInv
  BY InitIInv, NextIInv, PTL DEF Spec
<1> QED BY <1>1, CrashLoss, PTL

-----------------------------------------------------------------------------

\* A record as Incr and Block of key k leave it.
Counts(k, r) ==
    /\ r.count = 0 <=> r.windowStart = 0
    /\ r.window \in {0, WindowOf[k]}

CountInv ==
    /\ IInv
    /\ now > 0 /\ \A k \in Keys : WindowOf[k] < now
    /\ \A k \in Keys : Counts(k, records[k]) /\ Counts(k, image[k]) /\ Counts(k, disk.recs[k])

LEMMA EmptyCounts == ASSUME NEW k \in Keys PROVE Counts(k, NoRecord) /\ Counts(k, NoRecords[k])
  BY DEF Counts, NoRecord, NoRecords

LEMMA InitCountInv == Init => CountInv
<1> SUFFICES ASSUME Init PROVE CountInv
    OBVIOUS
<1>1. IInv
  BY InitIInv
<1>2. now > 0 /\ \A k \in Keys : WindowOf[k] < now
  BY FileAssumption DEF Init
<1>3. PICK f \in InitialFiles : disk = FileOf(f)
  BY DEF Init
<1>4. disk.recs = f /\ records = f /\ image = NoRecords
  BY <1>3 DEF Init, FileOf, Loaded
<1>5. \A k \in Keys : Counts(k, f[k]) /\ Counts(k, NoRecords[k])
  BY FilesAssumption, EmptyCounts DEF Counts
<1> QED BY <1>1, <1>2, <1>4, <1>5 DEF CountInv

\* What Incr makes of a record.
LEMMA IncrCounts ==
    ASSUME CountInv, NEW k \in Keys, Incr(k)
    PROVE  /\ \A j \in Keys \ {k} : records'[j] = records[j]
           /\ records'[k] \in Records /\ Counts(k, records'[k])
           /\ records'[k].window = WindowOf[k] /\ records'[k].count > 0
           /\ records'[k].blockUntil \in Nat
<1>1. records \in [Keys -> Records] /\ records[k] \in Records /\ now \in Nat /\ now > 0
  BY DEF CountInv, IInv, TypeOK
<1>2. /\ records[k].count \in Nat /\ records[k].windowStart \in Nat /\ records[k].window \in Nat
      /\ WindowOf[k] \in Nat /\ WindowOf[k] < now /\ Counts(k, records[k])
  BY <1>1, FileAssumption DEF Records, CountInv
<1>3. CASE records[k] = NoRecord \/ now - records[k].windowStart > WindowOf[k]
  <2> DEFINE r == [count |-> 1, windowStart |-> now, window |-> WindowOf[k], blockUntil |-> 0]
  <2>1. /\ r \in Records /\ Counts(k, r) /\ r.window = WindowOf[k] /\ r.count > 0
        /\ r.blockUntil \in Nat
    BY <1>1, <1>2 DEF Records, Counts
  <2>2. records' = [records EXCEPT ![k] = r]
    BY <1>3 DEF Incr
  <2> HIDE DEF r
  <2> QED BY <1>1, <2>1, <2>2
<1>4. CASE ~(records[k] = NoRecord \/ now - records[k].windowStart > WindowOf[k])
  <2> DEFINE r == [records[k] EXCEPT !.count = @ + 1, !.window = WindowOf[k]]
  <2>1. records[k].windowStart # 0
    BY <1>1, <1>2, <1>4
  <2>2. /\ r.count = records[k].count + 1 /\ r.windowStart = records[k].windowStart
        /\ r.window = WindowOf[k]
    BY <1>1 DEF Records
  <2>3. r \in Records
    BY <1>1, <1>2, CountedIsRecord
  <2>4. records' = [records EXCEPT ![k] = r]
    BY <1>1, <1>4 DEF Incr
  <2> HIDE DEF r
  <2>5. r.count > 0 /\ Counts(k, r) /\ r.blockUntil \in Nat
    BY <1>2, <2>1, <2>2, <2>3 DEF Counts, Records
  <2> QED BY <1>1, <2>2, <2>3, <2>4, <2>5
<1> QED BY <1>3, <1>4

LEMMA BlockCounts ==
    ASSUME CountInv, NEW k \in Keys, NEW d \in Durations, Block(k, d)
    PROVE  \A j \in Keys : /\ records'[j].count = records[j].count
                           /\ records'[j].windowStart = records[j].windowStart
                           /\ records'[j].window = records[j].window
<1> DEFINE r == [records[k] EXCEPT !.blockUntil = now + d]
<1>1. records \in [Keys -> Records] /\ records[k] \in Records
  BY DEF CountInv, IInv, TypeOK
<1>2. /\ r.count = records[k].count /\ r.windowStart = records[k].windowStart
      /\ r.window = records[k].window
  BY <1>1 DEF Records
<1>3. records' = [records EXCEPT ![k] = r]
  BY DEF Block
<1> HIDE DEF r
<1> QED BY <1>1, <1>2, <1>3

LEMMA NextCountInv == CountInv /\ [Next]_vars => CountInv'
<1> SUFFICES ASSUME CountInv, [Next]_vars PROVE CountInv'
    OBVIOUS
<1>1. IInv'
  BY NextIInv DEF CountInv
<1>2. now' > 0 /\ \A k \in Keys : WindowOf[k] < now'
  <2>1. now \in Nat /\ \A k \in Keys : WindowOf[k] \in Nat
    BY FileAssumption DEF CountInv, IInv, TypeOK
  <2>2. now' = now \/ now' = now + 1
    BY DEF Next, vars, Tick, Incr, Get, Block, IsBlocked, AutoSave, AutoSaveStop, Close,
           BeginSave, SaveDone, SaveFails, Crash, NewFile
  <2> QED BY <2>1, <2>2 DEF CountInv
<1>3. \A k \in Keys : Counts(k, records[k]) /\ Counts(k, image[k]) /\ Counts(k, disk.recs[k])
  BY DEF CountInv
<1>4. \A k \in Keys : Counts(k, NoRecord) /\ Counts(k, NoRecords[k])
  BY EmptyCounts
<1>5. ASSUME NEW k \in Keys
      PROVE Counts(k, records[k])' /\ Counts(k, image[k])' /\ Counts(k, disk.recs[k])'
  <2>1. ASSUME NEW j \in Keys, Incr(j) PROVE Counts(k, records'[k]) /\ UNCHANGED <<image, disk>>
    BY <1>3, <2>1, IncrCounts DEF Incr
  <2>2. ASSUME NEW j \in Keys, NEW d \in Durations, Block(j, d)
        PROVE  Counts(k, records'[k]) /\ UNCHANGED <<image, disk>>
    BY <1>3, <2>2, BlockCounts DEF Block, Counts
  <2>3. ASSUME NEW j \in Keys, Get(j) \/ IsBlocked(j) PROVE UNCHANGED <<records, image, disk>>
    BY <2>3 DEF Get, IsBlocked
  <2>4. CASE AutoSave \/ Close
    <3>1. records' = Pruned /\ image' = Pruned /\ disk' = disk
      BY <2>4 DEF AutoSave, Close, BeginSave
    <3>2. Counts(k, Pruned[k])
      BY <1>3, <1>4 DEF Pruned
    <3> QED BY <1>3, <3>1, <3>2 DEF Counts
  <2>5. CASE Tick \/ AutoSaveStop \/ UNCHANGED vars
    BY <1>3, <2>5 DEF Tick, AutoSaveStop, vars, Counts
  <2>6. CASE SaveDone
    <3>1. disk'.recs = image /\ records' = records /\ image' = NoRecords
      BY <2>6 DEF SaveDone, FileOf
    <3> QED BY <1>3, <1>4, <3>1 DEF Counts
  <2>7. CASE SaveFails
    BY <1>3, <1>4, <2>7 DEF SaveFails, Counts
  <2>8. CASE Crash
    BY <1>3, <1>4, <2>8 DEF Crash, Counts
  <2>9. CASE NewFile
    <3>1. records' = disk.recs /\ image' = image /\ disk' = disk
      BY <2>9 DEF NewFile, Loaded, CountInv, IInv, DiskIsBehind
    <3> QED BY <1>3, <3>1 DEF Counts
  <2> QED BY <1>3, <2>1, <2>2, <2>3, <2>4, <2>5, <2>6, <2>7, <2>8, <2>9 DEF Next, Counts
<1> QED BY <1>1, <1>2, <1>5 DEF CountInv

-----------------------------------------------------------------------------

NoCounter == [count |-> 0, since |-> 0]

Live == [k \in Keys |-> Counter(records[k])]

\* A counter lives for its key's window.
LEMMA LiveForWindow ==
    ASSUME CountInv, NEW k \in Keys, ~Legacy(records[k])
    PROVE  Counter(records[k]) =
             IF records[k].count > 0 /\ now - records[k].windowStart <= WindowOf[k]
               THEN [count |-> records[k].count, since |-> records[k].windowStart]
               ELSE NoCounter
<1>1. /\ records[k].count \in Nat /\ records[k].windowStart \in Nat /\ WindowOf[k] \in Nat \ {0}
      /\ now \in Nat /\ Counts(k, records[k])
  BY FileAssumption DEF CountInv, IInv, TypeOK, Records
<1>2. CASE records[k].count = 0
  BY <1>1, <1>2 DEF Counts, Counter, WindowAlive, NoCounter
<1>3. CASE records[k].count > 0
  <2>1. records[k].window = WindowOf[k]
    BY <1>1, <1>3 DEF Counts, Legacy
  <2> QED BY <1>1, <1>3, <2>1 DEF Counts, Counter, WindowAlive, recordWindow, NoCounter
<1> QED BY <1>1, <1>2, <1>3

LEMMA TickCounts ==
    ASSUME CountInv, CountInv', \A k \in Keys : ~Legacy(records[k]), Tick
    PROVE  Counting!CTick
<1>1. ASSUME NEW k \in Keys
      PROVE Counter(records[k])' = IF now + 1 - Counter(records[k]).since > WindowOf[k]
                                     THEN NoCounter ELSE Counter(records[k])
  <2>1. /\ records[k].count \in Nat /\ records[k].windowStart \in Nat /\ WindowOf[k] \in Nat
        /\ now \in Nat
    BY FileAssumption DEF CountInv, IInv, TypeOK, Records
  <2>2. now' = now + 1 /\ records' = records
    BY DEF Tick
  <2>3. WindowAlive(records[k])' <=> /\ records[k].windowStart # 0
                                    /\ now + 1 - records[k].windowStart <= recordWindow(records[k])
    <3>1. recordWindow(records[k])' = recordWindow(records[k])
      BY <2>2 DEF recordWindow
    <3>2. WindowAlive(records[k])' <=>
            records'[k].windowStart # 0 /\ now' - records'[k].windowStart <= recordWindow(records[k])'
      BY DEF WindowAlive
    <3>3. records'[k].windowStart = records[k].windowStart
      BY <2>2
    <3> QED BY <2>1, <2>2, <3>1, <3>2, <3>3
  <2>4. CASE records[k].count = 0
    <3>1. records[k].windowStart = 0
      BY <2>4 DEF CountInv, Counts
    <3> QED BY <2>2, <2>3, <3>1 DEF Counter, WindowAlive, NoCounter
  <2>5. CASE records[k].count > 0
    <3>1. recordWindow(records[k]) = WindowOf[k] /\ records[k].windowStart # 0
      BY <2>1, <2>5, FileAssumption DEF CountInv, Counts, Legacy, recordWindow
    <3>2. WindowAlive(records[k])' <=> now + 1 - records[k].windowStart <= WindowOf[k]
      BY <2>3, <3>1
    <3>3. WindowAlive(records[k]) <=> now - records[k].windowStart <= WindowOf[k]
      BY <3>1 DEF WindowAlive
    <3>4. Counter(records[k])' = IF WindowAlive(records[k])'
                                   THEN [count |-> records[k].count, since |-> records[k].windowStart]
                                   ELSE NoCounter
      BY <2>2 DEF Counter, NoCounter
    <3> QED BY <2>1, <3>2, <3>3, <3>4 DEF Counter, NoCounter
  <2> QED BY <2>1, <2>4, <2>5
<1> QED BY <1>1 DEF Tick, Counting!CTick, Counting!NoCounter, NoCounter

LEMMA IncrCountsAsPromised ==
    ASSUME CountInv, CountInv', \A j \in Keys : ~Legacy(records[j]), NEW k \in Keys, Incr(k)
    PROVE  Counting!CIncr(k)
<1>1. /\ records \in [Keys -> Records] /\ records[k] \in Records
      /\ records[k].count \in Nat /\ records[k].windowStart \in Nat
      /\ now \in Nat /\ now > 0 /\ WindowOf[k] \in Nat /\ WindowOf[k] < now
      /\ Counts(k, records[k])
  BY FileAssumption DEF CountInv, IInv, TypeOK, Records
<1>2. now' = now /\ answer' = [op |-> "incr", key |-> k, val |-> records'[k].count]
  BY DEF Incr
<1>3. ~Legacy(records'[k])
  BY IncrCounts, FileAssumption DEF Legacy
<1>4. Counter(records[k])' =
        IF records'[k].count > 0 /\ now - records'[k].windowStart <= WindowOf[k]
          THEN [count |-> records'[k].count, since |-> records'[k].windowStart]
          ELSE NoCounter
  <2>1. records'[k].windowStart # 0 /\ records'[k].window > 0
    BY <1>1, IncrCounts, FileAssumption DEF Counts
  <2> QED BY <1>2, <2>1, IncrCounts DEF Counter, WindowAlive, recordWindow, NoCounter
<1>5. Counter(records[k])' = IF Counter(records[k]).count = 0
                               THEN [count |-> 1, since |-> now]
                               ELSE [count |-> Counter(records[k]).count + 1,
                                     since |-> Counter(records[k]).since]
  <2>1. CASE records[k] = NoRecord \/ now - records[k].windowStart > WindowOf[k]
    <3>1. records'[k].count = 1 /\ records'[k].windowStart = now
      BY <1>1, <2>1 DEF Incr
    <3>2. Counter(records[k]) = NoCounter
      BY <1>1, <2>1, LiveForWindow DEF NoRecord
    <3> QED BY <1>1, <1>4, <3>1, <3>2 DEF NoCounter
  <2>2. CASE ~(records[k] = NoRecord \/ now - records[k].windowStart > WindowOf[k])
    <3>1. records[k].count > 0
      BY <1>1, <2>2 DEF Counts
    <3>2. /\ records'[k].count = records[k].count + 1
          /\ records'[k].windowStart = records[k].windowStart
      BY <1>1, <2>2 DEF Incr, Records
    <3>3. Counter(records[k]) = [count |-> records[k].count, since |-> records[k].windowStart]
      BY <1>1, <2>2, <3>1, LiveForWindow
    <3> QED BY <1>1, <1>4, <2>2, <3>1, <3>2, <3>3
  <2> QED BY <2>1, <2>2
<1>6. records'[k].count = Counter(records[k])'.count
  <2>1. now - records'[k].windowStart <= WindowOf[k]
    BY <1>1, IncrCounts DEF Incr, Records
  <2> QED BY <1>4, <2>1, IncrCounts
<1>7. \A j \in Keys \ {k} : Counter(records[j])' = Counter(records[j])
  BY <1>2, IncrCounts DEF Counter, WindowAlive, recordWindow
<1>8. Live' = [Live EXCEPT ![k] = Counter(records[k])']
  BY <1>7 DEF Live
<1>9. Live' = [Live EXCEPT ![k] = IF Live[k].count = 0
                                   THEN [count |-> 1, since |-> now]
                                   ELSE [count |-> Live[k].count + 1, since |-> Live[k].since]]
  BY <1>5, <1>8, Zenon DEF Live
<1>10. answer' = [op |-> "incr", key |-> k, val |-> Live'[k].count]
  BY <1>2, <1>6 DEF Live
<1> QED BY <1>2, <1>9, <1>10 DEF Counting!CIncr, Live

LEMMA GetCountsAsPromised ==
    ASSUME CountInv, \A j \in Keys : ~Legacy(records[j]), NEW k \in Keys, Get(k)
    PROVE  Counting!CGet(k)
<1>1. /\ records[k].count \in Nat /\ records[k].windowStart \in Nat /\ now \in Nat
      /\ WindowOf[k] \in Nat \ {0} /\ Counts(k, records[k])
  BY FileAssumption DEF CountInv, IInv, TypeOK, Records
<1>0. Counter(records[k]) =
        IF records[k].count > 0 /\ now - records[k].windowStart <= WindowOf[k]
          THEN [count |-> records[k].count, since |-> records[k].windowStart]
          ELSE NoCounter
  <2>1. ~Legacy(records[k])
    OBVIOUS
  <2> QED BY <2>1, LiveForWindow
<1>2. (IF records[k].window > 0 /\ now - records[k].windowStart > records[k].window
         THEN 0 ELSE records[k].count) = Counter(records[k]).count
  <2>1. CASE records[k].count = 0
    <3>1. Counter(records[k]).count = 0
      BY <1>0, <1>1, <2>1 DEF NoCounter
    <3> QED BY <2>1, <3>1
  <2>2. CASE records[k].count > 0
    <3>1. records[k].window = WindowOf[k]
      BY <1>1, <2>2 DEF Counts, Legacy
    <3>2. Counter(records[k]).count = IF now - records[k].windowStart <= WindowOf[k]
                                        THEN records[k].count ELSE 0
      BY <1>0, <1>1, <2>2 DEF NoCounter
    <3> QED BY <1>1, <3>1, <3>2
  <2> QED BY <1>1, <2>1, <2>2
<1>3. answer' = [op |-> "get", key |-> k, val |-> Counter(records[k]).count]
  BY <1>2 DEF Get
<1>4. \A j \in Keys : Counter(records[j])' = Counter(records[j])
  BY DEF Get, Counter, WindowAlive, recordWindow
<1> QED BY <1>3, <1>4 DEF Get, Counting!CGet

LEMMA NextCounting ==
    ASSUME CountInv, CountInv', [Next]_vars, up, up', \A k \in Keys : ~Legacy(records[k])
    PROVE  [Counting!CNext]_(Counting!cvars)
<1>0. ASSUME now' = now, answer' = answer,
             \A k \in Keys : Counter(records[k])' = Counter(records[k])
      PROVE  UNCHANGED Counting!cvars
  BY <1>0 DEF Counting!cvars
<1>1. CASE Tick
  BY <1>1, TickCounts DEF Counting!CNext
<1>2. ASSUME NEW k \in Keys, Incr(k) PROVE Counting!CNext
  BY <1>2, IncrCountsAsPromised DEF Counting!CNext
<1>3. ASSUME NEW k \in Keys, Get(k) PROVE Counting!CNext
  BY <1>3, GetCountsAsPromised DEF Counting!CNext
<1>4. ASSUME NEW k \in Keys, NEW d \in Durations, Block(k, d) PROVE UNCHANGED Counting!cvars
  <2>1. now' = now /\ answer' = answer
    BY <1>4 DEF Block
  <2> QED BY <1>0, <1>4, <2>1, BlockCounts DEF Counter, WindowAlive, recordWindow
<1>5. CASE AutoSave \/ Close
  <2>1. now' = now /\ answer' = answer /\ records' = Pruned
    BY <1>5 DEF AutoSave, Close, BeginSave
  <2>2. ASSUME NEW k \in Keys PROVE Counter(records[k])' = Counter(records[k])
    <3>1. CASE Pruned[k] = records[k]
      BY <2>1, <3>1 DEF Counter, WindowAlive, recordWindow
    <3>2. CASE Pruned[k] # records[k]
      <4>1. ~WindowAlive(records[k]) /\ records'[k] = NoRecord
        BY <2>1, <3>2 DEF Pruned
      <4> QED BY <4>1 DEF Counter, WindowAlive, NoRecord
    <3> QED BY <3>1, <3>2
  <2> QED BY <1>0, <2>1, <2>2
<1>6. ASSUME NEW k \in Keys, IsBlocked(k) PROVE UNCHANGED Counting!cvars
  BY <1>0, <1>6 DEF IsBlocked, Counter, WindowAlive, recordWindow
<1>7. CASE AutoSaveStop \/ SaveDone \/ SaveFails \/ UNCHANGED vars
  <2>1. now' = now /\ answer' = answer /\ records' = records
    BY <1>7 DEF AutoSaveStop, SaveDone, SaveFails, vars
  <2> QED BY <1>0, <2>1 DEF Counter, WindowAlive, recordWindow
<1>8. ~Crash /\ ~NewFile
  BY DEF Crash, NewFile
<1> QED BY <1>1, <1>2, <1>3, <1>4, <1>5, <1>6, <1>7, <1>8 DEF Next

\* While the process runs, Incr and Get keep the counting contract, whatever
\* saves prune and a restart has read from the file, but for counters of the
\* older format.
THEOREM FileCounts == Spec => CountsAsPromised
<1>1. Spec => []CountInv
  BY InitCountInv, NextCountInv, PTL DEF Spec
<1>2. CountInv /\ CountInv' /\ [Next]_vars =>
        [up /\ up' /\ (\A k \in Keys : ~Legacy(records[k])) => Counting!CNext]_(Counting!cvars)
  BY NextCounting
<1> QED BY <1>1, <1>2, PTL DEF Spec, CountsAsPromised
=============================================================================
