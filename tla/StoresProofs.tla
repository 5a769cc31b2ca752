---------------------------- MODULE StoresProofs ----------------------------
(***************************************************************************)
(* storage.Memory, session.MemoryStore and redis.Backend keep their        *)
(* contracts, for every set of keys, windows, lifetimes and callers and    *)
(* whatever the bounds on the clock, the counters and the faults.          *)
(***************************************************************************)
EXTENDS Stores, FiniteSetTheorems, TLAPS

(***************************************************************************)
(* storage.Memory.                                                         *)
(***************************************************************************)

IInv == TypeOK /\ EntriesWhole

LEMMA InitIInv == Init => IInv
<1> SUFFICES ASSUME Init PROVE TypeOK /\ EntriesWhole
    BY DEF IInv
<1>1. closed \in BOOLEAN
  BY DEF Init
<1>2. TypeOK
  BY <1>1, MemoryAssumption DEF Init, TypeOK, Missing
<1>3. EntriesWhole
  BY MemoryAssumption DEF Init, EntriesWhole, Missing
<1> QED BY <1>2, <1>3

LEMMA NextIInv == IInv /\ [Next]_vars => IInv'
<1> SUFFICES ASSUME IInv, [Next]_vars PROVE IInv'
    OBVIOUS
<1> USE MemoryAssumption DEF IInv, TypeOK, EntriesWhole
<1>1. CASE Tick
  BY <1>1 DEF Tick, Missing
<1>2. CASE Close
  BY <1>2 DEF Close
<1>3. ASSUME NEW k \in Keys, Incr(k) PROVE IInv'
  <2>1. TypeOK'
    BY <1>3 DEF Incr
  <2>2. EntriesWhole'
    <3>1. CASE events[k] = Missing \/ now - events[k].windowStart > WindowOf[k]
      BY <1>3, <3>1 DEF Incr, Missing
    <3>2. CASE ~(events[k] = Missing \/ now - events[k].windowStart > WindowOf[k])
      BY <1>3, <3>2 DEF Incr, Missing
    <3> QED BY <3>1, <3>2
  <2> QED BY <2>1, <2>2
<1>4. ASSUME NEW k \in Keys, Get(k) \/ IsBlocked(k) PROVE IInv'
  BY <1>4 DEF Get, IsBlocked
<1>5. ASSUME NEW k \in Keys, NEW d \in Durations, Block(k, d) PROVE IInv'
  BY <1>5 DEF Block
<1>6. CASE ReapTick
  BY <1>6 DEF ReapTick
<1>7. CASE ReapStop
  BY <1>7 DEF ReapStop
<1>8. CASE ReapOnce
  BY <1>8 DEF ReapOnce, EventsKept, BlockedKept, Missing
<1>9. CASE UNCHANGED vars
  BY <1>9 DEF vars
<1> QED BY <1>1, <1>2, <1>3, <1>4, <1>5, <1>6, <1>7, <1>8, <1>9 DEF Next

\* Every reachable state is well typed and its counters are whole: what the
\* reaper drops is never a counter that a client could still read.
THEOREM MemoryInvariant == Spec => [](TypeOK /\ EntriesWhole)
<1>1. Spec => []IInv
  BY InitIInv, NextIInv, PTL DEF Spec
<1> QED BY <1>1, PTL DEF IInv

-----------------------------------------------------------------------------

Live == [k \in Keys |-> LiveCounter(k)]

LEMMA InitCounting == Init => Counting!CInit
  BY MemoryAssumption DEF Init, Counting!CInit, Counting!NoCounter, Counting!NoAnswer,
     LiveCounter, Missing, NoResult

LEMMA NextCounting == IInv /\ [Next]_vars => [Counting!CNext]_(Counting!cvars)
<1> SUFFICES ASSUME IInv, [Next]_vars PROVE [Counting!CNext]_(Counting!cvars)
    OBVIOUS
<1> USE MemoryAssumption DEF IInv, TypeOK, EntriesWhole
<1>0. ASSUME UNCHANGED <<now, answer>>,
             \A k \in Keys : LiveCounter(k)' = LiveCounter(k)
      PROVE  UNCHANGED Counting!cvars
  BY <1>0 DEF Counting!cvars
<1>1. CASE Tick
  <2>1. \A k \in Keys : LiveCounter(k)' =
           IF now + 1 - LiveCounter(k).since > WindowOf[k]
             THEN [count |-> 0, since |-> 0] ELSE LiveCounter(k)
    BY <1>1 DEF Tick, LiveCounter, Missing
  <2> QED BY <1>1, <2>1 DEF Tick, Counting!CNext, Counting!CTick, Counting!NoCounter
<1>2. CASE Close
  BY <1>2, <1>0 DEF Close, LiveCounter
<1>3. ASSUME NEW k \in Keys, Incr(k) PROVE Counting!CNext
  <2>1. CASE events[k] = Missing \/ now - events[k].windowStart > WindowOf[k]
    <3>1. /\ LiveCounter(k).count = 0
          /\ LiveCounter(k)' = [count |-> 1, since |-> now]
          /\ events'[k].count = 1
      BY <1>3, <2>1 DEF Incr, LiveCounter, Missing
    <3>2. \A j \in Keys \ {k} : LiveCounter(j)' = LiveCounter(j)
      BY <1>3, <2>1 DEF Incr, LiveCounter
    <3>3. Live' = [Live EXCEPT ![k] = LiveCounter(k)']
      BY <3>2 DEF Live
    <3>4. answer' = [op |-> "incr", key |-> k, val |-> Live'[k].count]
      BY <1>3, <3>1 DEF Incr, Live
    <3>5. Counting!CIncr(k)
      BY <1>3, <3>1, <3>3, <3>4 DEF Incr, Counting!CIncr, Live
    <3> QED BY <3>5 DEF Counting!CNext
  <2>2. CASE ~(events[k] = Missing \/ now - events[k].windowStart > WindowOf[k])
    <3>1. /\ LiveCounter(k) = [count |-> events[k].count, since |-> events[k].windowStart]
          /\ LiveCounter(k).count # 0
          /\ LiveCounter(k)' = [count |-> events[k].count + 1, since |-> events[k].windowStart]
          /\ events'[k].count = events[k].count + 1
      BY <1>3, <2>2 DEF Incr, LiveCounter, Missing
    <3>2. \A j \in Keys \ {k} : LiveCounter(j)' = LiveCounter(j)
      BY <1>3, <2>2 DEF Incr, LiveCounter
    <3>3. Live' = [Live EXCEPT ![k] = LiveCounter(k)']
      BY <3>2 DEF Live
    <3>4. answer' = [op |-> "incr", key |-> k, val |-> Live'[k].count]
      BY <1>3, <3>1 DEF Incr, Live
    <3>5. Live' = [Live EXCEPT ![k] =
                     IF Live[k].count = 0
                       THEN [count |-> 1, since |-> now]
                       ELSE [count |-> Live[k].count + 1, since |-> Live[k].since]]
      <4>1. /\ Live[k].count # 0
            /\ LiveCounter(k)' = [count |-> Live[k].count + 1, since |-> Live[k].since]
        BY <3>1 DEF Live
      <4> QED BY <3>3, <4>1, Zenon
    <3>6. Counting!CIncr(k)
      BY <1>3, <3>4, <3>5 DEF Incr, Counting!CIncr, Live
    <3> QED BY <3>6 DEF Counting!CNext
  <2> QED BY <2>1, <2>2
<1>4. ASSUME NEW k \in Keys, Get(k) PROVE Counting!CNext
  <2>1. LiveCounter(k).count = IF events[k].window > 0 /\ now - events[k].windowStart > events[k].window
                                 THEN 0 ELSE events[k].count
    BY DEF LiveCounter, Missing
  <2>2. \A j \in Keys : LiveCounter(j)' = LiveCounter(j)
    BY <1>4 DEF Get, LiveCounter
  <2>3. Counting!CGet(k)
    BY <1>4, <2>1, <2>2 DEF Get, Counting!CGet
  <2> QED BY <2>3 DEF Counting!CNext
<1>5. ASSUME NEW k \in Keys, IsBlocked(k) PROVE UNCHANGED Counting!cvars
  BY <1>5, <1>0 DEF IsBlocked, LiveCounter
<1>6. ASSUME NEW k \in Keys, NEW d \in Durations, Block(k, d)
      PROVE UNCHANGED Counting!cvars
  BY <1>6, <1>0 DEF Block, LiveCounter
<1>7. CASE ReapTick \/ ReapStop
  BY <1>7, <1>0 DEF ReapTick, ReapStop, LiveCounter
<1>8. CASE ReapOnce
  <2>1. \A k \in Keys : LiveCounter(k)' = LiveCounter(k)
    BY <1>8 DEF ReapOnce, EventsKept, LiveCounter, Missing
  <2> QED BY <1>8, <2>1, <1>0 DEF ReapOnce
<1>9. CASE UNCHANGED vars
  BY <1>9, <1>0 DEF vars, LiveCounter
<1> QED BY <1>1, <1>2, <1>3, <1>4, <1>5, <1>6, <1>7, <1>8, <1>9 DEF Next

\* The in-memory backend implements the counting contract: a reaper that acts
\* on a clock reading as old as one likes is invisible to Incr and Get.
THEOREM MemoryCounts == Spec => CountsAsPromised
<1>1. Spec => []IInv
  BY InitIInv, NextIInv, PTL DEF Spec
<1> QED BY <1>1, InitCounting, NextCounting, PTL DEF Spec, CountsAsPromised, Counting!CSpec

-----------------------------------------------------------------------------

Ban(k) == IF now < blocked[k] THEN blocked[k] ELSE 0

Bans == [k \in Keys |-> Ban(k)]

LEMMA InitBanning == Init => Banning!BInit
  BY MemoryAssumption DEF Init, Banning!BInit, NoResult

LEMMA NextBanning == IInv /\ [Next]_vars => [Banning!BNext]_(Banning!bvars)
<1> SUFFICES ASSUME IInv, [Next]_vars PROVE [Banning!BNext]_(Banning!bvars)
    OBVIOUS
<1> USE MemoryAssumption DEF IInv, TypeOK, EntriesWhole
<1>1. CASE Tick
  BY <1>1 DEF Tick, Banning!BNext, Banning!BTick
<1>2. CASE Close \/ ReapTick \/ ReapStop \/ UNCHANGED vars
  BY <1>2 DEF Close, ReapTick, ReapStop, vars, Banning!bvars
<1>3. ASSUME NEW k \in Keys, Incr(k) \/ Get(k) PROVE UNCHANGED Banning!bvars
  BY <1>3 DEF Incr, Get, Banning!bvars
<1>4. ASSUME NEW k \in Keys, IsBlocked(k) PROVE Banning!BNext
  <2>1. (now < blocked[k]) = (Ban(k) # 0)
    BY DEF Ban
  <2>2. verdict' = [op |-> "isBlocked", key |-> k, val |-> Ban(k) # 0]
    BY <1>4, <2>1, Zenon DEF IsBlocked
  <2>3. Banning!BIsBlocked(k)
    BY <1>4, <2>2 DEF IsBlocked, Banning!BIsBlocked, Ban
  <2> QED BY <2>3 DEF Banning!BNext
<1>5. ASSUME NEW k \in Keys, NEW d \in Durations, Block(k, d) PROVE Banning!BNext
  <2>1. d > 0 /\ Ban(k)' = now + d
    BY <1>5 DEF Block, Ban
  <2>2. \A j \in Keys \ {k} : Ban(j)' = Ban(j)
    BY <1>5 DEF Block, Ban
  <2>3. Bans' = [Bans EXCEPT ![k] = now + d]
    BY <2>1, <2>2 DEF Bans
  <2>4. Banning!BBlock(k, d)
    BY <1>5, <2>1, <2>3 DEF Block, Banning!BBlock, Bans, Ban
  <2> QED BY <2>4 DEF Banning!BNext
<1>6. CASE ReapOnce
  BY <1>6 DEF ReapOnce, BlockedKept, Banning!bvars
<1> QED BY <1>1, <1>2, <1>3, <1>4, <1>5, <1>6 DEF Next

\* The in-memory backend implements the ban contract: neither counting nor the
\* reaper lifts a ban before its time, and none outlasts it.
THEOREM MemoryBans == Spec => BansAsPromised
<1>1. Spec => []IInv
  BY InitIInv, NextIInv, PTL DEF Spec
<1> QED BY <1>1, InitBanning, NextBanning, PTL DEF Spec, BansAsPromised, Banning!BSpec

-----------------------------------------------------------------------------
(***************************************************************************)
(* session.MemoryStore.                                                    *)
(***************************************************************************)

\* The entry that a Load took, while it could still be returned, was held.
LoadSound(q, seen, time) == q.busy /\ time <= q.entry.exp => q.entry.val \in seen

StoreIInv ==
    /\ S!TypeOK /\ storeReapAt <= now
    /\ \A l \in Loaders : LoadSound(load[l], current[l], now)
    /\ S!LoadedWasHeld

EntryType == [val : Vals \cup {NoVal}, exp : Nat]

LoadType == [busy : BOOLEAN, key : Keys \cup {NoVal}, entry : EntryType]

LEMMA StoreInitIInv == S!Init => StoreIInv
<1> SUFFICES ASSUME S!Init PROVE StoreIInv
    OBVIOUS
<1> USE StoresAssumption DEF S!StoreAssumption
<1>1. S!NoEntry \in EntryType /\ S!NoLoad \in LoadType /\ S!NoLoad.busy = FALSE
  BY DEF S!NoEntry, S!NoLoad, EntryType, LoadType
<1>2. S!TypeOK
  BY <1>1 DEF S!Init, S!TypeOK, EntryType, LoadType
<1>3. \A l \in Loaders : LoadSound(load[l], current[l], now)
  BY <1>1 DEF S!Init, LoadSound
<1> QED BY <1>2, <1>3 DEF S!Init, S!LoadedWasHeld, StoreIInv

\* Every step but those of Load leaves the Loads that run alone.
LEMMA LoadsKept ==
    ASSUME StoreIInv, UNCHANGED <<load, loaded>>, S!Witness, now' \in Nat, now <= now'
    PROVE  (\A l \in Loaders : LoadSound(load'[l], current'[l], now')) /\ S!LoadedWasHeld'
<1>1. now \in Nat /\ \A l \in Loaders : load[l] \in LoadType /\ LoadSound(load[l], current[l], now)
  BY DEF StoreIInv, S!TypeOK, LoadType, EntryType
<1>2. ASSUME NEW l \in Loaders PROVE LoadSound(load'[l], current'[l], now')
  <2>1. CASE load[l].busy /\ now' <= load[l].entry.exp
    <3>1. load[l].entry.exp \in Nat
      BY <1>1 DEF LoadType, EntryType
    <3>2. load[l].entry.val \in current[l]
      BY <1>1, <2>1, <3>1 DEF LoadSound
    <3>3. current[l] \subseteq current'[l]
      BY <2>1 DEF S!Witness
    <3> QED BY <3>2, <3>3 DEF LoadSound
  <2> QED BY <2>1 DEF LoadSound
<1>3. S!LoadedWasHeld'
  BY DEF StoreIInv, S!LoadedWasHeld
<1> QED BY <1>2, <1>3

LEMMA StoreNextIInv == StoreIInv /\ [S!Next]_(S!vars) => StoreIInv'
<1> SUFFICES ASSUME StoreIInv, [S!Next]_(S!vars) PROVE StoreIInv'
    OBVIOUS
<1> USE StoresAssumption DEF S!StoreAssumption
<1>1. /\ now \in Nat /\ storeReapAt \in Nat /\ storeReapAt <= now
      /\ entries \in [Keys -> EntryType] /\ load \in [Loaders -> LoadType]
      /\ storeClosed \in BOOLEAN /\ storeReaper \in {"select", "reap", "stopped"}
  BY DEF StoreIInv, S!TypeOK, EntryType, LoadType
<1>2. S!NoEntry \in EntryType /\ S!NoLoad \in LoadType /\ S!NoLoad.busy = FALSE
  BY DEF S!NoEntry, S!NoLoad, EntryType, LoadType
<1>3. ASSUME entries' \in [Keys -> EntryType], load' \in [Loaders -> LoadType],
             now' \in Nat, storeReapAt' \in Nat, storeReapAt' <= now',
             storeClosed' \in BOOLEAN, storeReaper' \in {"select", "reap", "stopped"},
             \A l \in Loaders : LoadSound(load'[l], current'[l], now'), S!LoadedWasHeld'
      PROVE  StoreIInv'
  BY <1>3 DEF StoreIInv, S!TypeOK, EntryType, LoadType
<1>4. CASE S!Tick
  <2>1. now' = now + 1 /\ UNCHANGED <<entries, load, storeClosed, storeReaper, storeReapAt, loaded>>
        /\ S!Witness
    BY <1>4 DEF S!Tick
  <2>2. now' \in Nat /\ now <= now' /\ storeReapAt' <= now'
    BY <1>1, <2>1
  <2> QED BY <1>1, <1>3, <2>1, <2>2, LoadsKept
<1>5. ASSUME NEW k \in Keys, NEW v \in Vals, NEW ttl \in TTLs, S!Save(k, v, ttl) PROVE StoreIInv'
  <2> DEFINE e == [val |-> v, exp |-> now + ttl]
  <2>1. now + ttl \in Nat
    BY <1>1
  <2>2. e \in EntryType
    BY <2>1 DEF EntryType
  <2>3. UNCHANGED <<now, load, storeClosed, storeReaper, storeReapAt, loaded>> /\ S!Witness
        /\ entries' = [entries EXCEPT ![k] = e]
    BY <1>5 DEF S!Save
  <2> HIDE DEF e
  <2>4. entries' \in [Keys -> EntryType]
    BY <1>1, <2>2, <2>3
  <2> QED BY <1>1, <1>3, <2>3, <2>4, LoadsKept
<1>6. ASSUME NEW k \in Keys, S!Delete(k) PROVE StoreIInv'
  <2>1. UNCHANGED <<now, load, storeClosed, storeReaper, storeReapAt, loaded>> /\ S!Witness
        /\ entries' = [entries EXCEPT ![k] = S!NoEntry]
    BY <1>6 DEF S!Delete
  <2>2. entries' \in [Keys -> EntryType]
    BY <1>1, <1>2, <2>1
  <2> QED BY <1>1, <1>3, <2>1, <2>2, LoadsKept
<1>7. ASSUME NEW l \in Loaders, NEW k \in Keys, S!LoadTakes(l, k) PROVE StoreIInv'
  <2> DEFINE q == [busy |-> TRUE, key |-> k, entry |-> entries[k]]
  <2>1. /\ UNCHANGED <<now, entries, storeClosed, storeReaper, storeReapAt, loaded>> /\ S!Witness
        /\ load' = [load EXCEPT ![l] = q]
    BY <1>7 DEF S!LoadTakes
  <2>2. q \in LoadType /\ q.busy = TRUE /\ q.key = k /\ q.entry = entries[k]
    BY <1>1 DEF LoadType
  <2> HIDE DEF q
  <2>3. load' \in [Loaders -> LoadType] /\ load'[l] = q /\ \A m \in Loaders \ {l} : load'[m] = load[m]
    BY <1>1, <2>1, <2>2
  <2>4. ASSUME NEW m \in Loaders PROVE LoadSound(load'[m], current'[m], now')
    <3>1. CASE m = l
      <4>1. load'[l].busy = TRUE /\ load'[l].key = k
        BY <2>2, <2>3
      <4>2. S!Holds(entries', load'[l].key, now') \in current'[l]
        BY <2>1, <4>1 DEF S!Witness
      <4>3. now <= entries[k].exp => entries[k].val \in current'[l]
        BY <2>1, <4>1, <4>2 DEF S!Holds
      <4> QED BY <2>1, <2>2, <2>3, <3>1, <4>3 DEF LoadSound
    <3>2. CASE m # l
      <4>1. load[m].busy => current[m] \subseteq current'[m]
        BY <2>1, <2>3, <3>2 DEF S!Witness
      <4>2. LoadSound(load[m], current[m], now)
        BY DEF StoreIInv
      <4> QED BY <2>1, <2>3, <3>2, <4>1, <4>2 DEF LoadSound
    <3> QED BY <3>1, <3>2
  <2>5. S!LoadedWasHeld'
    BY <2>1 DEF StoreIInv, S!LoadedWasHeld
  <2> QED BY <1>1, <1>3, <2>1, <2>3, <2>4, <2>5
<1>8. ASSUME NEW l \in Loaders, S!LoadReturns(l) PROVE StoreIInv'
  <2>1. /\ UNCHANGED <<now, entries, storeClosed, storeReaper, storeReapAt>> /\ S!Witness
        /\ load' = [load EXCEPT ![l] = S!NoLoad] /\ load[l].busy
        /\ loaded' = [val |-> S!Result(load[l].entry), seen |-> current[l]]
    BY <1>8 DEF S!LoadReturns
  <2>2. load' \in [Loaders -> LoadType] /\ load'[l] = S!NoLoad /\ \A m \in Loaders \ {l} : load'[m] = load[m]
    BY <1>1, <1>2, <2>1
  <2>3. ASSUME NEW m \in Loaders PROVE LoadSound(load'[m], current'[m], now')
    <3>1. CASE m = l
      BY <1>2, <2>2, <3>1 DEF LoadSound
    <3>2. CASE m # l
      <4>1. load[m].busy => current[m] \subseteq current'[m]
        BY <2>1, <2>2, <3>2 DEF S!Witness
      <4>2. LoadSound(load[m], current[m], now)
        BY DEF StoreIInv
      <4> QED BY <2>1, <2>2, <3>2, <4>1, <4>2 DEF LoadSound
    <3> QED BY <3>1, <3>2
  <2>4. S!LoadedWasHeld'
    <3>1. LoadSound(load[l], current[l], now) /\ load[l].entry \in EntryType
      BY <1>1 DEF StoreIInv, LoadType
    <3>2. S!Result(load[l].entry) # NoVal => S!Result(load[l].entry) \in current[l]
      BY <1>1, <2>1, <3>1 DEF LoadSound, S!Result, EntryType
    <3> QED BY <2>1, <3>2 DEF S!LoadedWasHeld
  <2> QED BY <1>1, <1>3, <2>1, <2>2, <2>3, <2>4
<1>9. CASE S!Close
  BY <1>1, <1>3, <1>9, LoadsKept DEF S!Close
<1>10. CASE S!ReapTick
  BY <1>1, <1>3, <1>10, LoadsKept DEF S!ReapTick
<1>11. CASE S!ReapStop
  BY <1>1, <1>3, <1>11, LoadsKept DEF S!ReapStop
<1>12. CASE S!Reap
  <2>1. entries' \in [Keys -> EntryType]
    BY <1>1, <1>2, <1>12 DEF S!Reap, S!Kept
  <2> QED BY <1>1, <1>3, <1>12, <2>1, LoadsKept DEF S!Reap
<1>13. CASE UNCHANGED S!vars
  BY <1>13 DEF S!vars, StoreIInv, S!TypeOK, S!LoadedWasHeld
<1> QED BY <1>4, <1>5, <1>6, <1>7, <1>8, <1>9, <1>10, <1>11, <1>12, <1>13 DEF S!Next

\* A value that Load returns was the key's, and live, at some instant of the
\* call, though Save, Delete, the reaper and the clock move while it runs.
THEOREM StoreLoadsHeld == S!Spec => []LoadedWasHeld
<1>1. S!Spec => []StoreIInv
  BY StoreInitIInv, StoreNextIInv, PTL DEF S!Spec
<1>2. StoreIInv => LoadedWasHeld
  BY DEF StoreIInv, LoadedWasHeld
<1> QED BY <1>1, <1>2, PTL

LiveEntry(k) == IF now > entries[k].exp THEN S!NoEntry ELSE entries[k]

LiveEntries == [k \in Keys |-> LiveEntry(k)]

LEMMA StoreInitMap == S!Init => S!Map!TInit
  BY StoresAssumption DEF S!StoreAssumption, S!Init, S!NoEntry,
     S!Map!TInit, S!Map!Nothing, S!Map!NoCall

LEMMA StoreNextMap == StoreIInv /\ [S!Next]_(S!vars) => [S!Map!TNext]_(S!Map!tvars)
<1> SUFFICES ASSUME StoreIInv, [S!Next]_(S!vars) PROVE [S!Map!TNext]_(S!Map!tvars)
    OBVIOUS
<1> USE StoresAssumption DEF S!StoreAssumption
<1>1. /\ now \in Nat /\ storeReapAt \in Nat /\ storeReapAt <= now
      /\ entries \in [Keys -> EntryType]
  BY DEF StoreIInv, S!TypeOK, EntryType
<1>2. S!NoEntry = S!Map!Nothing /\ S!NoEntry.exp = 0
  BY DEF S!NoEntry, S!Map!Nothing
<1>3. \A k \in Keys : entries[k].exp \in Nat
  BY <1>1 DEF EntryType
<1>4. ASSUME UNCHANGED <<now, call>>, \A k \in Keys : LiveEntry(k)' = LiveEntry(k)
      PROVE  UNCHANGED S!Map!tvars
  BY <1>4 DEF S!Map!tvars, LiveEntry
<1>5. CASE S!Tick
  <2>1. now' = now + 1 /\ UNCHANGED <<entries, call>>
    BY <1>5 DEF S!Tick
  <2>2. \A k \in Keys : LiveEntry(k)' =
           IF now + 1 > LiveEntry(k).exp THEN S!NoEntry ELSE LiveEntry(k)
    BY <1>1, <1>2, <1>3, <2>1 DEF LiveEntry
  <2>3. S!Map!TTick
    BY <1>2, <2>1, <2>2 DEF S!Map!TTick, LiveEntry
  <2> QED BY <2>3 DEF S!Map!TNext
<1>6. ASSUME NEW k \in Keys, NEW v \in Vals, NEW ttl \in TTLs, S!Save(k, v, ttl)
      PROVE  S!Map!TNext
  <2> DEFINE e == [val |-> v, exp |-> now + ttl]
  <2>1. /\ entries' = [entries EXCEPT ![k] = e] /\ UNCHANGED now
        /\ call' = [op |-> "save", key |-> k]
    BY <1>6 DEF S!Save
  <2>2. e.exp = now + ttl /\ ttl \in Nat
    OBVIOUS
  <2> HIDE DEF e
  <2>3. LiveEntry(k)' = e
    BY <1>1, <2>1, <2>2 DEF LiveEntry
  <2>4. \A j \in Keys \ {k} : LiveEntry(j)' = LiveEntry(j)
    BY <1>1, <2>1 DEF LiveEntry
  <2>5. LiveEntries' = [LiveEntries EXCEPT ![k] = e]
    BY <2>3, <2>4 DEF LiveEntries
  <2>6. S!Map!TSave(k, v, ttl)
    BY <2>1, <2>5 DEF S!Map!TSave, LiveEntries, LiveEntry, e
  <2> QED BY <2>6 DEF S!Map!TNext
<1>7. ASSUME NEW k \in Keys, S!Delete(k) PROVE S!Map!TNext
  <2>1. /\ entries' = [entries EXCEPT ![k] = S!NoEntry] /\ UNCHANGED now
        /\ call' = [op |-> "delete", key |-> k]
    BY <1>7 DEF S!Delete
  <2>2. LiveEntry(k)' = S!NoEntry
    BY <1>1, <2>1 DEF LiveEntry
  <2>3. \A j \in Keys \ {k} : LiveEntry(j)' = LiveEntry(j)
    BY <1>1, <2>1 DEF LiveEntry
  <2>4. LiveEntries' = [LiveEntries EXCEPT ![k] = S!NoEntry]
    BY <2>2, <2>3 DEF LiveEntries
  <2>5. S!Map!TDelete(k)
    BY <1>2, <2>1, <2>4 DEF S!Map!TDelete, LiveEntries, LiveEntry
  <2> QED BY <2>5 DEF S!Map!TNext
<1>8. ASSUME NEW l \in Loaders, NEW k \in Keys, S!LoadTakes(l, k) \/ S!LoadReturns(l)
      PROVE  UNCHANGED S!Map!tvars
  BY <1>4, <1>8 DEF S!LoadTakes, S!LoadReturns, LiveEntry
<1>9. CASE S!Close \/ S!ReapTick \/ S!ReapStop \/ UNCHANGED S!vars
  BY <1>4, <1>9 DEF S!Close, S!ReapTick, S!ReapStop, S!vars, LiveEntry
<1>10. CASE S!Reap
  <2>1. \A k \in Keys : LiveEntry(k)' = LiveEntry(k)
    BY <1>1, <1>2, <1>3, <1>10 DEF S!Reap, S!Kept, LiveEntry
  <2> QED BY <1>4, <1>10, <2>1 DEF S!Reap
<1>11. ASSUME NEW l \in Loaders, S!LoadReturns(l) PROVE UNCHANGED S!Map!tvars
  BY <1>4, <1>11 DEF S!LoadReturns, LiveEntry
<1> QED BY <1>5, <1>6, <1>7, <1>8, <1>9, <1>10, <1>11 DEF S!Next

\* The in-memory session store implements the contract that the guards are
\* written against: what its reaper drops could not be loaded any more.
THEOREM StoreKeepsEntries == S!Spec => EntriesAsPromised
<1>1. S!Spec => []StoreIInv
  BY StoreInitIInv, StoreNextIInv, PTL DEF S!Spec
<1> QED BY <1>1, StoreInitMap, StoreNextMap, PTL
        DEF S!Spec, EntriesAsPromised, S!EntriesAsPromised, S!Map!TSpec

-----------------------------------------------------------------------------
(***************************************************************************)
(* storage/redis.Backend.                                                  *)
(***************************************************************************)

KeyType == [count : Nat, exp : Nat]

CallType == [pc : {"idle", "sent", "reply"}, cmd : R!Command \cup {R!NoCommand},
             sent : 0 .. MaxRetries + 1, exp : Nat]

\* An Incr that was executed, in the window of k that ends at e, and has not
\* returned.
Awaits(q, k, e) == q.pc = "reply" /\ q.cmd.op = "incr" /\ q.cmd.key = k /\ q.exp = e

Pending(calls, k, e) == {c \in Callers : Awaits(calls[c], k, e)}

\* A counter of the server is live or not there.
KeySound(ctr, time) ==
    /\ ctr.count = 0 => ctr = R!NoKey
    /\ ctr.count > 0 => time <= ctr.exp

\* It counts the calls that returned and those that are about to.
Counted(ctr, returned, calls, k) == returned + Cardinality(Pending(calls, k, ctr.exp)) <= ctr.count

\* A call about to return was executed in the window that its counter is in, or
\* in one that is over.
ReplySound(q, ctrs, time) ==
    q.pc = "reply" /\ q.cmd.op = "incr" =>
      q.exp > 0 /\ (q.exp = ctrs[q.cmd.key].exp \/ q.exp < time)

RedisTypes ==
    /\ now \in Nat \ {0} /\ counter \in [Keys -> KeyType] /\ redisBlocked \in [Keys -> Nat]
    /\ redisClosed \in BOOLEAN /\ caller \in [Callers -> CallType] /\ stray \subseteq R!Command
    /\ faults \in Nat /\ acked \in [Keys -> Nat] /\ banned \in [Keys -> Nat]
    /\ \A c \in Callers : caller[c].pc # "idle" => caller[c].cmd \in R!Command

RedisIInv ==
    /\ RedisTypes
    /\ \A k \in Keys : KeySound(counter[k], now) /\ Counted(counter[k], acked[k], caller, k)
    /\ \A c \in Callers : ReplySound(caller[c], counter, now)

LEMMA RedisConstants ==
    /\ IsFiniteSet(Callers) /\ Durations \subseteq Nat \ {0}
    /\ Epoch \in Nat \ {0} /\ MaxRetries \in Nat
    /\ \A k \in Keys : /\ R!WholeWindow[k] \in Nat \ {0}
                       /\ R!Milliseconds(AskedWindow[k]) = R!WholeWindow[k]
<1>1. IsFiniteSet(Callers)
  BY StoresAssumption DEF R!RedisAssumption, R!IsFiniteSet, IsFiniteSet
<1>2. ASSUME NEW k \in Keys
      PROVE  /\ R!WholeWindow[k] \in Nat \ {0}
             /\ R!Milliseconds(AskedWindow[k]) = R!WholeWindow[k]
  <2> DEFINE w == AskedWindow[k]
  <2>1. w \in Int /\ PerMilli \in Nat \ {0} /\ w >= PerMilli
    BY StoresAssumption DEF R!RedisAssumption
  <2>2. R!WholeWindow[k] = w \div PerMilli
    BY DEF R!WholeWindow
  <2> HIDE DEF w
  <2>3. w \div PerMilli \in Nat \ {0} /\ ~(w < 0)
    BY <2>1
  <2>4. R!Milliseconds(w) = w \div PerMilli
    BY <2>3 DEF R!Milliseconds
  <2> QED BY <2>2, <2>3, <2>4 DEF w
<1> QED BY <1>1, <1>2, StoresAssumption DEF R!RedisAssumption

\* An increment starts a window, of at least a millisecond, or is counted in one.
LEMMA IncrementedIs ==
    ASSUME RedisTypes, NEW k \in Keys
    PROVE  R!Incremented(k) = IF counter[k].count > 0 THEN [counter[k] EXCEPT !.count = @ + 1]
                              ELSE [count |-> 1, exp |-> now + R!WholeWindow[k]]
<1>1. R!Expiry(k) = now + R!WholeWindow[k] /\ now + R!WholeWindow[k] # now
  BY RedisConstants DEF R!Expiry, RedisTypes
<1> QED BY <1>1 DEF R!Incremented

LEMMA PendingCard ==
    ASSUME NEW calls, NEW k, NEW e
    PROVE  IsFiniteSet(Pending(calls, k, e)) /\ Cardinality(Pending(calls, k, e)) \in Nat
  BY RedisConstants, FS_Subset, FS_CardinalityType DEF Pending

\* How the number changes when one call does.
LEMMA PendingMoves ==
    ASSUME NEW calls, NEW calls2, NEW c \in Callers, NEW k, NEW e,
           \A d \in Callers \ {c} : calls2[d] = calls[d]
    PROVE  Cardinality(Pending(calls2, k, e)) =
             Cardinality(Pending(calls, k, e)) + (IF Awaits(calls2[c], k, e) THEN 1 ELSE 0)
                                               - (IF Awaits(calls[c], k, e) THEN 1 ELSE 0)
<1> DEFINE old == Pending(calls, k, e)
           new == Pending(calls2, k, e)
<1>1. /\ IsFiniteSet(old) /\ Cardinality(old) \in Nat
      /\ IsFiniteSet(new) /\ Cardinality(new) \in Nat
  BY PendingCard
<1>2. old \ {c} = new \ {c}
  BY DEF Pending
<1>3. /\ c \in old <=> Awaits(calls[c], k, e)
      /\ c \in new <=> Awaits(calls2[c], k, e)
  BY DEF Pending
<1> HIDE DEF old, new
<1>4. Cardinality(old \ {c}) = IF c \in old THEN Cardinality(old) - 1 ELSE Cardinality(old)
  BY <1>1, FS_RemoveElement
<1>5. Cardinality(new \ {c}) = IF c \in new THEN Cardinality(new) - 1 ELSE Cardinality(new)
  BY <1>1, FS_RemoveElement
<1> DEFINE o == Cardinality(old)
           n == Cardinality(new)
<1>6. (IF c \in old THEN o - 1 ELSE o) = (IF c \in new THEN n - 1 ELSE n)
  BY <1>2, <1>4, <1>5
<1>7. o \in Nat /\ n \in Nat
  BY <1>1
<1> HIDE DEF o, n
<1>8. n = o + (IF c \in new THEN 1 ELSE 0) - (IF c \in old THEN 1 ELSE 0)
  BY <1>6, <1>7
<1> QED BY <1>3, <1>8 DEF old, new, o, n

LEMMA CallerMoves ==
    ASSUME NEW c \in Callers, NEW k, NEW e, \A d \in Callers \ {c} : caller'[d] = caller[d]
    PROVE  Cardinality(Pending(caller', k, e)) =
             Cardinality(Pending(caller, k, e)) + (IF Awaits(caller'[c], k, e) THEN 1 ELSE 0)
                                                - (IF Awaits(caller[c], k, e) THEN 1 ELSE 0)
<1> DEFINE before == caller
           after == caller'
<1>1. \A d \in Callers \ {c} : after[d] = before[d]
  OBVIOUS
<1> HIDE DEF before, after
<1>2. Cardinality(Pending(after, k, e)) =
        Cardinality(Pending(before, k, e)) + (IF Awaits(after[c], k, e) THEN 1 ELSE 0)
                                           - (IF Awaits(before[c], k, e) THEN 1 ELSE 0)
  BY <1>1, PendingMoves
<1> QED BY <1>2 DEF before, after

LEMMA IdleCall == R!Idle \in CallType /\ R!Idle.pc = "idle"
  BY RedisConstants DEF R!Idle, CallType

LEMMA NoKeyType == R!NoKey \in KeyType /\ R!NoKey.count = 0 /\ R!NoKey.exp = 0
  BY DEF R!NoKey, KeyType

LEMMA CallKey ==
    ASSUME NEW q \in CallType, q.cmd.op = "incr"
    PROVE  q.cmd \in R!Command /\ q.cmd.key \in Keys /\ q.exp \in Nat
<1>1. q.cmd \in R!Command \cup {R!NoCommand} /\ q.exp \in Nat
  BY DEF CallType
<1>2. q.cmd # R!NoCommand
  BY DEF R!NoCommand
<1> QED BY <1>1, <1>2 DEF R!Command

LEMMA CommandTypes ==
    ASSUME NEW cmd \in R!Command
    PROVE  /\ cmd.key \in Keys /\ cmd.op \in {"incr", "get", "block", "isBlocked"}
           /\ cmd.op = "block" => cmd.dur \in Durations /\ cmd.dur \in Nat \ {0}
  BY RedisConstants DEF R!Command

LEMMA RedisInitTypes == R!Init => RedisTypes
<1> SUFFICES ASSUME R!Init PROVE RedisTypes
    OBVIOUS
<1>1. counter \in [Keys -> KeyType] /\ caller \in [Callers -> CallType]
  BY IdleCall, NoKeyType DEF R!Init
<1>2. \A c \in Callers : caller[c].pc = "idle"
  BY IdleCall DEF R!Init
<1>3. redisClosed \in BOOLEAN
  BY DEF R!Init
<1> QED BY <1>1, <1>2, <1>3, RedisConstants DEF R!Init, RedisTypes

LEMMA ExecutedTypes ==
    ASSUME RedisTypes, NEW cmd \in R!Command, R!Execute(cmd)
    PROVE  /\ counter' \in [Keys -> KeyType] /\ redisBlocked' \in [Keys -> Nat]
           /\ banned' \in [Keys -> Nat]
<1>1. cmd.key \in Keys
  BY CommandTypes
<1>2. CASE R!ExecIncr(cmd.key)
  <2>1. now + R!WholeWindow[cmd.key] \in Nat
    BY <1>1, RedisConstants DEF RedisTypes
  <2>2. R!Incremented(cmd.key) \in KeyType
    BY <1>1, <2>1, IncrementedIs DEF RedisTypes, KeyType
  <2> QED BY <1>1, <1>2, <2>2 DEF R!ExecIncr, RedisTypes
<1>3. CASE cmd.op = "block" /\ R!ExecBlock(cmd.key, cmd.dur)
  <2>1. now + cmd.dur \in Nat
    BY <1>3, CommandTypes DEF RedisTypes
  <2> QED BY <1>1, <1>3, <2>1 DEF R!ExecBlock, R!Banned, RedisTypes
<1>4. CASE R!ExecGet(cmd.key) \/ R!ExecIsBlocked(cmd.key)
  BY <1>4 DEF R!ExecGet, R!ExecIsBlocked, RedisTypes
<1> QED BY <1>2, <1>3, <1>4 DEF R!Execute

\* A step of one call.
LEMMA CallTypes ==
    ASSUME RedisTypes, NEW c \in Callers, NEW q \in CallType,
           q.pc # "idle" => q.cmd \in R!Command, caller' = [caller EXCEPT ![c] = q]
    PROVE  /\ caller' \in [Callers -> CallType] /\ caller'[c] = q
           /\ \A d \in Callers \ {c} : caller'[d] = caller[d]
           /\ \A d \in Callers : caller'[d].pc # "idle" => caller'[d].cmd \in R!Command
  BY DEF RedisTypes

LEMMA CallStarts ==
    ASSUME NEW cmd \in R!Command, NEW q, q = [R!Idle EXCEPT !.pc = "sent", !.cmd = cmd, !.sent = 1]
    PROVE  q \in CallType /\ q.pc = "sent" /\ q.cmd = cmd
<1>1. 1 \in 0 .. MaxRetries + 1
  BY RedisConstants
<1> QED BY <1>1, IdleCall DEF CallType

\* The call after a broken connection.
LEMMA CallBreaks ==
    ASSUME RedisTypes, NEW c \in Callers, R!Break(c)
    PROVE  \E q \in CallType : /\ q.pc # "reply"
                               /\ q.pc # "idle" => q.cmd \in R!Command /\ q.cmd = caller[c].cmd
                               /\ caller' = [caller EXCEPT ![c] = q]
<1> DEFINE q == caller[c]
           r == [q EXCEPT !.pc = "sent", !.sent = @ + 1, !.exp = 0]
<1>1. q \in CallType /\ q.cmd \in R!Command /\ q.pc # "idle"
  BY DEF RedisTypes, R!Break
<1>2. caller' = [caller EXCEPT ![c] = IF q.sent <= MaxRetries /\ R!Bounded(q.cmd) THEN r ELSE R!Idle]
  BY DEF R!Break
<1>3. CASE q.sent <= MaxRetries /\ R!Bounded(q.cmd)
  <2>1. q.sent + 1 \in 0 .. MaxRetries + 1
    BY <1>1, <1>3, RedisConstants DEF CallType
  <2>2. r \in CallType /\ r.pc = "sent" /\ r.cmd = q.cmd
    BY <1>1, <2>1 DEF CallType
  <2> HIDE DEF r
  <2> QED BY <1>1, <1>2, <1>3, <2>2
<1>4. CASE ~(q.sent <= MaxRetries /\ R!Bounded(q.cmd))
  BY <1>2, <1>4, IdleCall
<1> QED BY <1>3, <1>4

\* What a call awaits when its command was executed.
LEMMA CallReplies ==
    ASSUME RedisTypes, NEW c \in Callers, R!Exec(c)
    PROVE  /\ caller[c].pc = "sent" /\ caller[c].cmd \in R!Command /\ R!Execute(caller[c].cmd)
           /\ \E r \in CallType :
                /\ caller' = [caller EXCEPT ![c] = r]
                /\ r.pc = "reply" /\ r.cmd = caller[c].cmd
                /\ r.cmd.op = "incr" => r.exp = counter'[r.cmd.key].exp
<1> DEFINE q == caller[c]
           cmd == q.cmd
           e == IF cmd.op = "incr" THEN counter'[cmd.key].exp ELSE 0
           r == [q EXCEPT !.pc = "reply", !.exp = e]
<1>1. /\ q.pc = "sent" /\ R!Execute(cmd) /\ caller' = [caller EXCEPT ![c] = r]
  BY DEF R!Exec
<1>2. q \in CallType /\ cmd \in R!Command /\ cmd.key \in Keys
  BY <1>1, CommandTypes DEF RedisTypes
<1> HIDE DEF q, cmd
<1>3. e \in Nat
  <2>1. counter'[cmd.key].exp \in Nat
    BY <1>1, <1>2, ExecutedTypes DEF KeyType
  <2> QED BY <2>1
<1>4. cmd.op = "incr" => e = counter'[cmd.key].exp
  OBVIOUS
<1> HIDE DEF e
<1>5. r \in CallType /\ r.pc = "reply" /\ r.cmd = cmd /\ r.exp = e
  BY <1>2, <1>3 DEF CallType, cmd
<1> HIDE DEF r
<1> QED BY <1>1, <1>2, <1>4, <1>5 DEF q, cmd

LEMMA RedisNextTypes == RedisTypes /\ R!Next => RedisTypes'
<1> SUFFICES ASSUME RedisTypes, R!Next PROVE RedisTypes'
    OBVIOUS
<1>1. CASE R!Tick
  <2>1. now + 1 \in Nat \ {0}
    BY DEF RedisTypes
  <2>2. counter' \in [Keys -> KeyType]
    BY <1>1, NoKeyType DEF R!Tick, RedisTypes
  <2> QED BY <1>1, <2>1, <2>2 DEF R!Tick, RedisTypes
<1>2. CASE R!Close
  <2>1. \A c \in Callers : caller[c].pc = "sent" => caller[c].cmd \in R!Command
    BY DEF RedisTypes
  <2> QED BY <1>2, <2>1, IdleCall DEF R!Close, RedisTypes
<1>3. ASSUME NEW cmd \in R!Command, R!ExecStray(cmd) PROVE RedisTypes'
  BY <1>3, ExecutedTypes DEF R!ExecStray, RedisTypes
<1>4. ASSUME NEW c \in Callers, NEW cmd \in R!Command, R!Call(c, cmd) PROVE RedisTypes'
  <2>1. PICK q : /\ q = [R!Idle EXCEPT !.pc = "sent", !.cmd = cmd, !.sent = 1]
                 /\ caller' = [caller EXCEPT ![c] = q]
    BY <1>4 DEF R!Call
  <2>2. q \in CallType /\ q.pc = "sent" /\ q.cmd = cmd
    BY <2>1, CallStarts
  <2>3. banned' \in [Keys -> Nat]
    BY <1>4, CommandTypes DEF R!Call, RedisTypes
  <2> QED BY <1>4, <2>1, <2>2, <2>3, CallTypes DEF R!Call, RedisTypes
<1>5. ASSUME NEW c \in Callers, R!Exec(c) PROVE RedisTypes'
  <2>1. PICK r \in CallType : /\ caller' = [caller EXCEPT ![c] = r]
                              /\ r.pc = "reply" /\ r.cmd = caller[c].cmd
    BY <1>5, CallReplies
  <2>2. R!Execute(caller[c].cmd) /\ caller[c].cmd \in R!Command
    BY <1>5, CallReplies
  <2> QED BY <1>5, <2>1, <2>2, ExecutedTypes, CallTypes DEF R!Exec, RedisTypes
<1>6. ASSUME NEW c \in Callers, R!Return(c) PROVE RedisTypes'
  <2> DEFINE q == caller[c]
             k == q.cmd.key
  <2>1. q \in CallType
    BY DEF RedisTypes
  <2>2. acked' \in [Keys -> Nat]
    <3>1. CASE q.cmd.op = "incr" /\ q.exp = counter[k].exp
      BY <1>6, <2>1, <3>1, CallKey DEF R!Return, RedisTypes
    <3>2. CASE ~(q.cmd.op = "incr" /\ q.exp = counter[k].exp)
      BY <1>6, <3>2 DEF R!Return, RedisTypes
    <3> QED BY <3>1, <3>2
  <2>3. caller' = [caller EXCEPT ![c] = R!Idle]
    BY <1>6 DEF R!Return
  <2> QED BY <1>6, <2>2, <2>3, IdleCall, CallTypes DEF R!Return, RedisTypes
<1>7. ASSUME NEW c \in Callers, R!Break(c) PROVE RedisTypes'
  <2>1. PICK q \in CallType : /\ q.pc # "idle" => q.cmd \in R!Command
                              /\ caller' = [caller EXCEPT ![c] = q]
    BY <1>7, CallBreaks
  <2>2. faults' \in Nat /\ stray' \subseteq R!Command
    BY <1>7 DEF R!Break, RedisTypes
  <2> QED BY <1>7, <2>1, <2>2, CallTypes DEF R!Break, RedisTypes
<1>8. ASSUME NEW c \in Callers, R!CallClosed(c) PROVE RedisTypes'
  BY <1>8 DEF R!CallClosed, R!vars, RedisTypes
<1> QED BY <1>1, <1>2, <1>3, <1>4, <1>5, <1>6, <1>7, <1>8 DEF R!Next

LEMMA RedisInitIInv == R!Init => RedisIInv
<1> SUFFICES ASSUME R!Init PROVE RedisIInv
    OBVIOUS
<1>1. RedisTypes
  BY RedisInitTypes
<1>2. \A k \in Keys : KeySound(counter[k], now)
  <2>1. KeySound(R!NoKey, now)
    BY NoKeyType DEF KeySound
  <2> QED BY <2>1 DEF R!Init
<1>3. ASSUME NEW k \in Keys PROVE Counted(counter[k], acked[k], caller, k)
  <2>1. Pending(caller, k, counter[k].exp) = {}
    BY IdleCall DEF R!Init, Pending, Awaits
  <2>2. Cardinality(Pending(caller, k, counter[k].exp)) = 0
    BY <2>1, FS_EmptySet
  <2>3. counter[k].count = 0 /\ acked[k] = 0
    BY NoKeyType DEF R!Init
  <2> QED BY <2>2, <2>3 DEF Counted
<1>4. \A c \in Callers : ReplySound(caller[c], counter, now)
  BY IdleCall DEF R!Init, ReplySound
<1> QED BY <1>1, <1>2, <1>3, <1>4 DEF RedisIInv

\* What the server does with a command, whoever sent it and whenever.
LEMMA IncrExecuted ==
    ASSUME RedisIInv, NEW k \in Keys, R!ExecIncr(k)
    PROVE  /\ counter'[k] \in KeyType /\ counter'[k].count > 0 /\ now <= counter'[k].exp
           /\ counter' = [counter EXCEPT ![k] = counter'[k]]
           /\ counter[k].count # 0 => counter'[k].exp = counter[k].exp
           /\ acked[k] + Cardinality(Pending(caller, k, counter'[k].exp)) + 1 <= counter'[k].count
<1> DEFINE n == R!Incremented(k)
<1>1. counter' = [counter EXCEPT ![k] = n]
  BY DEF R!ExecIncr
<1>2. /\ RedisTypes /\ now \in Nat \ {0} /\ counter \in [Keys -> KeyType] /\ acked[k] \in Nat
      /\ counter[k] \in KeyType /\ caller \in [Callers -> CallType]
  BY DEF RedisIInv, RedisTypes
<1>3. KeySound(counter[k], now) /\ Counted(counter[k], acked[k], caller, k)
  BY DEF RedisIInv
<1>4. counter[k].count \in Nat /\ counter[k].exp \in Nat
  BY <1>2 DEF KeyType
<1>5. counter'[k] = n /\ counter' = [counter EXCEPT ![k] = counter'[k]]
  <2>1. counter'[k] = n
    BY <1>1, <1>2
  <2> QED BY <1>1, <2>1
<1>6. CASE counter[k].count = 0
  <2>1. n = [count |-> 1, exp |-> now + R!WholeWindow[k]]
    BY <1>2, <1>4, <1>6, IncrementedIs
  <2>2. now + R!WholeWindow[k] \in Nat /\ now < now + R!WholeWindow[k]
    BY <1>2, RedisConstants
  <2>3. n \in KeyType /\ n.count = 1 /\ n.exp = now + R!WholeWindow[k]
    BY <2>1, <2>2 DEF KeyType
  <2> HIDE DEF n
  <2>4. ASSUME NEW c \in Callers, Awaits(caller[c], k, n.exp) PROVE FALSE
    <3>1. ReplySound(caller[c], counter, now)
      BY DEF RedisIInv
    <3>2. counter[k].exp = 0
      BY <1>3, <1>6, NoKeyType DEF KeySound
    <3> QED BY <1>2, <2>2, <2>3, <2>4, <3>1, <3>2 DEF Awaits, ReplySound
  <2>5. Pending(caller, k, n.exp) = {}
    BY <2>4 DEF Pending
  <2>6. Cardinality(Pending(caller, k, n.exp)) = 0
    BY <2>5, FS_EmptySet
  <2>7. acked[k] = 0
    <3>1. Cardinality(Pending(caller, k, counter[k].exp)) \in Nat
      BY PendingCard
    <3> QED BY <1>2, <1>3, <1>6, <3>1 DEF Counted
  <2>8. n.count > 0 /\ now <= n.exp /\ acked[k] + Cardinality(Pending(caller, k, n.exp)) + 1 <= n.count
    BY <1>2, <2>2, <2>3, <2>6, <2>7
  <2> QED BY <1>1, <1>5, <1>6, <2>3, <2>8
<1>7. CASE counter[k].count # 0
  <2>1. n = [counter[k] EXCEPT !.count = @ + 1]
    BY <1>2, <1>4, <1>7, IncrementedIs
  <2>2. n \in KeyType /\ n.count = counter[k].count + 1 /\ n.exp = counter[k].exp
    BY <1>2, <1>4, <2>1 DEF KeyType
  <2> HIDE DEF n
  <2>3. now <= n.exp
    BY <1>3, <1>4, <1>7, <2>2 DEF KeySound
  <2>4. acked[k] + Cardinality(Pending(caller, k, n.exp)) + 1 <= n.count
    <3>1. Cardinality(Pending(caller, k, counter[k].exp)) \in Nat
      BY PendingCard
    <3> QED BY <1>2, <1>3, <1>4, <2>2, <3>1 DEF Counted
  <2>5. n.count > 0
    BY <1>4, <2>2
  <2> QED BY <1>1, <1>5, <2>2, <2>3, <2>4, <2>5
<1> QED BY <1>6, <1>7

LEMMA Executed ==
    ASSUME RedisIInv, NEW cmd \in R!Command, R!Execute(cmd)
    PROVE  /\ counter' \in [Keys -> KeyType] /\ redisBlocked' \in [Keys -> Nat]
           /\ \A k \in Keys :
                /\ KeySound(counter'[k], now)
                /\ acked[k] + Cardinality(Pending(caller, k, counter'[k].exp))
                     + (IF cmd.op = "incr" /\ cmd.key = k THEN 1 ELSE 0) <= counter'[k].count
           /\ \A c \in Callers : ReplySound(caller[c], counter', now)
           /\ cmd.op = "incr" => counter'[cmd.key].exp > 0
<1> DEFINE k == cmd.key
           P(j) == Cardinality(Pending(caller, j, counter'[j].exp))
<1>1. k \in Keys /\ cmd.op \in {"incr", "get", "block", "isBlocked"}
  BY CommandTypes
<1>2. /\ now \in Nat \ {0} /\ counter \in [Keys -> KeyType]
      /\ caller \in [Callers -> CallType] /\ acked \in [Keys -> Nat]
      /\ counter' \in [Keys -> KeyType] /\ redisBlocked' \in [Keys -> Nat]
  BY ExecutedTypes DEF RedisIInv, RedisTypes
<1>3. /\ \A j \in Keys : KeySound(counter[j], now) /\ Counted(counter[j], acked[j], caller, j)
      /\ \A c \in Callers : ReplySound(caller[c], counter, now)
  BY DEF RedisIInv
<1>4. \A j \in Keys : acked[j] + Cardinality(Pending(caller, j, counter[j].exp)) + 0 <= counter[j].count
  <2> SUFFICES ASSUME NEW j \in Keys
               PROVE  acked[j] + Cardinality(Pending(caller, j, counter[j].exp)) + 0 <= counter[j].count
    OBVIOUS
  <2>1. Cardinality(Pending(caller, j, counter[j].exp)) \in Nat /\ acked[j] \in Nat
    BY <1>2, PendingCard
  <2> QED BY <1>3, <2>1 DEF Counted
<1>5. CASE cmd.op = "incr"
  <2>1. R!ExecIncr(k)
    BY <1>5 DEF R!Execute
  <2>2. /\ counter'[k] \in KeyType /\ counter'[k].count > 0 /\ now <= counter'[k].exp
        /\ counter' = [counter EXCEPT ![k] = counter'[k]]
        /\ counter[k].count # 0 => counter'[k].exp = counter[k].exp
        /\ acked[k] + P(k) + 1 <= counter'[k].count
    BY <1>1, <2>1, IncrExecuted
  <2>3. counter' \in [Keys -> KeyType] /\ \A j \in Keys \ {k} : counter'[j] = counter[j]
    BY <1>1, <1>2, <2>2
  <2>4. counter'[k].exp \in Nat /\ counter'[k].count \in Nat /\ counter'[k].exp > 0
    BY <1>2, <2>2 DEF KeyType
  <2>5. KeySound(counter'[k], now)
    BY <2>2, <2>4 DEF KeySound
  <2>6. ASSUME NEW j \in Keys
        PROVE  /\ KeySound(counter'[j], now)
               /\ acked[j] + P(j) + (IF cmd.op = "incr" /\ k = j THEN 1 ELSE 0) <= counter'[j].count
    <3>1. CASE j = k
      BY <1>5, <2>2, <2>5, <3>1
    <3>2. CASE j # k
      BY <1>3, <1>4, <2>3, <3>2
    <3> QED BY <3>1, <3>2
  <2>7. ASSUME NEW c \in Callers PROVE ReplySound(caller[c], counter', now)
    <3> DEFINE q == caller[c]
    <3>1. ReplySound(q, counter, now) /\ q \in CallType
      BY <1>2, <1>3
    <3>2. CASE q.pc = "reply" /\ q.cmd.op = "incr" /\ q.cmd.key = k /\ counter[k].count = 0
      <4>1. counter[k].exp = 0
        BY <1>1, <1>3, <3>2, NoKeyType DEF KeySound
      <4>2. q.exp > 0 /\ (q.exp = 0 \/ q.exp < now) /\ q.exp \in Nat
        BY <3>1, <3>2, <4>1, CallKey DEF ReplySound
      <4>3. q.exp > 0 /\ q.exp < now
        BY <4>2
      <4> QED BY <3>2, <4>3 DEF ReplySound
    <3>3. CASE q.pc = "reply" /\ q.cmd.op = "incr" /\ q.cmd.key = k /\ counter[k].count # 0
      BY <2>2, <3>1, <3>3 DEF ReplySound
    <3>4. CASE q.pc = "reply" /\ q.cmd.op = "incr" /\ q.cmd.key # k
      <4>1. counter'[q.cmd.key] = counter[q.cmd.key]
        BY <2>3, <3>1, <3>4, CallKey
      <4> QED BY <3>1, <3>4, <4>1 DEF ReplySound
    <3>5. CASE q.pc # "reply" \/ q.cmd.op # "incr"
      BY <2>2, <3>1, <3>5 DEF ReplySound
    <3> QED BY <3>2, <3>3, <3>4, <3>5
  <2> QED BY <1>2, <1>3, <1>5, <2>2, <2>3, <2>4, <2>6, <2>7
<1>6. CASE cmd.op \in {"get", "block", "isBlocked"}
  <2>1. counter' = counter
    BY <1>6 DEF R!Execute, R!ExecGet, R!ExecBlock, R!ExecIsBlocked
  <2> QED BY <1>2, <1>3, <1>4, <1>6, <2>1
<1> QED BY <1>1, <1>5, <1>6

\* A step of one call that the server does not see.
LEMMA CallMoves ==
    ASSUME RedisIInv, RedisTypes', NEW c \in Callers, NEW q \in CallType, q.pc # "reply",
           caller' = [caller EXCEPT ![c] = q],
           UNCHANGED <<now, counter, acked>>
    PROVE  RedisIInv'
<1>1. RedisTypes /\ caller \in [Callers -> CallType]
  BY DEF RedisIInv, RedisTypes
<1>2. /\ caller' \in [Callers -> CallType] /\ caller'[c] = q
      /\ \A d \in Callers \ {c} : caller'[d] = caller[d]
  BY <1>1
<1>4. ASSUME NEW k \in Keys PROVE Counted(counter[k], acked[k], caller', k)
  <2> DEFINE e == counter[k].exp
             o == Cardinality(Pending(caller, k, e))
             n == Cardinality(Pending(caller', k, e))
  <2>1. n = o + (IF Awaits(caller'[c], k, e) THEN 1 ELSE 0) - (IF Awaits(caller[c], k, e) THEN 1 ELSE 0)
    BY <1>2, CallerMoves
  <2>2. ~Awaits(caller'[c], k, e)
    BY <1>2 DEF Awaits
  <2>3. o \in Nat
    BY PendingCard
  <2>4. acked[k] \in Nat /\ counter[k].count \in Nat /\ acked[k] + o <= counter[k].count
    BY <1>1 DEF RedisIInv, RedisTypes, Counted, KeyType
  <2> HIDE DEF n, o
  <2>5. acked[k] + n <= counter[k].count
    BY <2>1, <2>2, <2>3, <2>4
  <2> QED BY <2>5 DEF Counted, n, o
<1>5. ASSUME NEW d \in Callers PROVE ReplySound(caller'[d], counter, now)
  <2>1. CASE d = c
    BY <1>2, <2>1 DEF ReplySound
  <2>2. CASE d # c
    BY <1>2, <2>2 DEF RedisIInv
  <2> QED BY <2>1, <2>2
<1> QED BY <1>4, <1>5 DEF RedisIInv

LEMMA ExecKeeps == ASSUME RedisIInv, RedisTypes', NEW c \in Callers, R!Exec(c) PROVE RedisIInv'
<1> DEFINE q == caller[c]
           cmd == q.cmd
<1>1. RedisTypes
  BY DEF RedisIInv
<1>2. q.pc = "sent" /\ cmd \in R!Command /\ R!Execute(cmd) /\ UNCHANGED <<now, stray, acked>>
  BY <1>1, CallReplies DEF R!Exec
<1>3. PICK r \in CallType :
        /\ caller' = [caller EXCEPT ![c] = r]
        /\ r.pc = "reply" /\ r.cmd = cmd
        /\ r.cmd.op = "incr" => r.exp = counter'[r.cmd.key].exp
  BY <1>1, CallReplies
<1> HIDE DEF q, cmd
<1>5. /\ counter' \in [Keys -> KeyType] /\ redisBlocked' \in [Keys -> Nat]
      /\ \A k \in Keys :
           /\ KeySound(counter'[k], now)
           /\ acked[k] + Cardinality(Pending(caller, k, counter'[k].exp))
                + (IF cmd.op = "incr" /\ cmd.key = k THEN 1 ELSE 0) <= counter'[k].count
      /\ \A d \in Callers : ReplySound(caller[d], counter', now)
      /\ cmd.op = "incr" => counter'[cmd.key].exp > 0
  BY <1>2, Executed
<1>9. /\ caller' \in [Callers -> CallType] /\ caller'[c] = r
      /\ \A d \in Callers \ {c} : caller'[d] = caller[d]
  BY <1>1, <1>3 DEF RedisTypes
<1>11. ASSUME NEW k \in Keys PROVE Counted(counter'[k], acked[k], caller', k)
  <2> DEFINE w == counter'[k].exp
             o == Cardinality(Pending(caller, k, w))
             n == Cardinality(Pending(caller', k, w))
             i == IF cmd.op = "incr" /\ cmd.key = k THEN 1 ELSE 0
  <2>1. n = o + (IF Awaits(caller'[c], k, w) THEN 1 ELSE 0) - (IF Awaits(caller[c], k, w) THEN 1 ELSE 0)
    BY <1>9, CallerMoves
  <2>2. ~Awaits(caller[c], k, w) /\ (Awaits(caller'[c], k, w) => cmd.op = "incr" /\ cmd.key = k)
    BY <1>2, <1>3, <1>9 DEF Awaits, q
  <2>3. o \in Nat /\ acked[k] \in Nat /\ counter'[k].count \in Nat
    BY <1>1, <1>5, PendingCard DEF RedisTypes, KeyType
  <2>4. acked[k] + o + i <= counter'[k].count
    BY <1>5
  <2> HIDE DEF n, o
  <2>5. acked[k] + n <= counter'[k].count
    BY <2>1, <2>2, <2>3, <2>4
  <2> QED BY <2>5 DEF Counted, n, o
<1>12. ASSUME NEW d \in Callers PROVE ReplySound(caller'[d], counter', now)
  <2>1. CASE d = c
    <3>1. r.exp \in Nat
      BY DEF CallType
    <3>2. cmd.op = "incr" => r.exp > 0 /\ r.exp = counter'[cmd.key].exp
      BY <1>3, <1>5, <3>1
    <3> QED BY <1>3, <1>9, <2>1, <3>2 DEF ReplySound
  <2>2. CASE d # c
    BY <1>5, <1>9, <2>2
  <2> QED BY <2>1, <2>2
<1> QED BY <1>2, <1>5, <1>11, <1>12 DEF RedisIInv

LEMMA StrayKeeps == ASSUME RedisIInv, RedisTypes', NEW cmd \in R!Command, R!ExecStray(cmd) PROVE RedisIInv'
<1>1. R!Execute(cmd) /\ UNCHANGED <<now, caller, acked>> /\ stray' \subseteq stray
  BY DEF R!ExecStray
<1>2. /\ counter' \in [Keys -> KeyType] /\ redisBlocked' \in [Keys -> Nat]
      /\ \A k \in Keys :
           /\ KeySound(counter'[k], now)
           /\ acked[k] + Cardinality(Pending(caller, k, counter'[k].exp))
                + (IF cmd.op = "incr" /\ cmd.key = k THEN 1 ELSE 0) <= counter'[k].count
      /\ \A c \in Callers : ReplySound(caller[c], counter', now)
  BY <1>1, Executed
<1>4. ASSUME NEW k \in Keys PROVE Counted(counter'[k], acked[k], caller, k)
  <2>1. acked[k] \in Nat /\ counter'[k].count \in Nat
        /\ Cardinality(Pending(caller, k, counter'[k].exp)) \in Nat
    BY <1>2, PendingCard DEF RedisIInv, RedisTypes, KeyType
  <2> QED BY <1>2, <2>1 DEF Counted
<1> QED BY <1>1, <1>2, <1>4 DEF RedisIInv

LEMMA ReturnCounts == ASSUME RedisIInv, RedisTypes', NEW c \in Callers, R!Return(c) PROVE RedisIInv'
<1> DEFINE q == caller[c]
           k == q.cmd.key
           counts == q.cmd.op = "incr" /\ q.exp = counter[k].exp
<1>1. /\ RedisTypes /\ caller \in [Callers -> CallType] /\ q \in CallType /\ now \in Nat
      /\ acked \in [Keys -> Nat]
  BY DEF RedisIInv, RedisTypes
<1>2. /\ q.pc = "reply" /\ caller' = [caller EXCEPT ![c] = R!Idle]
      /\ acked' = IF counts THEN [acked EXCEPT ![k] = @ + 1] ELSE acked
      /\ UNCHANGED <<now, counter, stray>>
  BY DEF R!Return
<1>3. (counts => k \in Keys) /\ q.exp \in Nat
  BY <1>1, CallKey DEF CallType
<1>4. /\ caller' \in [Callers -> CallType] /\ caller'[c] = R!Idle
      /\ \A d \in Callers \ {c} : caller'[d] = caller[d]
  BY <1>1, <1>2, IdleCall
<1>5. /\ acked' \in [Keys -> Nat]
      /\ \A j \in Keys : acked'[j] = IF counts /\ j = k THEN acked[j] + 1 ELSE acked[j]
  BY <1>1, <1>2, <1>3
<1>8. ASSUME NEW j \in Keys PROVE Counted(counter[j], acked'[j], caller', j)
  <2> DEFINE e == counter[j].exp
             o == Cardinality(Pending(caller, j, e))
             n == Cardinality(Pending(caller', j, e))
  <2>1. n = o + (IF Awaits(caller'[c], j, e) THEN 1 ELSE 0) - (IF Awaits(q, j, e) THEN 1 ELSE 0)
    BY <1>4, CallerMoves
  <2>2. ~Awaits(caller'[c], j, e) /\ (Awaits(q, j, e) <=> counts /\ j = k)
    BY <1>2, <1>4, IdleCall DEF Awaits
  <2>3. o \in Nat
    BY PendingCard
  <2>4. acked[j] \in Nat /\ counter[j].count \in Nat /\ acked[j] + o <= counter[j].count
    BY <1>1 DEF RedisIInv, RedisTypes, Counted, KeyType
  <2>5. acked'[j] = IF counts /\ j = k THEN acked[j] + 1 ELSE acked[j]
    BY <1>5
  <2> HIDE DEF n, o, counts, k, q
  <2>6. acked'[j] + n <= counter[j].count
    BY <2>1, <2>2, <2>3, <2>4, <2>5
  <2> QED BY <2>6 DEF Counted, n, o
<1>10. ASSUME NEW d \in Callers PROVE ReplySound(caller'[d], counter, now)
  <2>1. CASE d = c
    BY <1>4, <2>1, IdleCall DEF ReplySound
  <2>2. CASE d # c
    BY <1>4, <2>2 DEF RedisIInv
  <2> QED BY <2>1, <2>2
<1>11. \A j \in Keys : KeySound(counter[j], now)
  BY DEF RedisIInv
<1> QED BY <1>2, <1>8, <1>10, <1>11 DEF RedisIInv

LEMMA RedisTickKeeps == ASSUME RedisIInv, RedisTypes', R!Tick PROVE RedisIInv'
<1>1. RedisTypes /\ now \in Nat /\ now + 1 \in Nat /\ now + 1 # 0
  BY DEF RedisIInv, RedisTypes
<1>2. /\ now' = now + 1 /\ UNCHANGED <<caller, stray>>
      /\ counter' = [k \in Keys |-> IF now + 1 > counter[k].exp THEN R!NoKey ELSE counter[k]]
      /\ acked' = [k \in Keys |-> IF now + 1 > counter[k].exp THEN 0 ELSE acked[k]]
  BY DEF R!Tick
<1>4. ASSUME NEW k \in Keys
      PROVE  KeySound(counter'[k], now') /\ Counted(counter'[k], acked'[k], caller, k)
  <2>1. KeySound(counter[k], now) /\ Counted(counter[k], acked[k], caller, k)
        /\ counter[k] \in KeyType
    BY <1>1 DEF RedisIInv, RedisTypes
  <2>2. CASE now + 1 > counter[k].exp
    <3>1. counter'[k] = R!NoKey /\ acked'[k] = 0
      BY <1>2, <2>2
    <3>2. \A c \in Callers : ~Awaits(caller[c], k, 0)
      BY NoKeyType DEF RedisIInv, ReplySound, Awaits
    <3>3. Pending(caller, k, 0) = {}
      BY <3>2 DEF Pending
    <3>4. Cardinality(Pending(caller, k, 0)) = 0
      BY <3>3, FS_EmptySet
    <3>5. KeySound(R!NoKey, now') /\ Counted(R!NoKey, 0, caller, k)
      BY <3>4, NoKeyType DEF KeySound, Counted
    <3> QED BY <3>1, <3>5
  <2>3. CASE ~(now + 1 > counter[k].exp)
    <3>1. counter'[k] = counter[k] /\ acked'[k] = acked[k]
      BY <1>2, <2>3
    <3>2. now' <= counter[k].exp
      BY <1>1, <1>2, <2>1, <2>3 DEF KeyType
    <3>3. KeySound(counter[k], now')
      BY <2>1, <3>2 DEF KeySound
    <3> QED BY <2>1, <3>1, <3>3
  <2> QED BY <2>2, <2>3
<1>6. ASSUME NEW c \in Callers PROVE ReplySound(caller[c], counter', now')
  <2> DEFINE q == caller[c]
  <2>1. ReplySound(q, counter, now) /\ q \in CallType
    BY <1>1 DEF RedisIInv, RedisTypes
  <2>2. CASE q.pc = "reply" /\ q.cmd.op = "incr"
    <3>1. q.cmd.key \in Keys /\ q.exp \in Nat /\ q.exp > 0
      BY <2>1, <2>2, CallKey DEF ReplySound
    <3>2. q.exp = counter[q.cmd.key].exp \/ q.exp < now
      BY <2>1, <2>2 DEF ReplySound
    <3>3. CASE counter'[q.cmd.key] = counter[q.cmd.key] /\ q.exp = counter[q.cmd.key].exp
      BY <2>2, <3>1, <3>3 DEF ReplySound
    <3>4. CASE q.exp < now'
      BY <2>2, <3>1, <3>4 DEF ReplySound
    <3>5. now + 1 > counter[q.cmd.key].exp \/ counter'[q.cmd.key] = counter[q.cmd.key]
      BY <1>2, <3>1
    <3>6. q.exp < now \/ now + 1 > q.exp => q.exp < now'
      BY <1>1, <1>2, <3>1
    <3> QED BY <3>2, <3>3, <3>4, <3>5, <3>6
  <2>3. CASE ~(q.pc = "reply" /\ q.cmd.op = "incr")
    BY <2>3 DEF ReplySound
  <2> QED BY <2>2, <2>3
<1> QED BY <1>2, <1>4, <1>6 DEF RedisIInv

LEMMA RedisCloseKeeps == ASSUME RedisIInv, RedisTypes', R!Close PROVE RedisIInv'
<1>1. caller' = [c \in Callers |-> R!Idle] /\ UNCHANGED <<now, counter, acked>>
  BY DEF R!Close
<1>2. ASSUME NEW k \in Keys PROVE Counted(counter[k], acked[k], caller', k)
  <2>1. Pending(caller', k, counter[k].exp) = {}
    BY <1>1, IdleCall DEF Pending, Awaits
  <2>2. Cardinality(Pending(caller', k, counter[k].exp)) = 0
    BY <2>1, FS_EmptySet
  <2>3. Cardinality(Pending(caller, k, counter[k].exp)) \in Nat
    BY PendingCard
  <2>4. acked[k] \in Nat /\ counter[k].count \in Nat /\ Counted(counter[k], acked[k], caller, k)
    BY DEF RedisIInv, RedisTypes, KeyType
  <2> QED BY <2>2, <2>3, <2>4 DEF Counted
<1>3. \A c \in Callers : ReplySound(caller'[c], counter, now)
  BY <1>1, IdleCall DEF ReplySound
<1> QED BY <1>1, <1>2, <1>3 DEF RedisIInv

LEMMA RedisNextIInv == RedisIInv /\ [R!Next]_(R!vars) => RedisIInv'
<1> SUFFICES ASSUME RedisIInv, R!Next PROVE RedisIInv'
  <2>1. CASE UNCHANGED R!vars
    BY <2>1 DEF R!vars, RedisIInv, RedisTypes, Counted, Pending
  <2> QED BY <2>1
<1>1. RedisTypes /\ RedisTypes'
  BY RedisNextTypes DEF RedisIInv
<1>2. CASE R!Tick \/ R!Close
  BY <1>1, <1>2, RedisTickKeeps, RedisCloseKeeps
<1>3. ASSUME NEW cmd \in R!Command, R!ExecStray(cmd) PROVE RedisIInv'
  BY <1>1, <1>3, StrayKeeps
<1>4. ASSUME NEW c \in Callers, NEW cmd \in R!Command, R!Call(c, cmd) PROVE RedisIInv'
  <2>1. PICK q : /\ q = [R!Idle EXCEPT !.pc = "sent", !.cmd = cmd, !.sent = 1]
                 /\ caller' = [caller EXCEPT ![c] = q]
    BY <1>4 DEF R!Call
  <2>2. q \in CallType /\ q.pc = "sent"
    BY <2>1, CallStarts
  <2>3. UNCHANGED <<now, counter, acked>>
    BY <1>4 DEF R!Call
  <2> QED BY <1>1, <2>1, <2>2, <2>3, CallMoves
<1>5. ASSUME NEW c \in Callers, R!Exec(c) PROVE RedisIInv'
  BY <1>1, <1>5, ExecKeeps
<1>6. ASSUME NEW c \in Callers, R!Return(c) PROVE RedisIInv'
  BY <1>1, <1>6, ReturnCounts
<1>7. ASSUME NEW c \in Callers, R!Break(c) PROVE RedisIInv'
  <2>1. PICK q \in CallType : q.pc # "reply" /\ caller' = [caller EXCEPT ![c] = q]
    BY <1>1, <1>7, CallBreaks
  <2>2. UNCHANGED <<now, counter, acked>>
    BY <1>7 DEF R!Break
  <2> QED BY <1>1, <2>1, <2>2, CallMoves
<1>8. ASSUME NEW c \in Callers, R!CallClosed(c) PROVE RedisIInv'
  BY <1>8 DEF R!CallClosed, R!vars, RedisIInv, RedisTypes, Counted, Pending
<1> QED BY <1>2, <1>3, <1>4, <1>5, <1>6, <1>7, <1>8 DEF R!Next

\* At least once: an Incr that returned is counted while its window lasts, though
\* connections break, commands are sent twice and old ones arrive late.
THEOREM RedisCountsAcked == R!Spec => []AckedAreCounted
<1>1. R!Spec => []RedisIInv
  BY RedisInitIInv, RedisNextIInv, PTL DEF R!Spec
<1>2. ASSUME RedisIInv, NEW k \in Keys PROVE acked[k] <= counter[k].count
  <2>1. Cardinality(Pending(caller, k, counter[k].exp)) \in Nat
    BY PendingCard
  <2>2. acked[k] \in Nat /\ counter[k].count \in Nat /\ Counted(counter[k], acked[k], caller, k)
    BY <1>2 DEF RedisIInv, RedisTypes, KeyType
  <2> QED BY <2>1, <2>2 DEF Counted
<1>3. RedisIInv => AckedAreCounted
  BY <1>2 DEF AckedAreCounted, R!AckedAreCounted
<1> QED BY <1>1, <1>3, PTL

\* A ban stands to its end, and no Block that is on its way would cut it short.
Promised(k) ==
    /\ now <= banned[k] => banned[k] <= redisBlocked[k]
    /\ \A e \in R!Coming(k) : banned[k] <= now + e

BanIInv == RedisTypes /\ \A k \in Keys : Promised(k)

LEMMA OnTheWayTypes == RedisTypes => R!OnTheWay \subseteq R!Command
  BY DEF RedisTypes, R!OnTheWay

LEMMA ComingIs ==
    \A k, e : e \in R!Coming(k) <=>
              \E cmd \in R!OnTheWay : cmd.op = "block" /\ cmd.key = k /\ cmd.dur = e
  BY DEF R!Coming

LEMMA ComingTypes == RedisTypes => \A k : R!Coming(k) \subseteq Nat
<1> SUFFICES ASSUME RedisTypes, NEW k, NEW e \in R!Coming(k) PROVE e \in Nat
    OBVIOUS
<1>1. PICK cmd \in R!OnTheWay : cmd.op = "block" /\ cmd.dur = e
  BY ComingIs
<1>2. cmd \in R!Command
  BY OnTheWayTypes
<1> QED BY <1>1, <1>2, CommandTypes

\* The commands of a step that sends none.
LEMMA ComingShrinks ==
    ASSUME R!OnTheWay' \subseteq R!OnTheWay PROVE \A k : R!Coming(k)' \subseteq R!Coming(k)
  BY DEF R!Coming

LEMMA SentOnTheWay ==
    ASSUME NEW c \in Callers, caller[c].pc # "idle" PROVE caller[c].cmd \in R!OnTheWay
  BY DEF R!OnTheWay

LEMMA OneCallMoves ==
    ASSUME RedisTypes, NEW c \in Callers, NEW q, caller' = [caller EXCEPT ![c] = q],
           NEW cmds, stray' \subseteq stray \cup cmds, q.pc # "idle" => q.cmd \in cmds
    PROVE  R!OnTheWay' \subseteq R!OnTheWay \cup cmds
<1>1. caller'[c] = q /\ \A d \in Callers \ {c} : caller'[d] = caller[d]
  BY DEF RedisTypes
<1> SUFFICES ASSUME NEW cmd \in R!OnTheWay', cmd \notin cmds PROVE cmd \in R!OnTheWay
    OBVIOUS
<1>2. CASE cmd \in stray'
  BY <1>2 DEF R!OnTheWay
<1>3. CASE \E d \in Callers : caller'[d].pc # "idle" /\ cmd = caller'[d].cmd
  <2>1. PICK d \in Callers : caller'[d].pc # "idle" /\ cmd = caller'[d].cmd
    BY <1>3
  <2>2. d # c
    BY <1>1, <2>1
  <2> QED BY <1>1, <2>1, <2>2, SentOnTheWay
<1> QED BY <1>2, <1>3 DEF R!OnTheWay

LEMMA RedisInitBans == R!Init => BanIInv
<1> SUFFICES ASSUME R!Init, NEW k \in Keys PROVE Promised(k)
    BY RedisInitTypes DEF BanIInv
<1>1. banned[k] = 0 /\ redisBlocked[k] = 0 /\ now \in Nat
  BY RedisConstants DEF R!Init
<1>2. R!Coming(k) \subseteq Nat
  BY RedisInitTypes, ComingTypes
<1> QED BY <1>1, <1>2 DEF Promised

LEMMA ExecutedBans ==
    ASSUME BanIInv, NEW cmd \in R!OnTheWay, R!Execute(cmd),
           UNCHANGED now, R!OnTheWay' \subseteq R!OnTheWay, NEW j \in Keys
    PROVE  Promised(j)'
<1> DEFINE k == cmd.key
           d == cmd.dur
<1>1. /\ RedisTypes /\ now \in Nat /\ cmd \in R!Command /\ k \in Keys
      /\ redisBlocked \in [Keys -> Nat] /\ banned \in [Keys -> Nat]
  BY OnTheWayTypes, CommandTypes DEF BanIInv, RedisTypes
<1>2. /\ now <= banned[j] => banned[j] <= redisBlocked[j]
      /\ \A e \in R!Coming(j) : banned[j] <= now + e
      /\ R!Coming(j)' \subseteq R!Coming(j) /\ R!Coming(j) \subseteq Nat
  BY <1>1, ComingShrinks, ComingTypes DEF BanIInv, Promised
<1>3. CASE cmd.op \in {"incr", "get", "isBlocked"}
  <2>1. UNCHANGED <<redisBlocked, banned>>
    BY <1>3 DEF R!Execute, R!ExecIncr, R!ExecGet, R!ExecIsBlocked
  <2> QED BY <1>2, <2>1 DEF Promised
<1>4. CASE cmd.op = "block"
  <2>1. /\ redisBlocked' = [redisBlocked EXCEPT ![k] = now + d]
        /\ banned' = IF now + d > banned[k] /\ \A e \in R!Coming(k) : d <= e
                       THEN [banned EXCEPT ![k] = now + d] ELSE banned
    BY <1>4 DEF R!Execute, R!ExecBlock, R!Banned
  <2>2. d \in Nat /\ d \in R!Coming(k)
    BY <1>1, <1>4, CommandTypes, ComingIs
  <2> HIDE DEF k, d
  <2>3. CASE j # k
    <3>1. redisBlocked'[j] = redisBlocked[j] /\ banned'[j] = banned[j]
      BY <1>1, <2>1, <2>3
    <3> QED BY <1>2, <3>1 DEF Promised
  <2>4. CASE j = k /\ now + d > banned[k] /\ \A e \in R!Coming(k) : d <= e
    <3>1. redisBlocked'[j] = now + d /\ banned'[j] = now + d
      BY <1>1, <2>1, <2>4
    <3>2. \A e \in R!Coming(j)' : now + d <= now + e
      BY <1>1, <1>2, <2>2, <2>4
    <3> QED BY <3>1, <3>2, <1>1, <2>2 DEF Promised
  <2>5. CASE j = k /\ ~(now + d > banned[k] /\ \A e \in R!Coming(k) : d <= e)
    <3>1. redisBlocked'[j] = now + d /\ banned'[j] = banned[j]
      BY <1>1, <2>1, <2>5
    <3>2. banned[j] <= now + d
      BY <1>2, <2>2, <2>5
    <3> QED BY <1>2, <3>1, <3>2 DEF Promised
  <2> QED BY <2>3, <2>4, <2>5
<1> QED BY <1>1, <1>3, <1>4, CommandTypes

\* A step that is not one of the clock or of the server.
LEMMA NothingBanned ==
    ASSUME BanIInv, UNCHANGED <<now, redisBlocked, banned>>, R!OnTheWay' \subseteq R!OnTheWay,
           NEW k \in Keys
    PROVE  Promised(k)'
  BY ComingShrinks DEF BanIInv, Promised

LEMMA CallBans ==
    ASSUME BanIInv, NEW c \in Callers, NEW cmd \in R!Command, R!Call(c, cmd), NEW k \in Keys
    PROVE  Promised(k)'
<1>1. /\ RedisTypes /\ now \in Nat /\ banned \in [Keys -> Nat] /\ redisBlocked \in [Keys -> Nat]
      /\ Promised(k)
  BY DEF BanIInv, RedisTypes
<1>2. /\ UNCHANGED <<now, redisBlocked, stray>>
      /\ banned' = IF cmd.op = "block" /\ now + cmd.dur < banned[cmd.key]
                     THEN [banned EXCEPT ![cmd.key] = now + cmd.dur] ELSE banned
  BY DEF R!Call
<1>3. PICK q : /\ q = [R!Idle EXCEPT !.pc = "sent", !.cmd = cmd, !.sent = 1]
               /\ caller' = [caller EXCEPT ![c] = q]
  BY DEF R!Call
<1>4. R!OnTheWay' \subseteq R!OnTheWay \cup {cmd}
  <2>1. q.cmd \in {cmd} /\ stray' \subseteq stray \cup {cmd}
    BY <1>2, <1>3, CallStarts
  <2> QED BY <1>1, <1>3, <2>1, OneCallMoves
<1>5. ASSUME NEW e \in R!Coming(k)'
      PROVE  e \in R!Coming(k) \/ (cmd.op = "block" /\ cmd.key = k /\ cmd.dur = e)
  <2>1. PICK b \in R!OnTheWay' : b.op = "block" /\ b.key = k /\ b.dur = e
    BY <1>5 DEF R!Coming
  <2> QED BY <1>4, <2>1, ComingIs
<1>6. R!Coming(k) \subseteq Nat /\ (cmd.op = "block" => cmd.dur \in Nat)
  BY <1>1, ComingTypes, CommandTypes
<1>7. CASE cmd.op = "block" /\ cmd.key = k /\ now + cmd.dur < banned[k]
  <2>1. banned'[k] = now + cmd.dur
    BY <1>1, <1>2, <1>7
  <2>2. \A e \in R!Coming(k)' : now + cmd.dur <= now + e
    BY <1>1, <1>5, <1>6, <1>7 DEF Promised
  <2>3. now + cmd.dur <= redisBlocked[k]
    BY <1>1, <1>6, <1>7 DEF Promised
  <2> QED BY <1>2, <2>1, <2>2, <2>3 DEF Promised
<1>8. CASE ~(cmd.op = "block" /\ cmd.key = k /\ now + cmd.dur < banned[k])
  <2>1. banned'[k] = banned[k]
    BY <1>1, <1>2, <1>8
  <2>2. \A e \in R!Coming(k)' : banned[k] <= now + e
    BY <1>1, <1>5, <1>6, <1>8 DEF Promised
  <2> QED BY <1>1, <1>2, <2>1, <2>2 DEF Promised
<1> QED BY <1>7, <1>8

LEMMA TickBans == ASSUME BanIInv, R!Tick, NEW k \in Keys PROVE Promised(k)'
<1>1. /\ RedisTypes /\ now \in Nat /\ banned[k] \in Nat /\ redisBlocked[k] \in Nat /\ Promised(k)
  BY DEF BanIInv, RedisTypes
<1>2. /\ now' = now + 1 /\ UNCHANGED <<caller, stray, banned>>
      /\ redisBlocked'[k] = IF now + 1 > redisBlocked[k] THEN 0 ELSE redisBlocked[k]
  BY DEF R!Tick
<1>3. R!Coming(k)' = R!Coming(k) /\ R!Coming(k) \subseteq Nat
  BY <1>1, <1>2, ComingTypes DEF R!Coming, R!OnTheWay
<1>4. \A e \in R!Coming(k) : banned[k] <= now + 1 + e
  BY <1>1, <1>3 DEF Promised
<1>5. now + 1 <= banned[k] => banned[k] <= redisBlocked'[k]
  BY <1>1, <1>2 DEF Promised
<1> QED BY <1>2, <1>3, <1>4, <1>5 DEF Promised

LEMMA RedisNextBans == BanIInv /\ [R!Next]_(R!vars) => BanIInv'
<1> SUFFICES ASSUME BanIInv, R!Next, NEW k \in Keys PROVE Promised(k)'
  <2>1. CASE UNCHANGED R!vars
    <3>1. R!OnTheWay' = R!OnTheWay
      BY <2>1 DEF R!vars, R!OnTheWay
    <3>2. UNCHANGED <<now, redisBlocked, banned>> /\ (BanIInv => RedisTypes')
      BY <2>1 DEF R!vars, BanIInv, RedisTypes
    <3> QED BY <3>1, <3>2, NothingBanned DEF BanIInv
  <2> QED BY <2>1, RedisNextTypes DEF BanIInv
<1>1. RedisTypes
  BY DEF BanIInv
<1>2. CASE R!Tick
  BY <1>2, TickBans
<1>3. CASE R!Close
  <2>1. \A c \in Callers : caller'[c].pc = "idle"
    BY <1>3, IdleCall DEF R!Close
  <2>2. /\ UNCHANGED <<now, redisBlocked, banned>>
        /\ \A b \in stray' : b \in stray \/ \E c \in Callers : caller[c].pc = "sent" /\ b = caller[c].cmd
    BY <1>3 DEF R!Close
  <2>3. R!OnTheWay' \subseteq R!OnTheWay
    BY <2>1, <2>2 DEF R!OnTheWay
  <2> QED BY <2>2, <2>3, NothingBanned
<1>4. ASSUME NEW cmd \in R!Command, R!ExecStray(cmd) PROVE Promised(k)'
  <2>1. cmd \in R!OnTheWay /\ R!Execute(cmd) /\ UNCHANGED <<now, caller>> /\ stray' \subseteq stray
    BY <1>4 DEF R!ExecStray, R!OnTheWay
  <2>2. R!OnTheWay' \subseteq R!OnTheWay
    BY <2>1 DEF R!OnTheWay
  <2> QED BY <2>1, <2>2, ExecutedBans
<1>5. ASSUME NEW c \in Callers, NEW cmd \in R!Command, R!Call(c, cmd) PROVE Promised(k)'
  BY <1>5, CallBans
<1>6. ASSUME NEW c \in Callers, R!Exec(c) PROVE Promised(k)'
  <2>1. PICK r \in CallType : caller' = [caller EXCEPT ![c] = r] /\ r.cmd = caller[c].cmd
    BY <1>1, <1>6, CallReplies
  <2>2. caller[c].cmd \in R!OnTheWay /\ R!Execute(caller[c].cmd) /\ UNCHANGED <<now, stray>>
    BY <1>6, SentOnTheWay DEF R!Exec
  <2>3. R!OnTheWay' \subseteq R!OnTheWay \cup {caller[c].cmd}
    BY <1>1, <2>1, <2>2, OneCallMoves
  <2> QED BY <2>2, <2>3, ExecutedBans
<1>7. ASSUME NEW c \in Callers, R!Return(c) PROVE Promised(k)'
  <2>1. caller' = [caller EXCEPT ![c] = R!Idle] /\ UNCHANGED <<now, redisBlocked, banned, stray>>
    BY <1>7 DEF R!Return
  <2>2. R!OnTheWay' \subseteq R!OnTheWay \cup {}
    BY <1>1, <2>1, IdleCall, OneCallMoves
  <2> QED BY <2>1, <2>2, NothingBanned
<1>8. ASSUME NEW c \in Callers, R!Break(c) PROVE Promised(k)'
  <2> DEFINE cmds == {caller[c].cmd}
  <2>1. PICK q : caller' = [caller EXCEPT ![c] = q] /\ (q.pc # "idle" => q.cmd \in cmds)
    BY <1>1, <1>8, CallBreaks
  <2>2. /\ UNCHANGED <<now, redisBlocked, banned>> /\ stray' \subseteq stray \cup cmds
        /\ cmds \subseteq R!OnTheWay
    BY <1>8, SentOnTheWay DEF R!Break
  <2>3. R!OnTheWay' \subseteq R!OnTheWay \cup cmds
    BY <1>1, <2>1, <2>2, OneCallMoves
  <2> QED BY <2>2, <2>3, NothingBanned
<1>9. ASSUME NEW c \in Callers, R!CallClosed(c) PROVE Promised(k)'
  <2>1. R!OnTheWay' = R!OnTheWay /\ UNCHANGED <<now, redisBlocked, banned>>
    BY <1>9 DEF R!CallClosed, R!vars, R!OnTheWay
  <2> QED BY <2>1, NothingBanned
<1> QED BY <1>2, <1>3, <1>4, <1>5, <1>6, <1>7, <1>8, <1>9 DEF R!Next

\* A ban stands to its end, whatever the server executes again or late; unless a
\* Block of the key for a shorter time was still on its way, given up by its
\* caller or not, or is called later.
THEOREM RedisBansCover == R!Spec => []BanCoversCall
<1>1. R!Spec => []BanIInv
  BY RedisInitBans, RedisNextBans, PTL DEF R!Spec
<1>2. BanIInv => BanCoversCall
  <2> SUFFICES ASSUME BanIInv, NEW k \in Keys, now <= banned[k] PROVE redisBlocked[k] >= banned[k]
      BY DEF BanCoversCall, R!BanCoversCall
  <2>1. redisBlocked[k] \in Nat /\ banned[k] \in Nat /\ banned[k] <= redisBlocked[k]
    BY DEF BanIInv, RedisTypes, Promised
  <2> QED BY <2>1
<1> QED BY <1>1, <1>2, PTL

LEMMA RedisTyped == R!Spec => []RedisTypes
<1>1. RedisTypes /\ [R!Next]_(R!vars) => RedisTypes'
  BY RedisNextTypes DEF R!vars, RedisTypes
<1> QED BY <1>1, RedisInitTypes, PTL DEF R!Spec

\* The counter of k, as the contract sees it.
KeyCounter(k) ==
    IF counter[k].count = 0 THEN [count |-> 0, since |-> 0]
    ELSE [count |-> counter[k].count, since |-> counter[k].exp - R!WholeWindow[k]]

KeyCounters == [k \in Keys |-> KeyCounter(k)]

LEMMA RedisInitCounting == R!Init => R!Counting!CInit
<1>1. R!Init => \A k \in Keys : KeyCounter(k) = [count |-> 0, since |-> 0]
  BY NoKeyType DEF R!Init, KeyCounter
<1> QED BY <1>1, RedisConstants
        DEF R!Init, R!NoResult, KeyCounter, R!Counting!CInit, R!Counting!NoCounter, R!Counting!NoAnswer

LEMMA CountersKept ==
    ASSUME UNCHANGED <<now, counter, redisAnswer>> PROVE UNCHANGED R!Counting!cvars
  BY DEF R!Counting!cvars

LEMMA ExecuteCounts ==
    ASSUME RedisTypes, NEW cmd \in R!Command, R!Execute(cmd), UNCHANGED now
    PROVE  [R!Counting!CNext]_(R!Counting!cvars)
<1> DEFINE k == cmd.key
           n == R!Incremented(k)
<1>1. /\ k \in Keys /\ R!WholeWindow[k] \in Nat /\ now \in Nat /\ counter \in [Keys -> KeyType]
      /\ counter[k] \in KeyType /\ counter[k].count \in Nat /\ counter[k].exp \in Nat
  BY RedisConstants, CommandTypes DEF RedisTypes, KeyType
<1> HIDE DEF k
<1>2. CASE R!ExecIncr(k)
  <2>1. /\ counter' = [counter EXCEPT ![k] = n] /\ counter'[k] = n
        /\ redisAnswer' = [op |-> "incr", key |-> k, val |-> counter[k].count + 1]
        /\ \A j \in Keys \ {k} : counter'[j] = counter[j]
    BY <1>1, <1>2 DEF R!ExecIncr
  <2>2. \A j \in Keys \ {k} : KeyCounter(j)' = KeyCounter(j)
    BY <2>1 DEF KeyCounter
  <2>3. KeyCounters' = [KeyCounters EXCEPT ![k] = KeyCounter(k)']
    BY <2>2 DEF KeyCounters
  <2>4. /\ KeyCounter(k)' = IF KeyCounter(k).count = 0 THEN [count |-> 1, since |-> now]
                            ELSE [count |-> KeyCounter(k).count + 1, since |-> KeyCounter(k).since]
        /\ KeyCounter(k)'.count = counter[k].count + 1
    <3>1. CASE counter[k].count = 0
      <4>1. n = [count |-> 1, exp |-> now + R!WholeWindow[k]]
        BY <1>1, <3>1, IncrementedIs
      <4>2. n.count = 1 /\ n.exp - R!WholeWindow[k] = now
        BY <1>1, <4>1
      <4>3. KeyCounter(k)' = [count |-> 1, since |-> now]
        BY <2>1, <4>2 DEF KeyCounter
      <4> QED BY <3>1, <4>3 DEF KeyCounter
    <3>2. CASE counter[k].count # 0
      <4>1. n = [counter[k] EXCEPT !.count = @ + 1]
        BY <1>1, <3>2, IncrementedIs
      <4>2. n.count = counter[k].count + 1 /\ n.exp = counter[k].exp /\ n.count # 0
        BY <1>1, <4>1 DEF KeyType
      <4> HIDE DEF n
      <4>3. KeyCounter(k)' = [count |-> counter[k].count + 1, since |-> counter[k].exp - R!WholeWindow[k]]
        BY <2>1, <4>2 DEF KeyCounter
      <4>4. KeyCounter(k) = [count |-> counter[k].count, since |-> counter[k].exp - R!WholeWindow[k]]
        BY <3>2 DEF KeyCounter
      <4> QED BY <3>2, <4>3, <4>4
    <3> QED BY <3>1, <3>2
  <2>5. R!Counting!CIncr(k)
    <3>1. KeyCounters[k] = KeyCounter(k) /\ KeyCounters'[k] = KeyCounter(k)'
      BY <1>1 DEF KeyCounters
    <3>2. KeyCounters' = [KeyCounters EXCEPT ![k] =
                            IF KeyCounters[k].count = 0 THEN [count |-> 1, since |-> now]
                            ELSE [count |-> KeyCounters[k].count + 1, since |-> KeyCounters[k].since]]
      BY <2>3, <2>4, <3>1
    <3>3. redisAnswer' = [op |-> "incr", key |-> k, val |-> KeyCounters'[k].count]
      BY <2>1, <2>4, <3>1
    <3> QED BY <3>2, <3>3 DEF R!Counting!CIncr, KeyCounters, KeyCounter
  <2> QED BY <1>1, <2>5 DEF R!Counting!CNext
<1>3. CASE R!ExecGet(k)
  <2>1. KeyCounter(k).count = counter[k].count
    BY DEF KeyCounter
  <2>2. R!Counting!CGet(k)
    BY <1>1, <1>3, <2>1 DEF R!ExecGet, R!Counting!CGet, KeyCounter
  <2> QED BY <1>1, <2>2 DEF R!Counting!CNext
<1>4. CASE R!ExecBlock(k, cmd.dur) \/ R!ExecIsBlocked(k)
  BY <1>4, CountersKept DEF R!ExecBlock, R!ExecIsBlocked
<1> QED BY <1>2, <1>3, <1>4 DEF R!Execute, k

LEMMA RedisNextCounting == RedisTypes /\ [R!Next]_(R!vars) => [R!Counting!CNext]_(R!Counting!cvars)
<1> SUFFICES ASSUME RedisTypes, [R!Next]_(R!vars) PROVE [R!Counting!CNext]_(R!Counting!cvars)
    OBVIOUS
<1>1. CASE R!Tick
  <2>1. /\ now' = now + 1 /\ UNCHANGED redisAnswer
        /\ \A k \in Keys : counter'[k] = IF now + 1 > counter[k].exp THEN R!NoKey ELSE counter[k]
    BY <1>1 DEF R!Tick
  <2>2. ASSUME NEW k \in Keys
        PROVE  KeyCounter(k)' = IF now + 1 - KeyCounter(k).since > R!WholeWindow[k]
                                  THEN [count |-> 0, since |-> 0] ELSE KeyCounter(k)
    <3>1. /\ now \in Nat /\ R!WholeWindow[k] \in Nat
          /\ counter[k].count \in Nat /\ counter[k].exp \in Nat
      BY RedisConstants DEF RedisTypes, KeyType
    <3>2. CASE counter[k].count = 0
      BY <2>1, <3>2, NoKeyType DEF KeyCounter
    <3>3. CASE counter[k].count # 0
      <4>1. now + 1 - (counter[k].exp - R!WholeWindow[k]) > R!WholeWindow[k] <=> now + 1 > counter[k].exp
        BY <3>1
      <4> QED BY <2>1, <3>3, <4>1, NoKeyType DEF KeyCounter
    <3> QED BY <3>2, <3>3
  <2>3. R!Counting!CTick
    BY <2>1, <2>2 DEF R!Counting!CTick, R!Counting!NoCounter, KeyCounter
  <2> QED BY <2>3 DEF R!Counting!CNext
<1>2. ASSUME NEW cmd \in R!Command, R!ExecStray(cmd) PROVE [R!Counting!CNext]_(R!Counting!cvars)
  BY <1>2, ExecuteCounts DEF R!ExecStray
<1>3. ASSUME NEW c \in Callers, R!Exec(c) PROVE [R!Counting!CNext]_(R!Counting!cvars)
  BY <1>3, CallReplies, ExecuteCounts DEF R!Exec
<1>4. ASSUME NEW c \in Callers, R!Return(c) \/ R!Break(c) \/ R!CallClosed(c)
      PROVE  UNCHANGED R!Counting!cvars
  BY <1>4, CountersKept DEF R!Return, R!Break, R!CallClosed, R!vars
<1>5. ASSUME NEW c \in Callers, NEW cmd \in R!Command, R!Call(c, cmd)
      PROVE  UNCHANGED R!Counting!cvars
  BY <1>5, CountersKept DEF R!Call
<1>6. CASE R!Close \/ UNCHANGED R!vars
  BY <1>6, CountersKept DEF R!Close, R!vars
<1> QED BY <1>1, <1>2, <1>3, <1>4, <1>5, <1>6 DEF R!Next

\* The ban of k, as the contract sees it.
KeyBan(k) == IF redisBlocked[k] = 0 THEN 0 ELSE redisBlocked[k] + 1

KeyBans == [k \in Keys |-> KeyBan(k)]

LEMMA RedisInitBanning == R!Init => R!Banning!BInit
  BY RedisConstants DEF R!Init, R!NoResult, R!Banning!BInit

LEMMA BansKept ==
    ASSUME UNCHANGED <<now, redisBlocked, redisVerdict>> PROVE UNCHANGED R!Banning!bvars
  BY DEF R!Banning!bvars

LEMMA ExecuteBans ==
    ASSUME RedisTypes, NEW cmd \in R!Command, R!Execute(cmd), UNCHANGED now
    PROVE  [R!Banning!BNext]_(R!Banning!bvars)
<1> DEFINE k == cmd.key
           d == cmd.dur
<1>1. /\ k \in Keys /\ now \in Nat
      /\ redisBlocked \in [Keys -> Nat] /\ redisBlocked[k] \in Nat
  BY CommandTypes DEF RedisTypes
<1>2. CASE cmd.op = "block" /\ R!ExecBlock(k, d)
  <2>0. d \in Durations /\ d \in Nat \ {0}
    BY <1>2, CommandTypes
  <2> HIDE DEF k, d
  <2>1. /\ redisBlocked' = [redisBlocked EXCEPT ![k] = now + d]
        /\ redisVerdict' = redisVerdict
    BY <1>2 DEF R!ExecBlock, R!Banned
  <2>2. now + d # 0 /\ now + d + 1 = now + (d + 1) /\ d + 1 > 0
    BY <1>1, <2>0
  <2>3. KeyBan(k)' = now + (d + 1)
    BY <1>1, <2>1, <2>2 DEF KeyBan
  <2>4. \A j \in Keys \ {k} : KeyBan(j)' = KeyBan(j)
    BY <1>1, <2>1 DEF KeyBan
  <2>5. KeyBans' = [KeyBans EXCEPT ![k] = now + (d + 1)]
    BY <2>3, <2>4 DEF KeyBans
  <2>6. R!Banning!BBlock(k, d + 1)
    BY <2>1, <2>2, <2>5 DEF R!Banning!BBlock, KeyBans, KeyBan
  <2>7. (d + 1) \in {e + 1 : e \in Durations}
    BY <2>0
  <2> QED BY <1>1, <2>6, <2>7 DEF R!Banning!BNext
<1>3. CASE R!ExecIsBlocked(k)
  <2>1. R!Exists(k) = (KeyBan(k) # 0)
    BY <1>1 DEF R!Exists, KeyBan
  <2>2. redisVerdict' = [op |-> "isBlocked", key |-> k, val |-> KeyBan(k) # 0]
    BY <1>3, <2>1, Zenon DEF R!ExecIsBlocked
  <2>3. R!Banning!BIsBlocked(k)
    BY <1>1, <1>3, <2>2 DEF R!ExecIsBlocked, R!Banning!BIsBlocked, KeyBan
  <2> QED BY <1>1, <2>3 DEF R!Banning!BNext
<1>4. CASE R!ExecIncr(k) \/ R!ExecGet(k)
  BY <1>4, BansKept DEF R!ExecIncr, R!ExecGet
<1> QED BY <1>2, <1>3, <1>4 DEF R!Execute

LEMMA RedisNextBanning == RedisTypes /\ [R!Next]_(R!vars) => [R!Banning!BNext]_(R!Banning!bvars)
<1> SUFFICES ASSUME RedisTypes, [R!Next]_(R!vars) PROVE [R!Banning!BNext]_(R!Banning!bvars)
    OBVIOUS
<1>1. CASE R!Tick
  <2>1. /\ now' = now + 1 /\ UNCHANGED redisVerdict
        /\ \A k \in Keys : redisBlocked'[k] = IF now + 1 > redisBlocked[k] THEN 0 ELSE redisBlocked[k]
    BY <1>1 DEF R!Tick
  <2>2. ASSUME NEW k \in Keys PROVE KeyBan(k)' = IF now + 1 < KeyBan(k) THEN KeyBan(k) ELSE 0
    <3>1. now \in Nat /\ redisBlocked[k] \in Nat
      BY DEF RedisTypes
    <3> QED BY <2>1, <3>1 DEF KeyBan
  <2>3. R!Banning!BTick
    BY <2>1, <2>2 DEF R!Banning!BTick, KeyBan
  <2> QED BY <2>3 DEF R!Banning!BNext
<1>2. ASSUME NEW cmd \in R!Command, R!ExecStray(cmd) PROVE [R!Banning!BNext]_(R!Banning!bvars)
  BY <1>2, ExecuteBans DEF R!ExecStray
<1>3. ASSUME NEW c \in Callers, R!Exec(c) PROVE [R!Banning!BNext]_(R!Banning!bvars)
  BY <1>3, CallReplies, ExecuteBans DEF R!Exec
<1>4. ASSUME NEW c \in Callers, R!Return(c) \/ R!Break(c) \/ R!CallClosed(c)
      PROVE  UNCHANGED R!Banning!bvars
  BY <1>4, BansKept DEF R!Return, R!Break, R!CallClosed, R!vars
<1>5. ASSUME NEW c \in Callers, NEW cmd \in R!Command, R!Call(c, cmd)
      PROVE  UNCHANGED R!Banning!bvars
  BY <1>5, BansKept DEF R!Call
<1>6. CASE R!Close \/ UNCHANGED R!vars
  BY <1>6, BansKept DEF R!Close, R!vars
<1> QED BY <1>1, <1>2, <1>3, <1>4, <1>5, <1>6 DEF R!Next

\* What the server executes, and when, keeps the counting contract and the ban
\* contract, though a command may be executed twice, late, or for a caller that
\* has given up.
THEOREM RedisKeepsContracts == R!Spec => RedisAsPromised
<1>1. R!Spec => R!CountsAsPromised
  BY RedisTyped, RedisInitCounting, RedisNextCounting, PTL
     DEF R!Spec, R!CountsAsPromised, R!Counting!CSpec
<1>2. R!Spec => R!BansAsPromised
  BY RedisTyped, RedisInitBanning, RedisNextBanning, PTL
     DEF R!Spec, R!BansAsPromised, R!Banning!BSpec
<1> QED BY <1>1, <1>2 DEF RedisAsPromised

-----------------------------------------------------------------------------
(***************************************************************************)
(* The three side by side.                                                 *)
(***************************************************************************)

StoresIInv == IInv /\ StoreIInv /\ RedisTypes

LEMMA StoresStep == StoresNext => \/ OnMemory /\ Next
                                  \/ OnStore /\ S!Next
                                  \/ OnRedis /\ R!Next
<1> SUFFICES ASSUME StoresNext
             PROVE  (OnMemory /\ Next) \/ (OnStore /\ S!Next) \/ (OnRedis /\ R!Next)
    OBVIOUS
<1>1. CASE OnMemory /\ (\/ Tick \/ Close \/ ReapTick \/ ReapStop \/ ReapOnce
                        \/ \E k \in Keys : Incr(k) \/ Get(k) \/ IsBlocked(k)
                        \/ \E k \in Keys, d \in Durations : Block(k, d))
  BY <1>1 DEF Next
<1>2. CASE OnStore /\ (\/ S!Tick \/ S!Close \/ S!ReapTick \/ S!ReapStop \/ S!Reap
                       \/ \E k \in Keys : S!Delete(k)
                       \/ \E k \in Keys, v \in Vals, ttl \in TTLs : S!Save(k, v, ttl)
                       \/ \E l \in Loaders, k \in Keys : S!LoadTakes(l, k)
                       \/ \E l \in Loaders : S!LoadReturns(l))
  BY <1>2 DEF S!Next
<1>3. CASE OnRedis /\ (\/ R!Tick \/ R!Close
                       \/ \E cmd \in R!Command : R!ExecStray(cmd)
                       \/ \E c \in Callers, cmd \in R!Command : R!Call(c, cmd)
                       \/ \E c \in Callers : R!CallClosed(c) \/ R!Exec(c) \/ R!Return(c) \/ R!Break(c))
  BY <1>3 DEF R!Next
<1> QED BY <1>1, <1>2, <1>3 DEF StoresNext

\* An implementation that stands still does not mind the clock.
LEMMA ClockMoves ==
    ASSUME StoresIInv, now' = now \/ now' = now + 1
    PROVE  /\ UNCHANGED memoryVars => IInv'
           /\ UNCHANGED storeVars => StoreIInv'
           /\ UNCHANGED redisVars => RedisTypes'
<1>1. now \in Nat /\ now' \in Nat \ {0} /\ now <= now'
  BY DEF StoresIInv, RedisTypes
<1>2. ASSUME UNCHANGED memoryVars PROVE IInv'
  BY <1>1, <1>2, MemoryAssumption DEF StoresIInv, IInv, TypeOK, EntriesWhole, memoryVars
<1>3. ASSUME UNCHANGED storeVars PROVE StoreIInv'
  <2>1. UNCHANGED <<entries, load, storeClosed, storeReaper, storeReapAt, loaded, current>>
    BY <1>3 DEF storeVars
  <2>2. S!TypeOK' /\ storeReapAt' <= now'
    BY <1>1, <2>1 DEF StoresIInv, StoreIInv, S!TypeOK
  <2>3. ASSUME NEW l \in Loaders PROVE LoadSound(load[l], current[l], now')
    <3>1. load[l].entry.exp \in Nat /\ LoadSound(load[l], current[l], now)
      BY DEF StoresIInv, StoreIInv, S!TypeOK
    <3> QED BY <1>1, <3>1 DEF LoadSound
  <2>4. S!LoadedWasHeld'
    BY <2>1 DEF StoresIInv, StoreIInv, S!LoadedWasHeld
  <2> QED BY <2>1, <2>2, <2>3, <2>4 DEF StoreIInv
<1>4. ASSUME UNCHANGED redisVars PROVE RedisTypes'
  BY <1>1, <1>4 DEF StoresIInv, RedisTypes, redisVars
<1> QED BY <1>2, <1>3, <1>4

LEMMA StoresNextIInv == StoresIInv /\ [StoresNext]_allVars => StoresIInv'
<1> SUFFICES ASSUME StoresIInv, [StoresNext]_allVars PROVE StoresIInv'
    OBVIOUS
<1>1. CASE OnMemory /\ Next
  <2>1. IInv' /\ (now' = now \/ now' = now + 1)
    BY <1>1, NextIInv
       DEF StoresIInv, Next, Tick, Close, Incr, Get, IsBlocked, Block, ReapTick, ReapStop, ReapOnce
  <2> QED BY <1>1, <2>1, ClockMoves DEF OnMemory, StoresIInv
<1>2. CASE OnStore /\ S!Next
  <2>1. StoreIInv' /\ (now' = now \/ now' = now + 1)
    BY <1>2, StoreNextIInv
       DEF StoresIInv, S!Next, S!Tick, S!Close, S!ReapTick, S!ReapStop, S!Reap, S!Delete, S!Save,
           S!LoadTakes, S!LoadReturns
  <2> QED BY <1>2, <2>1, ClockMoves DEF OnStore, StoresIInv
<1>3. CASE OnRedis /\ R!Next
  <2>1. RedisTypes' /\ (now' = now \/ now' = now + 1)
    BY <1>3, RedisNextTypes
       DEF StoresIInv, R!Next, R!Tick, R!Close, R!ExecStray, R!Call, R!CallClosed, R!vars, R!Exec,
           R!Return, R!Break
  <2> QED BY <1>3, <2>1, ClockMoves DEF OnRedis, StoresIInv
<1>4. CASE UNCHANGED allVars
  BY <1>4, ClockMoves DEF allVars, StoresIInv
<1> QED BY <1>1, <1>2, <1>3, <1>4, StoresStep

\* Whichever implementation runs, the state of all three stays well typed.
THEOREM StoresTyped == StoresSpec => []StoresTypeOK
<1>1. StoresInit => StoresIInv
  BY InitIInv, StoreInitIInv, RedisInitTypes DEF StoresInit, StoresIInv
<1>2. RedisTypes => R!TypeOK
  BY DEF RedisTypes, R!TypeOK, KeyType, CallType
<1>3. StoresIInv => StoresTypeOK
  BY <1>2 DEF StoresIInv, IInv, StoreIInv, StoresTypeOK
<1> QED BY <1>1, <1>3, StoresNextIInv, PTL DEF StoresSpec

\* A behaviour of the three is one of the implementation that kind names: what was
\* proved of that one holds of it.
THEOREM StoresSideBySide ==
    /\ StoresSpec /\ kind = "memory" => Spec
    /\ StoresSpec /\ kind = "store" => S!Spec
    /\ StoresSpec /\ kind = "redis" => R!Spec
<1>1. StoresInit => Init /\ S!Init /\ R!Init
  BY DEF StoresInit
<1>2. kind = "memory" /\ [StoresNext]_allVars => [Next]_vars /\ (kind = "memory")'
  BY StoresStep DEF OnMemory, OnStore, OnRedis, allVars, memoryVars, vars
<1>3. kind = "store" /\ [StoresNext]_allVars => [S!Next]_(S!vars) /\ (kind = "store")'
  BY StoresStep DEF OnMemory, OnStore, OnRedis, allVars, storeVars, S!vars
<1>4. kind = "redis" /\ [StoresNext]_allVars => [R!Next]_(R!vars) /\ (kind = "redis")'
  BY StoresStep DEF OnMemory, OnStore, OnRedis, allVars, redisVars, R!vars
<1> QED BY <1>1, <1>2, <1>3, <1>4, PTL DEF StoresSpec, Spec, S!Spec, R!Spec
=============================================================================
