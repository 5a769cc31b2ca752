------------------------------- MODULE Stores -------------------------------
(***************************************************************************)
(* storage.Memory, session.MemoryStore and redis.Backend side by side: a   *)
(* behaviour is one of the implementation that kind names, and the others  *)
(* stand still.  They share the clock and the keys, and nothing else.      *)
(***************************************************************************)
EXTENDS MemoryBackend, FiniteSets

CONSTANTS Vals, NoVal, Loaders, TTLs,                   \* of MemoryStore
          Callers, AskedWindow, PerMilli, MaxRetries, MaxFaults,  \* of RedisBackend
          ShortTime                                     \* their bound on the clock

VARIABLES kind,
          entries, load, storeClosed, storeReaper, storeReapAt, call, loaded, current,
          counter, redisBlocked, redisClosed, caller, stray, faults, redisAnswer, redisVerdict, acked, banned

S == INSTANCE MemoryStore
       WITH MaxTime <- ShortTime, closed <- storeClosed, reaper <- storeReaper,
            reapAt <- storeReapAt, answer <- loaded

R == INSTANCE RedisBackend
       WITH MaxTime <- ShortTime, blocked <- redisBlocked, closed <- redisClosed,
            answer <- redisAnswer, verdict <- redisVerdict

ASSUME StoresAssumption == S!StoreAssumption /\ R!RedisAssumption

memoryVars == <<events, blocked, closed, reaper, reapAt, answer, verdict>>

storeVars == <<entries, load, storeClosed, storeReaper, storeReapAt, call, loaded, current>>

redisVars == <<counter, redisBlocked, redisClosed, caller, stray, faults, redisAnswer, redisVerdict, acked,
               banned>>

allVars == <<kind, now, memoryVars, storeVars, redisVars>>

OnMemory == kind = "memory" /\ UNCHANGED <<kind, storeVars, redisVars>>

OnStore == kind = "store" /\ UNCHANGED <<kind, memoryVars, redisVars>>

OnRedis == kind = "redis" /\ UNCHANGED <<kind, memoryVars, storeVars>>

StoresInit ==
    /\ kind \in {"memory", "store", "redis"}
    /\ Init /\ S!Init /\ R!Init

StoresNext ==
    \/ OnMemory /\ Tick
    \/ OnMemory /\ Close
    \/ OnMemory /\ ReapTick
    \/ OnMemory /\ ReapStop
    \/ OnMemory /\ ReapOnce
    \/ \E k \in Keys : OnMemory /\ Incr(k)
    \/ \E k \in Keys : OnMemory /\ Get(k)
    \/ \E k \in Keys : OnMemory /\ IsBlocked(k)
    \/ \E k \in Keys, d \in Durations : OnMemory /\ Block(k, d)
    \/ OnStore /\ S!Tick
    \/ OnStore /\ S!Close
    \/ OnStore /\ S!ReapTick
    \/ OnStore /\ S!ReapStop
    \/ OnStore /\ S!Reap
    \/ \E k \in Keys : OnStore /\ S!Delete(k)
    \/ \E k \in Keys, v \in Vals, ttl \in TTLs : OnStore /\ S!Save(k, v, ttl)
    \/ \E l \in Loaders, k \in Keys : OnStore /\ S!LoadTakes(l, k)
    \/ \E l \in Loaders : OnStore /\ S!LoadReturns(l)
    \/ OnRedis /\ R!Tick
    \/ \E cmd \in R!Command : OnRedis /\ R!ExecStray(cmd)
    \/ \E c \in Callers, cmd \in R!Command : OnRedis /\ R!Call(c, cmd)
    \/ OnRedis /\ R!Close
    \/ \E c \in Callers : OnRedis /\ R!CallClosed(c)
    \/ \E c \in Callers : OnRedis /\ R!Exec(c)
    \/ \E c \in Callers : OnRedis /\ R!Return(c)
    \/ \E c \in Callers : OnRedis /\ R!Break(c)

\* The fairness of MemoryBackend.
StoresSpec ==
    /\ StoresInit /\ [][StoresNext]_allVars
    /\ WF_allVars(OnMemory /\ ReapTick) /\ WF_allVars(OnMemory /\ ReapOnce)

-----------------------------------------------------------------------------
(***************************************************************************)
(* The properties that each module states and comments on.                 *)
(***************************************************************************)

\* The type invariants of the three.
StoresTypeOK == TypeOK /\ S!TypeOK /\ R!TypeOK

\* session.MemoryStore: a value that Load returns was held during the call.
LoadedWasHeld == S!LoadedWasHeld

\* session.MemoryStore: the contract of the store.
EntriesAsPromised == S!EntriesAsPromised

\* redis.Backend: an Incr that returned is counted.
AckedAreCounted == R!AckedAreCounted

\* redis.Backend: nothing but a shorter Block cuts a ban short.
BanCoversCall == R!BanCoversCall

\* redis.Backend: the counting and the ban contract.
RedisAsPromised == R!CountsAsPromised /\ R!BansAsPromised
=============================================================================
