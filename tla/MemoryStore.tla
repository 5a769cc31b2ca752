----------------------------- MODULE MemoryStore -----------------------------
(***************************************************************************)
(* session.MemoryStore: a map of entries with a TTL under one RWMutex, and *)
(* a background reaper.                                                    *)
(*                                                                         *)
(* Save and Delete are one critical section each.  Load takes the entry    *)
(* under the read lock but looks at the clock only after it has released   *)
(* it; the reaper reads the clock before it waits for the lock.            *)
(***************************************************************************)
EXTENDS Integers

CONSTANTS Keys,       \* the keys in use
          Vals, NoVal,\* the values, and what Load answers for none
          Loaders,    \* the goroutines that call Load
          TTLs,       \* the lifetimes passed to Save
          Epoch,      \* the clock when the store is created
          MaxTime     \* bound on the clock

StoreAssumption ==
    /\ NoVal \notin Vals
    /\ TTLs \subseteq Nat \ {0}
    /\ Epoch \in Nat \ {0}
    /\ MaxTime \in Nat

VARIABLES now,
          entries,  \* MemoryStore.entries; NoEntry where the map has none
          load,     \* loader -> the Load it runs and the entry it took
          closed,   \* the done channel is closed
          reaper,   \* what the reaper goroutine is doing
          reapAt,   \* the clock reading that it acts on
          call,     \* the last Save or Delete
          answer,   \* what the last Load returned, and what it could have seen
          current   \* history: loader -> what its key held at some instant of
                    \* its Load, NoVal if it was absent or expired

vars == <<now, entries, load, closed, reaper, reapAt, call, answer, current>>

NoEntry == [val |-> NoVal, exp |-> 0]

NoLoad == [busy |-> FALSE, key |-> NoVal, entry |-> NoEntry]

\* What key k holds at time t, given the map m.
Holds(m, k, t) == IF t <= m[k].exp THEN m[k].val ELSE NoVal

Init ==
    /\ now = Epoch
    /\ entries = [k \in Keys |-> NoEntry]
    /\ load = [l \in Loaders |-> NoLoad]
    /\ closed = FALSE
    /\ reaper = "select"
    /\ reapAt = 0
    /\ call = [op |-> "none", key |-> NoVal]
    /\ answer = [val |-> NoVal, seen |-> {NoVal}]
    /\ current = [l \in Loaders |-> {}]

\* Every step adds what the keys being loaded hold after it.
Witness ==
    current' = [l \in Loaders |->
                  IF load'[l].busy THEN current[l] \cup {Holds(entries', load'[l].key, now')}
                                   ELSE {}]

Tick ==
    /\ now < MaxTime
    /\ now' = now + 1
    /\ UNCHANGED <<entries, load, closed, reaper, reapAt, call, answer>>
    /\ Witness

Save(k, v, ttl) ==
    /\ entries' = [entries EXCEPT ![k] = [val |-> v, exp |-> now + ttl]]
    /\ call' = [op |-> "save", key |-> k]
    /\ UNCHANGED <<now, load, closed, reaper, reapAt, answer>>
    /\ Witness

Delete(k) ==
    /\ entries' = [entries EXCEPT ![k] = NoEntry]
    /\ call' = [op |-> "delete", key |-> k]
    /\ UNCHANGED <<now, load, closed, reaper, reapAt, answer>>
    /\ Witness

\* Load, up to RUnlock.
LoadTakes(l, k) ==
    /\ ~load[l].busy
    /\ load' = [load EXCEPT ![l] = [busy |-> TRUE, key |-> k, entry |-> entries[k]]]
    /\ UNCHANGED <<now, entries, closed, reaper, reapAt, call, answer>>
    /\ Witness

\* Mutant: the entry's expiry is not looked at.
ResultUnchecked(e) == e.val

\* What Load makes of the entry it took: NoVal where the map had none.
Result(e) == IF now > e.exp THEN NoVal ELSE e.val

\* Load, after RUnlock.  The entry it took cannot change: Save puts a new one.
LoadReturns(l) ==
    /\ load[l].busy
    /\ answer' = [val |-> Result(load[l].entry), seen |-> current[l]]
    /\ load' = [load EXCEPT ![l] = NoLoad]
    /\ UNCHANGED <<now, entries, closed, reaper, reapAt, call>>
    /\ Witness

Close ==
    /\ ~closed
    /\ closed' = TRUE
    /\ UNCHANGED <<now, entries, load, reaper, reapAt, call, answer>>
    /\ Witness

ReapTick ==
    /\ reaper = "select"
    /\ reaper' = "reap"
    /\ reapAt' = now
    /\ UNCHANGED <<now, entries, load, closed, call, answer>>
    /\ Witness

ReapStop ==
    /\ reaper = "select" /\ closed
    /\ reaper' = "stopped"
    /\ UNCHANGED <<now, entries, load, closed, reapAt, call, answer>>
    /\ Witness

\* Mutant: the reaper drops an entry in its last instant.
KeptStrictly(t) == [k \in Keys |-> IF t >= entries[k].exp THEN NoEntry ELSE entries[k]]

Kept(t) == [k \in Keys |-> IF t > entries[k].exp THEN NoEntry ELSE entries[k]]

Reap ==
    /\ reaper = "reap"
    /\ entries' = Kept(reapAt)
    /\ reaper' = "select"
    /\ UNCHANGED <<now, load, closed, reapAt, call, answer>>
    /\ Witness

Next ==
    \/ Tick \/ Close \/ ReapTick \/ ReapStop \/ Reap
    \/ \E k \in Keys : Delete(k) \/ \E v \in Vals, ttl \in TTLs : Save(k, v, ttl)
    \/ \E l \in Loaders : LoadReturns(l) \/ \E k \in Keys : LoadTakes(l, k)

Spec == Init /\ [][Next]_vars

-----------------------------------------------------------------------------
(***************************************************************************)
(* Properties.                                                             *)
(***************************************************************************)

\* The type invariant.
TypeOK ==
    /\ now \in Nat
    /\ entries \in [Keys -> [val : Vals \cup {NoVal}, exp : Nat]]
    /\ load \in [Loaders -> [busy : BOOLEAN, key : Keys \cup {NoVal},
                             entry : [val : Vals \cup {NoVal}, exp : Nat]]]
    /\ closed \in BOOLEAN
    /\ reaper \in {"select", "reap", "stopped"}
    /\ reapAt \in Nat

\* A value that Load returns was the key's, and live, at some instant of the
\* call, though Save, Delete, the reaper and the clock move while it runs.
LoadedWasHeld == answer.val # NoVal => answer.val \in answer.seen

Map == INSTANCE TTLMap
         WITH store <- [k \in Keys |-> IF now > entries[k].exp THEN NoEntry ELSE entries[k]]

\* The entries keep the contract of the store: the reaper, however old the clock
\* reading it acts on, drops nothing that could still be loaded.
EntriesAsPromised == Map!TSpec
=============================================================================
