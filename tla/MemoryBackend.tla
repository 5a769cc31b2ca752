--------------------------- MODULE MemoryBackend ---------------------------
(***************************************************************************)
(* storage.Memory: counters and bans in two maps under one mutex, and a    *)
(* background reaper that drops what has expired.                          *)
(*                                                                         *)
(* Incr, Get, Block and IsBlocked hold the mutex from their first to their *)
(* last access, and read the clock while they hold it, so each is one      *)
(* action.  The reaper reads the clock BEFORE it waits for the mutex: what *)
(* it does with that reading happens later, after any number of calls.     *)
(***************************************************************************)
EXTENDS Integers

CONSTANTS Keys,      \* the keys in use
          WindowOf,  \* key -> the window its callers pass to Incr
          Durations, \* the durations passed to Block
          Epoch,     \* the clock when the backend is created
          MaxTime,   \* bound on the clock
          MaxCount   \* bound on a counter

\* Every caller in the repository counts a given key with one, positive
\* window (IPBlacklist.Window, twice Signer.MaxSkew).
ASSUME MemoryAssumption ==
    /\ WindowOf \in [Keys -> Nat \ {0}]
    /\ Durations \subseteq Nat \ {0}
    /\ Epoch \in Nat \ {0}
    /\ MaxTime \in Nat
    /\ MaxCount \in Nat

VARIABLES now,       \* the wall clock
          events,    \* Memory.events; Missing where the map has no entry
          blocked,   \* Memory.blocked; 0 where the map has no entry
          closed,    \* the done channel is closed
          reaper,    \* what the reaper goroutine is doing
          reapAt,    \* the clock reading reapOnce was called with
          answer,    \* result of the last Incr or Get
          verdict    \* result of the last IsBlocked

vars == <<now, events, blocked, closed, reaper, reapAt, answer, verdict>>

Missing == [count |-> 0, windowStart |-> 0, window |-> 0]

NoResult == [op |-> "none"]

Init ==
    /\ now = Epoch
    /\ events = [k \in Keys |-> Missing]
    /\ blocked = [k \in Keys |-> 0]
    /\ closed = FALSE
    /\ reaper = "select"
    /\ reapAt = 0
    /\ answer = NoResult
    /\ verdict = NoResult

Tick ==
    /\ now < MaxTime
    /\ now' = now + 1
    /\ UNCHANGED <<events, blocked, closed, reaper, reapAt, answer, verdict>>

Incr(k) ==
    /\ events[k].count < MaxCount
    /\ IF events[k] = Missing \/ now - events[k].windowStart > WindowOf[k]
         THEN events' = [events EXCEPT ![k] = [count |-> 1, windowStart |-> now,
                                               window |-> WindowOf[k]]]
         ELSE events' = [events EXCEPT ![k].count = @ + 1, ![k].window = WindowOf[k]]
    /\ answer' = [op |-> "incr", key |-> k, val |-> events'[k].count]
    /\ UNCHANGED <<now, blocked, closed, reaper, reapAt, verdict>>

Get(k) ==
    /\ LET ev == events[k] IN
         answer' = [op |-> "get", key |-> k,
                    val |-> IF ev.window > 0 /\ now - ev.windowStart > ev.window
                              THEN 0 ELSE ev.count]
    /\ UNCHANGED <<now, events, blocked, closed, reaper, reapAt, verdict>>

Block(k, d) ==
    /\ blocked' = [blocked EXCEPT ![k] = now + d]
    /\ UNCHANGED <<now, events, closed, reaper, reapAt, answer, verdict>>

IsBlocked(k) ==
    /\ verdict' = [op |-> "isBlocked", key |-> k, val |-> now < blocked[k]]
    /\ UNCHANGED <<now, events, blocked, closed, reaper, reapAt, answer>>

Close ==
    /\ ~closed
    /\ closed' = TRUE
    /\ UNCHANGED <<now, events, blocked, reaper, reapAt, answer, verdict>>

\* The ticker fires and the reaper reads the clock for reapOnce.  The select
\* may still choose the ticker after Close: both channels are ready.
ReapTick ==
    /\ reaper = "select"
    /\ reaper' = "reap"
    /\ reapAt' = now
    /\ UNCHANGED <<now, events, blocked, closed, answer, verdict>>

\* The reaper sees the closed channel and returns.
ReapStop ==
    /\ reaper = "select"
    /\ closed
    /\ reaper' = "stopped"
    /\ UNCHANGED <<now, events, blocked, closed, reapAt, answer, verdict>>

\* Mutant: one fixed deadline for every counter, whatever its own window.
EventsKeptFixedDeadline(t) ==
    [k \in Keys |-> IF t - events[k].windowStart > 1 THEN Missing ELSE events[k]]

\* Mutant: the reaper forgets the counters.
EventsKeptAll(t) == events

\* The entries that reapOnce keeps, given the clock reading t.
EventsKept(t) ==
    [k \in Keys |-> IF t - events[k].windowStart > events[k].window
                      THEN Missing ELSE events[k]]

\* Mutant: a ban is dropped when it was set, not when it ends.
BlockedKeptInverted(t) ==
    [k \in Keys |-> IF t < blocked[k] THEN 0 ELSE blocked[k]]

BlockedKept(t) ==
    [k \in Keys |-> IF t > blocked[k] THEN 0 ELSE blocked[k]]

ReapOnce ==
    /\ reaper = "reap"
    /\ events' = EventsKept(reapAt)
    /\ blocked' = BlockedKept(reapAt)
    /\ reaper' = "select"
    /\ UNCHANGED <<now, closed, reapAt, answer, verdict>>

Next ==
    \/ Tick \/ Close
    \/ \E k \in Keys : Incr(k) \/ Get(k) \/ IsBlocked(k)
    \/ \E k \in Keys, d \in Durations : Block(k, d)
    \/ ReapTick \/ ReapStop \/ ReapOnce

Spec == Init /\ [][Next]_vars

-----------------------------------------------------------------------------
(***************************************************************************)
(* Properties.                                                             *)
(***************************************************************************)

\* The type invariant.
TypeOK ==
    /\ now \in Nat
    /\ events \in [Keys -> [count : Nat, windowStart : Nat, window : Nat]]
    /\ blocked \in [Keys -> Nat]
    /\ closed \in BOOLEAN
    /\ reaper \in {"select", "reap", "stopped"}
    /\ reapAt \in Nat

\* What makes the reaper invisible: an entry is whole (a counter of at least
\* 1, its window the one its callers use, its start not in the future) or
\* missing, and the reading the reaper acts on never lies in the future.
EntriesWhole ==
    /\ now >= Epoch /\ reapAt <= now
    /\ \A k \in Keys :
         \/ events[k] = Missing
         \/ /\ events[k].count >= 1
            /\ events[k].window = WindowOf[k]
            /\ events[k].windowStart \in Epoch .. now

-----------------------------------------------------------------------------
(***************************************************************************)
(* Refinement: what a client can see of the maps.                          *)
(***************************************************************************)

LiveCounter(k) ==
    IF events[k] = Missing \/ now - events[k].windowStart > WindowOf[k]
      THEN [count |-> 0, since |-> 0]
      ELSE [count |-> events[k].count, since |-> events[k].windowStart]

Counting == INSTANCE WindowCounter
              WITH counter <- [k \in Keys |-> LiveCounter(k)]

Banning == INSTANCE BanList
              WITH ban <- [k \in Keys |-> IF now < blocked[k] THEN blocked[k] ELSE 0]

\* Incr and Get keep the counting contract: no interleaving with the reaper,
\* whose clock reading may be arbitrarily old, changes a count a client sees.
CountsAsPromised == Counting!CSpec

\* Block and IsBlocked keep the ban contract, whatever the reaper drops.
BansAsPromised == Banning!BSpec

-----------------------------------------------------------------------------
(***************************************************************************)
(* Liveness.  The Go scheduler runs the reaper goroutine and its ticker    *)
(* fires for ever, until Close: weak fairness of its steps.                *)
(***************************************************************************)

FairSpec == Spec /\ WF_vars(ReapTick) /\ WF_vars(ReapOnce)

\* The store does not leak: an expired counter or ban is dropped, or renewed
\* by a client, unless the backend is closed.
ExpiredIsDropped ==
    \A k \in Keys :
      /\ (events[k] # Missing /\ now - events[k].windowStart > events[k].window)
           ~> (closed \/ events[k] = Missing
                 \/ now - events[k].windowStart <= events[k].window)
      /\ (blocked[k] # 0 /\ now > blocked[k])
           ~> (closed \/ blocked[k] = 0 \/ now <= blocked[k])
=============================================================================
