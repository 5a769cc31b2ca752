----------------------------- MODULE LoginGuard -----------------------------
(***************************************************************************)
(* The brute-force protection of session.Tracker: CheckLogin,              *)
(* RecordFailure, ClearFailures and the GuardLogin middleware.             *)
(*                                                                         *)
(* The Tracker holds no lock of its own and the session.Store offers Load, *)
(* Save and Delete only, so every Store call is a step: a read-modify-     *)
(* write of a counter, a lock or a list can interleave with that of        *)
(* another request, and any call may fail.  An entry reads as absent as    *)
(* soon as its TTL is over; when the store frees it cannot be seen here.   *)
(***************************************************************************)
EXTENDS Integers, Sequences

CONSTANTS Slots,         \* the goroutines that serve requests
          Ids, NoId,     \* the identities, and the empty one
          Ips, NoIp,     \* the client addresses, and the one that is unknown
          Failures, FailureWindow, Lockout, MaxLockout, BackoffWindow,
          StuffingLimit, FailClosed,
          Second,        \* ticks per second: RFC 3339 drops the fraction
          Epoch,         \* the clock when the program starts
          MaxTime,       \* bound on the clock
          MaxTries,      \* bound on the failures of one identity
          MaxFaults      \* bound on failing Store calls

ASSUME LoginAssumption ==
    /\ NoId \notin Ids /\ NoIp \notin Ips
    /\ {Failures, FailureWindow, Lockout, MaxLockout, BackoffWindow, StuffingLimit,
        Second, Epoch} \subseteq Nat \ {0}
    /\ FailClosed \in BOOLEAN
    /\ {MaxTime, MaxTries, MaxFaults} \subseteq Nat

VARIABLES now,
          fail,    \* fail:<identity>    the failure counter
          strike,  \* strike:<identity>  the lockout episodes so far
          lock,    \* lock:<identity>    the instant the lockout ends
          stuff,   \* stuff:<ip>         the distinct identities that failed
          slot,    \* slot -> the request it serves and its local variables
          faults,  \* how many Store calls failed
          tries,   \* history: identity -> the failures RecordFailure was told of
          misses,  \* history: identity -> its recent failures that met no lockout,
                   \* since it was last cleared: when each was counted, and
                   \* whether it brought a lockout about
          episode  \* history: identity -> the last lockout and its strike's end

entries == <<fail, strike, lock, stuff>>

vars == <<now, fail, strike, lock, stuff, slot, faults, tries, misses, episode>>

-----------------------------------------------------------------------------
(***************************************************************************)
(* The store.                                                              *)
(***************************************************************************)

Absent(zero) == [val |-> zero, exp |-> 0]

Entry(v, ttl) == [val |-> v, exp |-> now + ttl]

\* What is left of a map of entries at time t.
Aged(m, zero, t) == [k \in DOMAIN m |-> IF t <= m[k].exp THEN m[k] ELSE Absent(zero)]

Idle == [pc |-> "idle", id |-> NoId, ip |-> NoIp, n |-> 0, locked |-> FALSE,
         strikes |-> 0, since |-> 0, ids |-> <<>>]

NoEpisode == [dur |-> 0, remembered |-> 0]

Init ==
    /\ now = Epoch
    /\ fail = [i \in Ids |-> Absent(0)]
    /\ strike = [i \in Ids |-> Absent(0)]
    /\ lock = [i \in Ids |-> Absent(0)]
    /\ stuff = [p \in Ips |-> Absent(<<>>)]
    /\ slot = [s \in Slots |-> Idle]
    /\ faults = 0
    /\ tries = [i \in Ids |-> 0]
    /\ misses = [i \in Ids |-> <<>>]
    /\ episode = [i \in Ids |-> NoEpisode]

Tick ==
    /\ now < MaxTime
    /\ now' = now + 1
    /\ fail' = Aged(fail, 0, now + 1)
    /\ strike' = Aged(strike, 0, now + 1)
    /\ lock' = Aged(lock, 0, now + 1)
    /\ stuff' = Aged(stuff, <<>>, now + 1)
    /\ UNCHANGED <<slot, faults, tries, misses, episode>>

\* locked(): an entry may outlive the instant that it holds.
Locked(i) == now < lock[i].val

At(s, pc) == slot[s].pc = pc

Goto(s, pc) == slot' = [slot EXCEPT ![s].pc = pc]

Return(s) == slot' = [slot EXCEPT ![s] = Idle]

-----------------------------------------------------------------------------
(***************************************************************************)
(* A request through GuardLogin, or a direct call of RecordFailure or      *)
(* ClearFailures.  Both refuse an empty identity, without a Store call.    *)
(***************************************************************************)

Arrive(s, i, p) ==
    /\ At(s, "idle")
    /\ i # NoId => tries[i] < MaxTries
    /\ \E pc \in (IF i = NoId THEN {"check_stuffing"}
                  ELSE {"check_lock", "load_failures", "delete_failures"}) :
         slot' = [slot EXCEPT ![s] = [Idle EXCEPT !.pc = pc, !.id = i, !.ip = p]]
    /\ UNCHANGED <<now, entries, faults, tries, misses, episode>>

\* CheckLogin, first the lock; a locked identity is answered 429.
CheckLock(s) ==
    /\ At(s, "check_lock")
    /\ IF Locked(slot[s].id) THEN Return(s) ELSE Goto(s, "check_stuffing")
    /\ UNCHANGED <<now, entries, faults, tries, misses, episode>>

\* CheckLogin, then the client: 429 once StuffingLimit identities failed.
CheckStuffing(s) ==
    /\ At(s, "check_stuffing")
    /\ IF slot[s].ip # NoIp /\ Len(stuff[slot[s].ip].val) >= StuffingLimit
         THEN Return(s)
         ELSE Goto(s, "handler")
    /\ UNCHANGED <<now, entries, faults, tries, misses, episode>>

\* What a handler may write: statuses, where a body that comes first is a 200.
Responses == {<<>>, <<200>>, <<401>>, <<401, 200>>, <<500>>, <<103, 401>>}

\* statusWriter keeps the first status written, of whatever class; 0 for none.
Status(writes) == IF writes = <<>> THEN 0 ELSE Head(writes)

\* The wrapped handler answers: a 401 is a failure, any 2xx clears.
Handler(s) ==
    /\ At(s, "handler")
    /\ \E writes \in Responses :
         LET status == Status(writes) IN
         IF slot[s].id # NoId /\ status = 401 THEN Goto(s, "load_failures")
         ELSE IF slot[s].id # NoId /\ status \in 200 .. 299 THEN Goto(s, "delete_failures")
         ELSE Return(s)
    /\ UNCHANGED <<now, entries, faults, tries, misses, episode>>

-----------------------------------------------------------------------------
(***************************************************************************)
(* RecordFailure.                                                          *)
(***************************************************************************)

LoadFailures(s) ==
    LET i == slot[s].id IN
    /\ At(s, "load_failures")
    /\ slot' = [slot EXCEPT ![s].n = fail[i].val + 1, ![s].pc = "load_lock"]
    /\ tries' = [tries EXCEPT ![i] = @ + 1]
    /\ UNCHANGED <<now, entries, faults, misses, episode>>

\* Mutant: one failure more than Failures is let through.
CrossingLate(n, locked) == n > Failures /\ ~locked

\* Mutant: the last permitted failure already locks.
CrossingEarly(n, locked) == n >= Failures - 1 /\ ~locked

Crossing(n, locked) == n >= Failures /\ ~locked

LoadLock(s) ==
    LET locked == Locked(slot[s].id) IN
    /\ At(s, "load_lock")
    /\ slot' = [slot EXCEPT ![s].locked = locked,
                            ![s].pc = IF Crossing(slot[s].n, locked)
                                        THEN "load_strikes" ELSE "load_stuffing"]
    /\ UNCHANGED <<now, entries, faults, tries, misses, episode>>

LoadStrikes(s) ==
    /\ At(s, "load_strikes")
    /\ slot' = [slot EXCEPT ![s].strikes = strike[slot[s].id].val + 1,
                            ![s].pc = "save_strikes"]
    /\ UNCHANGED <<now, entries, faults, tries, misses, episode>>

\* The lockout after i doublings, as lockFor's loop computes it.
Backoff[i \in Nat] ==
    IF i = 0 THEN Lockout
    ELSE IF Backoff[i - 1] >= MaxLockout \div 2 THEN MaxLockout
    ELSE 2 * Backoff[i - 1]

\* Mutant: the cap is applied in the loop only.
lockForUncapped(strikes) == Lockout * 2 ^ (strikes - 1)

\* Mutant: every episode lasts as long as the first.
lockForFlat(strikes) == IF Lockout > MaxLockout THEN MaxLockout ELSE Lockout

lockFor(strikes) ==
    LET d == Backoff[strikes - 1] IN IF d \in 0 .. MaxLockout THEN d ELSE MaxLockout

SaveStrikes(s) ==
    LET i == slot[s].id IN
    /\ At(s, "save_strikes")
    /\ strike' = [strike EXCEPT ![i] = Entry(slot[s].strikes, BackoffWindow)]
    /\ slot' = [slot EXCEPT ![s].since = now, ![s].pc = "save_lock"]
    /\ UNCHANGED <<now, fail, lock, stuff, faults, tries, misses, episode>>

\* The end of a lockout of d from t on, as RFC 3339 writes it: in whole seconds.
Until(t, d) == (t + d) - ((t + d) % Second)

\* RecordFailure looked at the clock after the strikes were saved.
SaveLock(s) ==
    LET i == slot[s].id
        d == lockFor(slot[s].strikes)
    IN  /\ At(s, "save_lock")
        /\ \E t \in slot[s].since .. now : lock' = [lock EXCEPT ![i] = Entry(Until(t, d), d)]
        /\ episode' = [episode EXCEPT ![i] = [dur |-> d, remembered |-> strike[i].exp]]
        /\ Goto(s, "load_stuffing")
        /\ UNCHANGED <<now, fail, strike, stuff, faults, tries, misses>>

\* Mutant: an identity is appended each time it fails.
LoadStuffingRepeats(s) ==
    /\ At(s, "load_stuffing")
    /\ IF slot[s].ip = NoIp
         THEN Goto(s, "save_failures")
         ELSE slot' = [slot EXCEPT ![s].ids = stuff[slot[s].ip].val, ![s].pc = "save_stuffing"]
    /\ UNCHANGED <<now, entries, faults, tries, misses, episode>>

LoadStuffing(s) ==
    LET ids == stuff[slot[s].ip].val IN
    /\ At(s, "load_stuffing")
    /\ IF slot[s].ip = NoIp
         THEN Goto(s, "save_failures")
         ELSE IF \E j \in 1 .. Len(ids) : ids[j] = slot[s].id
         THEN Goto(s, "save_failures")
         ELSE slot' = [slot EXCEPT ![s].ids = ids, ![s].pc = "save_stuffing"]
    /\ UNCHANGED <<now, entries, faults, tries, misses, episode>>

\* Mutant: one identity too many is cut off.
CappedShort(ids) ==
    IF Len(ids) > StuffingLimit
      THEN SubSeq(ids, Len(ids) - StuffingLimit + 2, Len(ids)) ELSE ids

\* The newest StuffingLimit identities.
Capped(ids) ==
    IF Len(ids) > StuffingLimit
      THEN SubSeq(ids, Len(ids) - StuffingLimit + 1, Len(ids)) ELSE ids

SaveStuffing(s) ==
    /\ At(s, "save_stuffing")
    /\ stuff' = [stuff EXCEPT ![slot[s].ip] =
                   Entry(Capped(Append(slot[s].ids, slot[s].id)), FailureWindow)]
    /\ Goto(s, "save_failures")
    /\ UNCHANGED <<now, fail, strike, lock, faults, tries, misses, episode>>

\* The history keeps the failures that met no lockout, the newest Failures.  The
\* strikes were loaded by a call that saved a lockout, and by no other that gets here.
SaveFailures(s) ==
    LET i == slot[s].id
        seen == Append(misses[i], [at |-> now, locks |-> slot[s].strikes > 0])
    IN  /\ At(s, "save_failures")
        /\ fail' = [fail EXCEPT ![i] = Entry(slot[s].n, FailureWindow)]
        /\ misses' = [misses EXCEPT ![i] =
                        IF slot[s].locked THEN @
                        ELSE IF Len(seen) > Failures THEN Tail(seen) ELSE seen]
        /\ Return(s)
        /\ UNCHANGED <<now, strike, lock, stuff, faults, tries, episode>>

-----------------------------------------------------------------------------
(***************************************************************************)
(* ClearFailures.                                                          *)
(***************************************************************************)

DeleteFailures(s) ==
    /\ At(s, "delete_failures")
    /\ fail' = [fail EXCEPT ![slot[s].id] = Absent(0)]
    /\ misses' = [misses EXCEPT ![slot[s].id] = <<>>]
    /\ Goto(s, "delete_strikes")
    /\ UNCHANGED <<now, strike, lock, stuff, faults, tries, episode>>

\* Mutant: a correct attempt lifts the lockout.
DeleteStrikesAndLock(s) ==
    /\ At(s, "delete_strikes")
    /\ strike' = [strike EXCEPT ![slot[s].id] = Absent(0)]
    /\ lock' = [lock EXCEPT ![slot[s].id] = Absent(0)]
    /\ episode' = [episode EXCEPT ![slot[s].id] = NoEpisode]
    /\ Return(s)
    /\ UNCHANGED <<now, fail, stuff, faults, tries, misses>>

DeleteStrikes(s) ==
    /\ At(s, "delete_strikes")
    /\ strike' = [strike EXCEPT ![slot[s].id] = Absent(0)]
    /\ episode' = [episode EXCEPT ![slot[s].id] = NoEpisode]
    /\ Return(s)
    /\ UNCHANGED <<now, fail, lock, stuff, faults, tries, misses>>

-----------------------------------------------------------------------------
(***************************************************************************)
(* A Store call fails, without effect.                                     *)
(***************************************************************************)

Failing ==
    /\ faults < MaxFaults
    /\ faults' = faults + 1
    /\ UNCHANGED <<now, entries, tries, misses, episode>>

\* storeError decides, and nothing else is checked.
CheckLockFails(s) ==
    /\ At(s, "check_lock")
    /\ IF FailClosed THEN Return(s) ELSE Goto(s, "handler")
    /\ Failing

\* stuffingCount answers 0.
CheckStuffingFails(s) ==
    /\ At(s, "check_stuffing")
    /\ slot[s].ip # NoIp
    /\ Goto(s, "handler")
    /\ Failing

RecordCalls == {"load_failures", "load_lock", "load_strikes", "save_strikes", "save_lock",
                "load_stuffing", "save_stuffing", "save_failures"}

ClearCalls == {"delete_failures", "delete_strikes"}

\* RecordFailure and ClearFailures return at the first error.
CallGivesUp(s) ==
    /\ slot[s].pc \in RecordCalls \cup ClearCalls
    /\ At(s, "load_stuffing") => slot[s].ip # NoIp
    /\ Return(s)
    /\ Failing

Step(s) ==
    \/ \E i \in Ids \cup {NoId}, p \in Ips \cup {NoIp} : Arrive(s, i, p)
    \/ CheckLock(s) \/ CheckStuffing(s) \/ Handler(s)
    \/ LoadFailures(s) \/ LoadLock(s) \/ LoadStrikes(s) \/ SaveStrikes(s) \/ SaveLock(s)
    \/ LoadStuffing(s) \/ SaveStuffing(s) \/ SaveFailures(s)
    \/ DeleteFailures(s) \/ DeleteStrikes(s)
    \/ CheckLockFails(s) \/ CheckStuffingFails(s) \/ CallGivesUp(s)

Next == Tick \/ \E s \in Slots : Step(s)

Spec == Init /\ [][Next]_vars

-----------------------------------------------------------------------------
(***************************************************************************)
(* Properties of any number of concurrent requests and failing calls.      *)
(***************************************************************************)

Counters == [val : Nat, exp : Nat]

\* The type invariant.
TypeOK ==
    /\ now \in Nat
    /\ fail \in [Ids -> Counters]
    /\ strike \in [Ids -> Counters]
    /\ lock \in [Ids -> Counters]
    /\ stuff \in [Ips -> [val : Seq(Ids), exp : Nat]]
    /\ slot \in [Slots -> [pc : {"idle", "check_lock", "check_stuffing", "handler"}
                                  \cup RecordCalls \cup ClearCalls,
                           id : Ids \cup {NoId},
                           ip : Ips \cup {NoIp}, n : Nat, locked : BOOLEAN,
                           strikes : Nat, since : Nat, ids : Seq(Ids)]]
    /\ faults \in Nat
    /\ tries \in [Ids -> Nat]

\* Races and store errors may lose a failure but never invent one: a counter
\* does not exceed the failures that RecordFailure was told of, and an identity
\* that failed fewer than Failures times in all is not locked out.
LockIsEarned ==
    \A i \in Ids : fail[i].val <= tries[i] /\ (lock[i].val > 0 => tries[i] >= Failures)

\* No sequence of strikes, races or errors locks an identity out for longer than
\* MaxLockout from now.
LockIsBounded == \A i \in Ids : lock[i].val <= now + MaxLockout

Distinct(ids) == \A j, k \in 1 .. Len(ids) : ids[j] = ids[k] => j = k

\* The list behind credential_stuffing counts an identity once and is capped,
\* though requests from one client rewrite it concurrently.
StuffingIsDistinct ==
    \A p \in Ips : Len(stuff[p].val) <= StuffingLimit /\ Distinct(stuff[p].val)

-----------------------------------------------------------------------------
(***************************************************************************)
(* Properties of requests served one after the other, errors included.     *)
(***************************************************************************)

\* "locks the identity out once Failures attempts fail inside FailureWindow"
\* (RecordFailure): where the newest Failures of those that met no lockout lie
\* inside the window, the last of them locked the identity out.
FailuresLock ==
    \A i \in Ids :
      /\ Len(misses[i]) = Failures
      /\ misses[i][Failures].at - misses[i][1].at <= FailureWindow
      => misses[i][Failures].locks

\* "A lockout runs on its own timer" (ClearFailures): neither a correct attempt
\* nor a further failure ends, shortens or prolongs it.
LockIsFixed ==
    [][\A i \in Ids : now' < lock[i].val => lock'[i].val = lock[i].val]_vars

\* "Each lockout episode doubles the next one, up to MaxLockout", while the
\* strikes are remembered: it never starts over, even if a step of it failed.
EscalationHolds ==
    [][\A i \in Ids :
         episode'[i].dur > 0 /\ episode'[i] # episode[i] /\ now <= episode[i].remembered
           => episode'[i].dur = MaxLockout \/ episode'[i].dur >= 2 * episode[i].dur]_vars

\* A client that reads as stuffing keeps doing so until its list expires.
StuffingSticks ==
    [][\A p \in Ips :
         Len(stuff[p].val) >= StuffingLimit /\ now' <= stuff[p].exp
           => Len(stuff'[p].val) >= StuffingLimit]_vars

=============================================================================
