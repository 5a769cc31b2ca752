-------------------------- MODULE LoginGuardProofs --------------------------
(***************************************************************************)
(* What holds of the brute-force protection although the Tracker takes no  *)
(* lock and any Store call may fail: for any number of concurrent requests,*)
(* identities and clients, and every choice of the limits.                 *)
(***************************************************************************)
EXTENDS LoginGuard, WellFoundedInduction, TLAPS

Pcs == {"idle", "check_lock", "check_stuffing", "handler"} \cup RecordCalls \cup ClearCalls

SlotType == [pc : Pcs, id : Ids \cup {NoId}, ip : Ips \cup {NoIp}, n : Nat, locked : BOOLEAN,
             strikes : Nat, since : Nat, ids : Seq(Ids)]

\* What a request that is about to make the call pc knows: its identity; that
\* its count was earned; that the lockout was; and that
\* its list, not yet with its own identity, is in order.
Knows(s) ==
    /\ s.pc \in {"check_lock"} \cup RecordCalls \cup ClearCalls => s.id \in Ids
    /\ s.pc = "save_stuffing" => s.ip \in Ips
    /\ s.pc \in RecordCalls \ {"load_failures"} => s.n <= tries[s.id]
    /\ s.pc \in {"load_strikes", "save_strikes", "save_lock"} => tries[s.id] >= Failures
    /\ s.pc = "save_stuffing" =>
         /\ Len(s.ids) <= StuffingLimit
         /\ Distinct(s.ids)
         /\ \A j \in 1 .. Len(s.ids) : s.ids[j] # s.id

SlotsKnow == \A w \in Slots : Knows(slot[w])

IInv == TypeOK /\ LockIsEarned /\ LockIsBounded /\ StuffingIsDistinct /\ SlotsKnow

-----------------------------------------------------------------------------
(***************************************************************************)
(* Lemmas about the operators.                                             *)
(***************************************************************************)

\* Whatever the number of strikes, the lockout is capped.
LEMMA LockForCapped == \A strikes : lockFor(strikes) \in 0 .. MaxLockout
  BY LoginAssumption DEF lockFor

\* Appending an identity that is not in the list keeps it a capped list of
\* distinct identities, whether or not the oldest are cut off.
LEMMA CappedDistinct ==
    ASSUME NEW ids \in Seq(Ids), NEW i \in Ids, Distinct(ids),
           \A j \in 1 .. Len(ids) : ids[j] # i
    PROVE  LET new == Capped(Append(ids, i))
           IN  new \in Seq(Ids) /\ Len(new) <= StuffingLimit /\ Distinct(new)
<1> DEFINE all == Append(ids, i)
<1>1. all \in Seq(Ids) /\ Distinct(all)
  <2>1. all \in Seq(Ids) /\ Len(all) = Len(ids) + 1 /\ all[Len(ids) + 1] = i
    OBVIOUS
  <2>2. \A j \in 1 .. Len(ids) : all[j] = ids[j]
    OBVIOUS
  <2> QED BY <2>1, <2>2 DEF Distinct
<1> HIDE DEF all
<1>2. StuffingLimit \in Nat \ {0} /\ Len(all) \in Nat
  BY <1>1, LoginAssumption
<1>3. ASSUME Len(all) > StuffingLimit
      PROVE  Capped(all) \in Seq(Ids) /\ Len(Capped(all)) <= StuffingLimit /\ Distinct(Capped(all))
  <2> DEFINE from == Len(all) - StuffingLimit + 1
             cut == SubSeq(all, from, Len(all))
  <2>1. from \in 1 .. Len(all)
    BY <1>2, <1>3
  <2>2. cut \in Seq(Ids) /\ Len(cut) = StuffingLimit
    BY <1>1, <1>2, <2>1
  <2>3. \A j \in 1 .. StuffingLimit : cut[j] = all[from + j - 1]
    BY <1>1, <1>2, <2>1
  <2>4. \A j \in 1 .. StuffingLimit : from + j - 1 \in 1 .. Len(all)
    BY <1>2, <2>1
  <2>5. Capped(all) = cut
    BY <1>3 DEF Capped
  <2> HIDE DEF cut, from
  <2>6. Distinct(cut)
    <3> SUFFICES ASSUME NEW j \in 1 .. StuffingLimit, NEW k \in 1 .. StuffingLimit,
                        cut[j] = cut[k]
                 PROVE  j = k
        BY <2>2 DEF Distinct
    <3>1. from + j - 1 = from + k - 1
      BY <1>1, <2>3, <2>4 DEF Distinct
    <3> QED BY <3>1, <2>1, <1>2
  <2> QED BY <1>2, <2>2, <2>5, <2>6
<1>4. ASSUME ~(Len(all) > StuffingLimit)
      PROVE  Capped(all) \in Seq(Ids) /\ Len(Capped(all)) <= StuffingLimit /\ Distinct(Capped(all))
  BY <1>1, <1>2, <1>4 DEF Capped
<1> QED BY <1>3, <1>4 DEF all

\* The types, one by one.
LEMMA Types ==
    ASSUME IInv
    PROVE  /\ now \in Nat /\ faults \in Nat /\ tries \in [Ids -> Nat]
           /\ fail \in [Ids -> Counters] /\ strike \in [Ids -> Counters]
           /\ lock \in [Ids -> Counters] /\ stuff \in [Ips -> [val : Seq(Ids), exp : Nat]]
           /\ slot \in [Slots -> SlotType]
  BY Zenon DEF IInv, TypeOK, SlotType, Pcs

\* A request that moves on takes its local variables with it.
LEMMA Moved ==
    ASSUME IInv, NEW s \in Slots, NEW pc \in Pcs, slot' = [slot EXCEPT ![s].pc = pc]
    PROVE  /\ slot' \in [Slots -> SlotType]
           /\ slot'[s].pc = pc
           /\ slot'[s].id = slot[s].id /\ slot'[s].ip = slot[s].ip /\ slot'[s].n = slot[s].n
           /\ \A v \in Slots \ {s} : slot'[v] = slot[v]
<1>1. slot \in [Slots -> SlotType]
  BY Types
<1>2. [slot[s] EXCEPT !.pc = pc] \in SlotType
  BY <1>1 DEF SlotType
<1>3. slot' = [slot EXCEPT ![s] = [slot[s] EXCEPT !.pc = pc]]
  BY <1>1
<1>4. slot' \in [Slots -> SlotType]
  BY <1>1, <1>2, <1>3
<1>5. slot'[s] = [slot[s] EXCEPT !.pc = pc]
  BY <1>1, <1>3
<1> QED BY <1>1, <1>3, <1>4, <1>5 DEF SlotType

\* A request that is over knows nothing.
LEMMA Returned ==
    ASSUME IInv, NEW s \in Slots, Return(s)
    PROVE  /\ slot' \in [Slots -> SlotType]
           /\ slot'[s].pc = "idle"
           /\ \A v \in Slots \ {s} : slot'[v] = slot[v]
<1>1. slot \in [Slots -> SlotType]
  BY Types
<1>2. Idle \in SlotType /\ Idle.pc = "idle"
  BY DEF Idle, SlotType, Pcs
<1> QED BY <1>1, <1>2 DEF Return

\* A lockout that is saved ends within its duration from now, and is kept as long.
LEMMA LockSaved ==
    ASSUME IInv, NEW s \in Slots, SaveLock(s)
    PROVE  \E end \in Nat :
             /\ end <= now + lockFor(slot[s].strikes)
             /\ lock' = [lock EXCEPT ![slot[s].id] = Entry(end, lockFor(slot[s].strikes))]
<1> DEFINE d == lockFor(slot[s].strikes)
<1>1. slot[s].since \in Nat /\ now \in Nat /\ d \in Nat /\ Second \in Nat \ {0}
  BY Types, LockForCapped, LoginAssumption DEF SlotType
<1>2. PICK t \in slot[s].since .. now : lock' = [lock EXCEPT ![slot[s].id] = Entry(Until(t, d), d)]
  BY DEF SaveLock
<1> HIDE DEF d
<1>3. t \in Nat /\ t <= now
  BY <1>1, <1>2
<1>4. (t + d) \in Nat /\ ((t + d) - ((t + d) % Second)) \in 0 .. (t + d)
  BY <1>1, <1>3
<1>5. Until(t, d) \in Nat /\ Until(t, d) <= now + d
  BY <1>1, <1>3, <1>4 DEF Until
<1> QED BY <1>2, <1>5 DEF d

\* What a request knows stays true while time passes and failures are recorded.
LEMMA StillKnows ==
    ASSUME IInv, NEW v \in Slots, slot'[v] = slot[v],
           now' \in Nat, now' >= now,
           tries' \in [Ids -> Nat], \A i \in Ids : tries'[i] >= tries[i]
    PROVE  Knows(slot[v])'
<1>1. slot[v] \in SlotType /\ Knows(slot[v])
  BY Types DEF IInv, SlotType, Pcs, SlotsKnow
<1>2. PICK r \in SlotType : r = slot[v]
  BY <1>1
<1>3. now \in Nat /\ tries \in [Ids -> Nat] /\ MaxLockout \in Nat /\ Failures \in Nat
  BY LoginAssumption, Types
<1>4. r.n \in Nat
  BY DEF SlotType
<1>5. r.pc \in {"check_lock"} \cup RecordCalls \cup ClearCalls => r.id \in Ids
  BY <1>1, <1>2 DEF Knows
<1>6. ASSUME r.pc \in RecordCalls
      PROVE  tries[r.id] \in Nat /\ tries'[r.id] \in Nat /\ tries'[r.id] >= tries[r.id]
  BY <1>3, <1>5, <1>6
<1>7. r.pc \in RecordCalls \ {"load_failures"} => r.n <= tries'[r.id]
  <2> HAVE r.pc \in RecordCalls \ {"load_failures"}
  <2>1. r.n <= tries[r.id]
    BY <1>1, <1>2 DEF Knows
  <2> QED BY <1>4, <1>6, <2>1
<1>8. r.pc \in {"load_strikes", "save_strikes", "save_lock"} => tries'[r.id] >= Failures
  <2> HAVE r.pc \in {"load_strikes", "save_strikes", "save_lock"}
  <2>1. tries[r.id] >= Failures /\ r.pc \in RecordCalls
    BY <1>1, <1>2 DEF Knows, RecordCalls
  <2> QED BY <1>3, <1>6, <2>1
<1>10. /\ r.pc = "save_stuffing" => r.ip \in Ips
       /\ r.pc = "save_stuffing" =>
            /\ Len(r.ids) <= StuffingLimit
            /\ Distinct(r.ids)
            /\ \A j \in 1 .. Len(r.ids) : r.ids[j] # r.id
  BY <1>1, <1>2 DEF Knows
<1>11. slot'[v] = r
  BY <1>2
<1> QED BY <1>5, <1>7, <1>8, <1>10, <1>11 DEF Knows

LEMMA OthersKnow ==
    ASSUME IInv, NEW s \in Slots,
           \A v \in Slots \ {s} : slot'[v] = slot[v],
           now' \in Nat, now' >= now,
           tries' \in [Ids -> Nat], \A i \in Ids : tries'[i] >= tries[i],
           Knows(slot[s])'
    PROVE  SlotsKnow'
<1>1. SUFFICES ASSUME NEW v \in Slots \ {s} PROVE Knows(slot[v])'
  BY DEF SlotsKnow
<1>2. v \in Slots /\ slot'[v] = slot[v]
  OBVIOUS
<1> QED BY <1>2, StillKnows

\* An idle request knows enough.
LEMMA IdleKnows == ASSUME NEW s, s.pc = "idle" PROVE Knows(s)
  BY DEF Knows, RecordCalls, ClearCalls

-----------------------------------------------------------------------------
(***************************************************************************)
(* The invariant.                                                          *)
(***************************************************************************)

LEMMA InitIInv == Init => IInv
<1> SUFFICES ASSUME Init PROVE IInv
    OBVIOUS
<1> USE LoginAssumption
<1>1. Idle \in SlotType /\ Idle.pc = "idle"
  BY DEF Idle, SlotType, Pcs
<1>2. TypeOK
  BY <1>1 DEF Init, TypeOK, SlotType, Pcs, Counters, Absent
<1>3. LockIsEarned /\ LockIsBounded /\ StuffingIsDistinct
  <2>1. LockIsEarned /\ LockIsBounded
    BY DEF Init, LockIsEarned, LockIsBounded, Absent
  <2>2. ASSUME NEW p \in Ips PROVE stuff[p].val = <<>>
    BY DEF Init, Absent
  <2>3. Len(<<>>) <= StuffingLimit /\ Distinct(<<>>)
    BY DEF Distinct
  <2> QED BY <2>1, <2>2, <2>3 DEF StuffingIsDistinct
<1>4. SlotsKnow
  BY <1>1, IdleKnows DEF Init, SlotsKnow
<1> QED BY <1>2, <1>3, <1>4 DEF IInv

\* A request's step need only be looked at in its own slot and in the entries.
LEMMA Writing ==
    ASSUME IInv, NEW s \in Slots, now' = now, faults' \in Nat,
           tries' \in [Ids -> Nat], \A i \in Ids : tries'[i] >= tries[i],
           fail' \in [Ids -> Counters], strike' \in [Ids -> Counters],
           lock' \in [Ids -> Counters], stuff' \in [Ips -> [val : Seq(Ids), exp : Nat]],
           slot' \in [Slots -> SlotType],
           \A v \in Slots \ {s} : slot'[v] = slot[v],
           Knows(slot[s])', LockIsEarned', LockIsBounded', StuffingIsDistinct'
    PROVE  IInv'
<1>1. now' \in Nat /\ now' >= now
  BY Types
<1>2. TypeOK'
  BY <1>1, Zenon DEF TypeOK, SlotType, Pcs
<1>3. SlotsKnow'
  BY <1>1, OthersKnow
<1> QED BY <1>2, <1>3 DEF IInv

\* A step that leaves the entries, the clock and the history of failures alone
\* need only be looked at in its own slot.
LEMMA ReadOnly ==
    ASSUME IInv, NEW s \in Slots, UNCHANGED <<now, entries, tries>>, faults' \in Nat,
           slot' \in [Slots -> SlotType],
           \A v \in Slots \ {s} : slot'[v] = slot[v],
           Knows(slot[s])'
    PROVE  IInv'
<1>1. LockIsEarned' /\ LockIsBounded' /\ StuffingIsDistinct'
  BY DEF IInv, LockIsEarned, LockIsBounded, StuffingIsDistinct, entries
<1>2. /\ fail' \in [Ids -> Counters] /\ strike' \in [Ids -> Counters]
      /\ lock' \in [Ids -> Counters] /\ stuff' \in [Ips -> [val : Seq(Ids), exp : Nat]]
      /\ tries' \in [Ids -> Nat] /\ \A i \in Ids : tries'[i] >= tries[i]
  BY Types DEF entries
<1> QED BY <1>1, <1>2, Writing

\* Where no failure is recorded.
LEMMA TriesKept ==
    ASSUME IInv, tries' = tries
    PROVE  tries' \in [Ids -> Nat] /\ \A i \in Ids : tries'[i] >= tries[i]
<1>1. tries \in [Ids -> Nat]
  BY Types
<1>2. \A i \in Ids : tries[i] \in Nat /\ tries[i] >= tries[i]
  BY <1>1
<1> QED BY <1>1, <1>2, Zenon

LEMMA TickIInv == IInv /\ Tick => IInv'
<1> SUFFICES ASSUME IInv, Tick PROVE IInv'
    OBVIOUS
<1> USE LoginAssumption
<1>1. /\ \A i \in Ids : fail'[i] = fail[i] \/ fail'[i] = Absent(0)
      /\ \A i \in Ids : strike'[i] = strike[i] \/ strike'[i] = Absent(0)
      /\ \A i \in Ids : lock'[i] = lock[i] \/ lock'[i] = Absent(0)
      /\ \A p \in Ips : stuff'[p] = stuff[p] \/ stuff'[p] = Absent(<<>>)
  BY Types DEF Tick, Aged
<1>2. Absent(0) \in Counters /\ Absent(<<>>) \in [val : Seq(Ids), exp : Nat]
  BY DEF Absent, Counters
<1>3. TypeOK'
  <2>1. ASSUME NEW m \in [Ids -> Counters] PROVE Aged(m, 0, now + 1) \in [Ids -> Counters]
    BY <1>2, Zenon DEF Aged
  <2>2. ASSUME NEW m \in [Ips -> [val : Seq(Ids), exp : Nat]]
        PROVE  Aged(m, <<>>, now + 1) \in [Ips -> [val : Seq(Ids), exp : Nat]]
    BY <1>2, Zenon DEF Aged
  <2>3. now' \in Nat /\ slot' = slot /\ faults' = faults /\ tries' = tries
    BY Types, SMTT(60) DEF Tick
  <2>4. /\ fail' \in [Ids -> Counters] /\ strike' \in [Ids -> Counters]
        /\ lock' \in [Ids -> Counters] /\ stuff' \in [Ips -> [val : Seq(Ids), exp : Nat]]
    BY <2>1, <2>2, Types, Zenon DEF Tick
  <2> QED BY <2>3, <2>4, Types, Zenon DEF TypeOK, SlotType, Pcs
<1>4. LockIsEarned' /\ LockIsBounded'
  <2>1. Absent(0).val = 0 /\ now \in Nat /\ now' = now + 1 /\ tries' = tries
        /\ tries \in [Ids -> Nat] /\ \A i \in Ids : lock[i].val \in Nat
    BY Types DEF Absent, Tick, Counters
  <2>2. MaxLockout \in Nat
    OBVIOUS
  <2>3. ASSUME NEW i \in Ids
        PROVE  /\ fail'[i].val <= tries[i]
               /\ lock'[i].val > 0 => tries[i] >= Failures
               /\ lock'[i].val <= now + 1 + MaxLockout
    <3>1. /\ fail[i].val <= tries[i] /\ (lock[i].val > 0 => tries[i] >= Failures)
          /\ lock[i].val <= now + MaxLockout
      BY DEF IInv, LockIsEarned, LockIsBounded
    <3>2. fail'[i].val \in {fail[i].val, 0} /\ lock'[i].val \in {lock[i].val, 0}
      BY <1>1, <2>1
    <3> QED BY <2>1, <2>2, <3>1, <3>2
  <2> QED BY <2>1, <2>3 DEF LockIsEarned, LockIsBounded
<1>5. StuffingIsDistinct'
  <2> SUFFICES ASSUME NEW p \in Ips
               PROVE  Len(stuff'[p].val) <= StuffingLimit /\ Distinct(stuff'[p].val)
      BY DEF StuffingIsDistinct
  <2>1. Len(stuff[p].val) <= StuffingLimit /\ Distinct(stuff[p].val)
    BY DEF IInv, StuffingIsDistinct
  <2>2. Len(<<>>) <= StuffingLimit /\ Distinct(<<>>)
    BY DEF Distinct
  <2>3. stuff'[p] = stuff[p] \/ stuff'[p].val = <<>>
    BY <1>1 DEF Absent
  <2> QED BY <2>1, <2>2, <2>3
<1>6. SlotsKnow'
  <2> SUFFICES ASSUME NEW v \in Slots PROVE Knows(slot[v])'
      BY DEF SlotsKnow
  <2>1. now \in Nat /\ now' = now + 1 /\ tries' = tries /\ tries \in [Ids -> Nat] /\ slot' = slot
    BY Types DEF Tick
  <2>2. /\ now' \in Nat /\ now' >= now /\ slot'[v] = slot[v]
        /\ tries' \in [Ids -> Nat] /\ \A i \in Ids : tries'[i] >= tries[i]
    BY <2>1
  <2> QED BY <2>2, StillKnows
<1> QED BY <1>3, <1>4, <1>5, <1>6 DEF IInv

LEMMA StepIInv == ASSUME NEW s \in Slots, IInv, Step(s) PROVE IInv'
<1> USE LoginAssumption
<1>0. /\ slot \in [Slots -> SlotType] /\ slot[s] \in SlotType /\ Knows(slot[s])
      /\ now \in Nat /\ faults \in Nat /\ tries \in [Ids -> Nat]
  BY Types DEF IInv, SlotType, Pcs, SlotsKnow
<1>1. ASSUME NEW i \in Ids \cup {NoId}, NEW p \in Ips \cup {NoIp}, Arrive(s, i, p) PROVE IInv'
  <2>1. PICK pc \in Pcs :
          /\ pc \in (IF i = NoId THEN {"check_stuffing"}
                     ELSE {"check_lock", "load_failures", "delete_failures"})
          /\ slot' = [slot EXCEPT ![s] = [Idle EXCEPT !.pc = pc, !.id = i, !.ip = p]]
    BY <1>1 DEF Arrive, Pcs, RecordCalls, ClearCalls
  <2> DEFINE new == [Idle EXCEPT !.pc = pc, !.id = i, !.ip = p]
  <2>2. Idle \in SlotType
    BY DEF Idle, SlotType, Pcs
  <2>3. new \in SlotType /\ new.pc = pc /\ new.id = i
    BY <2>2 DEF SlotType
  <2> HIDE DEF new
  <2>4. slot'[s] = new /\ slot' \in [Slots -> SlotType]
        /\ \A v \in Slots \ {s} : slot'[v] = slot[v]
    BY <1>0, <2>1, <2>3 DEF new
  <2>5. Knows(slot[s])'
    BY <2>1, <2>3, <2>4 DEF Knows, RecordCalls, ClearCalls
  <2> QED BY <1>0, <1>1, <2>4, <2>5, ReadOnly DEF Arrive
<1>2. ASSUME Return(s), UNCHANGED <<now, entries, tries>>, faults' \in Nat PROVE IInv'
  <2>1. Knows(slot[s])'
    BY <1>2, Returned DEF Knows, RecordCalls, ClearCalls
  <2> QED BY <1>2, <2>1, Returned, ReadOnly
<1>3. ASSUME Goto(s, "check_stuffing") \/ Goto(s, "handler"),
             UNCHANGED <<now, entries, tries>>, faults' \in Nat
      PROVE  IInv'
  <2>1. PICK pc \in {"check_stuffing", "handler"} : slot' = [slot EXCEPT ![s].pc = pc]
    BY <1>3 DEF Goto
  <2>2. pc \in Pcs
    BY DEF Pcs
  <2>3. Knows(slot[s])'
    BY <2>1, <2>2, Moved DEF Knows, RecordCalls, ClearCalls
  <2> QED BY <1>3, <2>1, <2>2, <2>3, Moved, ReadOnly
<1>4. CASE CheckLock(s)
  BY <1>0, <1>2, <1>3, <1>4 DEF CheckLock
<1>5. CASE CheckStuffing(s)
  BY <1>0, <1>2, <1>3, <1>5 DEF CheckStuffing
<1>6. CASE Handler(s)
  <2>0. UNCHANGED <<now, entries, faults, tries>>
    BY <1>6 DEF Handler
  <2>1. CASE Return(s)
    BY <1>0, <1>2, <2>0, <2>1
  <2>2. CASE slot[s].id # NoId /\ (Goto(s, "load_failures") \/ Goto(s, "delete_failures"))
    <3>1. PICK pc \in {"load_failures", "delete_failures"} : slot' = [slot EXCEPT ![s].pc = pc]
      BY <2>2 DEF Goto
    <3>2. pc \in Pcs /\ slot[s].id \in Ids
      BY <1>0, <2>2 DEF Pcs, RecordCalls, ClearCalls, SlotType
    <3>3. Knows(slot[s])'
      BY <3>1, <3>2, Moved DEF Knows, RecordCalls, ClearCalls
    <3> QED BY <1>0, <2>0, <3>1, <3>2, <3>3, Moved, ReadOnly
  <2> QED BY <1>6, <2>1, <2>2 DEF Handler
<1>7. CASE CheckLockFails(s)
  BY <1>0, <1>2, <1>3, <1>7 DEF CheckLockFails, Failing
<1>8. CASE CheckStuffingFails(s)
  BY <1>0, <1>3, <1>8 DEF CheckStuffingFails, Failing
<1>9. CASE CallGivesUp(s)
  BY <1>0, <1>2, <1>9 DEF CallGivesUp, Failing
<1>10. ASSUME NEW i \in Ids, slot[s].id = i, LoadFailures(s) PROVE IInv'
  <2>0. fail[i].val \in Nat /\ fail[i].val <= tries[i] /\ "load_lock" \in Pcs
    BY Types DEF IInv, Counters, LockIsEarned, Pcs, RecordCalls
  <2>1. PICK n \in Nat : n = fail[i].val + 1
    BY <2>0
  <2> DEFINE new == [slot[s] EXCEPT !.n = n, !.pc = "load_lock"]
  <2>2. new \in SlotType /\ new.pc = "load_lock" /\ new.id = i /\ new.n = n
    BY <1>0, <1>10, <2>0 DEF SlotType
  <2>3. slot' = [slot EXCEPT ![s] = new]
    BY <1>0, <1>10, <2>1 DEF LoadFailures
  <2> HIDE DEF new
  <2>4. slot'[s] = new /\ slot' \in [Slots -> SlotType]
        /\ \A v \in Slots \ {s} : slot'[v] = slot[v]
    BY <1>0, <2>2, <2>3
  <2>5. /\ tries' \in [Ids -> Nat] /\ tries'[i] = tries[i] + 1
        /\ \A j \in Ids : tries'[j] >= tries[j]
    BY <1>0, <1>10 DEF LoadFailures
  <2>6. Knows(slot[s])'
    <3>1. n <= tries'[i]
      BY <1>0, <2>0, <2>1, <2>5
    <3> QED BY <2>2, <2>4, <3>1 DEF Knows, RecordCalls, ClearCalls
  <2>7. UNCHANGED <<now, fail, strike, lock, stuff, faults>>
    BY <1>10 DEF LoadFailures, entries
  <2>8. LockIsEarned' /\ LockIsBounded' /\ StuffingIsDistinct'
    <3>1. ASSUME NEW j \in Ids
          PROVE  fail[j].val <= tries'[j] /\ (lock[j].val > 0 => tries'[j] >= Failures)
      <4>1. fail[j].val <= tries[j] /\ (lock[j].val > 0 => tries[j] >= Failures)
        BY DEF IInv, LockIsEarned
      <4>2. /\ fail[j].val \in Nat /\ tries[j] \in Nat /\ Failures \in Nat
            /\ tries'[j] \in Nat /\ tries'[j] >= tries[j]
        BY <1>0, <2>5, Types DEF Counters
      <4> QED BY <4>1, <4>2
    <3>2. LockIsEarned'
      BY <2>7, <3>1 DEF LockIsEarned
    <3> QED BY <2>7, <3>2 DEF IInv, LockIsBounded, StuffingIsDistinct
  <2>9. /\ fail' \in [Ids -> Counters] /\ strike' \in [Ids -> Counters]
        /\ lock' \in [Ids -> Counters] /\ stuff' \in [Ips -> [val : Seq(Ids), exp : Nat]]
    BY <2>7, Types
  <2> QED BY <1>0, <2>4, <2>5, <2>6, <2>7, <2>8, <2>9, Writing
<1>11. ASSUME NEW i \in Ids, slot[s].id = i, LoadLock(s) PROVE IInv'
  <2> DEFINE pc == IF Crossing(slot[s].n, Locked(i)) THEN "load_strikes" ELSE "load_stuffing"
             new == [slot[s] EXCEPT !.locked = Locked(i), !.pc = pc]
  <2>1. pc \in Pcs /\ Locked(i) \in BOOLEAN
    BY DEF Pcs, RecordCalls, Locked
  <2>2. slot[s].n \in Nat /\ slot[s].n <= tries[i]
    BY <1>0, <1>11 DEF LoadLock, At, Knows, RecordCalls, SlotType
  <2>3. pc \in {"load_strikes", "load_stuffing"} /\ (pc = "load_strikes" => tries[i] >= Failures)
    BY <1>0, <2>2 DEF Crossing
  <2>4. slot' = [slot EXCEPT ![s] = new]
    BY <1>0, <1>11 DEF LoadLock
  <2> HIDE DEF pc
  <2>5. new \in SlotType /\ new.pc = pc /\ new.id = i /\ new.n = slot[s].n
    BY <1>0, <1>11, <2>1 DEF SlotType
  <2> HIDE DEF new
  <2>6. slot'[s] = new /\ slot' \in [Slots -> SlotType]
        /\ \A v \in Slots \ {s} : slot'[v] = slot[v]
    BY <1>0, <2>4, <2>5
  <2>7. UNCHANGED <<now, entries, faults, tries>>
    BY <1>11 DEF LoadLock
  <2>8. Knows(slot[s])'
    BY <2>2, <2>3, <2>5, <2>6, <2>7 DEF Knows, RecordCalls, ClearCalls
  <2> QED BY <1>0, <2>6, <2>7, <2>8, ReadOnly
<1>12. ASSUME NEW i \in Ids, slot[s].id = i, LoadStrikes(s) PROVE IInv'
  <2>0. strike[i].val \in Nat /\ "save_strikes" \in Pcs
    BY Types DEF Counters, Pcs, RecordCalls
  <2>1. PICK m \in Nat : m = strike[i].val + 1
    BY <2>0
  <2> DEFINE new == [slot[s] EXCEPT !.strikes = m, !.pc = "save_strikes"]
  <2>2. /\ new \in SlotType
        /\ new.pc = "save_strikes" /\ new.id = i /\ new.n = slot[s].n
    BY <1>0, <1>12, <2>0 DEF SlotType
  <2>3. slot' = [slot EXCEPT ![s] = new]
    BY <1>0, <1>12, <2>1 DEF LoadStrikes
  <2> HIDE DEF new
  <2>4. slot'[s] = new /\ slot' \in [Slots -> SlotType]
        /\ \A v \in Slots \ {s} : slot'[v] = slot[v]
    BY <1>0, <2>2, <2>3
  <2>5. UNCHANGED <<now, entries, faults, tries>>
    BY <1>12 DEF LoadStrikes
  <2>6. slot[s].n <= tries[i] /\ tries[i] >= Failures
    BY <1>0, <1>12 DEF LoadStrikes, At, Knows, RecordCalls
  <2>7. Knows(slot[s])'
    BY <2>2, <2>4, <2>5, <2>6 DEF Knows, RecordCalls, ClearCalls
  <2> QED BY <1>0, <2>4, <2>5, <2>7, ReadOnly
<1>13. ASSUME NEW i \in Ids, slot[s].id = i, SaveStrikes(s) PROVE IInv'
  <2>0. slot[s].n <= tries[i] /\ tries[i] >= Failures /\ "save_lock" \in Pcs
    BY <1>0, <1>13 DEF SaveStrikes, At, Knows, RecordCalls, Pcs
  <2> DEFINE new == [slot[s] EXCEPT !.since = now, !.pc = "save_lock"]
  <2>3. new \in SlotType /\ new.pc = "save_lock" /\ new.id = i /\ new.n = slot[s].n
    BY <1>0, <1>13, <2>0 DEF SlotType
  <2>4. slot' = [slot EXCEPT ![s] = new]
    BY <1>0, <1>13 DEF SaveStrikes
  <2> HIDE DEF new
  <2>5. slot'[s] = new /\ slot' \in [Slots -> SlotType]
        /\ \A v \in Slots \ {s} : slot'[v] = slot[v]
    BY <1>0, <2>3, <2>4
  <2>6. UNCHANGED <<now, fail, lock, stuff, faults, tries>>
    BY <1>13, Zenon DEF SaveStrikes
  <2>7. Knows(slot[s])'
    BY <2>0, <2>3, <2>5, <2>6 DEF Knows, RecordCalls, ClearCalls
  <2>8. strike' \in [Ids -> Counters]
    <3>1. Entry(slot[s].strikes, BackoffWindow) \in Counters
      BY <1>0, SMTT(60) DEF Entry, Counters, SlotType
    <3> QED BY <1>13, <3>1, Types DEF SaveStrikes
  <2>9. LockIsEarned' /\ LockIsBounded' /\ StuffingIsDistinct'
    BY <2>6 DEF IInv, LockIsEarned, LockIsBounded, StuffingIsDistinct
  <2>10. /\ fail' \in [Ids -> Counters] /\ lock' \in [Ids -> Counters]
         /\ stuff' \in [Ips -> [val : Seq(Ids), exp : Nat]]
       /\ tries' \in [Ids -> Nat] /\ \A j \in Ids : tries'[j] >= tries[j]
  <3>1. tries' = tries
    BY <2>6
  <3>2. tries' \in [Ids -> Nat] /\ \A j \in Ids : tries'[j] >= tries[j]
    BY <3>1, TriesKept
  <3> QED BY <2>6, <3>2, Types, Zenon
  <2> QED BY <1>0, <2>5, <2>6, <2>7, <2>8, <2>9, <2>10, Writing
<1>14. ASSUME NEW i \in Ids, slot[s].id = i, SaveLock(s) PROVE IInv'
  <2>0. /\ slot[s].n <= tries[i] /\ tries[i] >= Failures /\ "load_stuffing" \in Pcs
    BY <1>0, <1>14 DEF SaveLock, At, Knows, RecordCalls, Pcs, SlotType
  <2>1. slot' = [slot EXCEPT ![s].pc = "load_stuffing"]
    BY <1>14 DEF SaveLock, Goto
  <2>2. UNCHANGED <<now, fail, strike, stuff, faults, tries>>
    BY <1>14 DEF SaveLock
  <2>3. Knows(slot[s])'
    BY <1>14, <2>0, <2>1, <2>2, Moved DEF Knows, RecordCalls, ClearCalls
  <2>4. PICK d \in 0 .. MaxLockout : d = lockFor(slot[s].strikes)
    BY LockForCapped
  <2>5. PICK end \in Nat : end <= now + d /\ lock' = [lock EXCEPT ![i] = Entry(end, d)]
    BY <1>14, <2>4, LockSaved
  <2>6. end <= now + MaxLockout /\ Entry(end, d) \in Counters /\ Entry(end, d).val = end
    BY <1>0, <2>5 DEF Entry, Counters
  <2>7. /\ lock' \in [Ids -> Counters] /\ lock'[i].val = end
        /\ \A j \in Ids \ {i} : lock'[j] = lock[j]
    BY <2>5, <2>6, Types
  <2>8. LockIsEarned' /\ LockIsBounded' /\ StuffingIsDistinct'
    <3>1. StuffingIsDistinct'
      BY <2>2 DEF IInv, StuffingIsDistinct
    <3>2. ASSUME NEW j \in Ids
          PROVE  /\ fail[j].val <= tries[j] /\ (lock'[j].val > 0 => tries[j] >= Failures)
                 /\ lock'[j].val <= now + MaxLockout
      <4>1. /\ fail[j].val <= tries[j] /\ (lock[j].val > 0 => tries[j] >= Failures)
            /\ lock[j].val <= now + MaxLockout
        BY DEF IInv, LockIsEarned, LockIsBounded
      <4> QED BY <2>0, <2>6, <2>7, <4>1
    <3> QED BY <2>2, <3>1, <3>2 DEF LockIsEarned, LockIsBounded
  <2>9. /\ fail' \in [Ids -> Counters] /\ strike' \in [Ids -> Counters]
        /\ stuff' \in [Ips -> [val : Seq(Ids), exp : Nat]]
        /\ tries' \in [Ids -> Nat] /\ \A j \in Ids : tries'[j] >= tries[j]
    <3>1. tries' = tries
      BY <2>2
    <3>2. tries' \in [Ids -> Nat] /\ \A j \in Ids : tries'[j] >= tries[j]
      BY <3>1, TriesKept
    <3> QED BY <2>2, <3>2, Types, Zenon
  <2> QED BY <1>0, <2>0, <2>1, <2>2, <2>3, <2>7, <2>8, <2>9, Moved, Writing
<1>15. ASSUME NEW i \in Ids, slot[s].id = i, LoadStuffing(s) PROVE IInv'
  <2>0. slot[s].n <= tries[i] /\ {"save_failures", "save_stuffing"} \subseteq Pcs
    BY <1>0, <1>15 DEF LoadStuffing, At, Knows, RecordCalls, Pcs
  <2>1. UNCHANGED <<now, entries, faults, tries>>
    BY <1>15 DEF LoadStuffing
  <2>2. ASSUME Goto(s, "save_failures") PROVE IInv'
    <3>1. slot' = [slot EXCEPT ![s].pc = "save_failures"]
      BY <2>2 DEF Goto
    <3>2. Knows(slot[s])'
      BY <1>15, <2>0, <2>1, <3>1, Moved DEF Knows, RecordCalls, ClearCalls
    <3> QED BY <1>0, <2>0, <2>1, <3>1, <3>2, Moved, ReadOnly
  <2>3. ASSUME NEW p \in Ips, slot[s].ip = p,
               \A j \in 1 .. Len(stuff[p].val) : stuff[p].val[j] # i,
               slot' = [slot EXCEPT ![s].ids = stuff[p].val, ![s].pc = "save_stuffing"]
        PROVE  IInv'
    <3>1. PICK ids \in Seq(Ids) : ids = stuff[p].val
      BY Types
    <3>2. Len(ids) <= StuffingLimit /\ Distinct(ids) /\ \A j \in 1 .. Len(ids) : ids[j] # i
      BY <2>3, <3>1 DEF IInv, StuffingIsDistinct
    <3> DEFINE new == [slot[s] EXCEPT !.ids = ids, !.pc = "save_stuffing"]
    <3>3. /\ new \in SlotType /\ new.pc = "save_stuffing" /\ new.id = i /\ new.ip = p
          /\ new.n = slot[s].n /\ new.ids = ids
      BY <1>0, <1>15, <2>0, <2>3 DEF SlotType
    <3>4. slot' = [slot EXCEPT ![s] = new]
      BY <1>0, <2>3, <3>1
    <3> HIDE DEF new
    <3>5. slot'[s] = new /\ slot' \in [Slots -> SlotType]
          /\ \A v \in Slots \ {s} : slot'[v] = slot[v]
      BY <1>0, <3>3, <3>4
    <3>6. Knows(slot[s])'
      BY <2>0, <2>1, <3>2, <3>3, <3>5 DEF Knows, RecordCalls, ClearCalls
    <3> QED BY <1>0, <2>1, <3>5, <3>6, ReadOnly
  <2>4. slot[s].ip \in Ips \cup {NoIp}
    BY <1>0 DEF SlotType
  <2> QED BY <1>15, <2>2, <2>3, <2>4 DEF LoadStuffing
<1>16. ASSUME NEW i \in Ids, slot[s].id = i, SaveStuffing(s) PROVE IInv'
  <2>0. /\ slot[s].n <= tries[i] /\ slot[s].ip \in Ips /\ "save_failures" \in Pcs
        /\ slot[s].ids \in Seq(Ids) /\ Distinct(slot[s].ids)
        /\ \A j \in 1 .. Len(slot[s].ids) : slot[s].ids[j] # i
    BY <1>0, <1>16 DEF SaveStuffing, At, Knows, RecordCalls, Pcs, SlotType
  <2>1. slot' = [slot EXCEPT ![s].pc = "save_failures"]
    BY <1>16, Zenon DEF SaveStuffing, Goto
  <2>2. UNCHANGED <<now, fail, strike, lock, faults, tries>>
    BY <1>16, Zenon DEF SaveStuffing
  <2>3. Knows(slot[s])'
    BY <1>16, <2>0, <2>1, <2>2, Moved, ZenonT(60) DEF Knows, RecordCalls, ClearCalls
  <2>4. PICK list \in Seq(Ids) : /\ list = Capped(Append(slot[s].ids, i))
                                /\ Len(list) <= StuffingLimit /\ Distinct(list)
    <3>1. PICK ids \in Seq(Ids) : ids = slot[s].ids
      BY <2>0
    <3>2. Distinct(ids) /\ \A j \in 1 .. Len(ids) : ids[j] # i
      BY <2>0, <3>1
    <3> DEFINE new == Capped(Append(ids, i))
    <3>3. new \in Seq(Ids) /\ Len(new) <= StuffingLimit /\ Distinct(new)
      BY <3>2, CappedDistinct
    <3>4. new = Capped(Append(slot[s].ids, i))
      BY <3>1
    <3> HIDE DEF new
    <3> QED BY <3>3, <3>4
  <2>5. stuff' = [stuff EXCEPT ![slot[s].ip] = [val |-> list, exp |-> now + FailureWindow]]
    BY <1>16, <2>4, Zenon DEF SaveStuffing, Entry
  <2>6. [val |-> list, exp |-> now + FailureWindow] \in [val : Seq(Ids), exp : Nat]
    BY <1>0, SMTT(60)
  <2>7. /\ stuff' \in [Ips -> [val : Seq(Ids), exp : Nat]]
        /\ stuff'[slot[s].ip].val = list
        /\ \A p \in Ips \ {slot[s].ip} : stuff'[p] = stuff[p]
    BY <2>0, <2>5, <2>6, Types
  <2>8. StuffingIsDistinct'
    <3> SUFFICES ASSUME NEW p \in Ips
                 PROVE  Len(stuff'[p].val) <= StuffingLimit /\ Distinct(stuff'[p].val)
        BY DEF StuffingIsDistinct
    <3>1. Len(stuff[p].val) <= StuffingLimit /\ Distinct(stuff[p].val)
      BY DEF IInv, StuffingIsDistinct
    <3>2. stuff'[p] = stuff[p] \/ stuff'[p].val = list
      BY <2>7
    <3> QED BY <2>4, <3>1, <3>2
  <2>9. LockIsEarned' /\ LockIsBounded'
    BY <2>2 DEF IInv, LockIsEarned, LockIsBounded
  <2>10. /\ fail' \in [Ids -> Counters] /\ strike' \in [Ids -> Counters]
         /\ lock' \in [Ids -> Counters]
          /\ tries' \in [Ids -> Nat] /\ \A j \in Ids : tries'[j] >= tries[j]
      <3>1. tries' = tries
        BY <2>2
      <3>2. tries' \in [Ids -> Nat] /\ \A j \in Ids : tries'[j] >= tries[j]
        BY <3>1, TriesKept
      <3> QED BY <2>2, <3>2, Types, Zenon
  <2> QED BY <1>0, <2>0, <2>1, <2>2, <2>3, <2>7, <2>8, <2>9, <2>10, Moved, Writing
<1>17. ASSUME NEW i \in Ids, NEW m \in Nat, NEW t \in Nat, m <= tries[i],
              fail' = [fail EXCEPT ![i] = [val |-> m, exp |-> t]],
              UNCHANGED <<now, strike, lock, stuff, faults, tries>>,
              slot' \in [Slots -> SlotType], \A v \in Slots \ {s} : slot'[v] = slot[v],
              Knows(slot[s])'
       PROVE  IInv'
  <2>1. fail' \in [Ids -> Counters] /\ fail'[i].val = m
        /\ \A j \in Ids \ {i} : fail'[j] = fail[j]
    BY <1>17, Types DEF Counters
  <2>2. LockIsEarned' /\ LockIsBounded' /\ StuffingIsDistinct'
    <3>1. UNCHANGED <<now, lock, stuff, tries>>
      BY <1>17
    <3>2. LockIsBounded' /\ StuffingIsDistinct'
      BY <3>1 DEF IInv, LockIsBounded, StuffingIsDistinct
    <3>3. ASSUME NEW j \in Ids
          PROVE  fail'[j].val <= tries[j] /\ (lock[j].val > 0 => tries[j] >= Failures)
      <4>1. fail[j].val <= tries[j] /\ (lock[j].val > 0 => tries[j] >= Failures)
        BY DEF IInv, LockIsEarned
      <4> QED BY <1>17, <2>1, <4>1
    <3>4. LockIsEarned'
      BY <3>1, <3>3 DEF LockIsEarned
    <3> QED BY <3>2, <3>4
  <2>3. /\ strike' \in [Ids -> Counters] /\ lock' \in [Ids -> Counters]
        /\ stuff' \in [Ips -> [val : Seq(Ids), exp : Nat]]
        /\ tries' \in [Ids -> Nat] /\ \A j \in Ids : tries'[j] >= tries[j]
    <3>1. UNCHANGED <<now, strike, lock, stuff, faults, tries>>
      BY <1>17
    <3> QED BY <3>1, Types
  <2> QED BY <1>0, <1>17, <2>1, <2>2, <2>3, Writing
<1>18. ASSUME NEW i \in Ids, slot[s].id = i, SaveFailures(s) PROVE IInv'
  <2>1. slot[s].n \in Nat /\ slot[s].n <= tries[i] /\ now + FailureWindow \in Nat
    BY <1>0, <1>18, SMTT(60) DEF SaveFailures, At, Knows, RecordCalls, SlotType
  <2>2. fail' = [fail EXCEPT ![i] = [val |-> slot[s].n, exp |-> now + FailureWindow]]
    BY <1>18 DEF SaveFailures, Entry
  <2>3. Return(s) /\ UNCHANGED <<now, strike, lock, stuff, faults, tries>>
    BY <1>18 DEF SaveFailures
  <2>4. Knows(slot[s])'
    BY <2>3, Returned DEF Knows, RecordCalls, ClearCalls
  <2> QED BY <1>17, <2>1, <2>2, <2>3, <2>4, Returned
<1>19. ASSUME NEW i \in Ids, slot[s].id = i, DeleteFailures(s) PROVE IInv'
  <2>1. fail' = [fail EXCEPT ![i] = [val |-> 0, exp |-> 0]] /\ 0 <= tries[i]
    <3>1. fail' = [fail EXCEPT ![i] = Absent(0)]
      BY <1>19, Zenon DEF DeleteFailures
    <3> QED BY <1>0, <3>1 DEF Absent
  <2>2. /\ slot' = [slot EXCEPT ![s].pc = "delete_strikes"] /\ "delete_strikes" \in Pcs
        /\ UNCHANGED <<now, strike, lock, stuff, faults, tries>>
    <3>1. "delete_strikes" \in Pcs
      BY DEF Pcs, ClearCalls
    <3> QED BY <1>19, <3>1, Zenon DEF DeleteFailures, Goto
  <2>3. Knows(slot[s])'
    BY <1>19, <2>2, Moved, ZenonT(60) DEF Knows, RecordCalls, ClearCalls
  <2> QED BY <1>17, <2>1, <2>2, <2>3, Moved
<1>20. ASSUME NEW i \in Ids, slot[s].id = i, DeleteStrikes(s) PROVE IInv'
  <2>1. Return(s) /\ UNCHANGED <<now, fail, lock, stuff, faults, tries>>
    BY <1>20 DEF DeleteStrikes
  <2>2. Knows(slot[s])'
    BY <2>1, Returned DEF Knows, RecordCalls, ClearCalls
  <2>3. strike' \in [Ids -> Counters]
    BY <1>20, Types DEF DeleteStrikes, Absent, Counters
  <2>4. LockIsEarned' /\ LockIsBounded' /\ StuffingIsDistinct'
    BY <2>1 DEF IInv, LockIsEarned, LockIsBounded, StuffingIsDistinct
  <2>5. /\ fail' \in [Ids -> Counters] /\ lock' \in [Ids -> Counters]
        /\ stuff' \in [Ips -> [val : Seq(Ids), exp : Nat]]
        /\ tries' \in [Ids -> Nat] /\ \A j \in Ids : tries'[j] >= tries[j]
    <3>1. tries' = tries
      BY <2>1
    <3>2. tries' \in [Ids -> Nat] /\ \A j \in Ids : tries'[j] >= tries[j]
      BY <3>1, TriesKept
    <3> QED BY <2>1, <3>2, Types, Zenon
  <2> QED BY <1>0, <2>1, <2>2, <2>3, <2>4, <2>5, Returned, Writing
<1>21. slot[s].pc \in RecordCalls \cup ClearCalls => slot[s].id \in Ids
  BY <1>0 DEF Knows
<1>22. CASE LoadFailures(s) \/ LoadLock(s) \/ LoadStrikes(s) \/ SaveStrikes(s) \/ SaveLock(s)
            \/ LoadStuffing(s) \/ SaveStuffing(s) \/ SaveFailures(s)
            \/ DeleteFailures(s) \/ DeleteStrikes(s)
  <2>1. slot[s].pc \in RecordCalls \cup ClearCalls
    BY <1>22 DEF LoadFailures, LoadLock, LoadStrikes, SaveStrikes, SaveLock, LoadStuffing,
       SaveStuffing, SaveFailures, DeleteFailures, DeleteStrikes, At, RecordCalls, ClearCalls
  <2> QED BY <1>10, <1>11, <1>12, <1>13, <1>14, <1>15, <1>16, <1>18, <1>19, <1>20, <1>21, <1>22,
             <2>1
<1> QED BY <1>1, <1>4, <1>5, <1>6, <1>7, <1>8, <1>9, <1>22 DEF Step

LEMMA NextIInv == IInv /\ [Next]_vars => IInv'
<1> SUFFICES ASSUME IInv, [Next]_vars PROVE IInv'
    OBVIOUS
<1>1. CASE UNCHANGED vars
  BY <1>1 DEF vars, IInv, TypeOK, LockIsEarned, LockIsBounded, StuffingIsDistinct, SlotsKnow,
     Knows, Distinct
<1> QED BY <1>1, TickIInv, StepIInv DEF Next

\* Every reachable state is well typed.
THEOREM LoginTypeOK == Spec => []TypeOK
<1>1. Spec => []IInv
  BY InitIInv, NextIInv, PTL DEF Spec
<1> QED BY <1>1, PTL DEF IInv

\* Races and store errors never invent a failure: no identity is locked out that
\* RecordFailure was not told of Failures times.
THEOREM LoginLockIsEarned == Spec => []LockIsEarned
<1>1. Spec => []IInv
  BY InitIInv, NextIInv, PTL DEF Spec
<1> QED BY <1>1, PTL DEF IInv

\* No lockout reaches further than MaxLockout from now, whatever the strikes.
THEOREM LoginLockIsBounded == Spec => []LockIsBounded
<1>1. Spec => []IInv
  BY InitIInv, NextIInv, PTL DEF Spec
<1> QED BY <1>1, PTL DEF IInv

\* The list behind credential_stuffing, rewritten by concurrent requests from one
\* client, is capped and counts no identity twice.
THEOREM LoginStuffingIsDistinct == Spec => []StuffingIsDistinct
<1>1. Spec => []IInv
  BY InitIInv, NextIInv, PTL DEF Spec
<1> QED BY <1>1, PTL DEF IInv

-----------------------------------------------------------------------------
(***************************************************************************)
(* Induction and recursion on the natural numbers, and what they say of    *)
(* the doubling of lockouts.                                               *)
(***************************************************************************)

\* A set of numbers that has 0 and, with a number, the next one has them all: of
\* those that it lacks none can be the least.
LEMMA Induction == ASSUME NEW T \in SUBSET Nat, 0 \in T, \A n \in T : n + 1 \in T
                   PROVE  T = Nat
<1> SUFFICES ASSUME T # Nat PROVE FALSE
    OBVIOUS
<1> DEFINE R == OpToRel(<, Nat)
           U == Nat \ T
<1>1. IsWellFoundedOn(R, Nat)
  BY NatLessThanWellFounded, Zenon
<1>2. PICK x \in U : \A y \in U : ~(<<y, x>> \in R)
  <2>1. U \subseteq Nat /\ U # {}
    OBVIOUS
  <2> HIDE DEF R, U
  <2> QED BY <1>1, <2>1, WFMin
<1>3. x \in Nat /\ x # 0 /\ x - 1 \in Nat
  OBVIOUS
<1>4. x - 1 \in U
  <2>1. (x - 1) + 1 = x
    BY <1>3
  <2> QED BY <1>3, <2>1
<1>5. <<x - 1, x>> \in R
  BY <1>3 DEF OpToRel
<1> QED BY <1>2, <1>4, <1>5

\* f is what repeating step makes of first, up to n times.
Repeats(f, first, step, n) == f[0] = first /\ \A i \in 0 .. n - 1 : f[i + 1] = step[f[i]]

Iterates(f, S, first, step) ==
    f \in [Nat -> S] /\ f[0] = first /\ \A n \in Nat : f[n + 1] = step[f[n]]

\* Repeating a step any number of times is a function.
LEMMA Repetition ==
    ASSUME NEW S, NEW first, NEW step, first \in S, step \in [S -> S]
    PROVE  \E f : Iterates(f, S, first, step)
<1> DEFINE Good(n) == {g \in [Nat -> S] : Repeats(g, first, step, n)}
           Exists == {n \in Nat : Good(n) # {}}
<1>1. Exists = Nat
  <2>1. 0 \in Exists
    <3>1. [i \in Nat |-> first] \in Good(0)
      BY DEF Repeats
    <3> QED BY <3>1
  <2>2. ASSUME NEW n \in Exists PROVE n + 1 \in Exists
    <3>1. PICK g \in [Nat -> S] : Repeats(g, first, step, n)
      OBVIOUS
    <3> DEFINE h == [g EXCEPT ![n + 1] = step[g[n]]]
    <3>2. h \in [Nat -> S]
      OBVIOUS
    <3>3. h[0] = first
      BY <3>1 DEF Repeats
    <3>4. ASSUME NEW i \in 0 .. n PROVE h[i + 1] = step[h[i]]
      <4>1. h[i] = g[i]
        OBVIOUS
      <4>2. CASE i = n
        BY <4>1, <4>2
      <4>3. CASE i < n
        BY <3>1, <4>1, <4>3 DEF Repeats
      <4> QED BY <4>2, <4>3
    <3>5. h \in Good(n + 1)
      <4> HIDE DEF h
      <4> QED BY <3>2, <3>3, <3>4 DEF Repeats
    <3> HIDE DEF Good, h
    <3> QED BY <3>5
  <2> HIDE DEF Exists
  <2>3. Exists \in SUBSET Nat
    BY DEF Exists
  <2> QED BY <2>1, <2>2, <2>3, Induction
<1> DEFINE Agree == {k \in Nat : \A n, m \in Nat : \A g \in Good(n), h \in Good(m) :
                                   k <= n /\ k <= m => g[k] = h[k]}
<1>2. Agree = Nat
  <2>1. 0 \in Agree
    BY DEF Repeats
  <2>2. ASSUME NEW k \in Agree PROVE k + 1 \in Agree
    <3> SUFFICES ASSUME NEW n \in Nat, NEW m \in Nat, NEW g \in Good(n), NEW h \in Good(m),
                        k + 1 <= n, k + 1 <= m
                 PROVE  g[k + 1] = h[k + 1]
        OBVIOUS
    <3>1. g[k] = h[k]
      OBVIOUS
    <3>2. g[k + 1] = step[g[k]] /\ h[k + 1] = step[h[k]]
      BY DEF Repeats
    <3> QED BY <3>1, <3>2
  <2> HIDE DEF Agree
  <2>3. Agree \in SUBSET Nat
    BY DEF Agree
  <2> QED BY <2>1, <2>2, <2>3, Induction
<1> DEFINE pick == [n \in Nat |-> CHOOSE g \in Good(n) : TRUE]
           f == [n \in Nat |-> pick[n][n]]
<1>3. \A n \in Nat : pick[n] \in Good(n)
  <2> HIDE DEF Good
  <2> QED BY <1>1
<1> HIDE DEF pick
<1>4. f \in [Nat -> S]
  BY <1>3
<1>5. f[0] = first
  BY <1>3 DEF Repeats
<1>6. ASSUME NEW n \in Nat PROVE f[n + 1] = step[f[n]]
  <2>1. pick[n + 1] \in Good(n + 1) /\ pick[n] \in Good(n)
    BY <1>3
  <2>2. pick[n + 1][n] = pick[n][n]
    <3>1. n \in Agree
      BY <1>2
    <3> QED BY <2>1, <3>1
  <2>3. pick[n + 1][n + 1] = step[pick[n + 1][n]]
    BY <2>1 DEF Repeats
  <2> QED BY <2>2, <2>3
<1>7. Iterates(f, S, first, step)
  BY <1>4, <1>5, <1>6 DEF Iterates
<1> QED BY <1>7

\* Backoff is the function that its definition describes.
LEMMA BackoffValues ==
    /\ Backoff \in [Nat -> Nat]
    /\ Backoff[0] = Lockout
    /\ \A n \in Nat : Backoff[n + 1] = IF Backoff[n] >= MaxLockout \div 2 THEN MaxLockout
                                       ELSE 2 * Backoff[n]
<1> DEFINE double == [d \in Nat |-> IF d >= MaxLockout \div 2 THEN MaxLockout ELSE 2 * d]
<1>1. double \in [Nat -> Nat] /\ Lockout \in Nat
  BY LoginAssumption
<1>2. PICK f : Iterates(f, Nat, Lockout, double)
  <2> HIDE DEF double
  <2> QED BY <1>1, Repetition, Zenon
<1>3. \A n \in Nat : f[n + 1] = IF f[n] >= MaxLockout \div 2 THEN MaxLockout ELSE 2 * f[n]
  BY <1>2 DEF Iterates
<1> DEFINE Is(g) == g = [i \in Nat |-> IF i = 0 THEN Lockout
                                       ELSE IF g[i - 1] >= MaxLockout \div 2 THEN MaxLockout
                                       ELSE 2 * g[i - 1]]
<1>4. Is(f)
  <2>1. ASSUME NEW i \in Nat
        PROVE  f[i] = IF i = 0 THEN Lockout
                      ELSE IF f[i - 1] >= MaxLockout \div 2 THEN MaxLockout
                      ELSE 2 * f[i - 1]
    <3>1. CASE i = 0
      BY <1>2, <3>1 DEF Iterates
    <3>2. CASE i # 0
      <4>1. i - 1 \in Nat /\ (i - 1) + 1 = i
        BY <3>2
      <4> QED BY <1>3, <3>2, <4>1
    <3> QED BY <3>1, <3>2
  <2>2. f \in [Nat -> Nat]
    BY <1>2 DEF Iterates
  <2>3. f = [i \in Nat |-> f[i]]
    BY <2>2
  <2> QED BY <2>1, <2>3, Zenon
<1>5. Backoff = CHOOSE g : Is(g)
  BY Zenon DEF Backoff
<1> HIDE DEF Is
<1>6. Is(Backoff)
  BY <1>4, <1>5
<1>7. /\ DOMAIN Backoff = Nat
      /\ \A i \in Nat : Backoff[i] = IF i = 0 THEN Lockout
                                     ELSE IF Backoff[i - 1] >= MaxLockout \div 2 THEN MaxLockout
                                     ELSE 2 * Backoff[i - 1]
  BY <1>6 DEF Is
<1>8. ASSUME NEW n \in Nat
      PROVE  Backoff[n + 1] = IF Backoff[n] >= MaxLockout \div 2 THEN MaxLockout ELSE 2 * Backoff[n]
  <2>1. n + 1 \in Nat /\ n + 1 # 0 /\ (n + 1) - 1 = n
    OBVIOUS
  <2> QED BY <1>7, <2>1
<1>9. \A n \in Nat : Backoff[n] \in Nat
  <2> DEFINE T == {n \in Nat : Backoff[n] \in Nat}
  <2>1. T \in SUBSET Nat /\ 0 \in T /\ \A n \in T : n + 1 \in T
    BY <1>7, <1>8, LoginAssumption
  <2> HIDE DEF T
  <2>2. T = Nat
    BY <2>1, Induction
  <2> QED BY <2>2 DEF T
<1>10. Backoff \in [Nat -> Nat]
  <2>1. Backoff = [n \in Nat |-> Backoff[n]]
    BY <1>6, Zenon DEF Is
  <2> QED BY <1>9, <2>1
<1> QED BY <1>7, <1>8, <1>10

\* After m doublings the lockout is at the cap or twice what it was after j.
Outgrows(m, j) ==
    /\ j < m /\ Backoff[m] < MaxLockout => Backoff[m] >= 2 * Backoff[j]
    /\ Backoff[j] >= MaxLockout => Backoff[m] >= MaxLockout

\* Every lockout is at least twice as long as those of fewer strikes, or the longest.
LEMMA LockForDoubles ==
    ASSUME NEW k \in Nat \ {0}, NEW n \in Nat \ {0}, k < n
    PROVE  lockFor(n) = MaxLockout \/ lockFor(n) >= 2 * lockFor(k)
<1> DEFINE T == {m \in Nat : \A j \in 0 .. m : Outgrows(m, j)}
<1>1. T = Nat
  <2>1. 0 \in T
    BY DEF Outgrows
  <2>2. ASSUME NEW m \in T PROVE m + 1 \in T
    <3> SUFFICES ASSUME NEW j \in 0 .. m + 1 PROVE Outgrows(m + 1, j)
        OBVIOUS
    <3>1. /\ Backoff[m] \in Nat /\ Backoff[m + 1] \in Nat /\ Backoff[j] \in Nat
          /\ Backoff[m + 1] = IF Backoff[m] >= MaxLockout \div 2 THEN MaxLockout ELSE 2 * Backoff[m]
          /\ MaxLockout \in Nat
      BY BackoffValues, LoginAssumption
    <3>2. CASE j = m + 1
      BY <3>1, <3>2 DEF Outgrows
    <3>3. CASE j = m
      BY <3>1, <3>3 DEF Outgrows
    <3>4. CASE j < m
      <4>1. Outgrows(m, j)
        BY <3>4
      <4> QED BY <3>1, <3>4, <4>1 DEF Outgrows
    <3> QED BY <3>2, <3>3, <3>4
  <2> HIDE DEF T
  <2>3. T \in SUBSET Nat
    BY DEF T
  <2> QED BY <2>1, <2>2, <2>3, Induction
<1>2. n - 1 \in T /\ k - 1 \in 0 .. n - 1 /\ k - 1 < n - 1
  BY <1>1
<1>3. Backoff[n - 1] \in Nat /\ Backoff[k - 1] \in Nat /\ MaxLockout \in Nat
  BY BackoffValues, LoginAssumption
<1>4. Outgrows(n - 1, k - 1)
  BY <1>2
<1> QED BY <1>2, <1>3, <1>4 DEF lockFor, Outgrows

-----------------------------------------------------------------------------
(***************************************************************************)
(* Steps, sorted by what they write.                                       *)
(***************************************************************************)

\* The calls of RecordFailure that come after it loaded the counter.
Recording == RecordCalls \ {"load_failures"}

\* Nothing is written, and the request is not recording a failure afterwards.
Plain(s) ==
    UNCHANGED <<now, entries, misses, episode>> /\ slot'[s].pc \notin Recording

LEMMA StepCases ==
    ASSUME IInv, NEW s \in Slots, Step(s)
    PROVE  \/ Plain(s)
           \/ LoadFailures(s) \/ LoadLock(s) \/ LoadStrikes(s) \/ SaveStrikes(s) \/ SaveLock(s)
           \/ LoadStuffing(s) \/ SaveStuffing(s) \/ SaveFailures(s)
           \/ DeleteFailures(s) \/ DeleteStrikes(s)
<1>1. slot \in [Slots -> SlotType] /\ Idle.pc = "idle"
  BY Types DEF Idle
<1>2. ASSUME Return(s) PROVE slot'[s].pc \notin Recording
  BY <1>1, <1>2 DEF Return, Recording, RecordCalls
<1>3. ASSUME NEW pc \in {"check_stuffing", "handler", "load_failures", "delete_failures"},
             Goto(s, pc)
      PROVE  slot'[s].pc \notin Recording
  <2>1. slot'[s].pc = pc
    BY <1>1, <1>3 DEF Goto, SlotType
  <2> QED BY <2>1 DEF Recording, RecordCalls
<1>4. ASSUME NEW i \in Ids \cup {NoId}, NEW p \in Ips \cup {NoIp}, Arrive(s, i, p) PROVE Plain(s)
  <2>1. PICK pc \in {"check_stuffing", "check_lock", "load_failures", "delete_failures"} :
          slot' = [slot EXCEPT ![s] = [Idle EXCEPT !.pc = pc, !.id = i, !.ip = p]]
    BY <1>4, Zenon DEF Arrive
  <2>2. slot'[s].pc = pc
    BY <1>1, <2>1 DEF Idle
  <2> QED BY <1>4, <2>2 DEF Arrive, Plain, Recording, RecordCalls
<1>5. CASE CheckLock(s)
  BY <1>2, <1>3, <1>5 DEF CheckLock, Plain
<1>6. CASE CheckStuffing(s)
  BY <1>2, <1>3, <1>6 DEF CheckStuffing, Plain
<1>7. CASE Handler(s)
  <2>1. Return(s) \/ Goto(s, "load_failures") \/ Goto(s, "delete_failures")
    BY <1>7 DEF Handler
  <2> QED BY <1>2, <1>3, <1>7, <2>1 DEF Handler, Plain
<1>8. CASE CheckLockFails(s)
  BY <1>2, <1>3, <1>8 DEF CheckLockFails, Failing, Plain
<1>9. CASE CheckStuffingFails(s)
  BY <1>2, <1>3, <1>9 DEF CheckStuffingFails, Failing, Plain
<1>10. CASE CallGivesUp(s)
  BY <1>2, <1>10 DEF CallGivesUp, Failing, Plain
<1> QED BY <1>4, <1>5, <1>6, <1>7, <1>8, <1>9, <1>10 DEF Step

\* A request's step leaves the other requests alone.
LEMMA OthersKept ==
    ASSUME IInv, NEW s \in Slots, Step(s)
    PROVE  \A v \in Slots \ {s} : slot'[v] = slot[v]
<1> SUFFICES ASSUME NEW v \in Slots, v # s PROVE slot'[v] = slot[v]
    OBVIOUS
<1>1. slot \in [Slots -> SlotType]
  BY Types
<1>2. ASSUME Return(s) PROVE slot'[v] = slot[v]
  BY <1>1, <1>2 DEF Return
<1>3. ASSUME NEW pc, Goto(s, pc) PROVE slot'[v] = slot[v]
  BY <1>1, <1>3 DEF Goto
<1>4. ASSUME NEW i \in Ids \cup {NoId}, NEW p \in Ips \cup {NoIp}, Arrive(s, i, p)
      PROVE  slot'[v] = slot[v]
  BY <1>1, <1>4 DEF Arrive
<1>5. CASE CheckLock(s) \/ CheckStuffing(s) \/ CheckLockFails(s) \/ CheckStuffingFails(s)
           \/ CallGivesUp(s)
  BY <1>2, <1>3, <1>5
     DEF CheckLock, CheckStuffing, CheckLockFails, CheckStuffingFails, CallGivesUp
<1>6. CASE Handler(s)
  <2>1. Return(s) \/ Goto(s, "load_failures") \/ Goto(s, "delete_failures")
    BY <1>6 DEF Handler
  <2> QED BY <1>2, <1>3, <2>1
<1>7. CASE SaveLock(s) \/ SaveStuffing(s) \/ SaveFailures(s) \/ DeleteFailures(s) \/ DeleteStrikes(s)
  BY <1>2, <1>3, <1>7 DEF SaveLock, SaveStuffing, SaveFailures, DeleteFailures, DeleteStrikes
<1>8. CASE LoadFailures(s)
  BY <1>1, <1>8 DEF LoadFailures
<1>9. CASE LoadLock(s)
  BY <1>1, <1>9 DEF LoadLock
<1>10. CASE LoadStrikes(s)
  BY <1>1, <1>10 DEF LoadStrikes
<1>11. CASE SaveStrikes(s)
  BY <1>1, <1>11 DEF SaveStrikes
<1>12. CASE LoadStuffing(s)
  BY <1>1, <1>3, <1>12 DEF LoadStuffing
<1> QED BY <1>4, <1>5, <1>6, <1>7, <1>8, <1>9, <1>10, <1>11, <1>12 DEF Step

\* What each call of RecordFailure and ClearFailures does to its own request.
LEMMA OwnSlot ==
    ASSUME IInv, NEW s \in Slots
    PROVE  /\ LoadFailures(s) =>
                /\ slot'[s].pc = "load_lock" /\ slot'[s].id = slot[s].id
                /\ slot'[s].n = fail[slot[s].id].val + 1
           /\ LoadLock(s) =>
                /\ slot'[s].pc = IF Crossing(slot[s].n, Locked(slot[s].id))
                                   THEN "load_strikes" ELSE "load_stuffing"
                /\ slot'[s].id = slot[s].id /\ slot'[s].n = slot[s].n
                /\ slot'[s].locked = Locked(slot[s].id)
           /\ LoadStrikes(s) =>
                /\ slot'[s].pc = "save_strikes" /\ slot'[s].id = slot[s].id /\ slot'[s].n = slot[s].n
                /\ slot'[s].strikes = strike[slot[s].id].val + 1
           /\ SaveStrikes(s) =>
                /\ slot'[s].pc = "save_lock" /\ slot'[s].id = slot[s].id /\ slot'[s].n = slot[s].n
                /\ slot'[s].strikes = slot[s].strikes
           /\ SaveLock(s) =>
                /\ slot'[s].pc = "load_stuffing" /\ slot'[s].id = slot[s].id /\ slot'[s].n = slot[s].n
                /\ slot'[s].locked = slot[s].locked /\ slot'[s].strikes = slot[s].strikes
           /\ LoadStuffing(s) =>
                /\ slot'[s].pc \in {"save_failures", "save_stuffing"}
                /\ slot'[s].id = slot[s].id /\ slot'[s].ip = slot[s].ip /\ slot'[s].n = slot[s].n
                /\ slot'[s].locked = slot[s].locked /\ slot'[s].strikes = slot[s].strikes
                /\ slot'[s].pc = "save_stuffing" => slot'[s].ids = stuff[slot[s].ip].val
           /\ SaveStuffing(s) =>
                /\ slot'[s].pc = "save_failures" /\ slot'[s].id = slot[s].id /\ slot'[s].n = slot[s].n
                /\ slot'[s].locked = slot[s].locked /\ slot'[s].strikes = slot[s].strikes
           /\ SaveFailures(s) \/ DeleteStrikes(s) => slot'[s].pc = "idle"
           /\ DeleteFailures(s) => slot'[s].pc = "delete_strikes"
<1>1. slot \in [Slots -> SlotType] /\ slot[s] \in SlotType
  BY Types
<1> DEFINE r == slot[s]
<1>3. ASSUME LoadFailures(s)
      PROVE  slot'[s].pc = "load_lock" /\ slot'[s].id = r.id /\ slot'[s].n = fail[r.id].val + 1
  <2>1. slot'[s] = [r EXCEPT !.n = fail[r.id].val + 1, !.pc = "load_lock"]
    BY <1>1, <1>3 DEF LoadFailures
  <2> QED BY <1>1, <2>1 DEF SlotType
<1>4. ASSUME LoadLock(s)
      PROVE  /\ slot'[s].pc = IF Crossing(r.n, Locked(r.id)) THEN "load_strikes" ELSE "load_stuffing"
             /\ slot'[s].id = r.id /\ slot'[s].n = r.n
             /\ slot'[s].locked = Locked(r.id)
  <2> DEFINE locked == Locked(r.id)
             pc == IF Crossing(r.n, locked) THEN "load_strikes" ELSE "load_stuffing"
  <2>1. slot' = [slot EXCEPT ![s].locked = locked, ![s].pc = pc]
    BY <1>4 DEF LoadLock
  <2> HIDE DEF locked, pc
  <2>2. slot'[s] = [r EXCEPT !.locked = locked, !.pc = pc]
    BY <1>1, <2>1
  <2>3. slot'[s].pc = pc /\ slot'[s].id = r.id /\ slot'[s].n = r.n
    BY <1>1, <2>2 DEF SlotType
  <2>4. slot'[s].locked = locked
    BY <1>1, <2>2, Zenon DEF SlotType
  <2> QED BY <2>3, <2>4, Zenon DEF locked, pc
<1>5. ASSUME LoadStrikes(s)
      PROVE  /\ slot'[s].pc = "save_strikes" /\ slot'[s].id = r.id /\ slot'[s].n = r.n
             /\ slot'[s].strikes = strike[r.id].val + 1
  <2>1. slot'[s] = [r EXCEPT !.strikes = strike[r.id].val + 1, !.pc = "save_strikes"]
    BY <1>1, <1>5 DEF LoadStrikes
  <2> QED BY <1>1, <2>1 DEF SlotType
<1>6. ASSUME SaveStrikes(s)
      PROVE  /\ slot'[s].pc = "save_lock" /\ slot'[s].id = r.id /\ slot'[s].n = r.n
             /\ slot'[s].strikes = r.strikes
  <2>1. slot'[s] = [r EXCEPT !.since = now, !.pc = "save_lock"]
    BY <1>1, <1>6 DEF SaveStrikes
  <2> QED BY <1>1, <2>1 DEF SlotType
<1>7. ASSUME NEW pc, Goto(s, pc)
      PROVE  /\ slot'[s].pc = pc /\ slot'[s].id = r.id /\ slot'[s].ip = r.ip /\ slot'[s].n = r.n
             /\ slot'[s].locked = r.locked /\ slot'[s].strikes = r.strikes
  <2>1. slot'[s] = [r EXCEPT !.pc = pc]
    BY <1>1, <1>7 DEF Goto
  <2>2. slot'[s].locked = r.locked
    BY <1>1, <2>1, Zenon DEF SlotType
  <2>3. /\ slot'[s].pc = pc /\ slot'[s].id = r.id /\ slot'[s].ip = r.ip /\ slot'[s].n = r.n
        /\ slot'[s].strikes = r.strikes
    BY <1>1, <2>1 DEF SlotType
  <2> QED BY <2>2, <2>3
<1>8. ASSUME LoadStuffing(s)
      PROVE  /\ slot'[s].pc \in {"save_failures", "save_stuffing"}
             /\ slot'[s].id = r.id /\ slot'[s].ip = r.ip /\ slot'[s].n = r.n
             /\ slot'[s].locked = r.locked /\ slot'[s].strikes = r.strikes
             /\ slot'[s].pc = "save_stuffing" => slot'[s].ids = stuff[r.ip].val
  <2>1. CASE Goto(s, "save_failures")
    BY <1>7, <2>1
  <2>2. CASE slot' = [slot EXCEPT ![s].ids = stuff[r.ip].val, ![s].pc = "save_stuffing"]
    <3>1. slot'[s] = [r EXCEPT !.ids = stuff[r.ip].val, !.pc = "save_stuffing"]
      BY <1>1, <2>2
    <3>2. slot'[s].locked = r.locked
      BY <1>1, <3>1, Zenon DEF SlotType
    <3>3. /\ slot'[s].pc = "save_stuffing" /\ slot'[s].id = r.id /\ slot'[s].ip = r.ip
          /\ slot'[s].n = r.n /\ slot'[s].strikes = r.strikes /\ slot'[s].ids = stuff[r.ip].val
      BY <1>1, <3>1 DEF SlotType
    <3> QED BY <3>2, <3>3
  <2> QED BY <1>8, <2>1, <2>2 DEF LoadStuffing
<1>9. SaveFailures(s) \/ DeleteStrikes(s) => slot'[s].pc = "idle"
  BY <1>1 DEF SaveFailures, DeleteStrikes, Return, Idle
<1> QED BY <1>3, <1>4, <1>5, <1>6, <1>7, <1>8, <1>9 DEF SaveLock, SaveStuffing, DeleteFailures

-----------------------------------------------------------------------------
(***************************************************************************)
(* Requests that keep apart.  What the code promises of the counters, the  *)
(* locks and the lists holds as long as no two calls that record or clear  *)
(* the failures of one identity overlap, and no two that rewrite the list  *)
(* of one client: calls for different ones may.  With one slot, as in the  *)
(* sequential runs, they always keep apart.                                *)
(***************************************************************************)

Busy(w) == slot[w].pc \in RecordCalls \cup ClearCalls

CallsApart == \A v, w \in Slots : v # w /\ Busy(v) /\ Busy(w) => slot[v].id # slot[w].id

ListsApart ==
    \A v, w \in Slots :
      v # w /\ At(v, "save_stuffing") /\ At(w, "save_stuffing") => slot[v].ip # slot[w].ip

\* A call that is about to write for an identity has no rival.
LEMMA NoRival ==
    ASSUME CallsApart, NEW s \in Slots, Busy(s), NEW v \in Slots \ {s}, slot[v].pc \in Recording
    PROVE  slot[v].id # slot[s].id
<1>1. Busy(v)
  BY DEF Busy, Recording
<1> QED BY <1>1 DEF CallsApart

-----------------------------------------------------------------------------
(***************************************************************************)
(* Failures inside the window are counted.                                 *)
(***************************************************************************)

Miss == [at : Nat, locks : BOOLEAN]

\* At time t an identity's counter e counts every failure of its history m that
\* is inside the window, and does not expire before the window has passed it by.
Counted(m, e, t) ==
    \A j \in 1 .. Len(m) :
      /\ m[j].at <= t
      /\ t <= m[j].at + FailureWindow =>
           e.val >= Len(m) - j + 1 /\ e.exp >= m[j].at + FailureWindow

\* The request r counts the failure it records on top of those, and goes on to
\* save the count only below the threshold or with a lockout of its own.
Counting(r, m, t) ==
    /\ r.pc \in Recording =>
         /\ r.n \in Nat \ {0}
         /\ \A j \in 1 .. Len(m) : t <= m[j].at + FailureWindow => r.n >= Len(m) - j + 2
    /\ r.pc \in {"save_strikes", "save_lock"} => r.strikes > 0
    /\ r.pc \in {"load_stuffing", "save_stuffing", "save_failures"} =>
         (Crossing(r.n, r.locked) => r.strikes > 0)

CountingInv ==
    /\ misses \in [Ids -> Seq(Miss)]
    /\ \A i \in Ids : Len(misses[i]) <= Failures /\ Counted(misses[i], fail[i], now)
    /\ \A w \in Slots : Counting(slot[w], misses[slot[w].id], now)
    /\ FailuresLock

LEMMA MissTimes == \A m \in Seq(Miss) : \A j \in 1 .. Len(m) : m[j].at \in Nat
<1> SUFFICES ASSUME NEW m \in Seq(Miss), NEW j \in 1 .. Len(m) PROVE m[j].at \in Nat
    OBVIOUS
<1>1. m[j] \in Miss
  OBVIOUS
<1> QED BY <1>1, Zenon DEF Miss

\* The clock moves on.
LEMMA CountedLater ==
    ASSUME NEW m \in Seq(Miss), NEW e \in Counters, NEW t \in Nat, Counted(m, e, t)
    PROVE  Counted(m, IF t + 1 <= e.exp THEN e ELSE Absent(0), t + 1)
<1> DEFINE new == IF t + 1 <= e.exp THEN e ELSE Absent(0)
<1> SUFFICES ASSUME NEW j \in 1 .. Len(m)
             PROVE  /\ m[j].at <= t + 1
                    /\ t + 1 <= m[j].at + FailureWindow =>
                         new.val >= Len(m) - j + 1 /\ new.exp >= m[j].at + FailureWindow
    BY DEF Counted
<1>1. m[j].at \in Nat /\ e.exp \in Nat /\ e.val \in Nat /\ FailureWindow \in Nat
  BY LoginAssumption, MissTimes DEF Counters
<1>2. /\ m[j].at <= t
      /\ t <= m[j].at + FailureWindow =>
           e.val >= Len(m) - j + 1 /\ e.exp >= m[j].at + FailureWindow
  BY DEF Counted
<1>3. m[j].at <= t + 1
  BY <1>1, <1>2
<1>4. ASSUME t + 1 <= m[j].at + FailureWindow
      PROVE  new.val >= Len(m) - j + 1 /\ new.exp >= m[j].at + FailureWindow
  <2>1. e.val >= Len(m) - j + 1 /\ e.exp >= m[j].at + FailureWindow /\ t + 1 <= e.exp
    BY <1>1, <1>2, <1>4
  <2> QED BY <2>1
<1> QED BY <1>3, <1>4

LEMMA CountingLater ==
    ASSUME NEW r, NEW m \in Seq(Miss), NEW t \in Nat, Counting(r, m, t)
    PROVE  Counting(r, m, t + 1)
<1>1. \A j \in 1 .. Len(m) : m[j].at + FailureWindow \in Nat
  BY LoginAssumption, MissTimes
<1> QED BY <1>1 DEF Counting

\* What a call makes of the history when it saves its count.
Seen(m, r, t) == Append(m, [at |-> t, locks |-> r.strikes > 0])

Newest(m) == IF Len(m) > Failures THEN Tail(m) ELSE m

\* The count that a call saves, which expires FailureWindow later, keeps the
\* order: also where the failure met a lockout and is not in the history.
LEMMA CountedSaves ==
    ASSUME NEW r \in SlotType, NEW m \in Seq(Miss), NEW e \in Counters, NEW t \in Nat,
           Len(m) <= Failures, Counted(m, e, t), Counting(r, m, t), r.pc = "save_failures"
    PROVE  LET new == [val |-> r.n, exp |-> t + FailureWindow]
           IN  /\ Counted(m, new, t)
               /\ Newest(Seen(m, r, t)) \in Seq(Miss)
               /\ Len(Newest(Seen(m, r, t))) <= Failures
               /\ Counted(Newest(Seen(m, r, t)), new, t)
<1> DEFINE new == [val |-> r.n, exp |-> t + FailureWindow]
           last == [at |-> t, locks |-> r.strikes > 0]
           all == Append(m, last)
           L == Len(m)
<1>1. /\ r.n \in Nat \ {0} /\ L \in Nat /\ FailureWindow \in Nat /\ Failures \in Nat \ {0}
      /\ \A j \in 1 .. L : t <= m[j].at + FailureWindow => r.n >= L - j + 2
  BY LoginAssumption DEF Counting, Recording, RecordCalls
<1>2. \A j \in 1 .. L : m[j].at \in Nat /\ m[j].at <= t
  BY MissTimes DEF Counted
<1>3. Counted(m, new, t)
  BY <1>1, <1>2 DEF Counted
<1>4. last \in Miss
  BY DEF Miss
<1> HIDE DEF last
<1>5. /\ all \in Seq(Miss) /\ Len(all) = L + 1 /\ all[L + 1] = last
      /\ \A j \in 1 .. L : all[j] = m[j]
  BY <1>4
<1>6. last.at = t
  BY DEF last
<1> HIDE DEF all
<1>7. \A j \in 1 .. L + 1 :
        /\ all[j].at <= t
        /\ t <= all[j].at + FailureWindow => r.n >= (L + 1) - j + 1
  BY <1>1, <1>2, <1>5, <1>6
<1>8. \A j \in 1 .. L + 1 : all[j].at \in Nat
  BY <1>2, <1>5, <1>6
<1>9. CASE L + 1 <= Failures
  <2>1. Newest(all) = all
    BY <1>1, <1>5, <1>9 DEF Newest
  <2>2. Counted(all, new, t)
    BY <1>1, <1>5, <1>7, <1>8 DEF Counted
  <2> QED BY <1>3, <1>5, <1>9, <2>1, <2>2 DEF Seen, all, last
<1>10. CASE L = Failures
  <2> DEFINE rest == Tail(all)
  <2>1. Newest(all) = rest
    BY <1>1, <1>5, <1>10 DEF Newest
  <2>2. rest \in Seq(Miss) /\ Len(rest) = L /\ \A j \in 1 .. L : rest[j] = all[j + 1]
    BY <1>1, <1>5
  <2> HIDE DEF rest
  <2>3. Counted(rest, new, t)
    <3> SUFFICES ASSUME NEW j \in 1 .. L
                 PROVE  /\ rest[j].at <= t
                        /\ t <= rest[j].at + FailureWindow =>
                             r.n >= L - j + 1 /\ t + FailureWindow >= rest[j].at + FailureWindow
        BY <2>2 DEF Counted
    <3>1. j + 1 \in 1 .. L + 1 /\ rest[j] = all[j + 1]
      BY <1>1, <2>2
    <3>2. /\ all[j + 1].at \in Nat /\ all[j + 1].at <= t
          /\ t <= all[j + 1].at + FailureWindow => r.n >= (L + 1) - (j + 1) + 1
      BY <1>7, <1>8, <3>1
    <3> QED BY <1>1, <3>1, <3>2
  <2> QED BY <1>3, <1>10, <2>1, <2>2, <2>3 DEF Seen, all, last
<1> QED BY <1>1, <1>9, <1>10

\* Failures of them inside the window reach the threshold, so that a call that
\* brought no lockout about has not counted that many.
LEMMA SavesBelow ==
    ASSUME NEW r \in SlotType, NEW m \in Seq(Miss), NEW e \in Counters, NEW t \in Nat,
           Len(m) <= Failures, Counted(m, e, t), Counting(r, m, t), r.pc = "save_failures",
           ~r.locked, NEW new, new = Newest(Seen(m, r, t)),
           Len(new) = Failures, new[Failures].at - new[1].at <= FailureWindow
    PROVE  new[Failures].locks
<1> DEFINE last == [at |-> t, locks |-> r.strikes > 0]
           all == Append(m, last)
           L == Len(m)
<1>1. /\ r.n \in Nat \ {0} /\ L \in Nat /\ FailureWindow \in Nat /\ Failures \in Nat \ {0}
      /\ \A j \in 1 .. L : t <= m[j].at + FailureWindow => r.n >= L - j + 2
  BY LoginAssumption DEF Counting, Recording, RecordCalls
<1>2. last \in Miss /\ last.at = t /\ (r.strikes > 0 => last.locks)
  <2>1. last \in Miss /\ last.at = t
    BY DEF Miss
  <2>2. last.locks = (r.strikes > 0)
    BY Zenon
  <2> QED BY <2>1, <2>2, Zenon
<1> HIDE DEF last
<1>3. /\ all \in Seq(Miss) /\ Len(all) = L + 1 /\ all[L + 1] = last
      /\ \A j \in 1 .. L : all[j] = m[j] /\ m[j].at \in Nat
  BY <1>2, MissTimes
<1> HIDE DEF all
<1>4. new = Newest(all)
  BY DEF Seen, all, last
<1>5. CASE L + 1 <= Failures
  <2>1. new = all /\ L + 1 = Failures
    BY <1>1, <1>3, <1>4, <1>5 DEF Newest
  <2>2. new[Failures] = last
    BY <1>3, <2>1
  <2>3. r.n >= Failures
    <3>1. CASE L = 0
      BY <1>1, <2>1, <3>1
    <3>2. CASE L > 0
      <4>1. 1 \in 1 .. L /\ new[1] = m[1]
        BY <1>1, <1>3, <2>1, <3>2
      <4>2. t <= m[1].at + FailureWindow
        BY <1>1, <1>2, <1>3, <2>2, <4>1
      <4> QED BY <1>1, <2>1, <4>1, <4>2
    <3> QED BY <1>1, <3>1, <3>2
  <2>4. r.strikes > 0
    BY <2>3 DEF Counting, Crossing
  <2> QED BY <1>2, <2>2, <2>4
<1>6. CASE L = Failures
  <2>1. new = Tail(all)
    BY <1>1, <1>3, <1>4, <1>6 DEF Newest
  <2>2. \A j \in 1 .. L : new[j] = all[j + 1]
    BY <1>1, <1>3, <2>1
  <2>3. new[Failures] = last
    BY <1>1, <1>3, <1>6, <2>2
  <2>4. r.n >= Failures
    <3>1. CASE L = 1
      BY <1>1, <1>6, <3>1
    <3>2. CASE L > 1
      <4>1. 1 \in 1 .. L /\ 2 \in 1 .. L /\ new[1] = m[2]
        <5>1. 1 \in 1 .. L /\ 2 \in 1 .. L /\ 1 + 1 = 2
          BY <1>1, <3>2
        <5>2. new[1] = all[2]
          BY <2>2, <5>1
        <5> QED BY <1>3, <5>1, <5>2
      <4>2. t <= m[2].at + FailureWindow
        BY <1>1, <1>2, <1>3, <2>3, <4>1
      <4> QED BY <1>1, <1>6, <4>1, <4>2
    <3> QED BY <1>1, <1>6, <3>1, <3>2
  <2>5. r.strikes > 0
    BY <2>4 DEF Counting, Crossing
  <2> QED BY <1>2, <2>3, <2>5
<1> QED BY <1>1, <1>5, <1>6

LEMMA InitCounting == Init => CountingInv
<1> SUFFICES ASSUME Init PROVE CountingInv
    OBVIOUS
<1>1. misses \in [Ids -> Seq(Miss)] /\ \A i \in Ids : misses[i] = <<>>
  BY DEF Init
<1>2. \A w \in Slots : slot[w].pc = "idle"
  BY DEF Init, Idle
<1>3. ASSUME NEW w \in Slots PROVE Counting(slot[w], misses[slot[w].id], now)
  BY <1>2 DEF Counting, Recording, RecordCalls
<1>4. \A i \in Ids : Len(misses[i]) = 0
  BY <1>1
<1> QED BY <1>1, <1>3, <1>4, LoginAssumption DEF CountingInv, Counted, FailuresLock

\* A request that is not recording a failure counts nothing.
LEMMA NotCounting ==
    ASSUME NEW r, r.pc \notin Recording, NEW m, NEW t
    PROVE  Counting(r, m, t)
<1>1. {"save_strikes", "save_lock", "load_stuffing", "save_stuffing", "save_failures"}
        \subseteq Recording
  BY DEF Recording, RecordCalls
<1> QED BY <1>1 DEF Counting

\* A step of s that leaves the counters and their histories alone.
LEMMA CountingKept ==
    ASSUME IInv, CountingInv, NEW s \in Slots, Step(s), UNCHANGED <<now, fail, misses>>,
           Counting(slot'[s], misses[slot'[s].id], now)
    PROVE  CountingInv'
<1>1. ASSUME NEW w \in Slots PROVE Counting(slot'[w], misses[slot'[w].id], now)
  <2>1. CASE w = s
    BY <2>1
  <2>2. CASE w # s
    <3>1. slot'[w] = slot[w]
      BY <2>2, OthersKept
    <3> QED BY <3>1 DEF CountingInv
  <2> QED BY <2>1, <2>2
<1>2. FailuresLock'
  BY DEF CountingInv, FailuresLock
<1> QED BY <1>1, <1>2 DEF CountingInv

\* A step of s that writes the counter of its identity, and its history or not.
LEMMA CountingWrites ==
    ASSUME IInv, CountingInv, CallsApart, NEW s \in Slots, Step(s), Busy(s),
           NEW i \in Ids, slot[s].id = i, now' = now,
           NEW e, NEW m \in Seq(Miss), fail' = [fail EXCEPT ![i] = e], misses' = [misses EXCEPT ![i] = m],
           slot'[s].pc \notin Recording,
           Len(m) <= Failures, Counted(m, e, now),
           Len(m) = Failures /\ m[Failures].at - m[1].at <= FailureWindow => m[Failures].locks
    PROVE  CountingInv'
<1>1. fail \in [Ids -> Counters] /\ misses \in [Ids -> Seq(Miss)]
  BY Types DEF CountingInv
<1>2. /\ fail'[i] = e /\ misses'[i] = m
      /\ \A j \in Ids \ {i} : fail'[j] = fail[j] /\ misses'[j] = misses[j]
  BY <1>1
<1>3. misses' \in [Ids -> Seq(Miss)]
  BY <1>1
<1>4. ASSUME NEW j \in Ids PROVE Len(misses'[j]) <= Failures /\ Counted(misses'[j], fail'[j], now)
  BY <1>2 DEF CountingInv
<1>5. ASSUME NEW w \in Slots PROVE Counting(slot'[w], misses'[slot'[w].id], now)
  <2>1. CASE w = s
    BY <2>1, NotCounting
  <2>2. CASE w # s /\ slot[w].pc \notin Recording
    <3>1. slot'[w] = slot[w]
      BY <2>2, OthersKept
    <3> QED BY <2>2, <3>1, NotCounting
  <2>3. CASE w # s /\ slot[w].pc \in Recording
    <3>1. slot'[w] = slot[w] /\ slot[w].id # i
      BY <2>3, OthersKept, NoRival
    <3>2. slot[w].id \in Ids
      BY <2>3 DEF IInv, SlotsKnow, Knows, Recording
    <3>3. misses'[slot[w].id] = misses[slot[w].id]
      BY <1>2, <3>1, <3>2
    <3> QED BY <3>1, <3>3 DEF CountingInv
  <2> QED BY <2>1, <2>2, <2>3
<1>6. FailuresLock'
  <2> SUFFICES ASSUME NEW j \in Ids, Len(misses'[j]) = Failures,
                      misses'[j][Failures].at - misses'[j][1].at <= FailureWindow
               PROVE  misses'[j][Failures].locks
      BY DEF FailuresLock
  <2>1. CASE j = i
    BY <1>2, <2>1
  <2>2. CASE j # i
    <3>1. misses'[j] = misses[j]
      BY <1>2, <2>2
    <3> QED BY <3>1 DEF CountingInv, FailuresLock
  <2> QED BY <2>1, <2>2
<1> QED BY <1>3, <1>4, <1>5, <1>6 DEF CountingInv

LEMMA TickCounting == IInv /\ CountingInv /\ Tick => CountingInv'
<1> SUFFICES ASSUME IInv, CountingInv, Tick PROVE CountingInv'
    OBVIOUS
<1>1. /\ now \in Nat /\ now' = now + 1 /\ UNCHANGED <<slot, misses>>
      /\ fail \in [Ids -> Counters] /\ misses \in [Ids -> Seq(Miss)]
  BY Types DEF Tick, CountingInv
<1>2. ASSUME NEW i \in Ids PROVE Len(misses'[i]) <= Failures /\ Counted(misses'[i], fail'[i], now')
  <2> DEFINE m == misses[i]
             e == fail[i]
  <2>1. m \in Seq(Miss) /\ e \in Counters /\ Len(m) <= Failures /\ Counted(m, e, now)
    BY <1>1 DEF CountingInv
  <2>2. fail'[i] = IF now + 1 <= e.exp THEN e ELSE Absent(0)
    BY <1>1 DEF Tick, Aged
  <2>3. misses'[i] = m
    BY <1>1
  <2> HIDE DEF m, e
  <2>4. Counted(m, IF now + 1 <= e.exp THEN e ELSE Absent(0), now + 1)
    BY <1>1, <2>1, CountedLater
  <2> QED BY <1>1, <2>1, <2>2, <2>3, <2>4
<1>3. ASSUME NEW w \in Slots PROVE Counting(slot'[w], misses'[slot'[w].id], now')
  <2>1. CASE slot[w].pc \notin Recording
    BY <1>1, <2>1, NotCounting
  <2>2. CASE slot[w].pc \in Recording
    <3> DEFINE r == slot[w]
               m == misses[r.id]
    <3>1. r.id \in Ids
      BY <2>2 DEF IInv, SlotsKnow, Knows, Recording
    <3>2. m \in Seq(Miss) /\ Counting(r, m, now)
      BY <1>1, <3>1 DEF CountingInv
    <3>3. slot'[w] = r /\ misses'[r.id] = m
      BY <1>1
    <3> HIDE DEF r, m
    <3>4. Counting(r, m, now + 1)
      BY <1>1, <3>2, CountingLater
    <3> QED BY <1>1, <3>3, <3>4
  <2> QED BY <2>1, <2>2
<1>4. FailuresLock'
  BY <1>1 DEF CountingInv, FailuresLock
<1> QED BY <1>1, <1>2, <1>3, <1>4 DEF CountingInv

LEMMA StepCounting ==
    ASSUME IInv, CountingInv, CallsApart, NEW s \in Slots, Step(s)
    PROVE  CountingInv'
<1> DEFINE r == slot[s]
           i == r.id
           q == slot'[s]
<1>1. /\ r \in SlotType /\ now \in Nat /\ fail \in [Ids -> Counters]
      /\ misses \in [Ids -> Seq(Miss)] /\ Counting(r, misses[i], now)
  BY Types DEF CountingInv
<1>2. r.pc \in RecordCalls \cup ClearCalls => i \in Ids
  BY DEF IInv, SlotsKnow, Knows
<1>3. CASE Plain(s)
  <2>1. UNCHANGED <<now, fail, misses>> /\ q.pc \notin Recording
    BY <1>3, Zenon DEF Plain, entries
  <2> QED BY <2>1, NotCounting, CountingKept
<1>4. CASE LoadFailures(s)
  <2>1. /\ r.pc = "load_failures" /\ i \in Ids /\ UNCHANGED <<now, fail, misses>>
        /\ q.pc = "load_lock" /\ q.id = i /\ q.n = fail[i].val + 1
    BY <1>2, <1>4, OwnSlot DEF LoadFailures, At, RecordCalls, entries
  <2>2. Counting(q, misses[i], now)
    <3> DEFINE m == misses[i]
               v == fail[i].val
    <3>1. /\ Counted(m, fail[i], now) /\ m \in Seq(Miss) /\ v \in Nat
      BY <1>1, <2>1 DEF CountingInv, Counters
    <3>2. \A j \in 1 .. Len(m) : now <= m[j].at + FailureWindow => v >= Len(m) - j + 1
      BY <3>1 DEF Counted
    <3>3. \A j \in 1 .. Len(m) : now <= m[j].at + FailureWindow => v + 1 >= Len(m) - j + 2
      <4> HIDE DEF v, m
      <4> QED BY <3>1, <3>2
    <3>4. q.n = v + 1 /\ q.n \in Nat \ {0}
      BY <2>1, <3>1
    <3> HIDE DEF v, m
    <3> QED BY <2>1, <3>3, <3>4 DEF Counting, m
  <2> QED BY <2>1, <2>2, CountingKept
<1>5. ASSUME UNCHANGED <<now, fail, misses>>, r.pc \in Recording,
             q.id = i, q.n = r.n,
             q.pc \in {"save_strikes", "save_lock"} => q.strikes > 0,
             q.pc \in {"load_stuffing", "save_stuffing", "save_failures"} =>
               (Crossing(q.n, q.locked) => q.strikes > 0)
      PROVE  CountingInv'
  <2>1. Counting(q, misses[q.id], now)
    <3>1. /\ r.n \in Nat \ {0}
          /\ \A j \in 1 .. Len(misses[i]) :
               now <= misses[i][j].at + FailureWindow => r.n >= Len(misses[i]) - j + 2
      BY <1>1, <1>5 DEF Counting
    <3> QED BY <1>5, <3>1 DEF Counting
  <2> QED BY <1>5, <2>1, CountingKept
<1>6. CASE LoadLock(s)
  <2>1. /\ r.pc \in Recording /\ UNCHANGED <<now, fail, misses>>
        /\ q.id = i /\ q.n = r.n /\ q.locked = Locked(i)
        /\ q.pc = IF Crossing(r.n, Locked(i)) THEN "load_strikes" ELSE "load_stuffing"
    BY <1>6, OwnSlot DEF LoadLock, At, Recording, RecordCalls, entries
  <2>2. Crossing(q.n, q.locked) => q.pc = "load_strikes"
    BY <2>1, Zenon
  <2> QED BY <1>5, <2>1, <2>2
<1>7. CASE LoadStrikes(s)
  <2>1. /\ r.pc = "load_strikes" /\ i \in Ids /\ UNCHANGED <<now, fail, misses>>
        /\ q.id = i /\ q.n = r.n /\ q.pc = "save_strikes" /\ q.strikes = strike[i].val + 1
    BY <1>2, <1>7, OwnSlot DEF LoadStrikes, At, RecordCalls, entries
  <2>2. q.strikes > 0 /\ r.pc \in Recording
    BY <2>1, Types DEF Counters, Recording, RecordCalls
  <2> QED BY <1>5, <2>1, <2>2
<1>8. CASE SaveStrikes(s)
  <2>1. /\ r.pc = "save_strikes" /\ UNCHANGED <<now, fail, misses>>
        /\ q.id = i /\ q.n = r.n /\ q.pc = "save_lock" /\ q.strikes = r.strikes
    BY <1>8, OwnSlot DEF SaveStrikes, At
  <2>2. q.strikes > 0 /\ r.pc \in Recording
    BY <1>1, <2>1 DEF Counting, Recording, RecordCalls
  <2> QED BY <1>5, <2>1, <2>2
<1>9. CASE LoadStuffing(s) \/ SaveStuffing(s)
  <2>1. /\ r.pc \in {"load_stuffing", "save_stuffing"} /\ UNCHANGED <<now, fail, misses>>
        /\ q.pc \in {"save_stuffing", "save_failures"}
        /\ q.id = i /\ q.n = r.n /\ q.locked = r.locked /\ q.strikes = r.strikes
    BY <1>9, OwnSlot DEF LoadStuffing, SaveStuffing, At, entries
  <2>2. Crossing(r.n, r.locked) => r.strikes > 0
    BY <1>1, <2>1 DEF Counting
  <2>3. Crossing(q.n, q.locked) => q.strikes > 0
    BY <2>1, <2>2, Zenon
  <2>4. r.pc \in Recording
    BY <2>1 DEF Recording, RecordCalls
  <2> QED BY <1>5, <2>1, <2>3, <2>4
<1>11. CASE SaveFailures(s)
  <2> DEFINE m == misses[i]
             e == [val |-> r.n, exp |-> now + FailureWindow]
             new == Newest(Seen(m, r, now))
             h == IF r.locked THEN m ELSE new
  <2>1. r.pc = "save_failures" /\ i \in Ids /\ Busy(s)
    BY <1>2, <1>11 DEF SaveFailures, At, RecordCalls, Busy
  <2>2. now' = now /\ fail' = [fail EXCEPT ![i] = e] /\ misses' = [misses EXCEPT ![i] = h]
    BY <1>11 DEF SaveFailures, Entry, Newest, Seen
  <2>3. q.pc \notin Recording
    BY <1>11, OwnSlot DEF Recording, RecordCalls
  <2>4. m \in Seq(Miss) /\ fail[i] \in Counters /\ Len(m) <= Failures /\ Counted(m, fail[i], now)
    BY <1>1, <2>1 DEF CountingInv
  <2>5. Counting(r, m, now)
    BY <1>1
  <2>6. Len(m) = Failures /\ m[Failures].at - m[1].at <= FailureWindow => m[Failures].locks
    BY <2>1 DEF CountingInv, FailuresLock
  <2> HIDE DEF m, r
  <2>7. Counted(m, e, now) /\ new \in Seq(Miss) /\ Len(new) <= Failures /\ Counted(new, e, now)
    BY <1>1, <2>1, <2>4, <2>5, CountedSaves
  <2> HIDE DEF new, e
  <2>8. ASSUME ~r.locked
        PROVE  Len(new) = Failures /\ new[Failures].at - new[1].at <= FailureWindow
                 => new[Failures].locks
    BY <1>1, <2>1, <2>4, <2>5, <2>8, SavesBelow DEF new
  <2>9. /\ h \in Seq(Miss) /\ Len(h) <= Failures /\ Counted(h, e, now)
        /\ Len(h) = Failures /\ h[Failures].at - h[1].at <= FailureWindow => h[Failures].locks
    BY <2>4, <2>6, <2>7, <2>8
  <2> HIDE DEF h
  <2> QED BY <2>1, <2>2, <2>3, <2>9, CountingWrites DEF r
<1>12. CASE DeleteFailures(s)
  <2>1. r.pc = "delete_failures" /\ i \in Ids /\ Busy(s)
    BY <1>2, <1>12 DEF DeleteFailures, At, ClearCalls, Busy
  <2>2. now' = now /\ fail' = [fail EXCEPT ![i] = Absent(0)] /\ misses' = [misses EXCEPT ![i] = <<>>]
    BY <1>12 DEF DeleteFailures
  <2>3. q.pc \notin Recording
    BY <1>12, OwnSlot DEF Recording, RecordCalls
  <2> DEFINE m == <<>>
  <2>4. m \in Seq(Miss) /\ Len(m) = 0 /\ Len(m) <= Failures /\ Len(m) # Failures
    BY LoginAssumption
  <2>5. Counted(m, Absent(0), now)
    BY <2>4 DEF Counted
  <2>6. misses' = [misses EXCEPT ![i] = m]
    BY <2>2
  <2> HIDE DEF m
  <2> QED BY <2>1, <2>2, <2>3, <2>4, <2>5, <2>6, CountingWrites
<1>13. CASE SaveLock(s)
  <2>1. /\ r.pc = "save_lock" /\ UNCHANGED <<now, fail, misses>>
        /\ q.id = i /\ q.n = r.n /\ q.strikes = r.strikes
    BY <1>13, OwnSlot DEF SaveLock, At
  <2>2. q.pc = "load_stuffing" /\ q.strikes > 0 /\ r.pc \in Recording
    BY <1>1, <1>13, <2>1, OwnSlot DEF Counting, Recording, RecordCalls
  <2> QED BY <1>5, <2>1, <2>2
<1>14. CASE DeleteStrikes(s)
  <2>1. q.pc \notin Recording /\ UNCHANGED <<now, fail, misses>>
    BY <1>14, OwnSlot DEF DeleteStrikes, Recording, RecordCalls
  <2> QED BY <2>1, NotCounting, CountingKept
<1> QED BY <1>3, <1>4, <1>6, <1>7, <1>8, <1>9, <1>11, <1>12, <1>13, <1>14, StepCases

LEMMA NextCounting == IInv /\ CountingInv /\ CallsApart /\ [Next]_vars => CountingInv'
<1> SUFFICES ASSUME IInv, CountingInv, CallsApart, [Next]_vars PROVE CountingInv'
    OBVIOUS
<1>1. CASE UNCHANGED vars
  BY <1>1 DEF vars, CountingInv, FailuresLock
<1> QED BY <1>1, TickCounting, StepCounting DEF Next

\* "locks the identity out once Failures attempts fail inside FailureWindow": so it
\* does for any limits, errors of the store and requests for other identities,
\* wherever no two calls for one identity overlap.
THEOREM LoginFailuresLock == Spec /\ []CallsApart => []FailuresLock
<1>1. Spec => []IInv
  BY InitIInv, NextIInv, PTL DEF Spec
<1>2. Spec /\ []CallsApart => []CountingInv
  BY <1>1, InitCounting, NextCounting, PTL DEF Spec
<1>3. CountingInv => FailuresLock
  BY DEF CountingInv
<1> QED BY <1>2, <1>3, PTL

-----------------------------------------------------------------------------
(***************************************************************************)
(* A lockout runs on its own timer.                                        *)
(***************************************************************************)

\* The request r is about to lock out an identity that is not locked at time t,
\* l being its lock.
Locking(r, l, t) == r.pc \in {"load_strikes", "save_strikes", "save_lock"} => l.val <= t

LockingInv ==
    /\ \A i \in Ids : lock[i].val <= lock[i].exp
    /\ \A w \in Slots : Locking(slot[w], lock[slot[w].id], now)

LEMMA InitLocking == Init => LockingInv
<1> SUFFICES ASSUME Init PROVE LockingInv
    OBVIOUS
<1>1. \A w \in Slots : slot[w].pc = "idle"
  BY DEF Init, Idle
<1>2. \A i \in Ids : lock[i].val <= lock[i].exp
  BY DEF Init, Absent
<1> QED BY <1>1, <1>2 DEF LockingInv, Locking

\* A request that is not recording a failure is not locking.
LEMMA NotLocking ==
    ASSUME NEW r, r.pc \notin Recording, NEW l, NEW t
    PROVE  Locking(r, l, t)
  BY DEF Locking, Recording, RecordCalls

\* A step of s that leaves the locks alone.
LEMMA LockingKept ==
    ASSUME IInv, LockingInv, NEW s \in Slots, Step(s), UNCHANGED <<now, lock>>,
           Locking(slot'[s], lock[slot'[s].id], now)
    PROVE  LockingInv'
<1>1. ASSUME NEW w \in Slots PROVE Locking(slot'[w], lock[slot'[w].id], now)
  <2>1. CASE w = s
    BY <2>1
  <2>2. CASE w # s
    <3>1. slot'[w] = slot[w]
      BY <2>2, OthersKept
    <3> QED BY <3>1 DEF LockingInv
  <2> QED BY <2>1, <2>2
<1> QED BY <1>1 DEF LockingInv

LEMMA TickLocking == IInv /\ LockingInv /\ Tick => LockingInv'
<1> SUFFICES ASSUME IInv, LockingInv, Tick PROVE LockingInv'
    OBVIOUS
<1>1. /\ now \in Nat /\ now' = now + 1 /\ slot' = slot
      /\ lock \in [Ids -> Counters] /\ slot \in [Slots -> SlotType]
  BY Types DEF Tick
<1>2. ASSUME NEW i \in Ids
      PROVE  lock'[i].val \in Nat /\ lock'[i].val <= lock[i].val /\ lock'[i].val <= lock'[i].exp
  <2>1. /\ lock[i].val <= lock[i].exp
        /\ lock'[i] = IF now + 1 <= lock[i].exp THEN lock[i] ELSE Absent(0)
    BY <1>1 DEF LockingInv, Tick, Aged
  <2>2. lock[i].val \in Nat /\ lock[i].exp \in Nat
    BY <1>1 DEF Counters
  <2>3. CASE now + 1 <= lock[i].exp
    BY <2>1, <2>2, <2>3
  <2>4. CASE ~(now + 1 <= lock[i].exp)
    BY <2>1, <2>2, <2>4 DEF Absent
  <2> QED BY <2>3, <2>4
<1>3. ASSUME NEW w \in Slots PROVE Locking(slot[w], lock'[slot[w].id], now + 1)
  <2>1. CASE slot[w].pc \notin Recording
    BY <2>1, NotLocking
  <2>2. CASE slot[w].pc \in Recording
    <3>1. slot[w].id \in Ids
      BY <2>2 DEF IInv, SlotsKnow, Knows, Recording
    <3>2. Locking(slot[w], lock[slot[w].id], now) /\ lock[slot[w].id].val \in Nat
      BY <1>1, <3>1 DEF LockingInv, Counters
    <3> QED BY <1>1, <1>2, <3>1, <3>2 DEF Locking
  <2> QED BY <2>1, <2>2
<1> QED BY <1>1, <1>2, <1>3 DEF LockingInv

\* Where a lock changes, it was over.
LEMMA StepLocking ==
    ASSUME IInv, LockingInv, CallsApart, NEW s \in Slots, Step(s)
    PROVE  /\ LockingInv'
           /\ now' = now
           /\ \A i \in Ids : lock'[i] = lock[i] \/ lock[i].val <= now
<1> DEFINE r == slot[s]
           i == r.id
           q == slot'[s]
<1>1. /\ r \in SlotType /\ now \in Nat /\ lock \in [Ids -> Counters]
      /\ Locking(r, lock[i], now)
  BY Types DEF LockingInv
<1>2. r.pc \in RecordCalls \cup ClearCalls => i \in Ids
  BY DEF IInv, SlotsKnow, Knows
<1>3. ASSUME UNCHANGED <<now, lock>>, Locking(q, lock[q.id], now)
      PROVE  /\ LockingInv'
             /\ now' = now
             /\ \A j \in Ids : lock'[j] = lock[j] \/ lock[j].val <= now
  BY <1>3, LockingKept
<1>4. ASSUME UNCHANGED <<now, lock>>, q.pc \notin {"load_strikes", "save_strikes", "save_lock"}
      PROVE  UNCHANGED <<now, lock>> /\ Locking(q, lock[q.id], now)
  BY <1>4 DEF Locking
<1>5. CASE Plain(s)
  <2>1. UNCHANGED <<now, lock>> /\ q.pc \notin Recording
    BY <1>5, Zenon DEF Plain, entries
  <2> QED BY <1>3, <2>1, NotLocking
<1>6. CASE LoadFailures(s) \/ LoadStuffing(s) \/ SaveStuffing(s) \/ SaveFailures(s)
           \/ DeleteFailures(s) \/ DeleteStrikes(s)
  <2>1. UNCHANGED <<now, lock>>
    BY <1>6 DEF LoadFailures, LoadStuffing, SaveStuffing, SaveFailures, DeleteFailures, DeleteStrikes,
       entries
  <2>2. q.pc \notin {"load_strikes", "save_strikes", "save_lock"}
    BY <1>6, OwnSlot
  <2> QED BY <1>3, <1>4, <2>1, <2>2
<1>7. CASE LoadLock(s)
  <2>1. /\ UNCHANGED <<now, lock>> /\ i \in Ids /\ q.id = i
        /\ q.pc = IF Crossing(r.n, Locked(i)) THEN "load_strikes" ELSE "load_stuffing"
    BY <1>2, <1>7, OwnSlot DEF LoadLock, At, RecordCalls, entries
  <2>2. CASE Crossing(r.n, Locked(i))
    <3>1. lock[i].val <= now
      BY <1>1, <2>1, <2>2 DEF Crossing, Locked, Counters
    <3> QED BY <1>3, <2>1, <2>2, <3>1 DEF Locking
  <2>3. CASE ~Crossing(r.n, Locked(i))
    BY <1>3, <1>4, <2>1, <2>3
  <2> QED BY <2>2, <2>3
<1>8. CASE LoadStrikes(s)
  <2>1. UNCHANGED <<now, lock>> /\ r.pc = "load_strikes" /\ q.id = i /\ q.pc = "save_strikes"
    BY <1>8, OwnSlot DEF LoadStrikes, At, entries
  <2> QED BY <1>1, <1>3, <2>1 DEF Locking
<1>9. CASE SaveStrikes(s)
  <2>1. /\ UNCHANGED <<now, lock>> /\ r.pc = "save_strikes" /\ q.id = i /\ q.pc = "save_lock"
    BY <1>9, OwnSlot DEF SaveStrikes, At
  <2> QED BY <1>1, <1>3, <2>1 DEF Locking
<1>10. CASE SaveLock(s)
  <2> DEFINE d == lockFor(r.strikes)
  <2>1. r.pc = "save_lock" /\ i \in Ids /\ now' = now
    BY <1>2, <1>10 DEF SaveLock, At, RecordCalls
  <2>2. lock[i].val <= now
    BY <1>1, <2>1 DEF Locking
  <2>3. PICK new : new.val <= new.exp /\ lock' = [lock EXCEPT ![i] = new]
    <3>1. PICK end \in Nat : end <= now + d /\ lock' = [lock EXCEPT ![i] = Entry(end, d)]
      BY <1>10, LockSaved
    <3>2. Entry(end, d).val <= Entry(end, d).exp
      BY <3>1 DEF Entry
    <3> QED BY <3>1, <3>2
  <2>4. lock'[i] = new /\ \A j \in Ids \ {i} : lock'[j] = lock[j]
    BY <1>1, <2>1, <2>3
  <2>5. \A j \in Ids : lock'[j].val <= lock'[j].exp
    BY <2>3, <2>4 DEF LockingInv
  <2>6. q.pc \notin Recording \/ q.pc = "load_stuffing"
    BY <1>10, OwnSlot
  <2>7. ASSUME NEW w \in Slots PROVE Locking(slot'[w], lock'[slot'[w].id], now)
    <3>1. CASE w = s
      BY <2>6, <3>1 DEF Locking, Recording, RecordCalls
    <3>2. CASE w # s /\ slot[w].pc \notin Recording
      <4>1. slot'[w] = slot[w]
        BY <3>2, OthersKept
      <4> QED BY <3>2, <4>1, NotLocking
    <3>3. CASE w # s /\ slot[w].pc \in Recording
      <4>1. Busy(s) /\ slot'[w] = slot[w]
        BY <2>1, <3>3, OthersKept DEF Busy, RecordCalls
      <4>2. slot[w].id # i /\ slot[w].id \in Ids
        BY <3>3, <4>1, NoRival DEF IInv, SlotsKnow, Knows, Recording
      <4>3. lock'[slot[w].id] = lock[slot[w].id]
        BY <2>4, <4>2
      <4> QED BY <4>1, <4>3 DEF LockingInv
    <3> QED BY <3>1, <3>2, <3>3
  <2>8. LockingInv'
    BY <2>1, <2>5, <2>7 DEF LockingInv
  <2> QED BY <2>1, <2>2, <2>4, <2>8
<1> QED BY <1>5, <1>6, <1>7, <1>8, <1>9, <1>10, StepCases

LEMMA NextLocking == IInv /\ LockingInv /\ CallsApart /\ [Next]_vars => LockingInv'
<1> SUFFICES ASSUME IInv, LockingInv, CallsApart, [Next]_vars PROVE LockingInv'
    OBVIOUS
<1>1. CASE UNCHANGED vars
  BY <1>1 DEF vars, LockingInv
<1> QED BY <1>1, TickLocking, StepLocking DEF Next

\* The entry that holds the end of a lockout lives to see it.
LEMMA LockStays ==
    ASSUME IInv, LockingInv, CallsApart, [Next]_vars
    PROVE  [\A i \in Ids : now' < lock[i].val => lock'[i].val = lock[i].val]_vars
<1> SUFFICES ASSUME Next, NEW i \in Ids, now' < lock[i].val PROVE lock'[i].val = lock[i].val
    OBVIOUS
<1>1. now \in Nat /\ lock[i] \in Counters /\ lock[i].val \in Nat /\ lock[i].exp \in Nat
  BY Types DEF Counters
<1>2. CASE Tick
  <2>1. now' = now + 1 /\ lock'[i] = IF now + 1 <= lock[i].exp THEN lock[i] ELSE Absent(0)
    BY <1>2, Types DEF Tick, Aged
  <2>2. now + 1 <= lock[i].exp
    BY <1>1, <2>1 DEF LockingInv
  <2> QED BY <2>1, <2>2
<1>3. ASSUME NEW s \in Slots, Step(s) PROVE lock'[i] = lock[i]
  BY <1>1, <1>3, StepLocking
<1> QED BY <1>2, <1>3 DEF Next

\* "A lockout runs on its own timer": no call ends it, shortens it or prolongs it,
\* whatever the limits and the store's errors, wherever no two calls for one
\* identity overlap.
THEOREM LoginLockIsFixed == Spec /\ []CallsApart => LockIsFixed
<1>1. Spec => []IInv
  BY InitIInv, NextIInv, PTL DEF Spec
<1>2. Spec /\ []CallsApart => []LockingInv
  BY <1>1, InitLocking, NextLocking, PTL DEF Spec
<1> QED BY <1>1, <1>2, LockStays, PTL DEF Spec, LockIsFixed

-----------------------------------------------------------------------------
(***************************************************************************)
(* Escalation.                                                             *)
(***************************************************************************)

Episode == [dur : Nat, remembered : Nat]

\* The last lockout p of an identity was of one of the first n episodes.
Among(p, n) == \E k \in 1 .. n : p.dur = lockFor(k)

\* At time t the strikes e of an identity are those that its last lockout p was
\* saved with, or more of them, and expire no earlier.
Striking(p, e, t) ==
    /\ t <= p.remembered => Among(p, e.val) /\ p.remembered <= e.exp
    /\ e.exp <= t + BackoffWindow
    /\ p.remembered <= t + BackoffWindow

\* The strikes of the request r, e being those in the store, are more than those
\* of the last lockout.
Escalating(r, p, e, t) ==
    /\ r.pc \in {"save_strikes", "save_lock"} /\ t <= p.remembered => Among(p, r.strikes - 1)
    /\ r.pc = "save_lock" /\ t <= e.exp => e.val >= r.strikes

EscalatingInv ==
    /\ now > 0
    /\ episode \in [Ids -> Episode]
    /\ \A i \in Ids : Striking(episode[i], strike[i], now)
    /\ \A w \in Slots : Escalating(slot[w], episode[slot[w].id], strike[slot[w].id], now)

LEMMA InitEscalating == Init => EscalatingInv
<1> SUFFICES ASSUME Init PROVE EscalatingInv
    OBVIOUS
<1>1. now > 0 /\ now \in Nat /\ BackoffWindow \in Nat
  BY LoginAssumption DEF Init
<1>2. \A w \in Slots : slot[w].pc = "idle"
  BY DEF Init, Idle
<1>3. /\ episode \in [Ids -> Episode]
      /\ \A i \in Ids : episode[i].remembered = 0 /\ strike[i].exp = 0
  BY DEF Init, NoEpisode, Episode, Absent
<1>4. \A i \in Ids : Striking(episode[i], strike[i], now)
  BY <1>1, <1>3 DEF Striking
<1>5. \A w \in Slots : Escalating(slot[w], episode[slot[w].id], strike[slot[w].id], now)
  BY <1>2 DEF Escalating
<1> QED BY <1>1, <1>3, <1>4, <1>5 DEF EscalatingInv

\* A request that is not recording a failure is not escalating.
LEMMA NotEscalating ==
    ASSUME NEW r, r.pc \notin Recording, NEW p, NEW e, NEW t
    PROVE  Escalating(r, p, e, t)
  BY DEF Escalating, Recording, RecordCalls

LEMMA AmongMore ==
    ASSUME NEW p, NEW n \in Nat, NEW m \in Nat, n <= m, Among(p, n)
    PROVE  Among(p, m)
  BY DEF Among

\* A step of s that leaves the strikes and the episodes alone.
LEMMA EscalatingKept ==
    ASSUME IInv, EscalatingInv, NEW s \in Slots, Step(s), UNCHANGED <<now, strike, episode>>,
           Escalating(slot'[s], episode[slot'[s].id], strike[slot'[s].id], now)
    PROVE  EscalatingInv'
<1>1. ASSUME NEW w \in Slots
      PROVE  Escalating(slot'[w], episode[slot'[w].id], strike[slot'[w].id], now)
  <2>1. CASE w = s
    BY <2>1
  <2>2. CASE w # s
    <3>1. slot'[w] = slot[w]
      BY <2>2, OthersKept
    <3> QED BY <3>1 DEF EscalatingInv
  <2> QED BY <2>1, <2>2
<1> QED BY <1>1 DEF EscalatingInv

\* A step of s that writes the strikes of its identity, its episode, or both.
LEMMA EscalatingWrites ==
    ASSUME IInv, EscalatingInv, CallsApart, NEW s \in Slots, Step(s), Busy(s),
           NEW i \in Ids, slot[s].id = i, now' = now, slot'[s].id = i \/ slot'[s].pc \notin Recording,
           NEW e, NEW p \in Episode, strike' = [strike EXCEPT ![i] = e], episode' = [episode EXCEPT ![i] = p],
           Striking(p, e, now), Escalating(slot'[s], p, e, now)
    PROVE  EscalatingInv'
<1>1. strike \in [Ids -> Counters] /\ episode \in [Ids -> Episode]
  BY Types DEF EscalatingInv
<1>2. /\ strike'[i] = e /\ episode'[i] = p
      /\ \A j \in Ids \ {i} : strike'[j] = strike[j] /\ episode'[j] = episode[j]
  BY <1>1
<1>3. episode' \in [Ids -> Episode]
  BY <1>1
<1>4. ASSUME NEW j \in Ids PROVE Striking(episode'[j], strike'[j], now)
  BY <1>2 DEF EscalatingInv
<1>5. ASSUME NEW w \in Slots
      PROVE  Escalating(slot'[w], episode'[slot'[w].id], strike'[slot'[w].id], now)
  <2>1. CASE w = s
    BY <1>2, <2>1, NotEscalating
  <2>2. CASE w # s /\ slot[w].pc \notin Recording
    <3>1. slot'[w] = slot[w]
      BY <2>2, OthersKept
    <3> QED BY <2>2, <3>1, NotEscalating
  <2>3. CASE w # s /\ slot[w].pc \in Recording
    <3>1. slot'[w] = slot[w] /\ slot[w].id # i
      BY <2>3, OthersKept, NoRival
    <3>2. slot[w].id \in Ids
      BY <2>3 DEF IInv, SlotsKnow, Knows, Recording
    <3>3. strike'[slot[w].id] = strike[slot[w].id] /\ episode'[slot[w].id] = episode[slot[w].id]
      BY <1>2, <3>1, <3>2
    <3> QED BY <3>1, <3>3 DEF EscalatingInv
  <2> QED BY <2>1, <2>2, <2>3
<1> QED BY <1>3, <1>4, <1>5 DEF EscalatingInv

LEMMA TickEscalating == IInv /\ EscalatingInv /\ Tick => EscalatingInv'
<1> SUFFICES ASSUME IInv, EscalatingInv, Tick PROVE EscalatingInv'
    OBVIOUS
<1>1. /\ now \in Nat /\ now > 0 /\ now' = now + 1 /\ UNCHANGED <<slot, episode>>
      /\ strike \in [Ids -> Counters] /\ episode \in [Ids -> Episode] /\ BackoffWindow \in Nat
  BY Types, LoginAssumption DEF Tick, EscalatingInv
<1>2. ASSUME NEW i \in Ids
      PROVE  /\ strike'[i].exp \in Nat /\ strike[i].exp \in Nat
             /\ strike'[i] = strike[i] \/ strike'[i].exp = 0
             /\ now + 1 <= strike[i].exp => strike'[i] = strike[i]
  <2>1. strike[i].exp \in Nat
    BY <1>1 DEF Counters
  <2>2. strike'[i] = IF now + 1 <= strike[i].exp THEN strike[i] ELSE Absent(0)
    BY <1>1 DEF Tick, Aged
  <2> QED BY <2>1, <2>2 DEF Absent
<1>3. \A i \in Ids : episode[i].remembered \in Nat
  BY <1>1 DEF Episode
<1>4. ASSUME NEW i \in Ids PROVE Striking(episode[i], strike'[i], now + 1)
  <2>1. Striking(episode[i], strike[i], now)
    BY DEF EscalatingInv
  <2>2. ASSUME now + 1 <= episode[i].remembered
        PROVE  Among(episode[i], strike'[i].val) /\ episode[i].remembered <= strike'[i].exp
    <3>1. Among(episode[i], strike[i].val) /\ episode[i].remembered <= strike[i].exp
      BY <1>1, <1>3, <2>1, <2>2 DEF Striking
    <3>2. strike'[i] = strike[i]
      BY <1>1, <1>2, <1>3, <2>2, <3>1
    <3> QED BY <3>1, <3>2
  <2>3. strike'[i].exp <= now + 1 + BackoffWindow /\ episode[i].remembered <= now + 1 + BackoffWindow
    BY <1>1, <1>2, <1>3, <2>1 DEF Striking
  <2> QED BY <2>2, <2>3 DEF Striking
<1>5. ASSUME NEW w \in Slots
      PROVE  Escalating(slot[w], episode[slot[w].id], strike'[slot[w].id], now + 1)
  <2>1. CASE slot[w].pc \notin Recording
    BY <2>1, NotEscalating
  <2>2. CASE slot[w].pc \in Recording
    <3>1. slot[w].id \in Ids
      BY <2>2 DEF IInv, SlotsKnow, Knows, Recording
    <3>2. Escalating(slot[w], episode[slot[w].id], strike[slot[w].id], now)
      BY DEF EscalatingInv
    <3>3. now + 1 <= episode[slot[w].id].remembered => now <= episode[slot[w].id].remembered
      BY <1>1, <1>3, <3>1
    <3>4. now + 1 <= strike'[slot[w].id].exp =>
            now <= strike[slot[w].id].exp /\ strike'[slot[w].id] = strike[slot[w].id]
      BY <1>1, <1>2, <3>1
    <3> QED BY <3>2, <3>3, <3>4 DEF Escalating
  <2> QED BY <2>1, <2>2
<1> QED BY <1>1, <1>4, <1>5 DEF EscalatingInv

\* Where a call saves a lockout, its strikes are more than those of the last one.
LEMMA StepEscalating ==
    ASSUME IInv, CountingInv, EscalatingInv, CallsApart, NEW s \in Slots, Step(s)
    PROVE  EscalatingInv'
<1> DEFINE r == slot[s]
           i == r.id
           q == slot'[s]
<1>1. /\ r \in SlotType /\ now \in Nat /\ now > 0 /\ BackoffWindow \in Nat
      /\ strike \in [Ids -> Counters] /\ episode \in [Ids -> Episode]
      /\ Escalating(r, episode[i], strike[i], now)
  BY Types, LoginAssumption DEF EscalatingInv
<1>2. r.pc \in RecordCalls \cup ClearCalls => i \in Ids
  BY DEF IInv, SlotsKnow, Knows
<1>3. CASE Plain(s)
  <2>1. UNCHANGED <<now, strike, episode>> /\ q.pc \notin Recording
    BY <1>3, Zenon DEF Plain, entries
  <2> QED BY <2>1, NotEscalating, EscalatingKept
<1>4. CASE LoadFailures(s) \/ LoadLock(s) \/ LoadStuffing(s) \/ SaveStuffing(s) \/ SaveFailures(s)
           \/ DeleteFailures(s)
  <2>1. UNCHANGED <<now, strike, episode>>
    BY <1>4 DEF LoadFailures, LoadLock, LoadStuffing, SaveStuffing, SaveFailures, DeleteFailures, entries
  <2>2. q.pc \notin {"save_strikes", "save_lock"}
    BY <1>4, OwnSlot
  <2>3. Escalating(q, episode[q.id], strike[q.id], now)
    BY <2>2 DEF Escalating
  <2> QED BY <2>1, <2>3, EscalatingKept
<1>5. CASE LoadStrikes(s)
  <2>1. /\ UNCHANGED <<now, strike, episode>> /\ i \in Ids
        /\ q.pc = "save_strikes" /\ q.id = i /\ q.strikes = strike[i].val + 1
    BY <1>2, <1>5, OwnSlot DEF LoadStrikes, At, RecordCalls, entries
  <2>2. Striking(episode[i], strike[i], now) /\ strike[i].val \in Nat
    BY <1>1, <2>1 DEF EscalatingInv, Counters
  <2>3. q.strikes - 1 = strike[i].val
    BY <2>1, <2>2
  <2>4. Escalating(q, episode[i], strike[i], now)
    BY <2>1, <2>2, <2>3 DEF Escalating, Striking
  <2> QED BY <2>1, <2>4, EscalatingKept
<1>6. CASE SaveStrikes(s)
  <2> DEFINE e == Entry(r.strikes, BackoffWindow)
             p == episode[i]
  <2>1. /\ r.pc = "save_strikes" /\ i \in Ids /\ Busy(s) /\ now' = now
        /\ strike' = [strike EXCEPT ![i] = e] /\ UNCHANGED episode
    BY <1>2, <1>6 DEF SaveStrikes, At, RecordCalls, Busy
  <2>2. p \in Episode /\ episode' = [episode EXCEPT ![i] = p]
    BY <1>1, <2>1
  <2>3. q.pc = "save_lock" /\ q.id = i /\ q.strikes = r.strikes
    BY <1>6, OwnSlot
  <2>4. r.strikes \in Nat /\ r.strikes > 0 /\ p.remembered \in Nat
    BY <1>1, <2>1, <2>2 DEF CountingInv, Counting, SlotType, Episode
  <2>5. e.val = r.strikes /\ e.exp = now + BackoffWindow
    BY DEF Entry
  <2>6. now <= p.remembered => Among(p, r.strikes - 1)
    BY <1>1, <2>1 DEF Escalating
  <2>7. now <= p.remembered => Among(p, r.strikes)
    BY <2>4, <2>6, AmongMore
  <2>8. p.remembered <= now + BackoffWindow
    BY <2>1 DEF EscalatingInv, Striking
  <2> HIDE DEF e, p
  <2>9. Striking(p, e, now)
    BY <1>1, <2>5, <2>7, <2>8 DEF Striking
  <2>10. Escalating(q, p, e, now)
    BY <2>3, <2>4, <2>5, <2>6 DEF Escalating
  <2> QED BY <2>1, <2>2, <2>3, <2>9, <2>10, EscalatingWrites
<1>7. CASE SaveLock(s)
  <2> DEFINE e == strike[i]
             p == [dur |-> lockFor(r.strikes), remembered |-> e.exp]
  <2>1. /\ r.pc = "save_lock" /\ i \in Ids /\ Busy(s) /\ now' = now
        /\ episode' = [episode EXCEPT ![i] = p] /\ UNCHANGED strike
    BY <1>2, <1>7 DEF SaveLock, At, RecordCalls, Busy
  <2>2. e \in Counters /\ strike' = [strike EXCEPT ![i] = e]
    BY <1>1, <2>1
  <2>3. q.pc = "load_stuffing" /\ q.id = i
    BY <1>7, OwnSlot
  <2>4. r.strikes \in Nat /\ r.strikes > 0 /\ e.exp \in Nat /\ e.val \in Nat
    BY <1>1, <2>1, <2>2 DEF CountingInv, Counting, SlotType, Counters
  <2>5. p \in Episode
    BY <2>4, LockForCapped, LoginAssumption DEF Episode
  <2>6. p.dur = lockFor(r.strikes) /\ p.remembered = e.exp
    OBVIOUS
  <2>7. now <= e.exp => e.val >= r.strikes
    BY <1>1, <2>1 DEF Escalating
  <2>8. e.exp <= now + BackoffWindow
    BY <2>1 DEF EscalatingInv, Striking
  <2> HIDE DEF e, p
  <2>9. Among(p, r.strikes)
    BY <2>4, <2>6 DEF Among
  <2>10. Striking(p, e, now)
    BY <1>1, <2>4, <2>6, <2>7, <2>8, <2>9, AmongMore DEF Striking
  <2>11. Escalating(q, p, e, now)
    BY <2>3 DEF Escalating
  <2> QED BY <2>1, <2>2, <2>3, <2>5, <2>10, <2>11, EscalatingWrites
<1>8. CASE DeleteStrikes(s)
  <2> DEFINE e == Absent(0)
             p == NoEpisode
  <2>1. /\ r.pc = "delete_strikes" /\ i \in Ids /\ Busy(s) /\ now' = now
        /\ episode' = [episode EXCEPT ![i] = p] /\ strike' = [strike EXCEPT ![i] = e]
    BY <1>2, <1>8 DEF DeleteStrikes, At, ClearCalls, Busy
  <2>2. q.pc \notin Recording
    BY <1>8, OwnSlot DEF Recording, RecordCalls
  <2>3. p \in Episode /\ p.remembered = 0 /\ e.exp = 0
    BY DEF NoEpisode, Episode, Absent
  <2>4. Striking(p, e, now)
    BY <1>1, <2>3 DEF Striking
  <2> HIDE DEF e, p
  <2> QED BY <2>1, <2>2, <2>3, <2>4, NotEscalating, EscalatingWrites
<1> QED BY <1>3, <1>4, <1>5, <1>6, <1>7, <1>8, StepCases

LEMMA NextEscalating ==
    IInv /\ CountingInv /\ EscalatingInv /\ CallsApart /\ [Next]_vars => EscalatingInv'
<1> SUFFICES ASSUME IInv, CountingInv, EscalatingInv, CallsApart, [Next]_vars PROVE EscalatingInv'
    OBVIOUS
<1>1. CASE UNCHANGED vars
  BY <1>1 DEF vars, EscalatingInv
<1> QED BY <1>1, TickEscalating, StepEscalating DEF Next

\* An episode changes where a call saves its lockout or clears the strikes.
LEMMA EpisodesEscalate ==
    ASSUME IInv, CountingInv, EscalatingInv, CallsApart, [Next]_vars
    PROVE  [\A i \in Ids :
              episode'[i].dur > 0 /\ episode'[i] # episode[i] /\ now <= episode[i].remembered
                => episode'[i].dur = MaxLockout \/ episode'[i].dur >= 2 * episode[i].dur]_vars
<1> SUFFICES ASSUME Next, NEW i \in Ids, episode'[i].dur > 0, episode'[i] # episode[i],
                    now <= episode[i].remembered
             PROVE  episode'[i].dur = MaxLockout \/ episode'[i].dur >= 2 * episode[i].dur
    OBVIOUS
<1>1. episode \in [Ids -> Episode]
  BY DEF EscalatingInv
<1>2. CASE Tick
  BY <1>2 DEF Tick
<1>3. ASSUME NEW s \in Slots, Step(s)
      PROVE  episode'[i].dur = MaxLockout \/ episode'[i].dur >= 2 * episode[i].dur
  <2>1. CASE UNCHANGED episode
    BY <2>1
  <2>2. CASE SaveLock(s)
    <3>1. /\ slot[s].pc = "save_lock"
          /\ episode' = [episode EXCEPT ![slot[s].id] =
                           [dur |-> lockFor(slot[s].strikes), remembered |-> strike[slot[s].id].exp]]
      BY <2>2 DEF SaveLock, At
    <3>2. slot[s].id = i /\ episode'[i].dur = lockFor(slot[s].strikes)
      BY <1>1, <3>1
    <3>3. Among(episode[i], slot[s].strikes - 1)
      BY <3>1, <3>2 DEF EscalatingInv, Escalating
    <3>4. PICK k \in 1 .. slot[s].strikes - 1 : episode[i].dur = lockFor(k)
      BY <3>3 DEF Among
    <3>5. slot[s].strikes \in Nat
      BY Types DEF SlotType
    <3>6. k \in Nat \ {0} /\ slot[s].strikes \in Nat \ {0} /\ k < slot[s].strikes
      BY <3>5
    <3> QED BY <3>2, <3>4, <3>6, LockForDoubles
  <2>3. CASE DeleteStrikes(s)
    <3>1. episode' = [episode EXCEPT ![slot[s].id] = NoEpisode]
      BY <2>3 DEF DeleteStrikes
    <3>2. episode'[i] = NoEpisode
      BY <1>1, <3>1
    <3> QED BY <3>2 DEF NoEpisode
  <2>4. CASE Plain(s)
    BY <2>1, <2>4 DEF Plain
  <2>5. CASE LoadFailures(s) \/ LoadLock(s) \/ LoadStrikes(s) \/ SaveStrikes(s) \/ LoadStuffing(s)
             \/ SaveStuffing(s) \/ SaveFailures(s) \/ DeleteFailures(s)
    BY <2>1, <2>5 DEF LoadFailures, LoadLock, LoadStrikes, SaveStrikes, LoadStuffing, SaveStuffing,
       SaveFailures, DeleteFailures
  <2> QED BY <1>3, <2>2, <2>3, <2>4, <2>5, StepCases
<1> QED BY <1>2, <1>3 DEF Next

\* "Each lockout episode doubles the next one, up to MaxLockout": while its
\* strikes are remembered escalation does not start over, even if the store fails
\* between the writes of an episode, wherever no two calls for one identity overlap.
THEOREM LoginEscalationHolds == Spec /\ []CallsApart => EscalationHolds
<1>1. Spec => []IInv
  BY InitIInv, NextIInv, PTL DEF Spec
<1>2. Spec /\ []CallsApart => []CountingInv
  BY <1>1, InitCounting, NextCounting, PTL DEF Spec
<1>3. Spec /\ []CallsApart => []EscalatingInv
  BY <1>1, <1>2, InitEscalating, NextEscalating, PTL DEF Spec
<1> QED BY <1>1, <1>2, <1>3, EpisodesEscalate, PTL DEF Spec, EscalationHolds

-----------------------------------------------------------------------------
(***************************************************************************)
(* Stuffing.                                                               *)
(***************************************************************************)

\* The list that a request is about to save is based on no shorter one than the
\* client has.
ListingInv ==
    \A w \in Slots :
      slot[w].pc = "save_stuffing" => Len(stuff[slot[w].ip].val) <= Len(slot[w].ids)

LEMMA InitListing == Init => ListingInv
  BY DEF Init, Idle, ListingInv

LEMMA TickListing == IInv /\ ListingInv /\ Tick => ListingInv'
<1> SUFFICES ASSUME IInv, ListingInv, Tick, NEW w \in Slots, slot'[w].pc = "save_stuffing"
             PROVE  Len(stuff'[slot'[w].ip].val) <= Len(slot'[w].ids)
    BY DEF ListingInv
<1>1. /\ slot' = slot /\ slot \in [Slots -> SlotType]
      /\ stuff \in [Ips -> [val : Seq(Ids), exp : Nat]]
  BY Types DEF Tick
<1> DEFINE p == slot[w].ip
<1>2. p \in Ips /\ slot[w].ids \in Seq(Ids)
  BY <1>1 DEF IInv, SlotsKnow, Knows, SlotType
<1>3. stuff'[p] = stuff[p] \/ stuff'[p].val = <<>>
  BY <1>1, <1>2 DEF Tick, Aged, Absent
<1>4. Len(stuff[p].val) <= Len(slot[w].ids)
  BY <1>1 DEF ListingInv
<1>5. Len(<<>>) = 0 /\ Len(slot[w].ids) >= 0
  BY <1>2
<1> QED BY <1>1, <1>3, <1>4, <1>5

\* Where a list changes, it was not full, or it is full again.
LEMMA StepListing ==
    ASSUME IInv, ListingInv, ListsApart, NEW s \in Slots, Step(s)
    PROVE  /\ ListingInv'
           /\ \A p \in Ips : Len(stuff[p].val) >= StuffingLimit => Len(stuff'[p].val) >= StuffingLimit
<1> DEFINE r == slot[s]
           q == slot'[s]
<1>1. /\ r \in SlotType /\ stuff \in [Ips -> [val : Seq(Ids), exp : Nat]]
      /\ StuffingLimit \in Nat \ {0}
  BY Types, LoginAssumption
<1>2. ASSUME UNCHANGED stuff,
             q.pc = "save_stuffing" => Len(stuff[q.ip].val) <= Len(q.ids)
      PROVE  /\ ListingInv'
             /\ \A p \in Ips : Len(stuff[p].val) >= StuffingLimit => Len(stuff'[p].val) >= StuffingLimit
  <2>1. ASSUME NEW w \in Slots, slot'[w].pc = "save_stuffing"
        PROVE  Len(stuff[slot'[w].ip].val) <= Len(slot'[w].ids)
    <3>1. CASE w = s
      BY <1>2, <2>1, <3>1
    <3>2. CASE w # s
      <4>1. slot'[w] = slot[w]
        BY <3>2, OthersKept
      <4> QED BY <2>1, <4>1 DEF ListingInv
    <3> QED BY <3>1, <3>2
  <2> QED BY <1>2, <2>1 DEF ListingInv
<1>3. CASE Plain(s)
  <2>1. UNCHANGED stuff /\ q.pc # "save_stuffing"
    BY <1>3 DEF Plain, entries, Recording, RecordCalls
  <2> QED BY <1>2, <2>1
<1>4. CASE LoadFailures(s) \/ LoadLock(s) \/ LoadStrikes(s) \/ SaveStrikes(s) \/ SaveLock(s)
           \/ SaveFailures(s) \/ DeleteFailures(s) \/ DeleteStrikes(s)
  <2>1. UNCHANGED stuff
    BY <1>4 DEF LoadFailures, LoadLock, LoadStrikes, SaveStrikes, SaveLock, SaveFailures, DeleteFailures,
       DeleteStrikes, entries
  <2>2. q.pc # "save_stuffing"
    BY <1>4, OwnSlot
  <2> QED BY <1>2, <2>1, <2>2
<1>5. CASE LoadStuffing(s)
  <2>1. UNCHANGED stuff /\ q.ip = r.ip /\ (q.pc = "save_stuffing" => q.ids = stuff[r.ip].val)
    BY <1>5, OwnSlot DEF LoadStuffing, entries
  <2>2. ASSUME q.pc = "save_stuffing" PROVE Len(stuff[q.ip].val) <= Len(q.ids)
    <3>1. q.ip \in Ips
      BY <2>2, StepIInv DEF IInv, SlotsKnow, Knows
    <3>2. stuff[q.ip].val \in Seq(Ids)
      BY <1>1, <3>1
    <3>3. Len(stuff[q.ip].val) \in Nat
      BY <3>2
    <3> QED BY <2>1, <2>2, <3>3
  <2> QED BY <1>2, <2>1, <2>2
<1>6. CASE SaveStuffing(s)
  <2> DEFINE p == r.ip
             all == Append(r.ids, r.id)
             new == Capped(all)
  <2>1. /\ r.pc = "save_stuffing" /\ p \in Ips /\ r.ids \in Seq(Ids) /\ r.id \in Ids
        /\ stuff' = [stuff EXCEPT ![p] = Entry(new, FailureWindow)]
    <3>1. r.pc = "save_stuffing" /\ stuff' = [stuff EXCEPT ![p] = Entry(new, FailureWindow)]
      BY <1>6, Zenon DEF SaveStuffing, At
    <3>2. Knows(r) /\ r.ids \in Seq(Ids)
      BY <1>1 DEF IInv, SlotsKnow, SlotType
    <3> QED BY <3>1, <3>2 DEF Knows, RecordCalls
  <2>2. Len(stuff[p].val) <= Len(r.ids)
    BY <2>1 DEF ListingInv
  <2>3. all \in Seq(Ids) /\ Len(all) = Len(r.ids) + 1 /\ Len(r.ids) \in Nat
    BY <2>1
  <2>4. Len(r.ids) + 1 >= StuffingLimit => Len(new) = StuffingLimit
    <3> HIDE DEF all
    <3>1. CASE Len(all) > StuffingLimit
      <4>1. new = SubSeq(all, Len(all) - StuffingLimit + 1, Len(all))
        BY <3>1 DEF Capped
      <4>2. Len(all) - StuffingLimit + 1 \in 1 .. Len(all)
        BY <1>1, <2>3, <3>1
      <4> QED BY <1>1, <2>3, <4>1, <4>2
    <3>2. CASE ~(Len(all) > StuffingLimit)
      BY <1>1, <2>3, <3>2 DEF Capped
    <3> QED BY <3>1, <3>2
  <2> HIDE DEF new
  <2>5. stuff'[p].val = new /\ \A o \in Ips \ {p} : stuff'[o] = stuff[o]
    BY <1>1, <2>1 DEF Entry
  <2>6. Len(stuff[p].val) \in Nat
    BY <1>1, <2>1
  <2>7. ASSUME NEW o \in Ips, Len(stuff[o].val) >= StuffingLimit
        PROVE  Len(stuff'[o].val) >= StuffingLimit
    <3>1. CASE o = p
      <4>1. Len(new) = StuffingLimit
        BY <1>1, <2>2, <2>3, <2>4, <2>6, <2>7, <3>1
      <4> QED BY <1>1, <2>5, <3>1, <4>1
    <3>2. CASE o # p
      BY <2>5, <2>7, <3>2
    <3> QED BY <3>1, <3>2
  <2>8. ASSUME NEW w \in Slots, slot'[w].pc = "save_stuffing"
        PROVE  Len(stuff'[slot'[w].ip].val) <= Len(slot'[w].ids)
    <3>1. w # s
      BY <1>6, <2>8, OwnSlot
    <3>2. slot'[w] = slot[w]
      BY <3>1, OthersKept
    <3>3. slot[w].ip # p /\ slot[w].ip \in Ips
      BY <2>1, <2>8, <3>1, <3>2 DEF ListsApart, At, IInv, SlotsKnow, Knows
    <3>4. stuff'[slot[w].ip] = stuff[slot[w].ip]
      BY <2>5, <3>3
    <3> QED BY <2>8, <3>2, <3>4 DEF ListingInv
  <2> QED BY <2>7, <2>8 DEF ListingInv
<1> QED BY <1>3, <1>4, <1>5, <1>6, StepCases

LEMMA NextListing == IInv /\ ListingInv /\ ListsApart /\ [Next]_vars => ListingInv'
<1> SUFFICES ASSUME IInv, ListingInv, ListsApart, [Next]_vars PROVE ListingInv'
    OBVIOUS
<1>1. CASE UNCHANGED vars
  BY <1>1 DEF vars, ListingInv
<1> QED BY <1>1, TickListing, StepListing DEF Next

LEMMA FullStaysFull ==
    ASSUME IInv, ListingInv, ListsApart, [Next]_vars
    PROVE  [\A p \in Ips :
              Len(stuff[p].val) >= StuffingLimit /\ now' <= stuff[p].exp
                => Len(stuff'[p].val) >= StuffingLimit]_vars
<1> SUFFICES ASSUME Next, NEW p \in Ips, Len(stuff[p].val) >= StuffingLimit, now' <= stuff[p].exp
             PROVE  Len(stuff'[p].val) >= StuffingLimit
    OBVIOUS
<1>1. CASE Tick
  <2>1. stuff'[p] = stuff[p]
    BY <1>1, Types DEF Tick, Aged
  <2> QED BY <2>1
<1>2. ASSUME NEW s \in Slots, Step(s) PROVE Len(stuff'[p].val) >= StuffingLimit
  BY <1>2, StepListing
<1> QED BY <1>1, <1>2 DEF Next

\* A client that reads as stuffing does so until its list expires, whatever it
\* does and whoever fails, wherever no two requests rewrite its list at once.
THEOREM LoginStuffingSticks == Spec /\ []ListsApart => StuffingSticks
<1>1. Spec => []IInv
  BY InitIInv, NextIInv, PTL DEF Spec
<1>2. Spec /\ []ListsApart => []ListingInv
  BY <1>1, InitListing, NextListing, PTL DEF Spec
<1> QED BY <1>1, <1>2, FullStaysFull, PTL DEF Spec, StuffingSticks

-----------------------------------------------------------------------------
\* With one request at a time, as in the sequential run, nothing overlaps.
THEOREM LoginOneByOne ==
    Spec /\ (\A v, w \in Slots : v = w)
      => ([]FailuresLock) /\ LockIsFixed /\ EscalationHolds /\ StuffingSticks
<1>1. SUFFICES ASSUME \A v, w \in Slots : v = w
               PROVE  Spec => ([]FailuresLock) /\ LockIsFixed /\ EscalationHolds /\ StuffingSticks
    OBVIOUS
<1>2. CallsApart /\ ListsApart
  BY <1>1 DEF CallsApart, ListsApart
<1>3. Spec => []CallsApart /\ []ListsApart
  BY <1>2, PTL
<1> QED BY <1>3, LoginFailuresLock, LoginLockIsFixed, LoginEscalationHolds, LoginStuffingSticks, PTL
=============================================================================
