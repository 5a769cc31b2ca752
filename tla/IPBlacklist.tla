----------------------------- MODULE IPBlacklist -----------------------------
(***************************************************************************)
(* httpval.IPBlacklist over any storage.Backend that keeps the counting    *)
(* and the ban contract: RecordAttack counts an attack and then, in a      *)
(* second backend call, bans the address; Detect asks whether it is banned. *)
(*                                                                         *)
(* Several goroutines record attacks at once, so other calls may come      *)
(* between the count and the ban, and either call may fail (Redis).        *)
(***************************************************************************)
EXTENDS Integers

CONSTANTS Slots,       \* the goroutines that record attacks
          Ips,         \* the addresses
          Threshold, Window, BanDuration,
          Epoch,       \* the clock when the program starts
          MaxTime,     \* bound on the clock
          MaxCount,    \* bound on a counter
          MaxFaults    \* bound on failing backend calls

\* The defaults, 60 seconds and 15 minutes, satisfy the last conjunct.
ASSUME BlacklistAssumption ==
    /\ {Threshold, Window, BanDuration, Epoch} \subseteq Nat \ {0}
    /\ {MaxTime, MaxCount, MaxFaults} \subseteq Nat
    /\ Window < BanDuration

VARIABLES now, counter, answer, \* the backend's counters
          ban, verdict,         \* the backend's bans
          slot,                 \* slot -> the RecordAttack that is to ban
          faults,               \* how many backend calls failed
          lastHit               \* history: ip -> when it last reached the threshold

vars == <<now, counter, answer, ban, verdict, slot, faults, lastHit>>

Counts == INSTANCE WindowCounter WITH Keys <- Ips, WindowOf <- [i \in Ips |-> Window]

Bans == INSTANCE BanList WITH Keys <- Ips, Durations <- {BanDuration}

Idle == [busy |-> FALSE]

Init ==
    /\ now = Epoch
    /\ counter = [i \in Ips |-> Counts!NoCounter]
    /\ answer = Counts!NoAnswer
    /\ ban = [i \in Ips |-> 0]
    /\ verdict = [op |-> "none"]
    /\ slot = [s \in Slots |-> Idle]
    /\ faults = 0
    /\ lastHit = [i \in Ips |-> 0]

Tick ==
    /\ now < MaxTime
    /\ Counts!CTick
    /\ Bans!BTick
    /\ UNCHANGED <<slot, faults, lastHit>>

\* Mutant: the attack that reaches the threshold does not count.
ReachesLate(count) == count > Threshold

Reaches(count) == count >= Threshold

\* RecordAttack's Incr; a count below the threshold ends the call.
RecordAttack(s, i) ==
    /\ ~slot[s].busy
    /\ counter[i].count < MaxCount
    /\ Counts!CIncr(i)
    /\ slot' = [slot EXCEPT ![s] = IF Reaches(answer'.val) THEN [busy |-> TRUE, ip |-> i]
                                                           ELSE Idle]
    /\ lastHit' = IF Reaches(answer'.val) THEN [lastHit EXCEPT ![i] = now] ELSE lastHit
    /\ UNCHANGED <<ban, verdict, faults>>

\* Mutant: an address that is banned already is not banned again.
BanOnce(s) ==
    /\ slot[s].busy
    /\ IF ban[slot[s].ip] # 0 THEN UNCHANGED <<now, ban, verdict>>
                              ELSE Bans!BBlock(slot[s].ip, BanDuration)
    /\ slot' = [slot EXCEPT ![s] = Idle]
    /\ UNCHANGED <<counter, answer, faults, lastHit>>

\* RecordAttack's Block.
Ban(s) ==
    /\ slot[s].busy
    /\ Bans!BBlock(slot[s].ip, BanDuration)
    /\ slot' = [slot EXCEPT ![s] = Idle]
    /\ UNCHANGED <<counter, answer, faults, lastHit>>

\* Incr or Block failed, before or after it took effect: the call gives up.
RecordFails(s, i) ==
    /\ faults < MaxFaults
    /\ faults' = faults + 1
    /\ \/ /\ ~slot[s].busy /\ counter[i].count < MaxCount
          /\ Counts!CIncr(i) \/ UNCHANGED <<now, counter, answer>>
          /\ UNCHANGED <<ban, verdict>>
       \/ /\ slot[s].busy /\ slot[s].ip = i
          /\ Bans!BBlock(i, BanDuration) \/ UNCHANGED <<now, ban, verdict>>
          /\ UNCHANGED <<counter, answer>>
    /\ slot' = [slot EXCEPT ![s] = Idle]
    /\ UNCHANGED lastHit

\* Detect; a backend error reads as not blocked.
Detect(i) ==
    /\ \/ Bans!BIsBlocked(i) /\ UNCHANGED faults
       \/ /\ faults < MaxFaults
          /\ faults' = faults + 1
          /\ verdict' = [op |-> "isBlocked", key |-> i, val |-> FALSE]
          /\ UNCHANGED <<now, ban>>
    /\ UNCHANGED <<counter, answer, slot, lastHit>>

Next ==
    \/ Tick
    \/ \E i \in Ips : Detect(i) \/ \E s \in Slots : RecordAttack(s, i) \/ RecordFails(s, i)
    \/ \E s \in Slots : Ban(s)

Spec == Init /\ [][Next]_vars

-----------------------------------------------------------------------------
(***************************************************************************)
(* Properties.                                                             *)
(***************************************************************************)

\* The type invariant.
TypeOK ==
    /\ now \in Nat
    /\ counter \in [Ips -> [count : Nat, since : Nat]]
    /\ ban \in [Ips -> Nat]
    /\ slot \in [Slots -> {Idle} \cup [busy : {TRUE}, ip : Ips]]
    /\ faults \in Nat
    /\ lastHit \in [Ips -> Nat]

\* "If the threshold is reached within the window, the IP is blocked": as long
\* as no backend call failed, an address whose live counter has reached the
\* threshold is banned, or a RecordAttack is about to ban it.  Racing calls lose
\* no attack, and no ban ends while the counter that earned it lives.
ThresholdBans ==
    faults = 0 =>
      \A i \in Ips : counter[i].count >= Threshold =>
        ban[i] # 0 \/ \E s \in Slots : slot[s].busy /\ slot[s].ip = i

\* An address that keeps attacking stays out: once the calls in progress are
\* over, its ban lasts BanDuration from the last attack that reached the
\* threshold, whichever of the racing calls was the last to ban it.
BanCoversLastAttack ==
    faults = 0 =>
      \A i \in Ips :
        /\ lastHit[i] # 0
        /\ \A s \in Slots : slot[s].busy => slot[s].ip # i
        /\ now < lastHit[i] + BanDuration
        => ban[i] >= lastHit[i] + BanDuration
=============================================================================
