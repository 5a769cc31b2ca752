------------------------------ MODULE BanList ------------------------------
(***************************************************************************)
(* What the Block and IsBlocked methods of storage.Backend promise: a key  *)
(* that is blocked for a duration reads as blocked until that duration is  *)
(* over or a later Block replaces it, and nothing else lifts or creates a  *)
(* ban.                                                                    *)
(***************************************************************************)
EXTENDS Integers

CONSTANTS Keys,      \* the keys callers block
          Durations  \* the durations callers pass to Block

VARIABLES now,       \* the wall clock
          ban,       \* key -> the end of the ban in force, 0 when there is none
          verdict    \* the result of the last IsBlocked call

bvars == <<now, ban, verdict>>

BInit ==
    /\ now \in Nat
    /\ ban = [k \in Keys |-> 0]
    /\ verdict = [op |-> "none"]

\* Time passes; the bans that end by then are over.
BTick ==
    /\ now' = now + 1
    /\ ban' = [k \in Keys |-> IF now + 1 < ban[k] THEN ban[k] ELSE 0]
    /\ UNCHANGED verdict

BBlock(k, d) ==
    /\ ban' = [ban EXCEPT ![k] = IF d > 0 THEN now + d ELSE 0]
    /\ UNCHANGED <<now, verdict>>

BIsBlocked(k) ==
    /\ verdict' = [op |-> "isBlocked", key |-> k, val |-> ban[k] # 0]
    /\ UNCHANGED <<now, ban>>

BNext ==
    \/ BTick
    \/ \E k \in Keys : BIsBlocked(k) \/ \E d \in Durations : BBlock(k, d)

BSpec == BInit /\ [][BNext]_bvars
=============================================================================
