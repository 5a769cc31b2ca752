------------------------------- MODULE TTLMap -------------------------------
(***************************************************************************)
(* What session.Store promises of the entries it keeps: a value is there   *)
(* from its Save until its TTL is over, a later Save replaces it or a      *)
(* Delete removes it, and at no other time.  LoginGuard and SessionGuard   *)
(* are written against this contract.                                      *)
(***************************************************************************)
EXTENDS Integers

CONSTANTS Keys,      \* the keys in use
          Vals, NoVal,
          TTLs       \* the lifetimes passed to Save

VARIABLES now,       \* the wall clock
          store,     \* key -> the value it holds and its last instant
          call       \* the last Save or Delete

tvars == <<now, store, call>>

Nothing == [val |-> NoVal, exp |-> 0]

NoCall == [op |-> "none", key |-> NoVal]

TInit == now \in Nat /\ store = [k \in Keys |-> Nothing] /\ call = NoCall

TTick ==
    /\ now' = now + 1
    /\ store' = [k \in Keys |-> IF now + 1 > store[k].exp THEN Nothing ELSE store[k]]
    /\ UNCHANGED call

TSave(k, v, ttl) ==
    /\ store' = [store EXCEPT ![k] = [val |-> v, exp |-> now + ttl]]
    /\ call' = [op |-> "save", key |-> k]
    /\ UNCHANGED now

TDelete(k) ==
    /\ store' = [store EXCEPT ![k] = Nothing]
    /\ call' = [op |-> "delete", key |-> k]
    /\ UNCHANGED now

TNext ==
    \/ TTick
    \/ \E k \in Keys : TDelete(k) \/ \E v \in Vals, ttl \in TTLs : TSave(k, v, ttl)

TSpec == TInit /\ [][TNext]_tvars
=============================================================================
