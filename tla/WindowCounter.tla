--------------------------- MODULE WindowCounter ---------------------------
(***************************************************************************)
(* What the Incr and Get methods of storage.Backend promise, whatever the  *)
(* backend: a counter per key whose window starts at the first increment   *)
(* and does not slide, that reads as zero once its window has elapsed, and *)
(* whose next increment then starts again from 1.                          *)
(*                                                                         *)
(* The state is only what a client can observe: a counter ceases to exist  *)
(* at the instant its window elapses.  How a backend stores it, when it    *)
(* frees the memory and what it writes to disk are not visible here.       *)
(***************************************************************************)
EXTENDS Integers

CONSTANTS Keys,      \* the keys callers count under
          WindowOf   \* the window callers pass to Incr, one per key

VARIABLES now,       \* the wall clock
          counter,   \* key -> the live counter, NoCounter when there is none
          answer     \* the result of the last counting call

cvars == <<now, counter, answer>>

NoCounter == [count |-> 0, since |-> 0]

NoAnswer == [op |-> "none"]

CInit ==
    /\ now \in Nat
    /\ counter = [k \in Keys |-> NoCounter]
    /\ answer = NoAnswer

\* Time passes; the counters whose window has elapsed by then are gone.
CTick ==
    /\ now' = now + 1
    /\ counter' = [k \in Keys |-> IF now + 1 - counter[k].since > WindowOf[k]
                                    THEN NoCounter
                                    ELSE counter[k]]
    /\ UNCHANGED answer

CIncr(k) ==
    /\ counter' = [counter EXCEPT ![k] =
                     IF counter[k].count = 0
                       THEN [count |-> 1, since |-> now]
                       ELSE [count |-> counter[k].count + 1, since |-> counter[k].since]]
    /\ answer' = [op |-> "incr", key |-> k, val |-> counter'[k].count]
    /\ UNCHANGED now

CGet(k) ==
    /\ answer' = [op |-> "get", key |-> k, val |-> counter[k].count]
    /\ UNCHANGED <<now, counter>>

CNext == CTick \/ \E k \in Keys : CIncr(k) \/ CGet(k)

CSpec == CInit /\ [][CNext]_cvars
=============================================================================
