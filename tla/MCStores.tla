------------------------------ MODULE MCStores ------------------------------
(***************************************************************************)
(* Small instances of storage.Memory, of redis.Backend and of              *)
(* session.MemoryStore.                                                    *)
(*                                                                         *)
(* One key suffices: the mutexes, and the server, make calls on different  *)
(* keys independent, and the reapers treat all entries alike.  One loader  *)
(* of MemoryStore suffices since a Load changes nothing, and one caller of *)
(* the server since its commands come late and twice as it is.             *)
(***************************************************************************)
EXTENDS Stores, TLC

CONSTANT k1

MCKeys == {k1}

MCWindowOf == k1 :> 2

\* Two milliseconds and a half.
MCAskedWindow == k1 :> 5
=============================================================================
