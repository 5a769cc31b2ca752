--------------------------- MODULE MCSessionGuard ---------------------------
(***************************************************************************)
(* A small instance of SessionGuard alone: two clients, whose networks are *)
(* not the same and one of whose countries is not known.                   *)
(***************************************************************************)
EXTENDS SessionGuard, TLC

MCNetworkOf == [i \in {"a", "x"} |-> i]

MCCountryOf == [i \in {"a", "x"} |-> IF i = "x" THEN None ELSE "cn"]

MCClients == [ip : {"a", "x"}, ua : {"ua"}, fp : {"fp"}]

Symmetry == Permutations(Slots)
=============================================================================
