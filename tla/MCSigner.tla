------------------------------ MODULE MCSigner ------------------------------
(***************************************************************************)
(* Small instances of Signer.                                              *)
(***************************************************************************)
EXTENDS Signer, TLC

MCConfigs == [secret : BOOLEAN, nonces : BOOLEAN]

\* Nothing tells two nonces, two parameter sets or two workers apart.
Symmetry == Permutations(Nonces) \cup Permutations(Params) \cup Permutations(Workers)
=============================================================================
