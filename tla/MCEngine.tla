------------------------------ MODULE MCEngine ------------------------------
(***************************************************************************)
(* A small instance of Engine: one detector, an input that it does not     *)
(* recognise, and what that input decodes to, which it does.  Detectors do *)
(* not affect each other; two registrations make the second a replacement. *)
(***************************************************************************)
EXTENDS Engine, TLC

CONSTANTS n1, raw, plain

MCInputs == {raw, plain}

MCDecode == (raw :> plain) @@ (plain :> NoInput)

MCNames == {n1}

MCFires == {<<n1, plain>>}
=============================================================================
