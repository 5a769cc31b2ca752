---------------------------- MODULE MCLoginGuard ----------------------------
(***************************************************************************)
(* Small instances of LoginGuard.                                          *)
(***************************************************************************)
EXTENDS LoginGuard, FiniteSetsExt, TLC

CONSTANT MaxTotal  \* bound on the failures of all identities together

\* Nothing tells two identities, two clients or two goroutines apart.
Symmetry == Permutations(Ids) \cup Permutations(Ips) \cup Permutations(Slots)

FewFailures == MapThenSumSet(LAMBDA i : tries[i], Ids) <= MaxTotal

\* Requests with an identity, from a client that is known.
Known == \A s \in Slots : ~At(s, "idle") => slot[s].id # NoId /\ slot[s].ip # NoIp

FewKnown == FewFailures /\ Known

\* All but the histories that only requests one after the other are judged by.
Concurrent == <<now, entries, slot, faults, tries>>
=============================================================================
