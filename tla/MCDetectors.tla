----------------------------- MODULE MCDetectors -----------------------------
(***************************************************************************)
(* Small instances of IPBlacklist and of the detectors.  Bodies hold up to *)
(* two values, nested up to three deep, and cookies up to three fields.    *)
(***************************************************************************)
EXTENDS Scans, Functions, TLC

\* Any lists of up to two detectors, so that one detector's lists, and two
\* detectors' results, meet in every order.
MCInputs ==
    LET Lists(d) == (SUBSET DOMAIN d.checks) \ {{}}
        Builtin == Range(P!RegisterAll)
    IN  {<<>>} \cup UNION {{[f \in {d, e} |-> IF f = d THEN l ELSE m] :
                             l \in Lists(d), m \in Lists(e)} : d, e \in Builtin}

MCOthers == {"body_size", "xxe"}

Leaf == [kind |-> "scalar", items |-> <<>>]

Up2(S) == {<<>>} \cup {<<v>> : v \in S} \cup {<<v, w>> : v, w \in S}

\* Arrays and objects of up to two values.
Containers(S) == [kind : {"container"}, items : Up2(S) \cup {<<Leaf, v, Leaf, w>> : v, w \in S}]

Flat == {Leaf} \cup Containers({Leaf})

MCValues == Containers(Flat) \cup [kind : {"container"}, items : {<<v>> : v \in Containers(Flat)}]

MCBodies == Up2(Flat) \cup {<<v>> : v \in MCValues}

MCDocuments ==
    {SubSeq(d, k, Len(d)) : d \in MCBodies \cup {v.items : v \in Flat \cup MCValues},
                            k \in 1 .. 5}

MCSize[d \in MCDocuments] ==
    IF d = <<>> THEN 0
      ELSE 1 + MCSize[Tail(d)] + (IF Head(d) = Leaf THEN 0 ELSE MCSize[Head(d).items])

MCLimits == [maxDepth : {-1, 1, 2}, maxKeys : {-1, 0, 1, 3}]

Names == {"", "secure", "httponly", "samesite", "other"}

MCHeaders == [prefixes : 0 .. 2, fields : {<<n>> : n \in Names} \cup {<<n, a>> : n, a \in Names}
                                           \cup {<<"other", a, b>> : a, b \in Names},
              length : 0 .. 2]

MCPolicies == [required : SUBSET {"secure", "httponly", "samesite"}, maxValueLen : 0 .. 1,
               requireNonEmpty : BOOLEAN]

Symmetry == Permutations(Slots) \cup Permutations(Ips)
=============================================================================
