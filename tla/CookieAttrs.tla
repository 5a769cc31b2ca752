----------------------------- MODULE CookieAttrs -----------------------------
(***************************************************************************)
(* httpval.CookieAttrs: what is wrong with a Set-Cookie header, against    *)
(* what a browser makes of it.                                             *)
(*                                                                         *)
(* A header is the number of "Set-Cookie:" prefixes that it comes with,    *)
(* the names of its fields, lower case and trimmed, of which the first is  *)
(* the cookie's own, and the length of the cookie's value.                 *)
(***************************************************************************)
EXTENDS Integers, Sequences

CONSTANTS Headers, Policies

\* What a field or a value consists of does not matter here.
CookieAssumption ==
    /\ Headers \subseteq [prefixes : Nat, fields : Seq(STRING) \ {<<>>}, length : Nat]
    /\ Policies \subseteq [required : SUBSET STRING, maxValueLen : Int, requireNonEmpty : BOOLEAN]

VARIABLES header, policy, verdict

vars == <<header, policy, verdict>>

\* The verdict on a header that is not reported.
Quiet == [why |-> {}, severity |-> "none"]

Idle == [why |-> {}, severity |-> "idle"]

-----------------------------------------------------------------------------
stripCookiePrefix(h) == [h EXCEPT !.prefixes = 0]

\* http.ParseSetCookie: a cookie has a name, and no colon in it.
ParsesCookie(raw) == raw.prefixes = 0 /\ raw.fields[1] # ""

hasAttr(raw, name) == \E k \in DOMAIN raw.fields \ {1} : raw.fields[k] = name

\* Mutant: the cookie's own name is taken for an attribute.
missingAttrsNamed(required, raw) ==
    {name \in required : \A k \in DOMAIN raw.fields : raw.fields[k] # name}

missingAttrs(required, raw) == {name \in required : ~hasAttr(raw, name)}

\* The first of the three checks that fails is reported.
Detect(h, p) ==
    LET raw == stripCookiePrefix(h)
        missing == missingAttrs(p.required, raw)
    IN  /\ verdict = Idle
        /\ header' = h
        /\ policy' = p
        /\ verdict' =
             IF ~ParsesCookie(raw) THEN Quiet
               ELSE IF missing # {} THEN [why |-> missing, severity |-> "medium"]
               ELSE IF p.maxValueLen > 0 /\ raw.length > p.maxValueLen
                 THEN [why |-> {"length"}, severity |-> "high"]
               ELSE IF p.requireNonEmpty /\ raw.length = 0
                 THEN [why |-> {"empty"}, severity |-> "medium"]
               ELSE Quiet

NoHeader == [prefixes |-> 0, fields |-> <<"">>, length |-> 0]

NoPolicy == [required |-> {}, maxValueLen |-> 0, requireNonEmpty |-> FALSE]

Init == header = NoHeader /\ policy = NoPolicy /\ verdict = Idle

Return ==
    /\ verdict # Idle
    /\ header' = NoHeader /\ policy' = NoPolicy /\ verdict' = Idle

Next == Return \/ \E h \in Headers, p \in Policies : Detect(h, p)

Spec == Init /\ [][Next]_vars

-----------------------------------------------------------------------------
(***************************************************************************)
(* Properties.                                                             *)
(***************************************************************************)

\* The attributes that a browser gives the cookie.
Carried == {header.fields[k] : k \in 2 .. Len(header.fields)}

Sound ==
    /\ policy.required \subseteq Carried
    /\ policy.maxValueLen > 0 => header.length <= policy.maxValueLen
    /\ policy.requireNonEmpty => header.length > 0

\* "Validates a Set-Cookie header value and flags insecure configuration"
\* (CookieAttrs), "the raw value or the 'Set-Cookie: value' header form" (Detect):
\* with any number of prefixes, a cookie is reported just when the one that the
\* browser would store falls short of the policy, and the attributes said to be
\* missing are those it would do without, be the cookie named like one or not.
ReportsWhatBrowserLacks ==
    verdict # Idle /\ header.fields[1] # "" =>
      /\ (verdict = Quiet) <=> Sound
      /\ ~(policy.required \subseteq Carried) => verdict.why = policy.required \ Carried
=============================================================================
