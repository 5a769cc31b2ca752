----------------------------- MODULE NestedDepth -----------------------------
(***************************************************************************)
(* httpval.NestedDepth: a loop over the tokens that encoding/json yields   *)
(* for a body, with a depth and an element counter, against what the two   *)
(* counters stand for in the documents.                                    *)
(*                                                                         *)
(* A document is a sequence of JSON values: a body, as the decoder reads   *)
(* on after its first value, or what is inside an array or an object.  In  *)
(* an object a key, a scalar like others, comes before each value.  A body *)
(* that is not well-formed breaks off somewhere, in a value or after the   *)
(* last: there, as at the end of the others, Token fails.                  *)
(***************************************************************************)
EXTENDS Integers, Sequences

CONSTANTS Documents, \* the bodies, with all that is inside and that follows in them
          Size,      \* document -> the length of its text
          Bodies,
          Limits,    \* what NewNestedDepth is called with
          DefaultMaxDepth

IsContainer(v) == v.kind = "container"

\* Texts are finite: what is left of a document, and what is inside a value,
\* is shorter than the whole.
DocumentsAssumption ==
    /\ Bodies \cup {<<>>} \subseteq Documents
    /\ Size \in [Documents -> Nat]
    /\ \A d \in Documents \ {<<>>} :
         /\ Tail(d) \in Documents /\ Size[Tail(d)] < Size[d]
         /\ IsContainer(Head(d)) =>
              Head(d).items \in Documents /\ Size[Head(d).items] < Size[d]

LimitsAssumption ==
    Limits \subseteq [maxDepth : Int, maxKeys : Int] /\ DefaultMaxDepth \in Nat \ {0}

VARIABLES body,   \* the body being scanned
          limit,  \* the detector's MaxDepth and MaxKeys
          ahead,  \* the decoder: what is left of the body, and of each open value
          cut,    \* whether the body breaks off
          depth, keys, verdict

vars == <<body, limit, ahead, cut, depth, keys, verdict>>

-----------------------------------------------------------------------------
(***************************************************************************)
(* NewNestedDepth and Detect.                                              *)
(***************************************************************************)

NewNestedDepth(maxDepth, maxKeys) ==
    [depth |-> IF maxDepth <= 0 THEN DefaultMaxDepth ELSE maxDepth, keys |-> maxKeys]

Init ==
    /\ body = <<>> /\ ahead = <<>> /\ cut = FALSE
    /\ limit = NewNestedDepth(0, 0)
    /\ depth = 0 /\ keys = 0
    /\ verdict = "idle"

Detect(b, l) ==
    /\ verdict = "idle"
    /\ body' = b
    /\ ahead' = <<b>>
    /\ limit' = NewNestedDepth(l.maxDepth, l.maxKeys)
    /\ depth' = 0 /\ keys' = 0
    /\ verdict' = "reading"
    /\ cut' \in BOOLEAN

Top == Len(ahead)

\* The decoder is at a value, which it takes from what is left.
AtValue == verdict = "reading" /\ ahead[Top] # <<>>

Taken == [ahead EXCEPT ![Top] = Tail(@)]

\* Token returns a '{' or a '['.
Open ==
    /\ AtValue /\ IsContainer(Head(ahead[Top]))
    /\ ahead' = Append(Taken, Head(ahead[Top]).items)
    /\ depth' = depth + 1
    /\ verdict' = IF depth' > limit.depth THEN "depth" ELSE "reading"
    /\ UNCHANGED <<body, limit, cut, keys>>

\* Mutant: the depth is not taken back.
CloseKept ==
    /\ verdict = "reading"
    /\ ahead[Top] = <<>> /\ Top > 1
    /\ ahead' = SubSeq(ahead, 1, Top - 1)
    /\ UNCHANGED <<body, limit, cut, depth, keys, verdict>>

\* It returns a '}' or a ']'.
Close ==
    /\ verdict = "reading"
    /\ ahead[Top] = <<>> /\ Top > 1
    /\ ahead' = SubSeq(ahead, 1, Top - 1)
    /\ depth' = depth - 1
    /\ UNCHANGED <<body, limit, cut, keys, verdict>>

\* It returns a key or a scalar.
Element ==
    /\ AtValue /\ ~IsContainer(Head(ahead[Top]))
    /\ ahead' = Taken
    /\ keys' = keys + 1
    /\ verdict' = IF limit.keys > 0 /\ keys' > limit.keys THEN "keys" ELSE "reading"
    /\ UNCHANGED <<body, limit, cut, depth>>

\* Token fails, at the end or where the body breaks off.
TokenFails ==
    /\ verdict = "reading"
    /\ cut \/ ahead = <<(<<>>)>>
    /\ verdict' = "quiet"
    /\ UNCHANGED <<body, limit, ahead, cut, depth, keys>>

Return ==
    /\ verdict \in {"quiet", "depth", "keys"}
    /\ body' = <<>> /\ ahead' = <<>> /\ cut' = FALSE
    /\ limit' = NewNestedDepth(0, 0)
    /\ depth' = 0 /\ keys' = 0
    /\ verdict' = "idle"

Next ==
    \/ \E b \in Bodies, l \in Limits : Detect(b, l)
    \/ Open \/ Close \/ Element \/ TokenFails \/ Return

Spec == Init /\ [][Next]_vars

-----------------------------------------------------------------------------
(***************************************************************************)
(* Properties.                                                             *)
(***************************************************************************)

\* How deep arrays and objects are nested in a document.
Nesting[d \in Documents] ==
    IF d = <<>> THEN 0
      ELSE LET first == IF IsContainer(Head(d)) THEN 1 + Nesting[Head(d).items] ELSE 0
               others == Nesting[Tail(d)]
           IN  IF first > others THEN first ELSE others

\* Its scalars and its objects' keys.
Elements[d \in Documents] ==
    IF d = <<>> THEN 0
      ELSE (IF IsContainer(Head(d)) THEN Elements[Head(d).items] ELSE 1) + Elements[Tail(d)]

TooDeep == Nesting[body] > limit.depth

TooMany == limit.keys > 0 /\ Elements[body] > limit.keys

\* What Detect does report: a body that is read to its end without a report is
\* within both limits, however its values are nested and follow each other.  And
\* nothing else is reported: siblings do not add to the depth, and of a body that
\* breaks off only what the whole of it would be reported for.  (What the
\* documentation says of both limits is ReportsAsDocumented.)
BombsAreReported ==
    /\ verdict = "quiet" /\ ~cut => ~TooDeep /\ ~TooMany
    /\ verdict = "depth" => TooDeep
    /\ verdict = "keys" => TooMany

\* The values of a document, the arrays and objects among them too.
Values[d \in Documents] ==
    IF d = <<>> THEN 0
      ELSE 1 + (IF IsContainer(Head(d)) THEN Values[Head(d).items] ELSE 0) + Values[Tail(d)]

\* "total elements across all arrays and objects" (MaxKeys): all but the outermost.
TooManyElements == limit.keys > 0 /\ Values[body] - Len(body) > limit.keys

\* What the comments say: "Detect streams input as JSON and reports a body bomb
\* when nesting depth exceeds MaxDepth or the element count exceeds MaxKeys.
\* Empty, malformed or non-JSON input is never reported", the elements being the
\* total across all arrays and objects.  The code does not know yet whether the
\* rest is well-formed when a limit is passed, and no array or object counts.
ReportsAsDocumented ==
    /\ verdict \in {"depth", "keys"} => ~cut
    /\ verdict = "quiet" /\ ~cut => ~TooDeep /\ ~TooManyElements
=============================================================================
