--------------------------- MODULE MCFileBackend ---------------------------
(***************************************************************************)
(* Small instances of FileBackend.  Mutual exclusion makes calls on        *)
(* different keys independent; a second key shows that a save prunes one   *)
(* record and keeps another.                                               *)
(***************************************************************************)
EXTENDS FileBackend, TLC

CONSTANTS k1, k2

OneKey == {k1}

TwoKeys == {k1, k2}

Windows == [k \in Keys |-> IF k = k1 THEN 2 ELSE 1]

EmptyFile == {NoRecords}

\* No file yet, a file of the format before records carried their window, and
\* one whose record is already over.
OldFiles ==
    {NoRecords}
      \cup {[k \in Keys |-> [count |-> 1, windowStart |-> Epoch - a, window |-> 0,
                             blockUntil |-> Epoch + 1]] : a \in 1 .. 2}
=============================================================================
