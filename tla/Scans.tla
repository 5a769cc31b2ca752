-------------------------------- MODULE Scans --------------------------------
(***************************************************************************)
(* IPBlacklist, the pattern detectors, and the two detectors of httpval    *)
(* that do more than compare, side by side: a behaviour is one of what     *)
(* kind names, and the others stand still.                                 *)
(***************************************************************************)
EXTENDS IPBlacklist, Sequences, FiniteSets

CONSTANTS Inputs, Others, MaxResults,                 \* of Detectors
          Documents, Size, Bodies, Limits, DefaultMaxDepth,  \* of NestedDepth
          Headers, Policies                           \* of CookieAttrs

VARIABLES kind,
          engine, registered, stage, input, todo, results,
          body, limit, ahead, cut, depth, keys, bomb,
          header, policy, cookieSaid

P == INSTANCE Detectors

N == INSTANCE NestedDepth WITH verdict <- bomb

C == INSTANCE CookieAttrs WITH verdict <- cookieSaid

\* What the instances assume of their constants.
ASSUME ScansAssumption ==
    P!DetectorsAssumption /\ N!DocumentsAssumption /\ N!LimitsAssumption /\ C!CookieAssumption

scanVars == <<engine, registered, stage, input, todo, results>>

bodyVars == <<body, limit, ahead, cut, depth, keys, bomb>>

cookieVars == <<header, policy, cookieSaid>>

allVars == <<kind, vars, scanVars, bodyVars, cookieVars>>

OnBlacklist == kind = "blacklist" /\ UNCHANGED <<kind, scanVars, bodyVars, cookieVars>>

OnScan == kind = "scan" /\ UNCHANGED <<kind, vars, bodyVars, cookieVars>>

OnBody == kind = "body" /\ UNCHANGED <<kind, vars, scanVars, cookieVars>>

OnCookie == kind = "cookie" /\ UNCHANGED <<kind, vars, scanVars, bodyVars>>

ScansInit ==
    /\ kind \in {"blacklist", "scan", "body", "cookie"}
    /\ Init /\ P!Init /\ N!Init /\ C!Init

ScansNext ==
    \/ OnBlacklist /\ Tick
    \/ \E i \in Ips : OnBlacklist /\ Detect(i)
    \/ \E s \in Slots, i \in Ips : OnBlacklist /\ RecordAttack(s, i)
    \/ \E s \in Slots, i \in Ips : OnBlacklist /\ RecordFails(s, i)
    \/ \E s \in Slots : OnBlacklist /\ Ban(s)
    \/ OnScan /\ P!Register
    \/ OnScan /\ P!Dismiss
    \/ OnScan /\ stage = "idle" /\ \E i \in Inputs : P!Receive(i)
    \/ OnScan /\ \E n \in P!Names : P!Detect(n)
    \/ OnScan /\ P!DetectAll
    \/ OnScan /\ \E n \in todo : P!Run(n)
    \/ OnBody /\ bomb = "idle" /\ \E b \in Bodies, l \in Limits : N!Detect(b, l)
    \/ OnBody /\ N!Open
    \/ OnBody /\ N!Close
    \/ OnBody /\ N!Element
    \/ OnBody /\ N!TokenFails
    \/ OnBody /\ N!Return
    \/ OnCookie /\ cookieSaid = C!Idle /\ \E h \in Headers, p \in Policies : C!Detect(h, p)
    \/ OnCookie /\ C!Return

ScansSpec == ScansInit /\ [][ScansNext]_allVars

-----------------------------------------------------------------------------
(***************************************************************************)
(* The properties that each module states and comments on.                 *)
(***************************************************************************)

\* Pattern detectors: the worst list that an input hits is reported.
WorstWins == P!WorstWins

\* pet.MoodOf: the mascot shows the worst that the built-in detectors know.
MoodIsWorst == P!MoodIsWorst

\* httpval.NestedDepth: a body beyond a limit is reported, and no other.
BombsAreReported == N!BombsAreReported

\* httpval.NestedDepth: its comments' "malformed input is never reported" and
\* "total elements", which the code does not keep to.
ReportsAsDocumented == N!ReportsAsDocumented

\* httpval.CookieAttrs: a cookie that falls short of the policy is reported.
ReportsWhatBrowserLacks == C!ReportsWhatBrowserLacks
=============================================================================
