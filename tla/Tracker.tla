------------------------------- MODULE Tracker -------------------------------
(***************************************************************************)
(* A session.Tracker's two users of its Store beside the brute-force       *)
(* guard: the known networks, and the sessions with Guard.  Their keys     *)
(* differ, so that a behaviour is one of either, and the other stands      *)
(* still.                                                                  *)
(***************************************************************************)
EXTENDS KnownNets

CONSTANTS Tokens, NoToken, Clients, None, NetworkOf, CountryOf, TTL,
          FailClosedModes  \* of SessionGuard

VARIABLES kind,
          failClosed, sess, locked,
          check,  \* the slots of SessionGuard
          issued, revoked, renewed, last

G == INSTANCE SessionGuard WITH slot <- check

\* What the instance assumes of its constants.
ASSUME TrackerAssumption == G!SessionAssumption

\* The variables that KnownNets and SessionGuard do not share.
netsVars == <<tracker, nets, slot, said, home, trail, until, raced>>

guardVars == <<failClosed, sess, locked, check, issued, revoked, renewed, last>>

allVars == <<kind, vars, guardVars>>

OnNets == kind = "nets" /\ UNCHANGED <<kind, guardVars>>

OnGuard == kind = "guard" /\ UNCHANGED <<kind, netsVars>>

TrackerInit ==
    /\ kind \in {"nets", "guard"}
    /\ Init /\ G!Init
    /\ failClosed = tracker.failClosed

TrackerNext ==
    \/ OnNets /\ Tick
    \/ \E s \in Slots : OnNets /\ ObserveNobody(s)
    \/ \E s \in Slots, u \in Users, r \in Requests : OnNets /\ Observe(s, u, r)
    \/ \E s \in Slots : OnNets /\ LoadNets(s)
    \/ \E s \in Slots : OnNets /\ SaveNets(s)
    \/ \E s \in Slots : OnNets /\ LoadFails(s)
    \/ \E s \in Slots : OnNets /\ SaveFails(s)
    \/ OnGuard /\ G!Tick
    \/ \E t \in Tokens : OnGuard /\ G!LockChanges(t)
    \/ \E t \in Tokens : OnGuard /\ G!Revoke(t)
    \/ \E t \in Tokens, c \in Clients : OnGuard /\ G!Issue(t, c)
    \/ \E w \in Slots, t \in Tokens, c \in Clients : OnGuard /\ G!Arrive(w, t, c)
    \/ \E w \in Slots : OnGuard /\ G!LoadSession(w)
    \/ \E w \in Slots : OnGuard /\ G!LoadLock(w)
    \/ \E w \in Slots : OnGuard /\ G!SaveSession(w)
    \/ \E w \in Slots : OnGuard /\ G!LoadSessionFails(w)
    \/ \E w \in Slots : OnGuard /\ G!LoadLockFails(w)
    \/ \E w \in Slots, taken \in BOOLEAN : OnGuard /\ G!SaveSessionFails(w, taken)

TrackerSpec == TrackerInit /\ [][TrackerNext]_allVars

-----------------------------------------------------------------------------
(***************************************************************************)
(* The properties that SessionGuard states and comments on.                *)
(***************************************************************************)

\* Whoever passes Guard is the client that the token was issued to.
PassMatchesIssue == G!PassMatchesIssue

\* A session does not outlive TTL of silence.
SlidesByTTL == G!SlidesByTTL

\* With FailClosed, no failing call of a Check lets a request through.
FailClosedHolds == G!FailClosedHolds

\* A session that is over does not come back.
DeadStaysDead == G!DeadStaysDead
=============================================================================
