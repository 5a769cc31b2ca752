---------------------------- MODULE SessionGuard ----------------------------
(***************************************************************************)
(* The session binding of session.Tracker: Issue, Revoke, Check and the    *)
(* Guard middleware around Check.                                          *)
(*                                                                         *)
(* Check loads the session, loads the lock, compares the request with the  *)
(* binding and saves the session again to slide its TTL.  Nothing ties     *)
(* these Store calls together: a Revoke, an expiry or another Check may    *)
(* come between the load and the save, and any call may fail.  An entry    *)
(* reads as absent as soon as its TTL is over.                             *)
(***************************************************************************)
EXTENDS Integers

CONSTANTS Slots,      \* the goroutines that serve requests
          Tokens,     \* the session tokens
          NoToken,    \* a request without one
          Clients,    \* the clients: [ip, ua, fp]; None where a header is empty
          None,
          NetworkOf,  \* ip -> the network that network() maps it to
          CountryOf,  \* ip -> its country, None when Tracker.CountryOf is nil or
                      \* does not know
          TTL,
          FailClosedModes, \* the settings of Tracker.FailClosed
          Epoch,      \* the clock when the program starts
          MaxTime,    \* bound on the clock
          MaxFaults   \* bound on failing Store calls

\* The module that composes this one assumes it.
SessionAssumption ==
    /\ NoToken \notin Tokens
    /\ TTL \in Nat \ {0} /\ Epoch \in Nat \ {0} /\ MaxTime \in Nat /\ MaxFaults \in Nat
    /\ FailClosedModes \subseteq BOOLEAN
    /\ \A c \in Clients : c.ip \in DOMAIN NetworkOf \cap DOMAIN CountryOf /\ c.ip # None

VARIABLES now,
          failClosed, \* Tracker.FailClosed
          sess,     \* sess:<token>: the binding and when the entry expires
          locked,   \* token -> whether lock:<token> holds a later instant
          slot,     \* slot -> the Check it runs and its local variables
          faults,   \* how many Store calls failed
          issued,   \* history: token -> the client it was issued to
          revoked,  \* history: the tokens whose Revoke returned nil
          renewed,  \* history, with FailClosed: token -> TTL after the last request
                    \* that Guard let through, unless Revoke came since
          last      \* the request that Guard let through in the last step

vars == <<now, failClosed, sess, locked, slot, faults, issued, revoked, renewed, last>>

NoClient == [ip |-> None, ua |-> None, fp |-> None]

NoSession == [live |-> FALSE, bind |-> NoClient, country |-> None, exp |-> 0]

\* late, dead and shut are history: whether, when the request arrived, Revoke had
\* returned for its token; and, with FailClosed, whether the session was over for
\* good then, and whether the token has been locked ever since.
Idle == [pc |-> "idle", token |-> NoToken, client |-> NoClient, s |-> NoSession,
         late |-> FALSE, dead |-> FALSE, shut |-> FALSE]

NoRequest == [token |-> NoToken, client |-> NoClient, blind |-> FALSE, late |-> FALSE,
              dead |-> FALSE, shut |-> FALSE]

Init ==
    /\ now = Epoch
    /\ failClosed \in FailClosedModes
    /\ sess = [t \in Tokens |-> NoSession]
    /\ locked = [t \in Tokens |-> FALSE]
    /\ slot = [w \in Slots |-> Idle]
    /\ faults = 0
    /\ issued = [t \in Tokens |-> NoClient]
    /\ revoked = {}
    /\ renewed = [t \in Tokens |-> 0]
    /\ last = NoRequest

Tick ==
    /\ now < MaxTime
    /\ now' = now + 1
    /\ sess' = [t \in Tokens |-> IF now + 1 <= sess[t].exp THEN sess[t] ELSE NoSession]
    /\ last' = NoRequest
    /\ UNCHANGED <<failClosed, locked, slot, faults, issued, revoked, renewed>>

\* A lockout of the token begins or ends (see LoginGuard).
LockChanges(t) ==
    /\ locked' = [locked EXCEPT ![t] = ~@]
    /\ slot' = [w \in Slots |-> IF slot[w].token = t THEN [slot[w] EXCEPT !.shut = FALSE]
                                                    ELSE slot[w]]
    /\ last' = NoRequest
    /\ UNCHANGED <<now, failClosed, sess, faults, issued, revoked, renewed>>

\* Issue, once per token.  One whose Save fails hands out no token.
Issue(t, c) ==
    /\ issued[t] = NoClient
    /\ issued' = [issued EXCEPT ![t] = c]
    /\ sess' = [sess EXCEPT ![t] = [live |-> TRUE, bind |-> c, country |-> CountryOf[c.ip],
                                    exp |-> now + TTL]]
    /\ last' = NoRequest
    /\ UNCHANGED <<now, failClosed, locked, slot, faults, revoked, renewed>>

\* A Revoke whose Delete fails returns the error and changes nothing.
Revoke(t) ==
    /\ issued[t] # NoClient
    /\ sess' = [sess EXCEPT ![t] = NoSession]
    /\ revoked' = revoked \cup {t}
    /\ renewed' = [renewed EXCEPT ![t] = 0]
    /\ last' = NoRequest
    /\ UNCHANGED <<now, failClosed, locked, slot, faults, issued>>

-----------------------------------------------------------------------------
(***************************************************************************)
(* Check.                                                                  *)
(***************************************************************************)

At(w, pc) == slot[w].pc = pc

Return(w) == slot' = [slot EXCEPT ![w] = Idle]

\* Guard lets the request of slot w through; blind: on a store error.
Pass(w, blind) ==
    /\ last' = [token |-> slot[w].token, client |-> slot[w].client, blind |-> blind,
                late |-> slot[w].late, dead |-> slot[w].dead, shut |-> slot[w].shut]
    /\ renewed' = [renewed EXCEPT ![slot[w].token] = IF failClosed THEN now + TTL ELSE @]
    /\ Return(w)

\* The session of t is over for good: no Check holds a copy of it either.
Over(t) ==
    /\ issued[t] # NoClient /\ ~sess[t].live
    /\ \A w \in Slots : slot[w].token = t => ~slot[w].s.live

\* A request arrives.  One without a token is denied with no Store call.
Arrive(w, t, c) ==
    /\ At(w, "idle")
    /\ slot' = [slot EXCEPT ![w] = [Idle EXCEPT !.pc = "load_session", !.token = t,
                                                !.client = c, !.late = t \in revoked,
                                                !.dead = failClosed /\ Over(t),
                                                !.shut = failClosed /\ locked[t]]]
    /\ last' = NoRequest
    /\ UNCHANGED <<now, failClosed, sess, locked, faults, issued, revoked, renewed>>

\* The lock is looked up before an unknown token is denied.
LoadSession(w) ==
    /\ At(w, "load_session")
    /\ slot' = [slot EXCEPT ![w].s = sess[slot[w].token], ![w].pc = "load_lock"]
    /\ last' = NoRequest
    /\ UNCHANGED <<now, failClosed, sess, locked, faults, issued, revoked, renewed>>

\* verify's comparison: an empty user agent or fingerprint in the binding, an
\* empty fingerprint in the request and an unknown country are not compared.
Matches(s, c) ==
    /\ s.bind.ua # None => c.ua = s.bind.ua
    /\ s.bind.fp # None /\ c.fp # None => c.fp = s.bind.fp
    /\ s.country # None /\ CountryOf[c.ip] # None => CountryOf[c.ip] = s.country
    /\ NetworkOf[c.ip] = NetworkOf[s.bind.ip]

\* Mutant: an unknown token is bound anew instead of denied.
LoadLockReissues(w) ==
    LET q == slot[w] IN
    /\ At(w, "load_lock")
    /\ sess' = [sess EXCEPT ![q.token] =
                  IF ~locked[q.token] /\ ~q.s.live
                    THEN [live |-> TRUE, bind |-> q.client, country |-> CountryOf[q.client.ip],
                          exp |-> now + TTL]
                    ELSE @]
    /\ Return(w)
    /\ last' = NoRequest
    /\ UNCHANGED <<now, failClosed, locked, faults, issued, revoked, renewed>>

LoadLock(w) ==
    LET q == slot[w] IN
    /\ At(w, "load_lock")
    /\ IF ~locked[q.token] /\ q.s.live /\ Matches(q.s, q.client)
         THEN slot' = [slot EXCEPT ![w].pc = "save_session"]
         ELSE Return(w)
    /\ last' = NoRequest
    /\ UNCHANGED <<now, failClosed, sess, locked, faults, issued, revoked, renewed>>

\* Mutant: the binding follows the client.
RenewedFollows(s, c) == [s EXCEPT !.bind = c, !.exp = now + TTL]

\* Mutant: the TTL slides from the last expiry.
RenewedForLonger(s, c) == [s EXCEPT !.exp = @ + TTL]

\* The session that is saved: the one that was loaded, for another TTL.
Renewed(s, c) == [s EXCEPT !.exp = now + TTL]

SaveSession(w) ==
    LET q == slot[w] IN
    /\ At(w, "save_session")
    /\ sess' = [sess EXCEPT ![q.token] = Renewed(q.s, q.client)]
    /\ Pass(w, FALSE)
    /\ UNCHANGED <<now, failClosed, locked, faults, issued, revoked>>

\* A failing Store call: the request is denied, or let through if it may pass.
Fails(w, pc, passes, blind) ==
    /\ At(w, pc)
    /\ faults < MaxFaults
    /\ faults' = faults + 1
    /\ IF passes THEN Pass(w, blind)
                 ELSE Return(w) /\ last' = NoRequest /\ UNCHANGED renewed
    /\ UNCHANGED <<now, failClosed, locked, issued, revoked>>

\* storeError, for the session and for the lock: nothing is known of the request.
LoadSessionFails(w) == Fails(w, "load_session", ~failClosed, TRUE) /\ UNCHANGED sess

LoadLockFails(w) == Fails(w, "load_lock", ~failClosed, TRUE) /\ UNCHANGED sess

\* Mutant: a request that has passed verify is let through in any case.
SaveSessionFailsOpen(w, taken) ==
    LET q == slot[w] IN
    /\ Fails(w, "save_session", TRUE, FALSE)
    /\ sess' = IF taken THEN [sess EXCEPT ![q.token] = Renewed(q.s, q.client)] ELSE sess

\* The Save fails, before or after the session was taken.  verify has a test of
\* FailClosed of its own, and the request has passed the comparison.
SaveSessionFails(w, taken) ==
    LET q == slot[w] IN
    /\ Fails(w, "save_session", ~failClosed, FALSE)
    /\ sess' = IF taken THEN [sess EXCEPT ![q.token] = Renewed(q.s, q.client)] ELSE sess

Next ==
    \/ Tick
    \/ \E t \in Tokens : LockChanges(t) \/ Revoke(t) \/ \E c \in Clients : Issue(t, c)
    \/ \E w \in Slots :
         \/ \E t \in Tokens, c \in Clients : Arrive(w, t, c)
         \/ LoadSession(w) \/ LoadLock(w) \/ SaveSession(w)
         \/ LoadSessionFails(w) \/ LoadLockFails(w)
         \/ \E taken \in BOOLEAN : SaveSessionFails(w, taken)

Spec == Init /\ [][Next]_vars

-----------------------------------------------------------------------------
(***************************************************************************)
(* Properties.                                                             *)
(***************************************************************************)

Values == Clients \cup {NoClient}

Sessions == [live : BOOLEAN, bind : Values,
             country : {CountryOf[i] : i \in DOMAIN CountryOf} \cup {None}, exp : Nat]

\* The type invariant.
TypeOK ==
    /\ now \in Nat
    /\ failClosed \in BOOLEAN
    /\ sess \in [Tokens -> Sessions]
    /\ locked \in [Tokens -> BOOLEAN]
    /\ slot \in [Slots -> [pc : {"idle", "load_session", "load_lock", "save_session"},
                           token : Tokens \cup {NoToken}, client : Values, s : Sessions,
                           late : BOOLEAN, dead : BOOLEAN, shut : BOOLEAN]]
    /\ faults \in Nat
    /\ issued \in [Tokens -> Values]
    /\ revoked \subseteq Tokens
    /\ renewed \in [Tokens -> Nat]

\* The session that Issue bound to client c.
Bound(c) == [live |-> TRUE, bind |-> c, country |-> CountryOf[c.ip], exp |-> 0]

\* However many requests slide one session concurrently, each on its own copy of
\* it, whoever Guard lets through matches the client the token was issued to:
\* the binding does not drift from client to client, nor from network to network.
PassMatchesIssue ==
    last.token # NoToken /\ ~last.blind => Matches(Bound(issued[last.token]), last.client)

\* A session that is over, by expiry or by Revoke, does not come back, unless a
\* Check that loaded it before is still to save it.
DeadStaysDead == [][\A t \in Tokens : Over(t) => ~sess'[t].live]_vars

\* A session never outlives TTL of silence.
SlidesByTTL == \A t \in Tokens : sess[t].live => sess[t].exp \in now .. (now + TTL)

\* "FailClosed rejects requests while the store is unavailable": whichever of the
\* three calls of a Check fails, whoever is let through had a session when the
\* request came, and a token that was not locked throughout, is the client that
\* the token was issued to, and has the session for another TTL, unless a Revoke
\* ends it.
FailClosedHolds ==
    failClosed =>
      /\ last.token # NoToken =>
           /\ ~last.dead /\ ~last.shut
           /\ issued[last.token] # NoClient
           /\ Matches(Bound(issued[last.token]), last.client)
      /\ \A t \in Tokens : now <= renewed[t] => sess[t].live

\* "Logout; the session becomes invalid immediately" (Revoke): no request that
\* arrives after Revoke returned is let through, but for a store error.
RevokeEndsSession == last.late => last.blind
=============================================================================
