------------------------- MODULE SessionGuardProofs -------------------------
(***************************************************************************)
(* Whoever Guard lets through, without a store error, matches the client   *)
(* the token was issued to: for any number of concurrent requests, tokens  *)
(* and clients.  With FailClosed no failing call lets anybody else through.*)
(* And what is proved of SessionGuard holds of Tracker, which the run      *)
(* checks.                                                                 *)
(***************************************************************************)
EXTENDS Tracker, TLAPS

\* A copy of the session of t, in the store or in a request, that is live has
\* the binding that Issue gave it.
Faithful(s, t) ==
    s.live => /\ issued[t] \in Clients
              /\ s.bind = issued[t]
              /\ s.country = CountryOf[issued[t].ip]

SlotType == [pc : {"idle", "load_session", "load_lock", "save_session"},
             token : Tokens \cup {NoToken}, client : G!Values, s : G!Sessions,
             late : BOOLEAN, dead : BOOLEAN, shut : BOOLEAN]

StoreFaithful == \A t \in Tokens : Faithful(sess[t], t)

CopiesFaithful ==
    \A w \in Slots : check[w].pc # "idle" =>
      /\ check[w].token \in Tokens
      /\ check[w].client \in Clients
      /\ Faithful(check[w].s, check[w].token)

\* A request about to save its session has passed the comparison.
Compared ==
    \A w \in Slots : check[w].pc = "save_session" =>
      check[w].s.live /\ G!Matches(check[w].s, check[w].client)

LastFaithful ==
    last.token # NoToken /\ ~last.blind =>
      /\ last.token \in Tokens
      /\ issued[last.token] \in Clients
      /\ G!PassMatchesIssue

IInv == G!TypeOK /\ StoreFaithful /\ CopiesFaithful /\ Compared /\ LastFaithful

LEMMA SessionsAssumed ==
    /\ NoToken \notin Tokens
    /\ TTL \in Nat \ {0} /\ Epoch \in Nat \ {0} /\ MaxTime \in Nat /\ MaxFaults \in Nat
    /\ FailClosedModes \subseteq BOOLEAN
    /\ \A c \in Clients : c.ip \in DOMAIN NetworkOf \cap DOMAIN CountryOf /\ c.ip # None
  BY TrackerAssumption DEF G!SessionAssumption

LEMMA NoClientIsNone == G!NoClient \notin Clients
  BY SessionsAssumed DEF G!NoClient

LEMMA InitIInv == G!Init => IInv
<1> SUFFICES ASSUME G!Init PROVE IInv
    OBVIOUS
<1> USE SessionsAssumed
<1>1. G!NoSession \in G!Sessions
  BY DEF G!NoSession, G!Sessions, G!Values
<1>2. G!TypeOK
  BY <1>1 DEF G!Init, G!TypeOK, G!Idle, G!Values
<1>3. StoreFaithful /\ CopiesFaithful /\ Compared
  BY DEF G!Init, StoreFaithful, CopiesFaithful, Compared, Faithful, G!NoSession, G!Idle
<1>4. LastFaithful
  BY DEF G!Init, LastFaithful, G!NoRequest
<1> QED BY <1>2, <1>3, <1>4 DEF IInv

\* The comparison depends on the binding alone.
LEMMA MatchesBound ==
    ASSUME NEW s, NEW c, NEW t, s.live, Faithful(s, t), G!Matches(s, c)
    PROVE  G!Matches(G!Bound(issued[t]), c)
  BY DEF Faithful, G!Matches, G!Bound

\* What every request in progress knows, if slot w alone moves.
LEMMA Copies ==
    ASSUME IInv, NEW w \in Slots, UNCHANGED issued,
           \A v \in Slots \ {w} : check'[v] = check[v],
           check'[w].pc # "idle" => /\ check'[w].token \in Tokens
                                   /\ check'[w].client \in Clients
                                   /\ Faithful(check'[w].s, check'[w].token),
           check'[w].pc = "save_session" =>
             check'[w].s.live /\ G!Matches(check'[w].s, check'[w].client)
    PROVE  CopiesFaithful' /\ Compared'
<1>1. \A r, t : Faithful(r, t)' <=> Faithful(r, t)
  BY DEF Faithful
<1>2. CopiesFaithful'
  <2> SUFFICES ASSUME NEW v \in Slots, check'[v].pc # "idle"
               PROVE  /\ check'[v].token \in Tokens
                      /\ check'[v].client \in Clients
                      /\ Faithful(check'[v].s, check'[v].token)
      BY DEF CopiesFaithful, Faithful
  <2>1. CASE v = w
    BY <2>1
  <2>2. CASE v # w
    BY <2>2 DEF IInv, CopiesFaithful
  <2> QED BY <2>1, <2>2
<1>3. Compared'
  <2> SUFFICES ASSUME NEW v \in Slots, check'[v].pc = "save_session"
               PROVE  check'[v].s.live /\ G!Matches(check'[v].s, check'[v].client)
      BY DEF Compared, G!Matches
  <2>1. CASE v = w
    BY <2>1
  <2>2. CASE v # w
    BY <2>2 DEF IInv, Compared
  <2> QED BY <2>1, <2>2
<1> QED BY <1>2, <1>3

\* A slot that goes idle, and slots that stay as they are.
LEMMA Returning ==
    ASSUME IInv, NEW w \in Slots, check' = [check EXCEPT ![w] = G!Idle], UNCHANGED issued
    PROVE  CopiesFaithful' /\ Compared'
<1>1. check'[w].pc = "idle"
  BY DEF IInv, G!TypeOK, G!Idle
<1>2. \A v \in Slots \ {w} : check'[v] = check[v]
  BY DEF IInv, G!TypeOK
<1> QED BY <1>1, <1>2, Copies

LEMMA IdleType ==
    ASSUME IInv, NEW w \in Slots
    PROVE  [check EXCEPT ![w] = G!Idle] \in
             [Slots -> SlotType]
<1>1. G!NoSession \in G!Sessions
  BY DEF G!NoSession, G!Sessions, G!Values
<1> QED BY <1>1 DEF IInv, G!TypeOK, G!Idle, G!Values, SlotType

\* A request that is over is none.
LEMMA LastReset == last' = G!NoRequest => LastFaithful'
  BY DEF LastFaithful, G!NoRequest

\* A step of slot w that writes no entry and lets no request through.
LEMMA ReadOnly ==
    ASSUME IInv, NEW w \in Slots, last' = G!NoRequest,
           UNCHANGED <<now, failClosed, sess, locked, faults, issued, revoked, renewed>>,
           check' \in [Slots -> SlotType], CopiesFaithful', Compared'
    PROVE  IInv'
<1>1. UNCHANGED now /\ UNCHANGED failClosed /\ UNCHANGED sess /\ UNCHANGED locked
      /\ UNCHANGED faults /\ UNCHANGED issued /\ UNCHANGED revoked /\ UNCHANGED renewed
  OBVIOUS
<1>2. /\ now' \in Nat /\ failClosed' \in BOOLEAN /\ sess' \in [Tokens -> G!Sessions]
      /\ locked' \in [Tokens -> BOOLEAN] /\ faults' \in Nat
      /\ issued' \in [Tokens -> G!Values] /\ revoked' \subseteq Tokens
      /\ renewed' \in [Tokens -> Nat]
  BY <1>1, Zenon DEF IInv, G!TypeOK
<1>3. G!TypeOK'
  BY <1>2, Zenon DEF G!TypeOK, SlotType
<1>4. StoreFaithful'
  <2>1. StoreFaithful
    BY DEF IInv
  <2> QED BY <1>1, <2>1 DEF StoreFaithful, Faithful
<1> QED BY <1>3, <1>4, LastReset DEF IInv

\* A request that ends: denied, let through blindly, or let through after the
\* comparison; its session may have been saved.
LEMMA Finishing ==
    ASSUME IInv, NEW w \in Slots, check[w].pc # "idle",
           check' = [check EXCEPT ![w] = G!Idle],
           UNCHANGED <<now, failClosed, locked, issued, revoked>>, faults' \in Nat,
           \/ UNCHANGED sess
           \/ /\ check[w].pc = "save_session"
              /\ sess' = [sess EXCEPT ![check[w].token] = [check[w].s EXCEPT !.exp = now + TTL]],
           \/ last' = G!NoRequest /\ UNCHANGED renewed
           \/ G!Pass(w, TRUE)
           \/ check[w].pc = "save_session" /\ G!Pass(w, FALSE)
    PROVE  IInv'
<1> USE SessionsAssumed
<1> DEFINE q == check[w]
<1>1. /\ q.token \in Tokens /\ q.client \in Clients /\ Faithful(q.s, q.token)
      /\ q.s \in G!Sessions
  BY DEF IInv, G!TypeOK, CopiesFaithful
<1>2. q.pc = "save_session" => q.s.live /\ G!Matches(q.s, q.client)
  BY DEF IInv, Compared
<1>3. sess' \in [Tokens -> G!Sessions] /\ StoreFaithful'
  <2>1. CASE UNCHANGED sess
    BY <2>1 DEF IInv, G!TypeOK, StoreFaithful, Faithful
  <2>2. CASE sess' = [sess EXCEPT ![q.token] = [q.s EXCEPT !.exp = now + TTL]]
    <3> DEFINE new == [q.s EXCEPT !.exp = now + TTL]
    <3>1. new \in G!Sessions /\ new.live = q.s.live /\ new.bind = q.s.bind
          /\ new.country = q.s.country
      BY <1>1 DEF G!Sessions, IInv, G!TypeOK
    <3>2. sess' = [sess EXCEPT ![q.token] = new]
      BY <2>2
    <3> HIDE DEF new, q
    <3>3. sess' \in [Tokens -> G!Sessions]
      BY <1>1, <3>1, <3>2 DEF IInv, G!TypeOK
    <3>4. sess'[q.token] = new /\ \A t \in Tokens \ {q.token} : sess'[t] = sess[t]
      BY <1>1, <3>2 DEF IInv, G!TypeOK
    <3> QED BY <1>1, <3>1, <3>3, <3>4 DEF IInv, StoreFaithful, Faithful
  <2> QED BY <2>1, <2>2
<1>4. renewed' \in [Tokens -> Nat]
  BY <1>1 DEF G!Pass, IInv, G!TypeOK
<1>5. check' \in [Slots -> SlotType]
  BY IdleType
<1>6. G!TypeOK'
  <2>1. /\ now' \in Nat /\ failClosed' \in BOOLEAN /\ locked' \in [Tokens -> BOOLEAN]
        /\ issued' \in [Tokens -> G!Values] /\ revoked' \subseteq Tokens
    BY DEF IInv, G!TypeOK
  <2> QED BY <1>3, <1>4, <1>5, <2>1, Zenon DEF G!TypeOK, SlotType
<1>7. LastFaithful'
  <2>1. CASE last' = G!NoRequest
    BY <2>1, LastReset
  <2>2. CASE G!Pass(w, TRUE)
    BY <2>2 DEF G!Pass, LastFaithful
  <2>3. CASE q.pc = "save_session" /\ G!Pass(w, FALSE)
    <3>1. G!Matches(G!Bound(issued[q.token]), q.client)
      BY <1>1, <1>2, <2>3, MatchesBound
    <3>2. issued[q.token] \in Clients
      BY <1>1, <1>2, <2>3 DEF Faithful
    <3>3. last'.token = q.token /\ last'.client = q.client /\ UNCHANGED issued
      BY <2>3 DEF G!Pass
    <3> HIDE DEF q
    <3> QED BY <1>1, <3>1, <3>2, <3>3 DEF LastFaithful, G!PassMatchesIssue, G!Bound, G!Matches
  <2> QED BY <2>1, <2>2, <2>3
<1> QED BY <1>3, <1>6, <1>7, Returning DEF IInv

LEMMA NextIInv == IInv /\ [G!Next]_(G!vars) => IInv'
<1> SUFFICES ASSUME IInv, [G!Next]_(G!vars) PROVE IInv'
    OBVIOUS
<1> USE SessionsAssumed
<1>0. G!NoSession \in G!Sessions /\ ~G!NoSession.live
  BY DEF G!NoSession, G!Sessions, G!Values
<1>1. CASE G!Tick
  <2>1. \A t \in Tokens : sess'[t] = sess[t] \/ sess'[t] = G!NoSession
    BY <1>1 DEF G!Tick
  <2>2. G!TypeOK'
    BY <1>0, <1>1 DEF G!Tick, IInv, G!TypeOK
  <2>3. StoreFaithful'
    BY <1>0, <1>1, <2>1 DEF G!Tick, IInv, StoreFaithful, Faithful
  <2>4. CopiesFaithful' /\ Compared'
    BY <1>1 DEF G!Tick, IInv, CopiesFaithful, Compared, Faithful, G!Matches
  <2>5. LastFaithful'
    BY <1>1, LastReset DEF G!Tick
  <2> QED BY <2>2, <2>3, <2>4, <2>5 DEF IInv
<1>2. ASSUME NEW t \in Tokens, G!LockChanges(t) PROVE IInv'
  <2>1. \A w \in Slots : /\ check'[w].pc = check[w].pc /\ check'[w].token = check[w].token
                         /\ check'[w].client = check[w].client /\ check'[w].s = check[w].s
                         /\ check'[w] \in SlotType
    <3> SUFFICES ASSUME NEW w \in Slots
                 PROVE  /\ check'[w].pc = check[w].pc /\ check'[w].token = check[w].token
                        /\ check'[w].client = check[w].client /\ check'[w].s = check[w].s
                        /\ check'[w] \in SlotType
        OBVIOUS
    <3>1. check[w] \in SlotType
      BY DEF IInv, G!TypeOK, SlotType
    <3>2. check'[w] = check[w] \/ check'[w] = [check[w] EXCEPT !.shut = FALSE]
      BY <1>2 DEF G!LockChanges
    <3>3. CASE check'[w] = check[w]
      BY <3>1, <3>3
    <3>4. CASE check'[w] = [check[w] EXCEPT !.shut = FALSE]
      BY <3>1, <3>4 DEF SlotType
    <3> QED BY <3>2, <3>3, <3>4
  <2>2. /\ UNCHANGED <<now, failClosed, sess, faults, issued, revoked, renewed>>
        /\ last' = G!NoRequest /\ DOMAIN check' = Slots
        /\ check' = [v \in Slots |-> check'[v]]
    BY <1>2 DEF G!LockChanges
  <2>3. locked' \in [Tokens -> BOOLEAN]
    BY <1>2 DEF G!LockChanges, IInv, G!TypeOK
  <2>4. check' \in [Slots -> SlotType]
    BY <2>1, <2>2
  <2>5. G!TypeOK'
    BY <2>2, <2>3, <2>4 DEF IInv, G!TypeOK, SlotType
  <2>6. StoreFaithful' /\ CopiesFaithful' /\ Compared'
    BY <2>1, <2>2 DEF IInv, StoreFaithful, CopiesFaithful, Compared, Faithful, G!Matches
  <2> QED BY <2>2, <2>5, <2>6, LastReset DEF IInv
<1>3. ASSUME NEW t \in Tokens, G!Revoke(t) PROVE IInv'
  <2>1. G!TypeOK'
    BY <1>0, <1>3 DEF G!Revoke, IInv, G!TypeOK
  <2>2. StoreFaithful'
    BY <1>0, <1>3 DEF G!Revoke, IInv, G!TypeOK, StoreFaithful, Faithful
  <2>3. LastFaithful'
    BY <1>3, LastReset DEF G!Revoke
  <2> QED BY <1>3, <2>1, <2>2, <2>3 DEF G!Revoke, IInv, CopiesFaithful, Compared, Faithful,
             G!Matches
<1>4. ASSUME NEW t \in Tokens, NEW c \in Clients, G!Issue(t, c) PROVE IInv'
  <2>1. issued[t] \notin Clients
    BY <1>4, NoClientIsNone DEF G!Issue
  <2>2. \A u \in Tokens \ {t} : issued'[u] = issued[u] /\ sess'[u] = sess[u]
    BY <1>4 DEF G!Issue, IInv, G!TypeOK
  <2>3. /\ issued'[t] = c
        /\ sess'[t] = [live |-> TRUE, bind |-> c, country |-> CountryOf[c.ip], exp |-> now + TTL]
    BY <1>4 DEF G!Issue, IInv, G!TypeOK
  <2>4. sess'[t] \in G!Sessions
    BY <2>3 DEF G!Sessions, G!Values, IInv, G!TypeOK
  <2>5. G!TypeOK'
    BY <1>4, <2>4 DEF G!Issue, IInv, G!TypeOK, G!Values
  <2>6. StoreFaithful'
    BY <2>2, <2>3 DEF IInv, StoreFaithful, Faithful
  <2>7. CopiesFaithful' /\ Compared'
    <3>1. UNCHANGED check
      BY <1>4 DEF G!Issue
    <3>2. Compared'
      BY <3>1 DEF IInv, Compared, G!Matches
    <3>3. ASSUME NEW w \in Slots, check[w].pc # "idle"
          PROVE  /\ check[w].token \in Tokens /\ check[w].client \in Clients
                 /\ Faithful(check[w].s, check[w].token)'
      <4>1. /\ check[w].token \in Tokens /\ check[w].client \in Clients
            /\ Faithful(check[w].s, check[w].token)
        BY <3>3 DEF IInv, CopiesFaithful
      <4>2. CASE check[w].token = t
        BY <2>1, <3>1, <4>1, <4>2 DEF Faithful
      <4>3. CASE check[w].token # t
        BY <2>2, <3>1, <4>1, <4>3 DEF Faithful
      <4> QED BY <4>1, <4>2, <4>3
    <3> QED BY <3>1, <3>2, <3>3 DEF CopiesFaithful
  <2>8. LastFaithful'
    BY <1>4, LastReset DEF G!Issue
  <2> QED BY <2>5, <2>6, <2>7, <2>8 DEF IInv
<1>5. ASSUME NEW w \in Slots, NEW t \in Tokens, NEW c \in Clients, G!Arrive(w, t, c) PROVE IInv'
  <2>1. /\ check'[w] = [pc |-> "load_session", token |-> t, client |-> c, s |-> G!NoSession,
                        late |-> t \in revoked, dead |-> failClosed /\ G!Over(t),
                        shut |-> failClosed /\ locked[t]]
    BY <1>5 DEF G!Arrive, G!Idle, IInv, G!TypeOK
  <2>2. \A v \in Slots \ {w} : check'[v] = check[v]
    BY <1>5 DEF G!Arrive, IInv, G!TypeOK
  <2>3. check'[w] \in SlotType
    <3> DEFINE late == t \in revoked
               dead == failClosed /\ G!Over(t)
               shut == failClosed /\ locked[t]
    <3>1. late \in BOOLEAN /\ dead \in BOOLEAN /\ shut \in BOOLEAN
      <4>1. late \in BOOLEAN
        OBVIOUS
      <4>2. dead \in BOOLEAN
        OBVIOUS
      <4>3. shut \in BOOLEAN
        OBVIOUS
      <4> QED BY <4>1, <4>2, <4>3
    <3>2. check'[w] = [pc |-> "load_session", token |-> t, client |-> c, s |-> G!NoSession,
                       late |-> late, dead |-> dead, shut |-> shut]
      BY <2>1, Zenon
    <3> HIDE DEF late, dead, shut
    <3>3. PICK l, d, h \in BOOLEAN :
            check'[w] = [pc |-> "load_session", token |-> t, client |-> c, s |-> G!NoSession,
                         late |-> l, dead |-> d, shut |-> h]
      BY <3>1, <3>2, Zenon
    <3> QED BY <1>0, <3>3 DEF SlotType, G!Values
  <2>4. check' = [check EXCEPT ![w] = check'[w]]
    BY <1>5 DEF G!Arrive, IInv, G!TypeOK
  <2>5. check' \in [Slots -> SlotType]
    BY <2>3, <2>4 DEF IInv, G!TypeOK, SlotType
  <2>6. /\ check'[w].pc = "load_session" /\ check'[w].token = t /\ check'[w].client = c
        /\ ~check'[w].s.live
    BY <1>0, <2>1
  <2>7. /\ last' = G!NoRequest
        /\ UNCHANGED <<now, failClosed, sess, locked, faults, issued, revoked, renewed>>
    BY <1>5 DEF G!Arrive
  <2>8. CopiesFaithful' /\ Compared'
    BY <2>2, <2>6, <2>7, Copies DEF Faithful
  <2> QED BY <2>5, <2>7, <2>8, ReadOnly
<1>6. ASSUME NEW w \in Slots, G!LoadSession(w) PROVE IInv'
  <2>1. check[w].token \in Tokens /\ check[w].client \in Clients
    BY <1>6 DEF G!LoadSession, G!At, IInv, CopiesFaithful
  <2>2. PICK r \in G!Sessions : r = sess[check[w].token]
    BY <2>1 DEF IInv, G!TypeOK
  <2> DEFINE new == [check[w] EXCEPT !.s = r, !.pc = "load_lock"]
  <2>3. check \in [Slots -> SlotType]
    BY DEF IInv, G!TypeOK, SlotType
  <2>4. /\ new \in SlotType /\ new.pc = "load_lock" /\ new.s = r
        /\ new.token = check[w].token /\ new.client = check[w].client
    BY <2>3 DEF SlotType
  <2>5. check' = [check EXCEPT ![w] = new]
    BY <1>6, <2>2, <2>3 DEF G!LoadSession
  <2> HIDE DEF new
  <2>6. /\ check' \in [Slots -> SlotType] /\ check'[w] = new
        /\ \A v \in Slots \ {w} : check'[v] = check[v]
    BY <2>3, <2>4, <2>5
  <2>7. Faithful(r, check[w].token)
    BY <2>1, <2>2 DEF IInv, StoreFaithful
  <2>8. /\ last' = G!NoRequest
        /\ UNCHANGED <<now, failClosed, sess, locked, faults, issued, revoked, renewed>>
    BY <1>6 DEF G!LoadSession
  <2>9. CopiesFaithful' /\ Compared'
    BY <2>1, <2>4, <2>6, <2>7, <2>8, Copies
  <2> QED BY <2>6, <2>8, <2>9, ReadOnly
<1>7. ASSUME NEW w \in Slots, G!LoadLock(w) PROVE IInv'
  <2>1. /\ last' = G!NoRequest
        /\ UNCHANGED <<now, failClosed, sess, locked, faults, issued, revoked, renewed>>
    BY <1>7 DEF G!LoadLock
  <2>2. ASSUME check' = [check EXCEPT ![w] = G!Idle] PROVE IInv'
    <3>1. check' \in [Slots -> SlotType]
      BY <2>2, IdleType DEF SlotType
    <3> QED BY <2>1, <2>2, <3>1, Returning, ReadOnly
  <2>3. ASSUME check[w].s.live, G!Matches(check[w].s, check[w].client),
               check' = [check EXCEPT ![w].pc = "save_session"]
        PROVE  IInv'
    <3> DEFINE new == [check[w] EXCEPT !.pc = "save_session"]
    <3>1. check \in [Slots -> SlotType]
      BY DEF IInv, G!TypeOK, SlotType
    <3>2. /\ new \in SlotType /\ new.pc = "save_session" /\ new.s = check[w].s
          /\ new.token = check[w].token /\ new.client = check[w].client
      BY <3>1 DEF SlotType
    <3>3. check' = [check EXCEPT ![w] = new]
      BY <2>3, <3>1
    <3> HIDE DEF new
    <3>4. /\ check' \in [Slots -> SlotType] /\ check'[w] = new
          /\ \A v \in Slots \ {w} : check'[v] = check[v]
      BY <3>1, <3>2, <3>3
    <3>5. /\ check[w].token \in Tokens /\ check[w].client \in Clients
          /\ Faithful(check[w].s, check[w].token)
      BY <1>7 DEF G!LoadLock, G!At, IInv, CopiesFaithful
    <3>6. CopiesFaithful' /\ Compared'
      BY <2>1, <2>3, <3>2, <3>4, <3>5, Copies
    <3> QED BY <2>1, <3>4, <3>6, ReadOnly
  <2> QED BY <1>7, <2>2, <2>3 DEF G!LoadLock, G!Return
<1>8. ASSUME NEW w \in Slots, G!SaveSession(w) PROVE IInv'
  BY <1>8, Finishing DEF G!SaveSession, G!At, G!Pass, G!Return, G!Renewed, IInv, G!TypeOK
<1>9. ASSUME NEW w \in Slots, G!LoadSessionFails(w) PROVE IInv'
  BY <1>9, Finishing DEF G!LoadSessionFails, G!Fails, G!At, G!Pass, G!Return, IInv, G!TypeOK
<1>10. ASSUME NEW w \in Slots, G!LoadLockFails(w) PROVE IInv'
  BY <1>10, Finishing DEF G!LoadLockFails, G!Fails, G!At, G!Pass, G!Return, IInv, G!TypeOK
<1>11. ASSUME NEW w \in Slots, NEW taken \in BOOLEAN, G!SaveSessionFails(w, taken) PROVE IInv'
  <2>1. /\ check[w].pc = "save_session" /\ check[w].pc # "idle" /\ faults' \in Nat
        /\ check' = [check EXCEPT ![w] = G!Idle]
        /\ UNCHANGED <<now, failClosed, locked, issued, revoked>>
    BY <1>11 DEF G!SaveSessionFails, G!Fails, G!At, G!Pass, G!Return, IInv, G!TypeOK
  <2>2. \/ UNCHANGED sess
        \/ sess' = [sess EXCEPT ![check[w].token] = [check[w].s EXCEPT !.exp = now + TTL]]
    BY <1>11 DEF G!SaveSessionFails, G!Renewed
  <2>3. (last' = G!NoRequest /\ UNCHANGED renewed) \/ G!Pass(w, FALSE)
    BY <1>11 DEF G!SaveSessionFails, G!Fails
  <2> QED BY <2>1, <2>2, <2>3, Finishing
<1>12. CASE UNCHANGED G!vars
  BY <1>12 DEF G!vars, IInv, G!TypeOK, StoreFaithful, CopiesFaithful, Compared, LastFaithful,
     G!PassMatchesIssue, Faithful, G!Matches, G!Bound
<1> QED BY <1>1, <1>2, <1>3, <1>4, <1>5, <1>6, <1>7, <1>8, <1>9, <1>10, <1>11, <1>12 DEF G!Next

\* No request passes Guard, but for a store error, that does not match the
\* client its token was issued to: concurrent renewals never move the binding.
THEOREM SessionPassMatchesIssue == G!Spec => []PassMatchesIssue
<1>1. IInv => PassMatchesIssue
  BY DEF IInv, LastFaithful, PassMatchesIssue, G!PassMatchesIssue
<1> QED BY <1>1, InitIInv, NextIInv, PTL DEF G!Spec

\* No session lives longer than TTL after it was last saved, whatever copies of
\* it the concurrent renewals write back.
THEOREM SessionSlides == G!Spec => []SlidesByTTL
<1>1. G!Init => SlidesByTTL
  BY DEF G!Init, SlidesByTTL, G!SlidesByTTL, G!NoSession
<1>2. IInv /\ SlidesByTTL /\ [G!Next]_(G!vars) => SlidesByTTL'
  <2> SUFFICES ASSUME IInv, SlidesByTTL, [G!Next]_(G!vars) PROVE SlidesByTTL'
    OBVIOUS
  <2> USE SessionsAssumed
  <2>1. CASE G!Tick
    BY <2>1 DEF G!Tick, SlidesByTTL, G!SlidesByTTL, G!NoSession, IInv, G!TypeOK, G!Sessions
  <2>2. ASSUME NEW t \in Tokens, NEW c \in Clients, G!Issue(t, c) PROVE SlidesByTTL'
    BY <2>2 DEF G!Issue, SlidesByTTL, G!SlidesByTTL, IInv, G!TypeOK
  <2>3. ASSUME NEW t \in Tokens, G!Revoke(t) PROVE SlidesByTTL'
    BY <2>3 DEF G!Revoke, SlidesByTTL, G!SlidesByTTL, G!NoSession, IInv, G!TypeOK
  <2>4. ASSUME NEW w \in Slots, G!At(w, "save_session"), UNCHANGED now,
               \/ UNCHANGED sess
               \/ sess' = [sess EXCEPT ![check[w].token] = G!Renewed(check[w].s, check[w].client)]
        PROVE  SlidesByTTL'
    <3>1. CASE UNCHANGED sess
      BY <2>4, <3>1 DEF SlidesByTTL, G!SlidesByTTL
    <3>2. CASE sess' = [sess EXCEPT ![check[w].token] = G!Renewed(check[w].s, check[w].client)]
      <4>1. check[w].token \in Tokens /\ check[w].s \in G!Sessions
        BY <2>4 DEF G!At, IInv, G!TypeOK, CopiesFaithful
      <4>2. /\ sess'[check[w].token].exp = now + TTL
            /\ \A t \in Tokens \ {check[w].token} : sess'[t] = sess[t]
        BY <3>2, <4>1 DEF G!Renewed, G!Sessions, IInv, G!TypeOK
      <4> QED BY <2>4, <4>1, <4>2 DEF SlidesByTTL, G!SlidesByTTL, IInv, G!TypeOK
    <3> QED BY <2>4, <3>1, <3>2
  <2>5. ASSUME NEW w \in Slots, G!SaveSession(w) PROVE SlidesByTTL'
    BY <2>4, <2>5 DEF G!SaveSession
  <2>6. ASSUME NEW w \in Slots, NEW taken \in BOOLEAN, G!SaveSessionFails(w, taken)
        PROVE  SlidesByTTL'
    BY <2>4, <2>6 DEF G!SaveSessionFails, G!Fails
  <2>7. CASE UNCHANGED <<now, sess>>
    BY <2>7 DEF SlidesByTTL, G!SlidesByTTL
  <2> QED BY <2>1, <2>2, <2>3, <2>5, <2>6, <2>7
          DEF G!Next, G!vars, G!LockChanges, G!Arrive, G!LoadSession, G!LoadLock,
              G!LoadSessionFails, G!LoadLockFails, G!Fails
<1> QED BY <1>1, <1>2, InitIInv, NextIInv, PTL DEF G!Spec

-----------------------------------------------------------------------------

LEMMA DeadStep ==
    ASSUME IInv, [G!Next]_(G!vars), NEW t \in Tokens, G!Over(t)
    PROVE  ~sess'[t].live
<1>0. ~G!NoSession.live /\ sess \in [Tokens -> G!Sessions]
  BY DEF G!NoSession, IInv, G!TypeOK
<1>1. CASE G!Tick
  BY <1>0, <1>1 DEF G!Tick, G!Over
<1>2. ASSUME NEW u \in Tokens, NEW c \in Clients, G!Issue(u, c) PROVE sess'[t] = sess[t]
  BY <1>0, <1>2 DEF G!Issue, G!Over
<1>3. ASSUME NEW u \in Tokens, G!Revoke(u) PROVE sess'[t] \in {sess[t], G!NoSession}
  BY <1>0, <1>3 DEF G!Revoke, G!Over
<1>4. ASSUME NEW w \in Slots, G!At(w, "save_session"),
             sess' = [sess EXCEPT ![check[w].token] = G!Renewed(check[w].s, check[w].client)]
      PROVE  sess'[t] = sess[t]
  <2>1. check[w].s.live
    BY <1>4 DEF G!At, IInv, Compared
  <2>2. check[w].token # t
    BY <2>1 DEF G!Over
  <2> QED BY <1>0, <1>4, <2>2
<1>5. ASSUME NEW w \in Slots, G!SaveSession(w) PROVE sess'[t] = sess[t]
  BY <1>4, <1>5 DEF G!SaveSession
<1>6. ASSUME NEW w \in Slots, NEW taken \in BOOLEAN, G!SaveSessionFails(w, taken)
      PROVE  sess'[t] = sess[t]
  BY <1>4, <1>6 DEF G!SaveSessionFails, G!Fails
<1>7. CASE UNCHANGED sess
  BY <1>7 DEF G!Over
<1> QED BY <1>0, <1>1, <1>2, <1>3, <1>5, <1>6, <1>7
        DEF G!Over, G!Next, G!vars, G!LockChanges, G!Arrive, G!LoadSession, G!LoadLock,
            G!LoadSessionFails, G!LoadLockFails

-----------------------------------------------------------------------------
(***************************************************************************)
(* FailClosed.  What a request in progress knows of when it arrived: its   *)
(* session is still over, its token still locked; and what a request that  *)
(* was let through renewed is still in the store.                          *)
(***************************************************************************)

StillOver ==
    \A w \in Slots, t \in Tokens :
      check[w].pc # "idle" /\ check[w].token = t /\ check[w].dead => G!Over(t)

StillLocked ==
    \A w \in Slots : check[w].pc # "idle" /\ check[w].shut =>
      locked[check[w].token] /\ check[w].pc # "save_session"

StillRenewed ==
    failClosed => \A t \in Tokens :
      /\ renewed[t] <= now + TTL
      /\ now <= renewed[t] => sess[t].live /\ renewed[t] <= sess[t].exp

LastClosed ==
    failClosed /\ last.token # NoToken =>
      /\ ~last.dead /\ ~last.shut
      /\ issued[last.token] # G!NoClient
      /\ G!Matches(G!Bound(issued[last.token]), last.client)

ClosedInv == now > 0 /\ StillOver /\ StillLocked /\ StillRenewed /\ LastClosed

\* The four things a step does to a slot.
LEMMA SlotMoves ==
    ASSUME IInv, [G!Next]_(G!vars), NEW w \in Slots
    PROVE  \/ /\ check'[w].pc = check[w].pc /\ check'[w].token = check[w].token
              /\ check'[w].s = check[w].s /\ check'[w].dead = check[w].dead
              /\ check'[w].shut => check[w].shut
           \/ check'[w] = G!Idle
           \/ \E t \in Tokens, c \in Clients : G!Arrive(w, t, c)
           \/ G!LoadSession(w)
           \/ G!LoadLock(w) /\ check' = [check EXCEPT ![w].pc = "save_session"]
<1> DEFINE Stays == /\ check'[w].pc = check[w].pc /\ check'[w].token = check[w].token
                    /\ check'[w].s = check[w].s /\ check'[w].dead = check[w].dead
                    /\ check'[w].shut => check[w].shut
<1>0. check \in [Slots -> SlotType]
  BY DEF IInv, G!TypeOK, SlotType
<1>1. CASE UNCHANGED check
  BY <1>1
<1>2. ASSUME NEW t \in Tokens, G!LockChanges(t) PROVE Stays
  <2>1. check'[w] = check[w] \/ check'[w] = [check[w] EXCEPT !.shut = FALSE]
    BY <1>2 DEF G!LockChanges
  <2>2. CASE check'[w] = check[w]
    BY <2>2
  <2>3. CASE check'[w] = [check[w] EXCEPT !.shut = FALSE]
    BY <1>0, <2>3 DEF SlotType
  <2> QED BY <2>1, <2>2, <2>3
<1>3. ASSUME NEW v \in Slots, v # w, NEW r, check' = [check EXCEPT ![v] = r] PROVE Stays
  BY <1>0, <1>3
<1>4. ASSUME NEW v \in Slots, G!Return(v) PROVE check'[w] = G!Idle \/ Stays
  BY <1>0, <1>4 DEF G!Return
<1>5. ASSUME NEW v \in Slots, NEW t \in Tokens, NEW c \in Clients, G!Arrive(v, t, c)
      PROVE  Stays \/ G!Arrive(w, t, c)
  BY <1>3, <1>5 DEF G!Arrive
<1>6. ASSUME NEW v \in Slots, G!LoadSession(v) PROVE Stays \/ G!LoadSession(w)
  BY <1>0, <1>6 DEF G!LoadSession
<1>7. ASSUME NEW v \in Slots, G!LoadLock(v)
      PROVE  \/ Stays \/ check'[w] = G!Idle
             \/ G!LoadLock(w) /\ check' = [check EXCEPT ![w].pc = "save_session"]
  BY <1>0, <1>4, <1>7 DEF G!LoadLock
<1> HIDE DEF Stays
<1>8. Stays \/ check'[w] = G!Idle \/ (\E t \in Tokens, c \in Clients : G!Arrive(w, t, c))
      \/ G!LoadSession(w) \/ (G!LoadLock(w) /\ check' = [check EXCEPT ![w].pc = "save_session"])
  <2>1. CASE G!Tick \/ (\E t \in Tokens : G!Revoke(t)) \/ UNCHANGED G!vars
             \/ (\E t \in Tokens, c \in Clients : G!Issue(t, c))
    <3>1. UNCHANGED check
      BY <2>1 DEF G!Tick, G!Revoke, G!Issue, G!vars
    <3> QED BY <3>1 DEF Stays
  <2>2. ASSUME NEW v \in Slots, G!SaveSession(v) \/ G!LoadSessionFails(v) \/ G!LoadLockFails(v)
                                 \/ \E taken \in BOOLEAN : G!SaveSessionFails(v, taken)
        PROVE  G!Return(v)
    BY <2>2 DEF G!SaveSession, G!LoadSessionFails, G!LoadLockFails, G!SaveSessionFails,
       G!Fails, G!Pass
  <2> QED BY <1>2, <1>4, <1>5, <1>6, <1>7, <2>1, <2>2 DEF G!Next
<1> QED BY <1>8 DEF Stays

LEMMA ClosedInit == G!Init => ClosedInv
  BY SessionsAssumed DEF G!Init, ClosedInv, StillOver, StillLocked, StillRenewed, LastClosed,
     G!Idle, G!NoRequest

LEMMA IssuedOnce ==
    ASSUME [G!Next]_(G!vars), IInv, NEW t \in Tokens, issued[t] # G!NoClient
    PROVE  issued'[t] = issued[t]
<1>1. ASSUME NEW u \in Tokens, NEW c \in Clients, G!Issue(u, c) PROVE issued'[t] = issued[t]
  BY <1>1 DEF G!Issue, IInv, G!TypeOK
<1> QED BY <1>1 DEF G!Next, G!vars, G!Tick, G!LockChanges, G!Revoke, G!Arrive, G!LoadSession,
           G!LoadLock, G!SaveSession, G!LoadSessionFails, G!LoadLockFails, G!SaveSessionFails,
           G!Fails

\* What a slot is after it took a copy, or passed the comparison.
LEMMA Loaded ==
    ASSUME IInv, NEW w \in Slots
    PROVE  /\ G!LoadSession(w) =>
                /\ check[w].pc = "load_session" /\ check'[w].pc = "load_lock"
                /\ check[w].token \in Tokens
                /\ check'[w].token = check[w].token /\ check'[w].s = sess[check[w].token]
                /\ check'[w].dead = check[w].dead /\ check'[w].shut = check[w].shut
           /\ G!LoadLock(w) /\ check' = [check EXCEPT ![w].pc = "save_session"] =>
                /\ check[w].pc = "load_lock" /\ check'[w].pc = "save_session"
                /\ check[w].token \in Tokens
                /\ check'[w].token = check[w].token /\ check'[w].s = check[w].s
                /\ check'[w].dead = check[w].dead /\ check'[w].shut = check[w].shut
<1>1. check \in [Slots -> SlotType]
  BY DEF IInv, G!TypeOK, SlotType
<1>2. check[w].pc # "idle" => check[w].token \in Tokens
  BY DEF IInv, CopiesFaithful
<1>3. ASSUME G!LoadSession(w)
      PROVE  /\ check[w].pc = "load_session" /\ check'[w].pc = "load_lock"
             /\ check'[w].token = check[w].token /\ check'[w].s = sess[check[w].token]
             /\ check'[w].dead = check[w].dead /\ check'[w].shut = check[w].shut
  BY <1>1, <1>3 DEF G!LoadSession, G!At, SlotType
<1>4. ASSUME G!LoadLock(w), check' = [check EXCEPT ![w].pc = "save_session"]
      PROVE  /\ check[w].pc = "load_lock" /\ check'[w].pc = "save_session"
             /\ check'[w].token = check[w].token /\ check'[w].s = check[w].s
             /\ check'[w].dead = check[w].dead /\ check'[w].shut = check[w].shut
  <2>1. check[w].pc = "load_lock"
    BY <1>4 DEF G!LoadLock, G!At
  <2> QED BY <1>1, <1>4, <2>1 DEF SlotType
<1> QED BY <1>2, <1>3, <1>4

LEMMA Arrived ==
    ASSUME IInv, NEW w \in Slots, NEW t \in Tokens, NEW c \in Clients, G!Arrive(w, t, c)
    PROVE  /\ check'[w].pc = "load_session" /\ check'[w].token = t /\ ~check'[w].s.live
           /\ check'[w].dead => G!Over(t)
           /\ check'[w].shut => locked[t]
           /\ UNCHANGED locked
<1>1. check'[w] = [pc |-> "load_session", token |-> t, client |-> c, s |-> G!NoSession,
                   late |-> t \in revoked, dead |-> failClosed /\ G!Over(t),
                   shut |-> failClosed /\ locked[t]]
  BY DEF G!Arrive, G!Idle, IInv, G!TypeOK
<1>2. /\ check'[w].pc = "load_session" /\ check'[w].token = t /\ ~check'[w].s.live
  BY <1>1 DEF G!NoSession
<1> DEFINE late == t \in revoked
           dead == failClosed /\ G!Over(t)
           shut == failClosed /\ locked[t]
<1>3. check'[w] = [pc |-> "load_session", token |-> t, client |-> c, s |-> G!NoSession,
                   late |-> late, dead |-> dead, shut |-> shut]
  BY <1>1, Zenon
<1> HIDE DEF late, dead, shut
<1>4. \E l, d, h : /\ check'[w] = [pc |-> "load_session", token |-> t, client |-> c,
                                   s |-> G!NoSession, late |-> l, dead |-> d, shut |-> h]
                  /\ l = late /\ d = dead /\ h = shut
  BY <1>3, Zenon
<1>5. PICK l, d, h : /\ check'[w] = [pc |-> "load_session", token |-> t, client |-> c,
                                    s |-> G!NoSession, late |-> l, dead |-> d, shut |-> h]
                     /\ l = late /\ d = dead /\ h = shut
  BY <1>4, Zenon
<1>6. check'[w].dead = d /\ check'[w].shut = h
  BY <1>5
<1> QED BY <1>2, <1>5, <1>6, Zenon DEF G!Arrive, dead, shut

LEMMA OverStays ==
    ASSUME IInv, [G!Next]_(G!vars), NEW t \in Tokens, G!Over(t)
    PROVE  G!Over(t)'
<1>1. issued'[t] # G!NoClient /\ ~sess'[t].live
  BY IssuedOnce, DeadStep DEF G!Over
<1>2. ASSUME NEW w \in Slots, check'[w].token = t PROVE ~check'[w].s.live
  <2>1. CASE check'[w].token = check[w].token /\ check'[w].s = check[w].s
    BY <1>2, <2>1 DEF G!Over
  <2>2. check'[w] # G!Idle
    BY <1>2, SessionsAssumed DEF G!Idle
  <2>3. CASE \E u \in Tokens, c \in Clients : G!Arrive(w, u, c)
    BY <2>3, Arrived
  <2>4. CASE G!LoadSession(w)
    BY <1>2, <2>4, Loaded DEF G!Over
  <2>5. CASE G!LoadLock(w) /\ check' = [check EXCEPT ![w].pc = "save_session"]
    BY <2>1, <2>5, Loaded
  <2> QED BY <2>1, <2>2, <2>3, <2>4, <2>5, SlotMoves
<1> QED BY <1>1, <1>2 DEF G!Over

LEMMA StillOverStep ==
    ASSUME IInv, [G!Next]_(G!vars), StillOver PROVE StillOver'
<1> SUFFICES ASSUME NEW w \in Slots, NEW t \in Tokens,
                    check'[w].pc # "idle", check'[w].token = t, check'[w].dead
             PROVE  G!Over(t)'
    BY DEF StillOver, G!Over
<1> SUFFICES G!Over(t)
    BY OverStays
<1>1. CASE check[w].token = t /\ check[w].pc # "idle" /\ check[w].dead
  BY <1>1 DEF StillOver
<1>2. ASSUME NEW u \in Tokens, NEW c \in Clients, G!Arrive(w, u, c) PROVE G!Over(t)
  BY <1>2, Arrived
<1>3. check'[w] # G!Idle
  BY DEF G!Idle
<1>4. CASE G!LoadSession(w)
  BY <1>1, <1>4, Loaded
<1>5. CASE G!LoadLock(w) /\ check' = [check EXCEPT ![w].pc = "save_session"]
  BY <1>1, <1>5, Loaded
<1> QED BY <1>1, <1>2, <1>3, <1>4, <1>5, SlotMoves

LEMMA StillLockedStep ==
    ASSUME IInv, [G!Next]_(G!vars), StillLocked PROVE StillLocked'
<1> SUFFICES ASSUME NEW w \in Slots, check'[w].pc # "idle", check'[w].shut
             PROVE  locked'[check'[w].token] /\ check'[w].pc # "save_session"
    BY DEF StillLocked
<1>1. check'[w] # G!Idle
  BY DEF G!Idle
<1>2. ASSUME NEW t \in Tokens, G!LockChanges(t)
      PROVE  locked'[check'[w].token] /\ check'[w].pc # "save_session"
  <2>1. check[w] \in SlotType
    BY DEF IInv, G!TypeOK, SlotType
  <2>2. check[w].token # t /\ check'[w] = check[w]
    BY <1>2, <2>1 DEF G!LockChanges, SlotType
  <2>3. locked'[check[w].token] = locked[check[w].token]
    BY <1>2, <2>2 DEF G!LockChanges, IInv, G!TypeOK
  <2> QED BY <2>2, <2>3 DEF StillLocked
<1>3. CASE UNCHANGED locked
  <2>1. CASE G!LoadLock(w) /\ check' = [check EXCEPT ![w].pc = "save_session"]
    <3>1. ~locked[check[w].token]
      <4>1. check[w].pc = "load_lock" /\ check'[w].pc = "save_session"
        BY <2>1, Loaded
      <4>2. check' # [check EXCEPT ![w] = G!Idle]
        BY <1>1 DEF IInv, G!TypeOK
      <4> QED BY <2>1, <4>2 DEF G!LoadLock, G!Return
    <3> QED BY <2>1, <3>1, Loaded DEF StillLocked
  <2>2. CASE G!LoadSession(w)
    BY <1>3, <2>2, Loaded DEF StillLocked
  <2>3. ASSUME NEW t \in Tokens, NEW c \in Clients, G!Arrive(w, t, c)
        PROVE  locked'[check'[w].token] /\ check'[w].pc # "save_session"
    BY <1>3, <2>3, Arrived
  <2>4. CASE /\ check'[w].pc = check[w].pc /\ check'[w].token = check[w].token
             /\ check'[w].shut => check[w].shut
    BY <1>3, <2>4 DEF StillLocked
  <2> QED BY <1>1, <2>1, <2>2, <2>3, <2>4, SlotMoves
<1> QED BY <1>2, <1>3 DEF G!Next, G!vars, G!Tick, G!Issue, G!Revoke, G!Arrive, G!LoadSession,
           G!LoadLock, G!SaveSession, G!LoadSessionFails, G!LoadLockFails, G!SaveSessionFails,
           G!Fails

LEMMA StillRenewedStep ==
    ASSUME IInv, [G!Next]_(G!vars), now > 0, StillRenewed
    PROVE  StillRenewed'
<1> USE SessionsAssumed
<1> SUFFICES ASSUME failClosed', NEW t \in Tokens
             PROVE  /\ renewed'[t] <= now' + TTL
                    /\ now' <= renewed'[t] => sess'[t].live /\ renewed'[t] <= sess'[t].exp
    BY DEF StillRenewed
<1> DEFINE Goal == /\ renewed'[t] <= now' + TTL
                   /\ now' <= renewed'[t] => sess'[t].live /\ renewed'[t] <= sess'[t].exp
<1>0. /\ now \in Nat /\ sess \in [Tokens -> G!Sessions] /\ renewed \in [Tokens -> Nat]
      /\ sess[t].exp \in Nat
  BY DEF IInv, G!TypeOK, G!Sessions
<1>1. failClosed
  BY DEF G!Next, G!vars, G!Tick, G!LockChanges, G!Issue, G!Revoke, G!Arrive, G!LoadSession,
     G!LoadLock, G!SaveSession, G!LoadSessionFails, G!LoadLockFails, G!SaveSessionFails, G!Fails
<1>2. /\ renewed[t] <= now + TTL
      /\ now <= renewed[t] => sess[t].live /\ renewed[t] <= sess[t].exp
  BY <1>1 DEF StillRenewed
<1>3. CASE UNCHANGED <<now, sess, renewed>>
  BY <1>2, <1>3
<1>4. CASE G!Tick
  <2>1. /\ now' = now + 1 /\ UNCHANGED renewed
        /\ sess'[t] = IF now + 1 <= sess[t].exp THEN sess[t] ELSE G!NoSession
    BY <1>0, <1>4 DEF G!Tick
  <2> QED BY <1>0, <1>2, <2>1
<1>5. ASSUME NEW u \in Tokens, NEW c \in Clients, G!Issue(u, c) PROVE Goal
  <2>1. UNCHANGED <<now, renewed>>
    BY <1>5 DEF G!Issue
  <2>2. sess'[t] = sess[t] \/ (sess'[t].live /\ sess'[t].exp = now + TTL)
    BY <1>0, <1>5 DEF G!Issue
  <2> QED BY <1>0, <1>2, <2>1, <2>2
<1>6. ASSUME NEW u \in Tokens, G!Revoke(u) PROVE Goal
  <2>1. CASE u = t
    BY <1>0, <1>6, <2>1 DEF G!Revoke
  <2>2. CASE u # t
    BY <1>0, <1>2, <1>6, <2>2 DEF G!Revoke
  <2> QED BY <2>1, <2>2
<1>7. ASSUME NEW w \in Slots, G!At(w, "save_session"), UNCHANGED now,
             \/ UNCHANGED <<sess, renewed>>
             \/ /\ sess' = [sess EXCEPT ![check[w].token] =
                                          G!Renewed(check[w].s, check[w].client)]
                /\ \/ UNCHANGED renewed
                   \/ renewed' = [renewed EXCEPT ![check[w].token] = now + TTL]
      PROVE  Goal
  <2>1. CASE UNCHANGED <<sess, renewed>>
    BY <1>2, <1>7, <2>1
  <2>2. CASE /\ sess' = [sess EXCEPT ![check[w].token] =
                                         G!Renewed(check[w].s, check[w].client)]
             /\ \/ UNCHANGED renewed
                \/ renewed' = [renewed EXCEPT ![check[w].token] = now + TTL]
    <3>1. check[w].token \in Tokens /\ check[w].s \in G!Sessions /\ check[w].s.live
      BY <1>7 DEF G!At, IInv, G!TypeOK, CopiesFaithful, Compared
    <3>2. CASE check[w].token = t
      <4>1. sess'[t].live /\ sess'[t].exp = now + TTL
        BY <1>0, <2>2, <3>1, <3>2 DEF G!Renewed, G!Sessions
      <4>2. renewed'[t] = renewed[t] \/ renewed'[t] = now + TTL
        BY <1>0, <2>2, <3>1, <3>2
      <4> QED BY <1>0, <1>2, <1>7, <4>1, <4>2
    <3>3. CASE check[w].token # t
      <4>1. sess'[t] = sess[t] /\ renewed'[t] = renewed[t]
        BY <1>0, <2>2, <3>1, <3>3
      <4> QED BY <1>2, <1>7, <4>1
    <3> QED BY <3>2, <3>3
  <2> QED BY <1>7, <2>1, <2>2
<1> HIDE DEF Goal
<1>8. ASSUME NEW w \in Slots, G!SaveSession(w) PROVE Goal
  BY <1>1, <1>7, <1>8 DEF G!SaveSession, G!Pass
<1>9. ASSUME NEW w \in Slots, NEW taken \in BOOLEAN, G!SaveSessionFails(w, taken) PROVE Goal
  BY <1>1, <1>7, <1>9 DEF G!SaveSessionFails, G!Fails
<1>10. ASSUME UNCHANGED now, UNCHANGED sess, UNCHANGED renewed PROVE Goal
  BY <1>3, <1>10 DEF Goal
<1>11. ASSUME NEW w \in Slots, G!LoadSessionFails(w) \/ G!LoadLockFails(w) PROVE Goal
  <2>1. UNCHANGED now /\ UNCHANGED sess
    BY <1>11 DEF G!LoadSessionFails, G!LoadLockFails, G!Fails
  <2>2. UNCHANGED renewed
    BY <1>1, <1>11, Zenon DEF G!LoadSessionFails, G!LoadLockFails, G!Fails
  <2> QED BY <1>10, <2>1, <2>2
<1>12. ASSUME G!Tick PROVE Goal
  BY <1>4, <1>12 DEF Goal
<1>13. ASSUME UNCHANGED G!vars PROVE Goal
  BY <1>10, <1>13 DEF G!vars
<1>14. ASSUME NEW u \in Tokens, G!LockChanges(u) PROVE Goal
  BY <1>10, <1>14 DEF G!LockChanges
<1>15. ASSUME NEW w \in Slots, NEW u \in Tokens, NEW c \in Clients, G!Arrive(w, u, c) PROVE Goal
  BY <1>10, <1>15 DEF G!Arrive
<1>16. ASSUME NEW w \in Slots, G!LoadSession(w) \/ G!LoadLock(w) PROVE Goal
  BY <1>10, <1>16 DEF G!LoadSession, G!LoadLock
<1>17. ASSUME G!Next PROVE Goal
  BY <1>5, <1>6, <1>8, <1>9, <1>11, <1>12, <1>14, <1>15, <1>16, <1>17 DEF G!Next
<1> QED BY <1>13, <1>17 DEF Goal

LEMMA LastClosedStep ==
    ASSUME IInv, [G!Next]_(G!vars), StillOver, StillLocked, LastClosed
    PROVE  LastClosed'
<1> USE SessionsAssumed
<1>1. CASE last' = G!NoRequest
  BY <1>1 DEF LastClosed, G!NoRequest
<1>2. CASE UNCHANGED G!vars
  BY <1>2 DEF G!vars, LastClosed, G!Bound, G!Matches
<1>3. ASSUME NEW w \in Slots, G!SaveSession(w) PROVE LastClosed'
  <2> DEFINE q == check[w]
  <2>1. /\ q.token \in Tokens /\ Faithful(q.s, q.token) /\ q.s.live
        /\ G!Matches(q.s, q.client) /\ q.pc = "save_session"
    BY <1>3 DEF G!SaveSession, G!At, IInv, CopiesFaithful, Compared
  <2>2. ~q.dead
    BY <2>1 DEF StillOver, G!Over
  <2>3. ~q.shut
    BY <2>1 DEF StillLocked
  <2>4. G!Matches(G!Bound(issued[q.token]), q.client) /\ issued[q.token] # G!NoClient
    BY <2>1, MatchesBound, NoClientIsNone DEF Faithful
  <2>5. /\ last'.token = q.token /\ last'.client = q.client /\ last'.dead = q.dead
        /\ last'.shut = q.shut
    BY <1>3 DEF G!SaveSession, G!Pass
  <2>6. UNCHANGED issued
    BY <1>3 DEF G!SaveSession
  <2> HIDE DEF q
  <2> QED BY <2>2, <2>3, <2>4, <2>5, <2>6 DEF LastClosed, G!Bound, G!Matches
<1>4. ASSUME NEW w \in Slots,
             \/ G!LoadSessionFails(w) \/ G!LoadLockFails(w)
             \/ \E taken \in BOOLEAN : G!SaveSessionFails(w, taken)
      PROVE  LastClosed'
  <2>1. UNCHANGED failClosed /\ (last' = G!NoRequest \/ ~failClosed)
    BY <1>4 DEF G!LoadSessionFails, G!LoadLockFails, G!SaveSessionFails, G!Fails
  <2> QED BY <1>1, <2>1 DEF LastClosed
<1> QED BY <1>1, <1>2, <1>3, <1>4
        DEF G!Next, G!Tick, G!LockChanges, G!Issue, G!Revoke, G!Arrive, G!LoadSession, G!LoadLock

\* With FailClosed, whichever Store calls fail, whoever is let through had a
\* session and a token that was not locked, is the client that the token was
\* issued to, and keeps the session for TTL: for any requests that overlap.
THEOREM SessionFailsClosed == G!Spec => []FailClosedHolds
<1>1. IInv /\ ClosedInv /\ [G!Next]_(G!vars) => ClosedInv'
  <2> SUFFICES ASSUME IInv, ClosedInv, [G!Next]_(G!vars) PROVE ClosedInv'
      OBVIOUS
  <2>1. now' > 0
    <3>1. now \in Nat /\ now > 0
      BY DEF ClosedInv, IInv, G!TypeOK
    <3>2. UNCHANGED now \/ G!Tick
      BY DEF G!Next, G!vars, G!LockChanges, G!Issue, G!Revoke, G!Arrive, G!LoadSession, G!LoadLock,
         G!SaveSession, G!LoadSessionFails, G!LoadLockFails, G!SaveSessionFails, G!Fails
    <3> QED BY <3>1, <3>2 DEF G!Tick
  <2> QED BY <2>1, StillOverStep, StillLockedStep, StillRenewedStep, LastClosedStep DEF ClosedInv
<1>2. IInv /\ ClosedInv => FailClosedHolds
  BY DEF ClosedInv, StillRenewed, LastClosed, FailClosedHolds, G!FailClosedHolds, G!Bound,
     G!Matches
<1> QED BY <1>1, <1>2, InitIInv, NextIInv, ClosedInit, PTL DEF G!Spec

\* A session that is over does not come back, however requests overlap, unless
\* a Check holds a copy of it.
THEOREM SessionDeadStaysDead == G!Spec => DeadStaysDead
<1>1. G!Spec => []IInv
  BY InitIInv, NextIInv, PTL DEF G!Spec
<1>2. IInv /\ [G!Next]_(G!vars) => [\A t \in Tokens : G!Over(t) => ~sess'[t].live]_(G!vars)
  BY DeadStep
<1> QED BY <1>1, <1>2, PTL DEF G!Spec, DeadStaysDead, G!DeadStaysDead

-----------------------------------------------------------------------------

LEMMA TrackerStep == TrackerNext => (OnNets /\ Next) \/ (OnGuard /\ G!Next)
<1>1. ASSUME NEW s \in Slots, OnNets /\ Step(s) PROVE OnNets /\ Next
  BY <1>1 DEF Next
<1>2. ASSUME \/ OnNets /\ Tick
             \/ \E s \in Slots : OnNets /\ ObserveNobody(s)
             \/ \E s \in Slots, u \in Users, r \in Requests : OnNets /\ Observe(s, u, r)
             \/ \E s \in Slots : OnNets /\ LoadNets(s)
             \/ \E s \in Slots : OnNets /\ SaveNets(s)
             \/ \E s \in Slots : OnNets /\ LoadFails(s)
             \/ \E s \in Slots : OnNets /\ SaveFails(s)
      PROVE  OnNets /\ Next
  BY <1>1, <1>2 DEF Next, Step
<1>3. ASSUME \/ OnGuard /\ G!Tick
             \/ \E t \in Tokens : OnGuard /\ G!LockChanges(t)
             \/ \E t \in Tokens : OnGuard /\ G!Revoke(t)
             \/ \E t \in Tokens, c \in Clients : OnGuard /\ G!Issue(t, c)
             \/ \E w \in Slots, t \in Tokens, c \in Clients : OnGuard /\ G!Arrive(w, t, c)
             \/ \E w \in Slots : OnGuard /\ G!LoadSession(w)
             \/ \E w \in Slots : OnGuard /\ G!LoadLock(w)
             \/ \E w \in Slots : OnGuard /\ G!SaveSession(w)
             \/ \E w \in Slots : OnGuard /\ G!LoadSessionFails(w)
             \/ \E w \in Slots : OnGuard /\ G!LoadLockFails(w)
             \/ \E w \in Slots, taken \in BOOLEAN : OnGuard /\ G!SaveSessionFails(w, taken)
      PROVE  OnGuard /\ G!Next
  BY <1>3 DEF G!Next
<1> QED BY <1>2, <1>3 DEF TrackerNext

\* A behaviour of Tracker is one of KnownNets or one of SessionGuard, as kind
\* says: what was proved of that one holds of it.
THEOREM TrackerSideBySide ==
    /\ TrackerSpec /\ kind = "nets" => Spec
    /\ TrackerSpec /\ kind = "guard" => G!Spec
<1>1. TrackerInit => Init /\ G!Init
  BY DEF TrackerInit
<1>2. kind = "nets" /\ [TrackerNext]_allVars => [Next]_vars /\ (kind = "nets")'
  BY TrackerStep DEF OnNets, OnGuard, allVars, vars
<1>3. kind = "guard" /\ [TrackerNext]_allVars => [G!Next]_(G!vars) /\ (kind = "guard")'
  BY TrackerStep DEF OnNets, OnGuard, allVars, vars, guardVars, G!vars
<1> QED BY <1>1, <1>2, <1>3, PTL DEF TrackerSpec, Spec, G!Spec
=============================================================================
