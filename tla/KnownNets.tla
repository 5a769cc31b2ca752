----------------------------- MODULE KnownNets -----------------------------
(***************************************************************************)
(* The known login networks of session.Tracker: Observe.                   *)
(*                                                                         *)
(* Observe loads the user's list of networks and, unless the login comes   *)
(* from one of them, saves the list with the new network at its end, cut   *)
(* to the newest KnownNets and good for another KnownNetTTL as a whole.    *)
(* Load and Save are two Store calls: logins of one user may interleave,   *)
(* and either call may fail.                                               *)
(***************************************************************************)
EXTENDS ClientAddress

CONSTANTS Slots,       \* the goroutines that serve logins
          Users, NoUser,
          Addresses,   \* the addresses that are compared
          Requests,    \* the requests: [absent, remote, xff, realIP]
          KnownNets, KnownNetTTL,
          Settings,    \* the Trackers: [failClosed, trust, bits]
          Epoch,       \* the clock at the start
          MaxTime,     \* bound on the clock
          MaxFaults    \* bound on failing Store calls

ASSUME KnownNetsAssumption ==
    /\ NoUser \notin Users
    /\ {KnownNets, KnownNetTTL, Epoch} \subseteq Nat \ {0}
    /\ {MaxTime, MaxFaults} \subseteq Nat
    /\ Settings \subseteq [failClosed : BOOLEAN, trust : BOOLEAN, bits : Int]

ASSUME AddressesAssumption ==
    /\ Addresses \subseteq [kind : {"raw", "v4", "mapped", "v6"}, n : Nat]
    /\ \A a \in Addresses :
         /\ IsV4(a) => a.n < 2 ^ V4Size
         /\ a.kind = "v6" => a.n < 2 ^ V6Size

VARIABLES now,
          tracker,  \* the Tracker's settings
          nets,     \* nets:<user>: the list and its last instant
          slot,     \* slot -> the Observe it runs
          said,     \* what the Observe that returned in the last step answered
          faults,   \* how many Store calls failed
          home,     \* history: user -> the networks that were saved
          trail,    \* history: user -> the newest of them, since there was none
          until,    \* history: user -> KnownNetTTL after the last Save
          raced     \* history: the users with logins that overlapped

vars == <<now, tracker, nets, slot, said, faults, home, trail, until, raced>>

NoList == [val |-> <<>>, exp |-> 0]

\* origin and baseless are history: the network of the peer or, behind a trusted
\* proxy, of its client; and no list was saved within KnownNetTTL of the Load.
Idle == [pc |-> "idle", user |-> NoUser, here |-> network(NoAddress, 0),
         origin |-> network(NoAddress, 0), list |-> <<>>, baseless |-> FALSE]

Init ==
    /\ now = Epoch
    /\ tracker \in Settings
    /\ nets = [u \in Users |-> NoList]
    /\ slot = [s \in Slots |-> Idle]
    /\ said = "nothing"
    /\ faults = 0
    /\ home = [u \in Users |-> {}]
    /\ trail = [u \in Users |-> <<>>]
    /\ until = [u \in Users |-> 0]
    /\ raced = {}

Tick ==
    /\ now < MaxTime
    /\ now' = now + 1
    /\ nets' = [u \in Users |-> IF now + 1 <= nets[u].exp THEN nets[u] ELSE NoList]
    /\ said' = "nothing"
    /\ UNCHANGED <<tracker, slot, faults, home, trail, until, raced>>

Place(a) == network(a, subnetBits(tracker.bits))

Returns(s, verdict) == slot' = [slot EXCEPT ![s] = Idle] /\ said' = verdict

\* An empty user is answered without a Store call.
ObserveNobody(s) ==
    /\ slot[s].pc = "idle"
    /\ Returns(s, "quiet")
    /\ UNCHANGED <<now, tracker, nets, faults, home, trail, until, raced>>

Observe(s, u, r) ==
    /\ slot[s].pc = "idle"
    /\ slot' = [slot EXCEPT ![s] =
                  [Idle EXCEPT !.pc = "load", !.user = u,
                     !.here = Place(clientIP(r, tracker.trust)),
                     !.origin = IF tracker.trust \/ r.absent
                                  THEN Place(clientIP(r, tracker.trust)) ELSE Place(r.remote)]]
    /\ said' = "nothing"
    /\ raced' = IF \E w \in Slots \ {s} : slot[w].user = u THEN raced \cup {u} ELSE raced
    /\ UNCHANGED <<now, tracker, nets, faults, home, trail, until>>

\* Mutant: a network is looked for at the end of the list only.
MemberLast(net, list) == list # <<>> /\ list[Len(list)] = net

Member(net, list) == \E j \in 1 .. Len(list) : list[j] = net

\* A known network is quiet, and does not renew the list.
LoadNets(s) ==
    LET u == slot[s].user
        list == nets[u].val
    IN  /\ slot[s].pc = "load"
        /\ IF Member(slot[s].here, list)
             THEN Returns(s, "quiet")
             ELSE /\ slot' = [slot EXCEPT ![s].list = list, ![s].pc = "save",
                                          ![s].baseless = now > until[u]]
                  /\ said' = "nothing"
        /\ UNCHANGED <<now, tracker, nets, faults, home, trail, until, raced>>

\* No baseline yet, so nothing to compare against.
Known(list) == Len(list) > 0

\* Mutant: the list is not cut.
CappedNever(list) == list

\* The newest KnownNets networks.
Capped(list) ==
    IF Len(list) > KnownNets THEN SubSeq(list, Len(list) - KnownNets + 1, Len(list)) ELSE list

\* saveNets: one TTL for the whole list.
Saved(list) == [val |-> list, exp |-> now + KnownNetTTL]

SaveNets(s) ==
    LET q == slot[s]
        u == slot[s].user
    IN  /\ q.pc = "save"
        /\ nets' = [nets EXCEPT ![u] = Saved(Capped(Append(q.list, q.here)))]
        /\ home' = [home EXCEPT ![u] = @ \cup {q.origin}]
        /\ trail' = [trail EXCEPT ![u] =
                       IF u \in raced THEN <<>>
                       ELSE IF q.baseless THEN <<q.origin>>
                       ELSE IF Len(@) = KnownNets THEN Append(Tail(@), q.origin)
                       ELSE Append(@, q.origin)]
        /\ until' = [until EXCEPT ![u] = now + KnownNetTTL]
        /\ Returns(s, IF Known(q.list) THEN "remote_login" ELSE "quiet")
        /\ UNCHANGED <<now, tracker, faults, raced>>

Failing(s) ==
    /\ faults < MaxFaults
    /\ faults' = faults + 1
    /\ UNCHANGED <<now, tracker, nets, home, trail, until, raced>>

\* storeError decides: denied, or answered blindly.
LoadFails(s) ==
    /\ slot[s].pc = "load"
    /\ Returns(s, IF tracker.failClosed THEN "store_error" ELSE "blind")
    /\ Failing(s)

\* A list that cannot be saved is an error with FailClosed only; the network is
\* reported, if it is to be, all the same.
SaveFails(s) ==
    /\ slot[s].pc = "save"
    /\ Returns(s, IF tracker.failClosed THEN "store_error"
               ELSE IF Known(slot[s].list) THEN "remote_login" ELSE "quiet")
    /\ Failing(s)

Step(s) ==
    \/ ObserveNobody(s)
    \/ \E u \in Users, r \in Requests : Observe(s, u, r)
    \/ LoadNets(s) \/ SaveNets(s) \/ LoadFails(s) \/ SaveFails(s)

Next == Tick \/ \E s \in Slots : Step(s)

Spec == Init /\ [][Next]_vars

-----------------------------------------------------------------------------
(***************************************************************************)
(* Properties.                                                             *)
(***************************************************************************)

\* The networks that a request's addresses can be cut to.
Networks ==
    {network(a, subnetBits(t.bits)) :
       a \in {clientIP(r, t2.trust) : r \in Requests, t2 \in Settings}
               \cup {r.remote : r \in Requests},
       t \in Settings}
      \cup {network(NoAddress, 0)}

\* The type invariant.
TypeOK ==
    /\ now \in Nat
    /\ tracker \in Settings
    /\ nets \in [Users -> [val : Seq(Networks), exp : Nat]]
    /\ slot \in [Slots -> [pc : {"idle", "load", "save"}, user : Users \cup {NoUser},
                           here : Networks, origin : Networks, list : Seq(Networks),
                           baseless : BOOLEAN]]
    /\ said \in {"nothing", "quiet", "blind", "remote_login", "store_error"}
    /\ faults \in Nat

Distinct(list) == \A j, k \in 1 .. Len(list) : list[j] = list[k] => j = k

\* However many logins of one user rewrite it concurrently, a list names each
\* network once, is capped, and is not kept beyond KnownNetTTL of silence.
ListInOrder ==
    \A u \in Users :
      /\ Len(nets[u].val) <= KnownNets
      /\ Distinct(nets[u].val)
      /\ nets[u].exp <= now + KnownNetTTL

\* The two together: what is true of the list in every state.
NetsInvariant == TypeOK /\ ListInOrder

Bit(a, i) == (a.n \div 2 ^ ((IF IsV4(a) THEN V4Size ELSE V6Size) - i)) % 2

\* Do a and b agree in their first bits, counted per family, however written?
SharePrefix(a, b, bits) ==
    \/ ~Parses(a) /\ a = b
    \/ IsV4(a) /\ IsV4(b) /\ \A i \in 1 .. V4Size : i <= bits => Bit(a, i) = Bit(b, i)
    \/ /\ a.kind = "v6" /\ b.kind = "v6"
       /\ \A i \in 1 .. V6Size : i <= bits + v6Shift => Bit(a, i) = Bit(b, i)

Prefixed ==
    [t \in Settings |->
       LET bits == subnetBits(t.bits) IN
       \A a, b \in Addresses : (network(a, bits) = network(b, bits)) <=> SharePrefix(a, b, bits)]

\* "a client moving inside its own subnet is not treated as being somewhere else"
\* (network), and one that leaves it is: two addresses are one place for the
\* Tracker exactly when they share the prefix that it is set to.
PlaceIsPrefix == Prefixed[tracker]

Ends(s, verdicts) == slot[s].pc # "idle" /\ slot'[s].pc = "idle" /\ said' \in verdicts

\* "reports 异地登录 when that network has not been seen before" (Observe): who is
\* not reported comes from where the user logged in before, whatever headers the
\* request carries and whatever overlaps or fails, but for a user without a list
\* and, without FailClosed, for a list that could not be loaded.
NoStrangerSlips ==
    [][\A s \in Slots : Ends(s, {"quiet", "blind"}) =>
         \/ slot[s].origin \in home[slot[s].user]
         \/ slot[s].baseless
         \/ said' = "blind" /\ ~tracker.failClosed]_vars

\* The newest KnownNets networks of a user are remembered, in that order, for
\* KnownNetTTL: none of them is reported, unless logins of the user overlapped.
FamiliarStaysQuiet ==
    [][\A s \in Slots : Ends(s, {"remote_login"}) /\ slot[s].user \notin raced =>
         LET recent == trail[slot[s].user]
         IN  \A j \in 1 .. Len(recent) : recent[j] # slot[s].origin]_vars
=============================================================================
