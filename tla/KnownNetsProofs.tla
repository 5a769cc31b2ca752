-------------------------- MODULE KnownNetsProofs --------------------------
(***************************************************************************)
(* Concurrent logins keep a user's list of networks in order, no stranger  *)
(* slips by and no familiar network is reported: for any number of         *)
(* goroutines, users and requests, any limits and any failing Store calls. *)
(***************************************************************************)
EXTENDS KnownNets, SequenceTheorems, FunctionTheorems, FiniteSetTheorems, TLAPS

SlotType == [pc : {"idle", "load", "save"}, user : Users \cup {NoUser},
             here : Networks, origin : Networks, list : Seq(Networks), baseless : BOOLEAN]

NetType == [val : Seq(Networks), exp : Nat]

Types ==
    /\ now \in Nat \ {0} /\ tracker \in Settings /\ raced \subseteq Users
    /\ nets \in [Users -> NetType] /\ slot \in [Slots -> SlotType]
    /\ home \in [Users -> SUBSET Networks] /\ trail \in [Users -> Seq(Networks)]
    /\ until \in [Users -> Nat]

\* A list as a Save leaves it, all of it saved before.
InOrder(list, saved) ==
    /\ Len(list) <= KnownNets
    /\ Distinct(list)
    /\ \A j \in 1 .. Len(list) : list[j] \in saved

\* There is a list exactly until KnownNetTTL after the last Save.
NetSound(net, saved, end, time) ==
    /\ InOrder(net.val, saved)
    /\ net.exp <= time + KnownNetTTL
    /\ (net.val # <<>>) = (time <= end)
    /\ net.val # <<>> => net.exp = end

\* An Observe compares the network that it should, and about to save it has a
\* list without it, which is empty only when there was none.
SlotSound(q, known) ==
    /\ q.pc = "idle" => q.user = NoUser
    /\ q.pc # "idle" => q.user \in Users /\ q.here = q.origin
    /\ q.pc = "save" => /\ InOrder(q.list, known[q.user])
                        /\ ~Member(q.here, q.list)
                        /\ q.baseless = (q.list = <<>>)

Alone == \A s, w \in Slots : slot[s].user = slot[w].user /\ slot[s].user \in Users \ raced => s = w

TrailIsList ==
    \A u \in Users \ raced :
      /\ nets[u].val # <<>> => trail[u] = nets[u].val
      /\ \A s \in Slots : slot[s].pc = "save" /\ slot[s].user = u /\ slot[s].list # <<>>
                            => trail[u] = slot[s].list

IInv ==
    /\ Types
    /\ \A u \in Users : NetSound(nets[u], home[u], until[u], now)
    /\ \A s \in Slots : SlotSound(slot[s], home)
    /\ Alone
    /\ TrailIsList

-----------------------------------------------------------------------------

LEMMA EmptyInOrder == ASSUME NEW H PROVE InOrder(<<>>, H)
  BY KnownNetsAssumption DEF InOrder, Distinct

LEMMA IdleIsSound == Idle \in SlotType /\ (\A H : SlotSound(Idle, H)) /\ Idle.user = NoUser
<1>1. network(NoAddress, 0) \in Networks
  BY DEF Networks
<1>2. <<>> \in Seq(Networks)
  OBVIOUS
<1>3. Idle \in SlotType
  BY <1>1, <1>2 DEF Idle, SlotType
<1> QED BY <1>3 DEF Idle, SlotSound

\* Adding a network that is not in the list, and dropping the oldest of a full one.
LEMMA CappedAppend ==
    ASSUME NEW S, NEW l \in Seq(S), NEW x \in S, NEW H,
           InOrder(l, H), ~Member(x, l),
           NEW c, c = Capped(Append(l, x))
    PROVE  /\ c \in Seq(S) /\ c # <<>>
           /\ InOrder(c, H \cup {x})
           /\ c = IF Len(l) = KnownNets THEN Append(Tail(l), x) ELSE Append(l, x)
<1> DEFINE n == Len(l)
           a == Append(l, x)
<1>1. n \in Nat /\ n <= KnownNets /\ KnownNets \in Nat \ {0}
  BY KnownNetsAssumption DEF InOrder
<1>2. /\ a \in Seq(S) /\ Len(a) = n + 1 /\ a[n + 1] = x
      /\ \A j \in 1 .. n : a[j] = l[j]
  BY AppendProperties
<1>3. \A j, k \in 1 .. n : l[j] = l[k] => j = k
  BY DEF InOrder, Distinct
<1>4. \A j \in 1 .. n : l[j] \in H /\ l[j] # x
  BY DEF InOrder, Member
<1>5. \A j, k \in 1 .. n + 1 : a[j] = a[k] => j = k
  <2> SUFFICES ASSUME NEW j \in 1 .. n + 1, NEW k \in 1 .. n + 1, a[j] = a[k] PROVE j = k
    OBVIOUS
  <2> HIDE DEF n, a
  <2>1. CASE j \in 1 .. n /\ k \in 1 .. n
    BY <1>2, <1>3, <2>1
  <2>2. CASE j = n + 1 /\ k \in 1 .. n
    BY <1>2, <1>4, <2>2
  <2>3. CASE k = n + 1 /\ j \in 1 .. n
    BY <1>2, <1>4, <2>3
  <2>4. CASE j = n + 1 /\ k = n + 1
    BY <2>4
  <2> QED BY <1>1, <2>1, <2>2, <2>3, <2>4
<1>6. \A j \in 1 .. n + 1 : a[j] \in H \cup {x}
  <2> HIDE DEF n, a
  <2> SUFFICES ASSUME NEW j \in 1 .. n + 1 PROVE a[j] \in H \cup {x}
    OBVIOUS
  <2>1. j = n + 1 \/ j \in 1 .. n
    BY <1>1
  <2> QED BY <1>2, <1>4, <2>1
<1>7. CASE n < KnownNets
  <2>1. c = a
    BY <1>1, <1>2, <1>7 DEF Capped
  <2>2. a # <<>>
    BY <1>1, <1>2
  <2> HIDE DEF a
  <2> QED BY <1>1, <1>2, <1>5, <1>6, <1>7, <2>1, <2>2 DEF InOrder, Distinct, a
<1>8. CASE n = KnownNets
  <2>1. c = SubSeq(a, 2, n + 1)
    <3>1. Len(a) > KnownNets /\ Len(a) - KnownNets + 1 = 2
      BY <1>1, <1>2, <1>8
    <3> QED BY <1>2, <3>1 DEF Capped
  <2> HIDE DEF a
  <2>2. /\ c \in Seq(S) /\ Len(c) = n
        /\ \A j \in 1 .. n : c[j] = a[j + 1]
    BY <1>1, <1>2, <2>1, SubSeqProperties
  <2>3. c # <<>>
    BY <1>1, <1>8, <2>2
  <2>4. \A j \in 1 .. n : j + 1 \in 1 .. n + 1
    BY <1>1
  <2>5. InOrder(c, H \cup {x})
    <3>1. \A j, k \in 1 .. n : c[j] = c[k] => j = k
      <4> SUFFICES ASSUME NEW j \in 1 .. n, NEW k \in 1 .. n, c[j] = c[k] PROVE j = k
        OBVIOUS
      <4>1. j + 1 = k + 1
        BY <1>5, <2>2, <2>4
      <4> QED BY <1>1, <4>1
    <3> QED BY <1>1, <1>6, <2>2, <2>4, <3>1 DEF InOrder, Distinct
  <2>6. c = Append(Tail(l), x)
    <3> DEFINE t == Tail(l)
               b == Append(t, x)
    <3>1. /\ t \in Seq(S) /\ Len(t) = n - 1
          /\ \A j \in 1 .. n - 1 : t[j] = l[j + 1]
      BY <1>1, <1>8
    <3> HIDE DEF t
    <3>2. /\ b \in Seq(S) /\ Len(b) = n /\ b[n] = x
          /\ \A j \in 1 .. n - 1 : b[j] = t[j]
      BY <1>1, <3>1, AppendProperties
    <3> HIDE DEF b
    <3>3. ASSUME NEW j \in 1 .. n PROVE c[j] = b[j]
      <4>1. CASE j = n
        BY <1>2, <2>2, <3>2, <4>1
      <4>2. CASE j \in 1 .. n - 1
        <5>1. c[j] = a[j + 1] /\ b[j] = l[j + 1] /\ j + 1 \in 1 .. n
          BY <1>1, <2>2, <3>1, <3>2, <4>2
        <5> QED BY <1>2, <5>1
      <4> QED BY <1>1, <4>1, <4>2
    <3>4. c = b
      BY <2>2, <3>2, <3>3, SeqEqual
    <3> QED BY <3>4 DEF b, t
  <2> QED BY <1>8, <2>2, <2>3, <2>5, <2>6
<1> QED BY <1>1, <1>7, <1>8

\* Whose network is compared: headers do not matter but behind a trusted proxy.
LEMMA ComparesOrigin ==
    ASSUME NEW t \in Settings, NEW r
    PROVE  clientIP(r, t.trust) = IF t.trust \/ r.absent THEN clientIP(r, t.trust) ELSE r.remote
  BY KnownNetsAssumption DEF clientIP

-----------------------------------------------------------------------------

LEMMA InitIInv == Init => IInv
<1> SUFFICES ASSUME Init PROVE IInv
    OBVIOUS
<1>1. NoList \in NetType /\ NoList.val = <<>> /\ NoList.exp = 0
  BY DEF NoList, NetType
<1>2. Types
  BY <1>1, IdleIsSound, KnownNetsAssumption DEF Init, Types
<1>3. \A u \in Users : NetSound(nets[u], home[u], until[u], now)
  BY <1>1, EmptyInOrder, KnownNetsAssumption DEF Init, NetSound
<1>4. \A s \in Slots : SlotSound(slot[s], home)
  BY IdleIsSound DEF Init
<1>5. Alone
  BY IdleIsSound, KnownNetsAssumption DEF Init, Alone
<1>6. TrailIsList
  BY <1>1, IdleIsSound, KnownNetsAssumption DEF Init, TrailIsList
<1> QED BY <1>2, <1>3, <1>4, <1>5, <1>6 DEF IInv

LEMMA TickKeeps == IInv /\ Tick => IInv'
<1> SUFFICES ASSUME IInv, Tick PROVE IInv'
    OBVIOUS
<1>1. UNCHANGED <<tracker, slot, faults, home, trail, until, raced>> /\ now' = now + 1
  BY DEF Tick
<1>2. NoList \in NetType /\ NoList.val = <<>> /\ NoList.exp = 0
  BY DEF NoList, NetType
<1>3. /\ now \in Nat /\ KnownNetTTL \in Nat /\ nets \in [Users -> NetType]
      /\ until \in [Users -> Nat]
  BY KnownNetsAssumption DEF IInv, Types
<1>4. \A u \in Users : nets'[u] = IF now + 1 <= nets[u].exp THEN nets[u] ELSE NoList
  BY DEF Tick
<1>5. nets' \in [Users -> NetType]
  BY <1>2, <1>3 DEF Tick
<1>6. Types'
  BY <1>1, <1>3, <1>5 DEF IInv, Types
<1>7. ASSUME NEW u \in Users PROVE NetSound(nets'[u], home'[u], until'[u], now')
  <2>1. NetSound(nets[u], home[u], until[u], now)
    BY DEF IInv
  <2>2. nets[u].exp \in Nat /\ until[u] \in Nat
    BY <1>3 DEF NetType
  <2>3. CASE nets'[u] = NoList /\ ~(now + 1 <= nets[u].exp)
    <3>1. ~(now + 1 <= until[u])
      BY <1>3, <2>1, <2>2, <2>3 DEF NetSound
    <3> QED BY <1>1, <1>2, <1>3, <2>2, <2>3, <3>1, EmptyInOrder DEF NetSound
  <2>4. CASE nets'[u] = nets[u] /\ now + 1 <= nets[u].exp
    BY <1>1, <1>3, <2>1, <2>2, <2>4 DEF NetSound
  <2> QED BY <1>4, <2>3, <2>4
<1>8. \A u \in Users : nets'[u].val # <<>> => nets'[u] = nets[u]
  BY <1>2, <1>4
<1>9. Alone' /\ TrailIsList'
  BY <1>1, <1>8 DEF IInv, Alone, TrailIsList
<1> QED BY <1>1, <1>6, <1>7, <1>9 DEF IInv

\* A step of an Observe that saves nothing.
LEMMA SlotKeeps ==
    ASSUME IInv, NEW s \in Slots, NEW q \in SlotType, SlotSound(q, home),
           slot' = [slot EXCEPT ![s] = q],
           UNCHANGED <<now, tracker, nets, home, trail, until>>,
           raced' \subseteq Users, raced \subseteq raced',
           \/ q.user \in {slot[s].user, NoUser}
           \/ \A w \in Slots \ {s} : slot[w].user = q.user => q.user \in raced',
           q.pc = "save" /\ q.list # <<>> /\ q.user \notin raced' => trail[q.user] = q.list
    PROVE  IInv'
<1>1. slot \in [Slots -> SlotType] /\ slot' \in [Slots -> SlotType]
  BY DEF IInv, Types
<1>2. slot'[s] = q /\ \A w \in Slots \ {s} : slot'[w] = slot[w]
  BY <1>1
<1>3. Types'
  BY <1>1 DEF IInv, Types
<1>4. \A w \in Slots : SlotSound(slot'[w], home)
  BY <1>2 DEF IInv
<1>5. Alone'
  <2> SUFFICES ASSUME NEW v \in Slots, NEW w \in Slots, slot'[v].user = slot'[w].user,
                      slot'[v].user \in Users \ raced', v # w
               PROVE  FALSE
    BY DEF Alone
  <2>1. ASSUME NEW y \in Slots \ {s}, slot[y].user = q.user, q.user \in Users \ raced' PROVE FALSE
    <3>1. q.user # NoUser /\ q.user \notin raced
      BY <2>1, KnownNetsAssumption
    <3>2. q.user = slot[s].user
      BY <2>1, <3>1
    <3> QED BY <2>1, <3>1, <3>2 DEF IInv, Alone
  <2>2. CASE v = s
    BY <1>2, <2>1, <2>2
  <2>3. CASE w = s
    BY <1>2, <2>1, <2>3
  <2>4. CASE v # s /\ w # s
    BY <1>2, <2>4 DEF IInv, Alone
  <2> QED BY <2>2, <2>3, <2>4
<1>6. TrailIsList'
  <2> SUFFICES ASSUME NEW u \in Users \ raced'
               PROVE  /\ nets[u].val # <<>> => trail[u] = nets[u].val
                      /\ \A w \in Slots : slot'[w].pc = "save" /\ slot'[w].user = u
                                             /\ slot'[w].list # <<>> => trail[u] = slot'[w].list
    BY DEF TrailIsList
  <2> QED BY <1>2 DEF IInv, TrailIsList
<1> QED BY <1>3, <1>4, <1>5, <1>6 DEF IInv

LEMMA ReturnKeeps ==
    ASSUME IInv, NEW s \in Slots, slot' = [slot EXCEPT ![s] = Idle],
           UNCHANGED <<now, tracker, nets, home, trail, until, raced>>
    PROVE  IInv'
<1>1. Idle.pc # "save"
  BY DEF Idle
<1>2. raced \subseteq Users
  BY DEF IInv, Types
<1> QED BY <1>1, <1>2, SlotKeeps, IdleIsSound

LEMMA ObserveKeeps ==
    ASSUME IInv, NEW s \in Slots, NEW u \in Users, NEW r \in Requests, Observe(s, u, r)
    PROVE  IInv'
<1> DEFINE here == Place(clientIP(r, tracker.trust))
           origin == IF tracker.trust \/ r.absent THEN Place(clientIP(r, tracker.trust))
                                                  ELSE Place(r.remote)
           q == [Idle EXCEPT !.pc = "load", !.user = u, !.here = here, !.origin = origin]
<1>1. tracker \in Settings /\ raced \subseteq Users
  BY DEF IInv, Types
<1>2. here = origin
  BY <1>1, ComparesOrigin, Zenon
<1>3. here \in Networks
  BY <1>1 DEF Place, Networks
<1>4. slot' = [slot EXCEPT ![s] = q]
  BY DEF Observe
<1>5. UNCHANGED <<now, tracker, nets, home, trail, until>>
  BY DEF Observe
<1>6. /\ raced' \subseteq Users /\ raced \subseteq raced'
      /\ \A w \in Slots \ {s} : slot[w].user = u => u \in raced'
  BY <1>1 DEF Observe
<1> HIDE DEF here, origin
<1>7. q \in SlotType
  BY <1>2, <1>3, IdleIsSound DEF SlotType
<1>8. q.pc = "load" /\ q.user = u /\ q.here = q.origin
  BY <1>2, IdleIsSound DEF SlotType
<1> HIDE DEF q
<1>9. SlotSound(q, home)
  BY <1>8 DEF SlotSound
<1> QED BY <1>4, <1>5, <1>6, <1>7, <1>8, <1>9, SlotKeeps

LEMMA LoadKeeps == ASSUME IInv, NEW s \in Slots, LoadNets(s) PROVE IInv'
<1> DEFINE c == slot[s]
           u == c.user
           l == nets[u].val
           q == [c EXCEPT !.list = l, !.pc = "save", !.baseless = now > until[u]]
<1>1. c \in SlotType /\ SlotSound(c, home) /\ c.pc = "load" /\ raced \subseteq Users
  BY DEF IInv, Types, LoadNets
<1>2. u \in Users /\ c.here = c.origin
  BY <1>1 DEF SlotSound
<1>3. UNCHANGED <<now, tracker, nets, home, trail, until, raced>>
  BY DEF LoadNets
<1>4. CASE Member(c.here, l)
  BY <1>3, <1>4, ReturnKeeps DEF LoadNets, Returns
<1>5. CASE ~Member(c.here, l)
  <2>1. slot' = [slot EXCEPT ![s] = q]
    BY <1>5 DEF LoadNets
  <2>2. /\ l \in Seq(Networks) /\ NetSound(nets[u], home[u], until[u], now)
        /\ now \in Nat /\ until[u] \in Nat
    BY <1>2 DEF IInv, Types, NetType
  <2>3. (now > until[u]) = (l = <<>>) /\ (now > until[u]) \in BOOLEAN
    BY <2>2 DEF NetSound
  <2> HIDE DEF l, u, c
  <2>4. q \in SlotType
    BY <1>1, <2>2, <2>3 DEF SlotType
  <2>5. /\ q.pc = "save" /\ q.user = c.user /\ q.here = c.here /\ q.origin = c.origin
        /\ q.list = l /\ q.baseless = (now > until[u])
    BY <1>1 DEF SlotType
  <2> HIDE DEF q
  <2>6. SlotSound(q, home)
    BY <1>2, <1>5, <2>2, <2>3, <2>5 DEF SlotSound, NetSound, l, u
  <2>7. q.list # <<>> /\ u \notin raced => trail[u] = q.list
    BY <1>2, <2>5 DEF IInv, TrailIsList, l
  <2> QED BY <1>1, <1>3, <2>1, <2>4, <2>5, <2>6, <2>7, SlotKeeps DEF u, c
<1> QED BY <1>4, <1>5

LEMMA SaveKeeps == ASSUME IInv, NEW s \in Slots, SaveNets(s) PROVE IInv'
<1> DEFINE q == slot[s]
           u == q.user
           c == Capped(Append(q.list, q.here))
           n == [val |-> c, exp |-> now + KnownNetTTL]
<1>1. /\ q \in SlotType /\ SlotSound(q, home) /\ q.pc = "save" /\ raced \subseteq Users
      /\ now \in Nat \ {0} /\ KnownNetTTL \in Nat
  BY KnownNetsAssumption DEF IInv, Types, SaveNets
<1>2. /\ u \in Users /\ q.here = q.origin /\ InOrder(q.list, home[u])
      /\ ~Member(q.here, q.list) /\ q.baseless = (q.list = <<>>)
  BY <1>1 DEF SlotSound
<1>3. q.list \in Seq(Networks) /\ q.here \in Networks
  BY <1>1 DEF SlotType
<1>4. /\ c \in Seq(Networks) /\ c # <<>> /\ InOrder(c, home[u] \cup {q.here})
      /\ c = IF Len(q.list) = KnownNets THEN Append(Tail(q.list), q.here)
                                        ELSE Append(q.list, q.here)
  <2>1. c = Capped(Append(q.list, q.here))
    OBVIOUS
  <2> DEFINE l == q.list
             x == q.here
             H == home[u]
  <2>2. /\ l \in Seq(Networks) /\ x \in Networks /\ InOrder(l, H) /\ ~Member(x, l)
        /\ c = Capped(Append(l, x))
    BY <1>2, <1>3, <2>1
  <2> HIDE DEF c, q, u, l, x, H
  <2>3. /\ c \in Seq(Networks) /\ c # <<>> /\ InOrder(c, H \cup {x})
        /\ c = IF Len(l) = KnownNets THEN Append(Tail(l), x) ELSE Append(l, x)
    BY <2>2, CappedAppend, Zenon
  <2> QED BY <2>3 DEF l, x, H
<1>5. /\ nets' = [nets EXCEPT ![u] = n] /\ home' = [home EXCEPT ![u] = @ \cup {q.here}]
      /\ until' = [until EXCEPT ![u] = now + KnownNetTTL]
      /\ slot' = [slot EXCEPT ![s] = Idle]
      /\ UNCHANGED <<now, tracker, faults, raced>>
  BY <1>2 DEF SaveNets, Saved, Returns
<1>6. trail' = [trail EXCEPT ![u] = IF u \in raced THEN <<>>
                                    ELSE IF q.list = <<>> THEN <<q.here>>
                                    ELSE IF Len(trail[u]) = KnownNets
                                           THEN Append(Tail(trail[u]), q.here)
                                    ELSE Append(trail[u], q.here)]
  BY <1>2 DEF SaveNets
<1> HIDE DEF c
<1>7. n \in NetType /\ n.val = c /\ n.exp = now + KnownNetTTL
  BY <1>1, <1>4 DEF NetType
<1> HIDE DEF n, q, u
<1>8. /\ nets \in [Users -> NetType] /\ slot \in [Slots -> SlotType]
      /\ home \in [Users -> SUBSET Networks] /\ trail \in [Users -> Seq(Networks)]
      /\ until \in [Users -> Nat]
  BY DEF IInv, Types
<1>9. trail' \in [Users -> Seq(Networks)] /\ (u \notin raced => trail'[u] = c)
  <2>1. u \notin raced /\ q.list # <<>> => trail[u] = q.list
    BY <1>1, <1>2 DEF IInv, TrailIsList, q, u
  <2>2. <<q.here>> \in Seq(Networks) /\ <<>> \in Seq(Networks)
    BY <1>3
  <2>3. q.list = <<>> => c = <<q.here>>
    BY <1>3, <1>4, KnownNetsAssumption
  <2> DEFINE t == IF u \in raced THEN <<>>
                  ELSE IF q.list = <<>> THEN <<q.here>>
                  ELSE IF Len(trail[u]) = KnownNets THEN Append(Tail(trail[u]), q.here)
                  ELSE Append(trail[u], q.here)
  <2>4. u \notin raced => t = c
    BY <1>4, <2>1, <2>3
  <2>5. t \in Seq(Networks)
    BY <1>4, <2>2, <2>4
  <2>6. trail' = [trail EXCEPT ![u] = t]
    BY <1>6
  <2> HIDE DEF t
  <2> QED BY <1>2, <1>8, <2>4, <2>5, <2>6
<1>10. Types'
  <2>1. nets' \in [Users -> NetType]
    BY <1>5, <1>7, <1>8
  <2>2. slot' \in [Slots -> SlotType]
    BY <1>5, <1>8, IdleIsSound
  <2>3. home' \in [Users -> SUBSET Networks]
    BY <1>3, <1>5, <1>8
  <2>4. until' \in [Users -> Nat]
    <3>1. now + KnownNetTTL \in Nat
      BY <1>1
    <3> QED BY <1>5, <1>8, <3>1
  <2> QED BY <1>5, <1>9, <2>1, <2>2, <2>3, <2>4 DEF IInv, Types
<1>11. home'[u] = home[u] \cup {q.here} /\ \A v \in Users : home[v] \subseteq home'[v]
  BY <1>2, <1>5, <1>8
<1>12. ASSUME NEW v \in Users PROVE NetSound(nets'[v], home'[v], until'[v], now')
  <2>1. CASE v = u
    <3>1. nets'[v] = n /\ until'[v] = now + KnownNetTTL
      BY <1>5, <1>8, <2>1
    <3>2. (n.val # <<>>) = (now <= now + KnownNetTTL)
      BY <1>1, <1>4, <1>7
    <3>3. now + KnownNetTTL <= now + KnownNetTTL
      BY <1>1
    <3>4. NetSound(n, home[u] \cup {q.here}, now + KnownNetTTL, now)
      BY <1>4, <1>7, <3>2, <3>3 DEF NetSound
    <3> QED BY <1>5, <1>11, <2>1, <3>1, <3>4
  <2>2. CASE v # u
    <3>1. nets'[v] = nets[v] /\ home'[v] = home[v] /\ until'[v] = until[v]
      BY <1>5, <1>8, <2>2
    <3> QED BY <1>5, <3>1 DEF IInv
  <2> QED BY <2>1, <2>2
<1>13. \A w \in Slots : slot'[w] = IF w = s THEN Idle ELSE slot[w]
  BY <1>5, <1>8
<1>14. ASSUME NEW w \in Slots PROVE SlotSound(slot'[w], home')
  <2>1. CASE w = s
    BY <1>13, <2>1, IdleIsSound
  <2>2. CASE w # s
    <3>1. slot'[w] = slot[w] /\ SlotSound(slot[w], home)
      BY <1>13, <2>2 DEF IInv
    <3> QED BY <1>11, <3>1 DEF SlotSound, InOrder
  <2> QED BY <2>1, <2>2
<1>15. Alone'
  BY <1>5, <1>13, IdleIsSound, KnownNetsAssumption DEF IInv, Alone
<1>16. TrailIsList'
  <2> SUFFICES ASSUME NEW v \in Users \ raced
               PROVE  /\ nets'[v].val # <<>> => trail'[v] = nets'[v].val
                      /\ \A w \in Slots : slot'[w].pc = "save" /\ slot'[w].user = v
                                             /\ slot'[w].list # <<>> => trail'[v] = slot'[w].list
    BY <1>5 DEF TrailIsList
  <2>1. CASE v = u
    <3>1. trail'[v] = nets'[v].val
      BY <1>5, <1>7, <1>8, <1>9, <2>1
    <3>2. \A w \in Slots : slot'[w].user # v
      BY <1>2, <1>13, <2>1, IdleIsSound, KnownNetsAssumption DEF IInv, Alone, u, q
    <3> QED BY <3>1, <3>2
  <2>2. CASE v # u
    <3>1. nets'[v] = nets[v] /\ trail'[v] = trail[v]
      BY <1>5, <1>6, <1>8, <2>2
    <3> QED BY <1>13, <3>1 DEF IInv, TrailIsList, Idle
  <2> QED BY <2>1, <2>2
<1> QED BY <1>10, <1>12, <1>14, <1>15, <1>16 DEF IInv

LEMMA NextIInv == IInv /\ [Next]_vars => IInv'
<1> SUFFICES ASSUME IInv, [Next]_vars PROVE IInv'
    OBVIOUS
<1>1. CASE Tick
  BY <1>1, TickKeeps
<1>2. ASSUME NEW s \in Slots, ObserveNobody(s) \/ LoadFails(s) \/ SaveFails(s) PROVE IInv'
  <2>1. UNCHANGED <<now, tracker, nets, home, trail, until, raced>>
    BY <1>2 DEF ObserveNobody, LoadFails, SaveFails, Failing
  <2>2. slot' = [slot EXCEPT ![s] = Idle]
    BY <1>2 DEF ObserveNobody, LoadFails, SaveFails, Returns
  <2> QED BY <2>1, <2>2, ReturnKeeps
<1>3. ASSUME NEW s \in Slots, NEW u \in Users, NEW r \in Requests, Observe(s, u, r) PROVE IInv'
  BY <1>3, ObserveKeeps
<1>4. ASSUME NEW s \in Slots, LoadNets(s) PROVE IInv'
  BY <1>4, LoadKeeps
<1>5. ASSUME NEW s \in Slots, SaveNets(s) PROVE IInv'
  BY <1>5, SaveKeeps
<1>6. CASE UNCHANGED vars
  BY <1>6 DEF vars, IInv, Types, Alone, TrailIsList
<1> QED BY <1>1, <1>2, <1>3, <1>4, <1>5, <1>6 DEF Next, Step

-----------------------------------------------------------------------------

Answers == said \in {"nothing", "quiet", "blind", "remote_login", "store_error"} /\ faults \in Nat

LEMMA NextAnswers == Answers /\ [Next]_vars => Answers'
<1> SUFFICES ASSUME Answers, [Next]_vars PROVE Answers'
    OBVIOUS
<1>1. CASE Tick
  BY <1>1 DEF Tick, Answers
<1>2. ASSUME NEW s \in Slots, LoadNets(s) \/ SaveNets(s) \/ ObserveNobody(s) PROVE Answers'
  BY <1>2 DEF LoadNets, SaveNets, ObserveNobody, Returns, Answers
<1>3. ASSUME NEW s \in Slots, NEW u \in Users, NEW r \in Requests, Observe(s, u, r) PROVE Answers'
  BY <1>3 DEF Observe, Answers
<1>4. ASSUME NEW s \in Slots, LoadFails(s) \/ SaveFails(s) PROVE Answers'
  BY <1>4 DEF LoadFails, SaveFails, Failing, Returns, Answers
<1>5. CASE UNCHANGED vars
  BY <1>5 DEF vars, Answers
<1> QED BY <1>1, <1>2, <1>3, <1>4, <1>5 DEF Next, Step

\* However many logins of one user rewrite it concurrently and whichever Store
\* calls fail, a list names each network once, all of them networks of requests,
\* is capped, and is not kept beyond KnownNetTTL of silence.
THEOREM KnownNetsInOrder == Spec => []NetsInvariant
<1>1. Spec => []IInv
  BY InitIInv, NextIInv, PTL DEF Spec
<1>2. Init => Answers
  BY DEF Init, Answers
<1>3. Spec => []Answers
  BY <1>2, NextAnswers, PTL DEF Spec
<1>4. IInv => ListInOrder
  BY DEF IInv, NetSound, InOrder, ListInOrder
<1>5. IInv /\ Answers => TypeOK
  BY DEF IInv, Types, Answers, TypeOK, SlotType, NetType
<1>6. IInv /\ Answers => NetsInvariant
  BY <1>4, <1>5 DEF NetsInvariant
<1> QED BY <1>1, <1>3, <1>6, PTL

\* Only the Observe of s, in a step of its own, ends the call of s.
LEMMA EndIsOwn ==
    ASSUME IInv, Next, NEW s \in Slots, NEW V, Ends(s, V)
    PROVE  LoadNets(s) \/ SaveNets(s) \/ LoadFails(s) \/ SaveFails(s)
<1>1. slot[s].pc # "idle" /\ slot'[s].pc = "idle"
  BY DEF Ends
<1>2. slot'[s] # slot[s]
  BY <1>1
<1>3. ~Tick
  BY <1>2 DEF Tick
<1>4. PICK w \in Slots : Step(w)
  BY <1>3 DEF Next
<1>5. slot \in [Slots -> SlotType]
  BY DEF IInv, Types
<1>6. w = s
  <2>1. CASE Step(w) /\ w # s
    <3>1. \E q : slot' = [slot EXCEPT ![w] = q]
      BY <1>4 DEF Step, ObserveNobody, Observe, LoadNets, SaveNets, LoadFails, SaveFails, Returns
    <3> QED BY <1>2, <1>5, <2>1, <3>1
  <2> QED BY <1>4, <2>1
<1>7. ~ObserveNobody(s) /\ \A u \in Users, r \in Requests : ~Observe(s, u, r)
  BY <1>1 DEF ObserveNobody, Observe
<1> QED BY <1>4, <1>6, <1>7 DEF Step

LEMMA StrangerStep ==
    ASSUME IInv, Next, NEW s \in Slots, Ends(s, {"quiet", "blind"})
    PROVE  \/ slot[s].origin \in home[slot[s].user]
           \/ slot[s].baseless
           \/ said' = "blind" /\ ~tracker.failClosed
<1>1. slot[s].pc # "idle" /\ slot'[s].pc = "idle" /\ said' \in {"quiet", "blind"}
  BY DEF Ends
<1>2. slot[s] \in SlotType /\ SlotSound(slot[s], home) /\ slot \in [Slots -> SlotType]
  BY DEF IInv, Types
<1>3. slot[s].user \in Users /\ slot[s].here = slot[s].origin
  BY <1>1, <1>2 DEF SlotSound
<1>4. CASE LoadNets(s)
  <2>1. Member(slot[s].here, nets[slot[s].user].val)
    <3>1. CASE ~Member(slot[s].here, nets[slot[s].user].val)
      <4>1. said' = "nothing"
        BY <1>4, <3>1 DEF LoadNets
      <4> QED BY <1>1, <4>1
    <3> QED BY <3>1
  <2>2. InOrder(nets[slot[s].user].val, home[slot[s].user])
    BY <1>3 DEF IInv, NetSound
  <2> QED BY <1>3, <2>1, <2>2 DEF Member, InOrder
<1>5. CASE SaveNets(s) \/ SaveFails(s)
  <2>1. slot[s].pc = "save" /\ (said' = "quiet" => ~Known(slot[s].list)) /\ said' # "blind"
    BY <1>5 DEF SaveNets, SaveFails, Returns
  <2>2. slot[s].list = <<>>
    BY <1>1, <1>2, <2>1 DEF Known, SlotType
  <2> QED BY <1>2, <2>1, <2>2 DEF SlotSound
<1>6. CASE LoadFails(s)
  BY <1>1, <1>6 DEF LoadFails, Returns
<1> QED BY <1>4, <1>5, <1>6, EndIsOwn

\* Who is not reported comes from where the user logged in before, whatever
\* headers the request carries and whatever overlaps or fails, but for a user
\* without a list and, without FailClosed, a list that could not be loaded.
THEOREM KnownNetsNoStranger == Spec => NoStrangerSlips
<1>1. Spec => []IInv
  BY InitIInv, NextIInv, PTL DEF Spec
<1>2. IInv /\ [Next]_vars =>
        [\A s \in Slots : Ends(s, {"quiet", "blind"}) =>
           \/ slot[s].origin \in home[slot[s].user]
           \/ slot[s].baseless
           \/ said' = "blind" /\ ~tracker.failClosed]_vars
  BY StrangerStep
<1> QED BY <1>1, <1>2, PTL DEF Spec, NoStrangerSlips

LEMMA FamiliarStep ==
    ASSUME IInv, Next, NEW s \in Slots, Ends(s, {"remote_login"}), slot[s].user \notin raced,
           NEW j \in 1 .. Len(trail[slot[s].user])
    PROVE  trail[slot[s].user][j] # slot[s].origin
<1>1. slot[s].pc # "idle" /\ said' = "remote_login"
  BY DEF Ends
<1>2. slot[s] \in SlotType /\ SlotSound(slot[s], home) /\ slot[s].user \in Users \ raced
  BY <1>1 DEF IInv, Types, SlotSound
<1>3. ~LoadNets(s) /\ ~LoadFails(s)
  BY <1>1 DEF LoadNets, LoadFails, Returns
<1>4. SaveNets(s) \/ SaveFails(s)
  BY <1>3, EndIsOwn
<1>5. slot[s].pc = "save" /\ Known(slot[s].list)
  BY <1>1, <1>4 DEF SaveNets, SaveFails, Returns
<1>6. slot[s].list # <<>>
  BY <1>5 DEF Known
<1>7. trail[slot[s].user] = slot[s].list
  BY <1>2, <1>5, <1>6 DEF IInv, TrailIsList
<1> QED BY <1>2, <1>5, <1>7 DEF SlotSound, Member

\* None of the newest KnownNets networks of a user is reported within
\* KnownNetTTL, unless logins of the user overlapped.
THEOREM KnownNetsFamiliar == Spec => FamiliarStaysQuiet
<1>1. Spec => []IInv
  BY InitIInv, NextIInv, PTL DEF Spec
<1>2. IInv /\ [Next]_vars =>
        [\A s \in Slots : Ends(s, {"remote_login"}) /\ slot[s].user \notin raced =>
           LET recent == trail[slot[s].user]
           IN  \A j \in 1 .. Len(recent) : recent[j] # slot[s].origin]_vars
  BY FamiliarStep
<1> QED BY <1>1, <1>2, PTL DEF Spec, FamiliarStaysQuiet

-----------------------------------------------------------------------------
(***************************************************************************)
(* Places are prefixes.                                                    *)
(***************************************************************************)

\* A set of numbers that has 0 and, with a number, the next one has them all.
LEMMA Induction == ASSUME NEW T \in SUBSET Nat, 0 \in T, \A n \in T : n + 1 \in T
                   PROVE  T = Nat
<1> SUFFICES ASSUME T # Nat PROVE FALSE
    OBVIOUS
<1> DEFINE R == OpToRel(<, Nat)
           U == Nat \ T
<1>1. IsWellFoundedOn(R, Nat)
  BY NatLessThanWellFounded, Zenon
<1>2. PICK x \in U : \A y \in U : ~(<<y, x>> \in R)
  <2>1. U \subseteq Nat /\ U # {}
    OBVIOUS
  <2> HIDE DEF R, U
  <2> QED BY <1>1, <2>1, WFMin
<1>3. x \in Nat /\ x # 0 /\ x - 1 \in Nat
  OBVIOUS
<1>4. x - 1 \in U
  <2>1. (x - 1) + 1 = x
    BY <1>3
  <2> QED BY <1>3, <2>1
<1>5. <<x - 1, x>> \in R
  BY <1>3 DEF OpToRel
<1> QED BY <1>2, <1>4, <1>5

\* 2 ^ n is how many subsets n things have: one more thing makes twice as many.
LEMMA PowersOfTwo ==
    /\ 2 ^ 0 = 1
    /\ \A n \in Nat : 2 ^ n \in Nat \ {0} /\ 2 ^ (n + 1) = 2 * 2 ^ n
<1>1. ASSUME NEW n \in Nat
      PROVE  IsFiniteSet(SUBSET (1 .. n)) /\ Cardinality(SUBSET (1 .. n)) = 2 ^ n
  <2>1. IsFiniteSet(1 .. n) /\ Cardinality(1 .. n) = n
    BY FS_Interval
  <2> QED BY <2>1, FS_SUBSET
<1>2. 2 ^ 0 = 1
  <2>1. SUBSET (1 .. 0) = {{}}
    OBVIOUS
  <2> QED BY <1>1, <2>1, FS_Singleton
<1>3. ASSUME NEW n \in Nat PROVE 2 ^ (n + 1) = 2 * 2 ^ n
  <2> DEFINE A == SUBSET (1 .. n)
             B == {s \cup {n + 1} : s \in A}
             f == [s \in A |-> s \cup {n + 1}]
  <2>1. IsFiniteSet(A) /\ Cardinality(A) = 2 ^ n
    BY <1>1
  <2>2. f \in Bijection(A, B)
    <3>1. ASSUME NEW s \in A, NEW t \in A, f[s] = f[t] PROVE s = t
      BY <3>1
    <3>2. f \in [A -> B] /\ \A t \in B : \E s \in A : f[s] = t
      OBVIOUS
    <3> HIDE DEF f, A, B
    <3> QED BY <3>1, <3>2, Fun_IsBij
  <2>3. IsFiniteSet(B) /\ Cardinality(B) = Cardinality(A)
    <3> HIDE DEF A, B, f
    <3> QED BY <2>1, <2>2, FS_Bijection DEF ExistsBijection
  <2>4. A \cap B = {}
    OBVIOUS
  <2>5. SUBSET (1 .. n + 1) = A \cup B
    <3>1. 1 .. n + 1 = 1 .. n \cup {n + 1}
      OBVIOUS
    <3>2. ASSUME NEW s \in SUBSET (1 .. n + 1) PROVE s \in A \cup B
      <4>1. CASE n + 1 \in s
        <5>1. s \ {n + 1} \in A /\ s = (s \ {n + 1}) \cup {n + 1}
          BY <3>1, <4>1
        <5> QED BY <5>1
      <4>2. CASE n + 1 \notin s
        BY <3>1, <4>2
      <4> QED BY <4>1, <4>2
    <3>3. A \subseteq SUBSET (1 .. n + 1) /\ B \subseteq SUBSET (1 .. n + 1)
      BY <3>1
    <3> QED BY <3>2, <3>3
  <2>6. Cardinality(A \cup B) = 2 ^ n + 2 ^ n
    <3>1. Cardinality(A \cap B) = 0
      BY <2>4, FS_EmptySet
    <3>2. Cardinality(A \cup B) = Cardinality(A) + Cardinality(B) - Cardinality(A \cap B)
      <4> HIDE DEF A, B
      <4> QED BY <2>1, <2>3, FS_Union
    <3>3. Cardinality(A) \in Nat
      <4> HIDE DEF A
      <4> QED BY <2>1, FS_CardinalityType
    <3> QED BY <2>1, <2>3, <3>1, <3>2, <3>3
  <2>7. Cardinality(SUBSET (1 .. n + 1)) = 2 ^ (n + 1)
    BY <1>1
  <2>8. 2 ^ n \in Nat
    <3> HIDE DEF A
    <3> QED BY <2>1, FS_CardinalityType
  <2>9. 2 ^ (n + 1) = 2 ^ n + 2 ^ n
    BY <2>5, <2>6, <2>7
  <2> HIDE DEF A, B, f
  <2> DEFINE p == 2 ^ n
             q == 2 ^ (n + 1)
  <2>10. p \in Nat /\ q = p + p
    BY <2>8, <2>9
  <2> HIDE DEF p, q
  <2>11. q = 2 * p
    BY <2>10
  <2> QED BY <2>11 DEF p, q
<1>4. ASSUME NEW n \in Nat PROVE 2 ^ n \in Nat \ {0}
  <2>1. 2 ^ n \in Nat
    BY <1>1, FS_CardinalityType
  <2>2. SUBSET (1 .. n) # {}
    OBVIOUS
  <2> QED BY <1>1, <2>1, <2>2, FS_EmptySet
<1> QED BY <1>2, <1>3, <1>4

\* Division, in terms of multiples.
LEMMA Quotient ==
    ASSUME NEW x \in Nat, NEW p \in Nat \ {0}
    PROVE  /\ x \div p \in Nat /\ x % p \in 0 .. p - 1
           /\ x = p * (x \div p) + (x % p)
OBVIOUS

LEMMA OneMore == \A p, q \in Nat : p * (q + 1) = p * q + p
OBVIOUS

LEMMA QuotientIs ==
    ASSUME NEW x \in Nat, NEW p \in Nat \ {0}, NEW q \in Nat, p * q <= x, x < p * q + p
    PROVE  x \div p = q
<1> DEFINE d == x \div p
<1>1. d \in Nat /\ p * d <= x /\ x < p * d + p
  BY Quotient
<1> HIDE DEF d
<1>2. p * (d + 1) = p * d + p /\ p * (q + 1) = p * q + p
  BY <1>1, OneMore
<1>3. ASSUME d < q PROVE FALSE
  <2>1. p * (d + 1) <= p * q
    BY <1>1, <1>3
  <2> QED BY <1>1, <1>2, <2>1
<1>4. ASSUME q < d PROVE FALSE
  <2>1. p * (q + 1) <= p * d
    BY <1>1, <1>4
  <2> QED BY <1>1, <1>2, <2>1
<1>5. d = q
  BY <1>1, <1>3, <1>4
<1> QED BY <1>5 DEF d

\* One bit less: the quotient is halved, and the bit was its lowest.
LEMMA Halving ==
    ASSUME NEW x \in Nat, NEW p \in Nat \ {0}
    PROVE  (x \div p) \div 2 = x \div (2 * p)
<1> DEFINE q == x \div p
           h == q \div 2
           e == q % 2
<1>1. q \in Nat /\ p * q <= x /\ x < p * q + p
  BY Quotient
<1>2. h \in Nat /\ e \in 0 .. 1 /\ q = 2 * h + e
  BY <1>1
<1> HIDE DEF q, h, e
<1>3. p * q = 2 * (p * h) + p * e /\ 0 <= p * e /\ p * e <= p
  <2>1. p * q = p * (2 * h) + p * e
    BY <1>2
  <2>2. p * (2 * h) = 2 * (p * h)
    BY <1>2
  <2>3. e = 0 \/ e = 1
    BY <1>2
  <2>4. 0 <= p * e /\ p * e <= p
    BY <2>3
  <2> QED BY <2>1, <2>2, <2>4
<1>4. (2 * p) * h = 2 * (p * h) /\ p * h \in Nat /\ p * e \in Nat /\ 2 * p \in Nat \ {0}
  BY <1>2
<1>5. (2 * p) * h <= x /\ x < (2 * p) * h + 2 * p
  BY <1>1, <1>3, <1>4
<1>6. x \div (2 * p) = h
  BY <1>2, <1>4, <1>5, QuotientIs
<1> QED BY <1>6 DEF h, q

\* Masking: two numbers agree without their lowest bits when their quotients do.
LEMMA Masked ==
    ASSUME NEW x \in Nat, NEW y \in Nat, NEW p \in Nat \ {0}
    PROVE  (x - (x % p) = y - (y % p)) <=> (x \div p = y \div p)
<1> DEFINE c == x \div p
           d == y \div p
<1>1. c \in Nat /\ d \in Nat /\ x - (x % p) = p * c /\ y - (y % p) = p * d
  BY Quotient
<1> HIDE DEF c, d
<1>2. ASSUME p * c = p * d PROVE c = d
  BY <1>1, <1>2
<1>3. (p * c = p * d) <=> (c = d)
  BY <1>2
<1> QED BY <1>1, <1>3 DEF c, d

\* The bit at place i, from above, of a number of size bits.
BitAt(x, size, i) == (x \div 2 ^ (size - i)) % 2

\* The quotients agree when all the bits above do.
LEMMA PrefixBits ==
    ASSUME NEW size \in Nat, NEW x \in Nat, NEW y \in Nat, x < 2 ^ size, y < 2 ^ size,
           NEW k \in 0 .. size
    PROVE  (x \div 2 ^ (size - k) = y \div 2 ^ (size - k))
             <=> \A i \in 1 .. k : BitAt(x, size, i) = BitAt(y, size, i)
<1> DEFINE Agree(m) == \A i \in 1 .. m : BitAt(x, size, i) = BitAt(y, size, i)
           Top(z, m) == z \div 2 ^ (size - m)
           T == {m \in Nat : m <= size => ((Top(x, m) = Top(y, m)) <=> Agree(m))}
<1>1. 0 \in T
  <2>1. size - 0 = size /\ 1 .. 0 = {}
    OBVIOUS
  <2>2. 2 ^ size \in Nat \ {0}
    BY PowersOfTwo
  <2>3. ASSUME NEW z \in Nat, z < 2 ^ size PROVE z \div 2 ^ size = 0
    <3> DEFINE p == 2 ^ size
    <3>1. p \in Nat \ {0} /\ z < p
      BY <2>2, <2>3
    <3> HIDE DEF p
    <3>2. p * 0 = 0
      BY <3>1
    <3>3. z \div p = 0
      BY <3>1, <3>2, QuotientIs
    <3> QED BY <3>3 DEF p
  <2>4. Top(x, 0) = Top(y, 0)
    BY <2>1, <2>3
  <2>5. Agree(0)
    BY <2>1
  <2> QED BY <2>4, <2>5
<1>2. ASSUME NEW m \in T PROVE m + 1 \in T
  <2> SUFFICES ASSUME m + 1 <= size PROVE (Top(x, m + 1) = Top(y, m + 1)) <=> Agree(m + 1)
      OBVIOUS
  <2>1. m \in Nat /\ ((Top(x, m) = Top(y, m)) <=> Agree(m))
    OBVIOUS
  <2>2. ASSUME NEW z \in Nat
        PROVE  /\ Top(z, m + 1) \in Nat
               /\ Top(z, m + 1) \div 2 = Top(z, m)
               /\ Top(z, m + 1) % 2 = BitAt(z, size, m + 1)
    <3> DEFINE r == size - (m + 1)
               p == 2 ^ r
    <3>1. r \in Nat /\ size - m = r + 1
      BY <2>1
    <3> HIDE DEF r
    <3>2. p \in Nat \ {0} /\ 2 ^ (size - m) = 2 * p
      BY <3>1, PowersOfTwo
    <3> HIDE DEF p
    <3>3. z \div p \in Nat /\ (z \div p) \div 2 = z \div (2 * p)
      BY <3>2, Quotient, Halving
    <3> QED BY <3>2, <3>3 DEF p, r, BitAt
  <2>3. Agree(m + 1) <=> Agree(m) /\ BitAt(x, size, m + 1) = BitAt(y, size, m + 1)
    <3>1. 1 .. m + 1 = 1 .. m \cup {m + 1}
      BY <2>1
    <3> QED BY <3>1
  <2> DEFINE c == Top(x, m + 1)
             d == Top(y, m + 1)
  <2>4. c \in Nat /\ d \in Nat
    BY <2>2
  <2>5. (c = d) <=> (c \div 2 = d \div 2 /\ c % 2 = d % 2)
    <3> HIDE DEF c, d
    <3> QED BY <2>4
  <2> HIDE DEF Agree
  <2> QED BY <2>1, <2>2, <2>3, <2>5
<1>3. T = Nat
  <2>1. T \in SUBSET Nat
    OBVIOUS
  <2> HIDE DEF T
  <2> QED BY <1>1, <1>2, <2>1, Induction
<1>4. k \in T /\ k <= size
  <2> HIDE DEF T
  <2> QED BY <1>3
<1> QED BY <1>4

\* What masking leaves of x, where the bits that are wanted count.
Width(size, wanted) == IF wanted > size THEN size ELSE wanted

Mask(x, size, wanted) == x - (x % 2 ^ (size - Width(size, wanted)))

SameBits(x, y, size, wanted) ==
    \A i \in 1 .. size : i <= wanted => BitAt(x, size, i) = BitAt(y, size, i)

\* It is the same when these bits are, however many were wished for.
LEMMA SamePrefix ==
    ASSUME NEW size \in Nat, NEW x \in Nat, NEW y \in Nat, x < 2 ^ size, y < 2 ^ size,
           NEW wanted \in Nat
    PROVE  (Mask(x, size, wanted) = Mask(y, size, wanted)) <=> SameBits(x, y, size, wanted)
<1> DEFINE k == IF wanted > size THEN size ELSE wanted
<1>1. k \in 0 .. size /\ \A i \in 1 .. size : (i <= wanted) <=> (i \in 1 .. k)
  OBVIOUS
<1>2. 2 ^ (size - k) \in Nat \ {0}
  BY <1>1, PowersOfTwo
<1>3. 1 .. k \subseteq 1 .. size
  BY <1>1
<1>4. (x - (x % 2 ^ (size - k)) = y - (y % 2 ^ (size - k)))
        <=> (x \div 2 ^ (size - k) = y \div 2 ^ (size - k))
  BY <1>2, Masked
<1>5. Mask(x, size, wanted) = x - (x % 2 ^ (size - k)) /\ Mask(y, size, wanted) = y - (y % 2 ^ (size - k))
  BY DEF Mask, Width
<1> HIDE DEF k
<1> QED BY <1>1, <1>3, <1>4, <1>5, PrefixBits DEF SameBits

\* Two addresses are one place when they share the prefix.
LEMMA PlacesShared ==
    ASSUME NEW a \in Addresses, NEW b \in Addresses, NEW bits \in Nat
    PROVE  (network(a, bits) = network(b, bits)) <=> SharePrefix(a, b, bits)
<1>1. /\ a \in [kind : {"raw", "v4", "mapped", "v6"}, n : Nat]
      /\ b \in [kind : {"raw", "v4", "mapped", "v6"}, n : Nat]
  BY AddressesAssumption
<1>2. V4Size \in Nat /\ V6Size \in Nat /\ v6Shift \in Nat
  BY AddressAssumption
<1>3. ASSUME NEW c \in {a, b}, IsV4(c)
      PROVE  /\ c.n < 2 ^ V4Size /\ c.n \in Nat
             /\ network(c, bits) =
                  [kind |-> "v4", bits |-> Width(V4Size, bits),
                   n |-> Mask(c.n, V4Size, bits)]
             /\ \A i \in 1 .. V4Size : Bit(c, i) = BitAt(c.n, V4Size, i)
  BY <1>1, <1>2, <1>3, AddressesAssumption
     DEF IsV4, Parses, Canonical, kept, network, Bit, BitAt, Width, Mask
<1>4. ASSUME NEW c \in {a, b}, c.kind = "v6"
      PROVE  /\ c.n < 2 ^ V6Size /\ c.n \in Nat
             /\ network(c, bits) =
                  [kind |-> "v6", bits |-> Width(V6Size, bits + v6Shift),
                   n |-> Mask(c.n, V6Size, bits + v6Shift)]
             /\ \A i \in 1 .. V6Size : Bit(c, i) = BitAt(c.n, V6Size, i)
  BY <1>1, <1>2, <1>4, AddressesAssumption
     DEF IsV4, Parses, Canonical, kept, network, Bit, BitAt, Width, Mask
<1>5. ASSUME NEW c \in {a, b}, c.kind = "raw"
      PROVE  network(c, bits) = [kind |-> "raw", n |-> c.n, bits |-> 0]
  BY <1>5 DEF Parses, network
<1>6. CASE IsV4(a) /\ IsV4(b)
  <2>1. (network(a, bits) = network(b, bits)) <=> (Mask(a.n, V4Size, bits) = Mask(b.n, V4Size, bits))
    BY <1>3, <1>6
  <2>2. SharePrefix(a, b, bits) <=> SameBits(a.n, b.n, V4Size, bits)
    BY <1>3, <1>6 DEF SharePrefix, SameBits, IsV4, Parses
  <2> QED BY <1>2, <1>3, <1>6, <2>1, <2>2, SamePrefix
<1>7. CASE a.kind = "v6" /\ b.kind = "v6"
  <2> DEFINE wanted == bits + v6Shift
  <2>1. (network(a, bits) = network(b, bits))
          <=> (Mask(a.n, V6Size, wanted) = Mask(b.n, V6Size, wanted))
    BY <1>4, <1>7
  <2>2. SharePrefix(a, b, bits) <=> SameBits(a.n, b.n, V6Size, wanted)
    BY <1>4, <1>7 DEF SharePrefix, SameBits, IsV4, Parses
  <2>3. wanted \in Nat
    BY <1>2
  <2> HIDE DEF wanted
  <2> QED BY <1>2, <1>4, <1>7, <2>1, <2>2, <2>3, SamePrefix
<1>8. CASE a.kind = "raw" /\ b.kind = "raw"
  <2>1. (network(a, bits) = network(b, bits)) <=> (a.n = b.n)
    BY <1>5, <1>8
  <2>2. (a = b) <=> (a.n = b.n)
    BY <1>1, <1>8
  <2> QED BY <1>8, <2>1, <2>2 DEF SharePrefix, IsV4, Parses
<1>9. CASE ~(IsV4(a) /\ IsV4(b)) /\ ~(a.kind = "v6" /\ b.kind = "v6")
           /\ ~(a.kind = "raw" /\ b.kind = "raw")
  <2>1. ~SharePrefix(a, b, bits)
    BY <1>9 DEF SharePrefix, Parses
  <2>2. network(a, bits).kind # network(b, bits).kind
    BY <1>1, <1>3, <1>4, <1>5, <1>9 DEF IsV4
  <2> QED BY <2>1, <2>2
<1> QED BY <1>6, <1>7, <1>8, <1>9

\* Two addresses, of any number of bits and in either family, are one place for
\* the Tracker exactly when they share the prefix that it is set to.
THEOREM KnownNetsPlaces == Spec => []PlaceIsPrefix
<1>1. Spec => []IInv
  BY InitIInv, NextIInv, PTL DEF Spec
<1>2. ASSUME NEW t \in Settings, NEW a \in Addresses, NEW b \in Addresses
      PROVE  (network(a, subnetBits(t.bits)) = network(b, subnetBits(t.bits)))
               <=> SharePrefix(a, b, subnetBits(t.bits))
  <2>1. t.bits \in Int /\ defaultSubnetBits \in Nat
    BY KnownNetsAssumption, AddressAssumption
  <2>2. subnetBits(t.bits) \in Nat
    BY <2>1 DEF subnetBits
  <2> QED BY <2>2, PlacesShared
<1>3. ASSUME IInv PROVE PlaceIsPrefix
  <2>1. tracker \in Settings
    BY <1>3 DEF IInv, Types
  <2>2. Prefixed[tracker] =
          \A a, b \in Addresses :
            (network(a, subnetBits(tracker.bits)) = network(b, subnetBits(tracker.bits)))
              <=> SharePrefix(a, b, subnetBits(tracker.bits))
    BY <2>1 DEF Prefixed
  <2> QED BY <1>2, <2>1, <2>2 DEF PlaceIsPrefix
<1>4. IInv => PlaceIsPrefix
  BY <1>3
<1> QED BY <1>1, <1>4, PTL
=============================================================================
