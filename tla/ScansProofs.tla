----------------------------- MODULE ScansProofs -----------------------------
(***************************************************************************)
(* IPBlacklist bans whom it should, over any backend that keeps the        *)
(* contracts: for any number of callers and addresses, every threshold,    *)
(* and every window shorter than the ban.  The pattern detectors report    *)
(* the worst they know of an input, and the mascot the worst of them.      *)
(* CookieAttrs reports what a browser would do without, and NestedDepth    *)
(* the bodies beyond its limits, whatever their size.                      *)
(***************************************************************************)
EXTENDS Scans, WellFoundedInduction, TLAPS

\* A RecordAttack has counted an attack of i and is about to ban it.
Banning(i) == \E s \in Slots : slot[s].busy /\ slot[s].ip = i

\* Neither a counter nor the last attack lies in the future.
PastOnly == \A i \in Ips : counter[i].since <= now /\ lastHit[i] <= now

\* A ban outlives the counter that earned it.
BanOutlives ==
    faults = 0 =>
      \A i \in Ips : counter[i].count >= Threshold =>
        ban[i] >= counter[i].since + BanDuration \/ Banning(i)

IInv == TypeOK /\ PastOnly /\ BanOutlives /\ BanCoversLastAttack

LEMMA InitIInv == Init => IInv
<1> SUFFICES ASSUME Init PROVE IInv
    OBVIOUS
<1> USE BlacklistAssumption
<1>1. TypeOK
  BY DEF Init, TypeOK, Counts!NoCounter
<1>2. PastOnly /\ BanOutlives /\ BanCoversLastAttack
  BY DEF Init, PastOnly, BanOutlives, BanCoversLastAttack, Counts!NoCounter
<1> QED BY <1>1, <1>2 DEF IInv

\* What Incr does to the counter of i, in numbers.
LEMMA IncrCounts ==
    ASSUME IInv, NEW i \in Ips, Counts!CIncr(i)
    PROVE  /\ counter' \in [Ips -> [count : Nat, since : Nat]]
           /\ counter'[i].since <= now
           /\ counter'[i].count = answer'.val
           /\ \A j \in Ips \ {i} : counter'[j] = counter[j]
           /\ now' = now
<1> DEFINE new == IF counter[i].count = 0
                    THEN [count |-> 1, since |-> now]
                    ELSE [count |-> counter[i].count + 1, since |-> counter[i].since]
<1>1. counter[i] \in [count : Nat, since : Nat] /\ counter[i].since <= now /\ now \in Nat
  BY DEF IInv, TypeOK, PastOnly
<1>2. new \in [count : Nat, since : Nat] /\ new.since <= now
  BY <1>1
<1>3. counter' = [counter EXCEPT ![i] = new] /\ now' = now
  BY DEF Counts!CIncr
<1> HIDE DEF new
<1>4. answer'.val = counter'[i].count
  BY DEF Counts!CIncr
<1> QED BY <1>2, <1>3, <1>4 DEF IInv, TypeOK

\* A slot without a call in it, and a slot with one.
LEMMA SlotCases ==
    ASSUME IInv, NEW s \in Slots
    PROVE  \/ slot[s] = Idle /\ ~slot[s].busy
           \/ \E i \in Ips : slot[s] = [busy |-> TRUE, ip |-> i] /\ slot[s].busy /\ slot[s].ip = i
<1>1. slot[s] = Idle \/ slot[s] \in [busy : {TRUE}, ip : Ips]
  BY DEF IInv, TypeOK
<1>2. ASSUME slot[s] = Idle PROVE ~slot[s].busy
  BY <1>2 DEF Idle
<1>3. ASSUME slot[s] \in [busy : {TRUE}, ip : Ips]
      PROVE  \E i \in Ips : slot[s] = [busy |-> TRUE, ip |-> i] /\ slot[s].busy /\ slot[s].ip = i
  <2>1. slot[s].busy = TRUE /\ slot[s].ip \in Ips
        /\ slot[s] = [busy |-> TRUE, ip |-> slot[s].ip]
    BY <1>3
  <2> QED BY <2>1, Zenon
<1> QED BY <1>1, <1>2, <1>3

\* When a call ends, the others go on.
LEMMA Ended ==
    ASSUME IInv, NEW s \in Slots, slot' = [slot EXCEPT ![s] = Idle]
    PROVE  /\ slot' \in [Slots -> {Idle} \cup [busy : {TRUE}, ip : Ips]]
           /\ ~slot'[s].busy
           /\ \A t \in Slots \ {s} : slot'[t] = slot[t]
<1>1. slot \in [Slots -> {Idle} \cup [busy : {TRUE}, ip : Ips]]
  BY DEF IInv, TypeOK
<1>2. slot'[s] = Idle /\ slot' \in [Slots -> {Idle} \cup [busy : {TRUE}, ip : Ips]]
      /\ \A t \in Slots \ {s} : slot'[t] = slot[t]
  BY <1>1
<1>3. ~Idle.busy
  BY DEF Idle
<1> QED BY <1>2, <1>3

\* A call that ends with its ban leaves the address banned from now on.
LEMMA BanIInv == ASSUME NEW s \in Slots, IInv, Ban(s) PROVE IInv'
<1> USE BlacklistAssumption
<1>1. PICK i \in Ips : slot[s].busy /\ slot[s].ip = i
  BY SlotCases DEF Ban
<1>2. /\ ban' \in [Ips -> Nat] /\ ban'[i] = now + BanDuration
      /\ \A j \in Ips \ {i} : ban'[j] = ban[j]
  BY <1>1 DEF Ban, Bans!BBlock, IInv, TypeOK
<1>3. UNCHANGED <<now, counter, faults, lastHit>>
  BY DEF Ban, Bans!BBlock
<1>4. /\ slot' \in [Slots -> {Idle} \cup [busy : {TRUE}, ip : Ips]]
      /\ ~slot'[s].busy
      /\ \A t \in Slots \ {s} : slot'[t] = slot[t]
  BY Ended DEF Ban
<1>5. TypeOK' /\ PastOnly'
  BY <1>2, <1>3, <1>4 DEF IInv, TypeOK, PastOnly
<1>6. counter[i].since \in Nat /\ counter[i].since <= now /\ lastHit[i] \in Nat
      /\ lastHit[i] <= now /\ now \in Nat
  BY DEF IInv, TypeOK, PastOnly
<1>7. ASSUME NEW j \in Ips \ {i} PROVE Banning(j)' = Banning(j)
  BY <1>1, <1>4, <1>7 DEF Banning
<1>8. BanOutlives'
  <2>1. ban'[i] >= counter[i].since + BanDuration
    BY <1>2, <1>6
  <2> QED BY <1>2, <1>3, <1>7, <2>1 DEF IInv, BanOutlives
<1>9. BanCoversLastAttack'
  <2>1. ban'[i] >= lastHit[i] + BanDuration
    BY <1>2, <1>6
  <2>2. ASSUME NEW j \in Ips \ {i}, \A t \in Slots : slot'[t].busy => slot'[t].ip # j
        PROVE  \A t \in Slots : slot[t].busy => slot[t].ip # j
    BY <1>1, <1>4, <2>2
  <2> QED BY <1>2, <1>3, <2>1, <2>2 DEF IInv, BanCoversLastAttack
<1> QED BY <1>5, <1>8, <1>9 DEF IInv

LEMMA TickIInv == IInv /\ Tick => IInv'
<1> SUFFICES ASSUME IInv, Tick PROVE IInv'
    OBVIOUS
<1> USE BlacklistAssumption
<1>1. /\ now \in Nat /\ now' = now + 1 /\ UNCHANGED <<slot, faults, lastHit>>
      /\ ban \in [Ips -> Nat] /\ lastHit \in [Ips -> Nat]
      /\ counter \in [Ips -> [count : Nat, since : Nat]]
  BY DEF Tick, Bans!BTick, IInv, TypeOK
<1>2. /\ ban' \in [Ips -> Nat]
      /\ \A i \in Ips : ban'[i] = IF now + 1 < ban[i] THEN ban[i] ELSE 0
  BY <1>1 DEF Tick, Bans!BTick
<1>3. Counts!NoCounter \in [count : Nat, since : Nat]
      /\ Counts!NoCounter.count = 0 /\ Counts!NoCounter.since = 0
  BY DEF Counts!NoCounter
<1>4. /\ counter' \in [Ips -> [count : Nat, since : Nat]]
      /\ \A i \in Ips : counter'[i] = IF now + 1 - counter[i].since > Window
                                        THEN Counts!NoCounter ELSE counter[i]
  BY <1>1, <1>3 DEF Tick, Counts!CTick
<1>5. TypeOK'
  <2>1. slot' \in [Slots -> {Idle} \cup [busy : {TRUE}, ip : Ips]] /\ faults' \in Nat
    BY <1>1 DEF IInv, TypeOK
  <2>2. now' \in Nat /\ lastHit' \in [Ips -> Nat]
    BY <1>1
  <2> QED BY <1>2, <1>4, <2>1, <2>2, Zenon DEF TypeOK
<1>6. PastOnly'
  BY <1>1, <1>3, <1>4 DEF IInv, PastOnly
<1>7. BanOutlives'
  <2> SUFFICES ASSUME faults = 0, NEW i \in Ips, counter'[i].count >= Threshold, ~Banning(i)
               PROVE  ban'[i] >= counter'[i].since + BanDuration
      BY <1>1 DEF BanOutlives, Banning
  <2>1. counter'[i] = counter[i] /\ ~(now + 1 - counter[i].since > Window)
    BY <1>3, <1>4
  <2>2. ban[i] >= counter[i].since + BanDuration
    BY <2>1 DEF IInv, BanOutlives
  <2>3. now + 1 < ban[i]
    BY <1>1, <2>1, <2>2
  <2> QED BY <1>2, <2>1, <2>2, <2>3
<1>8. BanCoversLastAttack'
  <2> SUFFICES ASSUME faults = 0, NEW i \in Ips, lastHit[i] # 0,
                      \A s \in Slots : slot[s].busy => slot[s].ip # i,
                      now + 1 < lastHit[i] + BanDuration
               PROVE  ban'[i] >= lastHit[i] + BanDuration
      BY <1>1 DEF BanCoversLastAttack
  <2>1. now < lastHit[i] + BanDuration
    BY <1>1
  <2>2. ban[i] >= lastHit[i] + BanDuration
    BY <2>1 DEF IInv, BanCoversLastAttack
  <2> QED BY <1>1, <1>2, <2>2
<1> QED BY <1>5, <1>6, <1>7, <1>8 DEF IInv

LEMMA RecordIInv == ASSUME NEW s \in Slots, NEW i \in Ips, IInv, RecordAttack(s, i) PROVE IInv'
<1> USE BlacklistAssumption
<1>1. /\ counter' \in [Ips -> [count : Nat, since : Nat]]
      /\ counter'[i].since <= now /\ counter'[i].count = answer'.val /\ now' = now
      /\ \A j \in Ips \ {i} : counter'[j] = counter[j]
  BY IncrCounts DEF RecordAttack
<1>2. ~slot[s].busy /\ UNCHANGED <<ban, faults>>
  BY DEF RecordAttack
<1>3. counter'[i].count \in Nat /\ now \in Nat /\ lastHit \in [Ips -> Nat]
  BY <1>1 DEF IInv, TypeOK
<1>4. ASSUME Reaches(answer'.val) PROVE IInv'
  <2> DEFINE new == [busy |-> TRUE, ip |-> i]
  <2>1. slot' = [slot EXCEPT ![s] = new] /\ lastHit' = [lastHit EXCEPT ![i] = now]
    BY <1>4 DEF RecordAttack
  <2>2. new \in [busy : {TRUE}, ip : Ips] /\ new.busy /\ new.ip = i
    OBVIOUS
  <2> HIDE DEF new
  <2>3. /\ slot' \in [Slots -> {Idle} \cup [busy : {TRUE}, ip : Ips]] /\ slot'[s] = new
        /\ \A t \in Slots \ {s} : slot'[t] = slot[t]
    BY <2>1, <2>2 DEF IInv, TypeOK
  <2>4. /\ lastHit' \in [Ips -> Nat] /\ lastHit'[i] = now
        /\ \A j \in Ips \ {i} : lastHit'[j] = lastHit[j]
    BY <1>3, <2>1
  <2>5. TypeOK' /\ PastOnly'
    <3>1. now' \in Nat /\ ban' \in [Ips -> Nat] /\ faults' \in Nat
      BY <1>1, <1>2 DEF IInv, TypeOK
    <3>2. TypeOK'
      BY <1>1, <2>3, <2>4, <3>1, Zenon DEF TypeOK
    <3>3. \A j \in Ips : counter'[j].since <= now /\ lastHit'[j] <= now
      BY <1>1, <1>3, <2>4 DEF IInv, PastOnly
    <3> QED BY <1>1, <3>2, <3>3 DEF PastOnly
  <2>6. Banning(i)'
    BY <2>2, <2>3 DEF Banning
  <2>7. ASSUME NEW j \in Ips, Banning(j) PROVE Banning(j)'
    BY <1>2, <2>3, <2>7 DEF Banning
  <2>8. BanOutlives'
    BY <1>1, <1>2, <2>6, <2>7 DEF IInv, BanOutlives
  <2>9. BanCoversLastAttack'
    <3> SUFFICES ASSUME NEW j \in Ips, faults = 0, lastHit'[j] # 0,
                        \A t \in Slots : slot'[t].busy => slot'[t].ip # j,
                        now < lastHit'[j] + BanDuration
                 PROVE  ban[j] >= lastHit'[j] + BanDuration
        BY <1>1, <1>2 DEF BanCoversLastAttack
    <3>1. j # i
      BY <2>2, <2>3
    <3>2. \A t \in Slots : slot[t].busy => slot[t].ip # j
      BY <1>2, <2>3
    <3> QED BY <2>4, <3>1, <3>2 DEF IInv, BanCoversLastAttack
  <2> QED BY <2>5, <2>8, <2>9 DEF IInv
<1>5. ASSUME ~Reaches(answer'.val) PROVE IInv'
  <2>1. slot' = [slot EXCEPT ![s] = Idle] /\ lastHit' = lastHit
    BY <1>5 DEF RecordAttack
  <2>2. ~(counter'[i].count >= Threshold)
    BY <1>1, <1>5 DEF Reaches
  <2>3. /\ slot' \in [Slots -> {Idle} \cup [busy : {TRUE}, ip : Ips]] /\ ~slot'[s].busy
        /\ \A t \in Slots \ {s} : slot'[t] = slot[t]
    BY <2>1, Ended
  <2>4. TypeOK' /\ PastOnly'
    BY <1>1, <1>2, <1>3, <2>1, <2>3 DEF IInv, TypeOK, PastOnly
  <2>5. ASSUME NEW j \in Ips, Banning(j) PROVE Banning(j)'
    BY <1>2, <2>3, <2>5 DEF Banning
  <2>6. BanOutlives'
    BY <1>1, <1>2, <2>2, <2>5 DEF IInv, BanOutlives
  <2>7. ASSUME NEW j \in Ips, \A t \in Slots : slot'[t].busy => slot'[t].ip # j
        PROVE  \A t \in Slots : slot[t].busy => slot[t].ip # j
    BY <1>2, <2>3, <2>7
  <2>8. BanCoversLastAttack'
    BY <1>1, <1>2, <2>1, <2>7 DEF IInv, BanCoversLastAttack
  <2> QED BY <2>4, <2>6, <2>8 DEF IInv
<1> QED BY <1>4, <1>5

\* After a failure nothing is claimed any more.
LEMMA FaultIInv == ASSUME NEW s \in Slots, NEW i \in Ips, IInv, RecordFails(s, i) PROVE IInv'
<1> USE BlacklistAssumption
<1>1. faults' = faults + 1 /\ faults \in Nat /\ UNCHANGED lastHit /\ now \in Nat
  BY DEF RecordFails, IInv, TypeOK
<1>2. slot' \in [Slots -> {Idle} \cup [busy : {TRUE}, ip : Ips]]
  BY Ended DEF RecordFails
<1>3. /\ counter' \in [Ips -> [count : Nat, since : Nat]] /\ now' = now
      /\ \A j \in Ips : counter'[j].since <= now
  <2>1. CASE Counts!CIncr(i)
    BY <2>1, IncrCounts DEF IInv, PastOnly
  <2>2. CASE UNCHANGED <<now, counter>>
    BY <2>2 DEF IInv, TypeOK, PastOnly
  <2> QED BY <2>1, <2>2 DEF RecordFails, Bans!BBlock
<1>4. ban' \in [Ips -> Nat]
  <2>1. CASE Bans!BBlock(i, BanDuration)
    BY <1>1, <2>1 DEF Bans!BBlock, IInv, TypeOK
  <2>2. CASE UNCHANGED ban
    BY <2>2 DEF IInv, TypeOK
  <2> QED BY <2>1, <2>2 DEF RecordFails
<1>5. TypeOK' /\ PastOnly'
  <2>1. now' \in Nat /\ faults' \in Nat /\ lastHit' \in [Ips -> Nat]
    BY <1>1, <1>3 DEF IInv, TypeOK
  <2>2. TypeOK'
    BY <1>2, <1>3, <1>4, <2>1, Zenon DEF TypeOK
  <2> QED BY <1>1, <1>3, <2>2 DEF IInv, PastOnly
<1>6. BanOutlives' /\ BanCoversLastAttack'
  BY <1>1 DEF BanOutlives, BanCoversLastAttack
<1> QED BY <1>5, <1>6 DEF IInv

LEMMA DetectIInv == ASSUME NEW i \in Ips, IInv, Detect(i) PROVE IInv'
<1>1. UNCHANGED <<now, counter, ban, slot, lastHit>> /\ faults' \in {faults, faults + 1}
  BY DEF Detect, Bans!BIsBlocked
<1>2. faults \in Nat
  BY DEF IInv, TypeOK
<1>3. TypeOK' /\ PastOnly'
  <2>1. faults' \in Nat
    BY <1>1, <1>2
  <2>2. now' = now /\ counter' = counter /\ ban' = ban /\ slot' = slot /\ lastHit' = lastHit
    BY <1>1
  <2>3. TypeOK'
    BY <2>1, <2>2, Zenon DEF IInv, TypeOK
  <2> QED BY <1>1, <2>3 DEF IInv, PastOnly
<1>4. faults' = 0 => faults = 0
  BY <1>1, <1>2
<1>5. BanOutlives' /\ BanCoversLastAttack'
  BY <1>1, <1>4 DEF IInv, BanOutlives, Banning, BanCoversLastAttack
<1> QED BY <1>3, <1>5 DEF IInv

LEMMA NextIInv == IInv /\ [Next]_vars => IInv'
<1> SUFFICES ASSUME IInv, [Next]_vars PROVE IInv'
    OBVIOUS
<1>1. CASE UNCHANGED vars
  BY <1>1 DEF vars, IInv, TypeOK, PastOnly, BanOutlives, Banning, BanCoversLastAttack
<1> QED BY <1>1, TickIInv, BanIInv, RecordIInv, FaultIInv, DetectIInv DEF Next

\* "If the threshold is reached within the window, the IP is blocked": with a
\* backend that answers, racing RecordAttack calls lose neither attack nor ban.
THEOREM BlacklistThresholdBans == Spec => []ThresholdBans
<1>1. IInv => ThresholdBans
  <2> SUFFICES ASSUME IInv, faults = 0, NEW i \in Ips, counter[i].count >= Threshold,
                      ~Banning(i)
               PROVE  ban[i] # 0
      BY DEF ThresholdBans, Banning
  <2>1. ban[i] >= counter[i].since + BanDuration
    BY DEF IInv, BanOutlives
  <2> QED BY <2>1, BlacklistAssumption DEF IInv, TypeOK
<1>2. Spec => []IInv
  BY InitIInv, NextIInv, PTL DEF Spec
<1> QED BY <1>1, <1>2, PTL

\* Once the racing calls are over the ban lasts BanDuration from the last attack
\* that reached the threshold.
THEOREM BlacklistBanCovers == Spec => []BanCoversLastAttack
<1>1. Spec => []IInv
  BY InitIInv, NextIInv, PTL DEF Spec
<1> QED BY <1>1, PTL DEF IInv

-----------------------------------------------------------------------------
(***************************************************************************)
(* The pattern detectors.                                                  *)
(***************************************************************************)

Builtin == P!Range(P!RegisterAll)

DetectorNames == {d.name : d \in Builtin} \cup {"nil"}

\* The names of the built-in detectors, in the order of their registration.
LEMMA NamesInOrder ==
    /\ Len(P!RegisterAll) = 27
    /\ \A k \in 1 .. 27 :
         P!RegisterAll[k].name =
           <<"xss", "sql_injection", "command_injection", "nosql_injection", "ldap_injection",
             "xpath_injection", "jndi_injection", "ssi_injection", "graphql_injection", "ssti",
             "ssrf", "xxe", "header_injection", "host_header", "request_smuggling",
             "open_redirect", "cors", "websocket", "dns_rebinding", "deserialization",
             "csv_injection", "mail_header", "jwt_attack", "prototype_pollution",
             "path_traversal", "upload", "data_leak">>[k]
BY SMTT(60)
   DEF P!RegisterAll, P!SQL, P!XSS, P!Command, P!NoSQL, P!LDAP, P!XPath, P!JNDI, P!SSI, P!GraphQL,
       P!SSTI, P!SSRF, P!XXE, P!HeaderInjection, P!HostHeader, P!RequestSmuggling, P!OpenRedirect,
       P!CORS, P!WebSocket, P!DNSRebinding, P!Deserialization, P!CSVInjection, P!MailHeader,
       P!JWTAttack, P!PrototypePollution, P!PathTraversal, P!MaliciousFileUpload,
       P!SensitiveDataLeak

\* No two of them share a name, so that none replaces another.
LEMMA NamesApart ==
    /\ Len(P!RegisterAll) = 27
    /\ \A j, k \in 1 .. 27 : P!RegisterAll[j].name = P!RegisterAll[k].name => j = k
<1>1. ASSUME NEW j \in 1 .. 27, NEW k \in 1 .. 27, P!RegisterAll[j].name = P!RegisterAll[k].name
      PROVE  j = k
  BY <1>1, NamesInOrder, SMTT(60)
<1> QED BY <1>1, NamesInOrder

\* The detectors are what RegisterAll registers, one by one.
LEMMA BuiltinIs == Builtin = {P!RegisterAll[k] : k \in 1 .. 27}
BY NamesApart DEF Builtin, P!Range

\* No list of a detector is stronger than one that is tried before it.
LEMMA ChecksWeaken ==
    ASSUME NEW d \in Builtin
    PROVE  /\ DOMAIN d.checks \subseteq Nat
           /\ \A k \in DOMAIN d.checks : d.checks[k] \in 0 .. 3
           /\ \A j, k \in DOMAIN d.checks : j <= k => d.checks[j] >= d.checks[k]
<1>1. PICK k \in 1 .. 27 : d = P!RegisterAll[k]
  BY BuiltinIs
<1>2. /\ DOMAIN d.checks \subseteq Nat
      /\ \A j \in DOMAIN d.checks : d.checks[j] \in 0 .. 3
      /\ \A i, j \in DOMAIN d.checks : i <= j => d.checks[i] >= d.checks[j]
  BY <1>1, SMTT(60)
     DEF P!RegisterAll, P!SQL, P!XSS, P!Command, P!NoSQL, P!LDAP, P!XPath, P!JNDI, P!SSI, P!GraphQL,
         P!SSTI, P!SSRF, P!XXE, P!HeaderInjection, P!HostHeader, P!RequestSmuggling, P!OpenRedirect,
         P!CORS, P!WebSocket, P!DNSRebinding, P!Deserialization, P!CSVInjection, P!MailHeader,
         P!JWTAttack, P!PrototypePollution, P!PathTraversal, P!MaliciousFileUpload,
         P!SensitiveDataLeak, P!Low, P!Medium, P!High, P!Critical
<1> QED BY <1>2

\* A set of numbers has a least one.
LEMMA LeastExists ==
    ASSUME NEW S \in SUBSET Nat, S # {}
    PROVE  P!Min(S) \in S /\ \A m \in S : P!Min(S) <= m
<1> DEFINE R == OpToRel(<, Nat)
<1>1. IsWellFoundedOn(R, Nat)
  BY NatLessThanWellFounded, Zenon
<1>2. PICK x \in S : \A y \in S : ~(<<y, x>> \in R)
  <2> HIDE DEF R
  <2> QED BY <1>1, WFMin
<1>3. ASSUME NEW m \in S PROVE x <= m
  <2>1. m \in Nat /\ x \in Nat
    OBVIOUS
  <2>2. ASSUME m < x PROVE <<m, x>> \in R
    BY <2>1, <2>2 DEF OpToRel
  <2> HIDE DEF R
  <2> QED BY <1>2, <2>1, <2>2
<1> QED BY <1>2, <1>3 DEF P!Min

\* What an input hits of a built-in detector.
LEMMA InputHits ==
    ASSUME NEW i \in Inputs, NEW d \in DOMAIN i
    PROVE  d \in Builtin /\ P!Hits(d, i) = i[d] /\ i[d] # {} /\ i[d] \subseteq DOMAIN d.checks
BY ScansAssumption DEF P!DetectorsAssumption, Builtin, P!Hits

\* The first list that matches is the worst of those that do.
LEMMA FirstIsWorst ==
    ASSUME NEW i \in Inputs, NEW d \in DOMAIN i
    PROVE  /\ P!Result(d, i) \in [name : DetectorNames, detected : {TRUE}, severity : 0 .. 3]
           /\ P!Result(d, i).name = d.name
           /\ P!Result(d, i).severity = P!Max({d.checks[k] : k \in i[d]})
<1> DEFINE first == P!Min(i[d])
           S == {d.checks[k] : k \in i[d]}
<1>1. d \in Builtin /\ P!Hits(d, i) = i[d] /\ i[d] # {} /\ i[d] \subseteq DOMAIN d.checks
  BY InputHits
<1>2. /\ i[d] \subseteq Nat
      /\ \A k \in i[d] : d.checks[k] \in 0 .. 3
      /\ \A j, k \in i[d] : j <= k => d.checks[j] >= d.checks[k]
  BY <1>1, ChecksWeaken
<1>3. first \in i[d] /\ \A k \in i[d] : first <= k
  BY <1>1, <1>2, LeastExists
<1>4. P!Result(d, i) = [name |-> d.name, detected |-> TRUE, severity |-> d.checks[first]]
  BY <1>1 DEF P!Result, P!FirstMatch
<1> HIDE DEF first
<1>5. d.checks[first] \in S /\ \A x \in S : d.checks[first] >= x
  BY <1>2, <1>3
<1>6. S \subseteq 0 .. 3
  BY <1>2
<1>7. P!Max(S) = d.checks[first]
  <2> DEFINE top == d.checks[first]
  <2>1. top \in S /\ \A x \in S : top >= x
    BY <1>5
  <2> HIDE DEF top, S
  <2>2. \A x \in S : (\A y \in S : x >= y) => x = top
    BY <1>6, <2>1
  <2>3. P!Max(S) = top
    BY <2>1, <2>2 DEF P!Max
  <2> QED BY <2>3 DEF top
<1>8. d.name \in DetectorNames
  BY <1>1 DEF DetectorNames
<1> QED BY <1>2, <1>3, <1>4, <1>7, <1>8

\* How far RegisterAll has come, and that the detectors registered are all there.
Registry ==
    /\ registered \in 0 .. 27
    /\ DOMAIN engine = {P!RegisterAll[k].name : k \in 1 .. registered}
    /\ \A k \in 1 .. registered : engine[P!RegisterAll[k].name] = P!RegisterAll[k]

Results == [name : DetectorNames, detected : BOOLEAN, severity : 0 .. 3]

\* What has been said was said of a detector that the input hits; and a scan
\* hears, or has heard, every one of them.
Told ==
    /\ stage # "idle" => input \in Inputs /\ registered = 27
    /\ stage = "idle" => input = <<>> /\ results = <<>>
    /\ results \in Seq(Results)
    /\ \A k \in DOMAIN results :
         \/ results[k].detected = FALSE
         \/ \E d \in DOMAIN input : results[k] = P!Result(d, input)
    /\ todo \subseteq {d.name : d \in DOMAIN input}
    /\ stage = "scanning" =>
         \A d \in DOMAIN input :
           d.name \in todo \/ \E k \in DOMAIN results : results[k] = P!Result(d, input)

ScanIInv == Registry /\ Told

LEMMA ScanInitIInv == P!Init => ScanIInv
<1> SUFFICES ASSUME P!Init PROVE ScanIInv
    OBVIOUS
<1>1. DOMAIN engine = {} /\ registered = 0 /\ 1 .. registered = {}
  BY DEF P!Init
<1>2. results = <<>> /\ results \in Seq(Results) /\ DOMAIN results = {}
  BY DEF P!Init
<1>3. Told
  BY <1>2 DEF P!Init, Told
<1> QED BY <1>1, <1>3 DEF ScanIInv, Registry

\* A Register keeps the detectors registered before it, as no name comes twice.
LEMMA RegisterKeeps == ScanIInv /\ P!Register => ScanIInv'
<1> SUFFICES ASSUME ScanIInv, P!Register PROVE ScanIInv'
    OBVIOUS
<1> DEFINE d == P!RegisterAll[registered + 1]
<1>1. /\ registered \in 0 .. 26 /\ registered' = registered + 1
      /\ engine' = [n \in DOMAIN engine \cup {d.name} |-> IF n = d.name THEN d ELSE engine[n]]
      /\ UNCHANGED <<stage, input, todo, results>>
  BY NamesApart DEF ScanIInv, Registry, P!Register
<1>2. \A k \in 1 .. registered : P!RegisterAll[k].name # d.name
  BY <1>1, NamesApart
<1>3. Registry'
  <2>1. 1 .. registered' = 1 .. registered \cup {registered + 1}
    BY <1>1
  <2>2. DOMAIN engine' = {P!RegisterAll[k].name : k \in 1 .. registered'}
    BY <1>1, <2>1 DEF ScanIInv, Registry
  <2>3. ASSUME NEW k \in 1 .. registered'
        PROVE  engine'[P!RegisterAll[k].name] = P!RegisterAll[k]
    <3>1. CASE k = registered + 1
      BY <1>1, <3>1
    <3>2. CASE k \in 1 .. registered
      <4>1. P!RegisterAll[k].name \in DOMAIN engine /\ P!RegisterAll[k].name # d.name
        BY <1>2, <3>2 DEF ScanIInv, Registry
      <4> QED BY <1>1, <3>2, <4>1 DEF ScanIInv, Registry
    <3> QED BY <2>1, <2>3, <3>1, <3>2
  <2> QED BY <1>1, <2>2, <2>3 DEF Registry
<1>4. Told'
  <2>1. stage = "idle"
    BY <1>1 DEF ScanIInv, Told
  <2> QED BY <1>1, <2>1 DEF ScanIInv, Told
<1> QED BY <1>3, <1>4 DEF ScanIInv

\* Once RegisterAll is through, the engine has every built-in detector under its name.
LEMMA AllRegistered ==
    ASSUME ScanIInv, registered = 27
    PROVE  /\ \A n \in DOMAIN engine : engine[n] \in Builtin /\ engine[n].name = n
           /\ \A d \in Builtin : d.name \in DOMAIN engine /\ engine[d.name] = d
<1>1. /\ DOMAIN engine = {P!RegisterAll[k].name : k \in 1 .. 27}
      /\ \A k \in 1 .. 27 : engine[P!RegisterAll[k].name] = P!RegisterAll[k]
  BY DEF ScanIInv, Registry
<1>2. ASSUME NEW n \in DOMAIN engine PROVE engine[n] \in Builtin /\ engine[n].name = n
  <2>1. PICK k \in 1 .. 27 : n = P!RegisterAll[k].name
    BY <1>1
  <2>2. engine[n] = P!RegisterAll[k]
    BY <1>1, <2>1
  <2>3. P!RegisterAll[k] \in Builtin
    BY BuiltinIs
  <2> QED BY <2>1, <2>2, <2>3
<1>3. ASSUME NEW d \in Builtin PROVE d.name \in DOMAIN engine /\ engine[d.name] = d
  <2>1. PICK k \in 1 .. 27 : d = P!RegisterAll[k]
    BY BuiltinIs
  <2> QED BY <1>1, <2>1
<1> QED BY <1>2, <1>3

\* What a detector says of an input that it is asked about.
LEMMA SaidOf ==
    ASSUME ScanIInv, stage # "idle", NEW n \in DOMAIN engine
    PROVE  /\ engine[n] \in DOMAIN input => n = engine[n].name
           /\ engine[n] \notin DOMAIN input => ~P!Result(engine[n], input).detected
           /\ P!Hits(engine[n], input) # {} => engine[n] \in DOMAIN input
<1>1. engine[n].name = n
  BY AllRegistered DEF ScanIInv, Told
<1> QED BY <1>1 DEF P!Result, P!Hits

\* One more result, of a detector that the input hits or of none.
LEMMA MoreTold ==
    ASSUME ScanIInv, stage # "idle", NEW r \in Results, results' = Append(results, r),
           UNCHANGED <<engine, registered, stage, input>>,
           r.detected = FALSE \/ \E d \in DOMAIN input : r = P!Result(d, input),
           todo' \subseteq todo,
           \A d \in DOMAIN input : d.name \in todo \ todo' => r = P!Result(d, input)
    PROVE  ScanIInv'
<1>1. Registry'
  BY DEF ScanIInv, Registry
<1>2. results \in Seq(Results) /\ results' \in Seq(Results)
  BY DEF ScanIInv, Told
<1>3. /\ DOMAIN results' = DOMAIN results \cup {Len(results) + 1}
      /\ results'[Len(results) + 1] = r
      /\ \A k \in DOMAIN results : results'[k] = results[k]
  BY <1>2
<1>4. \A k \in DOMAIN results' :
        \/ results'[k].detected = FALSE
        \/ \E d \in DOMAIN input : results'[k] = P!Result(d, input)
  BY <1>3 DEF ScanIInv, Told
<1>5. ASSUME stage = "scanning", NEW d \in DOMAIN input, d.name \notin todo'
      PROVE  \E k \in DOMAIN results' : results'[k] = P!Result(d, input)
  <2>1. CASE d.name \in todo
    BY <1>3, <1>5, <2>1
  <2>2. CASE d.name \notin todo
    <3>1. PICK k \in DOMAIN results : results[k] = P!Result(d, input)
      BY <1>5, <2>2 DEF ScanIInv, Told
    <3> QED BY <1>3, <3>1
  <2> QED BY <2>1, <2>2
<1>6. Told'
  <2>1. todo' \subseteq {d.name : d \in DOMAIN input}
    BY DEF ScanIInv, Told
  <2> QED BY <1>2, <1>4, <1>5, <2>1 DEF ScanIInv, Told
<1> QED BY <1>1, <1>6 DEF ScanIInv

\* A result of a detector that found nothing.
LEMMA Silent ==
    ASSUME NEW n \in DetectorNames, NEW r, r = [name |-> n, detected |-> FALSE, severity |-> 0]
    PROVE  r \in Results /\ r.detected = FALSE
<1>1. 0 \in 0 .. 3 /\ FALSE \in BOOLEAN
  OBVIOUS
<1> QED BY <1>1, Zenon DEF Results

LEMMA DetectKeeps == ASSUME ScanIInv, NEW n, P!Detect(n) PROVE ScanIInv'
<1> DEFINE r == IF n \in DOMAIN engine THEN P!Result(engine[n], input) ELSE P!Nil
<1>1. /\ stage = "asking" /\ results' = Append(results, r)
      /\ UNCHANGED <<engine, registered, stage, input, todo>>
  BY DEF P!Detect
<1>2. r \in Results /\ (r.detected = FALSE \/ \E d \in DOMAIN input : r = P!Result(d, input))
  <2>1. CASE n \notin DOMAIN engine
    <3>1. r = [name |-> "nil", detected |-> FALSE, severity |-> 0]
      BY <2>1 DEF P!Nil, P!Low
    <3>2. "nil" \in DetectorNames
      BY DEF DetectorNames
    <3> HIDE DEF r
    <3>3. r \in Results /\ r.detected = FALSE
      BY <3>1, <3>2, Silent
    <3> QED BY <3>3
  <2>2. CASE n \in DOMAIN engine /\ engine[n] \in DOMAIN input
    <3>1. input \in Inputs
      BY <1>1 DEF ScanIInv, Told
    <3>2. P!Result(engine[n], input) \in Results
      BY <2>2, <3>1, FirstIsWorst DEF Results
    <3> QED BY <2>2, <3>2
  <2>3. CASE n \in DOMAIN engine /\ engine[n] \notin DOMAIN input
    <3>1. engine[n] \in Builtin
      BY <1>1, <2>3, AllRegistered DEF ScanIInv, Told
    <3>2. engine[n].name \in DetectorNames
      BY <3>1 DEF DetectorNames
    <3>3. r = [name |-> engine[n].name, detected |-> FALSE, severity |-> 0]
      BY <2>3 DEF P!Result, P!Hits, P!Low
    <3> HIDE DEF r
    <3>4. r \in Results /\ r.detected = FALSE
      BY <3>2, <3>3, Silent
    <3> QED BY <3>4
  <2> QED BY <2>1, <2>2, <2>3
<1> HIDE DEF r
<1> QED BY <1>1, <1>2, MoreTold

LEMMA RunKeeps == ASSUME ScanIInv, NEW n \in todo, P!Run(n) PROVE ScanIInv'
<1>1. /\ todo' = todo \ {n} /\ results' = Append(results, P!Result(engine[n], input))
      /\ UNCHANGED <<engine, registered, stage, input>>
  BY DEF P!Run
<1>2. stage # "idle" /\ input \in Inputs /\ registered = 27
  BY DEF ScanIInv, Told
<1>3. PICK d \in DOMAIN input : d.name = n
  BY DEF ScanIInv, Told
<1>4. engine[n] = d
  BY <1>2, <1>3, InputHits, AllRegistered
<1>5. P!Result(d, input) \in Results
  BY <1>2, FirstIsWorst DEF Results
<1>6. ASSUME NEW e \in DOMAIN input, e.name = n PROVE e = d
  BY <1>2, <1>4, <1>6, InputHits, AllRegistered
<1> QED BY <1>1, <1>2, <1>4, <1>5, <1>6, MoreTold

LEMMA ScanNextIInv == ScanIInv /\ [P!Next]_(P!vars) => ScanIInv'
<1> SUFFICES ASSUME ScanIInv, [P!Next]_(P!vars) PROVE ScanIInv'
    OBVIOUS
<1>1. CASE P!Register
  BY <1>1, RegisterKeeps
<1>2. ASSUME NEW i \in Inputs, P!Receive(i) PROVE ScanIInv'
  <2>1. /\ stage = "idle" /\ registered = 27 /\ stage' = "asking" /\ input' = i
        /\ UNCHANGED <<engine, registered, todo, results>>
    BY <1>2, NamesApart DEF P!Receive
  <2>2. Registry'
    BY <2>1 DEF ScanIInv, Registry
  <2>3. input = <<>> /\ results = <<>> /\ todo = {}
    BY <2>1 DEF ScanIInv, Told
  <2>4. Told'
    BY <2>1, <2>3 DEF ScanIInv, Told
  <2> QED BY <2>2, <2>4 DEF ScanIInv
<1>3. ASSUME NEW n, P!Detect(n) PROVE ScanIInv'
  BY <1>3, DetectKeeps
<1>4. CASE P!DetectAll
  <2>1. ASSUME NEW n \in DOMAIN engine, P!Hits(engine[n], input) # {}
        PROVE  \E d \in DOMAIN input : d.name = n
    BY <1>4, <2>1, AllRegistered DEF P!DetectAll, P!Hits, ScanIInv, Told
  <2>2. ASSUME NEW d \in DOMAIN input
        PROVE  d.name \in DOMAIN engine /\ P!Hits(engine[d.name], input) # {}
    <3>1. input \in Inputs /\ registered = 27
      BY <1>4 DEF P!DetectAll, ScanIInv, Told
    <3>2. d \in Builtin /\ P!Hits(d, input) # {}
      BY <3>1, InputHits
    <3> QED BY <3>1, <3>2, AllRegistered
  <2>3. Registry'
    BY <1>4 DEF P!DetectAll, ScanIInv, Registry
  <2> QED BY <1>4, <2>1, <2>2, <2>3 DEF P!DetectAll, ScanIInv, Told
<1>5. ASSUME NEW n \in todo, P!Run(n) PROVE ScanIInv'
  BY <1>5, RunKeeps
<1>6. CASE P!Dismiss
  <2>1. <<>> \in Seq(Results) /\ DOMAIN <<>> = {}
    OBVIOUS
  <2> QED BY <1>6, <2>1 DEF P!Dismiss, P!Scanned, ScanIInv, Registry, Told
<1>7. CASE UNCHANGED P!vars
  BY <1>7 DEF P!vars, ScanIInv, Registry, Told
<1> QED BY <1>1, <1>2, <1>3, <1>4, <1>5, <1>6, <1>7 DEF P!Next

\* Whatever an input hits, and whatever else was asked, a detector reports the
\* worst that it knows of the input.
THEOREM ScanReportsWorst == P!Spec => []WorstWins
<1>1. P!Spec => []ScanIInv
  BY ScanInitIInv, ScanNextIInv, PTL DEF P!Spec
<1>2. ASSUME ScanIInv, NEW d \in DOMAIN input, NEW k \in DOMAIN results,
             results[k].detected, results[k].name = d.name
      PROVE  results[k].severity = P!Worst(d)
  <2>1. PICK e \in DOMAIN input : results[k] = P!Result(e, input)
    BY <1>2 DEF ScanIInv, Told
  <2>2. input \in Inputs /\ registered = 27
    BY <1>2 DEF ScanIInv, Told
  <2>3. e.name = d.name
    BY <1>2, <2>1, <2>2, FirstIsWorst
  <2>4. e = d
    BY <1>2, <2>2, <2>3, InputHits, AllRegistered
  <2> QED BY <2>1, <2>2, <2>4, FirstIsWorst DEF P!Worst
<1>3. ScanIInv => WorstWins
  BY <1>2 DEF WorstWins, P!WorstWins
<1> QED BY <1>1, <1>3, PTL

\* The mood of a list of results, said without an order.
LEMMA MoodOfResults ==
    ASSUME NEW rs \in Seq(Results)
    PROVE  P!MoodOf(rs) =
             IF \E k \in DOMAIN rs : rs[k].detected /\ rs[k].severity >= 2 THEN "alarmed"
               ELSE IF \E k \in DOMAIN rs : rs[k].detected THEN "watchful" ELSE "calm"
<1> DEFINE counted == {k \in DOMAIN rs : rs[k].detected}
           alarming == {k \in counted : P!Posture(rs[k]) = "alarmed"}
<1>1. ASSUME NEW k \in DOMAIN rs
      PROVE  P!Posture(rs[k]) = "alarmed" <=> rs[k].severity >= 2
  <2>1. rs[k] \in Results
    OBVIOUS
  <2>2. rs[k].severity \in 0 .. 3
    BY <2>1 DEF Results
  <2> QED BY <2>2 DEF P!Posture, P!High, P!Critical
<1>2. alarming \subseteq Nat
  OBVIOUS
<1>3. alarming # {} => P!Min(alarming) \in alarming
  <2> HIDE DEF alarming
  <2> QED BY <1>2, LeastExists
<1>4. P!MoodOf(rs) = IF alarming # {} THEN P!Posture(rs[P!Min(alarming)])
                       ELSE IF counted # {} THEN "watchful" ELSE "calm"
  BY DEF P!MoodOf
<1>5. CASE alarming # {}
  BY <1>1, <1>3, <1>4, <1>5
<1>6. CASE alarming = {}
  BY <1>1, <1>4, <1>6
<1> QED BY <1>5, <1>6

\* After a scan the mascot shows the worst that the built-in detectors know of
\* the input, in whatever order they ran, and whatever was asked before.
THEOREM ScanMoodIsWorst == P!Spec => []MoodIsWorst
<1>1. P!Spec => []ScanIInv
  BY ScanInitIInv, ScanNextIInv, PTL DEF P!Spec
<1>2. ASSUME ScanIInv, P!Scanned
      PROVE  P!MoodOf(results) = IF \E d \in DOMAIN input : P!Worst(d) >= P!High THEN "alarmed"
                                   ELSE IF DOMAIN input # {} THEN "watchful" ELSE "calm"
  <2>1. input \in Inputs /\ results \in Seq(Results)
    BY <1>2 DEF P!Scanned, ScanIInv, Told
  <2>2. ASSUME NEW d \in DOMAIN input
        PROVE  \E k \in DOMAIN results : results[k] = P!Result(d, input)
    BY <1>2 DEF P!Scanned, ScanIInv, Told
  <2>3. ASSUME NEW k \in DOMAIN results, results[k].detected
        PROVE  \E d \in DOMAIN input : results[k] = P!Result(d, input)
    BY <1>2, <2>3 DEF ScanIInv, Told
  <2>4. ASSUME NEW d \in DOMAIN input
        PROVE  P!Result(d, input).detected /\ P!Result(d, input).severity = P!Worst(d)
    BY <2>1, FirstIsWorst DEF P!Worst
  <2> QED BY <2>1, <2>2, <2>3, <2>4, MoodOfResults DEF P!High
<1>3. ScanIInv => MoodIsWorst
  BY <1>2 DEF MoodIsWorst, P!MoodIsWorst
<1> QED BY <1>1, <1>3, PTL

-----------------------------------------------------------------------------
(***************************************************************************)
(* The cookie detector.                                                    *)
(***************************************************************************)

\* What is missing is what the browser, which takes no attribute from the
\* cookie's own name, would do without.
LEMMA MissingIsLacking ==
    ASSUME NEW h \in Headers, NEW p \in Policies
    PROVE  LET carried == {h.fields[k] : k \in 2 .. Len(h.fields)}
           IN  C!missingAttrs(p.required, C!stripCookiePrefix(h)) = p.required \ carried
<1>1. h \in [prefixes : Nat, fields : Seq(STRING) \ {<<>>}, length : Nat]
  BY ScansAssumption DEF C!CookieAssumption
<1>2. h.fields \in Seq(STRING) /\ C!stripCookiePrefix(h).fields = h.fields
  BY <1>1 DEF C!stripCookiePrefix
<1>3. DOMAIN h.fields \ {1} = 2 .. Len(h.fields)
  BY <1>2
<1> QED BY <1>2, <1>3 DEF C!missingAttrs, C!hasAttr

LEMMA DetectReports ==
    ASSUME NEW h \in Headers, NEW p \in Policies, C!Detect(h, p)
    PROVE  ReportsWhatBrowserLacks'
<1> DEFINE raw == C!stripCookiePrefix(h)
           missing == C!missingAttrs(p.required, raw)
           carried == {h.fields[k] : k \in 2 .. Len(h.fields)}
<1>1. /\ h \in [prefixes : Nat, fields : Seq(STRING) \ {<<>>}, length : Nat]
      /\ p \in [required : SUBSET STRING, maxValueLen : Int, requireNonEmpty : BOOLEAN]
  BY ScansAssumption DEF C!CookieAssumption
<1>2. raw.prefixes = 0 /\ raw.fields = h.fields /\ raw.length = h.length
  BY <1>1 DEF C!stripCookiePrefix
<1>3. missing = p.required \ carried
  BY MissingIsLacking
<1>4. header' = h /\ policy' = p /\ C!Carried' = carried
  BY DEF C!Detect, C!Carried
<1>5. SUFFICES ASSUME h.fields[1] # ""
               PROVE  /\ (cookieSaid' = C!Quiet) <=> C!Sound'
                      /\ ~(p.required \subseteq carried) => cookieSaid'.why = p.required \ carried
  BY <1>4 DEF ReportsWhatBrowserLacks, C!ReportsWhatBrowserLacks
<1> HIDE DEF raw, missing, carried
<1>6. cookieSaid' =
        IF missing # {} THEN [why |-> missing, severity |-> "medium"]
          ELSE IF p.maxValueLen > 0 /\ h.length > p.maxValueLen
            THEN [why |-> {"length"}, severity |-> "high"]
          ELSE IF p.requireNonEmpty /\ h.length = 0
            THEN [why |-> {"empty"}, severity |-> "medium"]
          ELSE C!Quiet
  BY <1>2, <1>5 DEF C!Detect, C!ParsesCookie, raw, missing
<1>7. C!Sound' <=> /\ missing = {}
                   /\ ~(p.maxValueLen > 0 /\ h.length > p.maxValueLen)
                   /\ ~(p.requireNonEmpty /\ h.length = 0)
  BY <1>1, <1>3, <1>4 DEF C!Sound
<1>8. cookieSaid' = C!Quiet <=> /\ missing = {}
                                /\ ~(p.maxValueLen > 0 /\ h.length > p.maxValueLen)
                                /\ ~(p.requireNonEmpty /\ h.length = 0)
  BY <1>6 DEF C!Quiet
<1> QED BY <1>3, <1>6, <1>7, <1>8

\* A cookie is reported just when it falls short of the policy, whatever it is
\* named and however often the header carries its own name; and what is said to
\* be missing is all that a browser would do without.
THEOREM CookieReportsLacks == C!Spec => []ReportsWhatBrowserLacks
<1>1. C!Init => ReportsWhatBrowserLacks
  BY DEF C!Init, ReportsWhatBrowserLacks, C!ReportsWhatBrowserLacks
<1>2. ReportsWhatBrowserLacks /\ [C!Next]_(C!vars) => ReportsWhatBrowserLacks'
  <2> SUFFICES ASSUME ReportsWhatBrowserLacks, [C!Next]_(C!vars)
               PROVE  ReportsWhatBrowserLacks'
      OBVIOUS
  <2>1. CASE C!Return
    BY <2>1 DEF C!Return, ReportsWhatBrowserLacks, C!ReportsWhatBrowserLacks
  <2>2. CASE UNCHANGED C!vars
    BY <2>2
       DEF C!vars, ReportsWhatBrowserLacks, C!ReportsWhatBrowserLacks, C!Sound, C!Carried
  <2> QED BY <2>1, <2>2, DetectReports DEF C!Next
<1> QED BY <1>1, <1>2, PTL DEF C!Spec

-----------------------------------------------------------------------------
(***************************************************************************)
(* The nesting detector: that the nesting and the elements of a document   *)
(* are what their definitions say, by recursion on the length of its text. *)
(***************************************************************************)

\* A set of numbers that has 0 and, with a number, the next one has them all: of
\* those that it lacks none can be the least.
LEMMA Induction == ASSUME NEW T \in SUBSET Nat, 0 \in T, \A n \in T : n + 1 \in T
                   PROVE  T = Nat
<1> SUFFICES ASSUME T # Nat PROVE FALSE
    OBVIOUS
<1> DEFINE R == OpToRel(<, Nat)
           U == Nat \ T
<1>1. IsWellFoundedOn(R, Nat)
  BY NatLessThanWellFounded, Zenon
<1>2. PICK x \in U : \A y \in U : ~(<<y, x>> \in R)
  <2>1. U \subseteq Nat /\ U # {}
    OBVIOUS
  <2> HIDE DEF R, U
  <2> QED BY <1>1, <2>1, WFMin
<1>3. x \in Nat /\ x # 0 /\ x - 1 \in Nat
  OBVIOUS
<1>4. x - 1 \in U
  <2>1. (x - 1) + 1 = x
    BY <1>3
  <2> QED BY <1>3, <2>1
<1>5. <<x - 1, x>> \in R
  BY <1>3 DEF OpToRel
<1> QED BY <1>2, <1>4, <1>5

\* A set that has whatever it has all of lower rank of has everything.
LEMMA RankInduction ==
    ASSUME NEW F, NEW rank \in [F -> Nat], NEW T \in SUBSET F,
           \A s \in F : (\A t \in F : rank[t] < rank[s] => t \in T) => s \in T
    PROVE  T = F
<1> DEFINE Below == {n \in Nat : \A s \in F : rank[s] < n => s \in T}
<1>1. 0 \in Below
  OBVIOUS
<1>2. ASSUME NEW n \in Below PROVE n + 1 \in Below
  <2>1. ASSUME NEW s \in F, rank[s] < n + 1 PROVE s \in T
    <3>1. ASSUME NEW t \in F, rank[t] < rank[s] PROVE t \in T
      BY <2>1, <3>1
    <3> QED BY <3>1
  <2> QED BY <2>1
<1>3. Below = Nat
  <2>1. Below \in SUBSET Nat
    OBVIOUS
  <2> HIDE DEF Below
  <2> QED BY <1>1, <1>2, <2>1, Induction
<1>4. ASSUME NEW s \in F PROVE s \in T
  <2>1. rank[s] + 1 \in Below /\ rank[s] < rank[s] + 1
    BY <1>3
  <2> QED BY <2>1
<1> QED BY <1>4

\* On what ranks below n, f is what the rule makes of f itself.
Follows(f, rule, F, rank, n) == \A s \in F : rank[s] < n => f[s] = rule[s][f]

Solves(f, rule, F) == f \in [F -> Nat] /\ \A s \in F : f[s] = rule[s][f]

\* A rule that looks only at what ranks lower has a function that follows it.
LEMMA Recursion ==
    ASSUME NEW F, NEW rank \in [F -> Nat], NEW rule \in [F -> [[F -> Nat] -> Nat]],
           \A s \in F : \A f, g \in [F -> Nat] :
             (\A t \in F : rank[t] < rank[s] => f[t] = g[t]) => rule[s][f] = rule[s][g]
    PROVE  \E f : Solves(f, rule, F)
<1> DEFINE Good(n) == {f \in [F -> Nat] : Follows(f, rule, F, rank, n)}
           Exists == {n \in Nat : Good(n) # {}}
<1>1. Exists = Nat
  <2>1. 0 \in Exists
    <3>1. [s \in F |-> 0] \in Good(0)
      BY DEF Follows
    <3> QED BY <3>1
  <2>2. ASSUME NEW n \in Exists PROVE n + 1 \in Exists
    <3>1. PICK f \in [F -> Nat] : Follows(f, rule, F, rank, n)
      OBVIOUS
    <3> DEFINE h == [s \in F |-> IF rank[s] < n THEN f[s] ELSE rule[s][f]]
    <3>2. h \in [F -> Nat]
      OBVIOUS
    <3>3. ASSUME NEW s \in F PROVE h[s] = IF rank[s] < n THEN f[s] ELSE rule[s][f]
      OBVIOUS
    <3> HIDE DEF h
    <3>4. ASSUME NEW s \in F, rank[s] < n + 1 PROVE h[s] = rule[s][h]
      <4>1. \A t \in F : rank[t] < rank[s] => h[t] = f[t]
        BY <3>3, <3>4
      <4>2. rule[s][h] = rule[s][f]
        BY <3>2, <4>1
      <4> QED BY <3>1, <3>3, <4>2 DEF Follows
    <3>5. h \in Good(n + 1)
      BY <3>2, <3>4 DEF Follows
    <3> HIDE DEF Good
    <3> QED BY <3>5
  <2> HIDE DEF Exists
  <2>3. Exists \in SUBSET Nat
    BY DEF Exists
  <2> QED BY <2>1, <2>2, <2>3, Induction
<1> DEFINE Agree == {k \in Nat : \A n, m \in Nat : \A g \in Good(n), h \in Good(m) :
                       k <= n /\ k <= m => \A s \in F : rank[s] < k => g[s] = h[s]}
<1>2. Agree = Nat
  <2>1. 0 \in Agree
    OBVIOUS
  <2>2. ASSUME NEW k \in Agree PROVE k + 1 \in Agree
    <3>1. ASSUME NEW n \in Nat, NEW m \in Nat, NEW g \in Good(n), NEW h \in Good(m),
                 k + 1 <= n, k + 1 <= m, NEW s \in F, rank[s] < k + 1
          PROVE  g[s] = h[s]
      <4>1. k \in Nat /\ k <= n /\ k <= m
        BY <3>1
      <4>2. ASSUME NEW t \in F, rank[t] < rank[s] PROVE g[t] = h[t]
        <5>1. rank[t] < k
          BY <3>1, <4>1, <4>2
        <5> HIDE DEF Good
        <5> QED BY <4>1, <5>1
      <4>3. /\ g \in [F -> Nat] /\ h \in [F -> Nat]
            /\ g[s] = rule[s][g] /\ h[s] = rule[s][h]
        BY <3>1, <4>1 DEF Follows
      <4> HIDE DEF Agree, Good
      <4>4. rule[s][g] = rule[s][h]
        BY <4>2, <4>3
      <4> QED BY <4>3, <4>4
    <3> HIDE DEF Good
    <3> QED BY <3>1
  <2> HIDE DEF Agree
  <2>3. Agree \in SUBSET Nat
    BY DEF Agree
  <2> QED BY <2>1, <2>2, <2>3, Induction
<1>3. ASSUME NEW k \in Nat, NEW n \in Nat, NEW m \in Nat, NEW g \in Good(n), NEW h \in Good(m),
             k <= n, k <= m, NEW s \in F, rank[s] < k
      PROVE  g[s] = h[s]
  <2>1. k \in Agree
    BY <1>2
  <2> HIDE DEF Good
  <2> QED BY <1>3, <2>1
<1> HIDE DEF Agree
<1> DEFINE pick == [n \in Nat |-> CHOOSE g \in Good(n) : TRUE]
           f == [s \in F |-> pick[rank[s] + 1][s]]
<1>4. \A n \in Nat : pick[n] \in Good(n)
  <2> HIDE DEF Good
  <2> QED BY <1>1
<1> HIDE DEF pick
<1>5. f \in [F -> Nat]
  BY <1>4
<1>6. ASSUME NEW s \in F PROVE f[s] = rule[s][f]
  <2> DEFINE p == pick[rank[s] + 1]
  <2>1. rank[s] + 1 \in Nat /\ rank[s] < rank[s] + 1
    OBVIOUS
  <2>2. p \in Good(rank[s] + 1)
    BY <1>4, <2>1
  <2>3. f[s] = p[s]
    OBVIOUS
  <2>4. \A t \in F : f[t] = pick[rank[t] + 1][t]
    OBVIOUS
  <2> HIDE DEF p, f
  <2>5. ASSUME NEW t \in F, rank[t] < rank[s] PROVE f[t] = p[t]
    <3> DEFINE k == rank[t] + 1
               m == rank[s] + 1
               q == pick[k]
    <3>1. k \in Nat /\ m \in Nat /\ rank[t] < k /\ k <= k /\ k <= m
      BY <2>5
    <3>2. q \in Good(k) /\ p \in Good(m) /\ f[t] = q[t]
      BY <1>4, <2>2, <2>4, <3>1
    <3> HIDE DEF Good, k, m, q
    <3>3. q[t] = p[t]
      BY <1>3, <3>1, <3>2, Zenon
    <3> QED BY <3>2, <3>3
  <2>6. p[s] = rule[s][p] /\ p \in [F -> Nat]
    BY <2>1, <2>2 DEF Follows
  <2> QED BY <1>5, <2>3, <2>5, <2>6
<1> HIDE DEF f
<1>7. Solves(f, rule, F)
  BY <1>5, <1>6 DEF Solves
<1> QED BY <1>7

\* What is left of a document after its first value, and what is in that value,
\* are documents of less text.
LEMMA Shorter ==
    /\ <<>> \in Documents
    /\ Size \in [Documents -> Nat]
    /\ \A d \in Documents \ {<<>>} :
         /\ Tail(d) \in Documents /\ Size[Tail(d)] < Size[d]
         /\ N!IsContainer(Head(d)) => Head(d).items \in Documents /\ Size[Head(d).items] < Size[d]
BY ScansAssumption DEF N!DocumentsAssumption

\* How deep d is nested, where f says it of its parts.
NestingBy(f, d) ==
    IF d = <<>> THEN 0
      ELSE LET first == IF N!IsContainer(Head(d)) THEN 1 + f[Head(d).items] ELSE 0
               others == f[Tail(d)]
           IN  IF first > others THEN first ELSE others

LEMMA NestingValues ==
    /\ N!Nesting \in [Documents -> Nat]
    /\ \A d \in Documents : N!Nesting[d] = NestingBy(N!Nesting, d)
<1> DEFINE rule == [d \in Documents |-> [f \in [Documents -> Nat] |-> NestingBy(f, d)]]
<1>1. ASSUME NEW d \in Documents, NEW f \in [Documents -> Nat] PROVE NestingBy(f, d) \in Nat
  BY Shorter DEF NestingBy
<1>2. rule \in [Documents -> [[Documents -> Nat] -> Nat]]
  BY <1>1
<1>3. ASSUME NEW d \in Documents, NEW f \in [Documents -> Nat], NEW g \in [Documents -> Nat],
             \A e \in Documents : Size[e] < Size[d] => f[e] = g[e]
      PROVE  rule[d][f] = rule[d][g]
  <2>1. rule[d][f] = NestingBy(f, d) /\ rule[d][g] = NestingBy(g, d)
    OBVIOUS
  <2> HIDE DEF rule
  <2>2. NestingBy(f, d) = NestingBy(g, d)
    BY <1>3, Shorter DEF NestingBy
  <2> QED BY <2>1, <2>2
<1>4. PICK f : Solves(f, rule, Documents)
  <2> HIDE DEF rule
  <2>1. \A s \in Documents : \A f, g \in [Documents -> Nat] :
          (\A t \in Documents : Size[t] < Size[s] => f[t] = g[t]) => rule[s][f] = rule[s][g]
    BY <1>3
  <2> QED BY <1>2, <2>1, Shorter, Recursion, Zenon
<1>5. f \in [Documents -> Nat] /\ \A d \in Documents : f[d] = NestingBy(f, d)
  BY <1>4 DEF Solves
<1> DEFINE Is(g) == g = [d \in Documents |->
                           IF d = <<>> THEN 0
                             ELSE LET first == IF N!IsContainer(Head(d)) THEN 1 + g[Head(d).items]
                                                 ELSE 0
                                      others == g[Tail(d)]
                                  IN  IF first > others THEN first ELSE others]
<1>6. \A g : Is(g) <=> g = [d \in Documents |-> NestingBy(g, d)]
  BY DEF NestingBy
<1>7. N!Nesting = CHOOSE g : Is(g)
  BY Zenon DEF N!Nesting
<1> HIDE DEF Is
<1>8. Is(f)
  <2>1. f = [d \in Documents |-> f[d]]
    BY <1>5
  <2>2. f = [d \in Documents |-> NestingBy(f, d)]
    BY <1>5, <2>1, Zenon
  <2> QED BY <1>6, <2>2
<1>9. Is(N!Nesting)
  BY <1>7, <1>8, Zenon
<1>10. N!Nesting = [d \in Documents |-> NestingBy(N!Nesting, d)]
  BY <1>6, <1>9, Zenon
<1>11. \A d \in Documents : N!Nesting[d] = NestingBy(N!Nesting, d)
  BY <1>10
<1> DEFINE Right == {d \in Documents : N!Nesting[d] \in Nat}
<1>12. ASSUME NEW d \in Documents, \A e \in Documents : Size[e] < Size[d] => e \in Right
       PROVE  d \in Right
  BY <1>11, <1>12, Shorter DEF NestingBy
<1>13. Right = Documents
  <2>1. Right \in SUBSET Documents
    OBVIOUS
  <2> HIDE DEF Right
  <2> QED BY <1>12, <2>1, Shorter, RankInduction
<1> QED BY <1>10, <1>11, <1>13

\* How many elements d has, where f says it of its parts.
ElementsBy(f, d) ==
    IF d = <<>> THEN 0
      ELSE (IF N!IsContainer(Head(d)) THEN f[Head(d).items] ELSE 1) + f[Tail(d)]

LEMMA ElementsValues ==
    /\ N!Elements \in [Documents -> Nat]
    /\ \A d \in Documents : N!Elements[d] = ElementsBy(N!Elements, d)
<1> DEFINE rule == [d \in Documents |-> [f \in [Documents -> Nat] |-> ElementsBy(f, d)]]
<1>1. ASSUME NEW d \in Documents, NEW f \in [Documents -> Nat] PROVE ElementsBy(f, d) \in Nat
  BY Shorter DEF ElementsBy
<1>2. rule \in [Documents -> [[Documents -> Nat] -> Nat]]
  BY <1>1
<1>3. ASSUME NEW d \in Documents, NEW f \in [Documents -> Nat], NEW g \in [Documents -> Nat],
             \A e \in Documents : Size[e] < Size[d] => f[e] = g[e]
      PROVE  rule[d][f] = rule[d][g]
  <2>1. rule[d][f] = ElementsBy(f, d) /\ rule[d][g] = ElementsBy(g, d)
    OBVIOUS
  <2> HIDE DEF rule
  <2>2. ElementsBy(f, d) = ElementsBy(g, d)
    BY <1>3, Shorter DEF ElementsBy
  <2> QED BY <2>1, <2>2
<1>4. PICK f : Solves(f, rule, Documents)
  <2> HIDE DEF rule
  <2>1. \A s \in Documents : \A f, g \in [Documents -> Nat] :
          (\A t \in Documents : Size[t] < Size[s] => f[t] = g[t]) => rule[s][f] = rule[s][g]
    BY <1>3
  <2> QED BY <1>2, <2>1, Shorter, Recursion, Zenon
<1>5. f \in [Documents -> Nat] /\ \A d \in Documents : f[d] = ElementsBy(f, d)
  BY <1>4 DEF Solves
<1> DEFINE Is(g) == g = [d \in Documents |->
                           IF d = <<>> THEN 0
                             ELSE (IF N!IsContainer(Head(d)) THEN g[Head(d).items] ELSE 1)
                                    + g[Tail(d)]]
<1>6. \A g : Is(g) <=> g = [d \in Documents |-> ElementsBy(g, d)]
  BY DEF ElementsBy
<1>7. N!Elements = CHOOSE g : Is(g)
  BY Zenon DEF N!Elements
<1> HIDE DEF Is
<1>8. Is(f)
  <2>1. f = [d \in Documents |-> f[d]]
    BY <1>5
  <2>2. f = [d \in Documents |-> ElementsBy(f, d)]
    BY <1>5, <2>1, Zenon
  <2> QED BY <1>6, <2>2
<1>9. Is(N!Elements)
  BY <1>7, <1>8, Zenon
<1>10. N!Elements = [d \in Documents |-> ElementsBy(N!Elements, d)]
  BY <1>6, <1>9, Zenon
<1>11. \A d \in Documents : N!Elements[d] = ElementsBy(N!Elements, d)
  BY <1>10
<1> DEFINE Right == {d \in Documents : N!Elements[d] \in Nat}
<1>12. ASSUME NEW d \in Documents, \A e \in Documents : Size[e] < Size[d] => e \in Right
       PROVE  d \in Right
  BY <1>11, <1>12, Shorter DEF ElementsBy
<1>13. Right = Documents
  <2>1. Right \in SUBSET Documents
    OBVIOUS
  <2> HIDE DEF Right
  <2> QED BY <1>12, <2>1, Shorter, RankInduction
<1> QED BY <1>10, <1>11, <1>13

-----------------------------------------------------------------------------
(***************************************************************************)
(* The nesting detector, while it reads.                                   *)
(***************************************************************************)

\* sums[k] is the number of elements ahead in the first k of the decoder's levels.
SumsTo(sums, levels) ==
    /\ sums \in [0 .. Len(levels) -> Nat]
    /\ sums[0] = 0
    /\ \A k \in 1 .. Len(levels) : sums[k] = sums[k - 1] + N!Elements[levels[k]]

\* Level k of the decoder, k - 1 deep, has that much nesting ahead.
Deepest(levels, k) == (k - 1) + N!Nesting[levels[k]]

\* While it reads, the decoder has a level for the body and one for each open value.
BodyTypeOK ==
    /\ bomb \in {"idle", "reading", "quiet", "depth", "keys"}
    /\ body \in Documents
    /\ limit \in [depth : Nat, keys : Int]
    /\ depth \in Nat /\ keys \in Nat
    /\ bomb = "reading" => ahead \in Seq(Documents) /\ Len(ahead) = depth + 1

\* It reads on only within the limits.
WithinLimits ==
    bomb = "reading" => depth <= limit.depth /\ (limit.keys > 0 => keys <= limit.keys)

\* What was counted and what is ahead are the body's elements.
AllCounted ==
    bomb = "reading" =>
      \E sums : SumsTo(sums, ahead) /\ keys + sums[Len(ahead)] = N!Elements[body]

\* Nothing ahead is deeper than the body is, and if that is too deep, it is still ahead.
DeepestAhead ==
    bomb = "reading" =>
      /\ \A k \in 1 .. Len(ahead) : Deepest(ahead, k) <= N!Nesting[body]
      /\ N!TooDeep => \E k \in 1 .. Len(ahead) : Deepest(ahead, k) = N!Nesting[body]

BodyIInv == BodyTypeOK /\ WithinLimits /\ AllCounted /\ DeepestAhead /\ BombsAreReported

\* NewNestedDepth gives a limit on the depth, whatever it is called with.
LEMMA NewLimit ==
    ASSUME NEW m \in Int, NEW k \in Int
    PROVE  N!NewNestedDepth(m, k) \in [depth : Nat, keys : Int]
BY ScansAssumption DEF N!LimitsAssumption, N!NewNestedDepth

LEMMA BodyInitIInv == N!Init => BodyIInv
BY Shorter, NewLimit
   DEF N!Init, BodyIInv, BodyTypeOK, WithinLimits, AllCounted, DeepestAhead, BombsAreReported,
       N!BombsAreReported

LEMMA DetectBody ==
    ASSUME BodyIInv, NEW b \in Bodies, NEW l \in Limits, N!Detect(b, l)
    PROVE  BodyIInv'
<1>1. /\ body' = b /\ ahead' = <<b>> /\ depth' = 0 /\ keys' = 0 /\ bomb' = "reading"
      /\ limit' = N!NewNestedDepth(l.maxDepth, l.maxKeys)
  BY DEF N!Detect
<1>2. b \in Documents /\ l.maxDepth \in Int /\ l.maxKeys \in Int
  BY ScansAssumption DEF N!DocumentsAssumption, N!LimitsAssumption
<1>3. <<b>> \in Seq(Documents) /\ Len(<<b>>) = 1 /\ <<b>>[1] = b
  BY <1>2
<1>4. limit' \in [depth : Nat, keys : Int]
  BY <1>1, <1>2, NewLimit
<1>5. N!Elements[b] \in Nat /\ N!Nesting[b] \in Nat
  BY <1>2, NestingValues, ElementsValues
<1>6. BodyTypeOK' /\ WithinLimits'
  BY <1>1, <1>2, <1>3, <1>4 DEF BodyTypeOK, WithinLimits
<1>7. AllCounted'
  <2> DEFINE sums == [k \in 0 .. 1 |-> IF k = 0 THEN 0 ELSE N!Elements[b]]
  <2>1. sums \in [0 .. 1 -> Nat] /\ sums[0] = 0 /\ sums[1] = N!Elements[b]
    BY <1>5
  <2> HIDE DEF sums
  <2>2. SumsTo(sums, <<b>>)
    BY <1>3, <1>5, <2>1 DEF SumsTo
  <2>3. keys' + sums[Len(ahead')] = N!Elements[body']
    BY <1>1, <1>3, <1>5, <2>1
  <2> QED BY <1>1, <2>2, <2>3 DEF AllCounted
<1>8. DeepestAhead'
  BY <1>1, <1>3, <1>5 DEF DeepestAhead, Deepest
<1>9. BombsAreReported'
  BY <1>1 DEF BombsAreReported, N!BombsAreReported
<1> QED BY <1>6, <1>7, <1>8, <1>9 DEF BodyIInv

\* The decoder's levels while it reads.
LEMMA Reading ==
    ASSUME BodyIInv, bomb = "reading"
    PROVE  /\ ahead \in Seq(Documents) /\ Len(ahead) = depth + 1 /\ depth \in Nat /\ keys \in Nat
           /\ Len(ahead) \in 1 .. Len(ahead)
           /\ body \in Documents /\ limit.depth \in Nat /\ limit.keys \in Int
           /\ N!Nesting[body] \in Nat /\ N!Elements[body] \in Nat
           /\ \A k \in 1 .. Len(ahead) : /\ ahead[k] \in Documents
                                         /\ N!Nesting[ahead[k]] \in Nat
                                         /\ N!Elements[ahead[k]] \in Nat
BY NestingValues, ElementsValues DEF BodyIInv, BodyTypeOK

\* What it is to take a value from the last level.
LEMMA Taking ==
    ASSUME BodyIInv, N!AtValue
    PROVE  LET n == Len(ahead)
               d == ahead[n]
           IN  /\ Tail(d) \in Documents
               /\ N!Taken \in Seq(Documents) /\ Len(N!Taken) = n
               /\ N!Taken[n] = Tail(d)
               /\ \A k \in 1 .. n - 1 : N!Taken[k] = ahead[k]
               /\ N!Nesting[d] >= N!Nesting[Tail(d)]
<1> DEFINE n == Len(ahead)
           d == ahead[n]
<1>1. ahead \in Seq(Documents) /\ n \in 1 .. n /\ d \in Documents /\ d # <<>>
  BY Reading DEF N!AtValue, N!Top
<1>2. Tail(d) \in Documents
  BY <1>1, Shorter
<1>3. N!Taken = [ahead EXCEPT ![n] = Tail(d)]
  BY DEF N!Taken, N!Top
<1>4. N!Nesting[d] >= N!Nesting[Tail(d)]
  <2>1. N!Nesting[Tail(d)] \in Nat
    BY <1>2, NestingValues
  <2>2. N!IsContainer(Head(d)) => N!Nesting[Head(d).items] \in Nat
    BY <1>1, Shorter, NestingValues
  <2>3. N!Nesting[d] = NestingBy(N!Nesting, d)
    BY <1>1, NestingValues
  <2> HIDE DEF d
  <2> QED BY <1>1, <2>1, <2>2, <2>3 DEF NestingBy
<1> HIDE DEF d
<1> QED BY <1>1, <1>2, <1>3, <1>4 DEF d

LEMMA ElementBody == ASSUME BodyIInv, N!Element PROVE BodyIInv'
<1> DEFINE n == Len(ahead)
           d == ahead[n]
<1>1. /\ bomb = "reading" /\ d # <<>> /\ ~N!IsContainer(Head(d)) /\ N!AtValue
      /\ ahead' = N!Taken /\ keys' = keys + 1
      /\ bomb' = (IF limit.keys > 0 /\ keys' > limit.keys THEN "keys" ELSE "reading")
      /\ body' = body /\ limit' = limit /\ cut' = cut /\ depth' = depth
  BY DEF N!Element, N!AtValue, N!Top
<1>2. /\ Tail(d) \in Documents
      /\ ahead' \in Seq(Documents) /\ Len(ahead') = n
      /\ ahead'[n] = Tail(d)
      /\ \A k \in 1 .. n - 1 : ahead'[k] = ahead[k]
  BY <1>1, Taking
<1>3. n \in 1 .. n /\ d \in Documents
  BY <1>1, Reading
<1>4. /\ N!Elements[d] = 1 + N!Elements[Tail(d)]
      /\ N!Nesting[d] = N!Nesting[Tail(d)]
      /\ N!Elements[Tail(d)] \in Nat /\ N!Nesting[Tail(d)] \in Nat
  BY <1>1, <1>2, <1>3, NestingValues, ElementsValues DEF NestingBy, ElementsBy
<1> HIDE DEF d
<1>5. BodyTypeOK' /\ WithinLimits'
  BY <1>1, <1>2, Reading DEF BodyIInv, BodyTypeOK, WithinLimits
<1>6. PICK sums : SumsTo(sums, ahead) /\ keys + sums[n] = N!Elements[body]
  BY <1>1 DEF BodyIInv, AllCounted
<1>7. sums[n] = sums[n - 1] + 1 + N!Elements[Tail(d)] /\ sums[n - 1] \in Nat /\ sums[n] \in Nat
  <2>1. sums[n] = sums[n - 1] + N!Elements[d]
    BY <1>3, <1>6 DEF SumsTo, d
  <2>2. n - 1 \in 0 .. n /\ n \in 0 .. n
    BY <1>3
  <2>3. sums[n - 1] \in Nat /\ sums[n] \in Nat
    BY <1>6, <2>2 DEF SumsTo
  <2> QED BY <1>4, <2>1, <2>3
<1>8. \E less : SumsTo(less, ahead') /\ keys' + less[n] = N!Elements[body]
  <2> DEFINE less == [sums EXCEPT ![n] = sums[n] - 1]
  <2>1. less \in [0 .. n -> Nat] /\ less[n] = sums[n] - 1
        /\ \A k \in 0 .. n - 1 : less[k] = sums[k]
    BY <1>3, <1>4, <1>6, <1>7 DEF SumsTo
  <2> HIDE DEF less
  <2>2. ASSUME NEW k \in 1 .. n PROVE less[k] = less[k - 1] + N!Elements[ahead'[k]]
    <3>1. CASE k = n
      <4>1. n - 1 \in 0 .. n - 1
        BY <1>3
      <4>2. less[n] = less[n - 1] + N!Elements[Tail(d)]
        BY <1>4, <1>7, <2>1, <4>1
      <4> QED BY <1>2, <3>1, <4>2
    <3>2. CASE k # n
      <4>1. k \in 1 .. n - 1 /\ k \in 0 .. n - 1 /\ k - 1 \in 0 .. n - 1
        BY <1>3, <3>2
      <4>2. sums[k] = sums[k - 1] + N!Elements[ahead[k]]
        BY <1>6 DEF SumsTo
      <4> QED BY <1>2, <2>1, <4>1, <4>2
    <3> QED BY <3>1, <3>2
  <2>3. less[0] = 0
    BY <1>3, <1>6, <2>1 DEF SumsTo
  <2>4. SumsTo(less, ahead')
    BY <1>2, <2>1, <2>2, <2>3 DEF SumsTo
  <2>5. keys' + less[n] = N!Elements[body]
    BY <1>1, <1>6, <1>7, <2>1, Reading
  <2> QED BY <2>4, <2>5
<1>9. AllCounted'
  BY <1>1, <1>2, <1>8 DEF AllCounted
<1>10. \A k \in 1 .. n : N!Nesting[ahead'[k]] = N!Nesting[ahead[k]]
  BY <1>2, <1>3, <1>4 DEF d
<1>11. DeepestAhead'
  BY <1>1, <1>2, <1>10 DEF BodyIInv, DeepestAhead, Deepest, N!TooDeep
<1>12. ASSUME bomb' = "keys" PROVE N!TooMany'
  <2>1. limit.keys > 0 /\ keys + 1 > limit.keys
    BY <1>1, <1>12
  <2>2. keys + sums[n] = N!Elements[body] /\ sums[n] >= 1
    BY <1>4, <1>6, <1>7
  <2> QED BY <1>1, <1>4, <1>7, <2>1, <2>2, Reading DEF N!TooMany
<1>13. BombsAreReported'
  BY <1>1, <1>12 DEF BombsAreReported, N!BombsAreReported
<1> QED BY <1>5, <1>9, <1>11, <1>13 DEF BodyIInv

LEMMA OpenBody == ASSUME BodyIInv, N!Open PROVE BodyIInv'
<1> DEFINE n == Len(ahead)
           d == ahead[n]
           e == Head(d).items
<1>1. /\ bomb = "reading" /\ d # <<>> /\ N!IsContainer(Head(d)) /\ N!AtValue
      /\ ahead' = Append(N!Taken, e) /\ depth' = depth + 1
      /\ bomb' = (IF depth' > limit.depth THEN "depth" ELSE "reading")
      /\ body' = body /\ limit' = limit /\ cut' = cut /\ keys' = keys
  BY DEF N!Open, N!AtValue, N!Top
<1>2. n \in 1 .. n /\ d \in Documents /\ e \in Documents
  BY <1>1, Reading, Shorter
<1>3. /\ Tail(d) \in Documents
      /\ ahead' \in Seq(Documents) /\ Len(ahead') = n + 1
      /\ ahead'[n] = Tail(d) /\ ahead'[n + 1] = e
      /\ \A k \in 1 .. n - 1 : ahead'[k] = ahead[k]
  <2>1. /\ Tail(d) \in Documents
        /\ N!Taken \in Seq(Documents) /\ Len(N!Taken) = n
        /\ N!Taken[n] = Tail(d)
        /\ \A k \in 1 .. n - 1 : N!Taken[k] = ahead[k]
    BY <1>1, Taking
  <2> HIDE DEF d, e
  <2> QED BY <1>1, <1>2, <2>1
<1>4. /\ N!Elements[d] = N!Elements[e] + N!Elements[Tail(d)]
      /\ N!Elements[e] \in Nat /\ N!Elements[Tail(d)] \in Nat
      /\ N!Nesting[e] \in Nat /\ N!Nesting[Tail(d)] \in Nat
      /\ 1 + N!Nesting[e] <= N!Nesting[d] /\ N!Nesting[Tail(d)] <= N!Nesting[d]
      /\ N!Nesting[d] = 1 + N!Nesting[e] \/ N!Nesting[d] = N!Nesting[Tail(d)]
  BY <1>1, <1>2, <1>3, NestingValues, ElementsValues DEF NestingBy, ElementsBy
<1> HIDE DEF d, e
<1>5. BodyTypeOK' /\ WithinLimits'
  BY <1>1, <1>3, Reading DEF BodyIInv, BodyTypeOK, WithinLimits
<1>6. PICK sums : SumsTo(sums, ahead) /\ keys + sums[n] = N!Elements[body]
  BY <1>1 DEF BodyIInv, AllCounted
<1>7. sums[n] = sums[n - 1] + N!Elements[e] + N!Elements[Tail(d)]
      /\ sums[n - 1] \in Nat /\ sums[n] \in Nat
  <2>1. sums[n] = sums[n - 1] + N!Elements[d]
    BY <1>2, <1>6 DEF SumsTo, d
  <2>2. n - 1 \in 0 .. n /\ n \in 0 .. n
    BY <1>2
  <2>3. sums[n - 1] \in Nat /\ sums[n] \in Nat
    BY <1>6, <2>2 DEF SumsTo
  <2> QED BY <1>4, <2>1, <2>3
<1>8. \E more : SumsTo(more, ahead') /\ keys' + more[n + 1] = N!Elements[body]
  <2> DEFINE more == [k \in 0 .. n + 1 |-> IF k = n + 1 THEN sums[n]
                                            ELSE IF k = n THEN sums[n - 1] + N!Elements[Tail(d)]
                                            ELSE sums[k]]
  <2>1. \A k \in 0 .. n : sums[k] \in Nat
    BY <1>6 DEF SumsTo
  <2>2. /\ more \in [0 .. n + 1 -> Nat] /\ more[n + 1] = sums[n]
        /\ more[n] = sums[n - 1] + N!Elements[Tail(d)]
        /\ \A k \in 0 .. n - 1 : more[k] = sums[k]
    <3>1. n \in Nat /\ sums[n] \in Nat /\ (sums[n - 1] + N!Elements[Tail(d)]) \in Nat
      BY <1>2, <1>4, <1>7
    <3>2. ASSUME NEW k \in 0 .. n + 1
          PROVE  (IF k = n + 1 THEN sums[n]
                    ELSE IF k = n THEN sums[n - 1] + N!Elements[Tail(d)] ELSE sums[k]) \in Nat
      BY <2>1, <3>1
    <3>3. more \in [0 .. n + 1 -> Nat]
      BY <3>2
    <3>4. n + 1 \in 0 .. n + 1 /\ n \in 0 .. n + 1 /\ n # n + 1
      BY <3>1
    <3>5. \A k \in 0 .. n - 1 : k \in 0 .. n + 1 /\ k # n /\ k # n + 1
      BY <3>1
    <3> QED BY <3>3, <3>4, <3>5
  <2> HIDE DEF more
  <2>3. ASSUME NEW k \in 1 .. n + 1 PROVE more[k] = more[k - 1] + N!Elements[ahead'[k]]
    <3>1. CASE k = n + 1
      BY <1>2, <1>3, <1>4, <1>7, <2>2, <3>1
    <3>2. CASE k = n
      <4>1. n - 1 \in 0 .. n - 1
        BY <1>2
      <4>2. more[n] = more[n - 1] + N!Elements[Tail(d)]
        BY <2>2, <4>1
      <4> QED BY <1>3, <3>2, <4>2
    <3>3. CASE k # n /\ k # n + 1
      <4>1. k \in 1 .. n - 1 /\ k \in 0 .. n - 1 /\ k - 1 \in 0 .. n - 1
        BY <1>2, <3>3
      <4>2. sums[k] = sums[k - 1] + N!Elements[ahead[k]]
        BY <1>2, <1>6, <4>1 DEF SumsTo
      <4> QED BY <1>3, <2>2, <4>1, <4>2
    <3> QED BY <3>1, <3>2, <3>3
  <2>4. more[0] = 0
    BY <1>2, <1>6, <2>2 DEF SumsTo
  <2>5. SumsTo(more, ahead')
    BY <1>3, <2>2, <2>3, <2>4 DEF SumsTo
  <2> QED BY <1>1, <1>6, <2>2, <2>5
<1>9. AllCounted'
  BY <1>1, <1>3, <1>8 DEF AllCounted
<1>10. /\ \A k \in 1 .. n : Deepest(ahead, k) <= N!Nesting[body]
       /\ N!TooDeep => \E k \in 1 .. n : Deepest(ahead, k) = N!Nesting[body]
  BY <1>1 DEF BodyIInv, DeepestAhead
<1>11. /\ \A k \in 1 .. n - 1 : Deepest(ahead', k) = Deepest(ahead, k)
       /\ Deepest(ahead', n) = (n - 1) + N!Nesting[Tail(d)]
       /\ Deepest(ahead', n + 1) = n + N!Nesting[e]
       /\ Deepest(ahead, n) = (n - 1) + N!Nesting[d]
  BY <1>2, <1>3 DEF Deepest, d
<1>12. N!Nesting[body] \in Nat /\ N!Nesting[d] \in Nat /\ limit.depth \in Nat /\ n = depth + 1
  BY <1>1, <1>2, Reading, NestingValues
<1>13. DeepestAhead'
  <2>1. ASSUME NEW k \in 1 .. n + 1 PROVE Deepest(ahead', k) <= N!Nesting[body]
    <3>1. CASE k \in 1 .. n - 1
      BY <1>2, <1>10, <1>11, <3>1
    <3>2. CASE k = n \/ k = n + 1
      BY <1>2, <1>4, <1>10, <1>11, <1>12, <3>2
    <3> QED BY <1>2, <3>1, <3>2
  <2>2. ASSUME N!TooDeep PROVE \E k \in 1 .. n + 1 : Deepest(ahead', k) = N!Nesting[body]
    <3>1. PICK k \in 1 .. n : Deepest(ahead, k) = N!Nesting[body]
      BY <1>10, <2>2
    <3>2. CASE k # n
      BY <1>2, <1>11, <3>1, <3>2
    <3>3. CASE k = n /\ N!Nesting[d] = 1 + N!Nesting[e]
      <4>1. Deepest(ahead', n + 1) = N!Nesting[body]
        BY <1>2, <1>4, <1>11, <1>12, <3>1, <3>3
      <4> QED BY <1>2, <4>1
    <3>4. CASE k = n /\ N!Nesting[d] = N!Nesting[Tail(d)]
      BY <1>2, <1>11, <3>1, <3>4
    <3> QED BY <1>4, <3>2, <3>3, <3>4
  <2> QED BY <1>1, <1>3, <2>1, <2>2 DEF DeepestAhead, N!TooDeep
<1>14. ASSUME bomb' = "depth" PROVE N!TooDeep'
  <2>1. depth + 1 > limit.depth
    BY <1>1, <1>14
  <2>2. n <= N!Nesting[body]
    BY <1>2, <1>4, <1>10, <1>11, <1>12
  <2> QED BY <1>1, <1>12, <2>1, <2>2 DEF N!TooDeep
<1>15. BombsAreReported'
  BY <1>1, <1>14 DEF BombsAreReported, N!BombsAreReported
<1> QED BY <1>5, <1>9, <1>13, <1>15 DEF BodyIInv

LEMMA CloseBody == ASSUME BodyIInv, N!Close PROVE BodyIInv'
<1> DEFINE n == Len(ahead)
<1>1. /\ bomb = "reading" /\ ahead[n] = <<>> /\ n > 1 /\ ahead' = SubSeq(ahead, 1, n - 1)
      /\ depth' = depth - 1
      /\ body' = body /\ limit' = limit /\ cut' = cut /\ keys' = keys /\ bomb' = bomb
  BY DEF N!Close, N!Top
<1>2. n \in 1 .. n /\ n = depth + 1 /\ depth \in Nat /\ limit.depth \in Nat
  BY <1>1, Reading
<1>3. /\ ahead' \in Seq(Documents) /\ Len(ahead') = n - 1
      /\ \A k \in 1 .. n - 1 : ahead'[k] = ahead[k]
  BY <1>1, <1>2, Reading
<1>4. N!Elements[<<>>] = 0 /\ N!Nesting[<<>>] = 0
  BY Shorter, NestingValues, ElementsValues DEF NestingBy, ElementsBy
<1>5. BodyTypeOK' /\ WithinLimits'
  BY <1>1, <1>2, <1>3 DEF BodyIInv, BodyTypeOK, WithinLimits
<1>6. PICK sums : SumsTo(sums, ahead) /\ keys + sums[n] = N!Elements[body]
  BY <1>1 DEF BodyIInv, AllCounted
<1>7. sums[n - 1] = sums[n]
  <2>1. sums[n] = sums[n - 1] + 0
    BY <1>1, <1>2, <1>4, <1>6 DEF SumsTo
  <2>2. n - 1 \in 0 .. n
    BY <1>2
  <2>3. sums[n - 1] \in Nat
    BY <1>6, <2>2 DEF SumsTo
  <2> QED BY <2>1, <2>3
<1>8. \E less : SumsTo(less, ahead') /\ keys' + less[n - 1] = N!Elements[body]
  <2> DEFINE less == [k \in 0 .. n - 1 |-> sums[k]]
  <2>1. less \in [0 .. n - 1 -> Nat] /\ \A k \in 0 .. n - 1 : less[k] = sums[k]
    BY <1>2, <1>6 DEF SumsTo
  <2> HIDE DEF less
  <2>2. ASSUME NEW k \in 1 .. n - 1 PROVE less[k] = less[k - 1] + N!Elements[ahead'[k]]
    <3>1. k \in 1 .. n /\ k \in 0 .. n - 1 /\ k - 1 \in 0 .. n - 1
      BY <1>2
    <3>2. sums[k] = sums[k - 1] + N!Elements[ahead[k]]
      BY <1>6, <3>1 DEF SumsTo
    <3> QED BY <1>3, <2>1, <3>1, <3>2
  <2>3. less[0] = 0
    BY <1>1, <1>2, <1>6, <2>1 DEF SumsTo
  <2>4. SumsTo(less, ahead')
    BY <1>3, <2>1, <2>2, <2>3 DEF SumsTo
  <2>5. n - 1 \in 0 .. n - 1
    BY <1>1, <1>2
  <2>6. less[n - 1] = sums[n]
    BY <1>7, <2>1, <2>5
  <2> QED BY <1>1, <1>6, <2>4, <2>6
<1>9. AllCounted'
  BY <1>1, <1>3, <1>8 DEF AllCounted
<1>10. \A k \in 1 .. n - 1 : k \in 1 .. n /\ Deepest(ahead', k) = Deepest(ahead, k)
  BY <1>2, <1>3 DEF Deepest
<1>11. N!TooDeep => Deepest(ahead, n) < N!Nesting[body]
  <2>1. Deepest(ahead, n) = n - 1
    BY <1>1, <1>2, <1>4 DEF Deepest
  <2> QED BY <1>1, <1>2, <2>1, Reading DEF BodyIInv, WithinLimits, N!TooDeep
<1>12. DeepestAhead'
  <2>1. ASSUME N!TooDeep PROVE \E k \in 1 .. n - 1 : Deepest(ahead', k) = N!Nesting[body]
    <3>1. PICK k \in 1 .. n : Deepest(ahead, k) = N!Nesting[body]
      BY <1>1, <2>1 DEF BodyIInv, DeepestAhead
    <3>2. k # n
      BY <1>1, <1>11, <2>1, <3>1, Reading
    <3>3. k \in 1 .. n - 1
      BY <1>2, <3>2
    <3> QED BY <1>10, <3>1, <3>3
  <2>2. \A k \in 1 .. n - 1 : Deepest(ahead', k) <= N!Nesting[body]
    BY <1>1, <1>10 DEF BodyIInv, DeepestAhead
  <2> QED BY <1>1, <1>3, <2>1, <2>2 DEF DeepestAhead, N!TooDeep
<1>13. BombsAreReported'
  BY <1>1 DEF BombsAreReported, N!BombsAreReported
<1> QED BY <1>5, <1>9, <1>12, <1>13 DEF BodyIInv

LEMMA TokenFailsBody == ASSUME BodyIInv, N!TokenFails PROVE BodyIInv'
<1>1. /\ bomb = "reading" /\ bomb' = "quiet" /\ cut' = cut /\ (cut \/ ahead = <<(<<>>)>>)
      /\ body' = body /\ limit' = limit /\ depth' = depth /\ keys' = keys
  BY DEF N!TokenFails
<1>2. ASSUME ~cut' PROVE ~N!TooDeep /\ ~N!TooMany
  <2>1. Len(ahead) = 1 /\ ahead[1] = <<>>
    <3>1. ahead = <<(<<>>)>>
      BY <1>1, <1>2
    <3> QED BY <3>1
  <2>2. N!Elements[<<>>] = 0 /\ N!Nesting[<<>>] = 0
    BY Shorter, NestingValues, ElementsValues DEF NestingBy, ElementsBy
  <2>3. ASSUME NEW k \in 1 .. Len(ahead) PROVE Deepest(ahead, k) = 0
    BY <2>1, <2>2 DEF Deepest
  <2>4. ~N!TooDeep
    <3>1. SUFFICES ASSUME N!TooDeep PROVE FALSE
        OBVIOUS
    <3>2. N!Nesting[body] = 0
      BY <1>1, <2>3, <3>1 DEF BodyIInv, DeepestAhead
    <3> QED BY <1>1, <3>1, <3>2, Reading DEF N!TooDeep
  <2>5. N!Elements[body] = keys
    <3>1. PICK sums : SumsTo(sums, ahead) /\ keys + sums[1] = N!Elements[body]
      BY <1>1, <2>1 DEF BodyIInv, AllCounted
    <3>2. sums[1] = 0
      BY <2>1, <2>2, <3>1 DEF SumsTo
    <3> QED BY <1>1, <3>1, <3>2, Reading
  <2> QED BY <1>1, <2>4, <2>5, Reading DEF BodyIInv, WithinLimits, N!TooMany
<1>3. BombsAreReported'
  BY <1>1, <1>2 DEF BombsAreReported, N!BombsAreReported, N!TooDeep, N!TooMany
<1> QED BY <1>1, <1>3 DEF BodyIInv, BodyTypeOK, WithinLimits, AllCounted, DeepestAhead

LEMMA BodyNextIInv == BodyIInv /\ [N!Next]_(N!vars) => BodyIInv'
<1> SUFFICES ASSUME BodyIInv, [N!Next]_(N!vars) PROVE BodyIInv'
    OBVIOUS
<1>1. CASE N!Return
  <2>1. limit' \in [depth : Nat, keys : Int]
    BY <1>1, NewLimit DEF N!Return
  <2> QED BY <1>1, <2>1, Shorter
          DEF N!Return, BodyIInv, BodyTypeOK, WithinLimits, AllCounted, DeepestAhead,
              BombsAreReported, N!BombsAreReported
<1>2. CASE UNCHANGED N!vars
  BY <1>2 DEF N!vars, BodyIInv, BodyTypeOK, WithinLimits, AllCounted, DeepestAhead,
              BombsAreReported, N!BombsAreReported, N!TooDeep, N!TooMany
<1> QED BY <1>1, <1>2, DetectBody, OpenBody, CloseBody, ElementBody, TokenFailsBody DEF N!Next

\* A body that is read to its end is reported just when it is nested too deep or
\* has too many elements, however its values are nested and follow each other.
THEOREM BodyBombsReported == N!Spec => []BombsAreReported
<1>1. N!Spec => []BodyIInv
  BY BodyInitIInv, BodyNextIInv, PTL DEF N!Spec
<1> QED BY <1>1, PTL DEF BodyIInv

-----------------------------------------------------------------------------
(***************************************************************************)
(* Side by side.                                                           *)
(***************************************************************************)

\* Scans is a behaviour of each of its parts, so that what was proved of a part
\* holds of the whole.
THEOREM ScansSideBySide == ScansSpec => Spec /\ P!Spec /\ N!Spec /\ C!Spec
<1>1. ScansInit => Init /\ P!Init /\ N!Init /\ C!Init
  BY DEF ScansInit
<1>2. [ScansNext]_allVars =>
        [Next]_vars /\ [P!Next]_(P!vars) /\ [N!Next]_(N!vars) /\ [C!Next]_(C!vars)
  <2> SUFFICES ASSUME [ScansNext]_allVars
               PROVE  [Next]_vars /\ [P!Next]_(P!vars) /\ [N!Next]_(N!vars) /\ [C!Next]_(C!vars)
      OBVIOUS
  <2> USE DEF scanVars, bodyVars, cookieVars, vars, P!vars, N!vars, C!vars
  <2>1. ASSUME UNCHANGED <<scanVars, bodyVars, cookieVars>>, Next
        PROVE  [Next]_vars /\ [P!Next]_(P!vars) /\ [N!Next]_(N!vars) /\ [C!Next]_(C!vars)
    BY <2>1
  <2>2. ASSUME UNCHANGED <<vars, bodyVars, cookieVars>>, P!Next
        PROVE  [Next]_vars /\ [P!Next]_(P!vars) /\ [N!Next]_(N!vars) /\ [C!Next]_(C!vars)
    BY <2>2
  <2>3. ASSUME UNCHANGED <<vars, scanVars, cookieVars>>, N!Next
        PROVE  [Next]_vars /\ [P!Next]_(P!vars) /\ [N!Next]_(N!vars) /\ [C!Next]_(C!vars)
    BY <2>3
  <2>4. ASSUME UNCHANGED <<vars, scanVars, bodyVars>>, C!Next
        PROVE  [Next]_vars /\ [P!Next]_(P!vars) /\ [N!Next]_(N!vars) /\ [C!Next]_(C!vars)
    BY <2>4
  <2>5. CASE UNCHANGED allVars
    BY <2>5 DEF allVars
  <2>6. ScansNext => \/ UNCHANGED <<scanVars, bodyVars, cookieVars>> /\ Next
                     \/ UNCHANGED <<vars, bodyVars, cookieVars>> /\ P!Next
                     \/ UNCHANGED <<vars, scanVars, cookieVars>> /\ N!Next
                     \/ UNCHANGED <<vars, scanVars, bodyVars>> /\ C!Next
    <3> USE DEF OnBlacklist, OnScan, OnBody, OnCookie
    <3> QED BY DEF ScansNext, Next, P!Next, N!Next, C!Next
  <2> QED BY <2>1, <2>2, <2>3, <2>4, <2>5, <2>6
<1> QED BY <1>1, <1>2, PTL DEF ScansSpec, Spec, P!Spec, N!Spec, C!Spec
=============================================================================
