---------------------------- MODULE EngineProofs ----------------------------
(***************************************************************************)
(* Registrations that race with scans neither change the map under one nor *)
(* let a recognised input slip by: for any number of goroutines, detectors *)
(* and inputs.                                                             *)
(***************************************************************************)
EXTENDS Engine, TLAPS

CallType ==
    [pc : {"idle", "next", "wait", "scan", "wait_lookup", "lookup", "run"},
     name : Names \cup {NoName}, todo : SUBSET Inputs, input : Inputs \cup {NoInput},
     ran : SUBSET (Names \X Versions), seen : Versions,
     results : SUBSET (Names \X Versions \X Inputs),
     due : SUBSET Inputs, floor : [Names -> Versions]]

Registries == [Names -> Versions]

InMap(reg) == {<<n, reg[n]>> : n \in {m \in Names : reg[m] > 0}}

\* The inputs that call c has yet to report on.
Open(c) == c.todo \cup (IF c.pc \in {"idle", "next"} THEN {} ELSE {c.input})

\* The detectors that call c runs.
Asked(c) == IF c.name = NoName THEN Names ELSE {c.name}

\* On the inputs that are done, everything registered at the start has spoken.
Reported(c, reg) ==
    \A n \in Asked(c) : \A i \in c.due \ Open(c) :
      c.floor[n] > 0 /\ <<n, i>> \in Fires =>
        \E v \in c.floor[n] .. reg[n] : <<n, v, i>> \in c.results

\* What is true of a call, the registry being reg.
Sound(c, reg) ==
    /\ \A n \in Names : c.floor[n] <= reg[n]
    /\ c.pc \notin {"idle", "next"} => c.input \in c.due
    /\ c.todo \subseteq c.due
    /\ c.pc \in {"wait", "scan"} => c.name = NoName
    /\ c.pc \in {"wait_lookup", "lookup", "run"} => c.name \in Names
    /\ c.pc # "scan" => c.ran = {}
    /\ c.pc = "scan" => c.ran \subseteq InMap(reg)
    /\ \A r \in c.ran : <<r[1], c.input>> \in Fires => <<r[1], r[2], c.input>> \in c.results
    /\ c.pc = "run" => c.floor[c.name] <= c.seen /\ c.seen <= reg[c.name]
    /\ c.name # NoName => \A i, j \in c.due : i = j
    /\ Reported(c, reg)

IInv == TypeOK /\ \A w \in Workers : Sound(scan[w], registry)

LEMMA Types ==
    IInv => /\ registry \in Registries
            /\ scan \in [Workers -> CallType]
            /\ writer \in [Writers -> [pc : {"idle", "queued", "pending"},
                                       name : Names \cup {NoName}]]
  BY DEF IInv, TypeOK, CallType, Registries

LEMMA TypesSuffice ==
    ASSUME registry' \in Registries, scan' \in [Workers -> CallType],
           writer' \in [Writers -> [pc : {"idle", "queued", "pending"},
                                    name : Names \cup {NoName}]]
    PROVE  TypeOK'
  BY DEF TypeOK, CallType, Registries

LEMMA Idleness ==
    ASSUME NEW reg \in Registries
    PROVE  NoScan \in CallType /\ Sound(NoScan, reg)
<1>1. 0 \in Versions
  BY EngineAssumption DEF Versions
<1>2. NoScan \in CallType
  BY <1>1 DEF NoScan, CallType
<1>3. \A n \in Names : reg[n] >= 0
  BY EngineAssumption DEF Registries, Versions
<1>4. Sound(NoScan, reg)
  BY <1>3 DEF NoScan, Sound, Reported, Open
<1> QED BY <1>2, <1>4

LEMMA InitIInv == Init => IInv
<1> SUFFICES ASSUME Init PROVE IInv
    OBVIOUS
<1>1. registry \in Registries
  BY EngineAssumption DEF Init, Registries, Versions
<1>2. TypeOK
  BY <1>1, Idleness DEF Init, TypeOK, CallType, Registries, NoWrite
<1> QED BY <1>1, <1>2, Idleness DEF Init, IInv

-----------------------------------------------------------------------------
\* A step of worker w on its call alone keeps the invariant if the call stays sound.
LEMMA OwnStep ==
    ASSUME IInv, NEW w \in Workers, NEW c \in CallType, Sound(c, registry),
           scan' = [scan EXCEPT ![w] = c], UNCHANGED <<registry, writer>>
    PROVE  IInv'
<1>1. scan' \in [Workers -> CallType]
  BY Types
<1>2. TypeOK'
  BY <1>1, Types, TypesSuffice
<1>3. \A x \in Workers : Sound(scan'[x], registry')
  <2> TAKE x \in Workers
  <2>1. scan'[x] = IF x = w THEN c ELSE scan[x]
    BY Types
  <2> QED BY <2>1 DEF IInv
<1> QED BY <1>2, <1>3 DEF IInv

\* A call begins: nothing has been scanned, and everything is due.
LEMMA Begins ==
    ASSUME IInv, NEW w \in Workers, NEW c \in CallType, Begin(w, c),
           c.pc = "next", c.ran = {}, c.floor = registry, c.todo = c.due,
           c.name # NoName => \A i, j \in c.due : i = j
    PROVE  IInv'
<1>1. \A n \in Names : c.floor[n] <= registry[n]
  BY Types, EngineAssumption DEF Registries, Versions
<1>2. c.due \ Open(c) = {}
  BY DEF Open
<1>3. Sound(c, registry)
  BY <1>1, <1>2 DEF Sound, Reported
<1> QED BY <1>3, OwnStep DEF Begin

LEMMA DetectRequestKeeps ==
    ASSUME IInv, NEW w \in Workers, NEW req \in SUBSET Inputs, DetectRequest(w, req)
    PROVE  IInv'
<1> DEFINE c == [NoScan EXCEPT !.pc = "next", !.todo = WithDecoded(req), !.floor = registry,
                            !.due = {j \in Inputs : \E i \in req : j \in {i, Decode[i]}}]
<1>1. WithDecoded(req) = {j \in Inputs : \E i \in req : j \in {i, Decode[i]}}
  BY EngineAssumption DEF WithDecoded
<1>2. c \in CallType
  BY <1>1, Types, Idleness DEF NoScan, CallType, Registries
<1>3. /\ c.pc = "next" /\ c.ran = {} /\ c.floor = registry /\ c.todo = c.due
      /\ c.name = NoName
  BY <1>1 DEF NoScan
<1>4. Begin(w, c)
  BY DEF DetectRequest
<1> HIDE DEF c
<1> QED BY <1>2, <1>3, <1>4, Begins

LEMMA DetectAllKeeps ==
    ASSUME IInv, NEW w \in Workers, NEW i \in Inputs, DetectAll(w, i)
    PROVE  IInv'
<1> DEFINE c == [NoScan EXCEPT !.pc = "next", !.todo = {i}, !.floor = registry, !.due = {i}]
<1>1. c \in CallType
  BY Types, Idleness DEF NoScan, CallType, Registries
<1>2. /\ c.pc = "next" /\ c.ran = {} /\ c.floor = registry /\ c.todo = c.due
      /\ c.name = NoName
  BY DEF NoScan
<1>3. Begin(w, c)
  BY DEF DetectAll
<1> HIDE DEF c
<1> QED BY <1>1, <1>2, <1>3, Begins

LEMMA DetectKeeps ==
    ASSUME IInv, NEW w \in Workers, NEW n \in Names, NEW i \in Inputs, Detect(w, n, i)
    PROVE  IInv'
<1> DEFINE c == [NoScan EXCEPT !.pc = "next", !.name = n, !.todo = {i}, !.floor = registry,
                            !.due = {i}]
<1>1. c \in CallType
  BY Types, Idleness DEF NoScan, CallType, Registries
<1>2. /\ c.pc = "next" /\ c.ran = {} /\ c.floor = registry /\ c.todo = c.due
      /\ c.due = {i}
  BY DEF NoScan
<1>3. Begin(w, c)
  BY DEF Detect
<1> HIDE DEF c
<1> QED BY <1>1, <1>2, <1>3, Begins

-----------------------------------------------------------------------------
(***************************************************************************)
(* The steps of a scan.                                                    *)
(***************************************************************************)

LEMMA RLockKeeps ==
    ASSUME IInv, NEW w \in Workers, NEW i \in Inputs, RLock(w, i)
    PROVE  IInv'
<1> DEFINE c == scan[w]
           p == IF c.name = NoName THEN IF WriterPending THEN "wait" ELSE "scan"
                                   ELSE IF WriterPending THEN "wait_lookup" ELSE "lookup"
           d == [c EXCEPT !.input = i, !.todo = @ \ {i}, !.pc = p]
<1>1. /\ c \in CallType /\ c.pc = "next" /\ i \in c.todo /\ Sound(c, registry)
      /\ UNCHANGED <<registry, writer>>
  BY Types DEF RLock, IInv
<1>2. scan' = [scan EXCEPT ![w] = d]
  BY DEF RLock
<1>3. /\ p \in {"wait", "scan", "wait_lookup", "lookup"}
      /\ c.name = NoName => p \in {"wait", "scan"}
      /\ c.name # NoName => p \in {"wait_lookup", "lookup"}
  OBVIOUS
<1> HIDE DEF p
<1>4. d \in CallType
  BY <1>1, <1>3 DEF CallType
<1>5. /\ d.pc = p /\ d.input = i /\ d.todo = c.todo \ {i} /\ d.name = c.name /\ d.ran = c.ran
      /\ d.results = c.results /\ d.due = c.due /\ d.floor = c.floor /\ d.seen = c.seen
  BY <1>1 DEF CallType
<1> HIDE DEF d
<1>6. Open(d) = Open(c)
  BY <1>1, <1>3, <1>5 DEF Open
<1>7. Reported(d, registry)
  BY <1>1, <1>5, <1>6 DEF Reported, Asked, Sound
<1>8. c.name # NoName => c.name \in Names
  BY <1>1 DEF CallType
<1>9. Sound(d, registry)
  BY <1>1, <1>3, <1>5, <1>7, <1>8 DEF Sound
<1> QED BY <1>1, <1>2, <1>4, <1>9, OwnStep

LEMMA RunKeeps ==
    ASSUME IInv, NEW w \in Workers, NEW n \in Names, Run(w, n)
    PROVE  IInv'
<1> DEFINE c == scan[w]
           v == registry[n]
           found == Found(n, v, c.input)
           d == [c EXCEPT !.ran = @ \cup {<<n, v>>}, !.results = @ \cup found]
<1>1. /\ c \in CallType /\ c.pc = "scan" /\ Sound(c, registry) /\ v \in Versions
      /\ <<n, v>> \in InMap(registry) /\ UNCHANGED <<registry, writer>>
  BY Types DEF Run, IInv, Registered, InMap, Registries
<1>2. scan' = [scan EXCEPT ![w] = d]
  BY DEF Run
<1>3. c.input \in Inputs
  BY <1>1 DEF Sound, CallType
<1>4. /\ found \subseteq Names \X Versions \X Inputs
      /\ <<n, c.input>> \in Fires => <<n, v, c.input>> \in found
  BY <1>1, <1>3 DEF Found
<1> HIDE DEF found
<1>5. /\ d.pc = "scan" /\ d.input = c.input /\ d.todo = c.todo /\ d.name = c.name
      /\ d.ran = c.ran \cup {<<n, v>>} /\ d.results = c.results \cup found
      /\ d.due = c.due /\ d.floor = c.floor /\ d.seen = c.seen
  BY <1>1 DEF CallType
<1>6. d \in CallType
  <2>1. <<n, v>> \in Names \X Versions
    BY <1>1
  <2>2. c.ran \cup {<<n, v>>} \in SUBSET (Names \X Versions)
    BY <1>1, <2>1 DEF CallType
  <2>3. c.results \cup found \in SUBSET (Names \X Versions \X Inputs)
    BY <1>1, <1>4 DEF CallType
  <2> HIDE DEF v
  <2> QED BY <1>1, <2>2, <2>3 DEF CallType
<1> HIDE DEF d
<1>7. Open(d) = Open(c)
  BY <1>1, <1>5 DEF Open
<1>8. Reported(d, registry)
  BY <1>1, <1>5, <1>7 DEF Reported, Asked, Sound
<1>9. \A r \in d.ran : <<r[1], d.input>> \in Fires => <<r[1], r[2], d.input>> \in d.results
  <2> SUFFICES ASSUME NEW r \in d.ran, <<r[1], d.input>> \in Fires
               PROVE  <<r[1], r[2], d.input>> \in d.results
    OBVIOUS
  <2>1. CASE r \in c.ran
    BY <1>1, <1>5, <2>1 DEF Sound
  <2>2. CASE r = <<n, v>>
    <3>1. r[1] = n /\ r[2] = v
      BY <2>2
    <3> QED BY <1>4, <1>5, <3>1
  <2> QED BY <1>5, <2>1, <2>2
<1>10. d.ran \subseteq InMap(registry)
  BY <1>1, <1>5 DEF Sound
<1>11. Sound(d, registry)
  BY <1>1, <1>5, <1>8, <1>9, <1>10 DEF Sound
<1> QED BY <1>1, <1>2, <1>6, <1>11, OwnStep

\* The input is done: every detector in the map has run on it.
LEMMA RUnlockKeeps ==
    ASSUME IInv, NEW w \in Workers, RUnlock(w)
    PROVE  IInv'
<1> DEFINE c == scan[w]
           d == [c EXCEPT !.pc = "next", !.input = NoInput, !.ran = {}]
<1>1. /\ c \in CallType /\ c.pc = "scan" /\ Sound(c, registry)
      /\ c.ran = InMap(registry) /\ UNCHANGED <<registry, writer>>
      /\ registry \in Registries
  BY Types DEF RUnlock, IInv, Registered, InMap
<1>2. scan' = [scan EXCEPT ![w] = d]
  BY DEF RUnlock
<1>3. d \in CallType
  BY <1>1 DEF CallType
<1>4. /\ d.pc = "next" /\ d.todo = c.todo /\ d.name = c.name /\ d.ran = {}
      /\ d.results = c.results /\ d.due = c.due /\ d.floor = c.floor
  BY <1>1 DEF CallType
<1> HIDE DEF d
<1>5. Reported(d, registry)
  <2> SUFFICES ASSUME NEW n \in Asked(c), NEW i \in c.due, i \notin c.todo,
                      c.floor[n] > 0, <<n, i>> \in Fires
               PROVE  \E v \in c.floor[n] .. registry[n] : <<n, v, i>> \in c.results
    BY <1>4 DEF Reported, Asked, Open
  <2>1. CASE i # c.input
    BY <1>1, <2>1 DEF Sound, Reported, Open
  <2>2. CASE i = c.input
    <3>1. n \in Names
      BY <1>1 DEF Asked, Sound
    <3>2. /\ c.floor[n] \in Nat /\ registry[n] \in Nat
          /\ c.floor[n] <= registry[n]
      BY <1>1, <3>1, EngineAssumption DEF Sound, CallType, Registries, Versions
    <3>3. <<n, registry[n]>> \in c.ran
      BY <1>1, <3>1, <3>2 DEF InMap
    <3>4. <<n, registry[n], i>> \in c.results
      BY <1>1, <2>2, <3>3 DEF Sound
    <3>5. registry[n] \in c.floor[n] .. registry[n]
      BY <3>2
    <3> QED BY <3>4, <3>5
  <2> QED BY <2>1, <2>2
<1>6. Sound(d, registry)
  BY <1>1, <1>4, <1>5 DEF Sound
<1> QED BY <1>1, <1>2, <1>3, <1>6, OwnStep

LEMMA LookUpKeeps ==
    ASSUME IInv, NEW w \in Workers, LookUp(w)
    PROVE  IInv'
<1> DEFINE c == scan[w]
           d == [c EXCEPT !.seen = registry[c.name], !.pc = "run"]
<1>1. /\ c \in CallType /\ c.pc = "lookup" /\ Sound(c, registry) /\ c.name \in Names
      /\ UNCHANGED <<registry, writer>> /\ registry \in Registries
  BY Types DEF LookUp, IInv, Sound
<1>2. scan' = [scan EXCEPT ![w] = d]
  BY DEF LookUp
<1>3. registry[c.name] \in Versions /\ registry[c.name] \in Nat
  BY <1>1, EngineAssumption DEF Registries, Versions
<1>4. d \in CallType
  BY <1>1, <1>3 DEF CallType
<1>5. /\ d.pc = "run" /\ d.input = c.input /\ d.todo = c.todo /\ d.name = c.name
      /\ d.ran = c.ran /\ d.results = c.results /\ d.due = c.due /\ d.floor = c.floor
      /\ d.seen = registry[c.name]
  BY <1>1 DEF CallType
<1> HIDE DEF d
<1>6. Open(d) = Open(c)
  BY <1>1, <1>5 DEF Open
<1>7. Reported(d, registry)
  BY <1>1, <1>5, <1>6 DEF Reported, Asked, Sound
<1>8. Sound(d, registry)
  BY <1>1, <1>3, <1>5, <1>7 DEF Sound
<1> QED BY <1>1, <1>2, <1>4, <1>8, OwnStep

\* Detect has the answer of the one detector that it asked.
LEMMA RunNamedKeeps ==
    ASSUME IInv, NEW w \in Workers, RunNamed(w)
    PROVE  IInv'
<1> DEFINE c == scan[w]
           found == IF c.seen > 0 THEN Found(c.name, c.seen, c.input) ELSE {}
           d == [c EXCEPT !.pc = "next", !.results = found]
<1>1. /\ c \in CallType /\ c.pc = "run" /\ Sound(c, registry) /\ c.name \in Names
      /\ UNCHANGED <<registry, writer>> /\ registry \in Registries
  BY Types DEF RunNamed, IInv, Sound
<1>2. scan' = [scan EXCEPT ![w] = d]
  BY DEF RunNamed
<1>3. c.input \in Inputs /\ c.input \in c.due
  BY <1>1 DEF Sound, CallType
<1>4. /\ found \in SUBSET (Names \X Versions \X Inputs)
      /\ c.seen > 0 /\ <<c.name, c.input>> \in Fires => <<c.name, c.seen, c.input>> \in found
  BY <1>1, <1>3 DEF Found, CallType
<1> HIDE DEF found
<1>5. d \in CallType
  BY <1>1, <1>4 DEF CallType
<1>6. /\ d.pc = "next" /\ d.todo = c.todo /\ d.name = c.name /\ d.ran = c.ran
      /\ d.results = found /\ d.due = c.due /\ d.floor = c.floor
  BY <1>1 DEF CallType
<1> HIDE DEF d
<1>7. Reported(d, registry)
  <2> SUFFICES ASSUME NEW i \in c.due, c.floor[c.name] > 0, <<c.name, i>> \in Fires
               PROVE  \E v \in c.floor[c.name] .. registry[c.name] : <<c.name, v, i>> \in found
    <3>1. NoName \notin Names
      BY EngineAssumption
    <3>2. Asked(d) = {c.name}
      BY <1>1, <1>6, <3>1 DEF Asked
    <3> QED BY <1>6, <3>2 DEF Reported
  <2>1. i = c.input
    <3>1. c.name # NoName
      BY <1>1, EngineAssumption
    <3> QED BY <1>1, <1>3, <3>1 DEF Sound
  <2>2. /\ c.seen \in Nat /\ c.floor[c.name] \in Nat /\ registry[c.name] \in Nat
    BY <1>1, EngineAssumption DEF CallType, Registries, Versions
  <2>3. c.floor[c.name] <= c.seen /\ c.seen <= registry[c.name]
    BY <1>1 DEF Sound
  <2>4. c.seen \in c.floor[c.name] .. registry[c.name] /\ c.seen > 0
    BY <2>2, <2>3
  <2> QED BY <1>4, <2>1, <2>4
<1>8. Sound(d, registry)
  BY <1>1, <1>6, <1>7 DEF Sound
<1> QED BY <1>1, <1>2, <1>5, <1>8, OwnStep

LEMMA ReturnKeeps ==
    ASSUME IInv, NEW w \in Workers, Return(w)
    PROVE  IInv'
  BY Types, Idleness, OwnStep DEF Return

-----------------------------------------------------------------------------
(***************************************************************************)
(* The steps of a registration.                                            *)
(***************************************************************************)

LEMMA QueueKeeps ==
    ASSUME IInv, NEW v \in Writers, Lock(v) \/ \E n \in Names : Register(v, n)
    PROVE  IInv'
<1>1. UNCHANGED <<registry, scan>>
  BY DEF Lock, Register
<1>2. writer' \in [Writers -> [pc : {"idle", "queued", "pending"}, name : Names \cup {NoName}]]
  BY Types DEF Lock, Register
<1> QED BY <1>1, <1>2, Types, TypesSuffice DEF IInv

\* A call that holds no read lock stays sound when the registry grows, let in
\* or not.
LEMMA GrowthKeeps ==
    ASSUME NEW c \in CallType, NEW reg \in Registries, NEW new \in Registries,
           Sound(c, reg), c.pc \notin {"scan", "lookup"},
           \A n \in Names : reg[n] <= new[n],
           NEW p,
           p = IF c.pc = "wait" THEN "scan" ELSE IF c.pc = "wait_lookup" THEN "lookup" ELSE c.pc,
           NEW d, d = [c EXCEPT !.pc = p]
    PROVE  d \in CallType /\ Sound(d, new)
<1>1. p \in {"idle", "next", "scan", "lookup", "run"}
  BY DEF CallType
<1>2. d \in CallType
  BY <1>1 DEF CallType
<1>3. /\ d.pc = p /\ d.input = c.input /\ d.todo = c.todo /\ d.name = c.name
      /\ d.ran = c.ran /\ d.results = c.results /\ d.due = c.due /\ d.floor = c.floor
      /\ d.seen = c.seen
  BY DEF CallType
<1>4. \A n \in Names : c.floor[n] \in Nat /\ reg[n] \in Nat /\ new[n] \in Nat
  BY EngineAssumption DEF CallType, Registries, Versions
<1>5. c.seen \in Nat
  BY EngineAssumption DEF CallType, Versions
<1>6. Open(d) = Open(c)
  BY <1>1, <1>3 DEF Open
<1>7. Reported(d, new)
  <2> SUFFICES ASSUME NEW n \in Asked(c), NEW i \in c.due \ Open(c),
                      c.floor[n] > 0, <<n, i>> \in Fires
               PROVE  \E v \in c.floor[n] .. new[n] : <<n, v, i>> \in c.results
    BY <1>3, <1>6 DEF Reported, Asked
  <2>1. n \in Names
    BY EngineAssumption DEF Asked, CallType
  <2>2. PICK v \in c.floor[n] .. reg[n] : <<n, v, i>> \in c.results
    BY DEF Sound, Reported
  <2>3. v \in c.floor[n] .. new[n]
    BY <1>4, <2>1
  <2> QED BY <2>2, <2>3
<1>8. \A n \in Names : d.floor[n] <= new[n]
  BY <1>3, <1>4 DEF Sound
<1>9. d.pc = "run" => d.floor[d.name] <= d.seen /\ d.seen <= new[d.name]
  BY <1>3, <1>4, <1>5 DEF Sound
<1>10. d.ran = {}
  BY <1>3 DEF Sound
<1>11. Sound(d, new)
  BY <1>1, <1>3, <1>7, <1>8, <1>9, <1>10 DEF Sound
<1> QED BY <1>2, <1>11

LEMMA WriteKeeps ==
    ASSUME IInv, NEW v \in Writers, Write(v)
    PROVE  IInv'
<1> DEFINE n == writer[v].name
<1>1. /\ registry \in Registries /\ scan \in [Workers -> CallType]
  BY Types
<1>2. writer' \in [Writers -> [pc : {"idle", "queued", "pending"}, name : Names \cup {NoName}]]
  BY Types DEF Write, NoWrite
<1>3. registry' \in Registries /\ \A m \in Names : registry[m] <= registry'[m]
  <2>1. registry' = [registry EXCEPT ![n] = Replaced(n)]
    BY DEF Write
  <2>2. \A m \in Names : registry[m] \in 0 .. MaxVersion
    BY <1>1 DEF Registries, Versions
  <2>3. n \in Names => Replaced(n) \in 0 .. MaxVersion /\ registry[n] <= Replaced(n)
    BY <2>2, EngineAssumption DEF Replaced
  <2> DEFINE x == Replaced(n)
  <2>4. n \in Names => x \in 0 .. MaxVersion /\ registry[n] <= x
    BY <2>3
  <2>5. registry' = [registry EXCEPT ![n] = x]
    BY <2>1
  <2> HIDE DEF n, x
  <2>6. registry \in [Names -> 0 .. MaxVersion]
    BY <1>1 DEF Registries, Versions
  <2>7. registry' \in [Names -> 0 .. MaxVersion]
    BY <2>4, <2>5, <2>6
  <2>8. \A m \in Names : registry'[m] = IF m = n THEN x ELSE registry[m]
    BY <2>5, <2>6
  <2>9. \A m \in Names : registry[m] <= registry'[m]
    BY <2>2, <2>4, <2>8, EngineAssumption
  <2> QED BY <2>7, <2>9 DEF Registries, Versions
<1>4. \A w \in Workers : scan'[w] \in CallType /\ Sound(scan'[w], registry')
  <2> TAKE w \in Workers
  <2> DEFINE c == scan[w]
             p == IF c.pc = "wait" THEN "scan"
                    ELSE IF c.pc = "wait_lookup" THEN "lookup" ELSE c.pc
  <2>1. c \in CallType /\ Sound(c, registry)
    BY <1>1 DEF IInv
  <2>2. c.pc \notin {"scan", "lookup"}
    BY DEF Write, Reading
  <2>3. scan'[w] = CASE c.pc = "wait" -> [c EXCEPT !.pc = "scan"]
                     [] c.pc = "wait_lookup" -> [c EXCEPT !.pc = "lookup"]
                     [] OTHER -> c
    BY DEF Write, Admitted
  <2>4. [c EXCEPT !.pc = c.pc] = c
    BY <2>1 DEF CallType
  <2>5. scan'[w] = [c EXCEPT !.pc = p]
    BY <2>3, <2>4
  <2> HIDE DEF p
  <2>6. p = IF c.pc = "wait" THEN "scan" ELSE IF c.pc = "wait_lookup" THEN "lookup" ELSE c.pc
    BY DEF p
  <2> QED BY <1>1, <1>3, <2>1, <2>2, <2>5, <2>6, GrowthKeeps
<1>5. scan' \in [Workers -> CallType]
  <2>1. scan' = [w \in Workers |-> scan'[w]]
    BY DEF Write, Admitted
  <2> QED BY <1>4, <2>1
<1> QED BY <1>2, <1>3, <1>4, <1>5, TypesSuffice DEF IInv

-----------------------------------------------------------------------------
LEMMA NextKeeps == IInv /\ [Next]_vars => IInv'
<1> SUFFICES ASSUME IInv, [Next]_vars PROVE IInv'
    OBVIOUS
<1>1. CASE \E v \in Writers : Registering(v) \/ \E n \in Names : Register(v, n)
  BY <1>1, QueueKeeps, WriteKeeps DEF Registering
<1>2. CASE \E w \in Workers : \E req \in SUBSET Inputs : DetectRequest(w, req)
  BY <1>2, DetectRequestKeeps
<1>3. CASE \E w \in Workers : \E i \in Inputs :
             DetectAll(w, i) \/ \E n \in Names : Detect(w, n, i)
  BY <1>3, DetectAllKeeps, DetectKeeps
<1>4. CASE \E w \in Workers : Scanning(w)
  BY <1>4, RLockKeeps, RunKeeps, RUnlockKeeps, LookUpKeeps, RunNamedKeeps, ReturnKeeps
     DEF Scanning
<1>5. CASE UNCHANGED vars
  BY <1>5 DEF vars, IInv, TypeOK
<1> QED BY <1>1, <1>2, <1>3, <1>4, <1>5 DEF Next

LEMMA Inductive == Spec => []IInv
  BY InitIInv, NextKeeps, PTL DEF Spec

\* While DetectAll scans an input, the map is the one it started with.
THEOREM EngineScansOneRegistry == Spec => []EngineInvariant
<1>1. IInv => EngineInvariant
  BY DEF IInv, EngineInvariant, ScanSeesOneRegistry, Sound, Registered, InMap
<1> QED BY <1>1, Inductive, PTL

\* No Register that races with a scan lets a recognised input slip by.
THEOREM EngineNothingSlipsBy == Spec => []NothingSlipsBy
<1>1. IInv => NothingSlipsBy
  <2> SUFFICES ASSUME IInv, NEW w \in Workers, Finished(w) PROVE Reported(scan[w], registry)
                                                               /\ Open(scan[w]) = {}
    BY DEF NothingSlipsBy, Reported, Asked
  <2> QED BY DEF IInv, Sound, Finished, Open
<1> QED BY <1>1, Inductive, PTL
=============================================================================
