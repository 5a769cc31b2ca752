------------------------------- MODULE Engine -------------------------------
(***************************************************************************)
(* security.Engine: a map of detectors under a sync.RWMutex, Register, and *)
(* the scans Detect, DetectAll and DetectRequest.                          *)
(*                                                                         *)
(* DetectAll holds the read lock while it runs every detector on one       *)
(* input; DetectRequest takes and releases it once per input, so a         *)
(* Register may come between two inputs of one request; Detect runs the    *)
(* detector after it released the lock.  A request's inputs come in any    *)
(* order, as Go ranges over its headers and over the detectors.            *)
(*                                                                         *)
(* The RWMutex is the library's: a writer that waits keeps new readers     *)
(* out, and the readers it kept out come before the next writer.           *)
(***************************************************************************)
EXTENDS Naturals

CONSTANTS Workers,    \* the goroutines that scan
          Writers,    \* the goroutines that call Register
          Names,      \* the detectors' names
          NoName,
          Inputs, NoInput,
          Decode,     \* input -> its URL-decoding, NoInput if it is no other input
          Fires,      \* the <<name, input>> that are detected
          MaxVersion  \* replacements of one detector that are told apart

ASSUME EngineAssumption ==
    /\ NoName \notin Names /\ NoInput \notin Inputs
    /\ Decode \in [Inputs -> Inputs \cup {NoInput}]
    /\ Fires \subseteq Names \X Inputs
    /\ MaxVersion \in Nat \ {0}

VARIABLES registry,  \* Engine.detectors: name -> how often it was registered
          writer,    \* writer -> where it is in Register, and for which name
          scan       \* worker -> the call it is in

vars == <<registry, writer, scan>>

NoWrite == [pc |-> "idle", name |-> NoName]

\* ran: the detectors, each with its version, that the loop has run on the input;
\* results: what the call has found, and which version of the detector did;
\* due, floor: history, the inputs to report on and the registry at the start.
NoScan == [pc |-> "idle", name |-> NoName, todo |-> {}, input |-> NoInput, ran |-> {},
           seen |-> 0, results |-> {}, due |-> {}, floor |-> [n \in Names |-> 0]]

Init ==
    /\ registry = [n \in Names |-> 0]
    /\ writer = [v \in Writers |-> NoWrite]
    /\ scan = [w \in Workers |-> NoScan]

\* The detectors in the map, each with its version.
Registered == {<<n, registry[n]>> : n \in {m \in Names : registry[m] > 0}}

-----------------------------------------------------------------------------
(***************************************************************************)
(* The RWMutex and Register.                                               *)
(***************************************************************************)

WriterPending == \E v \in Writers : writer[v].pc = "pending"

Reading == {w \in Workers : scan[w].pc \in {"scan", "lookup"}}

Register(v, n) ==
    /\ writer[v].pc = "idle"
    /\ writer' = [writer EXCEPT ![v] = [pc |-> "queued", name |-> n]]
    /\ UNCHANGED <<registry, scan>>

\* Lock, its first half: one writer at a time, and no reader enters any more.
Lock(v) ==
    /\ writer[v].pc = "queued"
    /\ ~WriterPending
    /\ writer' = [writer EXCEPT ![v].pc = "pending"]
    /\ UNCHANGED <<registry, scan>>

\* The readers that Unlock lets in.
Admitted ==
    [w \in Workers |->
       CASE scan[w].pc = "wait" -> [scan[w] EXCEPT !.pc = "scan"]
         [] scan[w].pc = "wait_lookup" -> [scan[w] EXCEPT !.pc = "lookup"]
         [] OTHER -> scan[w]]

Replaced(n) == IF registry[n] < MaxVersion THEN registry[n] + 1 ELSE registry[n]

\* Mutant: the map is written while it is being scanned.
WriteUnlocked(v) ==
    /\ writer[v].pc = "pending"
    /\ registry' = [registry EXCEPT ![writer[v].name] = Replaced(writer[v].name)]
    /\ writer' = [writer EXCEPT ![v] = NoWrite]
    /\ scan' = Admitted

\* Once the readers have left: the detector is stored, and Unlock.
Write(v) ==
    /\ writer[v].pc = "pending"
    /\ Reading = {}
    /\ registry' = [registry EXCEPT ![writer[v].name] = Replaced(writer[v].name)]
    /\ writer' = [writer EXCEPT ![v] = NoWrite]
    /\ scan' = Admitted

-----------------------------------------------------------------------------
(***************************************************************************)
(* Scans.                                                                  *)
(***************************************************************************)

Begin(w, call) ==
    /\ scan[w].pc = "idle"
    /\ scan' = [scan EXCEPT ![w] = call]
    /\ UNCHANGED <<registry, writer>>

\* Mutant: what decodes to another input is scanned as it came only.
WithDecodedRaw(req) == req

\* The inputs of a request and, where they differ, their decodings.
WithDecoded(req) == req \cup ({Decode[i] : i \in req} \ {NoInput})

DetectRequest(w, req) ==
    Begin(w, [NoScan EXCEPT !.pc = "next", !.todo = WithDecoded(req), !.floor = registry,
                            !.due = {j \in Inputs : \E i \in req : j \in {i, Decode[i]}}])

DetectAll(w, i) ==
    Begin(w, [NoScan EXCEPT !.pc = "next", !.todo = {i}, !.floor = registry, !.due = {i}])

Detect(w, n, i) ==
    Begin(w, [NoScan EXCEPT !.pc = "next", !.name = n, !.todo = {i}, !.floor = registry,
                            !.due = {i}])

\* Mutant: a reader overtakes the writer that waits.
RLockOvertaking(w, i) ==
    /\ scan[w].pc = "next" /\ i \in scan[w].todo
    /\ scan' = [scan EXCEPT ![w].input = i, ![w].todo = @ \ {i},
                            ![w].pc = IF scan[w].name = NoName THEN "scan" ELSE "lookup"]
    /\ UNCHANGED <<registry, writer>>

RLock(w, i) ==
    /\ scan[w].pc = "next" /\ i \in scan[w].todo
    /\ scan' = [scan EXCEPT ![w].input = i, ![w].todo = @ \ {i},
                            ![w].pc = IF scan[w].name = NoName
                                        THEN IF WriterPending THEN "wait" ELSE "scan"
                                        ELSE IF WriterPending THEN "wait_lookup" ELSE "lookup"]
    /\ UNCHANGED <<registry, writer>>

\* What detector n, of the given version, adds to the results on input i.
Found(n, version, i) == IF <<n, i>> \in Fires THEN {<<n, version, i>>} ELSE {}

\* One detector of the loop in DetectAll.
Run(w, n) ==
    /\ scan[w].pc = "scan"
    /\ <<n, registry[n]>> \in Registered \ scan[w].ran
    /\ scan' = [scan EXCEPT ![w].ran = @ \cup {<<n, registry[n]>>},
                            ![w].results = @ \cup Found(n, registry[n], scan[w].input)]
    /\ UNCHANGED <<registry, writer>>

RUnlock(w) ==
    /\ scan[w].pc = "scan"
    /\ scan[w].ran = Registered
    /\ scan' = [scan EXCEPT ![w].pc = "next", ![w].input = NoInput, ![w].ran = {}]
    /\ UNCHANGED <<registry, writer>>

\* Detect, under the lock: the detector, or none.
LookUp(w) ==
    /\ scan[w].pc = "lookup"
    /\ scan' = [scan EXCEPT ![w].seen = registry[scan[w].name], ![w].pc = "run"]
    /\ UNCHANGED <<registry, writer>>

\* Detect, after it released the lock.
RunNamed(w) ==
    LET c == scan[w] IN
    /\ c.pc = "run"
    /\ scan' = [scan EXCEPT ![w].pc = "next",
                            ![w].results = IF c.seen > 0 THEN Found(c.name, c.seen, c.input)
                                                         ELSE {}]
    /\ UNCHANGED <<registry, writer>>

Finished(w) == scan[w].pc = "next" /\ scan[w].todo = {}

Return(w) ==
    /\ Finished(w)
    /\ scan' = [scan EXCEPT ![w] = NoScan]
    /\ UNCHANGED <<registry, writer>>

Registering(v) == Lock(v) \/ Write(v)

Scanning(w) ==
    \/ \E i \in Inputs : RLock(w, i)
    \/ \E n \in Names : Run(w, n)
    \/ RUnlock(w) \/ LookUp(w) \/ RunNamed(w) \/ Return(w)

Next ==
    \/ \E v \in Writers : Registering(v) \/ \E n \in Names : Register(v, n)
    \/ \E w \in Workers :
         \/ \E req \in SUBSET Inputs : DetectRequest(w, req)
         \/ \E i \in Inputs : DetectAll(w, i) \/ \E n \in Names : Detect(w, n, i)
         \/ Scanning(w)

Spec == Init /\ [][Next]_vars

-----------------------------------------------------------------------------
(***************************************************************************)
(* Properties.                                                             *)
(***************************************************************************)

Versions == 0 .. MaxVersion

\* The type invariant.
TypeOK ==
    /\ registry \in [Names -> Versions]
    /\ writer \in [Writers -> [pc : {"idle", "queued", "pending"}, name : Names \cup {NoName}]]
    /\ scan \in [Workers ->
         [pc : {"idle", "next", "wait", "scan", "wait_lookup", "lookup", "run"},
          name : Names \cup {NoName}, todo : SUBSET Inputs, input : Inputs \cup {NoInput},
          ran : SUBSET (Names \X Versions), seen : Versions,
          results : SUBSET (Names \X Versions \X Inputs),
          due : SUBSET Inputs, floor : [Names -> Versions]]]

\* "a concurrent Register waits instead of racing the map" (DetectAll): what one
\* input has been scanned by so far is, version for version, part of the map.
ScanSeesOneRegistry ==
    \A w \in Workers : scan[w].pc = "scan" => scan[w].ran \subseteq Registered

\* The two together: what the lock is for.
EngineInvariant == TypeOK /\ ScanSeesOneRegistry

\* "encoded payloads must not bypass detection" (DetectRequest), and neither may
\* one slip past a Register that comes between two inputs: what a detector that
\* was registered when the call began detects, in an input or, for a request, in
\* its decoding, is reported by that detector or by a later one of its name.
NothingSlipsBy ==
    \A w \in Workers : Finished(w) =>
      \A n \in (IF scan[w].name = NoName THEN Names ELSE {scan[w].name}) :
        \A i \in scan[w].due :
          scan[w].floor[n] > 0 /\ <<n, i>> \in Fires =>
            \E v \in scan[w].floor[n] .. registry[n] : <<n, v, i>> \in scan[w].results

-----------------------------------------------------------------------------
(***************************************************************************)
(* Liveness.  A goroutine inside a call runs on, and detectors return:     *)
(* weak fairness.  The mutex among writers is fair, as sync.Mutex hands    *)
(* itself over to a waiter that starves: strong fairness of Lock.          *)
(***************************************************************************)

FairSpec ==
    /\ Spec
    /\ \A v \in Writers : SF_vars(Lock(v)) /\ WF_vars(Write(v))
    /\ \A w \in Workers : WF_vars(Scanning(w))

\* Neither side starves the other: a Register completes though scans keep
\* coming, and a scan completes though Registers keep coming.
EveryCallReturns ==
    /\ \A v \in Writers : (writer[v].pc # "idle") ~> (writer[v].pc = "idle")
    /\ \A w \in Workers : (scan[w].pc # "idle") ~> (scan[w].pc = "idle")
=============================================================================
