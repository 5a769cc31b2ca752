------------------------------ MODULE Detectors ------------------------------
(***************************************************************************)
(* The built-in detectors, their registration by all.RegisterAll, the scan *)
(* of one input, and what pet.MoodOf makes of the results.                 *)
(*                                                                         *)
(* A pattern detector tries its lists of patterns one after the other and  *)
(* reports the first that matches, with that list's severity.  Of the      *)
(* patterns the model keeps which list an input hits: an input is a        *)
(* function from the detectors it hits to the lists that it hits.          *)
(***************************************************************************)
EXTENDS Integers, Sequences, FiniteSetsExt, Functions

CONSTANTS Inputs,     \* the inputs that an application scans
          Others,     \* further names that it may ask for
          MaxResults  \* bound on the results an application gathers before a scan

VARIABLES engine,     \* Engine.detectors: name -> detector
          registered, \* how far RegisterAll has come
          stage,      \* what the application is at: "idle", "asking" or "scanning"
          input,      \* the input that it looks at
          todo,       \* the detectors that the scan still has to run on it
          results     \* what the application has been told

vars == <<engine, registered, stage, input, todo, results>>

Low == 0
Medium == 1
High == 2
Critical == 3

\* A detector: the name it registers under, and the severities of the checks
\* it makes, in the order in which it makes them.
SQL == [name |-> "sql_injection", checks |-> <<Critical, Medium>>]
XSS == [name |-> "xss", checks |-> <<High, Medium>>]
Command == [name |-> "command_injection", checks |-> <<Critical, Medium>>]
NoSQL == [name |-> "nosql_injection", checks |-> <<High>>]
LDAP == [name |-> "ldap_injection", checks |-> <<High>>]
XPath == [name |-> "xpath_injection", checks |-> <<High, Medium>>]
JNDI == [name |-> "jndi_injection", checks |-> <<Critical, Medium>>]
SSI == [name |-> "ssi_injection", checks |-> <<High>>]
GraphQL == [name |-> "graphql_injection", checks |-> <<Medium>>]
SSTI == [name |-> "ssti", checks |-> <<Critical, Medium>>]
SSRF == [name |-> "ssrf", checks |-> <<High>>]
XXE == [name |-> "xxe", checks |-> <<High>>]
HeaderInjection == [name |-> "header_injection", checks |-> <<High>>]
HostHeader == [name |-> "host_header", checks |-> <<Medium>>]
RequestSmuggling == [name |-> "request_smuggling", checks |-> <<Critical>>]
OpenRedirect == [name |-> "open_redirect", checks |-> <<Medium>>]
CORS == [name |-> "cors", checks |-> <<Medium>>]
WebSocket == [name |-> "websocket", checks |-> <<Medium>>]
DNSRebinding == [name |-> "dns_rebinding", checks |-> <<High>>]
CSVInjection == [name |-> "csv_injection", checks |-> <<High>>]
MailHeader == [name |-> "mail_header", checks |-> <<Critical>>]
PrototypePollution == [name |-> "prototype_pollution", checks |-> <<Critical, Medium>>]
PathTraversal == [name |-> "path_traversal", checks |-> <<High, Medium>>]
MaliciousFileUpload == [name |-> "upload", checks |-> <<High, Medium>>]
SensitiveDataLeak == [name |-> "data_leak", checks |-> <<Critical>>]

\* alg=none, a path in kid, an empty signature.
JWTAttack == [name |-> "jwt_attack", checks |-> <<Critical, Critical, Critical>>]

\* Mutant: the weak PHP signals are tried with the strong ones.
DeserializationPHPFirst ==
    [name |-> "deserialization", checks |-> <<Critical, Medium, Critical, Critical, Critical>>]

\* PHP, Python, Java and .NET, and then the weak PHP signals.
Deserialization ==
    [name |-> "deserialization", checks |-> <<Critical, Critical, Critical, Critical, Medium>>]

RegisterAll ==
    <<XSS, SQL, Command, NoSQL, LDAP, XPath, JNDI, SSI, GraphQL, SSTI,
      SSRF, XXE, HeaderInjection, HostHeader, RequestSmuggling, OpenRedirect, CORS, WebSocket,
      DNSRebinding,
      Deserialization, CSVInjection, MailHeader, JWTAttack, PrototypePollution,
      PathTraversal, MaliciousFileUpload, SensitiveDataLeak>>

-----------------------------------------------------------------------------
(***************************************************************************)
(* A scan.                                                                 *)
(***************************************************************************)

\* An input may hit any lists of any detectors.
DetectorsAssumption ==
    \A i \in Inputs :
      /\ DOMAIN i \subseteq Range(RegisterAll)
      /\ \A d \in DOMAIN i : i[d] # {} /\ i[d] \subseteq DOMAIN d.checks

Hits(d, i) == IF d \in DOMAIN i THEN i[d] ELSE {}

\* The first of the checks that i hits.
FirstMatch(d, i) == Min(Hits(d, i))

Nil == [name |-> "nil", detected |-> FALSE, severity |-> Low]

Result(d, i) ==
    IF Hits(d, i) = {} THEN [name |-> d.name, detected |-> FALSE, severity |-> Low]
      ELSE [name |-> d.name, detected |-> TRUE, severity |-> d.checks[FirstMatch(d, i)]]

Init ==
    /\ engine = <<>>
    /\ registered = 0
    /\ stage = "idle"
    /\ input = <<>>
    /\ todo = {}
    /\ results = <<>>

\* The next Register call of RegisterAll.
Register ==
    /\ registered < Len(RegisterAll)
    /\ registered' = registered + 1
    /\ LET d == RegisterAll[registered']
       IN  engine' = [n \in DOMAIN engine \cup {d.name} |-> IF n = d.name THEN d ELSE engine[n]]
    /\ UNCHANGED <<stage, input, todo, results>>

Receive(i) ==
    /\ registered = Len(RegisterAll)
    /\ stage = "idle"
    /\ stage' = "asking"
    /\ input' = i
    /\ UNCHANGED <<engine, registered, todo, results>>

\* The application adds what Engine.Detect says to its results, whatever it is.
Detect(n) ==
    /\ stage = "asking"
    /\ Len(results) < MaxResults
    /\ results' = Append(results, IF n \in DOMAIN engine THEN Result(engine[n], input) ELSE Nil)
    /\ UNCHANGED <<engine, registered, stage, input, todo>>

\* Engine.DetectAll.
DetectAll ==
    /\ stage = "asking"
    /\ stage' = "scanning"
    /\ todo' = {n \in DOMAIN engine : Hits(engine[n], input) # {}}
    /\ UNCHANGED <<engine, registered, input, results>>

\* Its loop, in the order of Go's map: what a detector found.  One that found
\* nothing adds nothing.
Run(n) ==
    /\ n \in todo
    /\ todo' = todo \ {n}
    /\ results' = Append(results, Result(engine[n], input))
    /\ UNCHANGED <<engine, registered, stage, input>>

Scanned == stage = "scanning" /\ todo = {}

\* The application is through with the input and what it was told.
Dismiss ==
    /\ Scanned
    /\ stage' = "idle"
    /\ input' = <<>>
    /\ results' = <<>>
    /\ UNCHANGED <<engine, registered, todo>>

Names == {d.name : d \in DOMAIN input} \cup Others

Next ==
    \/ Register \/ DetectAll \/ Dismiss
    \/ \E i \in Inputs : Receive(i)
    \/ \E n \in Names : Detect(n)
    \/ \E n \in todo : Run(n)

Spec == Init /\ [][Next]_vars

-----------------------------------------------------------------------------
(***************************************************************************)
(* The mascot.                                                             *)
(***************************************************************************)

Posture(r) == IF r.severity \in {High, Critical} THEN "alarmed" ELSE "watchful"

\* Mutant: the last result that counts decides.
MoodOfLast(rs) ==
    LET counted == {k \in DOMAIN rs : rs[k].detected}
    IN  IF counted = {} THEN "calm" ELSE Posture(rs[Max(counted)])

\* The loop returns at the first alarming result.
MoodOf(rs) ==
    LET counted == {k \in DOMAIN rs : rs[k].detected}
        alarming == {k \in counted : Posture(rs[k]) = "alarmed"}
    IN  IF alarming # {} THEN Posture(rs[Min(alarming)])
          ELSE IF counted # {} THEN "watchful" ELSE "calm"

-----------------------------------------------------------------------------
(***************************************************************************)
(* Properties.                                                             *)
(***************************************************************************)

Worst(d) == Max({d.checks[k] : k \in input[d]})

\* What is reported of an input is the worst that the detector knows of it,
\* however many of its lists the input hits: the weak signals of one list do
\* not cover up the strong ones of another.
WorstWins ==
    \A d \in DOMAIN input, k \in DOMAIN results :
      results[k].detected /\ results[k].name = d.name => results[k].severity = Worst(d)

\* "The most severe hit wins" and clean or missing results do not count (MoodOf):
\* after a scan, the mascot is alarmed if the input hits a list of any built-in
\* detector at High or Critical, watchful if it hits another, and calm otherwise,
\* in whatever order the scan came upon the detectors, whatever the application
\* had gathered before, and though Register replaces a detector whose name comes
\* again without a word.
MoodIsWorst ==
    Scanned => MoodOf(results) =
      IF \E d \in DOMAIN input : Worst(d) >= High THEN "alarmed"
        ELSE IF DOMAIN input # {} THEN "watchful" ELSE "calm"
=============================================================================
