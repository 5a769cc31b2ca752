--------------------------- MODULE ClientAddress ---------------------------
(***************************************************************************)
(* Where a request comes from: clientIP and network of session.Tracker.    *)
(*                                                                         *)
(* An address is its kind and a number: IPv4, IPv6, an IPv4 address        *)
(* written as IPv6, or a text that net.ParseIP refuses ("raw", of which    *)
(* number 0 is the empty text).                                            *)
(***************************************************************************)
EXTENDS Integers, Sequences

CONSTANTS V4Size, V6Size,    \* the bits of an address: 32 and 128
          v6Shift,           \* how many bits IPv6 has above SubnetBits
          defaultSubnetBits

ASSUME AddressAssumption ==
    {V4Size, V6Size, v6Shift, defaultSubnetBits} \subseteq Nat \ {0}

NoAddress == [kind |-> "raw", n |-> 0]

Parses(a) == a.kind # "raw"

\* Is it, to To4, an IPv4 address?
IsV4(a) == a.kind \in {"v4", "mapped"}

\* net.IP.String.
Canonical(a) == IF IsV4(a) THEN [a EXCEPT !.kind = "v4"] ELSE a

subnetBits(setting) == IF setting <= 0 THEN defaultSubnetBits ELSE setting

\* Mutant: IPv6 is masked like IPv4.
keptUnshifted(a, bits) ==
    LET size == IF IsV4(a) THEN V4Size ELSE V6Size IN IF bits > size THEN size ELSE bits

\* How many bits of the address count, of those that it has.
kept(a, bits) ==
    LET size == IF IsV4(a) THEN V4Size ELSE V6Size
        wanted == IF IsV4(a) THEN bits ELSE bits + v6Shift
    IN  IF wanted < 0 THEN 0 ELSE IF wanted > size THEN size ELSE wanted

\* The prefix that counts as one place; a raw address is its own.
network(a, bits) ==
    IF ~Parses(a) THEN [kind |-> "raw", n |-> a.n, bits |-> 0]
    ELSE LET size == IF IsV4(a) THEN V4Size ELSE V6Size IN
         [kind |-> Canonical(a).kind, bits |-> kept(a, bits),
          n |-> a.n - (a.n % (2 ^ (size - kept(a, bits))))]

\* Mutant: the headers are believed whoever set them.
clientIPTrusting(r, trust) ==
    IF r.xff # <<>> /\ Parses(Head(r.xff)) THEN Canonical(Head(r.xff))
    ELSE IF Parses(r.realIP) THEN Canonical(r.realIP)
    ELSE r.remote

\* Behind a trusted proxy, the first address of X-Forwarded-For and then
\* X-Real-IP, where they parse; the peer's address else, parsed or not.
clientIP(r, trust) ==
    IF r.absent THEN NoAddress
    ELSE IF trust /\ r.xff # <<>> /\ Parses(Head(r.xff)) THEN Canonical(Head(r.xff))
    ELSE IF trust /\ Parses(r.realIP) THEN Canonical(r.realIP)
    ELSE r.remote
=============================================================================
