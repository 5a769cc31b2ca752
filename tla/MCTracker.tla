---------------------------- MODULE MCTracker ------------------------------
(***************************************************************************)
(* Small instances of KnownNets, with addresses of 3 and 5 bits, and of    *)
(* SessionGuard.                                                           *)
(***************************************************************************)
EXTENDS Tracker, TLC

Addr(k, n) == [kind |-> k, n |-> n]

From(a) == [absent |-> FALSE, remote |-> a, xff |-> <<>>, realIP |-> NoAddress]

Through(a, xff, realIP) == [absent |-> FALSE, remote |-> a, xff |-> xff, realIP |-> realIP]

MCAddresses ==
    {Addr(k, n) : k \in {"v4", "mapped"}, n \in 0 .. 7} \cup {Addr("v6", n) : n \in 0 .. 31}
      \cup {NoAddress, Addr("raw", 1)}

\* Two neighbours, the one forwarded by a proxy that adds a text and written as
\* IPv6; an IPv6 client that claims to be forwarded; and no request at all.
MCRequests ==
    {From(Addr("v4", 2)),
     Through(Addr("v4", 6), <<Addr("raw", 1)>>, Addr("mapped", 3)),
     Through(Addr("v6", 10), <<Addr("v4", 2), Addr("v4", 6)>>, NoAddress),
     [From(NoAddress) EXCEPT !.absent = TRUE]}

\* Prefixes by default, within an address, and beyond its end.
MCSettings ==
    {[failClosed |-> TRUE, trust |-> FALSE, bits |-> 0],
     [failClosed |-> FALSE, trust |-> FALSE, bits |-> 4],
     [failClosed |-> FALSE, trust |-> TRUE, bits |-> 1]}

-----------------------------------------------------------------------------

\* Two networks; one spans two countries, and has an address of no known country.
MCNetworkOf == [i \in {"a1", "a2", "a3", "b"} |-> IF i = "b" THEN "b" ELSE "a"]

MCCountryOf == [i \in {"a1", "a2", "a3", "b"} |->
                  IF i = "a2" THEN None ELSE IF i = "a3" THEN "de" ELSE "cn"]

Client(i, u, f) == [ip |-> i, ua |-> u, fp |-> f]

\* A browser, itself elsewhere in its network, where the country is not known and
\* without its fingerprint, elsewhere in its network but in another country,
\* another device behind the same address, one on another network, and a client
\* that sends no header at all.
MCClients == {Client("a1", "ua", "fp"), Client("a2", "ua", None), Client("a3", "ua", "fp"),
              Client("a1", "ua", "fp2"), Client("b", "ua", "fp"), Client("a1", None, None)}

\* Of a Tracker's settings, Guard reads FailClosed alone; NetworkOf stands for the
\* others.
OneOfEach == kind = "guard" => tracker.bits # 1

\* The properties of this instance do not look at which tokens were revoked, nor
\* when.
ButRevoked ==
    <<kind, vars, failClosed, sess, locked, [w \in Slots |-> [check[w] EXCEPT !.late = FALSE]],
      issued, renewed, [last EXCEPT !.late = FALSE]>>

Symmetry == Permutations(Slots)
=============================================================================
