------------------------------- MODULE Signer -------------------------------
(***************************************************************************)
(* session.Signer: Sign issues "<unix-ts>.<nonce>.<mac>", Verify checks    *)
(* freshness, then the MAC, then counts the nonce in a storage.Backend.    *)
(*                                                                         *)
(* Verify is two steps.  The checks read the clock once and share nothing  *)
(* with other calls; the nonce is counted later, so any number of other    *)
(* Verify calls, and MaxStall ticks, may pass in between.  The backend is  *)
(* the counting contract itself (WindowCounter), which storage.Memory is   *)
(* shown to implement, with an Incr that may also fail, as Redis's may.    *)
(*                                                                         *)
(* HMAC-SHA256 is taken as unforgeable and crypto/rand as never repeating. *)
(***************************************************************************)
EXTENDS Integers

CONSTANTS Nonces,         \* the nonces crypto/rand hands out, one per Sign
          NoNonce,        \* not a nonce
          Params,         \* the parameter sets that can be signed or presented
          Workers,        \* the goroutines that call Verify
          Configs,        \* the Signer configurations: [secret, nonces : BOOLEAN]
          MaxSkew,        \* Signer.MaxSkew, in ticks
          DefaultMaxSkew, \* defaultMaxSkew, in ticks
          Second,         \* ticks per second: Sign rounds its timestamp down
          ClockAhead,     \* how far a signing client's clock may be ahead
          ClockBehind,    \* ... or behind
          MaxStall,       \* bound on the time from a Verify's checks to its Incr
          MaxFaults,      \* bound on failing Incr calls
          MaxCount,       \* bound on a nonce's counter when another Verify starts
          Epoch,          \* the clock when the program starts
          MaxTime         \* bound on the clock

VARIABLES now, counter, answer, \* the clock and the nonce counters
          config,               \* Signer.Secret # nil, Signer.Nonces # nil
          signed,               \* nonce -> what was signed under it
          calls,                \* worker -> its Verify between checks and Incr
          last,                 \* the verdict of the last Verify
          passes,               \* nonce -> how many Verify calls accepted it
          faults                \* how many Incr calls failed

vars == <<now, counter, answer, config, signed, calls, last, passes, faults>>

maxSkew == IF MaxSkew <= 0 THEN DefaultMaxSkew ELSE MaxSkew

\* Mutant: a nonce is remembered for MaxSkew, not for twice that.
NonceWindowSingle == maxSkew

NonceWindow == 2 * maxSkew

Store == INSTANCE WindowCounter
           WITH Keys <- Nonces, WindowOf <- [n \in Nonces |-> NonceWindow]

\* A signature is at most this far ahead of the clock when it is accepted.
Lead == IF ClockAhead <= maxSkew THEN ClockAhead ELSE maxSkew

\* The nonce window has no slack of its own: it is long enough only when a
\* client's lead and a Verify's stall together do not exceed MaxSkew.
ASSUME SignerAssumption ==
    /\ NoNonce \notin Nonces
    /\ Configs \subseteq [secret : BOOLEAN, nonces : BOOLEAN]
    /\ MaxSkew \in Int /\ DefaultMaxSkew \in Nat \ {0}
    /\ Second \in Nat \ {0}
    /\ ClockAhead \in Nat /\ ClockBehind \in Nat /\ MaxStall \in Nat
    /\ MaxFaults \in Nat /\ MaxCount \in Nat /\ Epoch \in Nat /\ MaxTime \in Nat
    /\ ClockBehind + Second <= Epoch
    /\ Lead + MaxStall <= maxSkew

-----------------------------------------------------------------------------
(***************************************************************************)
(* Signatures.                                                             *)
(***************************************************************************)

\* canonical() sorts and escapes the parameters and mac() separates its parts
\* by newlines none of them contains, so equal MACs have equal parts.
mac(p, ts, n) == [params |-> p, ts |-> ts, nonce |-> n]

Unsigned == [params |-> "none", ts |-> 0, used |-> FALSE]

Issued == {n \in Nonces : signed[n].used}

\* A MAC computed without the secret.
Forged == [params |-> "none", ts |-> 0, nonce |-> NoNonce]

Macs == {mac(signed[n].params, signed[n].ts, n) : n \in Issued} \cup {Forged}

\* The signature strings a request may carry, as Verify parses them: not three
\* parts, a timestamp that is no number, or three parts.
Malformed == [shape |-> "malformed"]

BadTimestamp == [shape |-> "timestamp"]

Stamps == 0 .. (MaxTime + ClockAhead)

Signatures ==
    {Malformed, BadTimestamp}
      \cup [shape : {"parsed"}, ts : Stamps, nonce : Nonces, mac : Macs]

Idle == [busy |-> FALSE, params |-> "none", ts |-> 0, nonce |-> NoNonce, at |-> 0]

Init ==
    /\ now = Epoch
    /\ counter = [n \in Nonces |-> Store!NoCounter]
    /\ answer = Store!NoAnswer
    /\ config \in Configs
    /\ signed = [n \in Nonces |-> Unsigned]
    /\ calls = [w \in Workers |-> Idle]
    /\ last = [reason |-> "none"]
    /\ passes = [n \in Nonces |-> 0]
    /\ faults = 0

\* Time passes, but no Verify stalls longer than MaxStall.
Tick ==
    /\ now < MaxTime
    /\ \A w \in Workers : calls[w].busy => now < calls[w].at + MaxStall
    /\ Store!CTick
    /\ UNCHANGED <<config, signed, calls, last, passes, faults>>

\* A client whose clock reads c signs p; Sign refuses without a secret.
Sign(n, p, c) ==
    /\ config.secret
    /\ n \notin Issued
    /\ signed' = [signed EXCEPT ![n] =
                    [params |-> p, ts |-> c - (c % Second), used |-> TRUE]]
    /\ UNCHANGED <<now, counter, answer, config, calls, last, passes, faults>>

-----------------------------------------------------------------------------
(***************************************************************************)
(* Verify.                                                                 *)
(***************************************************************************)

\* Mutant: the MAC does not cover the parameters.
ChecksParamsUnbound(p, s) ==
    IF ~config.secret THEN "signer_not_configured"
    ELSE IF s.shape = "malformed" THEN "signature_malformed"
    ELSE IF s.shape = "timestamp" THEN "timestamp_invalid"
    ELSE IF now - s.ts > maxSkew THEN "signature_expired"
    ELSE IF now - s.ts < -maxSkew THEN "timestamp_in_future"
    ELSE IF s.mac.ts # s.ts \/ s.mac.nonce # s.nonce THEN "signature_mismatch"
    ELSE "ok"

\* The checks before the nonce is counted: the reason to deny, or "ok".  The
\* guards are in the order of the code; the later ones assume the earlier.
Checks(p, s) ==
    IF ~config.secret THEN "signer_not_configured"
    ELSE IF s.shape = "malformed" THEN "signature_malformed"
    ELSE IF s.shape = "timestamp" THEN "timestamp_invalid"
    ELSE IF now - s.ts > maxSkew THEN "signature_expired"
    ELSE IF now - s.ts < -maxSkew THEN "timestamp_in_future"
    ELSE IF s.mac # mac(p, s.ts, s.nonce) THEN "signature_mismatch"
    ELSE "ok"

Verdict(reason, p, ts, n) ==
    [reason |-> reason, params |-> p, ts |-> ts, nonce |-> n, at |-> now]

\* Mutant: the nonce is counted before the MAC is checked.
DenyCounting(w, p, s) ==
    /\ ~calls[w].busy
    /\ Checks(p, s) # "ok"
    /\ last' = [reason |-> Checks(p, s)]
    /\ IF Checks(p, s) = "signature_mismatch" /\ counter[s.nonce].count < MaxCount
         THEN Store!CIncr(s.nonce)
         ELSE UNCHANGED <<now, counter, answer>>
    /\ UNCHANGED <<config, signed, calls, passes, faults>>

Deny(w, p, s) ==
    /\ ~calls[w].busy
    /\ Checks(p, s) # "ok"
    /\ last' = [reason |-> Checks(p, s)]
    /\ UNCHANGED <<now, counter, answer, config, signed, calls, passes, faults>>

\* Without a nonce store the checks are all there is.
PassUncounted(w, p, s) ==
    /\ ~calls[w].busy
    /\ Checks(p, s) = "ok"
    /\ ~config.nonces
    /\ last' = Verdict("ok", p, s.ts, s.nonce)
    /\ UNCHANGED <<now, counter, answer, config, signed, calls, passes, faults>>

ReachCount(w, p, s) ==
    /\ ~calls[w].busy
    /\ Checks(p, s) = "ok"
    /\ config.nonces
    /\ counter[s.nonce].count < MaxCount
    /\ calls' = [calls EXCEPT ![w] = [busy |-> TRUE, params |-> p, ts |-> s.ts,
                                      nonce |-> s.nonce, at |-> now]]
    /\ UNCHANGED <<now, counter, answer, config, signed, last, passes, faults>>

Accept(c) ==
    /\ last' = Verdict("ok", c.params, c.ts, c.nonce)
    /\ passes' = [passes EXCEPT ![c.nonce] = @ + 1]

\* Incr answered: the nonce must be new.
Count(w) ==
    LET c == calls[w] IN
    /\ c.busy
    /\ Store!CIncr(c.nonce)
    /\ IF answer'.val > 1
         THEN /\ last' = Verdict("replay", c.params, c.ts, c.nonce)
              /\ UNCHANGED passes
         ELSE Accept(c)
    /\ calls' = [calls EXCEPT ![w] = Idle]
    /\ UNCHANGED <<config, signed, faults>>

\* Incr failed, before or after it counted: the error is ignored.
CountFails(w) ==
    LET c == calls[w] IN
    /\ c.busy
    /\ faults < MaxFaults
    /\ faults' = faults + 1
    /\ Store!CIncr(c.nonce) \/ UNCHANGED <<now, counter, answer>>
    /\ Accept(c)
    /\ calls' = [calls EXCEPT ![w] = Idle]
    /\ UNCHANGED <<config, signed>>

Clocks == (now - ClockBehind) .. (now + ClockAhead)

Next ==
    \/ Tick
    \/ \E n \in Nonces, p \in Params, c \in Clocks : Sign(n, p, c)
    \/ \E w \in Workers, p \in Params, s \in Signatures :
         Deny(w, p, s) \/ PassUncounted(w, p, s) \/ ReachCount(w, p, s)
    \/ \E w \in Workers : Count(w) \/ CountFails(w)

Spec == Init /\ [][Next]_vars

-----------------------------------------------------------------------------
(***************************************************************************)
(* Properties.                                                             *)
(***************************************************************************)

\* The type invariant.
TypeOK ==
    /\ now \in Nat
    /\ counter \in [Nonces -> [count : Nat, since : Nat]]
    /\ config \in [secret : BOOLEAN, nonces : BOOLEAN]
    /\ signed \in [Nonces -> [params : Params \cup {"none"}, ts : Nat, used : BOOLEAN]]
    /\ calls \in [Workers -> [busy : BOOLEAN, params : Params \cup {"none"}, ts : Nat,
                              nonce : Nonces \cup {NoNonce}, at : Nat]]
    /\ passes \in [Nonces -> Nat]
    /\ faults \in Nat

\* With a nonce store that answers, no signature is accepted twice: not by two
\* Verify calls that race, and not by one that passed its checks just before
\* the signature expired and counts the nonce just after its window closed.
NoReplay ==
    config.nonces /\ faults = 0 => \A n \in Nonces : passes[n] <= 1

\* What Verify accepts was signed, with these parameters, by the holder of the
\* secret, and is not older than MaxSkew and the time Verify itself took.
PassIsGenuine ==
    last.reason = "ok" =>
      /\ signed[last.nonce] = [params |-> last.params, ts |-> last.ts, used |-> TRUE]
      /\ last.at - last.ts \in (-maxSkew) .. (maxSkew + MaxStall)

\* A forgery cannot burn a nonce: a signature is denied as a replay only if it
\* was accepted before, so its owner is never shut out by someone else.
ReplayMeansUsed ==
    last.reason = "replay" => passes[last.nonce] >= 1
=============================================================================
