---------------------------- MODULE SignerProofs ----------------------------
(***************************************************************************)
(* Verify accepts only genuine signatures and, with a nonce store that     *)
(* answers, accepts each once: for any number of nonces, workers and       *)
(* parameter sets, any MaxSkew, and any clock skew and stall within        *)
(* SignerAssumption.                                                       *)
(***************************************************************************)
EXTENDS Signer, TLAPS

\* A call between its checks and its Incr carries an issued signature that was
\* fresh when it was checked, and has not stalled beyond MaxStall since.
Genuine(c) ==
    /\ c.nonce \in Nonces
    /\ signed[c.nonce].used
    /\ signed[c.nonce].params = c.params
    /\ signed[c.nonce].ts = c.ts

InFlight ==
    \A w \in Workers : calls[w].busy =>
      /\ Genuine(calls[w])
      /\ calls[w].at - calls[w].ts \in (-maxSkew) .. maxSkew
      /\ now - calls[w].at \in 0 .. MaxStall

\* No client's clock was further ahead than ClockAhead when it signed.
NotTooEarly == \A n \in Nonces : signed[n].used => now >= signed[n].ts - ClockAhead

\* While the store has not failed, an accepted nonce either still counts, in a
\* window that outlives the signature, or is so old that no call carries it.
StillCounts ==
    (config.nonces /\ faults = 0) =>
      \A n \in Nonces : passes[n] >= 1 =>
        \/ counter[n].count >= 1 /\ counter[n].since >= signed[n].ts - Lead
        \/ now > signed[n].ts + maxSkew + MaxStall

\* A counted nonce was accepted.
CountedMeansUsed == \A n \in Nonces : counter[n].count >= 1 => passes[n] >= 1

UsedMeansSigned == \A n \in Nonces : passes[n] >= 1 => signed[n].used

Started == now >= Epoch /\ (last.reason \in {"ok", "replay"} => last.nonce \in Nonces)

IInv ==
    /\ TypeOK /\ Started /\ InFlight /\ NotTooEarly /\ StillCounts /\ CountedMeansUsed
    /\ UsedMeansSigned /\ NoReplay /\ PassIsGenuine /\ ReplayMeansUsed

LEMMA SkewType ==
    /\ maxSkew \in Nat \ {0} /\ NonceWindow = 2 * maxSkew
    /\ Lead \in Nat /\ Lead <= ClockAhead /\ Lead <= maxSkew
    /\ Lead = ClockAhead \/ Lead = maxSkew
    /\ Lead + MaxStall <= maxSkew
  BY SignerAssumption DEF maxSkew, NonceWindow, Lead

\* Sign's rounding to the second never goes forward and never below zero.
LEMMA RoundDown ==
    ASSUME NEW c \in Int, c >= Second
    PROVE  c - (c % Second) \in Nat /\ c - (c % Second) <= c
<1>1. c % Second \in 0 .. (Second - 1)
  BY SignerAssumption
<1> QED BY <1>1, SignerAssumption

LEMMA InitIInv == Init => IInv
<1> SUFFICES ASSUME Init PROVE IInv
    OBVIOUS
<1>1. TypeOK
  BY SignerAssumption DEF Init, TypeOK, Store!NoCounter, Unsigned, Idle
<1>2. \A n \in Nonces : passes[n] = 0 /\ counter[n].count = 0 /\ signed[n].used = FALSE
  BY DEF Init, Store!NoCounter, Unsigned
<1>3. \A w \in Workers : calls[w].busy = FALSE
  BY DEF Init, Idle
<1>4. last.reason = "none" /\ now = Epoch
  BY DEF Init
<1>5. Started
  BY <1>4, SignerAssumption DEF Started
<1>6. NoReplay /\ PassIsGenuine /\ ReplayMeansUsed
  BY <1>2, <1>4 DEF NoReplay, PassIsGenuine, ReplayMeansUsed
<1>7. InFlight /\ NotTooEarly /\ StillCounts /\ CountedMeansUsed /\ UsedMeansSigned
  BY <1>2, <1>3 DEF InFlight, NotTooEarly, StillCounts, CountedMeansUsed, UsedMeansSigned
<1> QED BY <1>1, <1>5, <1>6, <1>7 DEF IInv

-----------------------------------------------------------------------------
(***************************************************************************)
(* One lemma per action.                                                   *)
(***************************************************************************)

LEMMA TickIInv == IInv /\ Tick => IInv'
<1> SUFFICES ASSUME IInv, Tick PROVE IInv'
    OBVIOUS
<1> USE SkewType, SignerAssumption
<1>0. /\ now' = now + 1
      /\ UNCHANGED <<answer, config, signed, calls, last, passes, faults>>
  BY DEF Tick, Store!CTick
<1>1. \A n \in Nonces : counter'[n] = IF now + 1 - counter[n].since > 2 * maxSkew
                                        THEN [count |-> 0, since |-> 0]
                                        ELSE counter[n]
  BY DEF Tick, Store!CTick, Store!NoCounter
<1>2. TypeOK'
  <2>1. counter' = [n \in Nonces |-> counter'[n]]
    BY DEF Tick, Store!CTick
  <2>2. counter' \in [Nonces -> [count : Nat, since : Nat]]
    BY <1>1, <2>1 DEF IInv, TypeOK
  <2> QED BY <1>0, <2>2 DEF IInv, TypeOK
<1>3. Started' /\ NotTooEarly'
  BY <1>0 DEF IInv, TypeOK, Started, NotTooEarly
<1>4. InFlight'
  BY <1>0 DEF IInv, TypeOK, InFlight, Genuine, Tick
<1>5. StillCounts'
  BY <1>0, <1>1 DEF IInv, TypeOK, StillCounts
<1>6. CountedMeansUsed' /\ UsedMeansSigned'
  BY <1>0, <1>1 DEF IInv, TypeOK, CountedMeansUsed, UsedMeansSigned
<1>7. NoReplay' /\ PassIsGenuine' /\ ReplayMeansUsed'
  BY <1>0 DEF IInv, NoReplay, PassIsGenuine, ReplayMeansUsed
<1> QED BY <1>2, <1>3, <1>4, <1>5, <1>6, <1>7 DEF IInv

LEMMA SignIInv ==
    ASSUME IInv, NEW n \in Nonces, NEW p \in Params, NEW c \in Clocks, Sign(n, p, c)
    PROVE  IInv'
<1> USE SkewType, SignerAssumption
<1> DEFINE ts == c - (c % Second)
<1>0. c \in Int /\ c >= Second /\ c <= now + ClockAhead
  BY DEF Clocks, IInv, Started, TypeOK
<1>1. ts \in Nat /\ ts <= now + ClockAhead
  BY <1>0, RoundDown DEF IInv, TypeOK
<1>2. /\ signed' = [signed EXCEPT ![n] = [params |-> p, ts |-> ts, used |-> TRUE]]
      /\ UNCHANGED <<now, counter, answer, config, calls, last, passes, faults>>
  BY DEF Sign
<1> HIDE DEF ts
<1>3. ~signed[n].used
  BY DEF Sign, Issued
<1>4. TypeOK' /\ Started' /\ NotTooEarly'
  <2>1. TypeOK'
    BY <1>1, <1>2 DEF IInv, TypeOK
  <2>2. Started'
    BY <1>2 DEF IInv, Started
  <2>3. NotTooEarly'
    BY <1>1, <1>2 DEF IInv, TypeOK, NotTooEarly
  <2> QED BY <2>1, <2>2, <2>3
<1>5. \A w \in Workers : calls[w].busy => calls[w].nonce # n
  BY <1>3 DEF IInv, InFlight, Genuine
<1>6. InFlight'
  <2>1. \A w \in Workers : calls[w].busy => Genuine(calls[w])'
    BY <1>2, <1>5 DEF IInv, InFlight, TypeOK, Genuine
  <2> QED BY <1>2, <2>1 DEF IInv, InFlight
<1>7. passes[n] = 0
  BY <1>3 DEF IInv, TypeOK, UsedMeansSigned
<1>8. \A m \in Nonces : passes[m] >= 1 => signed'[m] = signed[m]
  BY <1>2, <1>7 DEF IInv, TypeOK
<1>9. StillCounts'
  BY <1>2, <1>8 DEF IInv, StillCounts
<1>10. CountedMeansUsed' /\ UsedMeansSigned' /\ NoReplay' /\ ReplayMeansUsed'
  BY <1>2, <1>8 DEF IInv, CountedMeansUsed, UsedMeansSigned, NoReplay, ReplayMeansUsed
<1>11. PassIsGenuine'
  <2>1. last.reason = "ok" => last.nonce # n
    BY <1>3 DEF IInv, PassIsGenuine
  <2>2. last.reason = "ok" => signed'[last.nonce] = signed[last.nonce]
    BY <1>2, <2>1 DEF IInv, Started, TypeOK
  <2> QED BY <1>2, <2>2 DEF IInv, PassIsGenuine
<1> QED BY <1>4, <1>6, <1>9, <1>10, <1>11 DEF IInv

\* A signature that passes the checks is one that Sign issued, and fresh.
LEMMA ChecksSound ==
    ASSUME IInv, NEW p \in Params, NEW s \in Signatures, Checks(p, s) = "ok"
    PROVE  /\ s.nonce \in Nonces /\ s.ts \in Nat
           /\ signed[s.nonce] = [params |-> p, ts |-> s.ts, used |-> TRUE]
           /\ now - s.ts \in (-maxSkew) .. maxSkew
<1> USE SkewType, SignerAssumption
<1>1. s \in [shape : {"parsed"}, ts : Stamps, nonce : Nonces, mac : Macs]
  BY DEF Signatures, Malformed, BadTimestamp, Checks
<1>2. s.ts \in Nat /\ s.nonce \in Nonces /\ s.mac \in Macs
  BY <1>1 DEF Stamps
<1>3. s.mac = [params |-> p, ts |-> s.ts, nonce |-> s.nonce]
  BY DEF Checks, mac
<1>4. now - s.ts <= maxSkew /\ now - s.ts >= -maxSkew
  BY <1>2 DEF Checks, IInv, TypeOK
<1>5. s.mac # Forged
  BY <1>2, <1>3 DEF Forged
<1>6. PICK n \in Issued : s.mac = [params |-> signed[n].params, ts |-> signed[n].ts, nonce |-> n]
  BY <1>2, <1>5 DEF Macs, mac
<1>7. n = s.nonce /\ signed[n].params = p /\ signed[n].ts = s.ts
  BY <1>3, <1>6
<1>8. signed[s.nonce] = [params |-> p, ts |-> s.ts, used |-> TRUE]
  BY <1>7, <1>6 DEF Issued, IInv, TypeOK
<1> QED BY <1>2, <1>4, <1>8 DEF IInv, TypeOK

LEMMA CheckedIInv ==
    ASSUME IInv, NEW w \in Workers, NEW p \in Params, NEW s \in Signatures,
           Deny(w, p, s) \/ PassUncounted(w, p, s) \/ ReachCount(w, p, s)
    PROVE  IInv'
<1> USE SkewType, SignerAssumption
<1>1. CASE Deny(w, p, s)
  <2>1. last'.reason \notin {"ok", "replay"}
    BY <1>1 DEF Deny, Checks
  <2> QED BY <1>1, <2>1 DEF Deny, IInv, TypeOK, Started, InFlight, Genuine, NotTooEarly, StillCounts,
             CountedMeansUsed, UsedMeansSigned, NoReplay, PassIsGenuine, ReplayMeansUsed
<1>2. CASE PassUncounted(w, p, s)
  <2>1. last' = [reason |-> "ok", params |-> p, ts |-> s.ts, nonce |-> s.nonce, at |-> now]
    BY <1>2 DEF PassUncounted, Verdict
  <2>2. PassIsGenuine' /\ Started' /\ ReplayMeansUsed'
    BY <1>2, <2>1, ChecksSound DEF PassUncounted, PassIsGenuine, Started, ReplayMeansUsed,
       IInv, TypeOK
  <2> QED BY <1>2, <2>2 DEF PassUncounted, IInv, TypeOK, InFlight, Genuine, NotTooEarly, StillCounts,
             CountedMeansUsed, UsedMeansSigned, NoReplay
<1>3. CASE ReachCount(w, p, s)
  <2>1. /\ calls' = [calls EXCEPT ![w] = [busy |-> TRUE, params |-> p, ts |-> s.ts,
                                          nonce |-> s.nonce, at |-> now]]
        /\ UNCHANGED <<now, counter, answer, config, signed, last, passes, faults>>
    BY <1>3 DEF ReachCount
  <2>2. /\ s.nonce \in Nonces /\ s.ts \in Nat
        /\ signed[s.nonce] = [params |-> p, ts |-> s.ts, used |-> TRUE]
        /\ now - s.ts \in (-maxSkew) .. maxSkew
    BY <1>3, ChecksSound DEF ReachCount
  <2>3. TypeOK'
    BY <2>1, <2>2 DEF IInv, TypeOK
  <2>4. InFlight'
    <3>1. signed[s.nonce].used /\ signed[s.nonce].params = p /\ signed[s.nonce].ts = s.ts
      BY <2>2
    <3>2. Genuine(calls[w])'
      BY <2>1, <2>2, <3>1 DEF Genuine, IInv, TypeOK
    <3>3. /\ calls'[w].at - calls'[w].ts \in (-maxSkew) .. maxSkew
          /\ now' - calls'[w].at \in 0 .. MaxStall
      BY <2>1, <2>2 DEF IInv, TypeOK
    <3>4. \A v \in Workers \ {w} : calls'[v] = calls[v]
      BY <2>1 DEF IInv, TypeOK
    <3> QED BY <2>1, <3>2, <3>3, <3>4 DEF IInv, InFlight, Genuine
  <2> QED BY <2>1, <2>3, <2>4 DEF IInv, Started, NotTooEarly, StillCounts,
             CountedMeansUsed, UsedMeansSigned, NoReplay, PassIsGenuine, ReplayMeansUsed
<1> QED BY <1>1, <1>2, <1>3

\* The heart of the argument: while the store has not failed, a call in flight
\* finds the counter of a nonce that was accepted before.
LEMMA ReplayIsSeen ==
    ASSUME IInv, NEW w \in Workers, calls[w].busy, config.nonces, faults = 0,
           passes[calls[w].nonce] >= 1
    PROVE  counter[calls[w].nonce].count >= 1
<1> USE SkewType, SignerAssumption
<1> DEFINE n == calls[w].nonce
<1>1. n \in Nonces /\ signed[n].ts = calls[w].ts /\ calls[w].ts \in Nat /\ calls[w].at \in Nat
  BY DEF IInv, InFlight, TypeOK, Genuine
<1>2. now <= signed[n].ts + maxSkew + MaxStall
  BY <1>1 DEF IInv, InFlight, TypeOK
<1>3. ~(now > signed[n].ts + maxSkew + MaxStall)
  BY <1>1, <1>2 DEF IInv, TypeOK
<1> QED BY <1>1, <1>3 DEF IInv, StillCounts

\* What holds of a call that leaves flight, and of the calls that stay.
LEMMA Leaves ==
    ASSUME IInv, NEW w \in Workers, calls[w].busy,
           calls' = [calls EXCEPT ![w] = Idle], UNCHANGED <<now, config, signed>>,
           counter' \in [Nonces -> [count : Nat, since : Nat]],
           passes' \in [Nonces -> Nat], faults' \in Nat
    PROVE  TypeOK' /\ InFlight' /\ NotTooEarly'
<1> USE SkewType, SignerAssumption
<1>1. TypeOK'
  BY DEF IInv, TypeOK, Idle
<1>2. InFlight'
  <2>1. ~calls'[w].busy
    BY DEF IInv, TypeOK, Idle
  <2>2. \A v \in Workers \ {w} : calls'[v] = calls[v]
    BY DEF IInv, TypeOK
  <2> QED BY <2>1, <2>2 DEF IInv, InFlight, Genuine
<1>3. NotTooEarly'
  BY DEF IInv, NotTooEarly
<1> QED BY <1>1, <1>2, <1>3

\* An accepted call was signed, is fresh, and leads the clock by at most Lead.
LEMMA AcceptSound ==
    ASSUME IInv, NEW w \in Workers, calls[w].busy, Accept(calls[w]),
           UNCHANGED <<now, config, signed>>
    PROVE  /\ Started' /\ PassIsGenuine' /\ ReplayMeansUsed'
           /\ now >= signed[calls[w].nonce].ts - Lead
           /\ signed[calls[w].nonce].used
<1> USE SkewType, SignerAssumption
<1> DEFINE c == calls[w]
<1>1. /\ c.nonce \in Nonces /\ c.ts \in Nat /\ c.at \in Nat
      /\ signed[c.nonce].used /\ signed[c.nonce].params = c.params
      /\ signed[c.nonce].ts = c.ts
  BY DEF IInv, InFlight, Genuine, TypeOK
<1>2. /\ c.at - c.ts \in (-maxSkew) .. maxSkew
      /\ now - c.at \in 0 .. MaxStall
  BY DEF IInv, InFlight
<1>3. last' = [reason |-> "ok", params |-> c.params, ts |-> c.ts, nonce |-> c.nonce, at |-> now]
  BY DEF Accept, Verdict
<1> HIDE DEF c
<1>4. now - c.ts \in (-maxSkew) .. (maxSkew + MaxStall)
  BY <1>1, <1>2 DEF IInv, TypeOK
<1>5. signed[c.nonce] = [params |-> c.params, ts |-> c.ts, used |-> TRUE]
  BY <1>1 DEF IInv, TypeOK
<1>6. Started' /\ PassIsGenuine' /\ ReplayMeansUsed'
  BY <1>1, <1>3, <1>4, <1>5 DEF IInv, Started, PassIsGenuine, ReplayMeansUsed
<1>7. now >= c.ts - Lead
  BY <1>1, <1>4 DEF IInv, TypeOK, NotTooEarly
<1> QED BY <1>1, <1>6, <1>7 DEF c

LEMMA CountIInv == ASSUME IInv, NEW w \in Workers, Count(w) PROVE IInv'
<1> USE SkewType, SignerAssumption
<1> DEFINE n == calls[w].nonce
<1>0. calls[w].busy /\ n \in Nonces
  BY DEF Count, IInv, InFlight, Genuine
<1>1. /\ calls' = [calls EXCEPT ![w] = Idle]
      /\ UNCHANGED <<now, config, signed, faults>>
  BY DEF Count, Store!CIncr
<1>2. /\ counter' = [counter EXCEPT ![n] =
                       IF counter[n].count = 0
                         THEN [count |-> 1, since |-> now]
                         ELSE [count |-> counter[n].count + 1, since |-> counter[n].since]]
      /\ answer'.val = counter'[n].count
  BY DEF Count, Store!CIncr
<1>3. counter' \in [Nonces -> [count : Nat, since : Nat]]
  BY <1>0, <1>2 DEF IInv, TypeOK
<1>4. CASE answer'.val > 1
  <2>1. /\ last' = [reason |-> "replay", params |-> calls[w].params, ts |-> calls[w].ts,
                     nonce |-> n, at |-> now]
        /\ UNCHANGED passes
    BY <1>4 DEF Count, Verdict
  <2>2. counter[n].count >= 1
    BY <1>0, <1>2, <1>4 DEF IInv, TypeOK
  <2>3. TypeOK' /\ InFlight' /\ NotTooEarly'
    BY <1>0, <1>1, <1>3, <2>1, Leaves DEF IInv, TypeOK
  <2>4. Started' /\ PassIsGenuine' /\ ReplayMeansUsed'
    BY <1>0, <1>1, <2>1, <2>2 DEF IInv, Started, PassIsGenuine, ReplayMeansUsed, CountedMeansUsed
  <2>5. \A m \in Nonces : /\ counter'[m].count >= 1 <=> counter[m].count >= 1
                          /\ counter'[m].since = counter[m].since
    BY <1>0, <1>2, <2>2 DEF IInv, TypeOK
  <2>6. StillCounts' /\ CountedMeansUsed' /\ UsedMeansSigned' /\ NoReplay'
    BY <1>1, <2>1, <2>5 DEF IInv, StillCounts, CountedMeansUsed, UsedMeansSigned, NoReplay
  <2> QED BY <2>3, <2>4, <2>6 DEF IInv
<1>5. CASE ~(answer'.val > 1)
  <2>1. Accept(calls[w])
    BY <1>5 DEF Count
  <2>2. passes' = [passes EXCEPT ![n] = @ + 1]
    BY <2>1 DEF Accept
  <2>3. counter[n].count = 0 /\ counter'[n] = [count |-> 1, since |-> now]
    BY <1>0, <1>2, <1>5 DEF IInv, TypeOK
  <2>4. \A m \in Nonces \ {n} : counter'[m] = counter[m] /\ passes'[m] = passes[m]
    BY <1>2, <2>2 DEF IInv, TypeOK
  <2>5. TypeOK' /\ InFlight' /\ NotTooEarly'
    <3>1. passes' \in [Nonces -> Nat] /\ faults' \in Nat
      BY <1>0, <1>1, <2>2 DEF IInv, TypeOK
    <3> QED BY <1>0, <1>1, <1>3, <3>1, Leaves
  <2>6. /\ Started' /\ PassIsGenuine' /\ ReplayMeansUsed'
        /\ now >= signed[n].ts - Lead /\ signed[n].used
    BY <1>0, <1>1, <2>1, AcceptSound
  <2>7. passes'[n] = passes[n] + 1
    BY <1>0, <2>2 DEF IInv, TypeOK
  <2>8. NoReplay'
    <3>1. (config.nonces /\ faults = 0) => passes[n] = 0
      BY <1>0, <2>3, ReplayIsSeen DEF IInv, TypeOK
    <3>2. (config.nonces /\ faults = 0) => passes'[n] <= 1
      BY <2>7, <3>1
    <3> QED BY <1>1, <2>4, <3>2 DEF IInv, NoReplay
  <2>9. StillCounts'
    BY <1>1, <2>3, <2>4, <2>6 DEF IInv, StillCounts
  <2>10. CountedMeansUsed' /\ UsedMeansSigned'
    <3>1. passes'[n] >= 1
      BY <1>0, <2>7 DEF IInv, TypeOK
    <3> QED BY <1>1, <2>4, <2>6, <3>1 DEF IInv, CountedMeansUsed, UsedMeansSigned
  <2> QED BY <2>5, <2>6, <2>8, <2>9, <2>10 DEF IInv
<1> QED BY <1>4, <1>5

LEMMA CountFailsIInv == ASSUME IInv, NEW w \in Workers, CountFails(w) PROVE IInv'
<1> USE SkewType, SignerAssumption
<1> DEFINE n == calls[w].nonce
<1>0. calls[w].busy /\ n \in Nonces
  BY DEF CountFails, IInv, InFlight, Genuine
<1>1. /\ calls' = [calls EXCEPT ![w] = Idle]
      /\ UNCHANGED <<now, config, signed>>
      /\ faults' = faults + 1
      /\ Accept(calls[w])
  BY DEF CountFails, Store!CIncr
<1>2. passes' = [passes EXCEPT ![n] = @ + 1]
  BY <1>1 DEF Accept
<1>3. /\ counter' \in [Nonces -> [count : Nat, since : Nat]]
      /\ \A m \in Nonces \ {n} : counter'[m] = counter[m]
  <2>1. CASE UNCHANGED counter
    BY <2>1 DEF IInv, TypeOK
  <2>2. CASE Store!CIncr(n)
    BY <2>2, <1>0 DEF Store!CIncr, IInv, TypeOK
  <2> QED BY <2>1, <2>2 DEF CountFails
<1>4. TypeOK' /\ InFlight' /\ NotTooEarly'
  <2>1. passes' \in [Nonces -> Nat] /\ faults' \in Nat
    BY <1>0, <1>1, <1>2 DEF IInv, TypeOK
  <2> QED BY <1>0, <1>1, <1>3, <2>1, Leaves
<1>5. /\ Started' /\ PassIsGenuine' /\ ReplayMeansUsed'
      /\ signed[n].used
  BY <1>0, <1>1, AcceptSound
<1>6. passes'[n] >= 1 /\ \A m \in Nonces \ {n} : passes'[m] = passes[m]
  BY <1>0, <1>2 DEF IInv, TypeOK
<1>7. faults' # 0
  BY <1>1 DEF IInv, TypeOK
<1>8. StillCounts' /\ NoReplay'
  BY <1>7 DEF StillCounts, NoReplay
<1>9. CountedMeansUsed' /\ UsedMeansSigned'
  BY <1>1, <1>3, <1>5, <1>6 DEF IInv, CountedMeansUsed, UsedMeansSigned
<1> QED BY <1>4, <1>5, <1>8, <1>9 DEF IInv

LEMMA NextIInv == IInv /\ [Next]_vars => IInv'
<1> SUFFICES ASSUME IInv, [Next]_vars PROVE IInv'
    OBVIOUS
<1>1. CASE UNCHANGED vars
  BY <1>1 DEF vars, IInv, TypeOK, Started, InFlight, Genuine, NotTooEarly, StillCounts,
     CountedMeansUsed, UsedMeansSigned, NoReplay, PassIsGenuine, ReplayMeansUsed
<1> QED BY <1>1, TickIInv, SignIInv, CheckedIInv, CountIInv, CountFailsIInv DEF Next

-----------------------------------------------------------------------------

LEMMA SignerInductive == Spec => []IInv
  BY InitIInv, NextIInv, PTL DEF Spec

\* No signature is accepted twice by Verify while its nonce store answers,
\* however many calls race and wherever the clock stands between a call's
\* freshness check and its Incr.
THEOREM SignerNoReplay == Spec => []NoReplay
<1>1. IInv => NoReplay
  BY DEF IInv
<1> QED BY <1>1, SignerInductive, PTL

\* Verify accepts only what Sign issued for those parameters, still fresh.
THEOREM SignerPassIsGenuine == Spec => []PassIsGenuine
<1>1. IInv => PassIsGenuine
  BY DEF IInv
<1> QED BY <1>1, SignerInductive, PTL

\* A forged signature never consumes a genuine one's nonce, even when the
\* store fails.
THEOREM SignerReplayMeansUsed == Spec => []ReplayMeansUsed
<1>1. IInv => ReplayMeansUsed
  BY DEF IInv
<1> QED BY <1>1, SignerInductive, PTL

\* The type invariant of the signer.
THEOREM SignerTypeOK == Spec => []TypeOK
<1>1. IInv => TypeOK
  BY DEF IInv
<1> QED BY <1>1, SignerInductive, PTL
=============================================================================
