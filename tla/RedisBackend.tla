---------------------------- MODULE RedisBackend ----------------------------
(***************************************************************************)
(* storage/redis.Backend: one command, or one script, sent to a Redis      *)
(* server for each call.                                                   *)
(*                                                                         *)
(* The server executes a script without interruption, so increment and     *)
(* expiry are one step of it.  What the caller sees lies before and after: *)
(* the connection may break while the command is under way, when it may    *)
(* still be executed later or never, or while the reply is, when it has    *)
(* been executed already.  The client library then sends the command       *)
(* again, a few times, and reports an error at last.                       *)
(***************************************************************************)
EXTENDS Integers, FiniteSets

CONSTANTS Callers,     \* the goroutines that call the backend
          Keys,        \* the keys in use
          AskedWindow, \* key -> the window its callers pass to Incr, in parts of
          PerMilli,    \* which there are so many in a millisecond, the clock's tick
          Durations,   \* the durations passed to Block, in milliseconds
          Epoch,       \* the clock at the start
          MaxRetries,  \* how often the library sends a command again
          MaxTime,     \* bound on the clock
          MaxCount,    \* bound on a counter
          MaxFaults    \* bound on broken connections

\* Callers ask for windows of seconds or more, and for bans that end: one of 0
\* would never expire.
RedisAssumption ==
    /\ IsFiniteSet(Callers)
    /\ PerMilli \in Nat \ {0} /\ AskedWindow \in [Keys -> Int]
    /\ \A k \in Keys : AskedWindow[k] >= PerMilli
    /\ Durations \subseteq Nat \ {0} /\ Epoch \in Nat \ {0}
    /\ {MaxRetries, MaxTime, MaxCount, MaxFaults} \subseteq Nat

VARIABLES now,
          counter,  \* the server's <key>: its number and its last instant
          blocked,  \* the server's blocked:<key>: its last instant, 0 for no key
          closed,   \* the client is closed
          caller,   \* caller -> the call it is in
          stray,    \* the commands the server may still receive
          faults,   \* how many connections broke
          answer,   \* what the last Incr or Get to be executed replied
          verdict,  \* what the last IsBlocked to be executed replied
          acked,    \* history: key -> the Incr calls that returned, in its window
          banned    \* history: key -> the ban that nothing on its way may cut short

vars == <<now, counter, blocked, closed, caller, stray, faults, answer, verdict, acked, banned>>

NoKey == [count |-> 0, exp |-> 0]

Command == [op : {"incr", "get", "isBlocked"}, key : Keys, dur : {0}]
             \cup [op : {"block"}, key : Keys, dur : Durations]

NoCommand == [op |-> "none"]

\* exp: history, the last instant of the window that the call is counted in.
Idle == [pc |-> "idle", cmd |-> NoCommand, sent |-> 0, exp |-> 0]

NoResult == [op |-> "none"]

Init ==
    /\ now = Epoch
    /\ counter = [k \in Keys |-> NoKey]
    /\ blocked = [k \in Keys |-> 0]
    /\ closed = FALSE
    /\ caller = [c \in Callers |-> Idle]
    /\ stray = {}
    /\ faults = 0
    /\ answer = NoResult
    /\ verdict = NoResult
    /\ acked = [k \in Keys |-> 0]
    /\ banned = [k \in Keys |-> 0]

\* Time passes, and the server drops the keys that have expired.
Tick ==
    /\ now < MaxTime
    /\ now' = now + 1
    /\ counter' = [k \in Keys |-> IF now + 1 > counter[k].exp THEN NoKey ELSE counter[k]]
    /\ blocked' = [k \in Keys |-> IF now + 1 > blocked[k] THEN 0 ELSE blocked[k]]
    /\ acked' = [k \in Keys |-> IF now + 1 > counter[k].exp THEN 0 ELSE acked[k]]
    /\ UNCHANGED <<closed, caller, stray, faults, answer, verdict, banned>>

-----------------------------------------------------------------------------
(***************************************************************************)
(* The server.                                                             *)
(***************************************************************************)

\* Mutant: what is no whole second is dropped.
MillisecondsOfSeconds(w) == IF w < 0 THEN 0 ELSE (w \div (1000 * PerMilli)) * 1000

\* Duration.Milliseconds drops what is no whole millisecond; none is negative.
Milliseconds(w) == IF w < 0 THEN 0 ELSE w \div PerMilli

Expiry(k) == now + Milliseconds(AskedWindow[k])

\* Mutant: the expiry is set on every increment.
IncrementedSliding(k) == [count |-> counter[k].count + 1, exp |-> Expiry(k)]

\* incrWindowScript: the expiry is set by the first increment only, and PEXPIRE
\* drops the key at once if there is no time left.
Incremented(k) ==
    IF counter[k].count > 0 THEN [counter[k] EXCEPT !.count = @ + 1]
    ELSE IF Expiry(k) = now THEN NoKey
    ELSE [count |-> 1, exp |-> Expiry(k)]

\* Mutant: the time that is left is kept, not the instant it ends.
BannedLeft(k, d) == d - now

\* Mutant: the key of a ban is left alone while it is there.
BannedOnce(k, d) == IF blocked[k] = 0 THEN now + d ELSE blocked[k]

\* SET blocked:<key> with its expiry, whether or not the key is there.
Banned(k, d) == now + d

\* History: the commands that the server may still receive, or receive again.
OnTheWay == stray \cup {caller[c].cmd : c \in {b \in Callers : caller[b].pc # "idle"}}

\* History: the durations of the bans of k among them.
Coming(k) == {cmd.dur : cmd \in {b \in OnTheWay : b.op = "block" /\ b.key = k}}

\* EXISTS blocked:<key>.
Exists(k) == blocked[k] # 0

ExecIncr(k) ==
    /\ counter' = [counter EXCEPT ![k] = Incremented(k)]
    /\ answer' = [op |-> "incr", key |-> k, val |-> counter[k].count + 1]
    /\ UNCHANGED <<blocked, verdict, banned>>

\* A key that is not there (redis.Nil) reads as 0.
ExecGet(k) ==
    /\ answer' = [op |-> "get", key |-> k, val |-> counter[k].count]
    /\ UNCHANGED <<counter, blocked, verdict, banned>>

ExecBlock(k, d) ==
    /\ blocked' = [blocked EXCEPT ![k] = Banned(k, d)]
    /\ banned' = IF now + d > banned[k] /\ \A e \in Coming(k) : d <= e
                   THEN [banned EXCEPT ![k] = now + d] ELSE banned
    /\ UNCHANGED <<counter, answer, verdict>>

ExecIsBlocked(k) ==
    /\ verdict' = [op |-> "isBlocked", key |-> k, val |-> Exists(k)]
    /\ UNCHANGED <<counter, blocked, answer, banned>>

Execute(cmd) ==
    \/ cmd.op = "incr" /\ ExecIncr(cmd.key)
    \/ cmd.op = "get" /\ ExecGet(cmd.key)
    \/ cmd.op = "block" /\ ExecBlock(cmd.key, cmd.dur)
    \/ cmd.op = "isBlocked" /\ ExecIsBlocked(cmd.key)

\* A command that its caller has given up, or sent again, is executed after all.
ExecStray(cmd) ==
    /\ cmd \in stray
    /\ stray' = stray \ {cmd}
    /\ Execute(cmd)
    /\ UNCHANGED <<now, closed, caller, faults, acked>>

-----------------------------------------------------------------------------
(***************************************************************************)
(* The calls.                                                              *)
(***************************************************************************)

\* The bound on counters, with the increments that are under way.
Bounded(cmd) ==
    cmd.op = "incr" =>
      counter[cmd.key].count + Cardinality(stray \cap {cmd})
        + Cardinality({c \in Callers : caller[c].pc = "sent" /\ caller[c].cmd = cmd}) < MaxCount

Call(c, cmd) ==
    /\ ~closed
    /\ caller[c].pc = "idle"
    /\ Bounded(cmd)
    /\ caller' = [caller EXCEPT ![c] = [Idle EXCEPT !.pc = "sent", !.cmd = cmd, !.sent = 1]]
    /\ banned' = IF cmd.op = "block" /\ now + cmd.dur < banned[cmd.key]
                   THEN [banned EXCEPT ![cmd.key] = now + cmd.dur] ELSE banned
    /\ UNCHANGED <<now, counter, blocked, closed, stray, faults, answer, verdict, acked>>

\* A call on a closed client fails without a command.
CallClosed(c) == closed /\ caller[c].pc = "idle" /\ UNCHANGED vars

Exec(c) ==
    LET cmd == caller[c].cmd IN
    /\ caller[c].pc = "sent"
    /\ Execute(cmd)
    /\ caller' = [caller EXCEPT ![c].pc = "reply",
                                ![c].exp = IF cmd.op = "incr" THEN counter'[cmd.key].exp ELSE 0]
    /\ UNCHANGED <<now, closed, stray, faults, acked>>

\* The reply arrives and the call returns.
Return(c) ==
    LET q == caller[c]
        k == q.cmd.key
    IN  /\ q.pc = "reply"
        /\ caller' = [caller EXCEPT ![c] = Idle]
        /\ acked' = IF q.cmd.op = "incr" /\ q.exp = counter[k].exp
                      THEN [acked EXCEPT ![k] = @ + 1] ELSE acked
        /\ UNCHANGED <<now, counter, blocked, closed, stray, faults, answer, verdict, banned>>

\* The connection breaks: the command is sent again, or the call fails.
Break(c) ==
    LET q == caller[c] IN
    /\ q.pc \in {"sent", "reply"}
    /\ faults < MaxFaults
    /\ faults' = faults + 1
    /\ stray' = IF q.pc = "sent" THEN stray \cup {q.cmd} ELSE stray
    /\ caller' = [caller EXCEPT ![c] =
                    IF q.sent <= MaxRetries /\ Bounded(q.cmd)
                      THEN [q EXCEPT !.pc = "sent", !.sent = @ + 1, !.exp = 0] ELSE Idle]
    /\ UNCHANGED <<now, counter, blocked, closed, answer, verdict, acked, banned>>

\* The client drops its connections; the calls under way break.
Close ==
    /\ ~closed
    /\ closed' = TRUE
    /\ caller' = [c \in Callers |-> Idle]
    /\ stray' = stray \cup {caller[c].cmd : c \in {d \in Callers : caller[d].pc = "sent"}}
    /\ UNCHANGED <<now, counter, blocked, faults, answer, verdict, acked, banned>>

Next ==
    \/ Tick \/ Close
    \/ \E cmd \in Command : ExecStray(cmd) \/ \E c \in Callers : Call(c, cmd)
    \/ \E c \in Callers : CallClosed(c) \/ Exec(c) \/ Return(c) \/ Break(c)

Spec == Init /\ [][Next]_vars

-----------------------------------------------------------------------------
(***************************************************************************)
(* Properties.                                                             *)
(***************************************************************************)

\* The type invariant.
TypeOK ==
    /\ now \in Nat
    /\ counter \in [Keys -> [count : Nat, exp : Nat]]
    /\ blocked \in [Keys -> Nat]
    /\ closed \in BOOLEAN
    /\ caller \in [Callers -> [pc : {"idle", "sent", "reply"}, cmd : Command \cup {NoCommand},
                               sent : 0 .. MaxRetries + 1, exp : Nat]]
    /\ stray \subseteq Command
    /\ faults \in Nat
    /\ acked \in [Keys -> Nat]
    /\ banned \in [Keys -> Nat]

\* At least once: an Incr that returned is counted while its window lasts, though
\* connections break, commands are sent twice and old ones arrive late.
AckedAreCounted == \A k \in Keys : acked[k] <= counter[k].count

\* A ban stands, from the execution of its Block on, to the end that was asked
\* for, whatever is executed again or late; unless a Block of the key for a
\* shorter time was still on its way, given up by its caller or not, or is called
\* later, which may cut it short to that.
BanCoversCall == \A k \in Keys : now <= banned[k] => blocked[k] >= banned[k]

\* What the contract calls a key's window: its whole milliseconds.
WholeWindow == [k \in Keys |-> AskedWindow[k] \div PerMilli]

Counting == INSTANCE WindowCounter
              WITH counter <- [k \in Keys |->
                     IF counter[k].count = 0 THEN [count |-> 0, since |-> 0]
                     ELSE [count |-> counter[k].count, since |-> counter[k].exp - WholeWindow[k]]],
                   WindowOf <- WholeWindow

\* A key of the server lives through its last instant: one more than a ban that
\* the contract counts up to its end.
Banning == INSTANCE BanList
             WITH Durations <- {d + 1 : d \in Durations},
                  ban <- [k \in Keys |-> IF blocked[k] = 0 THEN 0 ELSE blocked[k] + 1]

\* What the server executes, and when, keeps the counting contract: the window
\* "does not slide", and the expiry cannot be lost between two commands.
CountsAsPromised == Counting!CSpec

\* Block and IsBlocked keep the ban contract, in whole ticks of the server.
BansAsPromised == Banning!BSpec
=============================================================================
