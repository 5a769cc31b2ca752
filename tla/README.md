# Verification of security-go

TLA+ specifications of the stateful core of security-go, their TLC models, and
TLAPS proofs. The library is mostly regular expressions; what can go wrong in a
way that tests hardly reach lies in the parts that keep state between requests
and are called by many goroutines at once: the storage backends, the session
package, the IP blacklist and the detector registry.

## 1. The system

| Part | State | Operations | Interacts with |
|------|-------|-----------|----------------|
| `storage.Backend` (`storage/storage.go`) | - | `Incr Get Block IsBlocked Close` | the interface behind `IPBlacklist` and `Signer` |
| `storage.Memory` | two maps, one mutex, `done` | the interface; a reaper goroutine | wall clock |
| `storage.File` | one map of records (counter and ban in one), `dirty`, `closed`, the JSON file | the interface; an autosave goroutine; `NewFile` after a restart | wall clock, file system |
| `storage/redis.Backend` | keys in a Redis server | the interface, one command or script each | network |
| `session.Signer` | none of its own; nonces counted in a Backend | `Sign`, `Verify` | `Backend.Incr` |
| `session.Tracker`, session binding | `sess:` entries in a Store | `Issue Revoke Check Guard` | `Store`, reads `lock:` entries |
| `session.Tracker`, known networks | `nets:` entries | `Observe` | `Store` |
| `session.Tracker`, brute force | `fail: strike: lock: stuff:` entries | `RecordFailure CheckLogin ClearFailures IsLocked GuardLogin` | `Store`, the wrapped handler |
| `session.MemoryStore` | a map of entries with a TTL, an RWMutex | `Save Load Delete Close`; a reaper goroutine | wall clock |
| `httpval.IPBlacklist` | none of its own | `Detect RecordAttack` | `Backend` |
| `security.Engine` | a map of detectors, an RWMutex | `Register Detect DetectAll DetectRequest` | the detectors |
| `httpval.NestedDepth`, `CookieAttrs` | none beyond their limits | `Detect` | - |
| the other validators of `httpval` | none | `Detect` | - |
| pattern detectors (`injection`, `protocol`, `data`, `file`) | none | `Detect` | - |
| `all.RegisterAll`, `pet` | none | 27 registrations; `MoodOf` over the results of a scan | `Engine` |

What is hard about it:

* **Interleaving.** The Tracker takes no lock and its Store offers only
  `Load`, `Save` and `Delete`; every update of a counter, a list or a session is
  a read, other requests, a write. `RecordAttack` and `Verify` are several calls
  too. The Engine's map is written while requests are scanned.
* **Stale readings.** Reapers read the clock before they wait for the mutex;
  `MemoryStore.Load` reads it after it released the lock; `verify` saves the
  session that `Check` loaded earlier.
* **Failure.** Any Store or Backend call may fail, also the second of four
  writes; a save of the file may fail halfway or the process may crash in it.
* **Time.** Windows that must not slide, TTLs that must, lockouts kept both as a
  TTL and as an instant rounded to seconds, clocks of clients that are ahead.

`PROJECT.json` lists every component and every hazard with its line and the
properties that look at it.

## 2. Modules

    WindowCounter  BanList                 TTLMap            contracts
      |   |   |      |   |                   |
      |   |   +--IPBlacklist                 |               Backend contracts as state
      |   Signer         |                   |               Backend contract as state
      MemoryBackend  FileBackend  RedisBackend
                                         MemoryStore         refine the contracts
                                             :
       ClientAddress---KnownNets  LoginGuard  SessionGuard   assume the Store contract

    Engine   Detectors   NestedDepth   CookieAttrs           stand alone

    Stores  = MemoryBackend | MemoryStore | RedisBackend     side by side
    Tracker = KnownNets | SessionGuard
    Scans   = IPBlacklist | Detectors | NestedDepth | CookieAttrs

| Module | Models | How state and actions correspond to the code |
|--------|--------|----------------------------------------------|
| `WindowCounter`, `BanList` | what `storage.Backend` promises: `Incr`/`Get` and `Block`/`IsBlocked` | only what a client can see: a counter or ban ceases to exist when its time is over |
| `TTLMap` | what `session.Store` promises | likewise for entries |
| `MemoryBackend` | `storage/memory.go` | a call holds the mutex from first to last access: one action. The reaper is two: `ReapTick` reads the clock, `ReapOnce` acts on that reading |
| `FileBackend` | `storage/file.go` | a call is one action; a save is `BeginSave` (prune, fix the image) and `SaveDone` or `SaveFails`, with `Tick` and `Crash` in between. `NewFile` restarts from `disk` |
| `RedisBackend` | `storage/redis/redis.go` and the server it talks to | a call is `Call`, `Exec` on the server and `Return`; `Break` is a connection that breaks before or after `Exec`, with the client library's retries; `ExecStray` executes late a command that its caller has given up. `Milliseconds` cuts a window to what `PEXPIRE` is given; a `Block` carries its duration |
| `Signer` | `session/tamper.go` | `Verify` is its checks (`Deny`, `PassUncounted`, `ReachCount`) and, later, its `Incr` (`Count`, `CountFails`). The Backend is `WindowCounter` by `INSTANCE` |
| `LoginGuard` | `session/bruteforce.go`, `session/lockout.go` | one action per Store call; `slot[s].pc` names the next one and the other fields are the goroutine's local variables. `Status` is what `statusWriter` makes of the handler's calls |
| `SessionGuard` | `Issue Revoke Check Guard` of `session/tracker.go` | one action per Store call of `Check`, and one for its failure: `LoadSessionFails` and `LoadLockFails` go through `storeError`, `SaveSessionFails` through `verify`'s own test of `FailClosed`, with the session saved or not. `Issue` and `Revoke` make one call each |
| `ClientAddress` | `clientIP network subnetBits` of `session/tracker.go` | operators on addresses of any number of bits, IPv4, IPv6 and IPv4 written as IPv6 |
| `KnownNets` | `Observe` of `session/tracker.go` | one action per Store call, `LoadNets` and `SaveNets`, each of which may fail |
| `MemoryStore` | `session/store.go` | `Load` is `LoadTakes` and `LoadReturns`, split at `RUnlock`; the reaper as above |
| `IPBlacklist` | `httpval/ip_blacklist.go` | `RecordAttack` is its `Incr` and, at the threshold, `Ban`. The Backend is both contracts by `INSTANCE` |
| `Engine` | `security.go` | `Register` is queued, pending (new readers wait) and `Write`; a scan takes and releases the read lock once per input |
| `Detectors` | the 27 pattern detectors, `all/all.go`, `FirstMatch` and the results of `security.go`, `pet/mood.go` | a detector is its name and the severities of its lists in the order they are tried; `Register` is `RegisterAll` call by call, `Run` one detector of a scan, in any order |
| `NestedDepth` | `httpval/nested_depth.go` | one action per kind of token; `ahead` is the decoder, level by level: what is left of the body and of each open array or object. `cut` says whether the body breaks off somewhere, when `TokenFails` may come after any token |
| `CookieAttrs` | `httpval/cookie_attrs.go` | `Detect` with its helpers, over fields instead of characters |
| `Stores`, `Tracker`, `Scans` | - | specifications that share nothing, run as one: a behaviour is one of them, which `kind` names, and the others stand still |
| `MC*` | - | the constants and symmetry of the TLC models |
| `*Proofs` | - | the theorems |

Abstractions. Keys, values, tokens, identities, addresses, nonces and parameter
sets are elements of small sets; hashing of keys is left out since it maps
different keys to different keys. HMAC-SHA256 is unforgeable and `crypto/rand`
does not repeat. Time is a natural number; `Second` says how many ticks
`time.Unix` and RFC 3339 round away. A client is the record of its address,
user agent and fingerprint; `NetworkOf` and `CountryOf` stand for `network()`
and the GeoIP hook. A wrapped handler makes any of a few sequences of `WriteHeader` and
`Write` calls. In `Detectors` an input is the set of lists that it hits, so that
the regular expressions themselves are data. A JSON body is a sequence of values,
a value a scalar or a container of a sequence of values, in which an object's keys
stand as scalars before theirs; a cookie header is the names of its fields. In `Engine` a detector is the set of inputs it fires on
and a version number that tells replacements of one name apart. A Backend call that
fails may have had its effect, and so may the `Save` of a `Check`; the other Store
calls of the Tracker that fail have none.

Variables marked *history* record what happened and influence no action.
Operators whose comment begins with *Mutant* are deliberately wrong variants of
the definition that follows them; no specification uses them. Each property is
checked to fail when the variant takes the place of its original.

## 3. Runs

| Run | Checks | Instance |
|-----|--------|----------|
| `stores` | `Memory` implements `WindowCounter` and `BanList`, `ExpiredIsDropped`; `MemoryStore` implements `TTLMap` (`EntriesAsPromised`), `LoadedWasHeld`; the Redis server implements both contracts (`RedisAsPromised`), `AckedAreCounted`, `BanCoversCall`; all type invariants | 1 key. `Memory`: window 2, bans of 1 and 3, 5 ticks, a reaper with a reading as old as that. `MemoryStore`: 2 values, TTLs 1 and 2. `RedisBackend`: a window of two milliseconds and a half, bans of 1 and 3, 2 broken connections, 1 retry, commands that arrive late |
| `signer` | `NoReplay`, `PassIsGenuine`, `ReplayMeansUsed` | 2 nonces, 2 parameter sets, 2 workers, skew 2, clocks off by 1 either way, stall 1, one failing `Incr`; all four configurations |
| `file_backend` | `CrashLosesOnlyPending`, `FileInvariant`; `File` implements `WindowCounter`; `ChangesReachDisk` | 1 key, bans of 1 and 2, 1 crash, failing saves, initial files of the old and the new format |
| `file_bans` | *violated:* `File` implements `BanList` | 1 key, no crash |
| `login_sequential` | `FailuresLock`, `LockIsFixed`, `EscalationHolds`, `StuffingSticks` | 1 request at a time, 2 identities, up to 3 failures each, a list of 1, 5 instants, one failing call: two lockouts, the second twice the first, their ends rounded to 2 ticks |
| `login_concurrent` | `LockIsEarned`, `LockIsBounded`, `StuffingIsDistinct` | 2 requests at a time, 3 identities from one client with a list of 2, one failing call, rounding to 2 ticks, `Lockout` beyond `MaxLockout` |
| `login_lost` | *violated:* `FailuresLock` with 2 requests at a time | 1 identity, 2 failures |
| `session_revoke` | *violated:* `RevokeEndsSession` | 2 clients, 2 requests at a time |
| `tracker` | `NetsInvariant`, `PlaceIsPrefix`, `NoStrangerSlips`, `FamiliarStaysQuiet` of `KnownNets`; `PassMatchesIssue`, `SlidesByTTL`, `FailClosedHolds`, `DeadStaysDead` of `SessionGuard` | 2 requests at a time, one failing call, `FailClosed` on and off. Networks: 1 user, lists of 2 for 2 ticks; four requests from three places, with and without forwarding headers; 3 settings, prefixes by default, inside an address and beyond its size; `PlaceIsPrefix` over all addresses of 3 (IPv4) and 5 bits (IPv6), pairwise. Sessions: 1 token, 6 kinds of client, one of another country in the same network, one of unknown country |
| `detectors` | `ThresholdBans`, `BanCoversLastAttack` of `IPBlacklist`; `WorstWins`, `MoodIsWorst` of the pattern detectors; `BombsAreReported` of `NestedDepth`; `ReportsWhatBrowserLacks` of `CookieAttrs` | 2 addresses, 2 callers, threshold 2, one failing call; inputs that hit up to two detectors; bodies of up to two values, nested up to three deep, broken off anywhere, limits from none to 3; cookies of up to three fields |
| `bombs` | *violated:* `ReportsAsDocumented` of `NestedDepth` | as `detectors` |
| `engine` | `EngineInvariant`, `NothingSlipsBy`, `EveryCallReturns` | 2 scans, 2 writers, 1 detector name in 2 versions, an input and its decoding |

Why these bounds are enough to be interesting: under a mutex calls on different
keys do not affect each other, so one key suffices where the property speaks of
one, and two where the property relates them. Every race in this code is between
two goroutines. The clock runs long enough for each window, TTL and lockout to
begin, end and begin again. The bounds are the constants whose
names begin with `Max`; in `Engine` the version number saturates instead, so
that registrations go on for ever. Two detectors per input suffice since
`MoodOf` keeps a running maximum; an address of 3 bits has prefixes that end
inside, at and beyond its size, which is all that `network` distinguishes. In
`login_concurrent` a third identity meets a list that is full, and two requests
rewrite it at once.

Two runs tell fewer states apart than they visit. `login_concurrent` leaves out of
its view (`Concurrent`) the histories by which only requests one after the other
are judged, and of its inputs the requests without an identity, which write
nothing, and those without a client's address, which only write no list
(`FewKnown`); `login_sequential` has both. `tracker` leaves
out (`ButRevoked`) which tokens were revoked, which only `RevokeEndsSession` reads,
and looks at sessions with one of the two settings that do not fail closed
(`OneOfEach`), since Guard reads no other setting. No action reads what a view
leaves out.

What single runs do not reach: with `Lockout` beyond `MaxLockout` (`login_concurrent`)
`lockFor` returns the maximum at the first strike, in `login_sequential` it doubles
once and stays below it; that it doubles up to the maximum and stops there is
`LoginEscalationHolds`. `FailuresLock` and `LockIsFixed` are about requests one after
the other. `NoStrangerSlips` compares what `Observe` answers with the address that
`ClientAddress` takes the request to come from, with trusted headers too: it shows
that headers do not count unless they are trusted, and the order in which trusted
ones are tried only as far as that definition does.

`BanCoversCall` speaks of a ban from the execution of its `Block` on, and of no
`Block` of the key for a shorter time that is on its way then, given up by its caller
or not, or is called later: `SET` replaces the end of a ban, so a late command for
a shorter time cuts a longer ban whose caller was answered. Without that condition
the run finds this at once. Windows of less than a millisecond, for which
`Incr` would set no counter that lasts, and bans without end are left out by
`RedisAssumption`.

### What the violated runs show

* `file_bans`: `File.Incr` replaces the whole record when a window is over, and
  the ban in it with it. With `IPBlacklist`'s defaults (a window of a minute, a
  ban of 15) the first attack recorded after that minute unblocks the address.
* `session_revoke`: a `Check` that loaded the session before `Revoke` saves it
  again. The token is then valid until somebody revokes it once more.
* `bombs`: `NestedDepth` reports a body at the token that passes a limit, and does
  not know yet whether the rest is well-formed; one that breaks off after it is
  reported all the same, against "Empty, malformed or non-JSON input is never
  reported". The other half of `ReportsAsDocumented` fails by itself as well:
  `MaxKeys`, "total elements across all arrays and objects", counts keys and scalars,
  not the arrays and objects in others, so that `[[1]]` with a maximum of one element
  is not reported. `BombsAreReported` states what the code does count.
* `login_lost`: the failure counter is a plain read-modify-write; two failures
  at once can count as one, and the account is not locked at the threshold.

More places where code and docs part were met while modelling. The models
follow the code there, and no run is spent on them:

* `bruteforce.go:68`: every failure renews the TTL of the counter, so that
  failures far apart add up although older ones are said to be ignored.
* `bruteforce.go:95-97`: a handler that writes nothing is answered 200, but the
  status that `GuardLogin` sees is 0, so that this success clears no failures;
  likewise a 401 after an informational 103 is not counted.
* `bruteforce.go:211-214`: `stuffingCount` swallows the store error, also under
  `FailClosed`.
* `tamper.go:105`: `Verify` swallows the error of the nonce store; while it is
  down a nonce passes again. `NoReplay` therefore speaks of runs without faults.
* `store.go:71`: `Load` compares the entry it took with a later clock; a session
  renewed in between can read as absent.
* `tracker.go:70-71`: `KnownNetTTL` is "how long a login network is remembered",
  but a login from a new network renews the whole list and one from a known
  network renews nothing: the list of a user who keeps to known networks lapses,
  and the next stranger is taken for a first login (`Idle.baseless`).
* `tracker.go:234`: of two concurrent logins of one user, one network may be
  forgotten. `FamiliarStaysQuiet` excludes users whose logins overlapped.
* `redis.go:64`: a `Block` that arrives late replaces a ban that ends later.
* `redis.go:63-65`: `Block` for a duration of zero never ends on Redis, and is over
  at once on the other backends; `RedisBackend` is given positive durations.
* `redis.go:48`: go-redis sends a command again whose reply was lost, so that one
  `Incr` may count twice; a fresh nonce then reads as replayed.
* `cookie_attrs.go`: a missing attribute (medium) hides a value that is too long
  (high), since the first check that fails is reported.

### Fairness

`stores`: weak fairness of the two steps of `Memory`'s reaper; the Go scheduler runs
every goroutine and a `time.Ticker` fires for ever. `file_backend`: the same for
the autosave goroutine; a save in progress ends; a save that is tried again and
again succeeds at some time (strong fairness of `SaveDone`: without it the disk
may be full for ever, and nothing can be promised); a crashed process is started
again. `engine`: a goroutine inside a call goes on and detectors return; `Lock`
is strongly fair because `sync.Mutex` hands itself over to a waiter after a
millisecond. No client call is fair: nobody has to call `Incr`.
`file_bans` checks a safety property; its fairness plays no role.

## 4. Proofs

All for arbitrary constants that satisfy the named assumption of the module.

* `StoresProofs` (from `StoresAssumption`, which joins those of the three
  modules).
  *Memory.* `MemoryInvariant`: `TypeOK` and `EntriesWhole` are inductive together.
  `EntriesWhole` is what makes the reaper harmless: the clock reading it acts on
  is never in the future, and an entry carries the window its callers use, so
  that what the reaper drops has expired *now* as well. From it, step by step,
  `MemoryCounts` and `MemoryBans`: under the refinement mappings each action is a
  step of `WindowCounter` (`BanList`) or a stutter; `ReapOnce` always is the latter.
  *MemoryStore.* `StoreKeepsEntries` is the same argument for `TTLMap`.
  `StoreLoadsHeld` needs an invariant about a `Load` between `RUnlock` and its
  clock reading (`LoadSound`): the entry it took was in the store at an instant of
  the call at which it was not over.
  *Redis.* `RedisCountsAcked`: the counter is at least the calls that returned
  *plus* those whose reply is on its way (`Cardinality` of their callers, who are
  finitely many); a reply in flight carries a number that its own execution
  counted. A window is what is left of it in whole milliseconds. `RedisBansCover`: a ban
  that counts is one than which no `Block` of the key that may still be executed is
  shorter (`Promised`), so that every later execution can only push its end further;
  a later call for less time ends that claim where it would cut the ban.
  `RedisKeepsContracts`: every execution, whoever sent it and however late, is a
  step of the contract.
  `StoresTyped`: all three type invariants. `StoresSideBySide`: a behaviour of
  `Stores`, which the run checks, is one of the module that `kind` names.
* `SignerProofs` (from `SignerAssumption`). `SignerNoReplay`,
  `SignerPassIsGenuine`, `SignerReplayMeansUsed`, `SignerTypeOK`. The inductive
  invariant ties a nonce's acceptance to its counter: an accepted nonce either
  still has a live counter, or its signature is too old to pass the checks and
  no `Verify` that passed them earlier is still running. It is here that
  `Lead + MaxStall <= maxSkew` is needed: the window of `2 * maxSkew` starts
  when the nonce is counted and has no slack beyond that.
* `FileBackendProofs` (from `FileAssumption` and, for `FileCounts`,
  `FilesAssumption`: the files are ones that the program wrote).
  `FileKeepsDirty`, `FileSurvivesCrash`, `FileCounts`. `CrashLosesOnlyPending` is
  not inductive, for two reasons. A save in progress writes an image taken
  earlier; it is still the map, since a save holds the mutex (`SaveIsCurrent`).
  And two records that read alike now may part later, if their windows differ;
  what holds is that a record is the one on disk, or was pruned and is over for
  good on disk as well (`Backed`). `FileCounts` adds that a counter carries the
  window its callers use (`Counts`), by which a pruned record, and one that a
  restart has read, is a stutter of the contract.
* `SessionGuardProofs` (from `SessionAssumption`, which `TrackerAssumption` names for
  the run's instance). `SessionPassMatchesIssue`,
  `SessionSlides`, `SessionFailsClosed`, `SessionDeadStaysDead`. They rest on
  one invariant: the stored session, and every copy of it that a running `Check`
  holds, carries the binding made by `Issue`, and a copy about to be saved is
  live and has been compared. For `SessionFailsClosed` (`ClosedInv`) a request that
  came when the session was over, or the token locked, has no live copy and cannot
  get to the save as long as that stands (`StillOver`, `StillLocked`), and a
  session that let somebody through is live until TTL later (`StillRenewed`); each
  of the three failing calls is a step of its own in it, as in the code.
  `TrackerSideBySide`: a behaviour of `Tracker` is one of `KnownNets` or of
  `SessionGuard`.
* `LoginGuardProofs` (from `LoginAssumption`). `LoginLockIsEarned`,
  `LoginLockIsBounded`, `LoginStuffingIsDistinct`, `LoginTypeOK`. The inductive
  invariant says of every request what its local variables may be relied on for
  at each call (`Knows`): the count it is about to save was earned, a lockout
  under way was too and ends within `MaxLockout`, and the list it is about to
  save is free of its own identity. All of it survives the steps of others since
  failures only add up and time only grows.
  Four properties do not survive races; `login_lost` shows it of one. They hold
  of every behaviour in which no two calls that record or clear failures of *one*
  identity overlap (`CallsApart`), whatever goes on for others and whichever Store
  call fails: `LoginFailuresLock`, `LoginLockIsFixed`, `LoginEscalationHolds`; and
  where no two rewrite the list of one client (`ListsApart`), `LoginStuffingSticks`.
  `LoginOneByOne` says that with one request at a time, as in `login_sequential`,
  nothing overlaps. The invariants tie a call's variables to the store while it
  is the only one: the counter, live or about to be saved, is no less than the
  failures inside the window (`CountingInv`); a call that is about to lock finds no
  lockout in force (`LockingInv`); it does so with more strikes than the last lockout
  took, while these are remembered (`EscalatingInv`); and a list about to be saved is
  no shorter than the one it replaces (`ListingInv`). That `Backoff`, a recursive
  function, is what its definition says and doubles up to `MaxLockout` is proved by
  induction (`Repetition`).
* `ScansProofs` (from `BlacklistAssumption`, and from `ScansAssumption`, which joins
  those of the other three modules).
  *IPBlacklist.* `BlacklistThresholdBans` and
  `BlacklistBanCovers`. `ThresholdBans` becomes inductive once it says *until
  when*: the ban reaches `BanDuration` past the start of the counter's window, so
  it cannot end first. This is where `Window < BanDuration` is needed.
  *Detectors.* `ScanReportsWorst` and `ScanMoodIsWorst`. The 27 names are
  different (`NamesApart`), so that no registration replaces another
  (`Registry`); no detector tries a weaker list before a stronger one
  (`ChecksWeaken`), so that the first that matches is the worst; and every result
  is that of one detector asked, every detector that is done has its own
  (`Told`).
  *NestedDepth.* `BodyBombsReported`, for bodies of any size. What was counted and
  what is ahead on the decoder's levels add up to the elements of the body
  (`AllCounted`), and no level has more nesting ahead than the body has, while one
  has as much if that is too deep (`DeepestAhead`): a depth that is not too deep may be
  behind, but one that is cannot be without a report. `Nesting` and `Elements` are
  recursive functions; that they exist and obey their definitions is `Recursion`,
  by induction on the length of the text.
  *CookieAttrs.* `CookieReportsLacks`: what `missingAttrs` finds is what is not
  among the fields after the first (`MissingIsLacking`), however many prefixes the
  header came with.
  `ScansSideBySide`: a behaviour of `Scans`, which the run checks, is one of each of
  the four.
* `KnownNetsProofs` (from `KnownNetsAssumption` and, for `KnownNetsPlaces`,
  `AddressesAssumption`: an address is a number of as many bits as its kind has).
  `KnownNetsInOrder`, `KnownNetsNoStranger`, `KnownNetsFamiliar`. An `Observe` about to save holds a
  list that was in order and within the networks saved before, and does not name
  its own network (`SlotSound`); the list in the store may have changed meanwhile,
  which loses networks but lets in none that was not reported. For a user whose
  logins never overlapped (`Alone`) that list is still the one in the store, and
  the newest networks are remembered (`TrailIsList`). `CappedAppend` says what
  cutting the list keeps. `KnownNetsPlaces` is about `network` alone: the bits that
  it keeps are equal just when the leading bits are, at every width and prefix
  length. Its induction on the number of bits uses that `2^n` is the number of
  subsets of `1 .. n` (`PowersOfTwo`).
* `EngineProofs` (from `EngineAssumption`). `EngineScansOneRegistry` and
  `EngineNothingSlipsBy`. The invariant is a predicate of one call and the
  registry (`Sound`): every detector that was registered when the call began has
  spoken about each input that is done, and what has been run on the current
  input is part of the map. A `Write` keeps it because it happens when no call
  is between `RLock` and `RUnlock`, and the registry only grows.

For the type invariants of `Signer`, `LoginGuard`, `FileBackend`, `Engine`,
`KnownNets` and of the modules of `stores` see `SignerTypeOK`, `LoginTypeOK`,
`FileKeepsDirty`, `EngineScansOneRegistry`, `KnownNetsInOrder` and `StoresTyped`;
those of `SessionGuard` and of the parts of `Scans` are conjuncts of the
invariants that their proofs show inductive.

The induction that some of these proofs need is stated for a *set* of numbers
(`Induction`), or of elements with a rank (`RankInduction`), since a theorem whose
parameter is an operator cannot be used by the provers at hand; it follows from
the library's theorem on minimal elements (`WFMin`).

Only model-checked: liveness under fairness, which is outside what TLAPS proves
here: `ExpiredIsDropped`, `ChangesReachDisk` and `EveryCallReturns`. Every
other property that a passing run checks is proved, the four of
`login_sequential` under the condition that its single slot fulfils.

## 5. Not modelled

What a regular expression matches is out of TLC's reach; `Detectors` models what
is done with the matches. The validators for body size, content type, method and
CSRF origin compare one string or length with a configured one, which a
definition could only restate. Of the upload detector the two rules on file
names (`CheckExtension`, `HasMaliciousExt`) and of the session package the
places where a token is found in a request and the JSON of entries are data. `pet` serves artwork
otherwise. `FileBackend` takes a rename that returned as durable (the directory
is not synced: a power loss, as opposed to a crash of the process, may undo it).
Two processes on one file are not modelled, nor is a Redis server that fails
over and loses acknowledged writes.

## 6. Plan

Done, in this order: the Backend contracts and `MemoryBackend` with its proofs;
`Signer` with its proofs; `FileBackend`; `LoginGuard` and `SessionGuard` with
their proofs; `IPBlacklist` with its proofs; `MemoryStore`; `Engine`;
`RedisBackend`; `ClientAddress` and `KnownNets`; `statusWriter`; `Detectors`,
`NestedDepth` and `CookieAttrs`; the proofs about `Engine`, `FileBackend`,
`KnownNets`, `MemoryStore`, `RedisBackend` and the detectors, and those about
`LoginGuard` while calls keep apart.

Next, as far as it is worth it: `IPBlacklist` composed with `FileBackend` itself,
where its bans are lost; Store calls of `LoginGuard` and `KnownNets` that fail after
they took effect; and, of what races do to `LoginGuard`, a bound on the failures that may
be lost.
