# Verification of the WalkieTalk server

TLA+ models of the Go server in `src/`, the TLC configurations that check them on small
instances, and TLAPS proofs of the results that hold for every size.

## The system

One process. `cmd/server/main.go` builds a `store.RateStore`, a `realtime.Hub` and an
`api.Server`, starts `Hub.Run`, serves HTTP and WebSockets, and on a signal cancels the
context of `Run`, shuts the HTTP server down and closes the hub.

| Component | State it keeps | Operations | Talks to |
|---|---|---|---|
| Channels (`realtime/hub.go`, `events.go`) | `users`, `rooms`, `channels` under `Hub.mu` | `handleJoin`, `handleLeave`, `removeClient`, `CleanupExpiredChannels`, `Close` | sessions (who is removed), delivery (whom to tell) |
| Sessions (`hub.go`, `client.go`, `api.handleWS`) | `clients`, the register and unregister queues, each client's `Send` channel, goroutines | `handleWS`, `Register`, `Run`, `addClient`, `removeClient`, the pumps, `Close` | everything that sends |
| Delivery (`events.go`, `hub.go`) | none of its own; reads the maps above | voice handlers, `handleMessageAck`, `Broadcast`, `Send` | clients' `Send` channels |
| Presence (`events.go`, `hub.go`) | none of its own; reads the maps above | `peer_joined`, `peer_left`, `peer_name_updated`, `room_state`, `channels_expired`, `channels_state`, at the end of every call that changes the maps | clients' `Send` channels |
| Quality (`hub.go`) | `quality`: pending nonces, two windows | `qualityLoop`, its timers, `handleQualityPong` | one session each |
| Rate limiter (`store/rate_store.go`) | `local` windows, circuit breaker; sorted sets in Redis | `Check`, `RedisOK` | Redis; called by voice handlers and HTTP handlers |
| Zones (`api/server.go`) | none; the table is in Supabase | `postZone`, `handleZoneByID`, `getZones`, `supabaseRequestBody` | Supabase; `BroadcastAll` |
| Readiness cache (`api/server.go`) | `readyCached`, `readyExpires` | `handleReady` | Redis, Supabase |
| Keep-alive, configuration, text cleaning, HTTP surface | none that changes | | |
| Screen sharing, AI client | unreachable in this version | answered `FEATURE_DISABLED` | |

### What is hard

* **Three sections per join.** `handleJoin` takes the mutex three times: check, leave the
  old channel, enter the new one. Other joins, `removeClient` for the very client that is
  joining, the sweep of expired channels and the shutdown run in between. The server has no
  tests, and none of these orders is easy to provoke.
* **Many goroutines per client.** `ReadPump`, `WritePump`, `qualityLoop`, the goroutine of
  `Run`, and a `removeClient` goroutine for every failed send. Queues can be full, and `Run`
  may take the unregistration of a client before its registration.
* **Snapshots used after unlock.** Recipients are looked up under the lock and enqueued to
  after it; clients are deleted under the lock and their channels closed after it.
* **Telling after the fact.** Every change is told after its critical section, by whichever
  goroutine made it, so that messages about one channel overtake each other, and a list of
  all channels is a snapshot that is sent after others have made newer ones.
* **Two halves of a removal.** `removeClient` gives up the seat in one critical section and
  deletes the client in the next, while a handler of the same session may be joining.
* **Two limiters.** A lost answer from Redis is counted twice, late answers reset or reopen
  the circuit, and a full map throws windows away.
* **Failures that are shared.** A caller that goes away fails its own requests to Redis and
  Supabase; the circuit and the readiness cache keep that for everybody.
* **Retries of what was already done**, at Supabase.

`PROJECT.json` lists every hazard at its line with the properties that watch it, or why
none does yet.

### What makes each component correct

* Channels: the three maps agree; no channel over its size; occupied channels stay, empty
  ones expire; secrets and ownership survive refused joins and re-creation; nobody stays
  behind as a ghost.
* Sessions: each `Send` channel is closed once and in the end; no client is in the map for
  ever with nobody reading; a dropped client is disconnected.
* Delivery: order per sender, no duplicates, one bad recipient harms no other.
* Presence: whatever overtakes what, a list that is new enough comes after each message and
  reaches every client, except for joins that end in ROOM_FULL, which send none.
* Hub: the two halves of every removal leave no session in a channel that is not a client;
  dead clients, their seats and empty channels go away in the end.
* Quality: each ping counts once.
* Rate limiter: bounded admissions across a fallback; the circuit opens for a reason and
  closes again.
* Readiness: a cached answer is no older than its time to live, and trouble is forgotten, but
  for a Redis that was not there when the server started.
* Zones: the table has been as an announcement says; transient failures do not degrade data.

## The modules

| Module | Models | Notes |
|---|---|---|
| `Directory` | what the hub promises about channels | abstract specification; used by `Channels`, `Delivery` and `Presence` |
| `Channels` | `users`, `rooms`, `channels` and their handlers | implements `Directory` |
| `ChannelsProofs` | theorems about `Channels` | |
| `Sessions` | registration, queues, pumps, removal | |
| `SessionsProofs` | theorems about `Sessions` | |
| `Hub` | `Channels` and `Sessions` put together | implements `Channels`, and so `Directory`; states the fairness and liveness of both |
| `HubProofs` | theorems about `Hub` | takes those of `Channels` and `Sessions` through INSTANCE |
| `Delivery` | voice relay and acknowledgements | membership moves by the steps of `Directory` |
| `DeliveryProofs` | theorems about `Delivery` | |
| `Presence` | peer events and the list of channels | membership moves by the steps of `Directory` |
| `PresenceProofs` | theorems about `Presence` | |
| `Quality` | pings, pongs, timers, windows of one session | |
| `QualityProofs` | theorems about `Quality` | |
| `Circuit` | the circuit breaker of `store.RateStore` and when it may be open | extended by `RateStore` and `Readiness` |
| `Windows` | the sliding windows of `store.RateStore`, in memory and in Redis, and what they may let through | holds `local`, `zset` and `granted`; extended by `RateStore` |
| `RateStore` | the rate checks of `store.RateStore` and its Redis script | |
| `Readiness` | the `/ready` handler and its cache | |
| `CircuitProofs` | theorems about `Readiness` and `RateStore` | extends `Readiness` and `Windows`, takes `RateStore` as the instance `Rate` |
| `Zones` | zone writes through Supabase | |
| `ZonesProofs` | theorems about `Zones` | |
| `MCChannels`, `MCSessions`, `MCDelivery`, `MCPresence` | the symmetry sets for TLC | |

Each definition names the code it models in the `map` of `PROJECT.json`. A definition whose
comment starts with `Mutant:` is a plausible bug. It is used nowhere; put in the place of
the definition after it, it shows that a property can fail.

### Channels

The unit of atomicity is a critical section of `Hub.mu`; a clock reading and the section
it is used in are one step. `JoinAdmit` and `JoinRefuse` are the first section of
`handleJoin`, `JoinLeave` the second, `JoinEnter` the third; `pump[s]` says which one is
next and `join[s]` holds the locals. A connection's handlers run one after another, so
`pump` is one value per session; `removals[s]` counts `removeClient` calls that have not
run yet, from the end of `ReadPump` and from senders that found the client too slow.
`SlowConsumer` may happen at any time (whether the buffer was really full is the business
of `Hub`), which allows more than the code does.

A channel is its privacy, owner, invite code, PIN and the age of `EmptySince`. Ages stop
at `EmptyTTL`. `rooms[r] = {}` stands for an absent key. Names, `LastActive`, `UserCount`
and `HasPIN` are left out: they are derived or only displayed.

`Directory` has no critical sections: a session is nowhere or in one channel, gets in while
there is a seat, and channels are listed for as long as anybody is in them. The refinement
maps `where` to `users` and `listed` to the domain of `channels`; the first section of a
join is `Create`, the second `Exit`, the third `Enter`, the sweep `Expire`, `Close` is
`Reset`.

### Sessions

One step is a critical section or a channel operation. `HandleWS` includes `Register`;
`AddClient` is the section of `addClient`, `Greet` the rest of it; `TakeOut` is the second
section of `removeClient` and `CloseSend` its `closeClientSend`. `targets` are clients a
sender has looked up and not enqueued to yet. The connection is up, lost or closed by the
server. Envelopes are counted. `Register` reads `closed` and enqueues after it; the two are
one step, because a `Close` in between leaves the client in the queue of a closed hub, where
one that came just before the `Close` is too.

### Hub

Every variable of `Sessions` and of `Channels`, which share `running` and `closed`. A step is
a step of one of them that leaves the other alone, or a step of both where one piece of code
changes both: `HandleWS` makes the client and starts `ReadPump`, `ReadPumpExit` ends the pump
and orders the removal, `RunReturns` and `Close` are the same event in both. `removeClient`
is two steps, the `RemoveClient` of `Channels` and then the `TakeOut` of `Sessions`, and
`halfway` and `removing` count the calls between them. `Enqueue` is where the two meet: the
full buffer of `Sessions` is the slow consumer of `Channels`.

`doomed`, a set in `Sessions`, is tied to the count `removals` of `Channels`: a session is
doomed while a `removeClient` goroutine of its own has not finished. `ImplementsChannels`
says that the composition is a behaviour of `Channels`, so that what is proved of `Channels`
holds of the hub.

### Delivery

A voice handler is `VoiceStart` (its channel is read), `VoiceRefuse` (size or rate),
`VoiceLookUp` (the section of `Broadcast`), one `Relay` per recipient in any order,
`VoiceEnd`. An acknowledgement is `AckStart`, `AckLookUp`, `AckForward`. `inbox` keeps
everything ever enqueued, `written` how much of it has left the buffer. All sessions start
registered. The client chooses which message it acknowledges and to whom. `RemoveFromMap` is
the deletion of a client and the close of its channel: what is enqueued between the two could
as well have come before the deletion (`Sessions` has them apart).

### Presence

An agent is a goroutine that tells: the `ReadPump` of a session, each `removeClient` call (there
may be several for one session side by side), `Hub.Run`. Its `todo` is what the rest of its
call will do: take a snapshot, look recipients up, enqueue to each in any order, and, in
`removeClient`, delete the client. Each is a step, so that the others change the maps and tell
about it at every point in between. `Init` is any hub at rest: a new one, or a later one with
sessions in channels, connected, about to be added, or gone and about to be removed.

`version` numbers the changes; a message carries the number of the change it tells, and a
`channels_state` that of the last change its snapshot contains. `settled` are the changes
whose call has returned. A join that ends in ROOM_FULL has told its old channel of the
departure and sends no list: its changes are settled too, and `refused` names them, because
`NewsThenList` and `ListsReachEverybody` are false of them. The departure then waits for the
list of some later change.

Any enqueue may fail, which stands for a full or closed buffer and starts a removal. The
properties are about clients nobody has found too slow, since those lose messages by design.

### Readiness

A request is `Ask` (the clock is read), `Hit` or `Miss` (the first section of `readyMu`),
`BeginPing` and `Pong` (`RedisOK`), `Supabase`, `Store` (the second section and the answer).
A check may fail at any time, also because its caller has gone; `Check` stands for the rate
checks that move the same circuit. `rdb` says whether `NewRateStore` reached Redis; if it did
not, `RedisOK` is false for as long as the server runs. `calm`, once true, means that services
answer and callers stay, and `quiet` counts the ticks since; it is an observer's and no code
reads it.

### Quality, RateStore, Zones

`Quality` is one session, since sessions do not share quality state. Pongs may be late,
repeated or for a nonce that was never sent; the last two change nothing, as in the code.

`RateStore` splits `Check` into reading the circuit (`Begin`), the script (`Eval`), the
answer or its loss (`Answer`, `Fail`) and the local window (`CheckLocal`). Time is
relative: windows count hits by age. A call may be late by up to `CheckDelay` ticks, by more
than a window if need be (three timeouts of 5 s in a window of 1 s), so timestamps reach
Redis out of order, and idle keys expire in Redis (`Expire`) under calls still on their way.

`Zones` treats one HTTP request as one caller. Requests to Supabase are in flight until
they are handled or lost, possibly long after the handler has given up on them. `held` is an
observer's: the callers that the table has been as they asked, at some moment while they were
under way. For a delete that is a table without such a zone, whether or not there was one to
delete, since `handleZoneByID` announces `zone_deleted` either way.

## The runs

| Run | Instance | Distinct states | Shows |
|---|---|---|---|
| `channels_moves` | 2 sessions, 2 channels of 1 seat, public or private, 1 removal by a sender | 684,000 | `TypeOK`, `MembershipConsistent`, `SecretsMatchPrivacy`, `OccupiedChannelListed`, `EmptyChannelOnClock`, `WithinCapacity`, `NoOrphanMember`, `ChannelIdentityStable`, `EmptyClockRuns`, `ImplementsDirectory` |
| `sessions_registry` | 2 sessions, queues of 1, buffers of 2 | 366,000 | `TypeOK`, `ClosedAtMostOnce`, `EveryClientWatched`, `OpenHasCloser` |
| `hub_life` | 1 session, 1 channel, queues of 1, a buffer of 1, 1 removal by a sender | 71,000 | `SeatHasRemover`, `OutsidersMoveOn`, `DeadClientForgotten`, `DroppedClientDisconnected`, `MembersAreClients`, `SeatFreedForGood`, `EmptyChannelExpires`, `ImplementsChannels` |
| `delivery_relay` | 1 speaker with 2 chunks, 1 listener with 2 acknowledgements, 3 of these in all, 1 bystander, buffers of 1 | 752,000 | `InOrder`, `NobodySilenced` |
| `quality_race` | 6 pings, windows of 3 | 233,000 | `SettledOnce`, `WindowsAgree` |
| `rate_store` | 2 keys, a map of 1, 2 callers, limit 1, window 1, delay 2 | 2,385,000 | `MapUnderCap`, `FallbackAtMostDoubles`, `OneStoreKeepsLimit`, `CircuitNeedsFailures` |
| `presence` | 3 sessions, 2 channels of 2 seats, 2 calls in any order | 1,712,000 | `NewsThenList`, `ListsReachEverybody`, `PeersInOrder` |
| `readiness` | 2 requests, time to live 3, checks of up to 3 ticks, 2 failures open the circuit for 3, Redis there or not | 519,000 | `HitIsRecent`, `TroubleForgotten` |
| `zones_write` | 2 writes of 1 zone by 2 devices, 3 payloads, 2 attempts | 48,000 | `TypeOK`, `AnnouncedHasHappened`, `RichestPayload`, `RequestsOnceInOrder`, `EveryCallerAnswered` |
| `channels_secret_required` | violation | | `SecretRequired` (README.md:184) |
| `channels_private_creation` | violation | | `PrivateRequestNeverCreatesPublic` (README.md:184) |
| `delivery_ack_target` | violation | | `AckOnlyToSender` (README.md:46) |

The type invariants of `RateStore`, `Delivery`, `Presence`, `Quality` and `Readiness`, like
those of the other modules, are proved for every size and need no run.

The bounds suffice because what can go wrong needs few actors: a race for the last seat
takes two sessions that both pass the first check; a move takes two channels and somebody
to move past; the race between a removal and a join takes one session and one pending
removal more than the one its own `ReadPump` causes. `rate_store` has calls two windows late, as
long as a key lives in Redis after its last hit; a limit of one is the smallest that a second
hit exceeds. `LocalCap` is 50000 and
`LocalKeep` 45000 in the code; two keys and a cap of one reach the eviction. The bounds
that only keep a run finite are `MaxRemovals`, `MaxCalls`, `Speaker`, `MaxVoice`, `Acker`,
`MaxAcks`, `MaxPings`, `MaxEvents` of `MCDelivery`, and the delays `CheckDelay` of `RateStore`
and `MaxDelay` of `Readiness`. Three events are two chunks and an acknowledgement, or a chunk
and the two acknowledgements of it. Runs with liveness properties use no symmetry.

`hub_life` has one session: its races are between the goroutines of one client. With one
session no queue is ever full and no join is refused, cases that `sessions_registry`, where the
second of two sessions finds either queue full, and `channels_moves` have. A removal
beyond `MaxRemovals` is taken to be one that exists already. Of the hubs at rest of `Init`,
`presence` starts (`StartInit`) from those with no session gone that are new or have somebody
in each channel; the proofs start from all of them. Two calls that change something, beside the
removals that failed sends start, are enough for one to overtake another at each of its steps. In
`readiness`, the memory of `OpenTicks + TTL` in `TroubleForgotten` is exact up to a tick:
two ticks less and TLC finds a request that is told of trouble that has passed.

`FallbackAtMostDoubles` counts from the last eviction of a key's local window: an eviction
forgets that window, and the key then starts afresh.

Deadlock is not checked where the modelled part really stops: sessions that have all
connected and gone, a bounded number of messages, pings or HTTP requests.

### What the violation runs show

* `SecretRequired`: a session is admitted to a public channel; before it enters, the owner
  joins again with visibility private; the session enters without a secret.
* `PrivateRequestNeverCreatesPublic`: the owner of a channel, alone in it, joins it again and
  asks for it to be private, which the first section makes it; the second section empties the
  channel and starts its clock; it expires and the sweep removes it; the third section creates
  it again, public, without owner, PIN or code. The join has to take a whole `ChannelEmptyTTL`
  (at least 60 s) for that.
* `AckOnlyToSender`: an acknowledgement reaches any session of the channel that it names.

### Fairness

* `Hub`: goroutines that can run do, and get the mutex (`sync.RWMutex` starves nobody); time
  passes; the tickers of `Run`, of the pumps and of `qualityLoop` fire, and `Run` serves its
  queues until it is cancelled; a read on a lost connection fails by the pong deadline (70 s)
  and a write by the write deadline (10 s). `ReadPumpExit` has strong fairness: it is not
  enabled while a handler is in the middle of a join, and the frames read before the
  connection was lost are finitely many, so `ReadPump` gets to the read that fails. Nothing
  is assumed of the network, the clients, `main`, or of anybody who sends. This is also the
  fairness of `Channels` and `Sessions`, which are checked without any.
* `Zones`: handlers run and the HTTP client's timeout (20 s) ends every attempt.

`Quality`, `RateStore`, `Presence`, `Readiness` and `Delivery` are checked for safety only.

## What is proved

TLAPS checks, for every value of the constants that satisfies the named assumptions:

* `ChannelsProofs`: `TypeOK`, the six safety invariants of the run and `EnteringHoldsNoSeat`,
  which they need, the action properties `ChannelIdentityStable` and `EmptyClockRuns`, and
  `Spec => D!Spec` (`HubImplementsDirectory`).
* `SessionsProofs`: `TypeOK`, `ClosedAtMostOnce`, `OpenHasCloser`, `EveryClientWatched`.
* `HubProofs`: `SeatHasRemover`, `OutsidersMoveOn` and `Spec => C!Spec`
  (`HubImplementsChannels`); and, where a removal is two steps and joins run between them,
  everything safe that is proved of the parts: all of `SessionsProofs` but the types, and of
  `ChannelsProofs` the six invariants, `ChannelIdentityStable`, `EmptyClockRuns` and that the
  hub implements `Directory`.
* `DeliveryProofs`: `TypeOK`, `InOrder`, `NobodySilenced`.
* `PresenceProofs`: `TypeOK`, `NewsThenList`, `ListsReachEverybody`, `PeersInOrder`, from any hub at
  rest and for any number of removals of one session side by side.
* `QualityProofs`: `TypeOK`, `SettledOnce`, `WindowsAgree`.
* `CircuitProofs`: `TypeOK`, `HitIsRecent`, `TroubleForgotten` of `Readiness`; `TypeOK` (as
  `RateTypeCorrect`, about the instance `Rate`), `MapUnderCap`,
  `FallbackAtMostDoubles` and `OneStoreKeepsLimit` of `RateStore`; `CircuitNeedsFailures` of both.
* `ZonesProofs`: `TypeOK`, `AnnouncedHasHappened`, `RichestPayload`, `RequestsOnceInOrder`.

None of the safety invariants is inductive by itself. What follows says what was missing.

**Channels.** The inductive invariant `IInv` is the conjunction of the safety invariants
with three facts none of them states: the types; `JoinLocals`, that a session has locals of
`handleJoin` exactly while `pump` is between its sections; and `RoomsFinite`, without which
counting members means nothing. Capacity at the third
section needs that the session entering holds no seat (`EnteringHoldsNoSeat`); that needs
`MembershipConsistent` at the second section, because `leaveNoBroadcast` gives up only the
seat its `User` record names; `EmptyChannelOnClock` needs `JoinLocals` for the join that
excuses an empty channel; `OccupiedChannelListed` is what lets the sweep be a step of
`Directory`. Lemmas state what each helper (`Touched`, `MarkedEmpty`, `Prepared`,
`LeaveRoom`, `EnterRoom`) returns; the step lemma has one case per action.

The refinement is a second step proof from `IInv`: `MembershipConsistent` makes the
abstract members of a channel the entries of `rooms`. `EmptyClockRuns` is a step proof too:
`markChannelEmptyLocked` leaves a clock alone that runs already, and by `OccupiedChannelListed`
whoever leaves a channel last finds it off the clock.

**Sessions.** A client with an open `Send` channel is in exactly one of the register queue,
the map and `closing`. That is inductive together with `Fresh`: a session that has not
connected has no channel, which is where session ids being used once enters.

**Hub.** `HubInv` is the invariant of `Sessions`, that of `Channels` and `LinkInv`, which says
how the two halves fit. `SeatHasRemover` is `NoOrphanMember` of `Channels` seen from the queues
and goroutines of `Sessions`, so what has to be shown is that every removal `Channels` counts
is somewhere: `removals` is the place in the unregister queue, the goroutines not begun and
nothing else (`Waiting`, `DoomedIsDue`). That needs that a session is queued at most once
(`QueuedOnce`), because its `ReadPump` ends once, and that both halves mean the same
connection (`PumpsAgree`), so that no sender finds a client too slow that has not connected.

`OutsidersMoveOn` is about a session that sits in a channel and is not a client: its
registration is still queued or was refused, its removal ran between two sections of its join,
or the server has shut down. It has connected (`OfflineHoldsNoSeat`). If its `ReadPump` has
ended, `SeatHasRemover` says that a removal is due. Otherwise it is queued, or somebody is about to close
its `Send` channel, or has (`OpenHasCloser`); and its `WritePump` either runs and will see
that, or closed the connection when it ended (`PumpsEndTogether`), so that `ReadPump` ends too.

The results about `Channels` carry over because a step of the hub is a step of `Channels` or
changes none of its variables. The hub does not implement `Sessions` in that way: there a
removal leaves the unregister queue and takes the client out of the map in one step, in the hub
the queue has room again before the client is out. The invariant of `Sessions` is shown to
survive every step of the hub instead.

**Delivery.** `InOrder` compares what a recipient has with what the sender is doing: nobody has
a voice event or an acknowledgement that its sender has not sent, nor the one that is still to
be checked or enqueued to it (`VoiceHeard`, `AckHeard`), so that the next one enqueued is newer
than all before it. `pending` is about the last event of its session (`CallIds`,
`PendingIds`).

**Presence.** `NewsThenList` and `ListsReachEverybody` speak of calls that have returned, other
than joins refused in their third section (`Announced`). While a
call owes a change to anybody, a list is still to come or has come (`Promised`), and each list
still to be sent contains every change its call owes (`StillToTell`); it goes to everybody
(`ToEverybody`). `PeersInOrder` is about the `ReadPump` of a session and its
removals. For a session nobody has found too slow only one of them has anything to tell
(`OneTeller`), and one message at a time (`OwnNews`), so what is still to be told is newer than
what has been (`NewsIsNewer`). What is told of a session found too slow may come out of order, in the
model as in the code, and the property excludes it.

**Quality.** A window is cut at the front when it is full. Of an answered ping whose outcome is
`n` places from the end of `cycles` the time is at most `n` places from the end of `rtts`
(`AnswersKept`), because each answer is appended to both and a drop to one only; hence `rtts`
never loses what `cycles` still has. No dropped ping has a time (`DropsHaveNone`).

**Zones.** A payload is given up only when the table has refused it (`PoorerRefused`), and no
request in flight carries one its handler has not come to (`FlightBehind`), however late it is
handled. A delete is never refused for a column (`DeletesMatch`). `AnnouncedHasHappened` needs
that whoever has been told of success, and not announced it yet, was served while it was under
way (`SavedHeld`).
`RequestsOnceInOrder` needs only the types and one lemma on what a step may do to a handler
(`HandlerStep`): stay, advance to its answer, or come to a later request.

**Readiness.** `HitIsRecent` follows from `OneClock`: the age of an entry and what is left of
it add up to `TTL`. `TroubleForgotten` is only about the answer given, so the inductive
invariant follows bad news from its source: the circuit runs out within `OpenTicks` of the
last failure (`CircuitRunsOut`); a bad verdict in a request began in that time
(`VerdictsOld`), and so did a bad entry that is still usable (`EntryOld`). The last two hold
as seen from now and from the time every other request in flight came, because a request may
be answered from an entry that another one stored after it came.

**Circuit.** Whatever checks and pings overlap, the breaker moves by the operators of `Circuit`
only. It counts to `Threshold` and is open only when it has got there (`CircuitInv`). `RateStore`
and `Readiness` are shown to keep that by the same lemmas.

**RateStore.** `FallbackAtMostDoubles` bounds what both limiters have let through, which neither
of them knows. All that has been granted, and all that Redis has admitted and not yet answered,
is in the window in Redis or in the one in memory, hit by hit (`Accounted`); each keeps the
limit by itself (`WithinLimit`). What has not been answered is in Redis (`InRedis`), so that an
eviction, which forgets the window in memory, leaves the account right. `MapUnderCap` needs `WithinLimit` too: a check that is refused stores its window without an
eviction, and must have found one. The size of a window is a fold; `SizeCounts` shows, by the
smallest set for which it fails, that it is the number of the window's hits taken one by one,
and sizes are then compared by injections between sets of hits. `OneStoreKeepsLimit` follows from
`Accounted` with one of the windows empty: then the other contains all that was granted. Callers and keys may be
infinitely many: the calls under way and the windows in memory never are. `CheckDelay` may be
any number of ticks: a hit is kept in the account for a window and a delay, and a key that
Redis lets expire holds no hit that a call under way or the window of now would count.

The assumptions are those named in the modules: `Nil` differs from every value it is the
absence of, and sizes, capacities and times are positive. In `Hub` they are those of
`Channels` and `Sessions`, with at least one removal by a sender; the theorems about `Rate`
state those of `RateStore` as `RateAssumptions`.

### Only model-checked

Liveness: fairness and `ENABLED` are outside the prover's reach. Each of these properties says
that something due is done in the end; that it is due, at every moment, is safety and proved:

| Checked by TLC | Proved, in the composition where it is about the hub |
|---|---|
| `DeadClientForgotten` | `EveryClientWatched` |
| `DroppedClientDisconnected` | `OpenHasCloser`, `PumpsEndTogether` |
| `MembersAreClients` | `OutsidersMoveOn` |
| `SeatFreedForGood` | `SeatHasRemover` |
| `EmptyChannelExpires` | `EmptyChannelOnClock`, `EmptyClockRuns` |
| `EveryCallerAnswered` | `RequestsOnceInOrder` |

Every other property of a passing run is stated by a theorem.

## What is not modelled

* The fields of a channel list and the order it is sorted in: derived from the maps in the
  critical section that takes the snapshot.
* The arithmetic of `qualityScore`: floating point with a square root, and no state.
* The validation and normalisation of a zone before the first request, and `getZones`.
* Text cleaning, JSON, CORS, API keys, logging: no state, no concurrency.
* Screen sharing and the AI client: unreachable code.
* Session ids are random and never repeat; two PINs with equal hashes are equal.
* A crash of the process: nothing but Redis and Supabase persists, and neither refers to
  what is lost.

## Plan

Done: every module above, and a proof of every property that is not liveness.

Not planned: an abstract specification of the rate limiter. What it would promise is said more
directly by `FallbackAtMostDoubles` and `OneStoreKeepsLimit`.
