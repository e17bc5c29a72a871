# A TLA+ model of the Skin Picker rooms server

This directory holds TLA+ modules that model the rooms server of this
repository, TLC configurations that check them on small instances, and proofs
that TLAPS checks for every value of the constants.

## 1. The system

The server is one Node.js process that keeps everything in memory. Clients
create and join rooms over HTTP (`room.controller.ts`) and then speak Socket.IO
(`server.ts`). Three singletons hold the state: `RoomService` (rooms, members,
synergy), `PresenceManager` (who is online under which PUUID) and the maps of
`server.ts` (`socketToMember`, `inviteRateLimits`). Timers drive a periodic
sweep of the rooms and a cleanup of the invite limits.

Node runs one handler at a time, to its end. The only asynchronous parts of the
code are the continuations after `fetchSockets()` (in `evictMemberSockets`,
`kick-member` and `emitVersionedToRoom`). With the in-memory adapter the set of
sockets is taken synchronously and the continuations are microtasks, which run
before any other socket's packet is dispatched. So **a handler is one action**,
continuation included. The simulator is another process and differs: its picks
wait for Community Dragon, so there **each stretch between two awaits is an
action**. What interleaves is the order of handlers: the disconnect
of an old socket and the join of a new one, a reconnection and the sweep, a
change of champion and another member's option list.

| Component | State | Operations | What makes it correct |
|---|---|---|---|
| Room membership and lifecycle | `rooms`, `members`, `ownerId`, `pendingMembers`, `disconnectedMembers`, `bannedNames`, `lastActivityAt`, `joinSeq`, `socketToMember`, Socket.IO rooms | REST create, join, bots; `join-room`, `leave-room`, `kick-member`, `disconnect`; sweep | the owner is the oldest member; a seat is held by a socket or by a timer; the sweep takes back the dead seats and no others; nobody listens unseen |
| Draft | each member's champion, options, look, lock; `synergy`, histories, `activeSynergy` | `update-selection`, `owned-options`, `request-group-reroll`, `apply-skin-line-synergy`, `set-skin-lock`, and membership changes | the published lists say who can share what; combos respect champions and locks; a complete room is dressed |
| Presence and invitations | `connections`, `socketToPuuid`, `friendsMap`, `user:<puuid>` channels, `inviteRateLimits` | `identify`, `disconnect`, `send-room-invite`, cleanup timer | one identity per socket; channels follow identities; friends' views agree; invites are paced |
| Socket rate limiter | three token buckets per socket | `allow` | bounds what a socket can make the server do in any window; answers as buckets filled by a timer would |
| Versioned broadcasts | `socketVersions`; what each client was last told | `registerClientVersion`, `forgetClientVersion`, `createRoomStatePayload`, `emitVersionedToRoom` and the handlers that call it | whoever listens to a room knows it as it is, in the version it speaks; the map of versions does not outlive the sockets |
| Safe handlers, validation, tokens | none | wrap every handler | a rejected event changes nothing |
| Shutdown | two timers | SIGTERM, SIGINT | clients are told before the sockets close |
| HTTP configuration, logging | none of interest | | |
| Simulator (`tools/simulator`) | fake clients with a copy of the room each, `DraftOrchestrator` with its queue | room-states, picks in three waits, auto-follow, the operator's menu | followers end up on different champions, none is forgotten, a client believes of itself what the server shows |

Components meet in few places. `disconnect` runs the room half and then the
presence half, each in a `try` of its own, and neither reads the other's state.
`send-room-invite` reads `socketToMember`, only to reject. The lifecycle never
reads the draft; the draft depends on the lifecycle through the set of members.
Every handler that changes a room ends in a broadcast, except the REST routes
and `disconnect`; the simulator knows the server only by these broadcasts.

## 2. Modules

| Module | Models | Status |
|---|---|---|
| `RoomLifecycle` | membership, ownership, timers, socket bindings, sweep | written, checked, proved |
| `Broadcast` (extends `RoomLifecycle`) | the same with versions, the content of rooms and what each socket was told | written, checked, proved |
| `SeatLease` | what a room promises a player, abstractly | implemented by `Broadcast`, checked and proved |
| `RoomActivity` (extends `RoomLifecycle`) | the same with draft events and the time since anybody did anything | written, checked |
| `Presence` | identities, channels, friends' views, invite limit | written, checked, proved |
| `Draft` | selections, synergy, combos of one open room | written, checked, proved |
| `AutoFollow` | the simulator: fake clients, orchestrator, menu | written, checked, proved |
| `RoomLifecycleProofs`, `RoomClientsProofs` | theorems about `RoomLifecycle` | proved |
| `RateLimiter` | the three token buckets of a socket | written, checked, proved |
| `EventBudget` | what the limiter promises, abstractly | implemented by `RateLimiter`, checked and proved |
| `BroadcastProofs`, `SeatLeaseProofs` | theorems about `Broadcast`, and that it implements `SeatLease` | proved |
| `PresenceProofs`, `LimiterProofs`, `DraftProofs`, `AutoFollowProofs` | theorems about `Presence`, `RateLimiter`, `Draft` and `AutoFollow` | proved |
| `MC*` | constants, symmetry for TLC | |

### RoomLifecycle

Variables have the names of the fields they stand for. A room's 8-letter code is
a second name of its id; the keys of `rooms` and `roomsByCode` change together.
A `Date.now()` stamp becomes the age of the entry, advanced by `Tick`; `Absent`
(-1) says that the Map has no entry. `randomUUID` has a new id for every join
and never runs out; an instance has a few, so `RecycleId` makes an id new again
once no room and no entry of `socketToMember` names it. Nothing else in the
server remembers a member id, so an id drawn again stands for one never seen;
`joinSeq` and the join numbers above the recycled one move down with it, since
only their order is read. A room id may likewise be drawn again once the room is
closed and no socket is left in its channel. Names appear only through `NameOf`
and `bannedNames`.

Each REST route and each socket event that changes membership or bindings is an
action; `Sweep` is the whole timer callback, for all rooms, with the sockets of
the expired rooms cut after it. Cutting a socket runs its disconnect handler
synchronously, which is why `RemoveMember` and `Sweep` mark the fallen seats;
`kick-member` deletes the bindings first and therefore marks nobody.

Two things are assumptions on clients, since the handlers check a member's token
and never the socket, and they are constants so that runs and theorems can lift
them: `Overlap` (a client may attach a new socket before the server has seen the
old one fall) and `Roaming` (a socket that holds a seat may ask for another).
The runs without them show what the server guarantees to orderly clients; the
violation runs show what breaks without each.

Bots come from a route that is not mounted in production. They are kept because
they can inherit a room: a bot is never pending and never has a socket.

### Broadcast

`FeedNext` has one action per action of `RoomLifecycle`, which it conjoins with
what the handler does to the feed, and `Change` for the five draft events, which
leave the lifecycle alone. `content` is what a `room-state` says besides members
and owner; `Recompute` lets it become anything, so the results hold for any
draft. `Strip` is the one thing an adapter takes away (`lockedSkin`, before
version 3). `Serialized` is `createRoomStatePayload` as the handler evaluates
it, after its changes; `Emit` sends it to the sockets that are in the channel at
that moment. `view` is external: what a client of the room was sent last.
Socket.IO keeps the order of what it sends to one socket, and a socket whose
messages are lost is one that fell; so nothing is reordered or lost in between.

The REST routes send nothing, so a client may know less than the server: a seat
taken over REST shows when its socket comes. `ViewsAreCurrent` says exactly how
much less. Left out: what a socket is told of a room it is just leaving (a last
`room-state`, `room-closed`, `kicked`), and the events that carry no state
(`group-apply-combo`, `color-suggestion-received`).

### SeatLease

One seat: `none`, `pending`, `held` or `grace`, how long it has been so, whether
its room is open, and the time since the sweep. `Collect` takes a seat exactly
when it is due or its room closes. `LeaseOf` in `Broadcast` is the refinement
mapping: it reads the bindings and the two Maps of timers. A seat with neither
socket nor timer maps to `forgotten`, which `SeatLease` does not have, so
`SeatsLast` is false as soon as there is one; and a member with a socket that is
marked disconnected maps to `held`, so an eviction of it is no step of the lease.

### RoomActivity

Adds `DraftEvent`, which leaves every variable of `RoomLifecycle` alone
(`touchRoom` has no caller), and a history variable `quiet`, the time since the
last successful request on a room.

### Presence

`identify` is one action with everything its handler does: release the old id,
store the new one and the list of its payload, answer with the online friends,
notify them. Any list of `FriendList` may come with any `identify`: lists grow
and shrink from one `identify` of an id to the next, need not be mutual and may
name the id itself. What a client shows (`seenOnline`) is external: it is what it
was last told. Three history variables are there for the properties: `unannounced`
has the ids given up by a second `identify`, whose friends are told nothing;
`lastList` the list an id sent last; `earlier` the online ids an id found when it
identified. `sinceInvite` is the true time since the last invite of a pair; the
handler reads `inviteRateLimits` (`inviteAge`), which the cleanup prunes.

`NoGhostFriend` says exactly when a client may show an id that is offline. Since
`disconnect` notifies the leaver's stored list and nobody else, a friendship that
is younger than the leaver's last `identify` leaves a ghost: p identifies, q
identifies with p in its list and p's list does not name q, both show each other
(`NoMissedFriend`), p leaves, and q's client is not told. That is the third
disjunct; whoever is in the leaver's last list is rid of it, whatever earlier
lists said.

### Draft

One open room. Members join and leave freely (removals of several at once stand
for a sweep); by `OwnerIsOldest` a room always has a seated owner, so the
owner's requests carry no member. A look is an option with its chroma or without
(`"chroma"`, `"plain"`), or a pick of the player's own. `SynergyOf` is
what `recomputeSynergy` publishes: participants per colour and per skin line, at
least two, and Base only if no other line is shared. `Collected` are the colours
it goes through: it stops at `MAX_DISTINCT_AURA_COLORS` (`MaxColors`), and which
colours it has by then depends on the order of members and options, so the model
allows every order. `colorsTruncated` remembers that the last computation left
colours out, as the variable of that name in the code. `JoinRoom` and
`UpdateSelection` do **not** recompute, as in the code. The random choice of a
combo and of an option is a choice by `\E`. Lists are sets: their order (coverage, combinationCount)
decides nothing else on the server. Coverage itself, which is stale after a join
for the same reason, names and the payload of `group-apply-combo` are left out.
`UnreadyHaveNothing` is why the three generators that look for options alone and
`applyColorSynergy`, which looks for `ready` too, agree. Options belong to a
champion (`ChampionOf`): the server never checks it, the desktop client sends the
options of the champion it names; a list with championId 0, which the handler
takes as well, is then empty.

`SynergyIsComplete` has two exceptions, both the code's. After a computation that
exceeded the cap a shared colour may be unpublished - not just the ones past the
cap in some fixed order: options may be voided since, so that fewer colours than
the cap are left and the list still lacks one. And Base is unpublished next to
another line. An entry that is published is never one participant short.

### AutoFollow

One room of the server, of which only the champions in its `room-state` matter
(`selected`), and the simulator's process: each fake's own copy of the room
(`latestRoomState`), the room-states on their way to it (`inbox`, in order), its
`lifecycle` and `championId`, and the orchestrator's `queue` and `current`. A
pick is in one of three waits: `choosing` (skin lines of all champions, begun by
`Begin`), `naming` (the champion's name) and `building` (its skins and chromas).
`Choose`, `Announce`, `Finish` and `Fail` are the continuations; what a pick
excludes (`avoid`) was read before its first wait, as in the code. An auto-pick
and a pick by hand of one client may be under way together. `Request` is
`requestPick`, for each of a set of clients in any order (`Orders`), `RunQueue` the loop of `runQueue` up to its next pick, with its
re-validation; `WakeUp` is the end of `gapMs`. The menu's commands are actions;
the menu waits for the picks it starts (`MenuFree`).

Three constants are assumptions. `Prompt`: room-states, which stay on localhost,
land before a request for skins is answered and before `gapMs` is over. It
stands for a real request: the cache of `cdragon.service.ts` would answer within
the process for a champion fetched before, if that champion had no chromas
(their colours are fetched each time); caches are left out, and in that one case
nothing keeps a room-state from landing later than the answer.
`Meddling` off: the operator does not pick by hand for a client that follows.
`MaxInFlight`: a bound, the room-states that may be on their way to a client
when the operator or the player acts. Scores are left out: a pick is any
champion not excluded. Left out too: `[A]`, kicks and `room-closed`, locks,
combos and suggestions, `handleSpawnError`, the caches and all prompts.

### RateLimiter and EventBudget

A token is measured by the time its refill takes, so that levels are integers:
`Cost` is 50, 200 and 5000 ms for the global, expensive and identify buckets,
`Full` is 60, 20 and 5 times that. `Allow` is `allow` with every `tryConsume` it
makes: a bucket that is asked is credited with the time since it was last asked
(`sinceRefill`), refused or not, and the event's own bucket is asked only after
the global one has paid. `EventBudget` is the promise without the laziness:
buckets that fill by themselves, an event that passes exactly when all its
buckets can pay. `Level` is the refinement mapping. `spent` and `window` are an
observer's, who may start a window at any moment. The limiter is a socket's own:
who reconnects starts with full buckets, in the code as in `Init`. Rounding of
floating-point levels and steps of the system clock are left out.

## 3. Runs

| Run | Instance | Shows |
|---|---|---|
| `lifecycle` | `Broadcast`: 1 room, 3 members, 2 sockets (of versions 1 and 7, which is clamped to 3), 3 seats, 2 contents, no overlap, no roaming | the type invariants, ownership, no forgotten seat, grace only while away, no silent listener, timers served in time, a reconnected member is never evicted; every seat is a `SeatLease`; whoever listens knows the room; versions are of the living |
| `loose` | 2 rooms, 2 members, 2 sockets, overlap and roaming | the timers match the seats whatever clients do; a room nobody listens to closes, unless seats in it are taken over REST forever (liveness) |
| `stale_disconnect` | overlap allowed | **violated**: a member with a live socket is evicted |
| `roaming_seat` | roaming allowed | **violated**: a seat without socket and without timer |
| `room_ttl` | 1 room | **violated**: a room in use is closed as inactive |
| `presence` | 3 sockets, 3 players, 4 friends lists (nobody, a, b, everybody), the invites of one pair | identities one to one, personal channels, friends' views under changing and one-sided lists, paced invites |
| `limiter` | 3 kinds of events, capacities of 3, 2 and 1 events, prices 2, 3 and 4, windows up to 4 | every window is paced; the lazy buckets implement `EventBudget` |
| `draft` | 3 members, 2 champions, 3 options, 2 colours of which 1 is collected, 2 lines, history of 1 | the lists are grounded, and complete but for the cap and Base, nobody has options without being ready, combos fit champions, locks hold, an automatic combo is worn by all its participants |
| `draft_participants` | as `draft` | **violated**: a listed member has no option of the colour |
| `draft_departure` | as `draft` | **violated**: a room completed by a departure is not dressed |
| `autofollow` | 2 fakes and the player, 3 champions of which 2 have themed skins, `Prompt`, no `Meddling`, `MaxInFlight` 0 | picks are sequential, followers differ, none is forgotten, clients believe the server |
| `thin_air` | 2 fakes, 2 champions, as `autofollow` | **violated**: after a reset a client picks although nobody is in champion select |

Bounds, and why they suffice. Time is counted in units of 30 s; `lifecycle` has
the true ratios (pending 4, grace 3, sweep 2) except for the room's six hours,
which are 4 units (5 in `room_ttl`), so that expiry, eviction and reconnection
all race. Its 277,072 states hold an owner with a choice of heirs, a takeover of
a seat by the other socket, two evictions in one sweep, and both payloads of a
locked room side by side. A second room adds nothing to what clients are told,
since no action changes two rooms but the sweep; the proofs are for any number. `loose`
shortens them (room 3, pending and grace 2, sweep 1) to keep two rooms tractable.
Three members in one room let an owner leave with a choice of heirs. There are as
many ids as seats: with more, joins would only be refused, which changes no
state, and ids that are free again are drawn again. In `lifecycle` a member's
name is its own; a kicked player who comes back is its id drawn again, and is
refused. Two sockets are what an overlap or a takeover needs. Three sockets and
three players let a socket re-identify while two others watch; four lists are
enough for lists that name each other, one side only, nobody or their own sender.
Only one pair's invites are followed (`InvitePair`), since pairs do not share
anything but the cleanup; the limit and the cleanup period are 2 units.
In `draft` the second set of options shares a colour and no line with the
first, which makes the colour fallback happen; two owners of the first set list
two colours, one more than is collected, and which one is kept is open. Base is
shared only next to another line in this instance, and no list is empty, so a
client that names champion 0 sends nothing there; the proofs cover both.
In `limiter` every token takes several units of time to earn, so buckets are
asked at levels between two tokens; a window of 4 earns two more global events
than the capacity. `MaxWindow` bounds the observer's window,
not the time: another window may begin whenever one is full.
In `autofollow` two fakes are what a collision needs, and two themed champions
for the two of them let candidates run out when the player takes one; the third
champion is one that only the player or a pick by hand can have. With
`MaxInFlight` 0 the operator and the player act when all room-states have
landed; those of the picks, of the orchestrator and of a reset (one for each
client, in a row) still interleave with everything the process does, which is
how `thin_air` fails. 1.8 million states.

The counters `joinSeq`, ages and histories need no bound of their own: join
numbers are compacted with the ids, the sweep resets or removes what ages, and
the histories are trimmed.

Fairness. `RoomLifecycle` and `RoomActivity` state it for two things: time
passes (`Tick`) and the callback of the sweep timer runs when it is due
(`Sweep`). Both are weak fairness, and both are what `setInterval` gives: its
callback runs in a `try` and the timer is re-armed whatever it does. Clients owe
nothing: they may never come back. `DesertedRoomCloses` (run `loose`) needs it.
It has an exception that no fairness removes: `POST /rooms/join` resets
`lastActivityAt` for a seat nobody ever attaches to, so somebody who keeps taking
seats over REST keeps a room open that no socket listens to. Without the first
disjunct of the property TLC finds that behaviour, in which a pending seat is
swept, its id is recycled and the seat taken again.
`AutoFollow` states weak fairness for `Deliver`, `Answer` and `WakeUp`: messages
arrive, requests to Community Dragon are answered or refused, timers fire; the
operator and the player owe nothing. Its properties are safety properties, the
one about followers included: `NoForgottenFollower` says that somebody who must
still act for a follower exists, which is what the fairness then makes act.
The other specifications state no fairness and check none.

No run turns deadlock checking off: time can always pass.

## 4. Proofs

TLAPS checks every step of eight modules. The assumptions are those on constants
(`SortAssumption`, `BoundAssumption`, `BroadcastAssumption`,
`PresenceAssumption`, `ListAssumption`, `BudgetAssumption`,
`DraftAssumption`, `SimulatorAssumption`), which TLC evaluates in the runs.

* `RoomLifecycleProofs`. `LifecycleInv` is inductive: typing, join numbers
  (handed out once, increasing), `SeatsAreLive` (a member id sits in one live
  room at most), `BindingsAreLive` (an entry of `socketToMember` belongs to a
  connected socket in the room's channel, and its member id never sits in another
  room), `OwnerIsOldest`, `TimersMatchSeats`. The strengthening is needed
  because a promotion picks the smallest `joinedAt`, which is the oldest only if
  numbers are unique and grow; and because a cut socket may mark a seat, which
  must be a seat of the room that stays. It yields `TypeCorrect`,
  `OwnershipSuccession` and `TimersAgreeWithSeats`, with no assumption on
  clients. `SweepIsTimely` follows: a timer is past its limit by less than the
  time since the last sweep (`TimersInPhase`), hence by less than a period.
* `RoomClientsProofs`. Under `~Roaming`, `SeatsAreAccountedFor`; under
  `~Overlap`, `OneSocketPerSeat` is inductive with the lifecycle invariant, and
  gives `GraceMeansGone` and the action property `ReconnectedStays`; under both,
  `ListenersAreSeated`. The theorems carry the assumption in their statement, and
  the violation runs show that it is necessary.
* `BroadcastProofs`. Every step of `Broadcast` is a step of `RoomLifecycle` or
  leaves it alone (`LifecycleCarriesOver`), so `LifecycleInv` holds of it.
  `FeedInv` adds typing, `VersionsAreOfTheLiving` and `ViewsAreCurrent`, and is
  inductive as it stands: a handler that changes a room either tells all its
  listeners (`SentKnows`) or changes only what the view need not know
  (`StillKnows`, `ToldKnows`). No assumption on clients is used.
* `SeatLeaseProofs`. `SeatsAreLeases`: under `~Overlap` and `~Roaming`, every
  step of `Broadcast` is for every seat a step of `SeatLease` or a stutter. It
  rests on `Orderly`, the invariants of `RoomClientsProofs` together: without
  `NoForgottenSeat` a seat could have no counterpart, without
  `GraceOnlyWhileAway` one that is held could be collected, without
  `NoSilentListener` a cut socket could be another seat's. That both assumptions are necessary is what `stale_disconnect` and
  `roaming_seat` show.
* `DraftProofs`. `DraftInv` is inductive: typing, `SynergyIsGrounded`,
  `SynergyIsComplete` with its two exceptions, and `ChoicesAreLive` (only seated members have options,
  and only those who are ready, of the champion they play). The lists hold by
  `SynergyHolds` when they are recomputed; when they are not, after a join or a
  selection, because options only become fewer and the lists shared by fewer
  options are within the old ones (`SharingGrows`). The cap may be any number,
  and the colours kept under it any that some order gives. `CombosFit`, `LocksHold` and
  `AutoApplyMatches` are action properties from the same invariant: a combo
  draws from a member's present options, so it fits although the list it is on
  may be stale.
* `PresenceProofs`. `PresenceInv` is inductive: with `OneToOne` and the personal
  channels it says that an online id has the list it sent last stored, that a
  client without an identity shows nobody, and that of two online ids exactly one
  found the other (`Ordered`). The first is what lets the notifications of
  `disconnect` reach every client that shows the leaver and is in its list. No
  theorem assumes anything of the lists but that they are sets of ids
  (`ListAssumption`). `InvitePacing` is an action property from `Paced`, which
  relates the pruned Map to the true time since the last invite.
* `LimiterProofs`. `EveryWindowIsPaced` from `PacedInv`: what a bucket has paid
  and what it holds together never exceed its capacity and the window; without
  the second part a full bucket could be spent twice. `LazyBucketsAreEager`:
  every step of `RateLimiter` is a step or a stutter of `EventBudget` under
  `Level`, for all capacities and prices.

* `AutoFollowProofs`. Three invariants, each on top of the one before.
  `SafeInv` needs no assumption on the operator: typing; one auto-pick at a time,
  that of `current`; a client without sockets knows nothing; and the last
  room-state under way to a client, or the one it has if there is none, is the
  truth (`TheLastWordIsTrue`). It yields `SimulatorTypes` and
  `PicksAreSequential`. `CarefulInv` (`~Meddling`) adds for each client that its
  picks exclude each other and fit what it and the server hold of its champion
  (`PickIsSound`), and that a follower in the lobby waits for something: a pick,
  the queue, a room-state, or somebody to be in champion select
  (`WaitsForSomething`). With the last word it yields `NoFollowerIsForgotten`,
  and `ClientsBelieveTheServer`. `FollowInv` (`~Meddling`, `Prompt`) is the
  argument of the comment in `cli.ts`: a client dressed by auto-follow
  (`Settled`) is known to all as it is and will be in all that is under way
  (`TheSettledAreKnown`), the pick under way avoids it (`TheSettledAreAvoided`),
  and so the settled differ. A client becomes settled only when all room-states
  have landed (`SettledByAutoFollow`), which is where `Prompt` is needed, and
  while nobody else's auto-pick is under way; every other step leaves the settled
  as they are (`SettledStay`). `FollowersEndUpApart` follows. The number of
  room-states under way, which the run bounds by 0, is not bounded by anything
  the proofs use. Both assumptions are necessary: on the instance of the run with
  `Meddling = TRUE`, TLC finds each of `FollowersDiffer`, `NoForgottenFollower`
  and `BelievesTheServer` violated, and `FollowersDiffer` with `Prompt = FALSE`.

Only model-checked: `DesertedRoomCloses` (liveness is out of the prover's
reach). Of what the violation runs refute, `ReconnectedIsNeverEvicted` and
`NoForgottenSeat` are proved under the assumption that the run lifts; the others
have no theorem.

## 5. Not modelled, and why

* **Safe handlers, validation, tokens.** A handler validates its payload and
  checks the member's token before its first change of state, and a rejected
  event changes nothing; the models take the requests that pass. Validation is a
  pure function of the shape of a payload, which the models abstract.
* **The limiter in front of the handlers.** It only drops events, and no action
  of a client is assumed to happen in the other modules.
* **Shutdown.** It ends the process and all state with it; nothing is persisted
  that a restart could find wrong. What handlers do in the 300 ms between the
  message and the end is lost with the rest.
* **HTTP server, CORS, IP rate limits, logging.** Configuration of libraries and
  pure output.
* **Of the broadcasts**: `group-apply-combo`, `color-suggestion-received`,
  `kicked` and `room-closed`, which carry no state that a client must agree on;
  thus the kind of combo announced for `skinLineId` 0 is in the hazards of
  `PROJECT.json` without a property.
* **Of presence**: the rejection `already_in_room`, which lets through or
  suppresses one invite and changes nothing.
* **Of the simulator**: `[A]`, which bypasses the orchestrator; kicks and
  `room-closed`; locks, combos and suggestions; the scores of candidates; the
  caches and retries of `cdragon.service.ts`; the prompts of `pickers.ts`. A pick
  by hand for a client that follows (`Meddling`) is in the model, but off in the
  runs: three of the properties do not hold with it (section 4) and the
  simulator's README promises nothing there. Nor is the half-failed pick repaired
  (`BelievesTheServer` leaves it out).

## 6. What is left

1. `group-apply-combo` in `Draft`: its picks and its type, as what a client last
   applied against what the room shows of it.
2. The composition of presence and rooms that `already_in_room` reads.
3. The simulator's `[A]`, `kicked` and `room-closed`.
