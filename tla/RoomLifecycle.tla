---------------------------- MODULE RoomLifecycle ----------------------------
(***************************************************************************)
(* Who sits in a room, who owns it, which socket speaks for whom, and when *)
(* the periodic sweep takes a seat back.                                   *)
(*                                                                         *)
(* The module models the lifecycle half of RoomService (room.service.ts),  *)
(* the room-related Socket.IO handlers of server.ts with the map           *)
(* socketToMember, and the sweep timer.  The draft half of a room          *)
(* (selections, options, synergy, history) is derived data that no guard   *)
(* below reads.                                                            *)
(*                                                                         *)
(* Node runs every handler to completion, so a handler is one action.  The *)
(* continuations that evictMemberSockets and kick-member run after their   *)
(* fetchSockets() are part of the handler's action: they are microtasks,   *)
(* they run before any packet of another socket is dispatched, and the     *)
(* packets of the emitting socket that may precede them do not touch the   *)
(* bindings they walk.                                                     *)
(*                                                                         *)
(* Time is counted in units of 30 s.  The program keeps Date.now() stamps  *)
(* and compares now - since; the model keeps the differences (ages), which *)
(* the clock action Tick advances.                                         *)
(***************************************************************************)
EXTENDS Integers, FiniteSets, Functions

CONSTANTS
  Room,          \* room ids; the 8-letter code is a second name of the same room
  Member,        \* member ids (randomUUID)
  Socket,        \* Socket.IO connections
  Name,          \* display names, trimmed and lowercased
  NameOf,        \* the name a member id was created with
  NoMember,      \* the owner of a room that does not exist
  NoSeat,        \* a socket without an entry in socketToMember
  MaxRooms,      \* MAX_ROOMS
  MaxMembers,    \* the 5 of joinRoom and addBots
  PendingTTL,    \* PENDING_MEMBER_TTL_MS
  Grace,         \* DISCONNECT_GRACE_MS
  RoomTTL,       \* ROOM_TTL_MS
  SweepPeriod,   \* ROOM_SWEEP_INTERVAL_MS
  Overlap,       \* may a client attach a new socket before the server has
                 \* seen the old one fall?
  Roaming        \* may a socket that holds a seat ask for another one?

ASSUME SortAssumption ==
  /\ NoMember \notin Member
  /\ NoSeat \notin Room \X Member
  /\ NameOf \in [Member -> Name]

ASSUME BoundAssumption ==
  /\ IsFiniteSet(Member)
  /\ MaxRooms \in Nat \ {0} /\ MaxMembers \in Nat \ {0}
  /\ PendingTTL \in Nat \ {0} /\ Grace \in Nat \ {0}
  /\ RoomTTL \in Nat \ {0} /\ SweepPeriod \in Nat \ {0}
  /\ Overlap \in BOOLEAN /\ Roaming \in BOOLEAN

VARIABLES
  rooms,               \* keys of RoomService.rooms and of roomsByCode
  ownerId,             \* Room.ownerId
  members,             \* keys of Room.members
  pendingMembers,      \* Room.pendingMembers, as the age of each entry
  disconnectedMembers, \* Room.disconnectedMembers, as the age of each entry
  bannedNames,         \* Room.bannedNames
  idleAge,             \* now - Room.lastActivityAt
  joinSeq,             \* RoomService.joinSeq
  joinedAt,            \* Member.joinedAt; 0 for an id not drawn yet
  bots,                \* ids made by addBots: no client speaks for them
  connected,           \* sockets the server believes connected
  socketToMember,      \* the map of that name, NoSeat where it has no entry
  channel,             \* the Socket.IO rooms a socket has joined
  sinceSweep           \* time since the sweep timer last fired

roomVars   == <<rooms, ownerId, members, bannedNames, idleAge>>
timerVars  == <<pendingMembers, disconnectedMembers>>
joinVars   == <<joinSeq, joinedAt, bots>>
socketVars == <<connected, socketToMember, channel>>
vars == <<roomVars, timerVars, joinVars, socketVars, sinceSweep>>

Seat    == Room \X Member
Absent  == -1                    \* the Map has no entry for this member
Age     == Nat \cup {Absent}
NoEntry == [m \in Member |-> Absent]

TypeOK ==
  /\ rooms \in SUBSET Room
  /\ ownerId \in [Room -> Member \cup {NoMember}]
  /\ members \in [Room -> SUBSET Member]
  /\ pendingMembers \in [Room -> [Member -> Age]]
  /\ disconnectedMembers \in [Room -> [Member -> Age]]
  /\ bannedNames \in [Room -> SUBSET Name]
  /\ idleAge \in [Room -> Nat]
  /\ joinSeq \in Nat
  /\ joinedAt \in [Member -> Nat]
  /\ bots \in SUBSET Member
  /\ connected \in SUBSET Socket
  /\ socketToMember \in [Socket -> Seat \cup {NoSeat}]
  /\ channel \in [Socket -> SUBSET Room]
  /\ sinceSweep \in 0..SweepPeriod

-----------------------------------------------------------------------------
(* Helpers *)

Drawn(m) == joinedAt[m] # 0

\* A room id nobody remembers: randomUUID and generateRoomCode never return
\* the id or the code of a live room, and a closed room's id is dead once no
\* socket is left in its channel.
UnusedRoom(r) ==
  /\ r \notin rooms
  /\ \A s \in Socket : r \notin channel[s]

InChannel(r) == {s \in connected : r \in channel[s]}

\* info?.memberId === memberId
SpeaksFor(s, m) == \E r \in Room : socketToMember[s] = <<r, m>>

\* Mutant: the sort the other way round.
NewestMember(S) == CHOOSE m \in S : \A n \in S : joinedAt[m] >= joinedAt[n]

\* Room.members sorted by joinedAt, first entry.
OldestMember(S) == CHOOSE m \in S : \A n \in S : joinedAt[m] <= joinedAt[n]

\* The seats whose disconnect handler runs when the sockets of S fall.
SeatsOf(S) == {socketToMember[s] : s \in S} \ {NoSeat}

\* Mutant: a fallen socket opens no grace period.
MarkNobody(entries, seats, seated) == entries

\* markMemberDisconnected for each of these seats: it does nothing for a
\* member that is not in `seated`, the membership at that moment.
MarkDisconnected(entries, seats, seated) ==
  [r \in Room |-> [m \in Member |->
    IF <<r, m>> \in seats /\ m \in seated[r] THEN 0 ELSE entries[r][m]]]

\* Mutant: the entry outlives its reason.
Remember(entries, r, m) == entries

Forget(entries, r, m) == [entries EXCEPT ![r][m] = Absent]

\* Mutant: the members are removed, their sockets are left in the channel.
NoSocketOfMember(r, m) == {}

\* The live sockets of a member, as fetchSockets() of the room finds them.
SocketsOfMember(r, m) == {s \in InChannel(r) : SpeaksFor(s, m)}

\* The sockets of S are cut: each leaves every channel and loses its entry.
CutSockets(S) ==
  /\ connected' = connected \ S
  /\ socketToMember' =
       [s \in Socket |-> IF s \in S THEN NoSeat ELSE socketToMember[s]]
  /\ channel' = [s \in Socket |-> IF s \in S THEN {} ELSE channel[s]]

\* Mutant: the limit itself does not count.
PastDue(age, ttl) == age > ttl

\* now - since >= ttl
Overdue(age, ttl) == age >= ttl

Older(age) == IF age = Absent THEN Absent ELSE age + 1
OlderEntries(entries) ==
  [r \in Room |-> [m \in Member |-> Older(entries[r][m])]]

-----------------------------------------------------------------------------
Init ==
  /\ rooms = {}
  /\ ownerId = [r \in Room |-> NoMember]
  /\ members = [r \in Room |-> {}]
  /\ pendingMembers = [r \in Room |-> NoEntry]
  /\ disconnectedMembers = [r \in Room |-> NoEntry]
  /\ bannedNames = [r \in Room |-> {}]
  /\ idleAge = [r \in Room |-> 0]
  /\ joinSeq = 0
  /\ joinedAt = [m \in Member |-> 0]
  /\ bots = {}
  /\ connected = {}
  /\ socketToMember = [s \in Socket |-> NoSeat]
  /\ channel = [s \in Socket |-> {}]
  /\ sinceSweep = 0

(* The REST routes *)

\* POST /rooms: a room with its owner, who has yet to attach a socket.
CreateRoom(r, m) ==
  /\ Cardinality(rooms) < MaxRooms
  /\ UnusedRoom(r) /\ ~Drawn(m)
  /\ rooms' = rooms \cup {r}
  /\ ownerId' = [ownerId EXCEPT ![r] = m]
  /\ members' = [members EXCEPT ![r] = {m}]
  /\ joinSeq' = joinSeq + 1
  /\ joinedAt' = [joinedAt EXCEPT ![m] = joinSeq + 1]
  /\ pendingMembers' = [pendingMembers EXCEPT ![r] = [NoEntry EXCEPT ![m] = 0]]
  /\ disconnectedMembers' = [disconnectedMembers EXCEPT ![r] = NoEntry]
  /\ bannedNames' = [bannedNames EXCEPT ![r] = {}]
  /\ idleAge' = [idleAge EXCEPT ![r] = 0]
  /\ UNCHANGED <<bots, socketVars, sinceSweep>>

\* POST /rooms/join: a seat without a socket, in pendingMembers until one comes.
JoinRoom(r, m) ==
  /\ r \in rooms /\ ~Drawn(m)
  /\ NameOf[m] \notin bannedNames[r]
  /\ Cardinality(members[r]) < MaxMembers
  /\ members' = [members EXCEPT ![r] = @ \cup {m}]
  /\ joinSeq' = joinSeq + 1
  /\ joinedAt' = [joinedAt EXCEPT ![m] = joinSeq + 1]
  /\ pendingMembers' = [pendingMembers EXCEPT ![r][m] = 0]
  /\ idleAge' = [idleAge EXCEPT ![r] = 0]
  /\ UNCHANGED <<rooms, ownerId, disconnectedMembers, bannedNames, bots,
                 socketVars, sinceSweep>>

\* POST /rooms/:code/bots (not mounted in production): the owner fills up to
\* the free seats.  A bot is never pending, and nothing marks activity.
AddBots(r, m) ==
  /\ r \in rooms /\ m \in members[r] /\ ownerId[r] = m /\ m \notin bots
  /\ \E added \in 1..MaxMembers :
       /\ Cardinality(members[r]) + added <= MaxMembers
       /\ \E new \in SUBSET {n \in Member : ~Drawn(n)} :
          \E stamp \in Bijection(new, (joinSeq + 1)..(joinSeq + added)) :
            /\ members' = [members EXCEPT ![r] = @ \cup new]
            /\ bots' = bots \cup new
            /\ joinedAt' = [n \in Member |->
                              IF n \in new THEN stamp[n] ELSE joinedAt[n]]
       /\ joinSeq' = joinSeq + added
  /\ UNCHANGED <<rooms, ownerId, timerVars, bannedNames, idleAge, socketVars,
                 sinceSweep>>

(* Sockets and their events *)

\* randomUUID has a new id for every join, this instance has a few: an id that
\* no room and no socket names any more is new again.  Of the join numbers only
\* the order is ever read, so the ones above its own move up.
RecycleId(m) ==
  /\ Drawn(m)
  /\ \A r \in Room : m \notin members[r]
  /\ \A r \in Room, s \in Socket : socketToMember[s] # <<r, m>>
  /\ joinSeq' = joinSeq - 1
  /\ joinedAt' = [n \in Member |->
       IF n = m THEN 0
       ELSE IF joinedAt[n] > joinedAt[m] THEN joinedAt[n] - 1 ELSE joinedAt[n]]
  /\ bots' = bots \ {m}
  /\ UNCHANGED <<roomVars, timerVars, socketVars, sinceSweep>>

Connect(s) ==
  /\ s \notin connected
  /\ connected' = connected \cup {s}
  /\ UNCHANGED <<roomVars, timerVars, joinVars, socketToMember, channel,
                 sinceSweep>>

\* What clients do with their sockets.  The handlers check a token and never
\* the socket, so these are assumptions on clients, lifted by the constants.
MayAttach(s, r, m) ==
  /\ m \notin bots
  /\ Roaming \/ socketToMember[s] \in {NoSeat, <<r, m>>}
  /\ Overlap \/ \A t \in connected \ {s} : socketToMember[t] # <<r, m>>

\* Mutant: a reconnection does not cancel the grace period.
JoinSocketOnly(s, r, m) ==
  /\ s \in connected /\ r \in rooms /\ m \in members[r]
  /\ MayAttach(s, r, m)
  /\ channel' = [channel EXCEPT ![s] = @ \cup {r}]
  /\ socketToMember' = [socketToMember EXCEPT ![s] = <<r, m>>]
  /\ pendingMembers' = Forget(pendingMembers, r, m)
  /\ idleAge' = [idleAge EXCEPT ![r] = 0]
  /\ UNCHANGED <<rooms, ownerId, members, disconnectedMembers, bannedNames,
                 joinVars, connected, sinceSweep>>

\* "join-room", with markMemberConnected.
JoinSocket(s, r, m) ==
  /\ s \in connected /\ r \in rooms /\ m \in members[r]
  /\ MayAttach(s, r, m)
  /\ channel' = [channel EXCEPT ![s] = @ \cup {r}]
  /\ socketToMember' = [socketToMember EXCEPT ![s] = <<r, m>>]
  /\ pendingMembers' = Forget(pendingMembers, r, m)
  /\ disconnectedMembers' = Forget(disconnectedMembers, r, m)
  /\ idleAge' = [idleAge EXCEPT ![r] = 0]
  /\ UNCHANGED <<rooms, ownerId, members, bannedNames, joinVars, connected,
                 sinceSweep>>

\* removeMember, with closeRoom when the last member goes; `fallen` are the
\* seats whose sockets the calling handler cuts after it.
RemoveMember(r, m, fallen) ==
  LET rest   == members[r] \ {m}
      seated == [members EXCEPT ![r] = rest]
      MarkFallen(entries) == MarkDisconnected(entries, fallen, seated)
  IN  /\ members' = seated
      /\ pendingMembers' = Forget(pendingMembers, r, m)
      /\ disconnectedMembers' = MarkFallen(Forget(disconnectedMembers, r, m))
      /\ IF rest = {}
         THEN /\ rooms' = rooms \ {r}
              /\ ownerId' = [ownerId EXCEPT ![r] = NoMember]
              /\ idleAge' = [idleAge EXCEPT ![r] = 0]
         ELSE /\ ownerId' = [ownerId EXCEPT ![r] =
                               IF m = @ THEN OldestMember(rest) ELSE @]
              /\ UNCHANGED <<rooms, idleAge>>

\* "leave-room", handleMemberLeave and evictMemberSockets: every socket of the
\* member leaves the channel; the emitting socket loses its entry whatever
\* seat that entry names; a room left empty cuts every socket in its channel.
LeaveRoom(s, r, m) ==
  /\ s \in connected /\ r \in rooms /\ m \in members[r] /\ m \notin bots
  /\ Roaming \/ socketToMember[s] \in {NoSeat, <<r, m>>}
  /\ LET unbound == SocketsOfMember(r, m) \cup {s}
         cut     == IF members[r] = {m} THEN InChannel(r) ELSE {}
     IN  /\ RemoveMember(r, m, SeatsOf(cut))
         /\ connected' = connected \ cut
         /\ socketToMember' = [t \in Socket |->
              IF t \in cut \cup unbound THEN NoSeat ELSE socketToMember[t]]
         /\ channel' = [t \in Socket |->
              IF t \in cut THEN {}
              ELSE IF t \in unbound THEN channel[t] \ {r} ELSE channel[t]]
  /\ bannedNames' = [bannedNames EXCEPT ![r] =
                       IF members[r] = {m} THEN {} ELSE @]
  /\ UNCHANGED <<joinVars, sinceSweep>>

\* "kick-member": the name is banned, the member removed, and its sockets lose
\* their entry before they are cut, so their disconnect handlers do nothing.
KickMember(r, m, target) ==
  /\ connected # {}
  /\ r \in rooms /\ m \in members[r] /\ m \notin bots
  /\ ownerId[r] = m
  /\ target \in members[r] \ {ownerId[r]}
  /\ bannedNames' = [bannedNames EXCEPT ![r] = @ \cup {NameOf[target]}]
  /\ RemoveMember(r, target, {})
  /\ CutSockets(SocketsOfMember(r, target))
  /\ UNCHANGED <<joinVars, sinceSweep>>

\* "disconnect": a fallen socket opens the grace period of its member.
Disconnect(s) ==
  /\ s \in connected
  /\ disconnectedMembers' =
       MarkDisconnected(disconnectedMembers, SeatsOf({s}), members)
  /\ CutSockets({s})
  /\ UNCHANGED <<roomVars, pendingMembers, joinVars, sinceSweep>>

(* The clock and the sweep timer *)

\* Mutant: the timer's callback may be skipped.
TickOn ==
  /\ sinceSweep' = sinceSweep + 1
  /\ pendingMembers' = OlderEntries(pendingMembers)
  /\ disconnectedMembers' = OlderEntries(disconnectedMembers)
  /\ idleAge' = [r \in Room |-> IF r \in rooms THEN idleAge[r] + 1 ELSE 0]
  /\ UNCHANGED <<rooms, ownerId, members, bannedNames, joinVars, socketVars>>

Tick ==
  /\ sinceSweep < SweepPeriod
  /\ sinceSweep' = sinceSweep + 1
  /\ pendingMembers' = OlderEntries(pendingMembers)
  /\ disconnectedMembers' = OlderEntries(disconnectedMembers)
  /\ idleAge' = [r \in Room |-> IF r \in rooms THEN idleAge[r] + 1 ELSE 0]
  /\ UNCHANGED <<rooms, ownerId, members, bannedNames, joinVars, socketVars>>

NeverCame(r) == {m \in Member : Overdue(pendingMembers[r][m], PendingTTL)}
NotBack(r)   == {m \in Member : Overdue(disconnectedMembers[r][m], Grace)}
Remaining(r) == members[r] \ (NeverCame(r) \cup NotBack(r))
Emptied      == {r \in rooms : Remaining(r) = {}}
Expired      == {r \in rooms : Overdue(idleAge[r], RoomTTL)} \ Emptied

\* Mutant: the sweep's own writes count as activity.
IdleReset(open) == [r \in Room |-> 0]

\* The sweep closes rooms and evicts members without calling touch.
IdleAfterSweep(open) == [r \in Room |-> IF r \in open THEN idleAge[r] ELSE 0]

\* The timer callback: RoomService.sweep over every room, then the sockets of
\* the rooms it closed as inactive are cut.  An emptied room cuts nothing.
Sweep ==
  /\ sinceSweep = SweepPeriod
  /\ sinceSweep' = 0
  /\ LET open   == rooms \ (Emptied \cup Expired)
         cut    == UNION {InChannel(r) : r \in Expired}
         seated == [r \in Room |-> IF r \in open THEN Remaining(r) ELSE {}]
         Without(entries, gone) ==
           [m \in Member |-> IF m \in gone THEN Absent ELSE entries[m]]
         Kept(r, entries) == IF r \in open THEN entries ELSE NoEntry
     IN  /\ rooms' = open
         /\ members' = seated
         /\ ownerId' = [r \in Room |->
              IF r \notin open THEN NoMember
              ELSE IF ownerId[r] \in Remaining(r) THEN ownerId[r]
                   ELSE OldestMember(Remaining(r))]
         /\ pendingMembers' = [r \in Room |->
              Kept(r, Without(pendingMembers[r], NeverCame(r)))]
         /\ disconnectedMembers' = MarkDisconnected(
              [r \in Room |-> Kept(r, Without(disconnectedMembers[r], NotBack(r)))],
              SeatsOf(cut), seated)
         /\ bannedNames' = [r \in Room |-> IF r \in open THEN bannedNames[r] ELSE {}]
         /\ idleAge' = IdleAfterSweep(open)
         /\ CutSockets(cut)
  /\ UNCHANGED joinVars

-----------------------------------------------------------------------------
\* Everything that takes no time.
Handler ==
  \/ \E r \in Room, m \in Member : CreateRoom(r, m)
  \/ \E r \in Room, m \in Member : JoinRoom(r, m)
  \/ \E r \in Room, m \in Member : AddBots(r, m)
  \/ \E m \in Member : RecycleId(m)
  \/ \E s \in Socket : Connect(s)
  \/ \E s \in Socket, r \in Room, m \in Member : JoinSocket(s, r, m)
  \/ \E s \in Socket, r \in Room, m \in Member : LeaveRoom(s, r, m)
  \/ \E r \in Room, m, target \in Member : KickMember(r, m, target)
  \/ \E s \in Socket : Disconnect(s)
  \/ Sweep

Next == Handler \/ Tick

\* Time passes and the timer's callback runs: nothing else is owed by anyone.
Fairness == WF_vars(Tick) /\ WF_vars(Sweep)

Spec == Init /\ [][Next]_vars /\ Fairness

-----------------------------------------------------------------------------
(* What the rest of the program relies on *)

Holds(s, r, m) == s \in connected /\ socketToMember[s] = <<r, m>>

\* A live room has an owner, the owner sits in it, and nobody in it came
\* earlier: ownership only ever passes to the next in line, however seats were
\* lost (removeMember, sweep) and whatever order sockets came back in.
OwnerIsOldest ==
  \A r \in rooms :
    /\ ownerId[r] \in members[r]
    /\ \A m \in members[r] \ {ownerId[r]} : joinedAt[ownerId[r]] < joinedAt[m]

\* The three Maps of a room agree: a timer belongs to a seated member, one
\* member never has both timers, and the never-attached timer is gone for
\* good once a socket spoke for the member (markMemberConnected), so that the
\* sweep cannot take a joined member's seat for never having come.
TimersMatchSeats ==
  \A r \in Room, m \in Member :
    /\ pendingMembers[r][m] # Absent =>
         /\ m \in members[r]
         /\ disconnectedMembers[r][m] = Absent
         /\ \A s \in Socket : socketToMember[s] # <<r, m>>
    /\ disconnectedMembers[r][m] # Absent => m \in members[r]

\* Nobody keeps a seat unseen: a member without a live socket has a timer
\* running, so the sweep gets the seat back.
NoForgottenSeat ==
  \A r \in rooms : \A m \in members[r] \ bots :
    \/ pendingMembers[r][m] # Absent
    \/ disconnectedMembers[r][m] # Absent
    \/ \E s \in Socket : Holds(s, r, m)

\* The grace period runs only for members that are really gone.
GraceOnlyWhileAway ==
  \A r \in Room, m \in Member :
    disconnectedMembers[r][m] # Absent => ~ \E s \in Socket : Holds(s, r, m)

\* Every socket that hears a room's broadcasts speaks for a member of it, so
\* that the owner can expel it (the comment above evictMemberSockets).
NoSilentListener ==
  \A r \in Room : \A s \in InChannel(r) : \E m \in members[r] : Holds(s, r, m)

\* The sweep comes round in time: no timer outlives its limit by a period.
TimersServedInTime ==
  \A r \in Room :
    /\ idleAge[r] < RoomTTL + SweepPeriod
    /\ \A m \in Member :
         /\ pendingMembers[r][m] < PendingTTL + SweepPeriod
         /\ disconnectedMembers[r][m] < Grace + SweepPeriod

\* Join numbers are handed out once, in increasing order (nextJoinedAt).
JoinOrder ==
  /\ \A m \in Member : joinedAt[m] <= joinSeq
  /\ \A m, n \in Member : Drawn(m) /\ joinedAt[m] = joinedAt[n] => m = n

\* A member id sits in one room at most, and only in a live one.
SeatsAreLive ==
  /\ \A r \in Room : \A m \in members[r] : r \in rooms /\ Drawn(m)
  /\ \A q, r \in Room : members[q] \cap members[r] # {} => q = r

\* An entry of socketToMember belongs to a connected socket in the channel of
\* its room, and names a member id of that room, past or present.
BindingsAreLive ==
  /\ \A s \in Socket, r \in Room, m \in Member : socketToMember[s] = <<r, m>> =>
       /\ s \in connected /\ r \in channel[s] /\ Drawn(m)
       /\ \A q \in Room : m \in members[q] => q = r
  /\ \A s \in Socket \ connected : channel[s] = {}

\* The inductive invariant behind the theorems that need no assumption on
\* clients.
LifecycleInv ==
  /\ TypeOK /\ JoinOrder /\ SeatsAreLive /\ BindingsAreLive
  /\ OwnerIsOldest /\ TimersMatchSeats

\* Without overlapping sockets a seat has one voice.
OneSocketPerSeat ==
  \A s, t \in Socket, r \in Room, m \in Member :
    socketToMember[s] = <<r, m>> /\ socketToMember[t] = <<r, m>> => s = t

\* How far a timer can be past its limit depends on how long ago the sweep ran.
TimersInPhase ==
  \A r \in Room :
    /\ idleAge[r] < RoomTTL + sinceSweep
    /\ \A m \in Member :
         /\ pendingMembers[r][m] < PendingTTL + sinceSweep
         /\ disconnectedMembers[r][m] < Grace + sinceSweep

\* The comment on sweep: a member that has reconnected is never evicted from a
\* room that stays open.
SparesReconnected ==
  Sweep => \A r \in rooms', m \in Member :
    m \in members[r] \ members'[r] => ~ \E s \in Socket : Holds(s, r, m)
ReconnectedIsNeverEvicted == [][SparesReconnected]_vars

\* Somebody takes a seat in this room over REST.
Joins(r) == \E m \in Member : JoinRoom(r, m)

\* A room without a single live socket does not last: it closes, or someone
\* attaches to it - unless seats in it are taken over REST again and again,
\* each of which counts as activity.  Whatever its members' sockets do
\* elsewhere, and whether or not their seats have timers, nothing else keeps a
\* deserted room open.
DesertedRoomCloses ==
  \A r \in Room :
    \/ []<><<Joins(r)>>_vars
    \/ (r \in rooms /\ InChannel(r) = {}) ~> (r \notin rooms \/ InChannel(r) # {})
=============================================================================
