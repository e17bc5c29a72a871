------------------------------ MODULE Broadcast ------------------------------
(***************************************************************************)
(* RoomLifecycle seen by its clients: what the last room-state told each   *)
(* socket of the rooms it listens to, in the version its client announced. *)
(*                                                                         *)
(* A room-state is serialized while its handler runs and sent to the       *)
(* sockets in the room's channel at that moment.  Socket.IO keeps the      *)
(* order of what it sends to one socket, and a socket whose messages are   *)
(* lost is one that fell, so a view is what was last sent.  What a socket  *)
(* is told of a room it is just leaving (a last room-state, room-closed,   *)
(* kicked) is left out, and so are the events that change nothing on the   *)
(* server (suggest-color, group-apply-combo).                              *)
(*                                                                         *)
(* The routes that take a seat over REST send nothing: the others learn of *)
(* it when the newcomer's socket joins, or with any earlier room-state.    *)
(***************************************************************************)
EXTENDS RoomLifecycle

CONSTANTS
  Content,      \* what a room-state says besides members and owner
  Fresh,        \* the content of a new room
  Strip,        \* the content without lockedSkin
  clientVersion \* what each client says in its handshakes; 1 for nothing, 0
                \* and what is not a number

ASSUME BroadcastAssumption ==
  /\ Fresh \in Content /\ Strip \in [Content -> Content]
  /\ clientVersion \in [Socket -> Int]

VARIABLES
  content,         \* of the room, as serializeRoom would put it
  socketVersions,  \* the map of versionAdapter.ts, Unregistered without entry
  view             \* what a socket was told last of each room it listens to

feedVars == <<content, socketVersions, view>>
broadcastVars == <<vars, feedVars>>

Unregistered == 0
CURRENT_EVENT_VERSION == 3
EventVersion == 1..CURRENT_EVENT_VERSION

Nothing == [version |-> Unregistered]
RoomState == [version : EventVersion, owner : Member, seats : SUBSET Member,
              content : Content]

FeedTypeOK ==
  /\ content \in [Room -> Content]
  /\ socketVersions \in [Socket -> EventVersion \cup {Unregistered}]
  /\ view \in [Socket -> [Room -> RoomState \cup {Nothing}]]

-----------------------------------------------------------------------------
\* What the rooms of R say becomes something else; a room that is gone leaves
\* nothing of it.
Recompute(R) ==
  \E c \in [R -> Content] :
    content' = [r \in Room |->
      IF r \notin rooms' THEN Fresh ELSE IF r \in R THEN c[r] ELSE content[r]]

\* Mutant: the registered version is the announced one.
Unclamped(v) == v

\* registerClientVersion.
Clamp(v) ==
  IF v < 1 THEN 1 ELSE IF v > CURRENT_EVENT_VERSION THEN CURRENT_EVENT_VERSION ELSE v

\* getClientVersion.
VersionOf(s) == IF socketVersions[s] = Unregistered THEN 1 ELSE socketVersions[s]

\* createRoomStatePayload keeps lockedSkin from clients before version 3.
Payload(c, v) == IF v >= 3 THEN c ELSE Strip[c]

\* serializeRoom, once the handler has changed the room, for one socket.
Serialized(r, s) ==
  [version |-> VersionOf(s), owner |-> ownerId'[r], seats |-> members'[r],
   content |-> Payload(content'[r], VersionOf(s))]

\* emitVersionedToRoom for each room of R, to the sockets in its channel.
Emit(R) ==
  view' = [s \in Socket |-> [r \in Room |->
    IF r \notin channel'[s] THEN Nothing
    ELSE IF r \in R THEN Serialized(r, s) ELSE view[s][r]]]

-----------------------------------------------------------------------------
FeedInit ==
  /\ Init
  /\ content = [r \in Room |-> Fresh]
  /\ socketVersions = [s \in Socket |-> Unregistered]
  /\ view = [s \in Socket |-> [r \in Room |-> Nothing]]

(* The REST routes send nothing. *)

Create(r, m) ==
  /\ CreateRoom(r, m)
  /\ UNCHANGED feedVars

TakeSeat(r, m) == JoinRoom(r, m) /\ UNCHANGED feedVars

\* addBots recomputes the synergy, and nobody is told.
FillWithBots(r, m) ==
  /\ AddBots(r, m)
  /\ Recompute({r})
  /\ UNCHANGED <<socketVersions, view>>

\* An id is new again; see RecycleId.
Recycle(m) == RecycleId(m) /\ UNCHANGED feedVars

(* Sockets *)

\* "connection".
Open(s) ==
  /\ Connect(s)
  /\ socketVersions' = [socketVersions EXCEPT ![s] = Clamp(clientVersion[s])]
  /\ UNCHANGED <<content, view>>

\* Mutant: the entries of sockets that fell are kept.
ForsakeNobody(S) == UNCHANGED socketVersions

\* The sockets of S are gone, with their registered versions.
Forsake(S) ==
  socketVersions' =
    [s \in Socket |-> IF s \in S THEN Unregistered ELSE socketVersions[s]]

\* "join-room": everybody, the newcomer included, hears of the room.
Attach(s, r, m) ==
  /\ JoinSocket(s, r, m)
  /\ UNCHANGED <<content, socketVersions>>
  /\ Emit({r})

\* "update-selection", "owned-options", "request-group-reroll",
\* "apply-skin-line-synergy" and "set-skin-lock", of some seated member on any
\* socket.
Change(r) ==
  /\ connected # {} /\ r \in rooms /\ members[r] \ bots # {}
  /\ UNCHANGED vars
  /\ Recompute({r})
  /\ Emit({r})
  /\ UNCHANGED socketVersions

\* "leave-room": those who stay hear of the room; the last to leave closes it.
\* removeMember recomputes the synergy.
Leave(s, r, m) ==
  /\ LeaveRoom(s, r, m)
  /\ Recompute({r})
  /\ Emit({r})
  /\ Forsake(IF r \in rooms' THEN {} ELSE InChannel(r))

\* "kick-member": the target's sockets are cut, the others hear of the room.
Kick(r, m, target) ==
  /\ KickMember(r, m, target)
  /\ Recompute({r})
  /\ Emit({r})
  /\ Forsake(SocketsOfMember(r, target))

\* "disconnect" sends nothing to the room.
Fall(s) ==
  /\ Disconnect(s)
  /\ UNCHANGED content
  /\ Emit({})
  /\ Forsake({s})

(* Timers *)

Elapse == Tick /\ UNCHANGED feedVars

\* Mutant: an eviction is not announced.
CollectQuietly ==
  /\ Sweep
  /\ Recompute({})
  /\ Emit({})
  /\ Forsake(UNION {InChannel(r) : r \in Expired})

\* The sweep timer's callback: a room-state for the rooms that lost a member.
Collect ==
  LET changed == {r \in rooms \cap rooms' : members'[r] # members[r]}
  IN  /\ Sweep
      /\ Recompute(changed)
      /\ Emit(changed)
      /\ Forsake(UNION {InChannel(r) : r \in Expired})

FeedNext ==
  \/ \E r \in Room, m \in Member : Create(r, m)
  \/ \E r \in Room, m \in Member : TakeSeat(r, m)
  \/ \E r \in Room, m \in Member : FillWithBots(r, m)
  \/ \E m \in Member : Recycle(m)
  \/ \E s \in Socket : Open(s)
  \/ \E s \in Socket, r \in Room, m \in Member : Attach(s, r, m)
  \/ \E r \in Room : Change(r)
  \/ \E s \in Socket, r \in Room, m \in Member : Leave(s, r, m)
  \/ \E r \in Room, m, target \in Member : Kick(r, m, target)
  \/ \E s \in Socket : Fall(s)
  \/ Elapse
  \/ Collect

FeedSpec == FeedInit /\ [][FeedNext]_broadcastVars

-----------------------------------------------------------------------------
(* What a client may rely on *)

\* The members a socket of this room has not been told of: no socket of theirs
\* has come yet, or never will.
Unannounced(r) ==
  {m \in members[r] : m \in bots \/ pendingMembers[r][m] # Absent}

\* Whoever listens to a room knows it: the last room-state it was sent is what
\* the server would send it now, in its own version, but for the seats taken
\* over REST since and what they changed.
ViewsAreCurrent ==
  \A r \in rooms : \A s \in InChannel(r) :
    LET told == view[s][r]
    IN  /\ told # Nothing
        /\ told.version = socketVersions[s]
        /\ told.owner = ownerId[r]
        /\ told.seats \subseteq members[r]
        /\ members[r] \ told.seats \subseteq Unannounced(r)
        /\ bots \cap members[r] \subseteq told.seats =>
             told.content = Payload(content[r], socketVersions[s])

\* Nobody keeps a version it did not announce: the map has an entry for every
\* live socket, and for no other, so it does not grow with connections.
VersionsAreOfTheLiving ==
  \A s \in Socket : socketVersions[s] # Unregistered <=> s \in connected

\* What SeatLease calls a seat.  A seated member without socket and without
\* timer has no counterpart there.
LeaseOf(r, m) ==
  LET State(is, age) == [is |-> is, age |-> age]
  IN  IF m \notin members[r] \ bots THEN State("none", 0)
      ELSE IF \E s \in Socket : socketToMember[s] = <<r, m>> THEN State("held", 0)
      ELSE IF pendingMembers[r][m] # Absent THEN State("pending", pendingMembers[r][m])
      ELSE IF disconnectedMembers[r][m] # Absent THEN State("grace", disconnectedMembers[r][m])
      ELSE State("forgotten", 0)

Lease(r, m) == INSTANCE SeatLease WITH
  lease <- LeaseOf(r, m), open <- r \in rooms, clock <- sinceSweep

\* Every seat of every room is a lease as SeatLease has it: through joins,
\* falls, reconnections, kicks and sweeps a player keeps the seat for the whole
\* time it was promised, and not a sweep longer.
SeatsLast ==
  /\ \A r \in Room, m \in Member : Lease(r, m)!Init
  /\ [][\A r \in Room, m \in Member : Lease(r, m)!Step]_broadcastVars
=============================================================================
