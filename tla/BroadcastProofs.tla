--------------------------- MODULE BroadcastProofs ---------------------------
(***************************************************************************)
(* Theorems about Broadcast: what its clients know of a room, with no      *)
(* assumption on how they use their sockets.                               *)
(***************************************************************************)
EXTENDS Broadcast, RoomLifecycleProofs

(* Broadcasts only add to the lifecycle. *)

LEMMA FeedStep == [FeedNext]_broadcastVars => [Next]_vars
<1> SUFFICES ASSUME [FeedNext]_broadcastVars PROVE Next \/ UNCHANGED vars
  OBVIOUS
<1>1. ASSUME NEW r \in Room, NEW m \in Member, Create(r, m) PROVE Next
  BY <1>1 DEF Create, Next, Handler
<1>2. ASSUME NEW r \in Room, NEW m \in Member, TakeSeat(r, m) PROVE Next
  BY <1>2 DEF TakeSeat, Next, Handler
<1>3. ASSUME NEW r \in Room, NEW m \in Member, FillWithBots(r, m) PROVE Next
  BY <1>3 DEF FillWithBots, Next, Handler
<1>4. ASSUME NEW s \in Socket, Open(s) PROVE Next
  BY <1>4 DEF Open, Next, Handler
<1>5. ASSUME NEW s \in Socket, NEW r \in Room, NEW m \in Member, Attach(s, r, m) PROVE Next
  BY <1>5 DEF Attach, Next, Handler
<1>6. ASSUME NEW r \in Room, Change(r) PROVE UNCHANGED vars
  BY <1>6 DEF Change
<1>7. ASSUME NEW s \in Socket, NEW r \in Room, NEW m \in Member, Leave(s, r, m) PROVE Next
  BY <1>7 DEF Leave, Next, Handler
<1>8. ASSUME NEW r \in Room, NEW m \in Member, NEW target \in Member, Kick(r, m, target) PROVE Next
  BY <1>8 DEF Kick, Next, Handler
<1>9. ASSUME NEW s \in Socket, Fall(s) PROVE Next
  BY <1>9 DEF Fall, Next, Handler
<1>10. CASE Elapse
  BY <1>10 DEF Elapse, Next
<1>11. CASE Collect
  BY <1>11 DEF Collect, Next, Handler
<1>12. CASE UNCHANGED broadcastVars
  BY <1>12 DEF broadcastVars
<1>13. ASSUME NEW m \in Member, Recycle(m) PROVE Next
  BY <1>13 DEF Recycle, Next, Handler
<1> QED
  BY <1>1, <1>2, <1>3, <1>4, <1>5, <1>6, <1>7, <1>8, <1>9, <1>10, <1>11, <1>12, <1>13
  DEF FeedNext

\* So every state of Broadcast satisfies the invariant of the lifecycle.
LEMMA FeedLifecycle == FeedSpec => []LifecycleInv
<1>1. FeedInit => Init
  BY DEF FeedInit
<1> QED BY <1>1, InitInv, FeedStep, NextInv, PTL DEF FeedSpec

-----------------------------------------------------------------------------
(* Types of what a handler does to the feed. *)

LEMMA RecomputeType ==
  ASSUME FeedTypeOK, NEW R \in SUBSET Room, Recompute(R)
  PROVE  /\ content' \in [Room -> Content]
         /\ \A r \in rooms' \cap Room : r \notin R => content'[r] = content[r]
<1>1. PICK c \in [R -> Content] : content' = [r \in Room |->
        IF r \notin rooms' THEN Fresh ELSE IF r \in R THEN c[r] ELSE content[r]]
  BY DEF Recompute
<1> QED BY <1>1, BroadcastAssumption DEF FeedTypeOK

LEMMA ForsakeType ==
  ASSUME FeedTypeOK, NEW S, Forsake(S)
  PROVE  /\ socketVersions' \in [Socket -> EventVersion \cup {Unregistered}]
         /\ \A s \in Socket : socketVersions'[s] = IF s \in S THEN Unregistered
                                                   ELSE socketVersions[s]
BY DEF Forsake, FeedTypeOK

LEMMA ClampRange == \A v \in Int : Clamp(v) \in EventVersion
BY DEF Clamp, EventVersion, CURRENT_EVENT_VERSION

LEMMA VersionRange ==
  ASSUME FeedTypeOK, NEW s \in Socket
  PROVE  VersionOf(s) \in EventVersion
<1>1. socketVersions[s] \in EventVersion \cup {Unregistered}
  BY DEF FeedTypeOK
<1> QED BY <1>1 DEF VersionOf, EventVersion, CURRENT_EVENT_VERSION, Unregistered

\* A room-state is sent of live rooms, or to nobody.
LEMMA EmitType ==
  ASSUME LifecycleInv', FeedTypeOK, content' \in [Room -> Content],
         NEW R \in SUBSET Room, Emit(R),
         \A r \in R : r \in rooms' \/ \A s \in Socket : r \notin channel'[s]
  PROVE  /\ view' \in [Socket -> [Room -> RoomState \cup {Nothing}]]
         /\ \A s \in Socket, r \in Room : r \in channel'[s] =>
              view'[s][r] = IF r \in R THEN Serialized(r, s) ELSE view[s][r]
<1>1. view' = [s \in Socket |-> [r \in Room |->
        IF r \notin channel'[s] THEN Nothing
        ELSE IF r \in R THEN Serialized(r, s) ELSE view[s][r]]]
  BY DEF Emit
<1>2. ASSUME NEW s \in Socket, NEW r \in R, r \in channel'[s]
      PROVE  Serialized(r, s) \in RoomState
  <2>1. VersionOf(s) \in EventVersion
    BY VersionRange
  <2>2. r \in rooms' /\ r \in Room
    BY <1>2
  <2>3. ownerId'[r] \in Member /\ members'[r] \in SUBSET Member
    BY <2>2 DEF LifecycleInv, OwnerIsOldest, TypeOK
  <2>4. Payload(content'[r], VersionOf(s)) \in Content
    BY <2>2, BroadcastAssumption DEF Payload
  <2> QED BY <2>1, <2>3, <2>4 DEF Serialized, RoomState
<1>3. \A s \in Socket, r \in Room : view[s][r] \in RoomState \cup {Nothing}
  BY DEF FeedTypeOK
<1> QED BY <1>1, <1>2, <1>3

-----------------------------------------------------------------------------
(* What a socket knows of a room. *)

Knows(s, r) ==
  LET told == view[s][r]
  IN  /\ told # Nothing
      /\ told.version = socketVersions[s]
      /\ told.owner = ownerId[r]
      /\ told.seats \subseteq members[r]
      /\ members[r] \ told.seats \subseteq Unannounced(r)
      /\ bots \cap members[r] \subseteq told.seats =>
           told.content = Payload(content[r], socketVersions[s])

LEMMA ToldKnows ==
  ASSUME NEW s, NEW r, view'[s][r] = Serialized(r, s),
         socketVersions'[s] = socketVersions[s], socketVersions[s] \in EventVersion
  PROVE  Knows(s, r)'
<1>1. VersionOf(s) = socketVersions[s] /\ socketVersions[s] # 0
  BY DEF VersionOf, EventVersion, Unregistered, CURRENT_EVENT_VERSION
<1>2. Serialized(r, s) # Nothing
  <2>1. Serialized(r, s).version # Nothing.version
    BY <1>1 DEF Serialized, Nothing, Unregistered
  <2> QED BY <2>1
<1> QED BY <1>1, <1>2 DEF Knows, Serialized

\* What was sent last stays true while the owner and the members stay, but for
\* members that are not announced yet; with a bot more, the content may change.
LEMMA StillKnows ==
  ASSUME NEW s, NEW r, Knows(s, r),
         view'[s][r] = view[s][r], socketVersions'[s] = socketVersions[s],
         ownerId'[r] = ownerId[r], members[r] \subseteq members'[r],
         \A m \in members'[r] \ members[r] : m \in Unannounced(r)',
         \A m \in Unannounced(r) : m \in Unannounced(r)',
         bots \cap members[r] \subseteq bots',
         \/ content'[r] = content[r]
         \/ \E m \in bots' \cap members'[r] : m \notin members[r]
  PROVE  Knows(s, r)'
<1> DEFINE told == view[s][r]
<1>1. members'[r] \ told.seats \subseteq Unannounced(r)'
  BY DEF Knows
<1>2. ASSUME bots' \cap members'[r] \subseteq told.seats
      PROVE  told.content = Payload(content'[r], socketVersions[s])
  <2>1. told.seats \subseteq members[r]
    BY DEF Knows
  <2>2. content'[r] = content[r]
    BY <1>2, <2>1
  <2>3. bots \cap members[r] \subseteq told.seats
    BY <1>2
  <2> QED BY <2>2, <2>3 DEF Knows
<1> QED BY <1>1, <1>2 DEF Knows

FeedInv == LifecycleInv /\ FeedTypeOK /\ VersionsAreOfTheLiving /\ ViewsAreCurrent

LEMMA ViewsAreKnown ==
  ViewsAreCurrent <=> \A r \in rooms : \A s \in InChannel(r) : Knows(s, r)
BY DEF ViewsAreCurrent, Knows

LEMMA FeedInvInit == FeedInit => FeedInv
<1> SUFFICES ASSUME FeedInit PROVE FeedInv
  OBVIOUS
<1>1. LifecycleInv
  BY InitInv DEF FeedInit
<1>2. FeedTypeOK
  BY BroadcastAssumption DEF FeedInit, FeedTypeOK
<1>3. VersionsAreOfTheLiving /\ ViewsAreCurrent
  BY DEF FeedInit, Init, VersionsAreOfTheLiving, ViewsAreCurrent
<1> QED BY <1>1, <1>2, <1>3 DEF FeedInv

LEMMA KnownNext ==
  ASSUME \A r \in rooms' : \A s \in InChannel(r)' : Knows(s, r)'
  PROVE  ViewsAreCurrent'
BY DEF ViewsAreCurrent, Knows

\* A step that leaves a room alone, or only makes it older.
LEMMA SameRoom ==
  ASSUME NEW s, NEW r, Knows(s, r),
         view'[s][r] = view[s][r], socketVersions'[s] = socketVersions[s],
         ownerId'[r] = ownerId[r], members'[r] = members[r],
         bots \cap members[r] \subseteq bots',
         content'[r] = content[r],
         \A m \in members[r] : pendingMembers[r][m] # Absent => pendingMembers'[r][m] # Absent
  PROVE  Knows(s, r)'
<1>1. \A m \in Unannounced(r) : m \in Unannounced(r)'
  BY DEF Unannounced
<1> QED BY <1>1, StillKnows

LEMMA Registered ==
  ASSUME FeedInv, NEW s \in connected
  PROVE  s \in Socket /\ socketVersions[s] \in EventVersion
BY DEF FeedInv, LifecycleInv, TypeOK, FeedTypeOK, VersionsAreOfTheLiving

FeedGoal == FeedTypeOK /\ VersionsAreOfTheLiving /\ ViewsAreCurrent

LEMMA CreateFeed ==
  ASSUME FeedInv, LifecycleInv', NEW r0 \in Room, NEW m0 \in Member, Create(r0, m0)
  PROVE  FeedGoal'
<1>1. CreateRoom(r0, m0) /\ UNCHANGED feedVars
  BY DEF Create
<1>2. FeedTypeOK' /\ VersionsAreOfTheLiving'
  BY <1>1 DEF FeedInv, feedVars, FeedTypeOK, CreateRoom, socketVars, VersionsAreOfTheLiving
<1>3. ASSUME NEW r \in rooms', NEW s \in InChannel(r)' PROVE Knows(s, r)'
  <2>1. s \in connected /\ r \in channel[s] /\ s \in Socket
    BY <1>1, <1>3 DEF CreateRoom, socketVars, InChannel, FeedInv, LifecycleInv, TypeOK
  <2>2. r # r0 /\ r \in rooms
    BY <1>1, <2>1 DEF CreateRoom, UnusedRoom
  <2>3. Knows(s, r)
    BY <2>1, <2>2, ViewsAreKnown DEF InChannel, FeedInv
  <2> QED
    BY <1>1, <2>2, <2>3, SameRoom
    DEF CreateRoom, feedVars, FeedInv, LifecycleInv, TypeOK
<1> QED BY <1>2, <1>3, KnownNext DEF FeedGoal

LEMMA TakeSeatFeed ==
  ASSUME FeedInv, LifecycleInv', NEW r0 \in Room, NEW m0 \in Member, TakeSeat(r0, m0)
  PROVE  FeedGoal'
<1>1. JoinRoom(r0, m0) /\ UNCHANGED feedVars
  BY DEF TakeSeat
<1>2. FeedTypeOK' /\ VersionsAreOfTheLiving'
  BY <1>1 DEF FeedInv, feedVars, FeedTypeOK, JoinRoom, socketVars, VersionsAreOfTheLiving
<1>3. ASSUME NEW r \in rooms', NEW s \in InChannel(r)' PROVE Knows(s, r)'
  <2>1. r \in rooms /\ r \in Room /\ Knows(s, r)
    BY <1>1, <1>3, ViewsAreKnown DEF JoinRoom, socketVars, InChannel, FeedInv, LifecycleInv, TypeOK
  <2>2. CASE r # r0
    BY <1>1, <2>1, <2>2, SameRoom DEF JoinRoom, feedVars, FeedInv, LifecycleInv, TypeOK
  <2>3. CASE r = r0
    <3>1. members'[r] = members[r] \cup {m0} /\ pendingMembers'[r][m0] = 0
      BY <1>1, <2>3 DEF JoinRoom, FeedInv, LifecycleInv, TypeOK
    <3>2. \A m \in Member \ {m0} : pendingMembers'[r][m] = pendingMembers[r][m]
      BY <1>1, <2>3 DEF JoinRoom, FeedInv, LifecycleInv, TypeOK
    <3>3. \A m \in Unannounced(r) : m \in Unannounced(r)'
      BY <1>1, <2>1, <3>1, <3>2 DEF JoinRoom, Unannounced, Absent, FeedInv, LifecycleInv, TypeOK
    <3>4. m0 \in Unannounced(r)'
      BY <3>1 DEF Unannounced, Absent
    <3> QED
      BY <1>1, <2>1, <3>1, <3>3, <3>4, StillKnows DEF JoinRoom, feedVars
  <2> QED BY <2>2, <2>3
<1> QED BY <1>2, <1>3, KnownNext DEF FeedGoal

LEMMA FillWithBotsFeed ==
  ASSUME FeedInv, LifecycleInv', NEW r0 \in Room, NEW m0 \in Member, FillWithBots(r0, m0)
  PROVE  FeedGoal'
<1>1. AddBots(r0, m0) /\ Recompute({r0}) /\ UNCHANGED <<socketVersions, view>>
  BY DEF FillWithBots
<1>2. /\ content' \in [Room -> Content]
      /\ \A r \in rooms' \cap Room : r # r0 => content'[r] = content[r]
  BY <1>1, RecomputeType DEF FeedInv
<1>3. FeedTypeOK' /\ VersionsAreOfTheLiving'
  BY <1>1, <1>2 DEF FeedInv, FeedTypeOK, AddBots, socketVars, VersionsAreOfTheLiving
<1>4. PICK added \in 1..MaxMembers :
         \E new \in SUBSET {n \in Member : ~Drawn(n)} :
           \E stamp \in Bijection(new, (joinSeq + 1)..(joinSeq + added)) :
             /\ members' = [members EXCEPT ![r0] = @ \cup new]
             /\ bots' = bots \cup new
  BY <1>1 DEF AddBots
<1>5. PICK new \in SUBSET {n \in Member : ~Drawn(n)} :
        /\ members' = [members EXCEPT ![r0] = @ \cup new]
        /\ bots' = bots \cup new
        /\ \E stamp \in Bijection(new, (joinSeq + 1)..(joinSeq + added)) : TRUE
  BY <1>4
<1>6. new # {}
  <2>1. joinSeq + 1 \in (joinSeq + 1)..(joinSeq + added)
    BY DEF FeedInv, LifecycleInv, TypeOK
  <2>2. PICK stamp \in Bijection(new, (joinSeq + 1)..(joinSeq + added)) : TRUE
    BY <1>5
  <2>3. \E n \in new : stamp[n] = joinSeq + 1
    BY <2>1, <2>2 DEF Bijection, Surjection
  <2> QED BY <2>3
<1>7. new \cap members[r0] = {}
  BY DEF FeedInv, LifecycleInv, SeatsAreLive
<1>8. UNCHANGED <<rooms, ownerId, timerVars, socketVars>>
  BY <1>1 DEF AddBots
<1>9. ASSUME NEW r \in rooms', NEW s \in InChannel(r)' PROVE Knows(s, r)'
  <2>1. r \in rooms /\ r \in Room /\ Knows(s, r)
    BY <1>8, <1>9, ViewsAreKnown DEF socketVars, InChannel, FeedInv, LifecycleInv, TypeOK
  <2>2. CASE r # r0
    BY <1>1, <1>2, <1>5, <1>8, <1>9, <2>1, <2>2, SameRoom
    DEF timerVars, FeedInv, LifecycleInv, TypeOK
  <2>3. CASE r = r0
    <3>1. members'[r] = members[r] \cup new
      BY <1>5, <2>1, <2>3 DEF FeedInv, LifecycleInv, TypeOK
    <3>2. /\ \A m \in Unannounced(r) : m \in Unannounced(r)'
          /\ \A m \in new : m \in Unannounced(r)'
      BY <1>5, <1>8, <3>1 DEF Unannounced, timerVars
    <3>3. \E m \in bots' \cap members'[r] : m \notin members[r]
      BY <1>5, <1>6, <1>7, <2>3, <3>1
    <3> QED BY <1>1, <1>5, <1>8, <2>1, <3>1, <3>2, <3>3, StillKnows
  <2> QED BY <2>2, <2>3
<1> QED BY <1>3, <1>9, KnownNext DEF FeedGoal

LEMMA RecycleFeed ==
  ASSUME FeedInv, LifecycleInv', NEW m0 \in Member, Recycle(m0)
  PROVE  FeedGoal'
<1>1. /\ UNCHANGED <<roomVars, timerVars, socketVars, feedVars>>
      /\ bots' = bots \ {m0} /\ \A r \in Room : m0 \notin members[r]
  BY DEF Recycle, RecycleId
<1>2. FeedTypeOK' /\ VersionsAreOfTheLiving'
  BY <1>1 DEF FeedInv, feedVars, FeedTypeOK, socketVars, VersionsAreOfTheLiving
<1>3. ASSUME NEW r \in rooms', NEW s \in InChannel(r)' PROVE Knows(s, r)'
  <2>1. r \in Room /\ Knows(s, r)
    BY <1>1, <1>3, ViewsAreKnown DEF roomVars, socketVars, InChannel, FeedInv, LifecycleInv, TypeOK
  <2> QED BY <1>1, <2>1, SameRoom DEF roomVars, timerVars, feedVars
<1> QED BY <1>2, <1>3, KnownNext DEF FeedGoal

LEMMA OpenFeed ==
  ASSUME FeedInv, LifecycleInv', NEW s0 \in Socket, Open(s0)
  PROVE  FeedGoal'
<1>1. /\ Connect(s0)
      /\ socketVersions' = [socketVersions EXCEPT ![s0] = Clamp(clientVersion[s0])]
      /\ UNCHANGED <<content, view>>
  BY DEF Open
<1>2. Clamp(clientVersion[s0]) \in EventVersion
  BY ClampRange, BroadcastAssumption
<1>3. FeedTypeOK'
  BY <1>1, <1>2 DEF FeedInv, FeedTypeOK
<1>4. VersionsAreOfTheLiving'
  BY <1>1, <1>2 DEF FeedInv, FeedTypeOK, Connect, VersionsAreOfTheLiving, EventVersion, Unregistered
<1>5. ASSUME NEW r \in rooms', NEW s \in InChannel(r)' PROVE Knows(s, r)'
  <2>1. UNCHANGED <<roomVars, timerVars, joinVars, channel>> /\ connected' = connected \cup {s0}
    BY <1>1 DEF Connect
  <2>2. s # s0
    BY <1>1, <1>5, <2>1 DEF Connect, InChannel, FeedInv, LifecycleInv, BindingsAreLive
  <2>3. r \in rooms /\ r \in Room /\ Knows(s, r) /\ s \in Socket
    BY <1>5, <2>1, <2>2, ViewsAreKnown DEF roomVars, InChannel, FeedInv, LifecycleInv, TypeOK
  <2> QED
    BY <1>1, <2>1, <2>2, <2>3, SameRoom
    DEF roomVars, timerVars, joinVars, FeedInv, FeedTypeOK
<1> QED BY <1>3, <1>4, <1>5, KnownNext DEF FeedGoal

\* Whoever is sent a room-state by this step knows the room after it.
LEMMA SentKnows ==
  ASSUME FeedInv, LifecycleInv', content' \in [Room -> Content],
         NEW R \in SUBSET Room, Emit(R), NEW r \in R, NEW s \in InChannel(r)',
         s \in connected, socketVersions'[s] = socketVersions[s]
  PROVE  Knows(s, r)'
<1>1. s \in Socket /\ socketVersions[s] \in EventVersion
  BY Registered
<1>2. r \in channel'[s]
  BY DEF InChannel
<1>3. view'[s][r] = Serialized(r, s)
  BY <1>1, <1>2 DEF Emit
<1> QED BY <1>1, <1>3, ToldKnows

\* A room no room-state of this step is of.
LEMMA UnsentView ==
  ASSUME NEW R \in SUBSET Room, Emit(R), NEW r \in Room \ R, NEW s \in InChannel(r)', s \in Socket
  PROVE  view'[s][r] = view[s][r]
BY DEF Emit, InChannel

LEMMA AttachFeed ==
  ASSUME FeedInv, LifecycleInv', NEW s0 \in Socket, NEW r0 \in Room, NEW m0 \in Member,
         Attach(s0, r0, m0)
  PROVE  FeedGoal'
<1>1. JoinSocket(s0, r0, m0) /\ UNCHANGED <<content, socketVersions>> /\ Emit({r0})
  BY DEF Attach
<1>2. /\ UNCHANGED <<rooms, ownerId, members, joinVars, connected>>
      /\ r0 \in rooms
      /\ channel' = [channel EXCEPT ![s0] = @ \cup {r0}]
      /\ pendingMembers' = Forget(pendingMembers, r0, m0)
  BY <1>1 DEF JoinSocket
<1>3. FeedTypeOK'
  BY <1>1, <1>2, EmitType DEF FeedInv, FeedTypeOK
<1>4. VersionsAreOfTheLiving'
  BY <1>1, <1>2 DEF FeedInv, VersionsAreOfTheLiving
<1>5. ASSUME NEW r \in rooms', NEW s \in InChannel(r)' PROVE Knows(s, r)'
  <2>1. s \in connected /\ s \in Socket /\ r \in Room
    BY <1>2, <1>5 DEF InChannel, FeedInv, LifecycleInv, TypeOK
  <2>2. CASE r = r0
    BY <1>1, <1>3, <1>5, <2>1, <2>2, SentKnows DEF FeedTypeOK
  <2>3. CASE r # r0
    <3>1. r \in rooms /\ s \in InChannel(r)
      BY <1>2, <1>5, <2>1, <2>3 DEF InChannel, FeedInv, LifecycleInv, TypeOK
    <3>2. Knows(s, r)
      BY <3>1, ViewsAreKnown DEF FeedInv
    <3>3. pendingMembers'[r] = pendingMembers[r]
      BY <1>2, <2>1, <2>3 DEF Forget, FeedInv, LifecycleInv, TypeOK
    <3>4. view'[s][r] = view[s][r]
      BY <1>1, <1>5, <2>1, <2>3, UnsentView
    <3> QED BY <1>1, <1>2, <3>2, <3>3, <3>4, SameRoom DEF joinVars
  <2> QED BY <2>2, <2>3
<1> QED BY <1>3, <1>4, <1>5, KnownNext DEF FeedGoal

LEMMA ChangeFeed ==
  ASSUME FeedInv, LifecycleInv', NEW r0 \in Room, Change(r0)
  PROVE  FeedGoal'
<1>1. /\ r0 \in rooms /\ UNCHANGED <<vars, socketVersions>>
      /\ Recompute({r0}) /\ Emit({r0})
  BY DEF Change
<1>2. UNCHANGED <<rooms, ownerId, members, pendingMembers, bots, connected, channel>>
  BY <1>1 DEF vars, roomVars, timerVars, joinVars, socketVars
<1>3. /\ content' \in [Room -> Content]
      /\ \A r \in rooms' \cap Room : r # r0 => content'[r] = content[r]
  BY <1>1, RecomputeType DEF FeedInv
<1>4. FeedTypeOK'
  BY <1>1, <1>2, <1>3, EmitType DEF FeedInv, FeedTypeOK
<1>5. VersionsAreOfTheLiving'
  BY <1>1, <1>2 DEF FeedInv, VersionsAreOfTheLiving
<1>6. ASSUME NEW r \in rooms', NEW s \in InChannel(r)' PROVE Knows(s, r)'
  <2>1. s \in connected /\ s \in Socket /\ r \in Room
    BY <1>2, <1>6 DEF InChannel, FeedInv, LifecycleInv, TypeOK
  <2>2. CASE r = r0
    BY <1>1, <1>3, <1>6, <2>1, <2>2, SentKnows
  <2>3. CASE r # r0
    <3>1. Knows(s, r)
      BY <1>2, <1>6, ViewsAreKnown DEF FeedInv, InChannel
    <3>2. view'[s][r] = view[s][r]
      BY <1>1, <1>6, <2>1, <2>3, UnsentView
    <3> QED BY <1>1, <1>2, <1>3, <1>6, <2>1, <2>3, <3>1, <3>2, SameRoom
  <2> QED BY <2>2, <2>3
<1> QED BY <1>4, <1>5, <1>6, KnownNext DEF FeedGoal

\* What leave-room and kick-member leave of the other rooms.
LEMMA RemoveElsewhere ==
  ASSUME LifecycleInv, NEW r0 \in Room, NEW m0 \in members[r0], NEW fallen,
         RemoveMember(r0, m0, fallen), NEW r \in Room \ {r0}
  PROVE  /\ members'[r] = members[r] /\ ownerId'[r] = ownerId[r]
         /\ pendingMembers'[r] = pendingMembers[r]
         /\ r \in rooms' <=> r \in rooms
<1>1. /\ members' = [members EXCEPT ![r0] = members[r0] \ {m0}]
      /\ pendingMembers' = Forget(pendingMembers, r0, m0)
      /\ rooms' = rooms \/ rooms' = rooms \ {r0}
      /\ \E o : ownerId' = [ownerId EXCEPT ![r0] = o]
  BY DEF RemoveMember
<1> QED BY <1>1 DEF Forget, LifecycleInv, TypeOK

\* Those who stay are told, and the sockets of the other rooms hear nothing.
LEMMA RemovalKnows ==
  ASSUME FeedInv, LifecycleInv', NEW r0 \in Room, NEW m0 \in members[r0], NEW fallen,
         RemoveMember(r0, m0, fallen), UNCHANGED joinVars,
         NEW cut, connected' = connected \ cut,
         \A s \in Socket : channel'[s] \subseteq channel[s],
         \A s \in Socket : socketVersions'[s] = IF s \in cut THEN Unregistered
                                                ELSE socketVersions[s],
         content' \in [Room -> Content],
         \A r \in rooms' \cap Room : r # r0 => content'[r] = content[r],
         Emit({r0})
  PROVE  ViewsAreCurrent'
<1>1. ASSUME NEW r \in rooms', NEW s \in InChannel(r)' PROVE Knows(s, r)'
  <2>1. s \in connected /\ s \notin cut /\ s \in Socket /\ r \in Room
    BY <1>1 DEF InChannel, FeedInv, LifecycleInv, TypeOK
  <2>2. socketVersions'[s] = socketVersions[s]
    BY <2>1
  <2>3. CASE r = r0
    BY <1>1, <2>1, <2>2, <2>3, SentKnows
  <2>4. CASE r # r0
    <3>1. /\ members'[r] = members[r] /\ ownerId'[r] = ownerId[r]
          /\ pendingMembers'[r] = pendingMembers[r] /\ r \in rooms
      BY <1>1, <2>1, <2>4, RemoveElsewhere DEF FeedInv
    <3>2. r \in channel[s]
      BY <1>1, <2>1 DEF InChannel
    <3>3. Knows(s, r)
      BY <2>1, <3>1, <3>2, ViewsAreKnown DEF FeedInv, InChannel
    <3>4. view'[s][r] = view[s][r]
      BY <1>1, <2>1, <2>4, UnsentView
    <3> QED BY <1>1, <2>1, <2>2, <2>4, <3>1, <3>3, <3>4, SameRoom DEF joinVars
  <2> QED BY <2>3, <2>4
<1> QED BY <1>1, KnownNext

LEMMA LeaveFeed ==
  ASSUME FeedInv, LifecycleInv', NEW s0 \in Socket, NEW r0 \in Room, NEW m0 \in Member,
         Leave(s0, r0, m0)
  PROVE  FeedGoal'
<1> DEFINE cut == IF members[r0] = {m0} THEN InChannel(r0) ELSE {}
           unbound == SocketsOfMember(r0, m0) \cup {s0}
<1>1. LeaveRoom(s0, r0, m0) /\ Recompute({r0}) /\ Emit({r0})
  BY DEF Leave
<1>2. /\ RemoveMember(r0, m0, SeatsOf(cut)) /\ m0 \in members[r0] /\ r0 \in rooms
      /\ connected' = connected \ cut
      /\ channel' = [t \in Socket |->
           IF t \in cut THEN {}
           ELSE IF t \in unbound THEN channel[t] \ {r0} ELSE channel[t]]
      /\ UNCHANGED joinVars
  BY <1>1 DEF LeaveRoom
<1>3. r0 \in rooms' <=> members[r0] # {m0}
  BY <1>2 DEF RemoveMember
<1>4. Forsake(cut)
  BY <1>3 DEF Leave
<1> HIDE DEF unbound
<1>5. /\ content' \in [Room -> Content]
      /\ \A r \in rooms' \cap Room : r # r0 => content'[r] = content[r]
  BY <1>1, RecomputeType DEF FeedInv
<1>6. /\ socketVersions' \in [Socket -> EventVersion \cup {Unregistered}]
      /\ \A s \in Socket : socketVersions'[s] = IF s \in cut THEN Unregistered
                                                ELSE socketVersions[s]
  BY <1>4, ForsakeType DEF FeedInv
<1>7. FeedTypeOK'
  <2>1. r0 \in rooms' \/ \A s \in Socket : r0 \notin channel'[s]
    BY <1>2, <1>3 DEF InChannel, FeedInv, LifecycleInv, BindingsAreLive
  <2>2. view' \in [Socket -> [Room -> RoomState \cup {Nothing}]]
    BY <1>1, <1>5, <2>1, EmitType DEF FeedInv
  <2> QED BY <1>5, <1>6, <2>2 DEF FeedTypeOK
<1>8. VersionsAreOfTheLiving'
  BY <1>2, <1>6 DEF FeedInv, VersionsAreOfTheLiving, InChannel
<1>9. ViewsAreCurrent'
  <2>1. \A s \in Socket : channel'[s] \subseteq channel[s]
    BY <1>2
  <2> QED BY <1>1, <1>2, <1>5, <1>6, <2>1, RemovalKnows
<1> QED BY <1>7, <1>8, <1>9 DEF FeedGoal

LEMMA KickFeed ==
  ASSUME FeedInv, LifecycleInv', NEW r0 \in Room, NEW m0 \in Member, NEW target \in Member,
         Kick(r0, m0, target)
  PROVE  FeedGoal'
<1> DEFINE cut == SocketsOfMember(r0, target)
<1>1. KickMember(r0, m0, target) /\ Recompute({r0}) /\ Emit({r0}) /\ Forsake(cut)
  BY DEF Kick
<1>2. /\ RemoveMember(r0, target, {}) /\ target \in members[r0] /\ r0 \in rooms
      /\ target # m0 /\ m0 \in members[r0]
      /\ connected' = connected \ cut
      /\ channel' = [s \in Socket |-> IF s \in cut THEN {} ELSE channel[s]]
      /\ UNCHANGED joinVars
  BY <1>1 DEF KickMember, CutSockets
<1>3. r0 \in rooms'
  BY <1>2 DEF RemoveMember
<1> HIDE DEF cut
<1>4. /\ content' \in [Room -> Content]
      /\ \A r \in rooms' \cap Room : r # r0 => content'[r] = content[r]
  BY <1>1, RecomputeType DEF FeedInv
<1>5. /\ socketVersions' \in [Socket -> EventVersion \cup {Unregistered}]
      /\ \A s \in Socket : socketVersions'[s] = IF s \in cut THEN Unregistered
                                                ELSE socketVersions[s]
  BY <1>1, ForsakeType DEF FeedInv
<1>6. FeedTypeOK'
  <2>1. view' \in [Socket -> [Room -> RoomState \cup {Nothing}]]
    BY <1>1, <1>3, <1>4, EmitType DEF FeedInv
  <2> QED BY <1>4, <1>5, <2>1 DEF FeedTypeOK
<1>7. VersionsAreOfTheLiving'
  BY <1>2, <1>5 DEF FeedInv, VersionsAreOfTheLiving
<1>8. ViewsAreCurrent'
  <2>1. \A s \in Socket : channel'[s] \subseteq channel[s]
    BY <1>2
  <2> QED BY <1>1, <1>2, <1>4, <1>5, <2>1, RemovalKnows
<1> QED BY <1>6, <1>7, <1>8 DEF FeedGoal

LEMMA FallFeed ==
  ASSUME FeedInv, LifecycleInv', NEW s0 \in Socket, Fall(s0)
  PROVE  FeedGoal'
<1>1. Disconnect(s0) /\ UNCHANGED content /\ Emit({}) /\ Forsake({s0})
  BY DEF Fall
<1>2. /\ UNCHANGED <<roomVars, pendingMembers, joinVars>>
      /\ connected' = connected \ {s0}
      /\ channel' = [s \in Socket |-> IF s \in {s0} THEN {} ELSE channel[s]]
  BY <1>1 DEF Disconnect, CutSockets
<1>3. /\ socketVersions' \in [Socket -> EventVersion \cup {Unregistered}]
      /\ \A s \in Socket : socketVersions'[s] = IF s \in {s0} THEN Unregistered
                                                ELSE socketVersions[s]
  BY <1>1, ForsakeType DEF FeedInv
<1>4. FeedTypeOK'
  <2>1. view' \in [Socket -> [Room -> RoomState \cup {Nothing}]]
    BY <1>1, EmitType DEF FeedInv, FeedTypeOK
  <2> QED BY <1>1, <1>3, <2>1 DEF FeedInv, FeedTypeOK
<1>5. VersionsAreOfTheLiving'
  BY <1>2, <1>3 DEF FeedInv, VersionsAreOfTheLiving
<1>6. ASSUME NEW r \in rooms', NEW s \in InChannel(r)' PROVE Knows(s, r)'
  <2>1. /\ s \in connected /\ s # s0 /\ s \in Socket /\ r \in channel[s]
        /\ r \in rooms /\ r \in Room
    BY <1>2, <1>6 DEF InChannel, roomVars, FeedInv, LifecycleInv, TypeOK
  <2>2. Knows(s, r)
    BY <2>1, ViewsAreKnown DEF FeedInv, InChannel
  <2>3. view'[s][r] = view[s][r]
    BY <1>1, <1>6, <2>1, UnsentView
  <2> QED BY <1>1, <1>2, <1>3, <2>1, <2>2, <2>3, SameRoom DEF roomVars, joinVars
<1> QED BY <1>4, <1>5, <1>6, KnownNext DEF FeedGoal

LEMMA ElapseFeed ==
  ASSUME FeedInv, LifecycleInv', Elapse
  PROVE  FeedGoal'
<1>1. Tick /\ UNCHANGED feedVars
  BY DEF Elapse
<1>2. UNCHANGED <<rooms, ownerId, members, joinVars, socketVars>>
  BY <1>1 DEF Tick
<1>3. FeedTypeOK' /\ VersionsAreOfTheLiving'
  BY <1>1, <1>2 DEF FeedInv, feedVars, FeedTypeOK, socketVars, VersionsAreOfTheLiving
<1>4. ASSUME NEW r \in rooms', NEW s \in InChannel(r)' PROVE Knows(s, r)'
  <2>1. r \in rooms /\ r \in Room /\ Knows(s, r)
    BY <1>2, <1>4, ViewsAreKnown DEF socketVars, InChannel, FeedInv, LifecycleInv, TypeOK
  <2>2. \A m \in Member : pendingMembers[r][m] # Absent => pendingMembers'[r][m] # Absent
    BY <1>1, <2>1 DEF Tick, OlderEntries, Older, Absent, Age, FeedInv, LifecycleInv, TypeOK
  <2>3. members[r] \subseteq Member
    BY <2>1 DEF FeedInv, LifecycleInv, TypeOK
  <2> QED BY <1>1, <1>2, <2>1, <2>2, <2>3, SameRoom DEF feedVars, joinVars
<1> QED BY <1>3, <1>4, KnownNext DEF FeedGoal

LEMMA CollectFeed ==
  ASSUME FeedInv, LifecycleInv', Collect
  PROVE  FeedGoal'
<1> DEFINE changed == {r \in rooms \cap rooms' : members'[r] # members[r]}
           cut == UNION {InChannel(r) : r \in Expired}
           open == rooms \ (Emptied \cup Expired)
<1>1. Sweep /\ Recompute(changed) /\ Emit(changed) /\ Forsake(cut)
  BY DEF Collect
<1>2. /\ rooms' = open
      /\ members' = [r \in Room |-> IF r \in open THEN Remaining(r) ELSE {}]
      /\ ownerId' = [r \in Room |->
           IF r \notin open THEN NoMember
           ELSE IF ownerId[r] \in Remaining(r) THEN ownerId[r]
                ELSE OldestMember(Remaining(r))]
      /\ \A r \in open : r \in Room => pendingMembers'[r] =
           [m \in Member |-> IF m \in NeverCame(r) THEN Absent ELSE pendingMembers[r][m]]
      /\ connected' = connected \ cut
      /\ channel' = [s \in Socket |-> IF s \in cut THEN {} ELSE channel[s]]
      /\ UNCHANGED joinVars
  BY <1>1 DEF Sweep, CutSockets
<1> HIDE DEF cut
<1>3. changed \subseteq rooms' /\ changed \in SUBSET Room
  BY DEF FeedInv, LifecycleInv, TypeOK
<1>4. /\ content' \in [Room -> Content]
      /\ \A r \in rooms' \cap Room : r \notin changed => content'[r] = content[r]
  BY <1>1, <1>3, RecomputeType DEF FeedInv
<1>5. /\ socketVersions' \in [Socket -> EventVersion \cup {Unregistered}]
      /\ \A s \in Socket : socketVersions'[s] = IF s \in cut THEN Unregistered
                                                ELSE socketVersions[s]
  BY <1>1, ForsakeType DEF FeedInv
<1>6. FeedTypeOK'
  <2>1. view' \in [Socket -> [Room -> RoomState \cup {Nothing}]]
    BY <1>1, <1>3, <1>4, EmitType DEF FeedInv
  <2> QED BY <1>4, <1>5, <2>1 DEF FeedTypeOK
<1>7. VersionsAreOfTheLiving'
  BY <1>2, <1>5 DEF FeedInv, VersionsAreOfTheLiving
<1>8. ASSUME NEW r \in rooms', NEW s \in InChannel(r)' PROVE Knows(s, r)'
  <2>1. /\ s \in connected /\ s \notin cut /\ s \in Socket /\ r \in Room
        /\ r \in rooms /\ r \in open
    BY <1>2, <1>8 DEF InChannel, FeedInv, LifecycleInv, TypeOK
  <2>2. socketVersions'[s] = socketVersions[s]
    BY <1>5, <2>1
  <2>3. CASE r \in changed
    BY <1>1, <1>3, <1>4, <1>8, <2>1, <2>2, <2>3, SentKnows
  <2>4. CASE r \notin changed
    <3>1. members'[r] = members[r] /\ members[r] = Remaining(r)
      BY <1>2, <1>8, <2>1, <2>4
    <3>2. ownerId'[r] = ownerId[r]
      BY <1>2, <2>1, <3>1 DEF FeedInv, LifecycleInv, OwnerIsOldest
    <3>3. \A m \in members[r] : pendingMembers'[r][m] = pendingMembers[r][m]
      BY <1>2, <2>1, <3>1 DEF Remaining, FeedInv, LifecycleInv, TypeOK
    <3>4. Knows(s, r)
      BY <1>2, <1>8, <2>1, ViewsAreKnown DEF FeedInv, InChannel
    <3>5. view'[s][r] = view[s][r]
      BY <1>1, <1>3, <1>8, <2>1, <2>4, UnsentView
    <3> QED
      BY <1>2, <1>4, <1>8, <2>1, <2>2, <2>4, <3>1, <3>2, <3>3, <3>4, <3>5, SameRoom DEF joinVars
  <2> QED BY <2>3, <2>4
<1> QED BY <1>6, <1>7, <1>8, KnownNext DEF FeedGoal

LEMMA FeedInvNext == FeedInv /\ [FeedNext]_broadcastVars => FeedInv'
<1> SUFFICES ASSUME FeedInv, [FeedNext]_broadcastVars PROVE LifecycleInv' /\ FeedGoal'
  BY DEF FeedInv, FeedGoal
<1>1. LifecycleInv'
  BY FeedStep, NextInv DEF FeedInv
<1>2. ASSUME UNCHANGED broadcastVars PROVE FeedGoal'
  <2>1. UNCHANGED <<rooms, ownerId, members, pendingMembers, bots, connected, channel, feedVars>>
    BY <1>2 DEF broadcastVars, vars, roomVars, timerVars, joinVars, socketVars
  <2>2. FeedTypeOK' /\ VersionsAreOfTheLiving'
    BY <2>1 DEF feedVars, FeedInv, FeedTypeOK, VersionsAreOfTheLiving
  <2>3. ASSUME NEW r \in rooms', NEW s \in InChannel(r)' PROVE Knows(s, r)'
    <3>1. Knows(s, r)
      BY <2>1, <2>3, ViewsAreKnown DEF FeedInv, InChannel
    <3> QED BY <2>1, <3>1, SameRoom DEF feedVars
  <2> QED BY <2>2, <2>3, KnownNext DEF FeedGoal
<1> QED
  BY <1>1, <1>2, CreateFeed, TakeSeatFeed, FillWithBotsFeed, RecycleFeed, OpenFeed, AttachFeed,
     ChangeFeed, LeaveFeed, KickFeed, FallFeed, ElapseFeed, CollectFeed DEF FeedNext

LEMMA FeedSafe == FeedSpec => []FeedInv
BY FeedInvInit, FeedInvNext, PTL DEF FeedSpec

-----------------------------------------------------------------------------
(* The theorems *)

\* Broadcasts, versions and what clients are shown only add to the lifecycle:
\* what holds of RoomLifecycle in every step holds here.
THEOREM LifecycleCarriesOver == FeedSpec => Init /\ [][Next]_vars
<1>1. FeedInit => Init
  BY DEF FeedInit
<1> QED BY <1>1, FeedStep, PTL DEF FeedSpec

\* Every room-state is one of a live room with an owner, in a version that
\* exists.
THEOREM FeedTypes == FeedSpec => []FeedTypeOK
<1>1. FeedInv => FeedTypeOK
  BY DEF FeedInv
<1> QED BY <1>1, FeedSafe, PTL

\* Whoever listens to a room knows it as the server would serialize it now, but
\* for seats taken over REST since: whatever sockets clients open and whatever
\* seats those sockets ask for.
THEOREM ViewsStayCurrent == FeedSpec => []ViewsAreCurrent
<1>1. FeedInv => ViewsAreCurrent
  BY DEF FeedInv
<1> QED BY <1>1, FeedSafe, PTL

\* The map of registered versions has the live sockets and no other.
THEOREM VersionsDoNotPileUp == FeedSpec => []VersionsAreOfTheLiving
<1>1. FeedInv => VersionsAreOfTheLiving
  BY DEF FeedInv
<1> QED BY <1>1, FeedSafe, PTL
=============================================================================
