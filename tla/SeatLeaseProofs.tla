--------------------------- MODULE SeatLeaseProofs ---------------------------
(***************************************************************************)
(* The rooms keep what SeatLease promises, to clients that hold one socket *)
(* per seat and one seat per socket: every step of Broadcast is a step of  *)
(* every seat's lease, or leaves it alone.                                 *)
(***************************************************************************)
EXTENDS BroadcastProofs, RoomClientsProofs

\* What is known of the rooms of orderly clients.
Orderly == LifecycleInv /\ OneVoice /\ NoForgottenSeat /\ NoSilentListener

Bound(r, m)  == \E s \in Socket : socketToMember[s] = <<r, m>>
Played(r, m) == m \in members[r] \ bots

\* LeaseOf, case by case; nobody is forgotten.
LEMMA LeaseCases ==
  ASSUME Orderly, NEW r \in Room, NEW m \in Member
  PROVE  /\ ~Played(r, m) => LeaseOf(r, m) = [is |-> "none", age |-> 0]
         /\ Played(r, m) /\ Bound(r, m) => LeaseOf(r, m) = [is |-> "held", age |-> 0]
         /\ Played(r, m) /\ ~Bound(r, m) =>
              \/ /\ pendingMembers[r][m] # Absent
                 /\ LeaseOf(r, m) = [is |-> "pending", age |-> pendingMembers[r][m]]
              \/ /\ pendingMembers[r][m] = Absent /\ disconnectedMembers[r][m] # Absent
                 /\ LeaseOf(r, m) = [is |-> "grace", age |-> disconnectedMembers[r][m]]
<1>1. ASSUME Played(r, m), ~Bound(r, m)
      PROVE  pendingMembers[r][m] # Absent \/ disconnectedMembers[r][m] # Absent
  BY <1>1 DEF Played, Bound, Orderly, LifecycleInv, SeatsAreLive, NoForgottenSeat, Holds
<1> QED BY <1>1 DEF LeaseOf, Played, Bound

\* A step that leaves a seat and its clock alone.
LEMMA Stay ==
  ASSUME NEW r \in Room, NEW m \in Member, sinceSweep' = sinceSweep,
         Played(r, m)' <=> Played(r, m),
         Played(r, m) => /\ Bound(r, m)' <=> Bound(r, m)
                         /\ pendingMembers'[r][m] = pendingMembers[r][m]
                         /\ disconnectedMembers'[r][m] = disconnectedMembers[r][m]
                         /\ r \in rooms' <=> r \in rooms
  PROVE  Lease(r, m)!Step
<1>1. LeaseOf(r, m)' = LeaseOf(r, m)
  BY DEF LeaseOf, Played, Bound
<1>2. CASE Played(r, m)
  BY <1>1, <1>2 DEF Lease!Step, Lease!seatVars
<1>3. CASE ~Played(r, m)
  <2>1. LeaseOf(r, m).is = "none"
    BY <1>3 DEF LeaseOf, Played
  <2> QED BY <1>1, <2>1 DEF Lease!Step, Lease!Next, Lease!Others
<1> QED BY <1>2, <1>3

\* A seat taken over REST.
LEMMA TakeLease ==
  ASSUME Orderly, NEW r \in Room, NEW m \in Member, ~Played(r, m), ~Bound(r, m)',
         sinceSweep' = sinceSweep, r \in rooms', pendingMembers'[r][m] = 0
  PROVE  Lease(r, m)!Step
<1>1. LeaseOf(r, m).is = "none"
  BY LeaseCases
<1>2. CASE Played(r, m)'
  <2>1. LeaseOf(r, m)' = [is |-> "pending", age |-> 0]
    BY <1>2 DEF LeaseOf, Played, Bound, Absent
  <2> QED BY <1>1, <2>1 DEF Lease!Step, Lease!Next, Lease!Take, Lease!Becomes, Lease!State
<1>3. CASE ~Played(r, m)'
  BY <1>3, Stay
<1> QED BY <1>2, <1>3

LEMMA CreateLease ==
  ASSUME Orderly, NEW r0 \in Room, NEW m0 \in Member, CreateRoom(r0, m0),
         NEW r \in Room, NEW m \in Member
  PROVE  Lease(r, m)!Step
<1> USE DEF Orderly
<1>1. /\ r0 \notin rooms /\ ~Drawn(m0)
      /\ rooms' = rooms \cup {r0} /\ members' = [members EXCEPT ![r0] = {m0}]
      /\ pendingMembers' = [pendingMembers EXCEPT ![r0] = [NoEntry EXCEPT ![m0] = 0]]
      /\ disconnectedMembers' = [disconnectedMembers EXCEPT ![r0] = NoEntry]
      /\ UNCHANGED <<bots, socketToMember, sinceSweep>>
  BY DEF CreateRoom, UnusedRoom, socketVars
<1>2. members[r0] = {}
  BY <1>1 DEF LifecycleInv, SeatsAreLive, TypeOK
<1>3. CASE r = r0 /\ m = m0
  <2>1. ~Played(r, m) /\ ~Bound(r, m)'
    BY <1>1, <1>2, <1>3 DEF Played, Bound, LifecycleInv, BindingsAreLive
  <2>2. pendingMembers'[r][m] = 0
    BY <1>1, <1>3 DEF NoEntry, LifecycleInv, TypeOK
  <2> QED BY <1>1, <1>3, <2>1, <2>2, TakeLease
<1>4. CASE r = r0 /\ m # m0
  <2>1. ~Played(r, m) /\ ~Played(r, m)'
    BY <1>1, <1>2, <1>4 DEF Played, LifecycleInv, TypeOK
  <2> QED BY <1>1, <2>1, Stay
<1>5. CASE r # r0
  <2>1. /\ members'[r] = members[r] /\ pendingMembers'[r] = pendingMembers[r]
        /\ disconnectedMembers'[r] = disconnectedMembers[r]
    BY <1>1, <1>5 DEF LifecycleInv, TypeOK
  <2> QED BY <1>1, <1>5, <2>1, Stay DEF Played, Bound
<1> QED BY <1>3, <1>4, <1>5

LEMMA JoinLease ==
  ASSUME Orderly, NEW r0 \in Room, NEW m0 \in Member, JoinRoom(r0, m0),
         NEW r \in Room, NEW m \in Member
  PROVE  Lease(r, m)!Step
<1> USE DEF Orderly
<1>1. /\ r0 \in rooms /\ ~Drawn(m0)
      /\ members' = [members EXCEPT ![r0] = @ \cup {m0}]
      /\ pendingMembers' = [pendingMembers EXCEPT ![r0][m0] = 0]
      /\ UNCHANGED <<rooms, disconnectedMembers, bots, socketToMember, sinceSweep>>
  BY DEF JoinRoom, socketVars
<1>2. m0 \notin members[r0]
  BY <1>1 DEF LifecycleInv, SeatsAreLive
<1>3. CASE r = r0 /\ m = m0
  <2>1. ~Played(r, m) /\ ~Bound(r, m)'
    BY <1>1, <1>2, <1>3 DEF Played, Bound, LifecycleInv, BindingsAreLive
  <2>2. pendingMembers'[r][m] = 0
    BY <1>1, <1>3 DEF LifecycleInv, TypeOK
  <2> QED BY <1>1, <1>3, <2>1, <2>2, TakeLease
<1>4. CASE ~(r = r0 /\ m = m0)
  <2>1. /\ m \in members'[r] <=> m \in members[r]
        /\ pendingMembers'[r][m] = pendingMembers[r][m]
    BY <1>1, <1>4 DEF LifecycleInv, TypeOK
  <2> QED BY <1>1, <2>1, Stay DEF Played, Bound
<1> QED BY <1>3, <1>4

LEMMA AddBotsLease ==
  ASSUME Orderly, NEW r0 \in Room, NEW m0 \in Member, AddBots(r0, m0),
         NEW r \in Room, NEW m \in Member
  PROVE  Lease(r, m)!Step
<1> USE DEF Orderly
<1>1. PICK added \in 1..MaxMembers :
        \E new \in SUBSET {n \in Member : ~Drawn(n)} :
          /\ members' = [members EXCEPT ![r0] = @ \cup new]
          /\ bots' = bots \cup new
  BY DEF AddBots
<1>2. PICK new \in SUBSET {n \in Member : ~Drawn(n)} :
        /\ members' = [members EXCEPT ![r0] = @ \cup new]
        /\ bots' = bots \cup new
  BY <1>1
<1>3. \A n \in new : n \notin members[r]
  BY DEF LifecycleInv, SeatsAreLive
<1>4. Played(r, m)' <=> Played(r, m)
  BY <1>2, <1>3 DEF Played, LifecycleInv, TypeOK
<1>5. UNCHANGED <<rooms, timerVars, socketToMember, sinceSweep>>
  BY DEF AddBots, socketVars
<1> QED BY <1>4, <1>5, Stay DEF Bound, timerVars

LEMMA AttachLease ==
  ASSUME Orderly, ~Roaming, NEW s0 \in Socket, NEW r0 \in Room, NEW m0 \in Member,
         JoinSocket(s0, r0, m0), NEW r \in Room, NEW m \in Member
  PROVE  Lease(r, m)!Step
<1> USE DEF Orderly
<1>1. /\ r0 \in rooms /\ m0 \in members[r0] /\ m0 \notin bots
      /\ socketToMember[s0] \in {NoSeat, <<r0, m0>>}
      /\ socketToMember' = [socketToMember EXCEPT ![s0] = <<r0, m0>>]
      /\ pendingMembers' = Forget(pendingMembers, r0, m0)
      /\ disconnectedMembers' = Forget(disconnectedMembers, r0, m0)
      /\ UNCHANGED <<rooms, members, bots, sinceSweep>>
  BY DEF JoinSocket, MayAttach, joinVars
<1>2. CASE r = r0 /\ m = m0
  <2>1. Played(r, m) /\ Played(r, m)' /\ Bound(r, m)'
    BY <1>1, <1>2 DEF Played, Bound, LifecycleInv, TypeOK
  <2>2. LeaseOf(r, m)' = [is |-> "held", age |-> 0]
    BY <2>1 DEF LeaseOf, Played, Bound
  <2>3. CASE Bound(r, m)
    <3>1. LeaseOf(r, m) = [is |-> "held", age |-> 0]
      BY <2>1, <2>3, LeaseCases
    <3> QED BY <1>1, <2>2, <3>1 DEF Lease!Step, Lease!seatVars
  <2>4. CASE ~Bound(r, m)
    <3>1. LeaseOf(r, m).is \in {"pending", "grace"}
      BY <2>1, <2>4, LeaseCases
    <3> QED
      BY <1>1, <1>2, <2>2, <3>1
      DEF Lease!Step, Lease!Next, Lease!Attach, Lease!Timed, Lease!Becomes, Lease!State
  <2> QED BY <2>3, <2>4
<1>3. CASE ~(r = r0 /\ m = m0)
  <2>1. /\ pendingMembers'[r][m] = pendingMembers[r][m]
        /\ disconnectedMembers'[r][m] = disconnectedMembers[r][m]
    BY <1>1, <1>3 DEF Forget, LifecycleInv, TypeOK
  <2>2. <<r, m>> # <<r0, m0>> /\ <<r, m>> # NoSeat
    BY <1>3, SortAssumption
  <2>3. Bound(r, m)' <=> Bound(r, m)
    BY <1>1, <2>2 DEF Bound, LifecycleInv, TypeOK
  <2> QED BY <1>1, <2>1, <2>3, Stay DEF Played
<1> QED BY <1>2, <1>3

\* removeMember for leave-room and kick-member: the seat is given up, and no
\* binding but the member's own is undone.
LEMMA RemovalLease ==
  ASSUME Orderly, NEW r0 \in Room, NEW m0 \in members[r0], NEW fallen,
         RemoveMember(r0, m0, fallen), fallen \subseteq {<<r0, m0>>},
         UNCHANGED <<joinVars, sinceSweep>>,
         \A s \in Socket : \/ socketToMember'[s] = socketToMember[s]
                           \/ /\ socketToMember'[s] = NoSeat
                              /\ socketToMember[s] = <<r0, m0>>,
         NEW r \in Room, NEW m \in Member
  PROVE  Lease(r, m)!Step
<1> USE DEF Orderly
<1> DEFINE seated == [members EXCEPT ![r0] = members[r0] \ {m0}]
<1>1. /\ members' = seated
      /\ pendingMembers' = Forget(pendingMembers, r0, m0)
      /\ disconnectedMembers' = MarkDisconnected(Forget(disconnectedMembers, r0, m0), fallen, seated)
      /\ rooms' = IF members[r0] = {m0} THEN rooms \ {r0} ELSE rooms
      /\ UNCHANGED bots
  BY DEF RemoveMember, joinVars
<1>2. m0 \in Member /\ members[r0] \in SUBSET Member
  BY DEF LifecycleInv, TypeOK
<1>3. CASE r = r0 /\ m = m0
  <2>1. ~Played(r, m)'
    BY <1>1, <1>3 DEF Played, LifecycleInv, TypeOK
  <2>2. CASE Played(r, m)
    <3>1. LeaseOf(r, m)' = [is |-> "none", age |-> 0]
      BY <2>1 DEF LeaseOf, Played
    <3>2. LeaseOf(r, m).is # "none"
      BY <2>2, LeaseCases
    <3> QED
      BY <3>1, <3>2 DEF Lease!Step, Lease!Next, Lease!GiveUp, Lease!Becomes, Lease!State
  <2>3. CASE ~Played(r, m)
    BY <2>1, <2>3, Stay
  <2> QED BY <2>2, <2>3
<1>4. CASE ~(r = r0 /\ m = m0)
  <2>1. pendingMembers'[r][m] = pendingMembers[r][m]
    BY <1>1, <1>2, <1>4 DEF Forget, LifecycleInv, TypeOK
  <2>2. disconnectedMembers'[r][m] = disconnectedMembers[r][m]
    BY <1>1, <1>2, <1>4 DEF Forget, MarkDisconnected, LifecycleInv, TypeOK
  <2>3. m \in members'[r] <=> m \in members[r]
    BY <1>1, <1>2, <1>4 DEF LifecycleInv, TypeOK
  <2>4. <<r, m>> # <<r0, m0>> /\ <<r, m>> # NoSeat
    BY <1>4, SortAssumption
  <2>5. Bound(r, m)' <=> Bound(r, m)
    BY <2>4 DEF Bound
  <2>6. Played(r, m) => (r \in rooms' <=> r \in rooms)
    BY <1>1, <1>4 DEF Played
  <2> QED BY <1>1, <2>1, <2>2, <2>3, <2>5, <2>6, Stay DEF Played
<1> QED BY <1>3, <1>4

\* The sockets of a member in its room are bound to no other seat.
LEMMA OwnSockets ==
  ASSUME Orderly, NEW r \in Room, NEW m \in members[r], NEW s \in SocketsOfMember(r, m)
  PROVE  s \in Socket /\ socketToMember[s] = <<r, m>>
<1>1. s \in Socket /\ m \in Member
  BY DEF Orderly, SocketsOfMember, InChannel, LifecycleInv, TypeOK
<1>2. PICK q \in Room : socketToMember[s] = <<q, m>>
  BY DEF SocketsOfMember, SpeaksFor
<1>3. q = r
  BY <1>1, <1>2 DEF Orderly, LifecycleInv, BindingsAreLive
<1> QED BY <1>1, <1>2, <1>3

LEMMA LeaveLease ==
  ASSUME Orderly, ~Roaming, NEW s0 \in Socket, NEW r0 \in Room, NEW m0 \in Member,
         LeaveRoom(s0, r0, m0), NEW r \in Room, NEW m \in Member
  PROVE  Lease(r, m)!Step
<1> DEFINE cut == IF members[r0] = {m0} THEN InChannel(r0) ELSE {}
           unbound == SocketsOfMember(r0, m0) \cup {s0}
<1>1. /\ RemoveMember(r0, m0, SeatsOf(cut)) /\ m0 \in members[r0]
      /\ socketToMember[s0] \in {NoSeat, <<r0, m0>>}
      /\ socketToMember' = [t \in Socket |->
           IF t \in cut \cup unbound THEN NoSeat ELSE socketToMember[t]]
      /\ UNCHANGED <<joinVars, sinceSweep>>
  BY DEF LeaveRoom
<1>2. \A t \in cut : socketToMember[t] = <<r0, m0>>
  BY DEF Orderly, NoSilentListener, Holds
<1>3. \A t \in unbound : socketToMember[t] \in {NoSeat, <<r0, m0>>}
  BY <1>1, OwnSockets
<1>4. SeatsOf(cut) \subseteq {<<r0, m0>>}
  BY <1>2 DEF SeatsOf
<1> HIDE DEF cut, unbound
<1>5. \A t \in Socket : \/ socketToMember'[t] = socketToMember[t]
                        \/ socketToMember'[t] = NoSeat /\ socketToMember[t] = <<r0, m0>>
  BY <1>1, <1>2, <1>3
<1> QED BY <1>1, <1>4, <1>5, RemovalLease

LEMMA KickLease ==
  ASSUME Orderly, NEW r0 \in Room, NEW m0 \in Member, NEW target \in Member,
         KickMember(r0, m0, target), NEW r \in Room, NEW m \in Member
  PROVE  Lease(r, m)!Step
<1>1. /\ RemoveMember(r0, target, {}) /\ target \in members[r0]
      /\ socketToMember' = [t \in Socket |->
           IF t \in SocketsOfMember(r0, target) THEN NoSeat ELSE socketToMember[t]]
      /\ UNCHANGED <<joinVars, sinceSweep>>
  BY DEF KickMember, CutSockets
<1>2. \A t \in Socket : \/ socketToMember'[t] = socketToMember[t]
                        \/ socketToMember'[t] = NoSeat /\ socketToMember[t] = <<r0, target>>
  BY <1>1, OwnSockets
<1> QED BY <1>1, <1>2, RemovalLease

LEMMA FallLease ==
  ASSUME Orderly, NEW s0 \in Socket, Disconnect(s0), NEW r \in Room, NEW m \in Member
  PROVE  Lease(r, m)!Step
<1> USE DEF Orderly
<1>1. /\ disconnectedMembers' = MarkDisconnected(disconnectedMembers, SeatsOf({s0}), members)
      /\ socketToMember' = [s \in Socket |-> IF s \in {s0} THEN NoSeat ELSE socketToMember[s]]
      /\ UNCHANGED <<rooms, members, pendingMembers, bots, sinceSweep>>
  BY DEF Disconnect, CutSockets, roomVars, joinVars
<1>2. <<r, m>> # NoSeat
  BY SortAssumption
<1>3. CASE Played(r, m) /\ socketToMember[s0] = <<r, m>>
  <2>1. Bound(r, m) /\ pendingMembers[r][m] = Absent
    BY <1>3 DEF Bound, LifecycleInv, TimersMatchSeats
  <2>2. LeaseOf(r, m) = [is |-> "held", age |-> 0]
    BY <1>3, <2>1, LeaseCases
  <2>3. ~Bound(r, m)' /\ Played(r, m)'
    BY <1>1, <1>2, <1>3 DEF Bound, Played, OneVoice, OneSocketPerSeat
  <2>4. disconnectedMembers'[r][m] = 0
    BY <1>1, <1>2, <1>3 DEF MarkDisconnected, SeatsOf, Played
  <2>5. LeaseOf(r, m)' = [is |-> "grace", age |-> 0]
    BY <1>1, <2>1, <2>3, <2>4 DEF LeaseOf, Bound, Played, Absent
  <2> QED
    BY <1>1, <2>2, <2>5 DEF Lease!Step, Lease!Next, Lease!Drop, Lease!Becomes, Lease!State
<1>4. CASE socketToMember[s0] # <<r, m>>
  <2>1. disconnectedMembers'[r][m] = disconnectedMembers[r][m]
    BY <1>1, <1>4 DEF MarkDisconnected, SeatsOf
  <2>2. Bound(r, m)' <=> Bound(r, m)
    BY <1>1, <1>2, <1>4 DEF Bound
  <2> QED BY <1>1, <2>1, <2>2, Stay DEF Played
<1>5. CASE ~Played(r, m)
  BY <1>1, <1>5, Stay DEF Played
<1> QED BY <1>3, <1>4, <1>5

\* A played seat that is pending or in grace grows older, any other stays.
LEMMA PassLease ==
  ASSUME Orderly, Tick, NEW r \in Room, NEW m \in Member
  PROVE  Lease(r, m)!Step
<1> USE DEF Orderly
<1>1. /\ sinceSweep < SweepPeriod /\ sinceSweep' = sinceSweep + 1
      /\ pendingMembers'[r][m] = Older(pendingMembers[r][m])
      /\ disconnectedMembers'[r][m] = Older(disconnectedMembers[r][m])
      /\ UNCHANGED <<rooms, members, bots, socketToMember>>
  BY DEF Tick, OlderEntries, joinVars, socketVars
<1>2. pendingMembers[r][m] \in Age /\ disconnectedMembers[r][m] \in Age
  BY DEF LifecycleInv, TypeOK
<1>3. LeaseOf(r, m)' = IF LeaseOf(r, m).is \in {"pending", "grace"}
                       THEN [LeaseOf(r, m) EXCEPT !.age = @ + 1] ELSE LeaseOf(r, m)
  <2>1. CASE ~Played(r, m)
    BY <1>1, <2>1 DEF LeaseOf, Played
  <2>2. CASE Played(r, m) /\ Bound(r, m)
    BY <1>1, <2>2 DEF LeaseOf, Played, Bound
  <2>3. CASE Played(r, m) /\ ~Bound(r, m) /\ pendingMembers[r][m] # Absent
    <3>1. LeaseOf(r, m) = [is |-> "pending", age |-> pendingMembers[r][m]]
      BY <2>3, LeaseCases
    <3>2. pendingMembers'[r][m] = pendingMembers[r][m] + 1 /\ pendingMembers'[r][m] # Absent
      BY <1>1, <1>2, <2>3 DEF Older, Age, Absent
    <3>3. LeaseOf(r, m)' = [is |-> "pending", age |-> pendingMembers'[r][m]]
      BY <1>1, <2>3, <3>2 DEF LeaseOf, Played, Bound
    <3> QED BY <3>1, <3>2, <3>3
  <2>4. CASE Played(r, m) /\ ~Bound(r, m) /\ pendingMembers[r][m] = Absent
    <3>1. /\ LeaseOf(r, m) = [is |-> "grace", age |-> disconnectedMembers[r][m]]
          /\ disconnectedMembers[r][m] # Absent
      BY <2>4, LeaseCases
    <3>2. /\ disconnectedMembers'[r][m] = disconnectedMembers[r][m] + 1
          /\ disconnectedMembers'[r][m] # Absent /\ pendingMembers'[r][m] = Absent
      BY <1>1, <1>2, <2>4, <3>1 DEF Older, Age, Absent
    <3>3. LeaseOf(r, m)' = [is |-> "grace", age |-> disconnectedMembers'[r][m]]
      BY <1>1, <2>4, <3>2 DEF LeaseOf, Played, Bound
    <3> QED BY <3>1, <3>2, <3>3
  <2> QED BY <2>1, <2>2, <2>3, <2>4
<1> QED BY <1>1, <1>3 DEF Lease!Step, Lease!Next, Lease!Pass, Lease!Timed

\* The sweep takes the seats that are due, and those of the rooms it closes.
LEMMA CollectLease ==
  ASSUME Orderly, Sweep, NEW r \in Room, NEW m \in Member
  PROVE  Lease(r, m)!Step
<1> USE DEF Orderly
<1> DEFINE open == rooms \ (Emptied \cup Expired)
           cut == UNION {InChannel(q) : q \in Expired}
           seated == [q \in Room |-> IF q \in open THEN Remaining(q) ELSE {}]
<1>1. /\ sinceSweep = SweepPeriod /\ sinceSweep' = 0
      /\ rooms' = open /\ members' = seated
      /\ r \in open => \A n \in Remaining(r) \cap Member :
           pendingMembers'[r][n] = pendingMembers[r][n]
      /\ socketToMember' = [s \in Socket |-> IF s \in cut THEN NoSeat ELSE socketToMember[s]]
      /\ UNCHANGED bots
  BY DEF Sweep, CutSockets, joinVars, Remaining
<1>2. \A s \in cut : \E q \in Expired, n \in Member : socketToMember[s] = <<q, n>>
  BY DEF NoSilentListener, Holds, Expired, LifecycleInv, TypeOK
<1>3. r \in open => r \notin Expired /\ r \in rooms
  OBVIOUS
<1>4. \A n \in Member : r \in open => <<r, n>> \notin SeatsOf(cut)
  BY <1>2, <1>3 DEF SeatsOf
<1>5. r \in open => \A n \in Remaining(r) \cap Member :
        disconnectedMembers'[r][n] = disconnectedMembers[r][n]
  <2> SUFFICES ASSUME r \in open, NEW n \in Remaining(r) \cap Member
               PROVE  disconnectedMembers'[r][n] = disconnectedMembers[r][n]
    OBVIOUS
  <2>1. <<r, n>> \notin SeatsOf(cut) /\ n \notin NotBack(r)
    BY <1>4 DEF Remaining
  <2> HIDE DEF cut, open
  <2> QED BY <2>1 DEF Sweep, MarkDisconnected, open, cut
<1>6. r \in open => (Bound(r, m)' <=> Bound(r, m))
  <2>1. <<r, m>> # NoSeat
    BY SortAssumption
  <2>2. r \in open => \A s \in cut : socketToMember[s] # <<r, m>>
    BY <1>2, <1>3
  <2> HIDE DEF cut, open
  <2> QED BY <1>1, <2>1, <2>2 DEF Bound
<1> HIDE DEF cut, seated
<1>7. Played(r, m)' <=> Played(r, m) /\ r \in open /\ m \in Remaining(r)
  BY <1>1 DEF Played, seated, Remaining
<1>8. CASE Played(r, m)'
  <2>1. LeaseOf(r, m)' = LeaseOf(r, m)
    BY <1>1, <1>5, <1>6, <1>7, <1>8 DEF LeaseOf, Played, Bound
  <2>2. ~Lease(r, m)!Due
    BY <1>7, <1>8, LeaseCases
    DEF Lease!Due, Lease!Timed, Remaining, NeverCame, NotBack, Overdue
  <2> QED
    BY <1>1, <1>3, <1>7, <1>8, <2>1, <2>2 DEF Lease!Step, Lease!Next, Lease!Collect
<1>9. CASE ~Played(r, m)'
  <2>1. LeaseOf(r, m)' = [is |-> "none", age |-> 0]
    BY <1>9 DEF LeaseOf, Played
  <2>2. CASE ~Played(r, m)
    <3>1. LeaseOf(r, m) = [is |-> "none", age |-> 0]
      BY <2>2, LeaseCases
    <3> QED BY <1>1, <1>3, <2>1, <3>1 DEF Lease!Step, Lease!Next, Lease!Collect
  <2>3. CASE Played(r, m)
    <3>1. LeaseOf(r, m).is # "none"
      BY <2>3, LeaseCases
    <3>2. r \notin open \/ Lease(r, m)!Due
      <4> SUFFICES ASSUME r \in open PROVE Lease(r, m)!Due
        OBVIOUS
      <4>1. m \in NeverCame(r) \/ m \in NotBack(r)
        BY <1>7, <1>9, <2>3 DEF Remaining, Played
      <4>2. Overdue(pendingMembers[r][m], PendingTTL) \/ Overdue(disconnectedMembers[r][m], Grace)
        BY <4>1 DEF NeverCame, NotBack
      <4>3. ~Bound(r, m)
        BY <2>3, <4>2, BoundAssumption DEF Overdue, Absent, Bound, OneVoice, GraceOnlyWhileAway,
           Holds, LifecycleInv, TimersMatchSeats, BindingsAreLive
      <4>4. pendingMembers[r][m] # Absent => disconnectedMembers[r][m] = Absent
        BY DEF LifecycleInv, TimersMatchSeats
      <4> QED
        BY <2>3, <4>2, <4>3, <4>4, LeaseCases, BoundAssumption
        DEF Lease!Due, Lease!Timed, Overdue, Absent
    <3> QED
      BY <1>1, <1>3, <2>1, <3>1, <3>2
      DEF Lease!Step, Lease!Next, Lease!Collect, Lease!Becomes, Lease!State
  <2> QED BY <2>2, <2>3
<1> QED BY <1>8, <1>9

-----------------------------------------------------------------------------
(* The theorem *)

LEMMA LeaseInit ==
  ASSUME FeedInit, NEW r \in Room, NEW m \in Member
  PROVE  Lease(r, m)!Init
BY DEF Lease!Init, Lease!State, FeedInit, Init, LeaseOf

LEMMA LeaseNext ==
  ASSUME Orderly, ~Roaming, [FeedNext]_broadcastVars, NEW r \in Room, NEW m \in Member
  PROVE  Lease(r, m)!Step
<1>1. Next \/ UNCHANGED vars
  BY FeedStep
<1>2. CASE UNCHANGED vars
  BY <1>2, Stay DEF vars, roomVars, timerVars, joinVars, socketVars, Played, Bound
<1>3. ASSUME NEW s \in Socket, Connect(s) PROVE Lease(r, m)!Step
  BY <1>3, Stay DEF Connect, roomVars, timerVars, joinVars, Played, Bound
<1>4. ASSUME NEW n \in Member, RecycleId(n) PROVE Lease(r, m)!Step
  <2>1. Played(r, m)' <=> Played(r, m)
    BY <1>4 DEF RecycleId, roomVars, Played
  <2> QED BY <1>4, <2>1, Stay DEF RecycleId, roomVars, timerVars, socketVars, Bound
<1> QED
  BY <1>1, <1>2, <1>3, <1>4, CreateLease, JoinLease, AddBotsLease, AttachLease, LeaveLease,
     KickLease, FallLease, PassLease, CollectLease DEF Next, Handler

LEMMA OrderlyAlways ==
  ASSUME ~Overlap, ~Roaming
  PROVE  FeedSpec => []Orderly
<1>1. FeedInit => Init
  BY DEF FeedInit
<1>2. Init => Orderly
  <2>1. \A r \in Room, m \in Member : NoSeat # <<r, m>>
    BY SortAssumption
  <2> QED BY <2>1, InitInv DEF Init, Orderly, OneVoice, OneSocketPerSeat, GraceOnlyWhileAway,
        NoForgottenSeat, NoSilentListener, InChannel, NoEntry, Absent
<1>3. Orderly /\ [Next]_vars => Orderly'
  BY NextInv, NextKeepsOneVoice, NextForgetsNobody, NextKeepsListeners DEF Orderly
<1> QED BY <1>1, <1>2, <1>3, FeedStep, PTL DEF FeedSpec

\* Broadcast implements SeatLease for every seat of every room: a client with
\* one socket per seat and one seat per socket keeps a seat for the whole time
\* it was promised, and not a sweep longer.
THEOREM SeatsAreLeases ==
  ASSUME ~Overlap, ~Roaming
  PROVE  FeedSpec => SeatsLast
<1>1. FeedInit => \A r \in Room, m \in Member : Lease(r, m)!Init
  BY LeaseInit
<1>2. Orderly /\ [FeedNext]_broadcastVars =>
        [\A r \in Room, m \in Member : Lease(r, m)!Step]_broadcastVars
  BY LeaseNext
<1> QED BY <1>1, <1>2, OrderlyAlways, PTL DEF FeedSpec, SeatsLast
=============================================================================
