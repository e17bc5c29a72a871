------------------------- MODULE RoomLifecycleProofs -------------------------
(***************************************************************************)
(* Theorems about RoomLifecycle that hold for every set of rooms, members  *)
(* and sockets and every value of the limits.                              *)
(***************************************************************************)
EXTENDS RoomLifecycle, FiniteSetTheorems, WellFoundedInduction, TLAPS

(***************************************************************************)
(* Arithmetic of the join order                                            *)
(***************************************************************************)

\* A non-empty set of naturals has a least element.
LEMMA LeastNatural ==
  ASSUME NEW T \in SUBSET Nat, T # {}
  PROVE  \E x \in T : \A y \in T : x <= y
<1> DEFINE R == OpToRel(<, Nat)
<1>1. IsWellFoundedOn(R, Nat)
  BY NatLessThanWellFounded
<1>2. \E x \in T : \A y \in T : ~ (<<y, x>> \in R)
  <2> HIDE DEF R
  <2> QED BY <1>1, WFMin
<1>3. \A x, y \in Nat : y < x => <<y, x>> \in R
  BY DEF OpToRel
<1> HIDE DEF R
<1>4. PICK x \in T : \A y \in T : ~ (<<y, x>> \in R)
  BY <1>2
<1>5. ASSUME NEW y \in T PROVE x <= y
  <2>1. x \in Nat /\ y \in Nat /\ ~ (y < x)
    BY <1>3, <1>4
  <2> QED BY <2>1
<1> QED BY <1>5

\* The member that sort() puts first is in the set and joined no later than
\* anyone else.
LEMMA OldestIsFirst ==
  ASSUME TypeOK, NEW S \in SUBSET Member, S # {}
  PROVE  /\ OldestMember(S) \in S
         /\ \A n \in S : joinedAt[OldestMember(S)] <= joinedAt[n]
<1> DEFINE stamps == {joinedAt[m] : m \in S}
<1>1. stamps \in SUBSET Nat /\ stamps # {}
  BY DEF TypeOK
<1>2. PICK x \in stamps : \A y \in stamps : x <= y
  <2> HIDE DEF stamps
  <2> QED BY <1>1, LeastNatural
<1>3. \E m \in S : \A n \in S : joinedAt[m] <= joinedAt[n]
  BY <1>2
<1> QED BY <1>3 DEF OldestMember

(***************************************************************************)
(* Types                                                                   *)
(***************************************************************************)

\* The operations on the two timer Maps give timer Maps again.
LEMMA EntryTypes ==
  ASSUME NEW entries \in [Room -> [Member -> Age]]
  PROVE  /\ OlderEntries(entries) \in [Room -> [Member -> Age]]
         /\ \A r \in Room, m \in Member :
              Forget(entries, r, m) \in [Room -> [Member -> Age]]
         /\ \A seats, seated :
              MarkDisconnected(entries, seats, seated) \in [Room -> [Member -> Age]]
<1>1. OlderEntries(entries) \in [Room -> [Member -> Age]]
  BY DEF OlderEntries, Older, Age, Absent
<1>2. \A r \in Room, m \in Member :
        Forget(entries, r, m) \in [Room -> [Member -> Age]]
  BY DEF Forget, Age, Absent
<1>3. \A seats, seated :
        MarkDisconnected(entries, seats, seated) \in [Room -> [Member -> Age]]
  BY DEF MarkDisconnected, Age, Absent
<1> QED BY <1>1, <1>2, <1>3

LEMMA CutTypes ==
  ASSUME TypeOK, NEW S \in SUBSET Socket, CutSockets(S)
  PROVE  /\ connected' \in SUBSET Socket
         /\ socketToMember' \in [Socket -> Seat \cup {NoSeat}]
         /\ channel' \in [Socket -> SUBSET Room]
BY DEF TypeOK, CutSockets

LEMMA RemoveTypes ==
  ASSUME TypeOK, NEW r \in Room, NEW m \in Member, NEW fallen,
         RemoveMember(r, m, fallen)
  PROVE  /\ rooms' \in SUBSET Room
         /\ ownerId' \in [Room -> Member \cup {NoMember}]
         /\ members' \in [Room -> SUBSET Member]
         /\ pendingMembers' \in [Room -> [Member -> Age]]
         /\ disconnectedMembers' \in [Room -> [Member -> Age]]
         /\ idleAge' \in [Room -> Nat]
<1> DEFINE rest == members[r] \ {m}
<1>1. rest \in SUBSET Member
  BY DEF TypeOK
<1>2. members' \in [Room -> SUBSET Member]
  BY DEF TypeOK, RemoveMember
<1>3. pendingMembers' \in [Room -> [Member -> Age]]
  BY EntryTypes DEF TypeOK, RemoveMember
<1>4. disconnectedMembers' \in [Room -> [Member -> Age]]
  BY EntryTypes DEF TypeOK, RemoveMember
<1>5. rest # {} => OldestMember(rest) \in Member
  BY <1>1, OldestIsFirst
<1>6. CASE rest = {}
  <2>1. /\ rooms' = rooms \ {r}
        /\ ownerId' = [ownerId EXCEPT ![r] = NoMember]
        /\ idleAge' = [idleAge EXCEPT ![r] = 0]
    BY <1>6 DEF RemoveMember
  <2> QED BY <1>2, <1>3, <1>4, <2>1 DEF TypeOK
<1>7. CASE rest # {}
  <2>1. /\ rooms' = rooms /\ idleAge' = idleAge
        /\ ownerId' = [ownerId EXCEPT ![r] =
                         IF m = ownerId[r] THEN OldestMember(rest) ELSE ownerId[r]]
    BY <1>7 DEF RemoveMember
  <2>2. OldestMember(rest) \in Member
    BY <1>5, <1>7
  <2> HIDE DEF rest
  <2>3. ownerId' \in [Room -> Member \cup {NoMember}]
    BY <2>1, <2>2 DEF TypeOK
  <2> QED BY <1>2, <1>3, <1>4, <2>1, <2>3 DEF TypeOK
<1> QED BY <1>6, <1>7

(***************************************************************************)
(* The invariant, action by action                                         *)
(***************************************************************************)

LEMMA InitInv == Init => LifecycleInv
<1> SUFFICES ASSUME Init PROVE LifecycleInv
  OBVIOUS
<1> USE DEF Init
<1>1. TypeOK
  BY BoundAssumption DEF TypeOK, NoEntry, Age, Absent
<1>2. JoinOrder /\ SeatsAreLive
  BY DEF JoinOrder, SeatsAreLive, Drawn
<1>3. BindingsAreLive
  BY SortAssumption DEF BindingsAreLive
<1>4. OwnerIsOldest /\ TimersMatchSeats
  BY DEF OwnerIsOldest, TimersMatchSeats, NoEntry, Absent
<1> QED BY <1>1, <1>2, <1>3, <1>4 DEF LifecycleInv

\* A drawn id is in no room and in no entry of socketToMember before the draw.
LEMMA UndrawnIsUnseen ==
  ASSUME LifecycleInv, NEW m \in Member, ~Drawn(m)
  PROVE  /\ \A r \in Room : m \notin members[r]
         /\ \A r \in Room, s \in Socket : socketToMember[s] # <<r, m>>
         /\ \A r \in Room : pendingMembers[r][m] = Absent
         /\ \A r \in Room : disconnectedMembers[r][m] = Absent
BY DEF LifecycleInv, SeatsAreLive, BindingsAreLive, TimersMatchSeats

LEMMA CreateRoomInv ==
  ASSUME LifecycleInv, NEW r \in Room, NEW m \in Member, CreateRoom(r, m)
  PROVE  LifecycleInv'
<1> USE DEF CreateRoom, socketVars
<1>1. TypeOK'
  BY DEF LifecycleInv, TypeOK, NoEntry, Age, Absent, Seat
<1>2. JoinOrder'
  BY DEF LifecycleInv, TypeOK, JoinOrder, Drawn
<1>3. members[r] = {} /\ \A s \in Socket, n \in Member : socketToMember[s] # <<r, n>>
  BY DEF LifecycleInv, TypeOK, SeatsAreLive, BindingsAreLive, UnusedRoom
<1>4. /\ \A q \in Room : m \notin members[q]
      /\ \A q \in Room, s \in Socket : socketToMember[s] # <<q, m>>
  BY UndrawnIsUnseen
<1>5. \A n \in Member : Drawn(n) => Drawn(n)'
  BY DEF LifecycleInv, TypeOK, Drawn
<1>6. SeatsAreLive'
  BY <1>4, <1>5 DEF LifecycleInv, TypeOK, SeatsAreLive, Drawn
<1>7. BindingsAreLive'
  BY <1>4, <1>5 DEF LifecycleInv, TypeOK, BindingsAreLive
<1>8. OwnerIsOldest'
  BY <1>4 DEF LifecycleInv, TypeOK, OwnerIsOldest, SeatsAreLive
<1>9. TimersMatchSeats'
  BY <1>3, <1>4 DEF LifecycleInv, TypeOK, TimersMatchSeats, NoEntry, Absent
<1> QED BY <1>1, <1>2, <1>6, <1>7, <1>8, <1>9 DEF LifecycleInv

LEMMA JoinRoomInv ==
  ASSUME LifecycleInv, NEW r \in Room, NEW m \in Member, JoinRoom(r, m)
  PROVE  LifecycleInv'
<1> USE DEF JoinRoom, socketVars
<1>1. TypeOK'
  BY DEF LifecycleInv, TypeOK, Age, Absent, Seat
<1>2. JoinOrder'
  BY DEF LifecycleInv, TypeOK, JoinOrder, Drawn
<1>4. /\ \A q \in Room : m \notin members[q] /\ disconnectedMembers[q][m] = Absent
      /\ \A q \in Room, s \in Socket : socketToMember[s] # <<q, m>>
  BY UndrawnIsUnseen
<1>5. \A n \in Member : Drawn(n) => Drawn(n)'
  BY DEF LifecycleInv, TypeOK, Drawn
<1>6. SeatsAreLive'
  BY <1>4, <1>5 DEF LifecycleInv, TypeOK, SeatsAreLive, Drawn
<1>7. BindingsAreLive'
  BY <1>4, <1>5 DEF LifecycleInv, TypeOK, BindingsAreLive
<1>8. OwnerIsOldest'
  <2>1. \A n \in Member : joinedAt[n] < joinedAt'[m]
    BY DEF LifecycleInv, TypeOK, JoinOrder
  <2>2. \A q \in rooms : \A n \in members[q] : n # m /\ n \in Member
    BY <1>4 DEF LifecycleInv, TypeOK
  <2> QED BY <2>1, <2>2 DEF LifecycleInv, TypeOK, OwnerIsOldest
<1>9. TimersMatchSeats'
  BY <1>4 DEF LifecycleInv, TypeOK, TimersMatchSeats, Absent
<1> QED BY <1>1, <1>2, <1>6, <1>7, <1>8, <1>9 DEF LifecycleInv

LEMMA AddBotsInv ==
  ASSUME LifecycleInv, NEW r \in Room, NEW m \in Member, AddBots(r, m)
  PROVE  LifecycleInv'
<1> USE DEF socketVars, timerVars
<1> DEFINE Seating(new, stamp) ==
             /\ members' = [members EXCEPT ![r] = @ \cup new]
             /\ bots' = bots \cup new
             /\ joinedAt' = [n \in Member |->
                               IF n \in new THEN stamp[n] ELSE joinedAt[n]]
<1>a. PICK added \in 1..MaxMembers :
        /\ joinSeq' = joinSeq + added
        /\ \E new \in SUBSET {n \in Member : ~Drawn(n)} :
           \E stamp \in Bijection(new, (joinSeq + 1)..(joinSeq + added)) :
             Seating(new, stamp)
  BY DEF AddBots
<1>b. PICK new \in SUBSET {n \in Member : ~Drawn(n)} :
        \E stamp \in Bijection(new, (joinSeq + 1)..(joinSeq + added)) :
          Seating(new, stamp)
  BY <1>a
<1>c. PICK stamp \in Bijection(new, (joinSeq + 1)..(joinSeq + added)) :
        Seating(new, stamp)
  BY <1>b
<1>1. Seating(new, stamp) /\ joinSeq' = joinSeq + added
  BY <1>a, <1>c
<1>2. UNCHANGED <<rooms, ownerId, timerVars, bannedNames, idleAge, socketVars,
                  sinceSweep>>
  BY DEF AddBots
<1>3. /\ new \in SUBSET Member
      /\ \A n \in new : stamp[n] \in (joinSeq + 1)..(joinSeq + added)
      /\ \A n, q \in new : stamp[n] = stamp[q] => n = q
  BY DEF Bijection, Injection, IsInjective
<1>4. /\ \A n \in new, q \in Room : n \notin members[q]
      /\ \A n \in new, q \in Room, s \in Socket : socketToMember[s] # <<q, n>>
  BY UndrawnIsUnseen
<1>5. TypeOK'
  BY <1>1, <1>2, <1>3, BoundAssumption DEF LifecycleInv, TypeOK, Seat
<1>6. JoinOrder'
  BY <1>1, <1>2, <1>3, BoundAssumption DEF LifecycleInv, TypeOK, JoinOrder, Drawn
<1>7. \A n \in Member : Drawn(n) \/ n \in new => Drawn(n)'
  BY <1>1, <1>3, BoundAssumption DEF LifecycleInv, TypeOK, Drawn
<1>8. SeatsAreLive'
  <2>1. r \in rooms
    BY DEF AddBots
  <2> QED BY <1>1, <1>2, <1>4, <1>7, <2>1 DEF LifecycleInv, TypeOK, SeatsAreLive
<1>9. BindingsAreLive'
  BY <1>1, <1>2, <1>4, <1>7 DEF LifecycleInv, TypeOK, BindingsAreLive
<1>10. OwnerIsOldest'
  <2>1. \A n \in Member \ new, q \in new : joinedAt'[n] < joinedAt'[q]
    BY <1>1, <1>3, BoundAssumption DEF LifecycleInv, TypeOK, JoinOrder
  <2>2. \A q \in rooms : ownerId[q] \in Member \ new
    BY <1>4 DEF LifecycleInv, TypeOK, OwnerIsOldest
  <2>3. \A n \in Member \ new : joinedAt'[n] = joinedAt[n]
    BY <1>1
  <2> QED BY <1>1, <1>2, <1>3, <2>1, <2>2, <2>3
          DEF LifecycleInv, TypeOK, OwnerIsOldest
<1>11. TimersMatchSeats'
  BY <1>1, <1>2, <1>4 DEF LifecycleInv, TypeOK, TimersMatchSeats
<1> QED BY <1>5, <1>6, <1>8, <1>9, <1>10, <1>11 DEF LifecycleInv

\* Closing up the join numbers keeps their order.
LEMMA RecycleIdInv ==
  ASSUME LifecycleInv, NEW m \in Member, RecycleId(m)
  PROVE  LifecycleInv'
<1>1. /\ joinSeq' = joinSeq - 1
      /\ joinedAt' = [n \in Member |->
           IF n = m THEN 0
           ELSE IF joinedAt[n] > joinedAt[m] THEN joinedAt[n] - 1 ELSE joinedAt[n]]
      /\ bots' = bots \ {m}
      /\ UNCHANGED <<roomVars, timerVars, socketVars, sinceSweep>>
      /\ \A r \in Room : m \notin members[r]
      /\ \A r \in Room, s \in Socket : socketToMember[s] # <<r, m>>
      /\ joinedAt[m] # 0
  BY DEF RecycleId, Drawn
<1>2. /\ joinSeq \in Nat /\ joinedAt \in [Member -> Nat] /\ joinedAt[m] \in 1..joinSeq
      /\ \A n \in Member : joinedAt[n] \in Nat /\ joinedAt[n] <= joinSeq
      /\ \A n \in Member \ {m} : joinedAt[n] # 0 => joinedAt[n] # joinedAt[m]
  BY <1>1 DEF LifecycleInv, TypeOK, JoinOrder, Drawn
<1>3. \A n \in Member \ {m} : /\ joinedAt'[n] \in Nat /\ joinedAt'[n] <= joinSeq - 1
                              /\ joinedAt'[n] = 0 <=> joinedAt[n] = 0
  BY <1>1, <1>2
<1>4. \A n, q \in Member \ {m} : joinedAt[n] # 0 /\ joinedAt[n] < joinedAt[q] =>
                                  joinedAt'[n] < joinedAt'[q]
  <2> SUFFICES ASSUME NEW n \in Member \ {m}, NEW q \in Member \ {m},
                      joinedAt[n] # 0, joinedAt[n] < joinedAt[q]
               PROVE  joinedAt'[n] < joinedAt'[q]
    OBVIOUS
  <2>1. joinedAt[n] \in Nat /\ joinedAt[q] \in Nat /\ joinedAt[m] \in Nat
    BY <1>2
  <2>2. joinedAt[n] # joinedAt[m] /\ joinedAt[q] # joinedAt[m]
    BY <1>2, <2>1
  <2>3. /\ joinedAt'[n] = IF joinedAt[n] > joinedAt[m] THEN joinedAt[n] - 1 ELSE joinedAt[n]
        /\ joinedAt'[q] = IF joinedAt[q] > joinedAt[m] THEN joinedAt[q] - 1 ELSE joinedAt[q]
    BY <1>1
  <2> QED BY <2>1, <2>2, <2>3
<1>5. joinedAt'[m] = 0
  BY <1>1
<1>6. TypeOK'
  BY <1>1, <1>2 DEF LifecycleInv, TypeOK, roomVars, timerVars, socketVars
<1>7. JoinOrder'
  <2>1. \A n \in Member : joinedAt'[n] <= joinSeq'
    BY <1>1, <1>2, <1>3, <1>5
  <2>2. ASSUME NEW n \in Member, NEW q \in Member, joinedAt'[n] # 0,
               joinedAt'[n] = joinedAt'[q]
        PROVE  n = q
    <3>1. n # m /\ q # m
      BY <1>5, <2>2
    <3>2. joinedAt[n] # 0 /\ joinedAt[q] # 0
      BY <1>3, <2>2, <3>1
    <3>3. ~ (joinedAt[n] < joinedAt[q]) /\ ~ (joinedAt[q] < joinedAt[n])
      <4>1. joinedAt'[n] \in Nat /\ joinedAt'[q] \in Nat
        BY <1>3, <3>1
      <4> QED BY <1>4, <2>2, <3>1, <3>2, <4>1
    <3>4. joinedAt[n] = joinedAt[q]
      BY <1>2, <3>3
    <3> QED BY <3>2, <3>4 DEF LifecycleInv, JoinOrder, Drawn
  <2> QED BY <2>1, <2>2 DEF JoinOrder, Drawn
<1>8. \A n \in Member \ {m} : Drawn(n) => Drawn(n)'
  BY <1>3 DEF Drawn
<1>9. UNCHANGED <<rooms, ownerId, members, connected, socketToMember, channel,
                  pendingMembers, disconnectedMembers>>
  BY <1>1 DEF roomVars, timerVars, socketVars
<1>10. SeatsAreLive'
  BY <1>1, <1>8, <1>9 DEF LifecycleInv, TypeOK, SeatsAreLive
<1>11. BindingsAreLive'
  BY <1>1, <1>8, <1>9 DEF LifecycleInv, BindingsAreLive
<1>12. OwnerIsOldest'
  <2>1. \A r \in rooms : \A n \in members[r] :
          r \in Room /\ n \in Member \ {m} /\ joinedAt[n] # 0
    BY <1>1 DEF LifecycleInv, TypeOK, SeatsAreLive, Drawn
  <2> QED BY <1>4, <1>9, <2>1 DEF LifecycleInv, OwnerIsOldest
<1>13. TimersMatchSeats'
  BY <1>9 DEF LifecycleInv, TimersMatchSeats
<1> QED BY <1>6, <1>7, <1>10, <1>11, <1>12, <1>13 DEF LifecycleInv

LEMMA ConnectInv ==
  ASSUME LifecycleInv, NEW s \in Socket, Connect(s)
  PROVE  LifecycleInv'
<1> USE DEF Connect, roomVars, timerVars, joinVars
<1>1. TypeOK' /\ JoinOrder' /\ SeatsAreLive' /\ OwnerIsOldest' /\ TimersMatchSeats'
  BY DEF LifecycleInv, TypeOK, JoinOrder, SeatsAreLive, OwnerIsOldest,
         TimersMatchSeats, Drawn
<1>2. BindingsAreLive'
  BY DEF LifecycleInv, BindingsAreLive, Drawn
<1> QED BY <1>1, <1>2 DEF LifecycleInv

LEMMA JoinSocketInv ==
  ASSUME LifecycleInv, NEW s \in Socket, NEW r \in Room, NEW m \in Member,
         JoinSocket(s, r, m)
  PROVE  LifecycleInv'
<1> USE DEF JoinSocket, joinVars
<1>1. TypeOK'
  BY EntryTypes DEF LifecycleInv, TypeOK, Seat
<1>2. JoinOrder' /\ SeatsAreLive' /\ OwnerIsOldest'
  BY DEF LifecycleInv, TypeOK, JoinOrder, SeatsAreLive, OwnerIsOldest, Drawn
<1>3. BindingsAreLive'
  <2>1. /\ UNCHANGED <<members, joinedAt, connected>>
        /\ \A t \in Socket \ {s} : /\ socketToMember'[t] = socketToMember[t]
                                  /\ channel'[t] = channel[t]
        /\ socketToMember'[s] = <<r, m>> /\ channel'[s] = channel[s] \cup {r}
    BY DEF LifecycleInv, TypeOK
  <2>2. /\ s \in connected /\ Drawn(m)
        /\ \A q \in Room : m \in members[q] => q = r
    BY DEF LifecycleInv, SeatsAreLive
  <2> HIDE DEF JoinSocket
  <2>3. ASSUME NEW t \in Socket, NEW q \in Room, NEW n \in Member,
               socketToMember'[t] = <<q, n>>
        PROVE  /\ t \in connected /\ q \in channel'[t] /\ Drawn(n)
               /\ \A z \in Room : n \in members[z] => z = q
    <3>1. CASE t = s
      <4>1. q = r /\ n = m
        BY <2>1, <2>3, <3>1
      <4> QED BY <2>1, <2>2, <3>1, <4>1
    <3>2. CASE t # s
      BY <2>1, <2>3, <3>2 DEF LifecycleInv, BindingsAreLive
    <3> QED BY <3>1, <3>2
  <2>4. \A t \in Socket \ connected : channel'[t] = {}
    BY <2>1, <2>2 DEF LifecycleInv, BindingsAreLive
  <2> QED BY <2>1, <2>3, <2>4 DEF BindingsAreLive, Drawn
<1>4. TimersMatchSeats'
  BY DEF LifecycleInv, TypeOK, TimersMatchSeats, Forget, Absent
<1> QED BY <1>1, <1>2, <1>3, <1>4 DEF LifecycleInv

\* Removing a member, with whatever happens to the sockets: entries of
\* socketToMember only disappear, and the fallen seats were entries.
LEMMA RemoveMemberInv ==
  ASSUME LifecycleInv, NEW r \in Room, NEW m \in members[r], NEW fallen,
         fallen \subseteq {socketToMember[s] : s \in Socket},
         RemoveMember(r, m, fallen),
         UNCHANGED joinVars,
         \A s \in Socket : socketToMember'[s] \in {socketToMember[s], NoSeat}
  PROVE  /\ JoinOrder' /\ SeatsAreLive' /\ OwnerIsOldest' /\ TimersMatchSeats'
<1> USE DEF joinVars
<1>1. m \in Member /\ r \in rooms
  BY DEF LifecycleInv, TypeOK, SeatsAreLive
<1>2. JoinOrder'
  BY DEF LifecycleInv, JoinOrder, Drawn
<1>3. SeatsAreLive'
  BY <1>1 DEF LifecycleInv, TypeOK, RemoveMember, SeatsAreLive, Drawn
<1>4. OwnerIsOldest'
  <2> DEFINE rest == members[r] \ {m}
  <2>1. rest \in SUBSET Member
    BY DEF LifecycleInv, TypeOK
  <2>2. CASE rest = {}
    BY <2>2 DEF LifecycleInv, TypeOK, RemoveMember, OwnerIsOldest
  <2>3. CASE rest # {}
    <3>1. /\ OldestMember(rest) \in rest
          /\ \A n \in rest \ {OldestMember(rest)} :
               joinedAt[OldestMember(rest)] < joinedAt[n]
      <4>1. /\ OldestMember(rest) \in rest
            /\ \A n \in rest : joinedAt[OldestMember(rest)] <= joinedAt[n]
        BY <2>1, <2>3, OldestIsFirst DEF LifecycleInv
      <4>2. \A n, q \in rest : joinedAt[n] = joinedAt[q] => n = q
        BY <2>1 DEF LifecycleInv, JoinOrder, SeatsAreLive
      <4>3. \A n \in rest : joinedAt[n] \in Nat
        BY <2>1 DEF LifecycleInv, TypeOK
      <4> QED BY <4>1, <4>2, <4>3
    <3>2. /\ rooms' = rooms /\ joinedAt' = joinedAt
          /\ members' = [members EXCEPT ![r] = rest]
          /\ ownerId' = [ownerId EXCEPT ![r] =
                           IF m = ownerId[r] THEN OldestMember(rest) ELSE ownerId[r]]
      BY <2>3 DEF RemoveMember
    <3> HIDE DEF rest
    <3>3. rest = members[r] \ {m}
      BY DEF rest
    <3> QED BY <1>1, <3>1, <3>2, <3>3 DEF LifecycleInv, TypeOK, OwnerIsOldest
  <2> QED BY <2>2, <2>3
<1>5. TimersMatchSeats'
  <2>1. \A q \in Room, n \in Member :
          pendingMembers'[q][n] # Absent =>
            /\ pendingMembers[q][n] # Absent
            /\ ~ (q = r /\ n = m)
    BY <1>1 DEF LifecycleInv, TypeOK, RemoveMember, Forget
  <2>2. \A q \in Room, n \in Member :
          disconnectedMembers'[q][n] # Absent =>
            \/ <<q, n>> \in fallen /\ n \in members'[q]
            \/ disconnectedMembers[q][n] # Absent /\ ~ (q = r /\ n = m)
    BY <1>1 DEF LifecycleInv, TypeOK, RemoveMember, Forget, MarkDisconnected, Absent
  <2>3. \A q \in Room, n \in Member :
          n \in members[q] /\ ~ (q = r /\ n = m) => n \in members'[q]
    BY <1>1 DEF LifecycleInv, TypeOK, RemoveMember
  <2>4. \A q \in Room, n \in Member : <<q, n>> \in fallen =>
          pendingMembers[q][n] = Absent
    BY DEF LifecycleInv, TimersMatchSeats
  <2>5. \A q \in Room, n \in Member, s \in Socket :
          socketToMember'[s] = <<q, n>> => socketToMember[s] = <<q, n>>
    BY SortAssumption
  <2> SUFFICES ASSUME NEW q \in Room, NEW n \in Member
               PROVE  /\ pendingMembers'[q][n] # Absent =>
                           /\ n \in members'[q]
                           /\ disconnectedMembers'[q][n] = Absent
                           /\ \A s \in Socket : socketToMember'[s] # <<q, n>>
                      /\ disconnectedMembers'[q][n] # Absent => n \in members'[q]
    BY DEF TimersMatchSeats
  <2>6. /\ pendingMembers[q][n] # Absent =>
             /\ n \in members[q]
             /\ disconnectedMembers[q][n] = Absent
             /\ \A s \in Socket : socketToMember[s] # <<q, n>>
        /\ disconnectedMembers[q][n] # Absent => n \in members[q]
    BY DEF LifecycleInv, TimersMatchSeats
  <2>7. ASSUME pendingMembers'[q][n] # Absent
        PROVE  /\ n \in members'[q]
               /\ disconnectedMembers'[q][n] = Absent
               /\ \A s \in Socket : socketToMember'[s] # <<q, n>>
    BY <2>1, <2>2, <2>3, <2>4, <2>5, <2>6, <2>7
  <2>8. ASSUME disconnectedMembers'[q][n] # Absent
        PROVE  n \in members'[q]
    BY <2>2, <2>3, <2>6, <2>8
  <2> QED BY <2>7, <2>8
<1> QED BY <1>2, <1>3, <1>4, <1>5

\* Cutting or unbinding sockets keeps the entries that remain live.
LEMMA FewerBindings ==
  ASSUME LifecycleInv, NEW r, NEW cut \in SUBSET Socket,
         NEW unbound \in SUBSET Socket,
         \A q \in Room : members'[q] \subseteq members[q], joinedAt' = joinedAt,
         connected' = connected \ cut,
         socketToMember' = [t \in Socket |->
           IF t \in cut \cup unbound THEN NoSeat ELSE socketToMember[t]],
         channel' = [t \in Socket |->
           IF t \in cut THEN {}
           ELSE IF t \in unbound THEN channel[t] \ {r} ELSE channel[t]]
  PROVE  BindingsAreLive'
<1>1. \A s \in Socket \ connected' : channel'[s] = {}
  BY DEF LifecycleInv, BindingsAreLive
<1>2. ASSUME NEW s \in Socket, NEW q \in Room, NEW m \in Member,
             socketToMember'[s] = <<q, m>>
      PROVE  /\ s \in connected' /\ q \in channel'[s] /\ Drawn(m)'
             /\ \A p \in Room : m \in members'[p] => p = q
  <2>1. s \notin cut /\ s \notin unbound /\ socketToMember[s] = <<q, m>>
    <3>1. <<q, m>> # NoSeat
      BY SortAssumption
    <3>2. socketToMember'[s] =
            IF s \in cut \cup unbound THEN NoSeat ELSE socketToMember[s]
      OBVIOUS
    <3> QED BY <1>2, <3>1, <3>2
  <2>2. /\ s \in connected /\ q \in channel[s] /\ Drawn(m)
        /\ \A p \in Room : m \in members[p] => p = q
    BY <2>1 DEF LifecycleInv, BindingsAreLive
  <2> QED BY <2>1, <2>2 DEF Drawn
<1> QED BY <1>1, <1>2 DEF BindingsAreLive

LEMMA LeaveRoomInv ==
  ASSUME LifecycleInv, NEW s \in Socket, NEW r \in Room, NEW m \in Member,
         LeaveRoom(s, r, m)
  PROVE  LifecycleInv'
<1> DEFINE unbound == SocketsOfMember(r, m) \cup {s}
           cut     == IF members[r] = {m} THEN InChannel(r) ELSE {}
<1>1. /\ m \in members[r]
      /\ RemoveMember(r, m, SeatsOf(cut))
      /\ connected' = connected \ cut
      /\ socketToMember' = [t \in Socket |->
           IF t \in cut \cup unbound THEN NoSeat ELSE socketToMember[t]]
      /\ channel' = [t \in Socket |->
           IF t \in cut THEN {}
           ELSE IF t \in unbound THEN channel[t] \ {r} ELSE channel[t]]
      /\ bannedNames' = [bannedNames EXCEPT ![r] =
                           IF members[r] = {m} THEN {} ELSE @]
      /\ UNCHANGED joinVars /\ UNCHANGED sinceSweep
  BY DEF LeaveRoom
<1>2. cut \in SUBSET Socket /\ unbound \in SUBSET Socket
  BY DEF LifecycleInv, TypeOK, InChannel, SocketsOfMember
<1>3. SeatsOf(cut) \subseteq {socketToMember[t] : t \in Socket}
  BY <1>2 DEF SeatsOf
<1> HIDE DEF cut, unbound
<1>4. TypeOK'
  BY <1>1, <1>2, RemoveTypes DEF LifecycleInv, TypeOK, joinVars, Seat
<1>5. \A t \in Socket : socketToMember'[t] \in {socketToMember[t], NoSeat}
  BY <1>1
<1>6. JoinOrder' /\ SeatsAreLive' /\ OwnerIsOldest' /\ TimersMatchSeats'
  BY <1>1, <1>3, <1>5, RemoveMemberInv
<1>7. BindingsAreLive'
  <2>1. \A q \in Room : members'[q] \subseteq members[q]
    BY <1>1 DEF RemoveMember, LifecycleInv, TypeOK
  <2> QED BY <1>1, <1>2, <2>1, FewerBindings DEF joinVars
<1> QED BY <1>4, <1>6, <1>7 DEF LifecycleInv

LEMMA KickMemberInv ==
  ASSUME LifecycleInv, NEW r \in Room, NEW m \in Member, NEW target \in Member,
         KickMember(r, m, target)
  PROVE  LifecycleInv'
<1> DEFINE cut == SocketsOfMember(r, target)
<1>1. /\ target \in members[r]
      /\ RemoveMember(r, target, {})
      /\ CutSockets(cut)
      /\ bannedNames' = [bannedNames EXCEPT ![r] = @ \cup {NameOf[target]}]
      /\ UNCHANGED joinVars /\ UNCHANGED sinceSweep
  BY DEF KickMember
<1>2. cut \in SUBSET Socket
  BY DEF LifecycleInv, TypeOK, InChannel, SocketsOfMember
<1> HIDE DEF cut
<1>3. TypeOK'
  BY <1>1, <1>2, RemoveTypes, CutTypes, SortAssumption
     DEF LifecycleInv, TypeOK, joinVars
<1>4. \A t \in Socket : socketToMember'[t] \in {socketToMember[t], NoSeat}
  BY <1>1 DEF CutSockets
<1>5. JoinOrder' /\ SeatsAreLive' /\ OwnerIsOldest' /\ TimersMatchSeats'
  BY <1>1, <1>4, RemoveMemberInv
<1>6. BindingsAreLive'
  <2>1. \A q \in Room : members'[q] \subseteq members[q]
    BY <1>1 DEF RemoveMember, LifecycleInv, TypeOK
  <2>2. /\ socketToMember' = [t \in Socket |->
             IF t \in cut \cup {} THEN NoSeat ELSE socketToMember[t]]
        /\ channel' = [t \in Socket |->
             IF t \in cut THEN {}
             ELSE IF t \in {} THEN channel[t] \ {r} ELSE channel[t]]
        /\ connected' = connected \ cut
    BY <1>1 DEF CutSockets
  <2> QED BY <1>1, <1>2, <2>1, <2>2, FewerBindings DEF joinVars
<1> QED BY <1>3, <1>5, <1>6 DEF LifecycleInv

LEMMA DisconnectInv ==
  ASSUME LifecycleInv, NEW s \in Socket, Disconnect(s)
  PROVE  LifecycleInv'
<1> USE DEF Disconnect, roomVars, joinVars
<1>1. TypeOK'
  BY EntryTypes, CutTypes DEF LifecycleInv, TypeOK
<1>2. JoinOrder' /\ SeatsAreLive' /\ OwnerIsOldest'
  BY DEF LifecycleInv, JoinOrder, SeatsAreLive, OwnerIsOldest, Drawn
<1>3. BindingsAreLive'
  <2>1. /\ connected' = connected \ {s} /\ joinedAt' = joinedAt
        /\ members' = members
        /\ socketToMember' = [t \in Socket |->
             IF t \in {s} \cup {} THEN NoSeat ELSE socketToMember[t]]
    BY DEF CutSockets
  <2>2. channel' = [t \in Socket |->
          IF t \in {s} THEN {}
          ELSE IF t \in {} THEN channel[t] \ {s} ELSE channel[t]]
    BY DEF CutSockets
  <2>3. \A q \in Room : members'[q] \subseteq members[q]
    BY <2>1
  <2>4. {s} \in SUBSET Socket /\ {} \in SUBSET Socket
    OBVIOUS
  <2> HIDE DEF Disconnect
  <2> QED BY <2>1, <2>2, <2>3, <2>4, FewerBindings
<1>4. TimersMatchSeats'
  <2>1. \A q \in Room, n \in Member :
          disconnectedMembers'[q][n] # Absent =>
            \/ socketToMember[s] = <<q, n>> /\ n \in members[q]
            \/ disconnectedMembers[q][n] # Absent
    BY DEF MarkDisconnected, SeatsOf
  <2>2. \A q \in Room, n \in Member, t \in Socket :
          socketToMember'[t] = <<q, n>> => socketToMember[t] = <<q, n>>
    BY SortAssumption DEF CutSockets
  <2>3. pendingMembers' = pendingMembers /\ members' = members
    OBVIOUS
  <2> HIDE DEF Disconnect
  <2>4. ASSUME NEW q \in Room, NEW n \in Member, pendingMembers'[q][n] # Absent
        PROVE  disconnectedMembers'[q][n] = Absent
    BY <2>1, <2>3, <2>4 DEF LifecycleInv, TimersMatchSeats
  <2>5. \A q \in Room, n \in Member :
          disconnectedMembers'[q][n] # Absent => n \in members'[q]
    BY <2>1, <2>3 DEF LifecycleInv, TimersMatchSeats
  <2> QED BY <2>2, <2>3, <2>4, <2>5 DEF LifecycleInv, TimersMatchSeats
<1> QED BY <1>1, <1>2, <1>3, <1>4 DEF LifecycleInv

LEMMA TickInv ==
  ASSUME LifecycleInv, Tick
  PROVE  LifecycleInv'
<1> USE DEF Tick, joinVars, socketVars
<1>1. TypeOK'
  BY EntryTypes, BoundAssumption DEF LifecycleInv, TypeOK
<1>2. JoinOrder' /\ SeatsAreLive' /\ OwnerIsOldest' /\ BindingsAreLive'
  BY DEF LifecycleInv, JoinOrder, SeatsAreLive, OwnerIsOldest, BindingsAreLive,
         Drawn
<1>3. TimersMatchSeats'
  <2>1. \A r \in Room, m \in Member :
          /\ pendingMembers'[r][m] # Absent <=> pendingMembers[r][m] # Absent
          /\ disconnectedMembers'[r][m] # Absent <=> disconnectedMembers[r][m] # Absent
    BY DEF LifecycleInv, TypeOK, OlderEntries, Older, Age, Absent
  <2> QED BY <2>1 DEF LifecycleInv, TimersMatchSeats
<1> QED BY <1>1, <1>2, <1>3 DEF LifecycleInv

\* The sets the sweep computes before it changes anything.
LEMMA SweepSets ==
  ASSUME LifecycleInv
  PROVE  /\ \A r \in Room : Remaining(r) \in SUBSET Member /\ Remaining(r) \subseteq members[r]
         /\ \A r \in rooms \ (Emptied \cup Expired) : Remaining(r) # {}
         /\ \A r \in Room : InChannel(r) \in SUBSET Socket
         /\ Expired \in SUBSET Room
BY DEF LifecycleInv, TypeOK, Remaining, Emptied, Expired, InChannel

LEMMA SweepInv ==
  ASSUME LifecycleInv, Sweep
  PROVE  LifecycleInv'
<1> DEFINE open   == rooms \ (Emptied \cup Expired)
           cut    == UNION {InChannel(r) : r \in Expired}
           seated == [r \in Room |-> IF r \in open THEN Remaining(r) ELSE {}]
           Without(entries, gone) ==
             [m \in Member |-> IF m \in gone THEN Absent ELSE entries[m]]
           Kept(r, entries) == IF r \in open THEN entries ELSE NoEntry
           pending == [r \in Room |-> Kept(r, Without(pendingMembers[r], NeverCame(r)))]
           away    == [r \in Room |-> Kept(r, Without(disconnectedMembers[r], NotBack(r)))]
<1>1. /\ rooms' = open /\ members' = seated
      /\ ownerId' = [r \in Room |->
           IF r \notin open THEN NoMember
           ELSE IF ownerId[r] \in Remaining(r) THEN ownerId[r]
                ELSE OldestMember(Remaining(r))]
      /\ pendingMembers' = pending
      /\ disconnectedMembers' = MarkDisconnected(away, SeatsOf(cut), seated)
      /\ bannedNames' = [r \in Room |-> IF r \in open THEN bannedNames[r] ELSE {}]
      /\ idleAge' = [r \in Room |-> IF r \in open THEN idleAge[r] ELSE 0]
      /\ CutSockets(cut)
      /\ sinceSweep' = 0
      /\ UNCHANGED joinVars
  BY DEF Sweep, IdleAfterSweep
<1>2. cut \in SUBSET Socket
  BY SweepSets
<1>3. open \in SUBSET rooms /\ rooms \in SUBSET Room
  BY DEF LifecycleInv, TypeOK
<1>4. /\ pending \in [Room -> [Member -> Age]]
      /\ away \in [Room -> [Member -> Age]]
  BY DEF LifecycleInv, TypeOK, NoEntry, Age, Absent
<1>5. seated \in [Room -> SUBSET Member]
  BY SweepSets
<1>6. \A q \in Room, n \in Member :
        /\ pending[q][n] # Absent =>
             q \in open /\ pendingMembers[q][n] # Absent /\ n \notin NeverCame(q)
        /\ away[q][n] # Absent =>
             q \in open /\ disconnectedMembers[q][n] # Absent /\ n \notin NotBack(q)
  BY DEF NoEntry
<1>7. \A q \in open : seated[q] = members[q] \ (NeverCame(q) \cup NotBack(q))
  BY <1>3 DEF Remaining
<1>8. \A q \in Room : q \notin open => seated[q] = {}
  OBVIOUS
<1>9. \A q \in open : Remaining(q) # {} /\ seated[q] = Remaining(q)
  BY SweepSets, <1>3
<1>10. \A q \in Room : seated[q] \subseteq members[q]
  BY SweepSets
<1> HIDE DEF cut, pending, away, seated, open
<1>11. TypeOK'
  <2>1. ownerId' \in [Room -> Member \cup {NoMember}]
    <3>1. \A q \in open : OldestMember(Remaining(q)) \in Member
      BY SweepSets, OldestIsFirst, <1>3, <1>9 DEF LifecycleInv
    <3> QED BY <1>1, <3>1 DEF LifecycleInv, TypeOK
  <2>2. disconnectedMembers' \in [Room -> [Member -> Age]]
    BY <1>1, <1>4, EntryTypes
  <2> QED BY <1>1, <1>2, <1>3, <1>4, <1>5, <2>1, <2>2, CutTypes, BoundAssumption
          DEF LifecycleInv, TypeOK, joinVars
<1>12. JoinOrder'
  BY <1>1 DEF LifecycleInv, JoinOrder, joinVars, Drawn
<1>13. SeatsAreLive'
  BY <1>1, <1>8, <1>10 DEF LifecycleInv, SeatsAreLive, joinVars, Drawn
<1>14. BindingsAreLive'
  <2>1. /\ socketToMember' = [t \in Socket |->
             IF t \in cut \cup {} THEN NoSeat ELSE socketToMember[t]]
        /\ channel' = [t \in Socket |->
             IF t \in cut THEN {}
             ELSE IF t \in {} THEN channel[t] \ {0} ELSE channel[t]]
        /\ connected' = connected \ cut
    BY <1>1 DEF CutSockets
  <2>2. {} \in SUBSET Socket /\ joinedAt' = joinedAt
    BY <1>1 DEF joinVars
  <2> QED BY <1>1, <1>2, <1>10, <2>1, <2>2, FewerBindings
<1>15. OwnerIsOldest'
  <2> SUFFICES ASSUME NEW q \in open
               PROVE  /\ ownerId'[q] \in seated[q]
                      /\ \A n \in seated[q] \ {ownerId'[q]} :
                           joinedAt[ownerId'[q]] < joinedAt[n]
    BY <1>1 DEF OwnerIsOldest, joinVars
  <2>1. q \in rooms /\ q \in Room /\ seated[q] \subseteq members[q]
    BY <1>3, <1>10
  <2>2. CASE ownerId[q] \in seated[q]
    <3>1. ownerId'[q] = ownerId[q]
      BY <1>1, <1>9, <2>1, <2>2
    <3> QED BY <2>1, <2>2, <3>1 DEF LifecycleInv, OwnerIsOldest
  <2>3. CASE ownerId[q] \notin seated[q]
    <3>1. ownerId'[q] = OldestMember(seated[q])
      BY <1>1, <1>9, <2>1, <2>3
    <3>2. seated[q] \in SUBSET Member /\ seated[q] # {}
      BY <1>5, <1>9, <2>1
    <3>3. /\ OldestMember(seated[q]) \in seated[q]
          /\ \A n \in seated[q] : joinedAt[OldestMember(seated[q])] <= joinedAt[n]
      BY <3>2, OldestIsFirst DEF LifecycleInv
    <3>4. \A n, p \in seated[q] : joinedAt[n] = joinedAt[p] => n = p
      BY <2>1, <3>2 DEF LifecycleInv, JoinOrder, SeatsAreLive
    <3>5. \A n \in seated[q] : joinedAt[n] \in Nat
      BY <3>2 DEF LifecycleInv, TypeOK
    <3> QED BY <3>1, <3>3, <3>4, <3>5
  <2> QED BY <2>2, <2>3
<1>16. TimersMatchSeats'
  <2> SUFFICES ASSUME NEW q \in Room, NEW n \in Member
               PROVE  /\ pendingMembers'[q][n] # Absent =>
                           /\ n \in members'[q]
                           /\ disconnectedMembers'[q][n] = Absent
                           /\ \A s \in Socket : socketToMember'[s] # <<q, n>>
                      /\ disconnectedMembers'[q][n] # Absent => n \in members'[q]
    BY DEF TimersMatchSeats
  <2>1. /\ pendingMembers[q][n] # Absent =>
             /\ n \in members[q]
             /\ disconnectedMembers[q][n] = Absent
             /\ \A s \in Socket : socketToMember[s] # <<q, n>>
        /\ disconnectedMembers[q][n] # Absent => n \in members[q]
    BY DEF LifecycleInv, TimersMatchSeats
  <2>2. disconnectedMembers'[q][n] # Absent =>
          \/ n \in members'[q] /\ \E s \in Socket : socketToMember[s] = <<q, n>>
          \/ away[q][n] # Absent
    BY <1>1, <1>2 DEF MarkDisconnected, SeatsOf
  <2>3. \A s \in Socket : socketToMember'[s] = <<q, n>> => socketToMember[s] = <<q, n>>
    <3>1. \A s \in Socket : socketToMember'[s] \in {socketToMember[s], NoSeat}
      BY <1>1 DEF CutSockets
    <3>2. <<q, n>> # NoSeat
      BY SortAssumption
    <3> QED BY <3>1, <3>2
  <2>4. /\ n \in NotBack(q) => disconnectedMembers[q][n] # Absent
        /\ n \in NeverCame(q) => pendingMembers[q][n] # Absent
    BY BoundAssumption DEF NotBack, NeverCame, Overdue, Absent
  <2>5. ASSUME pendingMembers'[q][n] # Absent
        PROVE  /\ n \in members'[q]
               /\ disconnectedMembers'[q][n] = Absent
               /\ \A s \in Socket : socketToMember'[s] # <<q, n>>
    <3>1. q \in open /\ pendingMembers[q][n] # Absent /\ n \notin NeverCame(q)
      BY <1>1, <1>6, <2>5
    <3>2. n \notin NotBack(q)
      BY <2>1, <2>4, <3>1
    <3>3. n \in members'[q]
      BY <1>1, <1>7, <2>1, <3>1, <3>2
    <3>4. away[q][n] = Absent
      BY <1>6, <2>1, <3>1
    <3> QED BY <2>1, <2>2, <2>3, <3>1, <3>3, <3>4
  <2>6. ASSUME disconnectedMembers'[q][n] # Absent
        PROVE  n \in members'[q]
    <3>1. CASE away[q][n] # Absent
      <4>1. q \in open /\ disconnectedMembers[q][n] # Absent /\ n \notin NotBack(q)
        BY <1>6, <3>1
      <4>2. n \notin NeverCame(q)
        BY <2>1, <2>4, <4>1
      <4> QED BY <1>1, <1>7, <2>1, <4>1, <4>2
    <3> QED BY <2>2, <2>6, <3>1
  <2> QED BY <2>5, <2>6
<1> QED BY <1>11, <1>12, <1>13, <1>14, <1>15, <1>16 DEF LifecycleInv

(***************************************************************************)
(* The theorems                                                            *)
(***************************************************************************)

LEMMA StutterInv ==
  ASSUME LifecycleInv, UNCHANGED vars
  PROVE  LifecycleInv'
BY DEF LifecycleInv, vars, roomVars, timerVars, joinVars, socketVars, TypeOK,
       JoinOrder, SeatsAreLive, BindingsAreLive, OwnerIsOldest,
       TimersMatchSeats, Drawn

LEMMA NextInv == LifecycleInv /\ [Next]_vars => LifecycleInv'
<1> SUFFICES ASSUME LifecycleInv, [Next]_vars PROVE LifecycleInv'
  OBVIOUS
<1>1. CASE Handler
  BY <1>1, CreateRoomInv, JoinRoomInv, AddBotsInv, RecycleIdInv, ConnectInv, JoinSocketInv,
     LeaveRoomInv, KickMemberInv, DisconnectInv, SweepInv DEF Handler
<1>2. CASE Tick
  BY <1>2, TickInv
<1>3. CASE UNCHANGED vars
  BY <1>3, StutterInv
<1> QED BY <1>1, <1>2, <1>3 DEF Next

LEMMA LifecycleSafe == Spec => []LifecycleInv
BY InitInv, NextInv, PTL DEF Spec

\* The variables keep their types in every run.
THEOREM TypeCorrect == Spec => []TypeOK
<1>1. LifecycleInv => TypeOK
  BY DEF LifecycleInv
<1> QED BY <1>1, LifecycleSafe, PTL

\* Every live room is owned by its longest-seated member, whatever clients do
\* with their sockets.
THEOREM OwnershipSuccession == Spec => []OwnerIsOldest
<1>1. LifecycleInv => OwnerIsOldest
  BY DEF LifecycleInv
<1> QED BY <1>1, LifecycleSafe, PTL

\* The timer Maps of a room and its member Map agree, whatever clients do with
\* their sockets: a member that ever attached is never in pendingMembers.
THEOREM TimersAgreeWithSeats == Spec => []TimersMatchSeats
<1>1. LifecycleInv => TimersMatchSeats
  BY DEF LifecycleInv
<1> QED BY <1>1, LifecycleSafe, PTL

(***************************************************************************)
(* The sweep is never late                                                 *)
(***************************************************************************)

LEMMA TimersInPhaseInit == Init => TimersInPhase
BY BoundAssumption DEF Init, TimersInPhase, NoEntry, Absent

\* A step that ages nothing and only starts or forgets timers keeps the bound.
LEMMA NotOlder ==
  ASSUME TypeOK, TimersInPhase, sinceSweep' = sinceSweep,
         \A r \in Room : idleAge'[r] \in {idleAge[r], 0},
         \A r \in Room, m \in Member :
           /\ pendingMembers'[r][m] \in {pendingMembers[r][m], 0, Absent}
           /\ disconnectedMembers'[r][m] \in {disconnectedMembers[r][m], 0, Absent}
  PROVE  TimersInPhase'
<1> SUFFICES ASSUME NEW r \in Room
             PROVE  /\ idleAge'[r] < RoomTTL + sinceSweep
                    /\ \A m \in Member :
                         /\ pendingMembers'[r][m] < PendingTTL + sinceSweep
                         /\ disconnectedMembers'[r][m] < Grace + sinceSweep
  BY DEF TimersInPhase
<1>1. /\ sinceSweep \in Nat /\ SweepPeriod \in Nat
      /\ RoomTTL \in Nat \ {0} /\ PendingTTL \in Nat \ {0} /\ Grace \in Nat \ {0}
  BY BoundAssumption DEF TypeOK
<1>2. idleAge'[r] < RoomTTL + sinceSweep
  <2>1. idleAge[r] < RoomTTL + sinceSweep
    BY DEF TimersInPhase
  <2>2. CASE idleAge'[r] = idleAge[r]
    BY <2>1, <2>2
  <2>3. CASE idleAge'[r] = 0
    BY <1>1, <2>3
  <2> QED BY <2>2, <2>3
<1>3. ASSUME NEW m \in Member
      PROVE  /\ pendingMembers'[r][m] < PendingTTL + sinceSweep
             /\ disconnectedMembers'[r][m] < Grace + sinceSweep
  <2>1. /\ pendingMembers[r][m] < PendingTTL + sinceSweep
        /\ disconnectedMembers[r][m] < Grace + sinceSweep
    BY DEF TimersInPhase
  <2>2. /\ 0 < PendingTTL + sinceSweep /\ Absent < PendingTTL + sinceSweep
        /\ 0 < Grace + sinceSweep /\ Absent < Grace + sinceSweep
    BY <1>1 DEF Absent
  <2>3. /\ pendingMembers'[r][m] \in {pendingMembers[r][m], 0, Absent}
        /\ disconnectedMembers'[r][m] \in {disconnectedMembers[r][m], 0, Absent}
    OBVIOUS
  <2> QED BY <2>1, <2>2, <2>3
<1> QED BY <1>2, <1>3

LEMMA RemoveNotOlder ==
  ASSUME TypeOK, NEW r \in Room, NEW m \in Member, NEW fallen,
         RemoveMember(r, m, fallen)
  PROVE  /\ \A q \in Room : idleAge'[q] \in {idleAge[q], 0}
         /\ \A q \in Room, n \in Member :
              /\ pendingMembers'[q][n] \in {pendingMembers[q][n], 0, Absent}
              /\ disconnectedMembers'[q][n] \in {disconnectedMembers[q][n], 0, Absent}
<1>1. \A q \in Room : idleAge'[q] \in {idleAge[q], 0}
  BY DEF RemoveMember, TypeOK
<1>2. \A q \in Room, n \in Member :
        pendingMembers'[q][n] \in {pendingMembers[q][n], 0, Absent}
  BY DEF RemoveMember, TypeOK, Forget
<1>3. \A q \in Room, n \in Member :
        disconnectedMembers'[q][n] \in {disconnectedMembers[q][n], 0, Absent}
  BY DEF RemoveMember, TypeOK, Forget, MarkDisconnected
<1> QED BY <1>1, <1>2, <1>3

LEMMA TimersInPhaseNext ==
  LifecycleInv /\ TimersInPhase /\ [Next]_vars => TimersInPhase'
<1> SUFFICES ASSUME LifecycleInv, TimersInPhase, [Next]_vars
             PROVE  TimersInPhase'
  OBVIOUS
<1>0. TypeOK
  BY DEF LifecycleInv
<1>1. ASSUME NEW r \in Room, NEW m \in Member, CreateRoom(r, m)
      PROVE  TimersInPhase'
  BY <1>0, <1>1, NotOlder DEF CreateRoom, TypeOK, NoEntry
<1>2. ASSUME NEW r \in Room, NEW m \in Member, JoinRoom(r, m)
      PROVE  TimersInPhase'
  BY <1>0, <1>2, NotOlder DEF JoinRoom, TypeOK
<1>3. ASSUME NEW r \in Room, NEW m \in Member, AddBots(r, m)
      PROVE  TimersInPhase'
  BY <1>0, <1>3, NotOlder DEF AddBots, TypeOK, timerVars
<1>4. ASSUME NEW s \in Socket, Connect(s)
      PROVE  TimersInPhase'
  BY <1>0, <1>4, NotOlder DEF Connect, TypeOK, timerVars, roomVars
<1>5. ASSUME NEW s \in Socket, NEW r \in Room, NEW m \in Member, JoinSocket(s, r, m)
      PROVE  TimersInPhase'
  BY <1>0, <1>5, NotOlder DEF JoinSocket, TypeOK, Forget
<1>6. ASSUME NEW s \in Socket, NEW r \in Room, NEW m \in Member, LeaveRoom(s, r, m)
      PROVE  TimersInPhase'
  <2>1. PICK fallen : RemoveMember(r, m, fallen) /\ sinceSweep' = sinceSweep
    BY <1>6 DEF LeaveRoom
  <2> QED BY <1>0, <2>1, RemoveNotOlder, NotOlder
<1>7. ASSUME NEW r \in Room, NEW m \in Member, NEW target \in Member,
             KickMember(r, m, target)
      PROVE  TimersInPhase'
  <2>1. RemoveMember(r, target, {}) /\ sinceSweep' = sinceSweep
    BY <1>7 DEF KickMember
  <2> QED BY <1>0, <2>1, RemoveNotOlder, NotOlder
<1>8. ASSUME NEW s \in Socket, Disconnect(s)
      PROVE  TimersInPhase'
  BY <1>0, <1>8, NotOlder DEF Disconnect, TypeOK, MarkDisconnected, roomVars
<1>9. ASSUME Sweep
      PROVE  TimersInPhase'
  <2>1. \A r \in Room : idleAge'[r] < RoomTTL
    BY <1>0, <1>9, BoundAssumption
       DEF Sweep, IdleAfterSweep, Expired, Emptied, Overdue, TypeOK
  <2>2. ASSUME NEW r \in Room, NEW m \in Member
        PROVE  pendingMembers'[r][m] < PendingTTL
    <3>1. \/ pendingMembers'[r][m] = Absent
          \/ pendingMembers'[r][m] = pendingMembers[r][m] /\ m \notin NeverCame(r)
      BY <1>9 DEF Sweep, NoEntry
    <3>2. pendingMembers[r][m] \in Nat \cup {Absent}
      BY <1>0 DEF TypeOK, Age
    <3> QED BY <3>1, <3>2, BoundAssumption DEF NeverCame, Overdue, Absent
  <2>3. ASSUME NEW r \in Room, NEW m \in Member
        PROVE  disconnectedMembers'[r][m] < Grace
    <3>1. \/ disconnectedMembers'[r][m] \in {0, Absent}
          \/ disconnectedMembers'[r][m] = disconnectedMembers[r][m] /\ m \notin NotBack(r)
      BY <1>9 DEF Sweep, NoEntry, MarkDisconnected
    <3>2. disconnectedMembers[r][m] \in Nat \cup {Absent}
      BY <1>0 DEF TypeOK, Age
    <3> QED BY <3>1, <3>2, BoundAssumption DEF NotBack, Overdue, Absent
  <2>4. sinceSweep' = 0
    BY <1>9 DEF Sweep
  <2> QED BY <2>1, <2>2, <2>3, <2>4, BoundAssumption, SweepInv, <1>9
          DEF TimersInPhase, LifecycleInv, TypeOK, Age, Absent
<1>10. ASSUME Tick
       PROVE  TimersInPhase'
  BY <1>0, <1>10, BoundAssumption
     DEF Tick, TypeOK, TimersInPhase, OlderEntries, Older, Age, Absent
<1>11. ASSUME UNCHANGED vars
       PROVE  TimersInPhase'
  BY <1>11 DEF vars, roomVars, timerVars, TimersInPhase
<1>12. ASSUME NEW m \in Member, RecycleId(m)
       PROVE  TimersInPhase'
  BY <1>12 DEF RecycleId, roomVars, timerVars, TimersInPhase
<1> QED BY <1>1, <1>2, <1>3, <1>4, <1>5, <1>6, <1>7, <1>8, <1>9, <1>10, <1>11, <1>12
        DEF Next, Handler

\* No timer of any room runs longer than its limit plus one sweep period.
THEOREM SweepIsTimely == Spec => []TimersServedInTime
<1>1. Spec => []TimersInPhase
  BY LifecycleSafe, TimersInPhaseInit, TimersInPhaseNext, PTL DEF Spec
<1>2. TypeOK /\ TimersInPhase => TimersServedInTime
  <2> SUFFICES ASSUME TypeOK, TimersInPhase, NEW r \in Room
               PROVE  /\ idleAge[r] < RoomTTL + SweepPeriod
                      /\ \A m \in Member :
                           /\ pendingMembers[r][m] < PendingTTL + SweepPeriod
                           /\ disconnectedMembers[r][m] < Grace + SweepPeriod
    BY DEF TimersServedInTime
  <2>1. /\ sinceSweep \in Nat /\ sinceSweep <= SweepPeriod
        /\ SweepPeriod \in Nat /\ RoomTTL \in Nat
        /\ PendingTTL \in Nat /\ Grace \in Nat
    BY BoundAssumption DEF TypeOK
  <2>2. idleAge[r] \in Int /\ idleAge[r] < RoomTTL + sinceSweep
    BY DEF TypeOK, TimersInPhase
  <2>3. ASSUME NEW m \in Member
        PROVE  /\ pendingMembers[r][m] < PendingTTL + SweepPeriod
               /\ disconnectedMembers[r][m] < Grace + SweepPeriod
    <3>1. /\ pendingMembers[r][m] < PendingTTL + sinceSweep
          /\ disconnectedMembers[r][m] < Grace + sinceSweep
      BY DEF TimersInPhase
    <3>2. pendingMembers[r][m] \in Int /\ disconnectedMembers[r][m] \in Int
      BY DEF TypeOK, Age, Absent
    <3> QED BY <2>1, <3>1, <3>2
  <2> QED BY <2>1, <2>2, <2>3
<1> QED BY <1>1, <1>2, TypeCorrect, PTL
=============================================================================
