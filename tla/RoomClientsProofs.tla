-------------------------- MODULE RoomClientsProofs --------------------------
(***************************************************************************)
(* Theorems about RoomLifecycle under an assumption on clients: that a     *)
(* socket which holds a seat never asks for another one (~Roaming), or     *)
(* that a client does not attach a new socket before the server has seen   *)
(* the old one fall (~Overlap).                                            *)
(***************************************************************************)
EXTENDS RoomLifecycleProofs

\* A seat is accounted for: a timer runs for it, or a live socket holds it.
Accounted(q, n) ==
  \/ pendingMembers[q][n] # Absent
  \/ disconnectedMembers[q][n] # Absent
  \/ \E t \in Socket : Holds(t, q, n)

LEMMA AccountedSeats ==
  NoForgottenSeat <=> \A q \in rooms : \A n \in members[q] \ bots : Accounted(q, n)
BY DEF NoForgottenSeat, Accounted

LEMMA BoundIsSeat ==
  ASSUME LifecycleInv, NEW q \in Room, NEW n \in members[q],
         NEW r \in Room, NEW m \in members[r], NEW t \in Socket,
         socketToMember[t] = <<q, n>>, SpeaksFor(t, m)
  PROVE  q = r /\ n = m
BY DEF LifecycleInv, SeatsAreLive, BindingsAreLive, SpeaksFor, TypeOK

\* What removeMember does to the seats of everybody else: membership and
\* timers stay, except that the seats of fallen sockets start their grace.
LEMMA OtherSeats ==
  ASSUME LifecycleInv, NEW r \in rooms, NEW m \in members[r], NEW fallen,
         RemoveMember(r, m, fallen), NEW q \in Room, NEW n \in Member
  PROVE  /\ n \in members'[q] <=> n \in members[q] /\ ~ (q = r /\ n = m)
         /\ ~ (q = r /\ n = m) => pendingMembers'[q][n] = pendingMembers[q][n]
         /\ <<q, n>> \in fallen /\ n \in members'[q] => disconnectedMembers'[q][n] = 0
         /\ <<q, n>> \notin fallen /\ ~ (q = r /\ n = m) =>
              disconnectedMembers'[q][n] = disconnectedMembers[q][n]
         /\ disconnectedMembers'[q][n] # Absent =>
              \/ <<q, n>> \in fallen
              \/ disconnectedMembers[q][n] # Absent /\ ~ (q = r /\ n = m)
<1>1. r \in Room /\ m \in Member
  BY DEF LifecycleInv, TypeOK
<1>2. n \in members'[q] <=> n \in members[q] /\ ~ (q = r /\ n = m)
  BY <1>1 DEF LifecycleInv, TypeOK, RemoveMember
<1>3. ~ (q = r /\ n = m) => pendingMembers'[q][n] = pendingMembers[q][n]
  BY <1>1 DEF LifecycleInv, TypeOK, RemoveMember, Forget
<1>4. disconnectedMembers'[q][n] =
        IF <<q, n>> \in fallen /\ n \in members'[q] THEN 0
        ELSE IF q = r /\ n = m THEN Absent ELSE disconnectedMembers[q][n]
  BY <1>1 DEF LifecycleInv, TypeOK, RemoveMember, Forget, MarkDisconnected
<1> QED BY <1>2, <1>3, <1>4

\* What leave-room and kick-member have in common: the seat <<r, m>> goes with
\* every binding of its sockets, the sockets of `cut` fall, the seats they held
\* start their grace unless it is <<r, m>>, and every other binding stays.
Unseats(r, m, cut, fallen) ==
  /\ RemoveMember(r, m, fallen)
  /\ connected' = connected \ cut
  /\ fallen \subseteq SeatsOf(cut) /\ SeatsOf(cut) \subseteq fallen \cup {<<r, m>>}
  /\ \A t \in Socket :
       /\ t \in cut => channel'[t] = {}
       /\ channel'[t] \subseteq channel[t]
       /\ socketToMember'[t] \in {socketToMember[t], NoSeat}
       /\ socketToMember[t] = <<r, m>> => r \notin channel'[t]
       /\ \A q \in Room : \A n \in members[q] :
            socketToMember[t] = <<q, n>> /\ <<q, n>> # <<r, m>> /\ t \notin cut =>
              socketToMember'[t] = <<q, n>>

LEMMA LeaveUnseats ==
  ASSUME LifecycleInv, ~Roaming,
         NEW s \in Socket, NEW r \in Room, NEW m \in Member, LeaveRoom(s, r, m)
  PROVE  /\ r \in rooms /\ m \in members[r]
         /\ UNCHANGED bots
         /\ \E cut \in SUBSET Socket : Unseats(r, m, cut, SeatsOf(cut))
<1> DEFINE cut     == IF members[r] = {m} THEN InChannel(r) ELSE {}
           unbound == SocketsOfMember(r, m) \cup {s}
<1>1. /\ RemoveMember(r, m, SeatsOf(cut))
      /\ connected' = connected \ cut
      /\ socketToMember' = [t \in Socket |->
           IF t \in cut \cup unbound THEN NoSeat ELSE socketToMember[t]]
      /\ channel' = [t \in Socket |->
           IF t \in cut THEN {}
           ELSE IF t \in unbound THEN channel[t] \ {r} ELSE channel[t]]
      /\ r \in rooms /\ m \in members[r]
      /\ socketToMember[s] \in {NoSeat, <<r, m>>}
      /\ UNCHANGED bots
  BY DEF LeaveRoom, joinVars
<1>2. cut \in SUBSET Socket
  BY DEF InChannel, LifecycleInv, TypeOK
<1>3. ASSUME NEW t \in Socket, NEW q \in Room, NEW n \in members[q],
             socketToMember[t] = <<q, n>>, <<q, n>> # <<r, m>>, t \notin cut
      PROVE  socketToMember'[t] = <<q, n>>
  <2>1. t \notin SocketsOfMember(r, m)
    BY <1>1, <1>3, BoundIsSeat DEF SocketsOfMember
  <2>2. <<q, n>> # NoSeat
    BY SortAssumption DEF LifecycleInv, TypeOK
  <2>3. t # s
    BY <1>1, <1>3, <2>2
  <2> QED BY <1>1, <1>3, <2>1, <2>3
<1>4. \A t \in Socket : socketToMember[t] = <<r, m>> => t \in unbound
  BY DEF SocketsOfMember, InChannel, SpeaksFor, LifecycleInv, BindingsAreLive
<1>5. \A t \in Socket : channel[t] \in SUBSET Room
  BY DEF LifecycleInv, TypeOK
<1> HIDE DEF cut, unbound
<1>6. \A t \in Socket :
        /\ t \in cut => channel'[t] = {}
        /\ channel'[t] \subseteq channel[t]
        /\ socketToMember'[t] \in {socketToMember[t], NoSeat}
        /\ t \in unbound => r \notin channel'[t]
  BY <1>1, <1>5
<1>7. Unseats(r, m, cut, SeatsOf(cut))
  BY <1>1, <1>3, <1>4, <1>6 DEF Unseats
<1> QED BY <1>1, <1>2, <1>7

LEMMA KickUnseats ==
  ASSUME LifecycleInv,
         NEW r \in Room, NEW m \in Member, NEW target \in Member,
         KickMember(r, m, target)
  PROVE  /\ r \in rooms /\ target \in members[r]
         /\ UNCHANGED bots
         /\ \E cut \in SUBSET Socket : Unseats(r, target, cut, {})
<1> DEFINE cut == SocketsOfMember(r, target)
<1>1. /\ RemoveMember(r, target, {})
      /\ CutSockets(cut)
      /\ r \in rooms /\ target \in members[r]
      /\ UNCHANGED bots
  BY DEF KickMember, joinVars
<1>2. cut \in SUBSET Socket
  BY DEF SocketsOfMember, InChannel, LifecycleInv, TypeOK
<1>3. SeatsOf(cut) \subseteq {<<r, target>>}
  <2>1. ASSUME NEW t \in cut
        PROVE  socketToMember[t] = <<r, target>>
    <3>1. PICK q \in Room : socketToMember[t] = <<q, target>>
      BY DEF SocketsOfMember, SpeaksFor
    <3>2. r \in Room /\ t \in Socket
      BY <1>2 DEF LifecycleInv, TypeOK
    <3> QED BY <1>1, <3>1, <3>2 DEF LifecycleInv, BindingsAreLive
  <2> QED BY <2>1 DEF SeatsOf
<1>4. \A t \in Socket : socketToMember[t] = <<r, target>> => t \in cut
  BY DEF SocketsOfMember, InChannel, SpeaksFor, LifecycleInv, BindingsAreLive
<1> HIDE DEF cut
<1>5. Unseats(r, target, cut, {})
  BY <1>1, <1>3, <1>4 DEF Unseats, CutSockets
<1> QED BY <1>1, <1>2, <1>5

(***************************************************************************)
(* No forgotten seat                                                       *)
(***************************************************************************)

LEMMA UnseatsForgetsNobody ==
  ASSUME LifecycleInv, NoForgottenSeat, UNCHANGED bots,
         NEW r \in rooms, NEW m \in members[r],
         NEW cut \in SUBSET Socket, NEW fallen, Unseats(r, m, cut, fallen)
  PROVE  NoForgottenSeat'
<1>a. r \in Room /\ m \in Member /\ TypeOK
  BY DEF LifecycleInv, TypeOK
<1>0. rooms' \in SUBSET Room /\ members' \in [Room -> SUBSET Member] /\ bots' = bots
  <2>1. RemoveMember(r, m, fallen)
    BY DEF Unseats
  <2>2. rooms' \in SUBSET Room /\ members' \in [Room -> SUBSET Member]
    BY <1>a, <2>1, RemoveTypes
  <2> QED BY <2>2
<1> SUFFICES ASSUME NEW q \in Room, NEW n \in Member, n \in members'[q], n \notin bots
             PROVE  Accounted(q, n)'
  <2>1. ASSUME NEW q \in rooms', NEW n \in members'[q] \ bots'
        PROVE  Accounted(q, n)'
    BY <1>0, <2>1
  <2> QED BY <2>1 DEF NoForgottenSeat, Accounted
<1>1. RemoveMember(r, m, fallen)
  BY DEF Unseats
<1>2. /\ n \in members'[q] <=> n \in members[q] /\ ~ (q = r /\ n = m)
      /\ ~ (q = r /\ n = m) => pendingMembers'[q][n] = pendingMembers[q][n]
      /\ <<q, n>> \in fallen /\ n \in members'[q] => disconnectedMembers'[q][n] = 0
      /\ <<q, n>> \notin fallen /\ ~ (q = r /\ n = m) =>
           disconnectedMembers'[q][n] = disconnectedMembers[q][n]
  BY <1>1, OtherSeats
<1>3. n \in members[q] /\ ~ (q = r /\ n = m) /\ Accounted(q, n)
  BY <1>2 DEF NoForgottenSeat, Accounted, LifecycleInv, SeatsAreLive
<1>4. pendingMembers'[q][n] = pendingMembers[q][n]
  BY <1>2, <1>3
<1>5. CASE <<q, n>> \in fallen
  <2>1. disconnectedMembers'[q][n] = 0
    BY <1>2, <1>5
  <2> QED BY <2>1 DEF Accounted, Absent
<1>6. CASE <<q, n>> \notin fallen
  <2>1. disconnectedMembers'[q][n] = disconnectedMembers[q][n]
    BY <1>2, <1>3, <1>6
  <2>2. ASSUME NEW t \in Socket, Holds(t, q, n)
        PROVE  Holds(t, q, n)'
    <3>1. <<q, n>> # NoSeat
      BY SortAssumption
    <3>2. t \notin cut
      BY <1>3, <1>6, <2>2, <3>1 DEF Unseats, SeatsOf, Holds
    <3> QED BY <1>3, <2>2, <3>2 DEF Unseats, Holds
  <2> QED BY <1>3, <1>4, <2>1, <2>2 DEF Accounted
<1> QED BY <1>5, <1>6

LEMMA SweepForgetsNobody ==
  ASSUME LifecycleInv, NoForgottenSeat, Sweep
  PROVE  NoForgottenSeat'
<1> DEFINE cut == UNION {InChannel(r) : r \in Expired}
<1>1. /\ rooms' = rooms \ (Emptied \cup Expired)
      /\ members' = [r \in Room |-> IF r \in rooms' THEN Remaining(r) ELSE {}]
      /\ UNCHANGED bots
      /\ CutSockets(cut)
  BY DEF Sweep, joinVars
<1> SUFFICES ASSUME NEW q \in rooms', NEW n \in Remaining(q), n \notin bots
             PROVE  Accounted(q, n)'
  BY <1>1 DEF NoForgottenSeat, Accounted, LifecycleInv, TypeOK
<1>2. q \in rooms /\ q \in Room /\ n \in Member /\ n \in members[q]
      /\ n \notin NeverCame(q) /\ n \notin NotBack(q)
  BY <1>1 DEF LifecycleInv, TypeOK, Remaining
<1>3. pendingMembers'[q][n] = pendingMembers[q][n]
  BY <1>1, <1>2 DEF Sweep
<1>4. /\ <<q, n>> \in SeatsOf(cut) => disconnectedMembers'[q][n] = 0
      /\ <<q, n>> \notin SeatsOf(cut) =>
           disconnectedMembers'[q][n] = disconnectedMembers[q][n]
  BY <1>1, <1>2 DEF Sweep, MarkDisconnected
<1>5. ASSUME NEW t \in Socket, Holds(t, q, n), <<q, n>> \notin SeatsOf(cut)
      PROVE  Holds(t, q, n)'
  <2>1. <<q, n>> # NoSeat
    BY <1>2, SortAssumption
  <2> QED BY <1>1, <1>5, <2>1 DEF CutSockets, Holds, SeatsOf
<1>6. Accounted(q, n)
  BY <1>2 DEF NoForgottenSeat, Accounted
<1> QED BY <1>3, <1>4, <1>5, <1>6 DEF Accounted, Absent

\* A seat stays accounted for while its timers keep running and its socket
\* stays bound.
LEMMA StillAccounted ==
  ASSUME NEW q, NEW n, Accounted(q, n),
         pendingMembers[q][n] # Absent => pendingMembers'[q][n] # Absent,
         disconnectedMembers[q][n] # Absent => disconnectedMembers'[q][n] # Absent,
         \A t \in Socket : Holds(t, q, n) =>
           Holds(t, q, n)' \/ disconnectedMembers'[q][n] # Absent
  PROVE  Accounted(q, n)'
BY DEF Accounted

LEMMA NextForgetsNobody ==
  LifecycleInv /\ (~Roaming => NoForgottenSeat) /\ [Next]_vars
    => (~Roaming => NoForgottenSeat)'
<1> SUFFICES ASSUME LifecycleInv, ~Roaming, NoForgottenSeat, [Next]_vars
             PROVE  NoForgottenSeat'
  OBVIOUS
<1> USE DEF LifecycleInv, TypeOK
<1>0. \A q \in rooms : \A n \in members[q] \ bots :
        q \in Room /\ n \in Member /\ Accounted(q, n)
  BY DEF NoForgottenSeat, Accounted
<1>1. ASSUME NEW r \in Room, NEW m \in Member, CreateRoom(r, m)
      PROVE  NoForgottenSeat'
  <2> SUFFICES ASSUME NEW q \in rooms', NEW n \in members'[q] \ bots
               PROVE  Accounted(q, n)'
    BY <1>1 DEF CreateRoom, NoForgottenSeat, Accounted
  <2>1. CASE q = r
    BY <1>1, <2>1 DEF CreateRoom, Accounted, NoEntry, Absent
  <2>2. CASE q # r
    BY <1>0, <1>1, <2>2, StillAccounted DEF CreateRoom, Holds, socketVars
  <2> QED BY <2>1, <2>2
<1>2. ASSUME NEW r \in Room, NEW m \in Member, JoinRoom(r, m)
      PROVE  NoForgottenSeat'
  <2> SUFFICES ASSUME NEW q \in rooms, NEW n \in members'[q] \ bots
               PROVE  Accounted(q, n)'
    BY <1>2 DEF JoinRoom, NoForgottenSeat, Accounted
  <2>1. CASE q = r /\ n = m
    BY <1>2, <2>1 DEF JoinRoom, Accounted, Absent
  <2>2. CASE ~ (q = r /\ n = m)
    BY <1>0, <1>2, <2>2, StillAccounted DEF JoinRoom, Holds, socketVars
  <2> QED BY <2>1, <2>2
<1>3. ASSUME NEW r \in Room, NEW m \in Member, AddBots(r, m)
      PROVE  NoForgottenSeat'
  <2>1. PICK new \in SUBSET Member :
          /\ members' = [members EXCEPT ![r] = @ \cup new]
          /\ bots' = bots \cup new
    BY <1>3 DEF AddBots
  <2>2. /\ rooms' = rooms /\ UNCHANGED timerVars /\ UNCHANGED socketVars
    BY <1>3 DEF AddBots
  <2>3. \A q \in rooms : \A n \in members'[q] \ bots' : n \in members[q] \ bots
    BY <2>1
  <2> QED BY <2>2, <2>3 DEF NoForgottenSeat, Holds, socketVars, timerVars
<1>4. ASSUME NEW s \in Socket, Connect(s)
      PROVE  NoForgottenSeat'
  <2>1. /\ UNCHANGED <<rooms, members, bots, pendingMembers, disconnectedMembers>>
        /\ \A t \in Socket, q \in Room, n \in Member :
             Holds(t, q, n) => Holds(t, q, n)'
    BY <1>4 DEF Connect, Holds, roomVars, timerVars, joinVars
  <2>2. \A q \in rooms : q \in Room /\ members[q] \subseteq Member
    BY <1>0
  <2> QED BY <2>1, <2>2 DEF NoForgottenSeat
<1>11. ASSUME NEW m \in Member, RecycleId(m)
       PROVE  NoForgottenSeat'
  <2>1. \A q \in rooms : \A n \in members[q] \ bots' : n \in members[q] \ bots
    BY <1>11 DEF RecycleId
  <2>2. UNCHANGED <<rooms, members, pendingMembers, disconnectedMembers, connected,
                    socketToMember>>
    BY <1>11 DEF RecycleId, roomVars, timerVars, socketVars
  <2>3. \A q \in rooms : q \in Room /\ members[q] \subseteq Member
    BY <1>0
  <2> QED BY <2>1, <2>2, <2>3 DEF NoForgottenSeat, Holds
<1>5. ASSUME NEW s \in Socket, NEW r \in Room, NEW m \in Member, JoinSocket(s, r, m)
      PROVE  NoForgottenSeat'
  <2> SUFFICES ASSUME NEW q \in rooms, NEW n \in members[q] \ bots
               PROVE  Accounted(q, n)'
    BY <1>5 DEF JoinSocket, NoForgottenSeat, Accounted, joinVars
  <2>1. Accounted(q, n)
    BY DEF NoForgottenSeat, Accounted
  <2>2. CASE <<q, n>> = <<r, m>>
    BY <1>5, <2>2 DEF JoinSocket, Accounted, Holds
  <2>3. CASE <<q, n>> # <<r, m>>
    <3>1. /\ pendingMembers'[q][n] = pendingMembers[q][n]
          /\ disconnectedMembers'[q][n] = disconnectedMembers[q][n]
      BY <1>5, <2>3 DEF JoinSocket, Forget
    <3>2. <<q, n>> # NoSeat
      BY SortAssumption
    <3>3. socketToMember[s] # <<q, n>>
      BY <1>5, <2>3, <3>2 DEF JoinSocket, MayAttach
    <3> QED BY <1>5, <2>1, <3>1, <3>3 DEF JoinSocket, Accounted, Holds
  <2> QED BY <2>2, <2>3
<1>6. ASSUME NEW s \in Socket, NEW r \in Room, NEW m \in Member, LeaveRoom(s, r, m)
      PROVE  NoForgottenSeat'
  BY <1>6, LeaveUnseats, UnseatsForgetsNobody
<1>7. ASSUME NEW r \in Room, NEW m \in Member, NEW target \in Member,
             KickMember(r, m, target)
      PROVE  NoForgottenSeat'
  BY <1>7, KickUnseats, UnseatsForgetsNobody
<1>8. ASSUME NEW s \in Socket, Disconnect(s)
      PROVE  NoForgottenSeat'
  <2> SUFFICES ASSUME NEW q \in rooms, NEW n \in members[q] \ bots
               PROVE  Accounted(q, n)'
    BY <1>8 DEF Disconnect, NoForgottenSeat, Accounted, roomVars, joinVars
  <2>1. q \in Room /\ n \in Member /\ <<q, n>> # NoSeat
    BY <1>0, SortAssumption
  <2>2. CASE socketToMember[s] = <<q, n>>
    <3>1. disconnectedMembers'[q][n] = 0
      BY <1>8, <2>1, <2>2 DEF Disconnect, MarkDisconnected, SeatsOf
    <3> QED BY <3>1 DEF Accounted, Absent
  <2>3. CASE socketToMember[s] # <<q, n>>
    <3>1. /\ disconnectedMembers'[q][n] = disconnectedMembers[q][n]
          /\ pendingMembers' = pendingMembers
      BY <1>8, <2>1, <2>3 DEF Disconnect, MarkDisconnected, SeatsOf
    <3>2. \A t \in Socket : Holds(t, q, n) => Holds(t, q, n)'
      BY <1>8, <2>3 DEF Disconnect, CutSockets, Holds
    <3> QED BY <1>0, <3>1, <3>2, StillAccounted
  <2> QED BY <2>2, <2>3
<1>9. ASSUME Tick
      PROVE  NoForgottenSeat'
  <2> SUFFICES ASSUME NEW q \in rooms, NEW n \in members[q] \ bots
               PROVE  Accounted(q, n)'
    BY <1>9 DEF Tick, NoForgottenSeat, Accounted, joinVars
  <2>1. /\ pendingMembers[q][n] # Absent => pendingMembers'[q][n] # Absent
        /\ disconnectedMembers[q][n] # Absent => disconnectedMembers'[q][n] # Absent
    BY <1>0, <1>9 DEF Tick, OlderEntries, Older, Absent, Age
  <2>2. \A t \in Socket : Holds(t, q, n) => Holds(t, q, n)'
    BY <1>9 DEF Tick, Holds, socketVars
  <2> QED BY <1>0, <2>1, <2>2, StillAccounted
<1>10. ASSUME UNCHANGED vars
       PROVE  NoForgottenSeat'
  <2>1. UNCHANGED <<rooms, members, bots, pendingMembers, disconnectedMembers,
                    connected, socketToMember>>
    BY <1>10 DEF vars, roomVars, timerVars, joinVars, socketVars
  <2>2. \A t \in Socket, q \in Room, n \in Member :
          Holds(t, q, n) => Holds(t, q, n)'
    BY <2>1 DEF Holds
  <2>3. \A q \in rooms : q \in Room /\ members[q] \subseteq Member
    BY <1>0
  <2> QED BY <2>1, <2>2, <2>3 DEF NoForgottenSeat
<1> QED BY <1>1, <1>2, <1>3, <1>4, <1>5, <1>6, <1>7, <1>8, <1>9, <1>10, <1>11,
           SweepForgetsNobody DEF Next, Handler

\* If no socket changes seats, nobody keeps a seat unseen: whoever has no live
\* socket has a timer running, so the sweep gets the seat back.
THEOREM SeatsAreAccountedFor == Spec => [](~Roaming => NoForgottenSeat)
<1>1. Init => (~Roaming => NoForgottenSeat)
  BY DEF Init, NoForgottenSeat
<1> QED BY <1>1, LifecycleSafe, NextForgetsNobody, PTL DEF Spec

(***************************************************************************)
(* The grace period runs only for members that are gone                    *)
(***************************************************************************)

\* One voice per seat, and its timers are silent while it speaks.
OneVoice == OneSocketPerSeat /\ GraceOnlyWhileAway

\* Nothing binds a socket here, and timers of held seats are not started.
LEMMA StillOneVoice ==
  ASSUME OneVoice,
         \A t \in Socket, q \in Room, n \in Member :
           socketToMember'[t] = <<q, n>> => socketToMember[t] = <<q, n>>,
         \A t \in Socket, q \in Room, n \in Member :
           Holds(t, q, n)' => Holds(t, q, n),
         \A q \in Room, n \in Member : disconnectedMembers'[q][n] # Absent =>
           \/ disconnectedMembers[q][n] # Absent
           \/ ~ \E t \in Socket : Holds(t, q, n)'
  PROVE  OneVoice'
<1>1. OneSocketPerSeat'
  BY DEF OneVoice, OneSocketPerSeat
<1>2. GraceOnlyWhileAway'
  BY DEF OneVoice, GraceOnlyWhileAway
<1> QED BY <1>1, <1>2 DEF OneVoice

\* When the only socket of a seat falls, nobody holds the seat any more.
LEMMA FallenIsUnheld ==
  ASSUME OneSocketPerSeat, NEW cut \in SUBSET Socket,
         \A t \in cut : t \notin connected',
         \A t \in Socket : socketToMember'[t] \in {socketToMember[t], NoSeat},
         NEW q \in Room, NEW n \in Member, <<q, n>> \in SeatsOf(cut)
  PROVE  ~ \E t \in Socket : Holds(t, q, n)'
<1>1. PICK s \in cut : socketToMember[s] = <<q, n>>
  BY DEF SeatsOf
<1>2. <<q, n>> # NoSeat
  BY SortAssumption
<1>3. \A t \in Socket : socketToMember'[t] = <<q, n>> => t = s
  BY <1>1, <1>2 DEF OneSocketPerSeat
<1> QED BY <1>1, <1>3 DEF Holds

LEMMA UnbindingKeepsBindings ==
  ASSUME \A t \in Socket : socketToMember'[t] \in {socketToMember[t], NoSeat},
         connected' \subseteq connected
  PROVE  \A t \in Socket, q \in Room, n \in Member :
           /\ socketToMember'[t] = <<q, n>> => socketToMember[t] = <<q, n>>
           /\ Holds(t, q, n)' => Holds(t, q, n)
<1>1. \A q \in Room, n \in Member : <<q, n>> # NoSeat
  BY SortAssumption
<1> QED BY <1>1 DEF Holds

\* Leaving and kicking start a grace period only for sockets that fell.
LEMMA RemovalKeepsOneVoice ==
  ASSUME LifecycleInv, OneVoice,
         NEW r \in rooms, NEW m \in members[r], NEW cut \in SUBSET Socket, NEW fallen,
         fallen \subseteq SeatsOf(cut),
         RemoveMember(r, m, fallen),
         connected' \subseteq connected, \A t \in cut : t \notin connected',
         \A t \in Socket : socketToMember'[t] \in {socketToMember[t], NoSeat}
  PROVE  OneVoice'
<1>1. ASSUME NEW q \in Room, NEW n \in Member, disconnectedMembers'[q][n] # Absent
      PROVE  \/ disconnectedMembers[q][n] # Absent
             \/ ~ \E t \in Socket : Holds(t, q, n)'
  <2>1. <<q, n>> \in fallen \/ disconnectedMembers[q][n] # Absent
    BY <1>1, OtherSeats
  <2>2. CASE <<q, n>> \in fallen
    BY <2>2, FallenIsUnheld DEF OneVoice
  <2> QED BY <2>1, <2>2
<1> QED BY <1>1, UnbindingKeepsBindings, StillOneVoice

LEMMA NextKeepsOneVoice ==
  LifecycleInv /\ (~Overlap => OneVoice) /\ [Next]_vars => (~Overlap => OneVoice)'
<1> SUFFICES ASSUME LifecycleInv, ~Overlap, OneVoice, [Next]_vars
             PROVE  OneVoice'
  OBVIOUS
<1> DEFINE SameSockets == UNCHANGED connected /\ UNCHANGED socketToMember
<1>0. TypeOK
  BY DEF LifecycleInv
<1>a. ASSUME connected \subseteq connected', socketToMember' = socketToMember,
             \A q \in Room, n \in Member : disconnectedMembers'[q][n] # Absent =>
               disconnectedMembers[q][n] # Absent
      PROVE  OneVoice'
  <2>1. \A t \in Socket, q \in Room, n \in Member : Holds(t, q, n)' => Holds(t, q, n)
    BY <1>a DEF Holds, LifecycleInv, BindingsAreLive
  <2> QED BY <1>a, <2>1, StillOneVoice
<1>1. ASSUME NEW r \in Room, NEW m \in Member, CreateRoom(r, m)
      PROVE  OneVoice'
  BY <1>0, <1>1, <1>a DEF CreateRoom, TypeOK, NoEntry, socketVars
<1>2. ASSUME NEW r \in Room, NEW m \in Member, JoinRoom(r, m)
      PROVE  OneVoice'
  BY <1>2, <1>a DEF JoinRoom, socketVars
<1>3. ASSUME NEW r \in Room, NEW m \in Member, AddBots(r, m)
      PROVE  OneVoice'
  BY <1>3, <1>a DEF AddBots, socketVars, timerVars
<1>4. ASSUME NEW s \in Socket, Connect(s)
      PROVE  OneVoice'
  BY <1>4, <1>a DEF Connect, timerVars
<1>12. ASSUME NEW m \in Member, RecycleId(m)
       PROVE  OneVoice'
  BY <1>12, <1>a DEF RecycleId, timerVars, socketVars
<1>5. ASSUME NEW s \in Socket, NEW r \in Room, NEW m \in Member, JoinSocket(s, r, m)
      PROVE  OneVoice'
  <2>1. /\ socketToMember' = [socketToMember EXCEPT ![s] = <<r, m>>]
        /\ disconnectedMembers' = Forget(disconnectedMembers, r, m)
        /\ connected' = connected
        /\ \A t \in connected \ {s} : socketToMember[t] # <<r, m>>
    BY <1>5 DEF JoinSocket, MayAttach
  <2>2. \A t \in Socket \ {s} : socketToMember[t] # <<r, m>>
    BY <2>1 DEF LifecycleInv, BindingsAreLive
  <2>3. \A t \in Socket, q \in Room, n \in Member :
          socketToMember'[t] = <<q, n>> <=>
            \/ t = s /\ q = r /\ n = m
            \/ t # s /\ socketToMember[t] = <<q, n>>
    BY <1>0, <2>1 DEF TypeOK
  <2>4. OneSocketPerSeat'
    BY <2>2, <2>3 DEF OneVoice, OneSocketPerSeat
  <2>5. \A q \in Room, n \in Member : disconnectedMembers'[q][n] # Absent =>
          disconnectedMembers[q][n] # Absent /\ ~ (q = r /\ n = m)
    BY <1>0, <2>1 DEF TypeOK, Forget
  <2>6. GraceOnlyWhileAway'
    BY <2>1, <2>3, <2>5 DEF OneVoice, GraceOnlyWhileAway, Holds
  <2> QED BY <2>4, <2>6 DEF OneVoice
<1>6. ASSUME NEW s \in Socket, NEW r \in Room, NEW m \in Member, LeaveRoom(s, r, m)
      PROVE  OneVoice'
  <2> DEFINE cut == IF members[r] = {m} THEN InChannel(r) ELSE {}
  <2>1. /\ r \in rooms /\ m \in members[r]
        /\ RemoveMember(r, m, SeatsOf(cut))
        /\ connected' = connected \ cut
    BY <1>6 DEF LeaveRoom
  <2>2. \A t \in Socket : socketToMember'[t] \in {socketToMember[t], NoSeat}
    BY <1>6 DEF LeaveRoom
  <2>3. cut \in SUBSET Socket
    BY <1>0 DEF InChannel, TypeOK
  <2> HIDE DEF cut
  <2>4. connected' \subseteq connected /\ \A t \in cut : t \notin connected'
    BY <2>1
  <2> QED BY <2>1, <2>2, <2>3, <2>4, RemovalKeepsOneVoice
<1>7. ASSUME NEW r \in Room, NEW m \in Member, NEW target \in Member,
             KickMember(r, m, target)
      PROVE  OneVoice'
  <2>1. /\ r \in rooms /\ target \in members[r]
        /\ RemoveMember(r, target, {})
        /\ connected' \subseteq connected
        /\ \A t \in Socket : socketToMember'[t] \in {socketToMember[t], NoSeat}
    BY <1>7 DEF KickMember, CutSockets
  <2>2. {} \in SUBSET Socket /\ {} \subseteq SeatsOf({}) /\ \A t \in {} : t \notin connected'
    OBVIOUS
  <2> QED BY <2>1, <2>2, RemovalKeepsOneVoice
<1>8. ASSUME NEW s \in Socket, Disconnect(s)
      PROVE  OneVoice'
  <2>1. /\ \A t \in Socket : socketToMember'[t] \in {socketToMember[t], NoSeat}
        /\ connected' \subseteq connected /\ \A t \in {s} : t \notin connected'
    BY <1>8 DEF Disconnect, CutSockets
  <2>2. \A q \in Room, n \in Member : disconnectedMembers'[q][n] # Absent =>
          <<q, n>> \in SeatsOf({s}) \/ disconnectedMembers[q][n] # Absent
    BY <1>8 DEF Disconnect, MarkDisconnected
  <2>3. {s} \in SUBSET Socket
    OBVIOUS
  <2>4. \A q \in Room, n \in Member : disconnectedMembers'[q][n] # Absent =>
          \/ disconnectedMembers[q][n] # Absent
          \/ ~ \E t \in Socket : Holds(t, q, n)'
    BY <2>1, <2>2, <2>3, FallenIsUnheld DEF OneVoice
  <2> QED BY <2>1, <2>4, UnbindingKeepsBindings, StillOneVoice
<1>9. ASSUME Sweep
      PROVE  OneVoice'
  <2> DEFINE cut == UNION {InChannel(r) : r \in Expired}
  <2>1. cut \in SUBSET Socket
    BY SweepSets
  <2>2. CutSockets(cut)
    BY <1>9 DEF Sweep
  <2>3. ASSUME NEW q \in Room, NEW n \in Member, disconnectedMembers'[q][n] # Absent
        PROVE  <<q, n>> \in SeatsOf(cut) \/ disconnectedMembers[q][n] # Absent
    BY <1>9, <2>3 DEF Sweep, MarkDisconnected, NoEntry
  <2> HIDE DEF cut
  <2>4. /\ \A t \in Socket : socketToMember'[t] \in {socketToMember[t], NoSeat}
        /\ connected' \subseteq connected /\ \A t \in cut : t \notin connected'
    BY <2>2 DEF CutSockets
  <2>5. \A q \in Room, n \in Member : disconnectedMembers'[q][n] # Absent =>
          \/ disconnectedMembers[q][n] # Absent
          \/ ~ \E t \in Socket : Holds(t, q, n)'
    BY <2>1, <2>3, <2>4, FallenIsUnheld DEF OneVoice
  <2> QED BY <2>4, <2>5, UnbindingKeepsBindings, StillOneVoice
<1>10. ASSUME Tick
       PROVE  OneVoice'
  <2>1. \A q \in Room, n \in Member : disconnectedMembers'[q][n] # Absent =>
          disconnectedMembers[q][n] # Absent
    BY <1>0, <1>10 DEF Tick, OlderEntries, Older, TypeOK
  <2> QED BY <1>10, <1>a, <2>1 DEF Tick, socketVars
<1>11. ASSUME UNCHANGED vars
       PROVE  OneVoice'
  BY <1>11, <1>a DEF vars, timerVars, socketVars
<1> QED BY <1>1, <1>2, <1>3, <1>4, <1>5, <1>6, <1>7, <1>8, <1>9, <1>10, <1>11, <1>12
        DEF Next, Handler

LEMMA OneVoiceAlways == Spec => [](~Overlap => OneVoice)
<1>1. Init => (~Overlap => OneVoice)
  <2> SUFFICES ASSUME Init PROVE OneVoice
    OBVIOUS
  <2>1. \A r \in Room, m \in Member : NoSeat # <<r, m>>
    BY SortAssumption
  <2> QED BY <2>1
          DEF Init, OneVoice, OneSocketPerSeat, GraceOnlyWhileAway, NoEntry, Absent
<1> QED BY <1>1, LifecycleSafe, NextKeepsOneVoice, PTL DEF Spec

\* If clients do not overlap their sockets, the grace period never runs for a
\* member that has a live socket, so the sweep never evicts one that came back.
THEOREM GraceMeansGone == Spec => [](~Overlap => GraceOnlyWhileAway)
<1>1. (~Overlap => OneVoice) => (~Overlap => GraceOnlyWhileAway)
  BY DEF OneVoice
<1> QED BY <1>1, OneVoiceAlways, PTL

\* A held seat is in neither set the sweep removes.
LEMMA HeldSeatsRemain ==
  ASSUME LifecycleInv, GraceOnlyWhileAway,
         NEW q \in Room, NEW n \in members[q], NEW s \in Socket, Holds(s, q, n)
  PROVE  n \in Remaining(q)
<1>1. n \in Member /\ pendingMembers[q][n] = Absent /\ disconnectedMembers[q][n] = Absent
  BY DEF LifecycleInv, TypeOK, TimersMatchSeats, GraceOnlyWhileAway, Holds
<1> QED BY <1>1, BoundAssumption DEF Remaining, NeverCame, NotBack, Overdue, Absent

LEMMA SweepSparesReconnected ==
  ASSUME LifecycleInv, GraceOnlyWhileAway
  PROVE  [SparesReconnected]_vars
<1> SUFFICES ASSUME Sweep, NEW r \in rooms', NEW m \in Member,
                    m \in members[r] \ members'[r],
                    NEW s \in Socket, Holds(s, r, m)
             PROVE  FALSE
  BY DEF SparesReconnected
<1>1. r \in Room /\ members'[r] = Remaining(r)
  BY DEF Sweep, LifecycleInv, TypeOK
<1> QED BY <1>1, HeldSeatsRemain

\* If clients do not overlap their sockets, the sweep takes no seat from a
\* member that has come back.
THEOREM ReconnectedStays ==
  ASSUME ~Overlap
  PROVE  Spec => ReconnectedIsNeverEvicted
<1>1. LifecycleInv /\ (~Overlap => OneVoice) /\ [Next]_vars => [SparesReconnected]_vars
  BY SweepSparesReconnected DEF OneVoice
<1> QED BY <1>1, LifecycleSafe, OneVoiceAlways, PTL DEF Spec, ReconnectedIsNeverEvicted

(***************************************************************************)
(* No silent listener                                                      *)
(***************************************************************************)

\* A handler that unseats one member leaves every remaining listener its seat.
LEMMA UnseatsKeepsListeners ==
  ASSUME LifecycleInv, NoSilentListener,
         NEW r \in rooms, NEW m \in members[r],
         NEW cut \in SUBSET Socket, NEW fallen, Unseats(r, m, cut, fallen)
  PROVE  NoSilentListener'
<1> SUFFICES ASSUME NEW q \in Room, NEW t \in connected', q \in channel'[t]
             PROVE  \E n \in members'[q] : Holds(t, q, n)'
  BY DEF NoSilentListener, InChannel
<1>1. t \in connected /\ t \notin cut /\ t \in Socket /\ q \in channel[t]
  BY DEF Unseats, LifecycleInv, TypeOK
<1>2. PICK n \in members[q] : socketToMember[t] = <<q, n>>
  BY <1>1 DEF NoSilentListener, InChannel, Holds
<1>3. <<q, n>> # <<r, m>>
  BY <1>1, <1>2 DEF Unseats
<1>4. Holds(t, q, n)'
  BY <1>1, <1>2, <1>3 DEF Unseats, Holds
<1>5. members' = [members EXCEPT ![r] = members[r] \ {m}]
  BY DEF Unseats, RemoveMember
<1>6. n \in members'[q]
  BY <1>3, <1>5 DEF LifecycleInv, TypeOK
<1> QED BY <1>4, <1>6

LEMMA SweepKeepsListeners ==
  ASSUME LifecycleInv, GraceOnlyWhileAway, NoSilentListener, Sweep
  PROVE  NoSilentListener'
<1> DEFINE cut == UNION {InChannel(r) : r \in Expired}
<1>1. /\ rooms' = rooms \ (Emptied \cup Expired)
      /\ members' = [r \in Room |-> IF r \in rooms' THEN Remaining(r) ELSE {}]
      /\ CutSockets(cut)
  BY DEF Sweep
<1> SUFFICES ASSUME NEW q \in Room, NEW t \in connected', q \in channel'[t]
             PROVE  \E n \in members'[q] : Holds(t, q, n)'
  BY DEF NoSilentListener, InChannel
<1>2. t \in connected /\ t \notin cut /\ t \in Socket /\ q \in channel[t]
      /\ socketToMember'[t] = socketToMember[t]
  BY <1>1 DEF CutSockets, LifecycleInv, TypeOK
<1>3. PICK n \in members[q] : Holds(t, q, n)
  BY <1>2 DEF NoSilentListener, InChannel
<1>4. n \in Remaining(q)
  BY <1>2, <1>3, HeldSeatsRemain
<1>5. q \in rooms /\ q \notin Emptied /\ q \notin Expired
  BY <1>2, <1>3, <1>4 DEF Emptied, InChannel, LifecycleInv, SeatsAreLive
<1>6. n \in members'[q]
  BY <1>1, <1>4, <1>5
<1>7. Holds(t, q, n)'
  BY <1>2, <1>3 DEF Holds
<1> QED BY <1>6, <1>7

LEMMA NextKeepsListeners ==
  /\ LifecycleInv
  /\ ~Overlap => OneVoice
  /\ ~Overlap /\ ~Roaming => NoSilentListener
  /\ [Next]_vars
  => (~Overlap /\ ~Roaming => NoSilentListener)'
<1> SUFFICES ASSUME LifecycleInv, ~Roaming, OneVoice, NoSilentListener, [Next]_vars
             PROVE  NoSilentListener'
  OBVIOUS
<1>0. TypeOK
  BY DEF LifecycleInv
<1>a. ASSUME UNCHANGED socketVars, \A q \in Room : members[q] \subseteq members'[q]
      PROVE  NoSilentListener'
  BY <1>a DEF NoSilentListener, InChannel, Holds, socketVars
<1>1. ASSUME NEW r \in Room, NEW m \in Member, CreateRoom(r, m)
      PROVE  NoSilentListener'
  <2>1. /\ UNCHANGED socketVars
        /\ members' = [members EXCEPT ![r] = {m}]
        /\ \A s \in Socket : r \notin channel[s]
    BY <1>1 DEF CreateRoom, UnusedRoom
  <2> QED BY <1>0, <2>1 DEF NoSilentListener, InChannel, Holds, socketVars, TypeOK
<1>2. ASSUME NEW r \in Room, NEW m \in Member, JoinRoom(r, m)
      PROVE  NoSilentListener'
  BY <1>0, <1>2, <1>a DEF JoinRoom, TypeOK
<1>3. ASSUME NEW r \in Room, NEW m \in Member, AddBots(r, m)
      PROVE  NoSilentListener'
  <2>1. \E new : members' = [members EXCEPT ![r] = @ \cup new]
    BY <1>3 DEF AddBots
  <2>2. UNCHANGED socketVars
    BY <1>3 DEF AddBots
  <2> QED BY <1>0, <1>a, <2>1, <2>2 DEF TypeOK
<1>4. ASSUME NEW s \in Socket, Connect(s)
      PROVE  NoSilentListener'
  BY <1>4 DEF Connect, NoSilentListener, InChannel, Holds, roomVars,
              LifecycleInv, BindingsAreLive
<1>11. ASSUME NEW m \in Member, RecycleId(m)
       PROVE  NoSilentListener'
  BY <1>11, <1>a DEF RecycleId, roomVars, socketVars
<1>5. ASSUME NEW s \in Socket, NEW r \in Room, NEW m \in Member, JoinSocket(s, r, m)
      PROVE  NoSilentListener'
  <2>1. /\ channel' = [channel EXCEPT ![s] = @ \cup {r}]
        /\ socketToMember' = [socketToMember EXCEPT ![s] = <<r, m>>]
        /\ socketToMember[s] \in {NoSeat, <<r, m>>}
        /\ members' = members /\ connected' = connected
        /\ s \in connected /\ m \in members[r]
    BY <1>5 DEF JoinSocket, MayAttach
  <2>2. \A q \in Room : q \in channel[s] => q = r
    <3>1. ASSUME NEW q \in Room, q \in channel[s]
          PROVE  q = r
      <4>1. PICK n \in members[q] : socketToMember[s] = <<q, n>>
        BY <2>1, <3>1 DEF NoSilentListener, InChannel, Holds
      <4>2. <<q, n>> # NoSeat
        BY <1>0, SortAssumption DEF TypeOK
      <4> QED BY <2>1, <4>1, <4>2
    <3> QED BY <3>1
  <2> SUFFICES ASSUME NEW q \in Room, NEW t \in connected, q \in channel'[t]
               PROVE  \E n \in members[q] : Holds(t, q, n)'
    BY <2>1 DEF NoSilentListener, InChannel
  <2>3. CASE t = s
    BY <1>0, <2>1, <2>2, <2>3 DEF TypeOK, Holds
  <2>4. CASE t # s
    BY <1>0, <2>1, <2>4 DEF TypeOK, Holds, NoSilentListener, InChannel
  <2> QED BY <2>3, <2>4
<1>6. ASSUME NEW s \in Socket, NEW r \in Room, NEW m \in Member, LeaveRoom(s, r, m)
      PROVE  NoSilentListener'
  BY <1>6, LeaveUnseats, UnseatsKeepsListeners
<1>7. ASSUME NEW r \in Room, NEW m \in Member, NEW target \in Member,
             KickMember(r, m, target)
      PROVE  NoSilentListener'
  BY <1>7, KickUnseats, UnseatsKeepsListeners
<1>8. ASSUME NEW s \in Socket, Disconnect(s)
      PROVE  NoSilentListener'
  BY <1>0, <1>8 DEF Disconnect, CutSockets, NoSilentListener, InChannel, Holds,
                    roomVars, TypeOK
<1>9. ASSUME Sweep
      PROVE  NoSilentListener'
  BY <1>9, SweepKeepsListeners DEF OneVoice
<1>10. ASSUME Tick \/ UNCHANGED vars
       PROVE  NoSilentListener'
  BY <1>10, <1>a DEF Tick, vars, roomVars, socketVars
<1> QED BY <1>1, <1>2, <1>3, <1>4, <1>5, <1>6, <1>7, <1>8, <1>9, <1>10, <1>11
        DEF Next, Handler

\* If clients neither overlap their sockets nor take them from seat to seat,
\* every socket that hears a room speaks for one of its members.
THEOREM ListenersAreSeated ==
  Spec => [](~Overlap /\ ~Roaming => NoSilentListener)
<1>1. Init => (~Overlap /\ ~Roaming => NoSilentListener)
  BY DEF Init, NoSilentListener, InChannel
<1> QED BY <1>1, LifecycleSafe, OneVoiceAlways, NextKeepsListeners, PTL DEF Spec
=============================================================================
