--------------------------- MODULE PresenceProofs ---------------------------
(***************************************************************************)
(* Theorems about Presence, for every set of sockets and players, whatever *)
(* friends lists the clients send, and every value of the invite limits.   *)
(***************************************************************************)
EXTENDS Presence, TLAPS

LEMMA InitPresence == Init => PresenceInv
BY PresenceAssumption
   DEF Init, PresenceInv, TypeOK, OneToOne, PersonalChannel, NoGhostFriend,
       NoMissedFriend, Ordered, isOnline, Absent, Pair

\* An id is online exactly when a socket holds it.
LEMMA OnlineIsHeld ==
  ASSUME PresenceInv, NEW p \in Puuid
  PROVE  /\ isOnline(p) => connections[p] \in Socket /\ socketToPuuid[connections[p]] = p
         /\ \A s \in Socket : socketToPuuid[s] = p => isOnline(p) /\ s = connections[p]
BY PresenceAssumption DEF PresenceInv, TypeOK, OneToOne, isOnline

\* What is emitted to an id is heard by the socket that holds it.
LEMMA HeardByHolder ==
  ASSUME PresenceInv, NEW p \in Puuid, NEW t \in Socket
  PROVE  t \in Listening(p) <=> socketToPuuid[t] = p
<1>1. t \in Listening(p) => socketToPuuid[t] = p
  BY DEF PresenceInv, PersonalChannel, Listening
<1>2. socketToPuuid[t] = p => t \in connected /\ userChannel[t] = {p}
  BY PresenceAssumption DEF PresenceInv, PersonalChannel, OneToOne
<1> QED BY <1>1, <1>2 DEF Listening

LEMMA IdentifyInv ==
  ASSUME PresenceInv, NEW s \in Socket, NEW p \in Puuid, NEW friends \in FriendList,
         Identify(s, p, friends)
  PROVE  PresenceInv'
<1> DEFINE online == OnlineFriends(s, p, friends)
           told   == {t \in Socket : \E q \in online \ {p} : t \in Listening(q)}
           left   == {p} \cup Released(s, p)
<1>1. /\ s \in connected /\ connected' = connected
      /\ connections[p] \in {NoSocket, s}
      /\ connections' = [q \in Puuid |->
           IF q = p THEN s ELSE IF q \in Released(s, p) THEN NoSocket ELSE connections[q]]
      /\ socketToPuuid' = [socketToPuuid EXCEPT ![s] = p]
      /\ friendsMap' = [q \in Puuid |->
           IF q = p THEN friends ELSE IF q \in Released(s, p) THEN {} ELSE friendsMap[q]]
      /\ userChannel' = [userChannel EXCEPT ![s] = (@ \ Released(s, p)) \cup {p}]
      /\ seenOnline' = [t \in Socket |->
           IF t = s THEN online
           ELSE IF t \in told THEN seenOnline[t] \cup {p} ELSE seenOnline[t]]
      /\ unannounced' = (unannounced \cup Released(s, p)) \ {p}
      /\ lastList' = [lastList EXCEPT ![p] = friends]
      /\ earlier' = [q \in Puuid |->
           IF q = p THEN {o \in Puuid : isOnline(o)} \ left
           ELSE IF q \in Released(s, p) THEN {} ELSE earlier[q] \ left]
      /\ UNCHANGED inviteVars
  BY DEF Identify
<1>2. /\ Released(s, p) \subseteq Puuid
      /\ \A q \in Puuid : q \in Released(s, p) <=> socketToPuuid[s] = q /\ q # p
      /\ \A q \in Puuid : q \in left <=> q = p \/ q \in Released(s, p)
  BY PresenceAssumption DEF Released, PresenceInv, TypeOK
<1>3. /\ online \subseteq friends
      /\ friends \subseteq Puuid
      /\ \A q \in friends :
           q \in online <=> (q = p \/ isOnline(q)) /\ q \notin Released(s, p)
  BY ListAssumption DEF OnlineFriends
<1>4. \A t \in Socket : t \in told <=> \E q \in online : q # p /\ socketToPuuid[t] = q
  BY <1>3, HeardByHolder
<1> HIDE DEF online, told, left
<1>5. TypeOK'
  BY <1>1, <1>2, <1>3 DEF PresenceInv, TypeOK, inviteVars
<1>6. \A q \in Puuid : isOnline(q)' <=> q = p \/ (q \notin Released(s, p) /\ isOnline(q))
  BY <1>1, PresenceAssumption DEF isOnline
<1>7. \A t \in Socket : t # s => socketToPuuid[t] # p
  BY <1>1, PresenceAssumption DEF PresenceInv, OneToOne
<1>8. OneToOne'
  <2> SUFFICES ASSUME NEW t \in Socket, NEW q \in Puuid
               PROVE  /\ connections'[q] = t <=> socketToPuuid'[t] = q
                      /\ socketToPuuid'[t] = q => t \in connected'
    BY DEF OneToOne
  <2>1. /\ connections[q] = t <=> socketToPuuid[t] = q
        /\ connections[q] = s <=> socketToPuuid[s] = q
    BY DEF PresenceInv, OneToOne
  <2>2. socketToPuuid[t] = q => t \in connected
    BY DEF PresenceInv, OneToOne
  <2>3. socketToPuuid'[t] = IF t = s THEN p ELSE socketToPuuid[t]
    BY <1>1 DEF PresenceInv, TypeOK
  <2>4. CASE q = p
    BY <1>1, <1>7, <2>2, <2>3, <2>4
  <2>5. CASE q # p
    BY <1>1, <1>2, <2>1, <2>2, <2>3, <2>5, PresenceAssumption
  <2> QED BY <2>4, <2>5
<1>9. PersonalChannel'
  <2> SUFFICES ASSUME NEW t \in Socket
               PROVE  userChannel'[t] = {socketToPuuid'[t]} \ {NoPuuid}
    BY DEF PersonalChannel
  <2>1. userChannel[t] = {socketToPuuid[t]} \ {NoPuuid}
    BY DEF PresenceInv, PersonalChannel
  <2>2. CASE t = s
    BY <1>1, <2>1, <2>2, PresenceAssumption DEF Released, PresenceInv, TypeOK
  <2>3. CASE t # s
    BY <1>1, <2>1, <2>3 DEF PresenceInv, TypeOK
  <2> QED BY <2>2, <2>3
<1>10. \A q \in Puuid : friendsMap'[q] = IF isOnline(q)' THEN lastList'[q] ELSE {}
  <2> SUFFICES ASSUME NEW q \in Puuid
               PROVE  friendsMap'[q] = IF isOnline(q)' THEN lastList'[q] ELSE {}
    OBVIOUS
  <2>1. friendsMap[q] = IF isOnline(q) THEN lastList[q] ELSE {}
    BY DEF PresenceInv
  <2>2. lastList'[q] = IF q = p THEN friends ELSE lastList[q]
    BY <1>1 DEF PresenceInv, TypeOK
  <2> QED BY <1>1, <1>6, <2>1, <2>2
<1>11. \A t \in Socket : seenOnline'[t] # {} => socketToPuuid'[t] # NoPuuid
  <2> SUFFICES ASSUME NEW t \in Socket, seenOnline'[t] # {}
               PROVE  socketToPuuid'[t] # NoPuuid
    OBVIOUS
  <2>1. CASE t = s
    BY <1>1, <2>1, PresenceAssumption DEF PresenceInv, TypeOK
  <2>2. CASE t # s /\ t \in told
    BY <1>1, <1>3, <1>4, <2>2, PresenceAssumption DEF PresenceInv, TypeOK
  <2>3. CASE t # s /\ t \notin told
    BY <1>1, <2>3 DEF PresenceInv, TypeOK
  <2> QED BY <2>1, <2>2, <2>3
<1>12. NoGhostFriend'
  <2> SUFFICES ASSUME NEW t \in Socket, NEW q \in seenOnline'[t]
               PROVE  isOnline(q)' \/ q \in unannounced' \/ socketToPuuid'[t] \notin lastList'[q]
    BY DEF NoGhostFriend
  <2>0. q \in Puuid
    BY <1>5 DEF TypeOK
  <2>1. CASE q = p
    BY <1>6, <2>0, <2>1
  <2>2. CASE q # p /\ t = s
    BY <1>1, <1>3, <1>6, <2>0, <2>2
  <2>3. CASE q # p /\ t # s
    <3>1. q \in seenOnline[t]
      BY <1>1, <2>3
    <3>2. isOnline(q) \/ q \in unannounced \/ socketToPuuid[t] \notin lastList[q]
      BY <3>1 DEF PresenceInv, NoGhostFriend
    <3>3. socketToPuuid'[t] = socketToPuuid[t] /\ lastList'[q] = lastList[q]
      BY <1>1, <2>0, <2>3 DEF PresenceInv, TypeOK
    <3> QED BY <1>1, <1>6, <2>0, <2>3, <3>2, <3>3
  <2> QED BY <2>1, <2>2, <2>3
<1>13. NoMissedFriend'
  <2> SUFFICES ASSUME NEW u \in Socket, NEW t \in Socket, NEW o \in Puuid, NEW q \in Puuid,
                      socketToPuuid'[u] = o, socketToPuuid'[t] = q,
                      q \in earlier'[o], q \in friendsMap'[o]
               PROVE  q \in seenOnline'[u] /\ o \in seenOnline'[t]
    BY DEF NoMissedFriend
  <2>1. /\ socketToPuuid'[u] = IF u = s THEN p ELSE socketToPuuid[u]
        /\ socketToPuuid'[t] = IF t = s THEN p ELSE socketToPuuid[t]
    BY <1>1 DEF PresenceInv, TypeOK
  <2>2. CASE o = p
    <3>1. q # p /\ q \notin Released(s, p) /\ isOnline(q) /\ q \in friends
      BY <1>1, <1>2, <2>2
    <3>2. u = s /\ t # s /\ socketToPuuid[t] = q
      BY <1>7, <2>1, <2>2, <3>1
    <3>3. q \in online
      BY <1>3, <3>1
    <3> QED BY <1>1, <1>4, <2>2, <3>1, <3>2, <3>3
  <2>3. CASE o # p
    <3>1. q \in earlier[o] /\ q # p /\ o \notin Released(s, p)
      BY <1>1, <1>2, <2>3
    <3>2. q \in friendsMap[o] /\ u # s /\ t # s
      BY <1>1, <2>1, <2>3, <3>1
    <3>3. q \in seenOnline[u] /\ o \in seenOnline[t]
      BY <2>1, <3>1, <3>2 DEF PresenceInv, NoMissedFriend
    <3> QED BY <1>1, <3>2, <3>3
  <2> QED BY <2>2, <2>3
<1>14. Ordered'
  <2> SUFFICES ASSUME NEW o \in Puuid, NEW q \in Puuid,
                      isOnline(o)', isOnline(q)', o # q
               PROVE  q \in earlier'[o] <=> o \notin earlier'[q]
    BY DEF Ordered
  <2>1. CASE o = p
    BY <1>1, <1>2, <1>6, <2>1
  <2>2. CASE q = p
    BY <1>1, <1>2, <1>6, <2>2
  <2>3. CASE o # p /\ q # p
    BY <1>1, <1>2, <1>6, <2>3 DEF PresenceInv, Ordered
  <2> QED BY <2>1, <2>2, <2>3
<1> QED BY <1>5, <1>8, <1>9, <1>10, <1>11, <1>12, <1>13, <1>14 DEF PresenceInv

LEMMA DisconnectInv ==
  ASSUME PresenceInv, NEW s \in Socket, Disconnect(s)
  PROVE  PresenceInv'
<1> DEFINE gone == {socketToPuuid[s]} \ {NoPuuid}
<1>1. /\ s \in connected /\ connected' = connected \ {s}
      /\ userChannel' = [userChannel EXCEPT ![s] = {}]
      /\ socketToPuuid' = [socketToPuuid EXCEPT ![s] = NoPuuid]
      /\ connections' = [q \in Puuid |-> IF q \in gone THEN NoSocket ELSE connections[q]]
      /\ friendsMap' = [q \in Puuid |-> IF q \in gone THEN {} ELSE friendsMap[q]]
      /\ seenOnline' = [t \in Socket |->
           IF t = s THEN {} ELSE seenOnline[t] \ {q \in gone : t \in Told(q)}]
      /\ earlier' = [q \in Puuid |-> IF q \in gone THEN {} ELSE earlier[q] \ gone]
      /\ unannounced' = unannounced /\ lastList' = lastList /\ UNCHANGED inviteVars
  BY DEF Disconnect
<1>2. \A q \in Puuid : q \in gone <=> socketToPuuid[s] = q
  BY PresenceAssumption DEF PresenceInv, TypeOK
<1>3. TypeOK'
  BY <1>1 DEF PresenceInv, TypeOK, inviteVars
<1> HIDE DEF gone
<1>4. \A q \in Puuid : isOnline(q)' <=> q \notin gone /\ isOnline(q)
  BY <1>1, PresenceAssumption DEF isOnline
<1>5. OneToOne'
  <2> SUFFICES ASSUME NEW t \in Socket, NEW q \in Puuid
               PROVE  /\ connections'[q] = t <=> socketToPuuid'[t] = q
                      /\ socketToPuuid'[t] = q => t \in connected'
    BY DEF OneToOne
  <2>1. /\ connections[q] = t <=> socketToPuuid[t] = q
        /\ connections[q] = s <=> socketToPuuid[s] = q
        /\ socketToPuuid[t] = q => t \in connected
    BY DEF PresenceInv, OneToOne
  <2>2. socketToPuuid'[t] = IF t = s THEN NoPuuid ELSE socketToPuuid[t]
    BY <1>1 DEF PresenceInv, TypeOK
  <2> QED BY <1>1, <1>2, <2>1, <2>2, PresenceAssumption
<1>6. PersonalChannel'
  BY <1>1 DEF PresenceInv, PersonalChannel, TypeOK
<1>7. \A q \in Puuid : friendsMap'[q] = IF isOnline(q)' THEN lastList'[q] ELSE {}
  BY <1>1, <1>4 DEF PresenceInv
<1>8. \A t \in Socket : socketToPuuid'[t] = IF t = s THEN NoPuuid ELSE socketToPuuid[t]
  BY <1>1 DEF PresenceInv, TypeOK
<1>9. \A t \in Socket : seenOnline'[t] # {} => socketToPuuid'[t] # NoPuuid
  BY <1>1, <1>8 DEF PresenceInv
<1>10. NoGhostFriend'
  <2> SUFFICES ASSUME NEW t \in Socket, NEW q \in seenOnline'[t],
                      socketToPuuid'[t] \in lastList[q]
               PROVE  isOnline(q)' \/ q \in unannounced
    BY <1>1 DEF NoGhostFriend
  <2>1. t # s /\ q \in seenOnline[t] /\ q \in Puuid /\ ~ (q \in gone /\ t \in Told(q))
    BY <1>1, <1>3 DEF TypeOK
  <2>2. socketToPuuid[t] \in lastList[q]
    BY <1>8, <2>1
  <2>3. isOnline(q) \/ q \in unannounced
    BY <2>1, <2>2 DEF PresenceInv, NoGhostFriend
  <2>4. ASSUME q \in gone, isOnline(q)
        PROVE  t \in Told(q)
    <3> DEFINE o == socketToPuuid[t]
    <3>1. o \in Puuid
      BY <2>1 DEF PresenceInv, TypeOK
    <3>2. isOnline(o) /\ t \in Listening(o)
      BY <3>1, OnlineIsHeld, HeardByHolder
    <3>3. o \in friendsMap[q]
      BY <2>1, <2>2, <2>4 DEF PresenceInv
    <3> QED BY <3>2, <3>3 DEF Told
  <2> QED BY <1>4, <2>1, <2>3, <2>4
<1>11. NoMissedFriend'
  <2> SUFFICES ASSUME NEW u \in Socket, NEW t \in Socket, NEW o \in Puuid, NEW q \in Puuid,
                      socketToPuuid'[u] = o, socketToPuuid'[t] = q,
                      q \in earlier'[o], q \in friendsMap'[o]
               PROVE  q \in seenOnline'[u] /\ o \in seenOnline'[t]
    BY DEF NoMissedFriend
  <2>1. u # s /\ socketToPuuid[u] = o /\ t # s /\ socketToPuuid[t] = q
    BY <1>8, PresenceAssumption
  <2>2. o \notin gone /\ q \notin gone
    BY <1>2, <2>1, OnlineIsHeld
  <2>3. q \in earlier[o] /\ q \in friendsMap[o]
    BY <1>1, <2>2
  <2>4. q \in seenOnline[u] /\ o \in seenOnline[t]
    BY <2>1, <2>3 DEF PresenceInv, NoMissedFriend
  <2> QED BY <1>1, <2>1, <2>2, <2>4
<1>12. Ordered'
  BY <1>1, <1>4 DEF PresenceInv, Ordered
<1> QED BY <1>3, <1>5, <1>6, <1>7, <1>9, <1>10, <1>11, <1>12 DEF PresenceInv

LEMMA NextPresence == PresenceInv /\ [Next]_vars => PresenceInv'
<1> SUFFICES ASSUME PresenceInv, [Next]_vars PROVE PresenceInv'
  OBVIOUS
<1>a. ASSUME UNCHANGED <<presenceVars, viewVars>>, connected \subseteq connected', TypeOK'
      PROVE  PresenceInv'
  BY <1>a DEF PresenceInv, presenceVars, viewVars, OneToOne, PersonalChannel,
              NoGhostFriend, NoMissedFriend, Ordered, isOnline
<1>1. ASSUME NEW s \in Socket, Connect(s)
      PROVE  PresenceInv'
  BY <1>1, <1>a DEF Connect, PresenceInv, TypeOK, presenceVars, viewVars, inviteVars
<1>2. ASSUME NEW s \in Socket, NEW q \in Puuid, SendInvite(s, q)
      PROVE  PresenceInv'
  <2>1. /\ UNCHANGED <<connected, presenceVars, viewVars, sinceCleanup>>
        /\ inviteAge' = [inviteAge EXCEPT ![<<socketToPuuid[s], q>>] = 0]
        /\ sinceInvite' = [sinceInvite EXCEPT ![<<socketToPuuid[s], q>>] = 0]
    BY <1>2 DEF SendInvite
  <2>2. inviteAge' \in [Pair -> Nat \cup {Absent}]
    BY <2>1 DEF PresenceInv, TypeOK
  <2>3. sinceInvite' \in [Pair -> 0..InviteLimit]
    <3>1. 0 \in 0..InviteLimit
      BY PresenceAssumption
    <3>2. sinceInvite \in [Pair -> 0..InviteLimit]
      BY DEF PresenceInv, TypeOK
    <3> QED BY <2>1, <3>1, <3>2
  <2> QED BY <1>a, <2>1, <2>2, <2>3 DEF PresenceInv, TypeOK, presenceVars, viewVars
<1>3. ASSUME Tick
      PROVE  PresenceInv'
  <2>1. inviteAge' \in [Pair -> Nat \cup {Absent}]
    BY <1>3 DEF Tick, PresenceInv, TypeOK, Absent
  <2>2. sinceInvite' \in [Pair -> 0..InviteLimit] /\ sinceCleanup' \in 0..InviteCleanup
    BY <1>3, PresenceAssumption DEF Tick, PresenceInv, TypeOK
  <2> QED BY <1>3, <1>a, <2>1, <2>2
          DEF Tick, PresenceInv, TypeOK, presenceVars, viewVars
<1>4. ASSUME CleanInvites
      PROVE  PresenceInv'
  <2>1. inviteAge' \in [Pair -> Nat \cup {Absent}]
    BY <1>4 DEF CleanInvites, PresenceInv, TypeOK
  <2> QED BY <1>4, <1>a, <2>1, PresenceAssumption
          DEF CleanInvites, PresenceInv, TypeOK, presenceVars, viewVars
<1>5. CASE UNCHANGED vars
  BY <1>5, <1>a DEF vars, PresenceInv, TypeOK, presenceVars, viewVars, inviteVars
<1> QED BY <1>1, <1>2, <1>3, <1>4, <1>5, IdentifyInv, DisconnectInv DEF Next

LEMMA PresenceSafe == Spec => []PresenceInv
BY InitPresence, NextPresence, PTL DEF Spec

\* The Maps connections and socketToPuuid are inverse to one another and name
\* connected sockets only.
THEOREM PresenceIsOneToOne == Spec => []OneToOne
<1>1. PresenceInv => OneToOne
  BY DEF PresenceInv
<1> QED BY <1>1, PresenceSafe, PTL

\* A socket hears what is sent to the id it holds now, and nothing else.
THEOREM ChannelsArePersonal == Spec => []PersonalChannel
<1>1. PresenceInv => PersonalChannel
  BY DEF PresenceInv
<1> QED BY <1>1, PresenceSafe, PTL

\* Presence: every variable keeps its type through identifications, invites
\* and the cleanup timer.
THEOREM PresenceTypes == Spec => []TypeOK
<1>1. PresenceInv => TypeOK
  BY DEF PresenceInv
<1> QED BY <1>1, PresenceSafe, PTL

\* Whatever lists the clients send and resend, a client shows no id as online
\* that is offline, but for an id given up by identifying again and for one whose
\* last list did not name the client's own id.
THEOREM NoFriendIsAGhost == Spec => []NoGhostFriend
<1>1. PresenceInv => NoGhostFriend
  BY DEF PresenceInv
<1> QED BY <1>1, PresenceSafe, PTL

\* Of two ids online of which the later one named the other, both clients show
\* the other, whatever the list of the earlier one said.
THEOREM NoFriendIsMissed == Spec => []NoMissedFriend
<1>1. PresenceInv => NoMissedFriend
  BY DEF PresenceInv
<1> QED BY <1>1, PresenceSafe, PTL

(***************************************************************************)
(* Invites                                                                 *)
(***************************************************************************)

\* inviteRateLimits tells the age of every invite the limit still applies to, and an
\* entry past the limit belongs to no such invite.
Paced ==
  \A pq \in Pair :
    \/ sinceInvite[pq] < InviteLimit /\ inviteAge[pq] = sinceInvite[pq]
    \/ sinceInvite[pq] = InviteLimit /\ inviteAge[pq] \notin 0..(InviteLimit - 1)

LEMMA NextPaced == TypeOK /\ Paced /\ [Next]_vars => Paced'
<1> SUFFICES ASSUME TypeOK, Paced, [Next]_vars, NEW pq \in Pair
             PROVE  (\/ sinceInvite[pq] < InviteLimit /\ inviteAge[pq] = sinceInvite[pq]
                     \/ /\ sinceInvite[pq] = InviteLimit
                        /\ inviteAge[pq] \notin 0..(InviteLimit - 1))'
  BY DEF Paced
<1>1. /\ sinceInvite[pq] \in 0..InviteLimit /\ inviteAge[pq] \in Nat \cup {Absent}
      /\ \/ sinceInvite[pq] < InviteLimit /\ inviteAge[pq] = sinceInvite[pq]
         \/ sinceInvite[pq] = InviteLimit /\ inviteAge[pq] \notin 0..(InviteLimit - 1)
  BY DEF TypeOK, Paced
<1>2. InviteLimit \in Nat \ {0} /\ InviteCleanup \in Nat /\ InviteLimit <= InviteCleanup
  BY PresenceAssumption
<1>3. ASSUME UNCHANGED <<inviteAge, sinceInvite>>
      PROVE  /\ inviteAge'[pq] = inviteAge[pq] /\ sinceInvite'[pq] = sinceInvite[pq]
  BY <1>3
<1>4. ASSUME NEW s \in Socket, NEW q \in Puuid, SendInvite(s, q)
      PROVE  \/ inviteAge'[pq] = inviteAge[pq] /\ sinceInvite'[pq] = sinceInvite[pq]
             \/ inviteAge'[pq] = 0 /\ sinceInvite'[pq] = 0
  BY <1>4 DEF SendInvite, TypeOK
<1>5. ASSUME Tick
      PROVE  /\ inviteAge'[pq] = IF inviteAge[pq] = Absent THEN Absent ELSE inviteAge[pq] + 1
             /\ sinceInvite'[pq] =
                  IF sinceInvite[pq] < InviteLimit THEN sinceInvite[pq] + 1 ELSE InviteLimit
  BY <1>5 DEF Tick
<1>6. ASSUME CleanInvites
      PROVE  /\ inviteAge'[pq] =
                  IF inviteAge[pq] > InviteCleanup THEN Absent ELSE inviteAge[pq]
             /\ sinceInvite'[pq] = sinceInvite[pq]
  BY <1>6 DEF CleanInvites
<1>7. \/ UNCHANGED <<inviteAge, sinceInvite>>
      \/ \E s \in Socket, q \in Puuid : SendInvite(s, q)
      \/ Tick \/ CleanInvites
  BY DEF Next, Connect, Disconnect, Identify, vars, inviteVars
<1>8. CASE UNCHANGED <<inviteAge, sinceInvite>>
  BY <1>1, <1>3, <1>8
<1>9. CASE \E s \in Socket, q \in Puuid : SendInvite(s, q)
  BY <1>1, <1>2, <1>4, <1>9
<1>10. CASE Tick
  BY <1>1, <1>2, <1>5, <1>10 DEF Absent
<1>11. CASE CleanInvites
  BY <1>1, <1>2, <1>6, <1>11 DEF Absent
<1> QED BY <1>7, <1>8, <1>9, <1>10, <1>11

\* The same pair is invited again only when its last invite is as old as the
\* limit: the cleanup of inviteRateLimits never forgets an invite too early, and
\* neither a reconnection nor a new list starts the limit afresh.
THEOREM InvitePacing == Spec => InvitesArePaced
<1>1. Init => Paced
  BY PresenceAssumption DEF Init, Paced, Absent
<1>2. ASSUME TypeOK, Paced, NEW s \in Socket, NEW q \in Puuid, SendInvite(s, q)
      PROVE  sinceInvite[<<socketToPuuid[s], q>>] = InviteLimit
  <2> DEFINE pq == <<socketToPuuid[s], q>>
  <2>1. pq \in Pair /\ inviteAge[pq] \notin 0..(InviteLimit - 1)
    BY <1>2 DEF SendInvite, TypeOK, Pair
  <2>2. sinceInvite[pq] \in 0..InviteLimit
    BY <1>2, <2>1 DEF TypeOK
  <2> HIDE DEF pq
  <2>3. sinceInvite[pq] < InviteLimit => inviteAge[pq] = sinceInvite[pq]
    BY <1>2, <2>1, PresenceAssumption DEF Paced
  <2> QED BY <2>1, <2>2, <2>3, PresenceAssumption DEF pq
<1>3. TypeOK /\ Paced /\ [Next]_vars =>
        [\A s \in Socket, q \in Puuid :
           SendInvite(s, q) => sinceInvite[<<socketToPuuid[s], q>>] = InviteLimit]_vars
  BY <1>2
<1>4. PresenceInv => TypeOK
  BY DEF PresenceInv
<1> QED BY <1>1, <1>3, <1>4, PresenceSafe, NextPaced, PTL DEF Spec, InvitesArePaced
=============================================================================
