------------------------------ MODULE Presence ------------------------------
(***************************************************************************)
(* Who is online under which PUUID, what friends are told about it, and    *)
(* how often one friend may invite another: PresenceManager                *)
(* (presence.service.ts) with the handlers "identify", "send-room-invite"  *)
(* and the presence half of "disconnect" of server.ts.                     *)
(*                                                                         *)
(* The handlers run to completion and emit to a channel user:<puuid> in    *)
(* order, so a friend's view is updated in the action that notifies it.    *)
(* That a client shows what it was last told is external.  Rejections      *)
(* change nothing and are not steps; the "already in room" check only      *)
(* rejects.                                                                *)
(***************************************************************************)
EXTENDS Integers

CONSTANTS
  Socket,        \* Socket.IO connections
  Puuid,         \* player ids that pass isValidPuuid
  FriendList,    \* the friends lists clients send, filtered by isValidPuuid
  InvitePair,    \* <<sender, target>>: whose invites are followed
  NoSocket,      \* an id without an entry in connections
  NoPuuid,       \* a socket without an entry in socketToPuuid
  InviteLimit,   \* INVITE_RATE_LIMIT_MS
  InviteCleanup  \* INVITE_CLEANUP_INTERVAL_MS, age limit and period

ASSUME PresenceAssumption ==
  /\ NoSocket \notin Socket /\ NoPuuid \notin Puuid
  /\ InviteLimit \in Nat \ {0} /\ InviteCleanup \in Nat /\ InviteLimit <= InviteCleanup

\* Any list may come with any identify: of the same id a longer one than last
\* time, one that names an id which does not name it, one that names the id
\* itself.
ASSUME ListAssumption == FriendList \subseteq SUBSET Puuid

VARIABLES
  connected,      \* sockets the server believes connected
  connections,    \* the Map of that name, reduced to the socket id
  socketToPuuid,  \* the Map of that name
  friendsMap,     \* the Map of that name; {} for no entry
  userChannel,    \* the channels user:<puuid> a socket has joined
  seenOnline,     \* external: the friends a socket's client shows as online
  unannounced,    \* history: ids given up by a second identify of their socket
  lastList,       \* history: the list an id sent last, kept when it leaves
  earlier,        \* history: the online ids an id found when it identified,
                  \* without those that have identified since
  inviteAge,      \* inviteRateLimits, as the age of each entry
  sinceInvite,    \* history: time since the last invite of a pair, up to the limit
  sinceCleanup    \* time since the cleanup timer last fired

presenceVars == <<connections, socketToPuuid, friendsMap, userChannel>>
viewVars     == <<seenOnline, unannounced, lastList, earlier>>
inviteVars   == <<inviteAge, sinceInvite, sinceCleanup>>
vars == <<connected, presenceVars, viewVars, inviteVars>>

Absent == -1
Pair   == Puuid \X Puuid

TypeOK ==
  /\ connected \in SUBSET Socket
  /\ connections \in [Puuid -> Socket \cup {NoSocket}]
  /\ socketToPuuid \in [Socket -> Puuid \cup {NoPuuid}]
  /\ friendsMap \in [Puuid -> SUBSET Puuid]
  /\ userChannel \in [Socket -> SUBSET Puuid]
  /\ seenOnline \in [Socket -> SUBSET Puuid]
  /\ unannounced \in SUBSET Puuid
  /\ lastList \in [Puuid -> SUBSET Puuid]
  /\ earlier \in [Puuid -> SUBSET Puuid]
  /\ inviteAge \in [Pair -> Nat \cup {Absent}]
  /\ sinceInvite \in [Pair -> 0..InviteLimit]
  /\ sinceCleanup \in 0..InviteCleanup

isOnline(p) == connections[p] # NoSocket

\* Who receives what is emitted to user:<puuid>.
Listening(p) == {s \in connected : p \in userChannel[s]}

-----------------------------------------------------------------------------
Init ==
  /\ connected = {}
  /\ connections = [p \in Puuid |-> NoSocket]
  /\ socketToPuuid = [s \in Socket |-> NoPuuid]
  /\ friendsMap = [p \in Puuid |-> {}]
  /\ userChannel = [s \in Socket |-> {}]
  /\ seenOnline = [s \in Socket |-> {}]
  /\ unannounced = {}
  /\ lastList = [p \in Puuid |-> {}]
  /\ earlier = [p \in Puuid |-> {}]
  /\ inviteAge = [pq \in Pair |-> Absent]
  /\ sinceInvite = [pq \in Pair |-> InviteLimit]
  /\ sinceCleanup = 0

Connect(s) ==
  /\ s \notin connected
  /\ connected' = connected \cup {s}
  /\ UNCHANGED <<presenceVars, viewVars, inviteVars>>

\* Mutant: a second identify overwrites the entry and leaves the old id behind.
NothingReleased(s, p) == {}

\* The id a socket gives up when it identifies as p: PresenceManager.identify
\* releases it without a word to that id's friends.
Released(s, p) == {socketToPuuid[s]} \ {NoPuuid, p}

\* Mutant: the list is read before it is stored.
OnlineOfStored(s, p, friends) ==
  {q \in friendsMap[p] : q = p \/ isOnline(q)} \ Released(s, p)

\* getOnlineFriends of the list in the payload, p itself being online by now.
OnlineFriends(s, p, friends) ==
  {q \in friends : q = p \/ isOnline(q)} \ Released(s, p)

\* "identify" under an id that no other socket holds.
Identify(s, p, friends) ==
  /\ s \in connected
  /\ connections[p] \in {NoSocket, s}
  /\ connections' = [q \in Puuid |->
       IF q = p THEN s ELSE IF q \in Released(s, p) THEN NoSocket ELSE connections[q]]
  /\ socketToPuuid' = [socketToPuuid EXCEPT ![s] = p]
  /\ friendsMap' = [q \in Puuid |->
       IF q = p THEN friends ELSE IF q \in Released(s, p) THEN {} ELSE friendsMap[q]]
  /\ userChannel' = [userChannel EXCEPT ![s] = (@ \ Released(s, p)) \cup {p}]
  /\ LET told == {t \in Socket :
                   \E q \in OnlineFriends(s, p, friends) \ {p} : t \in Listening(q)}
     IN  seenOnline' = [t \in Socket |->
           IF t = s THEN OnlineFriends(s, p, friends)
           ELSE IF t \in told THEN seenOnline[t] \cup {p} ELSE seenOnline[t]]
  /\ unannounced' = (unannounced \cup Released(s, p)) \ {p}
  /\ lastList' = [lastList EXCEPT ![p] = friends]
  /\ earlier' = [q \in Puuid |->
       IF q = p THEN {o \in Puuid : isOnline(o)} \ ({p} \cup Released(s, p))
       ELSE IF q \in Released(s, p) THEN {} ELSE earlier[q] \ ({p} \cup Released(s, p))]
  /\ UNCHANGED <<connected, inviteVars>>

\* Mutant: the entries are cleared before the friends are looked up.
ToldTooLate(p) == {}

\* Told that p is gone, while p's entries are still there.
Told(p) == UNION {Listening(q) : q \in {f \in friendsMap[p] : isOnline(f)}}

\* "disconnect": Socket.IO has already taken the socket out of its channels.
Disconnect(s) ==
  /\ s \in connected
  /\ connected' = connected \ {s}
  /\ userChannel' = [userChannel EXCEPT ![s] = {}]
  /\ socketToPuuid' = [socketToPuuid EXCEPT ![s] = NoPuuid]
  /\ LET gone == {socketToPuuid[s]} \ {NoPuuid}
     IN  /\ connections' =
              [q \in Puuid |-> IF q \in gone THEN NoSocket ELSE connections[q]]
         /\ friendsMap' = [q \in Puuid |-> IF q \in gone THEN {} ELSE friendsMap[q]]
         /\ seenOnline' = [t \in Socket |->
              IF t = s THEN {}
              ELSE seenOnline[t] \ {q \in gone : t \in Told(q)}]
         /\ earlier' = [q \in Puuid |-> IF q \in gone THEN {} ELSE earlier[q] \ gone]
  /\ UNCHANGED <<unannounced, lastList, inviteVars>>

\* Mutant: the last invite of the pair is not looked at.
SendUnlimited(s, q) ==
  /\ s \in connected /\ socketToPuuid[s] # NoPuuid
  /\ LET p == socketToPuuid[s]
     IN  /\ <<p, q>> \in InvitePair
         /\ q \in friendsMap[p]
         /\ isOnline(q)
         /\ inviteAge' = [inviteAge EXCEPT ![<<p, q>>] = 0]
         /\ sinceInvite' = [sinceInvite EXCEPT ![<<p, q>>] = 0]
  /\ UNCHANGED <<connected, presenceVars, viewVars, sinceCleanup>>

\* "send-room-invite" that gets through to the channel of q.
SendInvite(s, q) ==
  /\ s \in connected /\ socketToPuuid[s] # NoPuuid
  /\ LET p == socketToPuuid[s]
     IN  /\ <<p, q>> \in InvitePair
         /\ q \in friendsMap[p]
         /\ inviteAge[<<p, q>>] \notin 0..(InviteLimit - 1)
         /\ isOnline(q)
         /\ inviteAge' = [inviteAge EXCEPT ![<<p, q>>] = 0]
         /\ sinceInvite' = [sinceInvite EXCEPT ![<<p, q>>] = 0]
  /\ UNCHANGED <<connected, presenceVars, viewVars, sinceCleanup>>

\* Mutant: the cleanup timer may be skipped.
TickOn ==
  /\ sinceCleanup' = sinceCleanup + 1
  /\ UNCHANGED <<connected, presenceVars, viewVars, inviteAge, sinceInvite>>

Tick ==
  /\ sinceCleanup < InviteCleanup
  /\ sinceCleanup' = sinceCleanup + 1
  /\ inviteAge' = [pq \in Pair |->
       IF inviteAge[pq] = Absent THEN Absent ELSE inviteAge[pq] + 1]
  /\ sinceInvite' = [pq \in Pair |->
       IF sinceInvite[pq] < InviteLimit THEN sinceInvite[pq] + 1 ELSE InviteLimit]
  /\ UNCHANGED <<connected, presenceVars, viewVars>>

\* Mutant: the cleanup empties the Map.
ClearInvites ==
  /\ sinceCleanup = InviteCleanup
  /\ sinceCleanup' = 0
  /\ inviteAge' = [pq \in Pair |-> Absent]
  /\ UNCHANGED <<connected, presenceVars, viewVars, sinceInvite>>

\* The cleanup timer drops the entries older than its period.
CleanInvites ==
  /\ sinceCleanup = InviteCleanup
  /\ sinceCleanup' = 0
  /\ inviteAge' = [pq \in Pair |->
       IF inviteAge[pq] > InviteCleanup THEN Absent ELSE inviteAge[pq]]
  /\ UNCHANGED <<connected, presenceVars, viewVars, sinceInvite>>

Next ==
  \/ \E s \in Socket : Connect(s) \/ Disconnect(s)
  \/ \E s \in Socket, p \in Puuid, friends \in FriendList : Identify(s, p, friends)
  \/ \E s \in Socket, q \in Puuid : SendInvite(s, q)
  \/ Tick
  \/ CleanInvites

Spec == Init /\ [][Next]_vars

-----------------------------------------------------------------------------
\* The comment in identify: sockets and ids are related one to one.  A socket
\* that identified again and again left no id behind that looks online.
OneToOne ==
  \A s \in Socket, p \in Puuid :
    (connections[p] = s <=> socketToPuuid[s] = p) /\ (socketToPuuid[s] = p => s \in connected)

\* What is sent to an id reaches the socket that holds it and nobody else: a
\* socket that gave an id up no longer hears its invites.
PersonalChannel ==
  \A s \in Socket : userChannel[s] = {socketToPuuid[s]} \ {NoPuuid}

\* A client shows an id as online that is offline only if nobody was bound to
\* tell it: the id's socket identified under another one, or the list the id
\* sent last does not name the client's own id, so that it left without a word
\* to it.  Whoever is named in the list an id came with is rid of it when it
\* leaves, whatever the lists said before.
NoGhostFriend ==
  \A s \in Socket : \A q \in seenOnline[s] :
    \/ isOnline(q)
    \/ q \in unannounced
    \/ socketToPuuid[s] \notin lastList[q]

\* Of two ids online, when the one that identified later names the other, both
\* clients show the other as online: the newcomer finds it, and it is told of
\* the newcomer, even if its own older list does not name the newcomer.
NoMissedFriend ==
  \A s, t \in Socket, p, q \in Puuid :
    /\ socketToPuuid[s] = p /\ socketToPuuid[t] = q
    /\ q \in earlier[p] /\ q \in friendsMap[p]
    => q \in seenOnline[s] /\ p \in seenOnline[t]

\* Two invites of a pair are InviteLimit apart, through reconnections and new
\* lists of either side and through the cleanup of the Map: an invite gets
\* through only when the last one of the pair is as old as the limit.
InvitesArePaced ==
  [][\A s \in Socket, q \in Puuid :
       SendInvite(s, q) => sinceInvite[<<socketToPuuid[s], q>>] = InviteLimit]_vars

\* Of two ids online one identified after the other.
Ordered ==
  \A p, q \in Puuid :
    isOnline(p) /\ isOnline(q) /\ p # q => (q \in earlier[p] <=> p \notin earlier[q])

\* The inductive invariant: an online id has the list it sent last stored, and a
\* client that has not identified shows nobody.
PresenceInv ==
  /\ TypeOK /\ OneToOne /\ PersonalChannel /\ NoGhostFriend /\ NoMissedFriend /\ Ordered
  /\ \A p \in Puuid : friendsMap[p] = IF isOnline(p) THEN lastList[p] ELSE {}
  /\ \A s \in Socket : seenOnline[s] # {} => socketToPuuid[s] # NoPuuid
=============================================================================
