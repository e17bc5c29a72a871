---------------------------- MODULE RoomActivity ----------------------------
(***************************************************************************)
(* RoomLifecycle seen from the clock of one room: with the draft events    *)
(* of a seated member, which change nothing RoomLifecycle keeps, and with  *)
(* a history variable for the time since anybody did anything in a room.   *)
(***************************************************************************)
EXTENDS RoomLifecycle

VARIABLE
  quiet     \* per room: time since the last successful request on it

activityVars == <<vars, quiet>>

\* update-selection, owned-options, suggest-color, set-skin-lock and the two
\* apply events.  None of them calls touchRoom, which has no caller at all, so
\* idleAge stays as it is.
DraftEvent(s, r, m) ==
  /\ s \in connected /\ r \in rooms /\ m \in members[r] \ bots
  /\ UNCHANGED vars

\* A request on room r.
Request(r) ==
  /\ \/ \E m \in Member : CreateRoom(r, m) \/ JoinRoom(r, m) \/ AddBots(r, m)
     \/ \E s \in Socket, m \in Member :
          JoinSocket(s, r, m) \/ LeaveRoom(s, r, m) \/ DraftEvent(s, r, m)
     \/ \E m, target \in Member : KickMember(r, m, target)
  /\ quiet' = [quiet EXCEPT ![r] = 0]

Elapse ==
  /\ Tick
  /\ quiet' = [r \in Room |-> IF r \in rooms THEN quiet[r] + 1 ELSE 0]

Collect == Sweep /\ UNCHANGED quiet

Recycle(m) == RecycleId(m) /\ UNCHANGED quiet

Wire(s) == (Connect(s) \/ Disconnect(s)) /\ UNCHANGED quiet

ActivityInit == Init /\ quiet = [r \in Room |-> 0]

ActivityNext ==
  \/ \E r \in Room : Request(r)
  \/ \E m \in Member : Recycle(m)
  \/ \E s \in Socket : Wire(s)
  \/ Elapse
  \/ Collect

ActivitySpec ==
  /\ ActivityInit /\ [][ActivityNext]_activityVars
  /\ WF_activityVars(Elapse) /\ WF_activityVars(Collect)

\* The comments on lastActivityAt and touchRoom: a significant action resets
\* the limit, so the sweep closes only rooms nobody did anything in for RoomTTL.
OnlyAbandonedRoomsExpire ==
  [][Collect => \A r \in Expired : quiet[r] >= RoomTTL]_activityVars
=============================================================================
