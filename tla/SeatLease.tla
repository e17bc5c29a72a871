------------------------------ MODULE SeatLease ------------------------------
(***************************************************************************)
(* What a room promises a player: a seat is a lease.  It is taken over     *)
(* REST, held by a socket, kept for a while when the socket falls, and     *)
(* lost by leaving, by a kick, with its room, or to the sweep - which may  *)
(* take it only when nobody came for PendingTTL, or came back for Grace,   *)
(* and which must take it then.                                            *)
(*                                                                         *)
(* The module is about one seat; Broadcast!SeatsLast shows that every seat *)
(* of every room is such a lease.                                          *)
(***************************************************************************)
EXTENDS Integers

CONSTANTS PendingTTL, Grace, SweepPeriod

VARIABLES
  lease,   \* none, pending, held or grace, and for how long it has been
           \* pending or in grace
  open,    \* whether its room is
  clock    \* time since the sweep

seatVars == <<clock, open, lease>>

State(is, age) == [is |-> is, age |-> age]

Timed == lease.is \in {"pending", "grace"}
Due   == Timed /\ lease.age >= IF lease.is = "pending" THEN PendingTTL ELSE Grace

Init == lease = State("none", 0) /\ ~open /\ clock = 0

Becomes(is) == lease' = State(is, 0)

Take == lease.is = "none" /\ Becomes("pending") /\ open' /\ UNCHANGED clock

Attach == Timed /\ open /\ Becomes("held") /\ UNCHANGED <<open, clock>>

Drop == lease.is = "held" /\ Becomes("grace") /\ UNCHANGED <<open, clock>>

\* The player leaves or is kicked; the last one closes the room.
GiveUp == lease.is # "none" /\ Becomes("none") /\ UNCHANGED clock

\* Others create the room or, the last of them leaving, close it.
Others == lease.is = "none" /\ UNCHANGED <<lease, clock>>

Pass ==
  /\ clock < SweepPeriod /\ clock' = clock + 1
  /\ lease' = IF Timed THEN [lease EXCEPT !.age = @ + 1] ELSE lease
  /\ UNCHANGED open

\* A seat that is due goes, and no other unless the whole room does.
Collect ==
  /\ clock = SweepPeriod /\ clock' = 0
  /\ open' => open
  /\ IF lease.is # "none" /\ (Due \/ ~open') THEN Becomes("none")
     ELSE UNCHANGED lease

Next == Pass \/ Collect \/ Take \/ Attach \/ Drop \/ GiveUp \/ Others

\* Whatever else the server does leaves the seat alone.
Step == UNCHANGED seatVars \/ Next

Spec == Init /\ [][Step]_seatVars
=============================================================================
