--------------------------- MODULE MCRoomLifecycle ---------------------------
(***************************************************************************)
(* Small instances of RoomLifecycle.  With the unit of 30 s the sweep      *)
(* period (60 s), the grace period (90 s) and the limit for members who    *)
(* never attached (2 min) keep their real values 2, 3 and 4; the room TTL  *)
(* (6 h, 720 units) is cut down by the configurations.                     *)
(***************************************************************************)
EXTENDS RoomLifecycle, TLC

CONSTANTS m1, m2, m3, n1, n2

\* m1 and m3 are the same person: m3 comes back under m1's name.
MCNameOf == [m \in Member |-> IF m = m2 THEN n2 ELSE n1]

\* m2's name is the only one that differs.
Symmetry ==
  Permutations(Room) \cup Permutations(Socket) \cup Permutations(Member \ {m2})
=============================================================================
