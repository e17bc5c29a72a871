--------------------------- MODULE MCRoomActivity ---------------------------
(* Small instances of RoomActivity. *)
EXTENDS RoomActivity, TLC

CONSTANTS m1, m2, n1, n2

MCNameOf == [m \in Member |-> IF m = m1 THEN n1 ELSE n2]
Symmetry == Permutations(Socket)
=============================================================================
