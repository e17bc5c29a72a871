----------------------------- MODULE MCBroadcast -----------------------------
(* Small instances of Broadcast. *)
EXTENDS Broadcast, TLC

CONSTANTS m1, m2, m3, s1, s2, plain, locked

\* Every id comes under a name of its own, for which it may stand itself; a
\* person who comes back under the same name is the same id, drawn again.
MCNameOf == [m \in Member |-> m]
MCVersion == [s \in Socket |-> IF s = s1 THEN 1 ELSE 7]
MCStrip  == [c \in Content |-> plain]

\* The sockets differ in their versions.
Symmetry == Permutations(Room) \cup Permutations(Member)
=============================================================================
