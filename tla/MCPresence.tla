----------------------------- MODULE MCPresence -----------------------------
(* Small instances of Presence. *)
EXTENDS Presence, TLC

CONSTANTS a, b, c

\* Nobody, one id - the client's own among them - or everybody.
MCFriendList == {{}, {a}, {b}, {a, b, c}}
MCInvitePair == {<<a, b>>}
Symmetry == Permutations(Socket)
=============================================================================
