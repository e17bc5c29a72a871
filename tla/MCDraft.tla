------------------------------- MODULE MCDraft -------------------------------
(* Draft on a small instance.  Two players of c1, who own everything, share  *)
(* the line star, the base skins, red and blue - one colour more than is     *)
(* collected; a player of c2 shares red alone.                               *)
EXTENDS Draft, TLC

CONSTANTS c1, c2, o1, o2, o3, red, blue, star, base

Champions == {c1, c2}
Options   == {o1, o2, o3}
Colors    == {red, blue}
Lines     == {star, base}

SmallChampionOf == o1 :> c1 @@ o2 :> c1 @@ o3 :> c2
SmallColorOf    == o1 :> red @@ o2 :> blue @@ o3 :> red
SmallLineOf     == o1 :> star @@ o2 :> base @@ o3 :> NoLine
SmallOwned      == {{o1, o2}, {o3}}

Symmetry == Permutations(Member)
=============================================================================
