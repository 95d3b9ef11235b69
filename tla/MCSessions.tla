------------------------------ MODULE MCSessions ------------------------------
(* Two accounts, of two characters and of one, and two distant places. *)
EXTENDS Sessions, TLC

CONSTANTS a1, a2, c1, c2, c3, p1, p2

MCAccountOf == (c1 :> a1) @@ (c2 :> a1) @@ (c3 :> a2)
MCAround == (p1 :> {p1}) @@ (p2 :> {p2})
=============================================================================
