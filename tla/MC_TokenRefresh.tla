-------------------------- MODULE MC_TokenRefresh --------------------------
(***************************************************************************)
(* TokenRefresh on two users, one of them with two tokens.                 *)
(***************************************************************************)
EXTENDS TokenRefresh, TLC

CONSTANTS a, b, a1, a2, b1

MCUidOf == (a1 :> a) @@ (a2 :> a) @@ (b1 :> b)
Symmetry == Permutations({a1, a2})

=============================================================================
