---------------------------- MODULE MC_SkripsiApp ----------------------------
(***************************************************************************)
(* The app with two accounts.                                              *)
(***************************************************************************)
EXTENDS SkripsiApp, TLC

CONSTANTS a, b, a1, a2, b1

MCUidOf == (a1 :> a) @@ (a2 :> a) @@ (b1 :> b)
OneTokenEach == (a1 :> a) @@ (b1 :> b)

\* Requests, listeners and the two users (with their tokens) are interchangeable.
SwapUsers == (a :> b) @@ (b :> a) @@ (a1 :> b1) @@ (b1 :> a1)
Symmetry == Permutations(Flows) \cup Permutations(Listeners) \cup {SwapUsers}

=============================================================================
