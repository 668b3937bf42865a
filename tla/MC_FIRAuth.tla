----------------------------- MODULE MC_FIRAuth -----------------------------
(***************************************************************************)
(* FIRAuth on two users, one of them with two tokens, and two listeners.   *)
(***************************************************************************)
EXTENDS FIRAuth, TLC

CONSTANTS a, b, a1, a2, b1

MCUidOf == (a1 :> a) @@ (a2 :> a) @@ (b1 :> b)
MCCalls == {[kind |-> "call"]}

=============================================================================
