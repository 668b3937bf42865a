---------------------------- MODULE MC_SignInForm ----------------------------
(***************************************************************************)
(* Every address of up to three characters over "@" and another one, and   *)
(* two passwords.                                                          *)
(***************************************************************************)
EXTENDS SignInForm

MCValues ==
  [email |-> UNION {[1..k -> {"@", "x"}] : k \in 0..3},
   password |-> {<<>>, <<"p">>, <<"q">>}]

=============================================================================
