---------------------------- MODULE MC_SignUpForm ----------------------------
(***************************************************************************)
(* Every address of up to two characters over "@" and another one, and   *)
(* passwords around the limit of 7: two different ones of 8 characters.    *)
(***************************************************************************)
EXTENDS SignUpForm, TLC

Texts(chars, n) == UNION {[1..k -> chars] : k \in 0..n}
Repeat(ch, n) == [i \in 1..n |-> ch]

Names == {<<>>, <<"n">>}
Passwords == {<<>>, Repeat("p", 7), Repeat("p", 8), Repeat("q", 8)}

MCValues ==
  [firstName |-> Names, lastName |-> Names, username |-> Names,
   email |-> Texts({"@", "x"}, 2), password |-> Passwords, confirmPassword |-> Passwords]

=============================================================================
