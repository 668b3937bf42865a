------------------------------ MODULE Validator ------------------------------
(***************************************************************************)
(* The checks the two forms run before a request: Validator and the        *)
(* validateValue methods of SignUpViewModel and SignInViewModel.  A text   *)
(* is the sequence of its characters.  The result is the message shown,    *)
(* named for its cause, or "valid".                                        *)
(***************************************************************************)
EXTENDS Naturals, Sequences, FiniteSetsExt

isEmpty(text) == Len(text) = 0
contains(text, ch) == \E i \in 1..Len(text) : text[i] = ch

\* Seeded fault (no part of the specification): a leading "@" passes.
checkEmailAuthenticity_Leading(email) == contains(email, "@")

checkEmailAuthenticity(email) ==
  ~isEmpty(email) /\ contains(email, "@") /\ Head(email) # "@"

\* Seeded fault (no part of the specification): off by one.
checkMoreThan7Chars_AtLeast(text) == Len(text) >= 7

checkMoreThan7Chars(text) == Len(text) > 7

\* The checks in order: the first that fails gives the message and returns.
Check(failed, message) == [failed |-> failed, message |-> message]
FirstFailure(checks) ==
  LET failing == {i \in 1..Len(checks) : checks[i].failed}
  IN IF failing = {} THEN "valid" ELSE checks[Min(failing)].message

SignUpValidate(v) == FirstFailure(<<
  Check(isEmpty(v.firstName), "first name empty"),
  Check(isEmpty(v.lastName), "last name empty"),
  Check(isEmpty(v.username), "username empty"),
  Check(isEmpty(v.email), "email empty"),
  Check(~checkEmailAuthenticity(v.email), "email without @"),
  Check(isEmpty(v.password), "password empty"),
  Check(isEmpty(v.confirmPassword), "confirmation empty"),
  Check(v.password # v.confirmPassword, "mismatch"),
  Check(~checkMoreThan7Chars(v.password), "password short")>>)

\* Seeded fault (no part of the specification): sign-in also checks the length,
\* off by one.
SignInValidate_Length(email, password) == FirstFailure(<<
  Check(isEmpty(email), "email empty"),
  Check(Len(password) <= 8, "password short"),
  Check(~checkEmailAuthenticity(email), "email without @")>>)

SignInValidate(email, password) == FirstFailure(<<
  Check(isEmpty(email), "email empty"),
  Check(isEmpty(password), "password empty"),
  Check(~checkEmailAuthenticity(email), "email without @")>>)

=============================================================================
