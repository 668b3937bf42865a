--------------------------- MODULE Validator_proofs ---------------------------
(***************************************************************************)
(* What it means for texts of any length to pass the checks of the forms.  *)
(***************************************************************************)
EXTENDS Validator, SequenceTheorems, WellFoundedInduction, TLAPS

Texts == Seq(STRING)

\* A nonempty set of numbers has a smallest member.
LEMMA MinFact ==
  ASSUME NEW S, S \subseteq Nat, S # {}
  PROVE  Min(S) \in S
<1> DEFINE R == {ss \in Nat \X Nat : ss[1] < ss[2]}
<1>1. IsWellFoundedOn(R, Nat)
  BY NatLessThanWellFounded, Zenon DEF OpToRel
<1>2. PICK x \in S : \A y \in S : ~(<<y, x>> \in R)
  <2> HIDE DEF R
  <2> QED
    BY <1>1, WFMin
<1>3. ASSUME NEW y \in S PROVE x =< y
  <2>1. <<y, x>> \in Nat \X Nat /\ <<y, x>>[1] = y /\ <<y, x>>[2] = x
    OBVIOUS
  <2>2. y < x => <<y, x>> \in R
    BY <2>1, Zenon
  <2>3. ~(y < x)
    BY <1>2, <2>2
  <2> QED
    BY <2>3
<1> QED
  BY <1>3 DEF Min

\* FirstFailure says "valid" only if no check fails: the early returns of
\* validateValue skip nothing.
LEMMA FirstFailureFact ==
  ASSUME NEW checks, Len(checks) \in Nat, FirstFailure(checks) = "valid",
         \A i \in 1..Len(checks) : checks[i].message # "valid"
  PROVE  \A i \in 1..Len(checks) : ~checks[i].failed
<1> DEFINE failing == {i \in 1..Len(checks) : checks[i].failed}
<1>1. failing \subseteq Nat
  OBVIOUS
<1>2. failing = {}
  BY <1>1, MinFact DEF FirstFailure
<1> QED
  BY <1>2

\* An address that passes has a "@", and not at its start.
LEMMA EmailFact ==
  ASSUME NEW email \in Texts, checkEmailAuthenticity(email)
  PROVE  /\ \E k \in 2..Len(email) : email[k] = "@"
         /\ email[1] # "@"
<1>1. email # <<>> /\ Head(email) = email[1]
  BY DEF checkEmailAuthenticity, isEmpty, Texts
<1>2. PICK k \in 1..Len(email) : email[k] = "@"
  BY DEF checkEmailAuthenticity, contains
<1>3. email[1] # "@"
  BY <1>1 DEF checkEmailAuthenticity
<1> QED
  BY <1>2, <1>3 DEF Texts

\* What SignInViewModel.validateValue accepts.
LEMMA SignInFact ==
  ASSUME NEW email \in Texts, NEW password \in Texts
  PROVE  SignInValidate(email, password) = "valid" =>
           /\ ~isEmpty(email)
           /\ ~isEmpty(password)
           /\ checkEmailAuthenticity(email)
<1> DEFINE checks == <<Check(isEmpty(email), "email empty"),
                       Check(isEmpty(password), "password empty"),
                       Check(~checkEmailAuthenticity(email), "email without @")>>
<1>1. Len(checks) = 3
  OBVIOUS
<1>2. /\ checks[1].failed = isEmpty(email)
      /\ checks[2].failed = isEmpty(password)
      /\ checks[3].failed = ~checkEmailAuthenticity(email)
  BY DEF Check
<1>3. checks[1].message # "valid" /\ checks[2].message # "valid" /\ checks[3].message # "valid"
  BY DEF Check
<1>4. SignInValidate(email, password) = FirstFailure(checks)
  BY DEF SignInValidate
<1> HIDE DEF checks
<1>5. \A i \in 1..Len(checks) : checks[i].message # "valid"
  BY <1>1, <1>3
<1>6. ASSUME FirstFailure(checks) = "valid" PROVE \A i \in 1..3 : ~checks[i].failed
  BY <1>1, <1>5, <1>6, FirstFailureFact
<1>7. ASSUME FirstFailure(checks) = "valid"
      PROVE  ~checks[1].failed /\ ~checks[2].failed /\ ~checks[3].failed
  BY <1>6, <1>7
<1> QED
  BY <1>2, <1>4, <1>7, Zenon

\* What SignUpViewModel.validateValue accepts.
LEMMA SignUpFact ==
  ASSUME NEW v
  PROVE  SignUpValidate(v) = "valid" =>
           /\ ~isEmpty(v.firstName) /\ ~isEmpty(v.lastName) /\ ~isEmpty(v.username)
           /\ ~isEmpty(v.email) /\ checkEmailAuthenticity(v.email)
           /\ ~isEmpty(v.password) /\ ~isEmpty(v.confirmPassword)
           /\ v.password = v.confirmPassword
           /\ checkMoreThan7Chars(v.password)
<1> DEFINE checks == <<
  Check(isEmpty(v.firstName), "first name empty"),
  Check(isEmpty(v.lastName), "last name empty"),
  Check(isEmpty(v.username), "username empty"),
  Check(isEmpty(v.email), "email empty"),
  Check(~checkEmailAuthenticity(v.email), "email without @"),
  Check(isEmpty(v.password), "password empty"),
  Check(isEmpty(v.confirmPassword), "confirmation empty"),
  Check(v.password # v.confirmPassword, "mismatch"),
  Check(~checkMoreThan7Chars(v.password), "password short")>>
<1>1. Len(checks) = 9
  OBVIOUS
<1>2. /\ checks[1].failed = isEmpty(v.firstName)
      /\ checks[2].failed = isEmpty(v.lastName)
      /\ checks[3].failed = isEmpty(v.username)
      /\ checks[4].failed = isEmpty(v.email)
      /\ checks[5].failed = ~checkEmailAuthenticity(v.email)
      /\ checks[6].failed = isEmpty(v.password)
      /\ checks[7].failed = isEmpty(v.confirmPassword)
      /\ checks[8].failed = (v.password # v.confirmPassword)
      /\ checks[9].failed = ~checkMoreThan7Chars(v.password)
  BY DEF Check
<1>3. /\ checks[1].message # "valid" /\ checks[2].message # "valid"
      /\ checks[3].message # "valid" /\ checks[4].message # "valid"
      /\ checks[5].message # "valid" /\ checks[6].message # "valid"
      /\ checks[7].message # "valid" /\ checks[8].message # "valid"
      /\ checks[9].message # "valid"
  BY DEF Check
<1>4. SignUpValidate(v) = FirstFailure(checks)
  BY DEF SignUpValidate
<1> HIDE DEF checks
<1>5. \A i \in 1..Len(checks) : checks[i].message # "valid"
  BY <1>1, <1>3
<1>6. ASSUME FirstFailure(checks) = "valid"
      PROVE  \A i \in 1..Len(checks) : ~checks[i].failed
  <2>1. Len(checks) \in Nat
    BY <1>1
  <2> QED
    BY <2>1, <1>5, <1>6, FirstFailureFact, Zenon
<1>7. ASSUME FirstFailure(checks) = "valid"
      PROVE  /\ ~checks[1].failed /\ ~checks[2].failed /\ ~checks[3].failed
             /\ ~checks[4].failed /\ ~checks[5].failed /\ ~checks[6].failed
             /\ ~checks[7].failed /\ ~checks[8].failed /\ ~checks[9].failed
  BY <1>1, <1>6, <1>7
<1> QED
  BY <1>2, <1>4, <1>7, Zenon

\* Whatever passes the checks of the sign-up form passes those of the sign-in form.
LEMMA SignInAccepts ==
  ASSUME NEW email, NEW password,
         ~isEmpty(email), ~isEmpty(password), checkEmailAuthenticity(email)
  PROVE  SignInValidate(email, password) = "valid"
<1> DEFINE checks == <<Check(isEmpty(email), "email empty"),
                       Check(isEmpty(password), "password empty"),
                       Check(~checkEmailAuthenticity(email), "email without @")>>
<1>1. Len(checks) = 3
  OBVIOUS
<1>2. ~checks[1].failed /\ ~checks[2].failed /\ ~checks[3].failed
  BY DEF Check
<1>3. SignInValidate(email, password) = FirstFailure(checks)
  BY DEF SignInValidate
<1> HIDE DEF checks
<1>4. {i \in 1..Len(checks) : checks[i].failed} = {}
  BY <1>1, <1>2
<1> QED
  BY <1>3, <1>4 DEF FirstFailure

\* A member of a concatenation is a member of one of its parts.
LEMMA ConcatFact ==
  ASSUME NEW S, NEW a \in Seq(S), NEW b \in Seq(S)
  PROVE  /\ a \o b \in Seq(S)
         /\ \A j \in 1..Len(a \o b) : \/ \E k \in 1..Len(a) : (a \o b)[j] = a[k]
                                      \/ \E k \in 1..Len(b) : (a \o b)[j] = b[k]
<1>1. /\ a \o b \in Seq(S)
      /\ Len(a \o b) = Len(a) + Len(b)
      /\ \A j \in 1..Len(a) + Len(b) :
           (a \o b)[j] = IF j <= Len(a) THEN a[j] ELSE b[j - Len(a)]
  BY ConcatProperties, Zenon
<1> DEFINE r == a \o b
<1>2. Len(a) \in Nat /\ Len(b) \in Nat
  OBVIOUS
<1> SUFFICES ASSUME NEW j \in 1..Len(r)
             PROVE  (\E k \in 1..Len(a) : r[j] = a[k]) \/ (\E k \in 1..Len(b) : r[j] = b[k])
  BY <1>1
<1> HIDE DEF r
<1>3. j \in 1..Len(a) + Len(b) /\ r[j] = IF j <= Len(a) THEN a[j] ELSE b[j - Len(a)]
  BY <1>1, Zenon DEF r
<1>4. CASE j <= Len(a)
  BY <1>2, <1>3, <1>4
<1>5. CASE ~(j <= Len(a))
  <2>1. j - Len(a) \in 1..Len(b) /\ r[j] = b[j - Len(a)]
    BY <1>2, <1>3, <1>5
  <2> QED
    BY <2>1
<1> QED
  BY <1>4, <1>5

\* A request taken out of the sequence: the others are the ones there were.
LEMMA RemoveFact ==
  ASSUME NEW S, NEW q \in Seq(S), NEW i \in 1..Len(q)
  PROVE  LET r == SubSeq(q, 1, i - 1) \o SubSeq(q, i + 1, Len(q))
         IN  /\ r \in Seq(S)
             /\ \A j \in 1..Len(r) : \E k \in 1..Len(q) : r[j] = q[k]
<1> DEFINE a == SubSeq(q, 1, i - 1)
           b == SubSeq(q, i + 1, Len(q))
<1>1. a \in Seq(S) /\ Len(a) = i - 1 /\ \A j \in 1..Len(a) : a[j] = q[j]
  OBVIOUS
<1>2. b \in Seq(S) /\ Len(b) = Len(q) - i /\ \A j \in 1..Len(b) : b[j] = q[i + j]
  OBVIOUS
<1> HIDE DEF a, b
<1>3. /\ a \o b \in Seq(S)
      /\ \A j \in 1..Len(a \o b) : \/ \E k \in 1..Len(a) : (a \o b)[j] = a[k]
                                   \/ \E k \in 1..Len(b) : (a \o b)[j] = b[k]
  <2>1. a \in Seq(S) /\ b \in Seq(S)
    BY <1>1, <1>2
  <2> QED
    BY <2>1, ConcatFact, SMT
<1>4. \A k \in 1..Len(a) : k \in 1..Len(q) /\ a[k] = q[k]
  BY <1>1
<1>5. \A k \in 1..Len(b) : i + k \in 1..Len(q) /\ b[k] = q[i + k]
  BY <1>2
<1>6. ASSUME NEW j \in 1..Len(a \o b) PROVE \E k \in 1..Len(q) : (a \o b)[j] = q[k]
  BY <1>3, <1>4, <1>5, Zenon
<1> QED
  BY <1>3, <1>6, Zenon DEF a, b

=============================================================================
