-------------------------- MODULE SignUpForm_proofs --------------------------
(***************************************************************************)
(* Proofs about the sign-up form for any texts and any number of requests. *)
(***************************************************************************)
EXTENDS SignUpForm, Validator_proofs, FiniteSetTheorems

Requests == [values : [Fields -> Texts], pc : {"account", "document"}]

\* The inductive invariant: texts are texts and requests passed the checks; there
\* is at most one message unless an answer has put one below the confirmation.
RequestsInv ==
  /\ fields \in [Fields -> Texts]
  /\ requests \in Seq(Requests)
  /\ \A i \in 1..Len(requests) : SignUpValidate(requests[i].values) = "valid"

MessagesInv ==
  /\ DOMAIN messages = Fields
  /\ \/ messages["confirmPassword"] = "server"
     \/ \E n \in Fields : \A k \in Fields : k # n => messages[k] = ""

FormInv == RequestsInv /\ MessagesInv

\* The six fields of the form, spelled out.
LEMMA FieldsFact ==
  /\ Fields = {"firstName", "lastName", "username", "email", "password", "confirmPassword"}
  /\ [n \in Fields |-> <<>>] \in [Fields -> Texts]
<1>1. <<>> \in Texts
  BY DEF Texts
<1> QED
  BY <1>1, ValuesAssumption DEF Fields

\* The empty form.
LEMMA InitInv == Init => FormInv
<1> SUFFICES ASSUME Init PROVE FormInv
  OBVIOUS
<1>1. RequestsInv
  BY FieldsFact DEF Init, RequestsInv
<1>2. MessagesInv
  <2>1. DOMAIN messages = Fields /\ \A k \in Fields : messages[k] = ""
    BY DEF Init, NoMessages
  <2> QED
    BY <2>1, FieldsFact DEF MessagesInv
<1> QED
  BY <1>1, <1>2 DEF FormInv

\* A request leaves.
LEMMA RemoveInv ==
  ASSUME RequestsInv, NEW i \in 1..Len(requests), RemoveRequest(i), UNCHANGED fields
  PROVE  RequestsInv'
<1>1. requests \in Seq(Requests)
  BY DEF RequestsInv
<1>2. /\ requests' \in Seq(Requests)
      /\ \A j \in 1..Len(requests') : \E k \in 1..Len(requests) : requests'[j] = requests[k]
  BY <1>1, RemoveFact, Zenon DEF RemoveRequest
<1>3. ASSUME NEW j \in 1..Len(requests') PROVE SignUpValidate(requests'[j].values) = "valid"
  <2>1. PICK k \in 1..Len(requests) : requests'[j] = requests[k]
    BY <1>2
  <2> QED
    BY <2>1 DEF RequestsInv
<1> QED
  BY <1>2, <1>3 DEF RequestsInv

\* The document of a request is being written.
LEMMA ToDocumentInv ==
  ASSUME RequestsInv, NEW i \in 1..Len(requests),
         requests' = [requests EXCEPT ![i].pc = "document"], UNCHANGED fields
  PROVE  RequestsInv'
<1>1. requests \in Seq(Requests) /\ requests[i] \in Requests
  BY DEF RequestsInv
<1>2. [requests[i] EXCEPT !.pc = "document"] \in Requests
  BY <1>1 DEF Requests
<1>3. /\ requests' \in Seq(Requests)
      /\ Len(requests') = Len(requests)
      /\ \A j \in 1..Len(requests) : requests'[j].values = requests[j].values
  BY <1>1, <1>2 DEF Requests
<1> QED
  BY <1>3 DEF RequestsInv

\* An answer shows an error below the confirmation, or changes no message.
LEMMA CompletionInv ==
  ASSUME MessagesInv, NEW error \in BOOLEAN, completion(error)
  PROVE  MessagesInv'
<1>1. CASE messages' = messages
  BY <1>1 DEF MessagesInv
<1>2. CASE messages' = [messages EXCEPT !["confirmPassword"] = "server"]
  BY <1>2, FieldsFact DEF MessagesInv
<1> QED
  BY <1>1, <1>2 DEF completion

\* The button is tapped.
LEMMA SignUpInv == FormInv /\ signUp => FormInv'
<1> SUFFICES ASSUME FormInv, signUp PROVE FormInv'
  OBVIOUS
<1> DEFINE result == SignUpValidate(fields)
<1>1. MessagesInv'
  <2>1. PICK f : messages' = NoMessages \/ messages' = [NoMessages EXCEPT ![f] = result]
    BY DEF signUp
  <2>2. DOMAIN messages' = Fields /\ \A k \in Fields : k # f => messages'[k] = ""
    BY <2>1 DEF NoMessages
  <2>3. CASE f \in Fields
    BY <2>2, <2>3 DEF MessagesInv
  <2>4. CASE f \notin Fields
    BY <2>2, <2>4, FieldsFact DEF MessagesInv
  <2> QED
    BY <2>3, <2>4
<1>2. CASE result # "valid"
  <2>1. UNCHANGED <<fields, requests>>
    BY <1>2 DEF signUp
  <2> QED
    BY <2>1, <1>1 DEF FormInv, RequestsInv
<1>3. CASE result = "valid"
  <2>1. /\ requests' = Append(requests, [values |-> fields, pc |-> "account"])
        /\ fields' = fields
    BY <1>3 DEF signUp
  <2>2. requests \in Seq(Requests) /\ [values |-> fields, pc |-> "account"] \in Requests
    BY DEF FormInv, RequestsInv, Requests
  <2>3. /\ requests' \in Seq(Requests)
        /\ Len(requests') = Len(requests) + 1
        /\ requests'[Len(requests) + 1] = [values |-> fields, pc |-> "account"]
        /\ \A j \in 1..Len(requests) : requests'[j] = requests[j]
    BY <2>1, <2>2
  <2>4. ASSUME NEW j \in 1..Len(requests') PROVE SignUpValidate(requests'[j].values) = "valid"
    <3>1. CASE j \in 1..Len(requests)
      BY <3>1, <2>3 DEF FormInv, RequestsInv
    <3>2. CASE j = Len(requests) + 1
      BY <3>2, <2>3, <1>3
    <3> QED
      BY <3>1, <3>2, <2>2, <2>3
  <2> QED
    BY <1>1, <2>1, <2>3, <2>4 DEF FormInv, RequestsInv
<1> QED
  BY <1>2, <1>3

\* Every step keeps the invariant.
LEMMA NextInv == FormInv /\ [Next]_vars => FormInv'
<1> SUFFICES ASSUME FormInv, [Next]_vars PROVE FormInv'
  OBVIOUS
<1> USE DEF FormInv
<1>1. ASSUME NEW n \in Fields, Edit(n) PROVE FormInv'
  <2>1. fields' \in [Fields -> Texts]
    BY <1>1, ValuesAssumption DEF Edit, RequestsInv, Texts, Fields
  <2> QED
    BY <1>1, <2>1 DEF Edit, RequestsInv, MessagesInv
<1>2. CASE signUp
  BY <1>2, SignUpInv
<1>3. ASSUME NEW i \in 1..Len(requests), NotCreated(i) PROVE FormInv'
  <2>1. UNCHANGED fields
    BY <1>3 DEF NotCreated, completion
  <2> QED
    BY <1>3, <2>1, RemoveInv, CompletionInv DEF NotCreated
<1>4. ASSUME NEW i \in 1..Len(requests), Abandoned(i) PROVE FormInv'
  BY <1>4, RemoveInv DEF Abandoned, MessagesInv
<1>5. ASSUME NEW i \in 1..Len(requests), NEW error \in BOOLEAN, Committed(i, error) PROVE FormInv'
  <2>1. UNCHANGED fields
    BY <1>5 DEF Committed, completion
  <2> QED
    BY <1>5, <2>1, ToDocumentInv, CompletionInv DEF Committed
<1>6. ASSUME NEW i \in 1..Len(requests), NEW error \in BOOLEAN, Written(i, error) PROVE FormInv'
  <2>1. UNCHANGED fields
    BY <1>6 DEF Written, completion
  <2>2. MessagesInv'
    BY <1>6, CompletionInv DEF Written, MessagesInv
  <2> QED
    BY <1>6, <2>1, <2>2, RemoveInv DEF Written
<1>7. CASE UNCHANGED vars
  BY <1>7 DEF vars, RequestsInv, MessagesInv
<1> QED
  BY <1>1, <1>2, <1>3, <1>4, <1>5, <1>6, <1>7 DEF Next

\* The inductive invariant holds throughout.
THEOREM Invariance == Spec => []FormInv
BY InitInv, NextInv, PTL DEF Spec

\* SignUpViewModel.signUp sends only what validateValue accepted, whatever is in
\* the form by now.
THEOREM RequestsAreValidHolds == Spec => []RequestsAreValid
<1>1. FormInv => RequestsAreValid
  <2> SUFFICES ASSUME FormInv, NEW i \in 1..Len(requests)
               PROVE  LET v == requests[i].values
                      IN  /\ \A n \in Fields : v[n] # <<>>
                          /\ \E k \in 2..Len(v.email) : v.email[k] = "@"
                          /\ v.email[1] # "@"
                          /\ v.password = v.confirmPassword
                          /\ Len(v.password) >= 8
    BY DEF RequestsAreValid
  <2> DEFINE v == requests[i].values
  <2>1. requests[i] \in Requests
    BY DEF FormInv, RequestsInv
  <2>2. v \in [Fields -> Texts]
    BY <2>1 DEF Requests
  <2>3. v.email \in Texts /\ v.password \in Texts
    BY <2>2, FieldsFact
  <2>4. SignUpValidate(v) = "valid"
    BY DEF FormInv, RequestsInv
  <2> HIDE DEF v
  <2>5. /\ ~isEmpty(v.firstName) /\ ~isEmpty(v.lastName) /\ ~isEmpty(v.username)
        /\ ~isEmpty(v.email) /\ checkEmailAuthenticity(v.email)
        /\ ~isEmpty(v.password) /\ ~isEmpty(v.confirmPassword)
        /\ v.password = v.confirmPassword
        /\ checkMoreThan7Chars(v.password)
    BY <2>4, SignUpFact
  <2>6. \A n \in Fields : v[n] # <<>>
    BY <2>5, FieldsFact DEF isEmpty
  <2>7. Len(v.password) >= 8
    BY <2>3, <2>5 DEF checkMoreThan7Chars, Texts
  <2>8. (\E k \in 2..Len(v.email) : v.email[k] = "@") /\ v.email[1] # "@"
    BY <2>3, <2>5, EmailFact
  <2> QED
    BY <2>5, <2>6, <2>7, <2>8 DEF v
<1> QED
  BY <1>1, Invariance, PTL

\* The two validateValue methods agree: what signs up can sign in.
THEOREM SignUpImpliesSignInHolds == Spec => []SignUpImpliesSignIn
<1>1. SignUpImpliesSignIn
  <2> SUFFICES ASSUME SignUpValidate(fields) = "valid"
               PROVE  SignInValidate(fields.email, fields.password) = "valid"
    BY DEF SignUpImpliesSignIn
  <2>1. /\ ~isEmpty(fields.email) /\ ~isEmpty(fields.password)
        /\ checkEmailAuthenticity(fields.email)
    BY SignUpFact
  <2> QED
    BY <2>1, SignInAccepts
<1> QED
  BY <1>1, PTL

\* Messages pile up only when an answer meets a later tap.
THEOREM OneMessageHolds == Spec => []OneMessage
<1>1. FormInv => OneMessage
  <2> SUFFICES ASSUME FormInv, messages["confirmPassword"] # "server"
               PROVE  ~(Cardinality({n \in Fields : messages[n] # ""}) > 1)
    BY DEF OneMessage
  <2>1. PICK n \in Fields : \A k \in Fields : k # n => messages[k] = ""
    BY DEF FormInv, MessagesInv
  <2> DEFINE S == {k \in Fields : messages[k] # ""}
  <2>2. S \subseteq {n}
    BY <2>1
  <2>3. IsFiniteSet({n}) /\ Cardinality({n}) = 1
    BY FS_Singleton
  <2> HIDE DEF S
  <2>4. Cardinality(S) <= 1 /\ Cardinality(S) \in Nat
    BY <2>2, <2>3, FS_Subset, FS_CardinalityType
  <2>5. ~(Cardinality(S) > 1)
    BY <2>4
  <2> QED
    BY <2>5, Zenon DEF S
<1> QED
  BY <1>1, Invariance, PTL

=============================================================================
