-------------------------- MODULE SignInForm_proofs --------------------------
(***************************************************************************)
(* Proofs about the sign-in form for any texts and any number of requests. *)
(***************************************************************************)
EXTENDS SignInForm, Validator_proofs

Requests == [values : [Fields -> Texts], pc : {"account", "document"}]

\* The inductive invariant, in three parts: texts are texts and requests passed the
\* checks; the history tells how flag and requests came apart; the message below
\* the password is its own.
RequestsInv ==
  /\ fields \in [Fields -> Texts]
  /\ requests \in Seq(Requests)
  /\ \A i \in 1..Len(requests) :
       SignInValidate(requests[i].values.email, requests[i].values.password) = "valid"

MessagesInv ==
  /\ DOMAIN messages = Fields
  /\ messages["password"] \in {"", "password empty"}
  /\ messages["email"] # "" /\ messages["password"] # "" => messages["email"] = "server"

FormInv == RequestsInv /\ LoadingTellsRequests /\ MessagesInv

\* The two fields of the form, spelled out.
LEMMA FieldsFact == Fields = {"email", "password"} /\ NoTexts \in [Fields -> Texts]
<1>1. Fields = {"email", "password"}
  BY ValuesAssumption DEF Fields
<1>2. <<>> \in Texts
  BY DEF Texts
<1> QED
  BY <1>1, <1>2 DEF NoTexts

\* The empty form.
LEMMA InitInv == Init => FormInv
<1> SUFFICES ASSUME Init PROVE FormInv
  OBVIOUS
<1>1. RequestsInv
  BY FieldsFact DEF Init, RequestsInv
<1>2. LoadingTellsRequests
  BY DEF Init, LoadingTellsRequests
<1>3. MessagesInv
  BY FieldsFact DEF Init, MessagesInv, NoMessages
<1> QED
  BY <1>1, <1>2, <1>3 DEF FormInv

\* A request leaves.
LEMMA RemoveInv ==
  ASSUME RequestsInv, NEW i \in 1..Len(requests), RemoveRequest(i),
         fields' \in [Fields -> Texts]
  PROVE  RequestsInv'
<1>1. requests \in Seq(Requests)
  BY DEF RequestsInv
<1>2. /\ requests' \in Seq(Requests)
      /\ \A j \in 1..Len(requests') : \E k \in 1..Len(requests) : requests'[j] = requests[k]
  BY <1>1, RemoveFact, Zenon DEF RemoveRequest
<1>3. ASSUME NEW j \in 1..Len(requests')
      PROVE  SignInValidate(requests'[j].values.email, requests'[j].values.password) = "valid"
  <2>1. PICK k \in 1..Len(requests) : requests'[j] = requests[k]
    BY <1>2
  <2> QED
    BY <2>1 DEF RequestsInv
<1> QED
  BY <1>2, <1>3 DEF RequestsInv

\* An answer arrives.
LEMMA CompletionInv ==
  ASSUME FormInv, NEW i \in 1..Len(requests), NEW error \in BOOLEAN,
         RemoveRequest(i), completion(error)
  PROVE  FormInv'
<1>1. fields' \in [Fields -> Texts]
  BY FieldsFact DEF FormInv, RequestsInv, completion
<1>2. RequestsInv'
  BY <1>1, RemoveInv DEF FormInv
<1>3. LoadingTellsRequests'
  BY DEF LoadingTellsRequests, completion
<1>4. MessagesInv'
  BY FieldsFact DEF FormInv, MessagesInv, completion, NoMessages
<1> QED
  BY <1>2, <1>3, <1>4 DEF FormInv

\* The button is tapped.
LEMMA SignInInv == FormInv /\ signIn => FormInv'
<1> SUFFICES ASSUME FormInv, signIn PROVE FormInv'
  OBVIOUS
<1> DEFINE result == SignInValidate(fields.email, fields.password)
<1>1. MessagesInv'
  <2>1. CASE messages' = NoMessages
    BY <2>1, FieldsFact DEF MessagesInv, NoMessages
  <2>2. CASE messages' = [NoMessages EXCEPT !["email"] = result]
    BY <2>2, FieldsFact DEF MessagesInv, NoMessages
  <2>3. CASE messages' = [NoMessages EXCEPT !["password"] = result] /\ result = "password empty"
    BY <2>3, FieldsFact DEF MessagesInv, NoMessages
  <2> QED
    BY <2>1, <2>2, <2>3 DEF signIn, FieldOf
<1>2. CASE result # "valid"
  <2>1. UNCHANGED <<fields, isLoading, requests, unanswered, early>>
    BY <1>2 DEF signIn
  <2> QED
    BY <2>1, <1>1 DEF FormInv, RequestsInv, LoadingTellsRequests
<1>3. CASE result = "valid"
  <2>1. /\ isLoading' = TRUE
        /\ requests' = Append(requests, [values |-> fields, pc |-> "account"])
        /\ fields' = fields
    BY <1>3 DEF signIn
  <2>2. requests \in Seq(Requests) /\ [values |-> fields, pc |-> "account"] \in Requests
    BY DEF FormInv, RequestsInv, Requests
  <2>3. /\ requests' \in Seq(Requests)
        /\ Len(requests') = Len(requests) + 1
        /\ requests'[Len(requests) + 1] = [values |-> fields, pc |-> "account"]
        /\ \A j \in 1..Len(requests) : requests'[j] = requests[j]
    BY <2>1, <2>2
  <2>4. ASSUME NEW j \in 1..Len(requests')
        PROVE  SignInValidate(requests'[j].values.email, requests'[j].values.password) = "valid"
    <3>1. CASE j \in 1..Len(requests)
      BY <3>1, <2>3 DEF FormInv, RequestsInv
    <3>2. CASE j = Len(requests) + 1
      BY <3>2, <2>3, <1>3
    <3> QED
      BY <3>1, <3>2, <2>2, <2>3
  <2>5. RequestsInv'
    BY <2>1, <2>3, <2>4 DEF FormInv, RequestsInv
  <2>6. requests' # <<>>
    BY <2>2, <2>3
  <2>7. LoadingTellsRequests'
    BY <2>1, <2>6 DEF LoadingTellsRequests
  <2> QED
    BY <1>1, <2>5, <2>7 DEF FormInv
<1> QED
  BY <1>2, <1>3

\* Every step keeps the invariant.
LEMMA NextInv == FormInv /\ [Next]_vars => FormInv'
<1> SUFFICES ASSUME FormInv, [Next]_vars PROVE FormInv'
  OBVIOUS
<1>1. ASSUME NEW n \in Fields, Edit(n) PROVE FormInv'
  <2>1. fields' \in [Fields -> Texts]
    BY <1>1, ValuesAssumption DEF Edit, FormInv, RequestsInv, Texts, Fields
  <2> QED
    BY <1>1, <2>1 DEF Edit, FormInv, RequestsInv, LoadingTellsRequests, MessagesInv
<1>2. ASSUME NEW i \in 1..Len(requests), SignedIn(i) PROVE FormInv'
  <2>1. /\ requests \in Seq(Requests)
        /\ requests' = [requests EXCEPT ![i].pc = "document"]
        /\ UNCHANGED <<fields, messages, isLoading, unanswered, early>>
    BY <1>2 DEF SignedIn, FormInv, RequestsInv
  <2>2. requests[i] \in Requests /\ [requests[i] EXCEPT !.pc = "document"] \in Requests
    <3>1. requests[i] \in Requests
      BY <2>1
    <3> QED
      BY <3>1 DEF Requests
  <2>3. /\ requests' \in Seq(Requests)
        /\ Len(requests') = Len(requests)
        /\ \A j \in 1..Len(requests) : requests'[j].values = requests[j].values
    BY <2>1, <2>2 DEF Requests
  <2>4. RequestsInv'
    BY <2>1, <2>3 DEF FormInv, RequestsInv
  <2>5. (requests' = <<>>) <=> (requests = <<>>)
    BY <2>1, <2>3
  <2> QED
    BY <2>1, <2>4, <2>5 DEF FormInv, LoadingTellsRequests, MessagesInv
<1>3. ASSUME NEW i \in 1..Len(requests), NoUserFetched(i) PROVE FormInv'
  <2>1. RequestsInv'
    BY <1>3, RemoveInv DEF NoUserFetched, FormInv, RequestsInv
  <2>2. /\ UNCHANGED <<isLoading, messages, early>>
        /\ unanswered' = TRUE
        /\ requests # <<>>
    BY <1>3 DEF NoUserFetched
  <2> QED
    BY <2>1, <2>2 DEF FormInv, LoadingTellsRequests, MessagesInv
<1>4. CASE signIn
  BY <1>4, SignInInv
<1>5. ASSUME NEW i \in 1..Len(requests), NotSignedIn(i) PROVE FormInv'
  BY <1>5, CompletionInv DEF NotSignedIn
<1>6. ASSUME NEW i \in 1..Len(requests), NEW error \in BOOLEAN, Fetched(i, error) PROVE FormInv'
  BY <1>6, CompletionInv DEF Fetched
<1>7. CASE UNCHANGED vars
  BY <1>7 DEF vars, FormInv, RequestsInv, LoadingTellsRequests, MessagesInv
<1> QED
  BY <1>1, <1>2, <1>3, <1>4, <1>5, <1>6, <1>7 DEF Next

\* The inductive invariant holds throughout.
THEOREM Invariance == Spec => []FormInv
BY InitInv, NextInv, PTL DEF Spec

\* SignInViewModel.signIn sends only what validateValue accepted, whatever an
\* earlier request's completion has done to the form meanwhile.
THEOREM RequestsAreValidHolds == Spec => []RequestsAreValid
<1>1. FormInv => RequestsAreValid
  <2> SUFFICES ASSUME FormInv, NEW i \in 1..Len(requests)
               PROVE  LET v == requests[i].values
                      IN  /\ v.password # <<>>
                          /\ \E k \in 2..Len(v.email) : v.email[k] = "@"
                          /\ v.email[1] # "@"
    BY DEF RequestsAreValid
  <2> DEFINE v == requests[i].values
  <2>0. requests[i] \in Requests
    BY DEF FormInv, RequestsInv
  <2>1. v.email \in Texts /\ v.password \in Texts
    BY <2>0, FieldsFact DEF Requests
  <2>2. SignInValidate(v.email, v.password) = "valid"
    BY DEF FormInv, RequestsInv
  <2>3. ~isEmpty(v.password) /\ checkEmailAuthenticity(v.email)
    BY <2>1, <2>2, SignInFact
  <2>4. v.password # <<>>
    BY <2>3 DEF isEmpty
  <2> QED
    BY <2>1, <2>3, <2>4, EmailFact
<1> QED
  BY <1>1, Invariance, PTL

\* The loading card is wrong only after an unanswered request or among several.
THEOREM LoadingTellsRequestsHolds == Spec => []LoadingTellsRequests
<1>1. FormInv => LoadingTellsRequests
  BY DEF FormInv
<1> QED
  BY <1>1, Invariance, PTL

\* Both messages stand only when a late error met a later tap.
THEOREM OneMessageHolds == Spec => []OneMessage
<1>1. FormInv => OneMessage
  BY FieldsFact DEF FormInv, MessagesInv, OneMessage
<1> QED
  BY <1>1, Invariance, PTL

=============================================================================
