----------------------------- MODULE SignUpForm -----------------------------
(***************************************************************************)
(* SignUpViewModel and the sign-up form: the user edits fields and taps    *)
(* Register at any time, also while a request is under way; requests carry *)
(* the values of the moment of the tap.                                    *)
(***************************************************************************)
EXTENDS Validator, FiniteSets

CONSTANTS
  Values,       \* per field, the texts the user may enter
  MaxRequests   \* bound on requests under way

ASSUME ValuesAssumption ==
  /\ DOMAIN Values = {"firstName", "lastName", "username", "email", "password",
                      "confirmPassword"}
  /\ \A n \in DOMAIN Values : Values[n] \subseteq Seq(STRING)

VARIABLES
  fields,       \* the texts in the form
  messages,     \* per field: the message below it, "" if none
  isLoading,
  requests      \* each request under way: its values, and what is being written

vars == <<fields, messages, isLoading, requests>>

Fields == DOMAIN Values
NoMessages == [n \in Fields |-> ""]

\* The field below which a validation message is shown.
FieldOf(message) ==
  CASE message = "first name empty" -> "firstName"
    [] message = "last name empty" -> "lastName"
    [] message = "username empty" -> "username"
    [] message \in {"email empty", "email without @"} -> "email"
    [] message \in {"password empty", "password short"} -> "password"
    [] message \in {"confirmation empty", "mismatch"} -> "confirmPassword"

Init ==
  /\ fields = [n \in Fields |-> <<>>]
  /\ messages = NoMessages
  /\ isLoading = FALSE
  /\ requests = <<>>

\* The bindings of the form fields.
Edit(n) ==
  /\ \E text \in Values[n] : fields' = [fields EXCEPT ![n] = text]
  /\ UNCHANGED <<messages, isLoading, requests>>

\* Seeded fault (no part of the specification): old messages are not cleared.
signUp_KeepMessages ==
  LET result == SignUpValidate(fields) IN
  \/ /\ result # "valid"
     /\ messages' = [messages EXCEPT ![FieldOf(result)] = result]
     /\ UNCHANGED <<fields, isLoading, requests>>
  \/ /\ result = "valid"
     /\ Len(requests) < MaxRequests
     /\ isLoading' = TRUE
     /\ requests' = Append(requests, [values |-> fields, pc |-> "account"])
     /\ UNCHANGED <<fields, messages>>

\* SignUpViewModel.signUp: clear the messages, validate, start a request.
signUp ==
  LET result == SignUpValidate(fields) IN
  \/ /\ result # "valid"
     /\ messages' = [NoMessages EXCEPT ![FieldOf(result)] = result]
     /\ UNCHANGED <<fields, isLoading, requests>>
  \/ /\ result = "valid"
     /\ Len(requests) < MaxRequests
     /\ messages' = NoMessages
     /\ isLoading' = TRUE
     /\ requests' = Append(requests, [values |-> fields, pc |-> "account"])
     /\ UNCHANGED fields

\* The closure signUp passes to AuthManager, called once for each answer: an
\* error is shown below the confirmation; a success also dismisses the form.
completion(error) ==
  /\ isLoading' = FALSE
  /\ messages' = IF error THEN [messages EXCEPT !["confirmPassword"] = "server"] ELSE messages
  /\ UNCHANGED fields

RemoveRequest(i) ==
  requests' = SubSeq(requests, 1, i - 1) \o SubSeq(requests, i + 1, Len(requests))

\* The account cannot be created; or it was, and nobody is signed in any more.
NotCreated(i) ==
  /\ requests[i].pc = "account"
  /\ completion(TRUE)
  /\ RemoveRequest(i)

Abandoned(i) ==
  /\ requests[i].pc = "account"
  /\ RemoveRequest(i)
  /\ UNCHANGED <<fields, messages, isLoading>>

\* The display name is set or not: the completion is called with that error, if
\* any, and then with success, and the document is being written.
Committed(i, error) ==
  /\ requests[i].pc = "account"
  /\ completion(error)
  /\ requests' = [requests EXCEPT ![i].pc = "document"]

\* The write ends; only its failure calls the completion, once more.
Written(i, error) ==
  /\ requests[i].pc = "document"
  /\ IF error THEN completion(TRUE) ELSE UNCHANGED <<fields, messages, isLoading>>
  /\ RemoveRequest(i)

Next ==
  \/ \E n \in Fields : Edit(n)
  \/ signUp
  \/ \E i \in 1..Len(requests) :
       \/ NotCreated(i)
       \/ Abandoned(i)
       \/ \E error \in BOOLEAN : Committed(i, error) \/ Written(i, error)

Spec == Init /\ [][Next]_vars

-----------------------------------------------------------------------------
\* What a request must satisfy, whatever is in the form by now: every field is
\* filled in, the address has a "@" after its first character, the two passwords
\* agree and have at least 8 characters.
RequestsAreValid ==
  \A i \in 1..Len(requests) :
    LET v == requests[i].values IN
    /\ \A n \in Fields : v[n] # <<>>
    /\ \E k \in 2..Len(v.email) : v.email[k] = "@"
    /\ v.email[1] # "@"
    /\ v.password = v.confirmPassword
    /\ Len(v.password) >= 8

\* Whatever the sign-up form accepts, the sign-in form accepts: an account made
\* here can be signed in to there.
SignUpImpliesSignIn ==
  SignUpValidate(fields) = "valid" => SignInValidate(fields.email, fields.password) = "valid"

\* Two messages stand side by side only when the answer to an earlier request
\* came after a later tap had failed validation.
OneMessage ==
  Cardinality({n \in Fields : messages[n] # ""}) > 1 => messages["confirmPassword"] = "server"

=============================================================================
