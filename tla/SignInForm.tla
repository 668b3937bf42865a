----------------------------- MODULE SignInForm -----------------------------
(***************************************************************************)
(* SignInViewModel and the sign-in form.  The card shown while a request   *)
(* is under way does not cover the form: the user goes on editing and may  *)
(* tap Sign In again, and each answer that arrives changes the same flag,  *)
(* messages and texts.  (Views has the replacement of the view model.)     *)
(***************************************************************************)
EXTENDS Validator

CONSTANTS
  Values,       \* per field, the texts the user may enter
  MaxRequests   \* bound on requests under way

ASSUME ValuesAssumption ==
  /\ DOMAIN Values = {"email", "password"}
  /\ \A n \in DOMAIN Values : Values[n] \subseteq Seq(STRING)

VARIABLES
  fields,       \* the texts in the form
  messages,     \* per field: the message below it, "" if none
  isLoading,
  requests,     \* each request under way: its values, and the call it waits for
  unanswered,   \* history: a request ended without an answer since isLoading was reset
  early         \* history: isLoading was reset while another request was under way

vars == <<fields, messages, isLoading, requests, unanswered, early>>

Fields == DOMAIN Values
NoMessages == [n \in Fields |-> ""]
NoTexts == [n \in Fields |-> <<>>]

FieldOf(message) == IF message = "password empty" THEN "password" ELSE "email"

Init ==
  /\ fields = NoTexts
  /\ messages = NoMessages
  /\ isLoading = FALSE
  /\ requests = <<>>
  /\ unanswered = FALSE
  /\ early = FALSE

Edit(n) ==
  /\ \E text \in Values[n] : fields' = [fields EXCEPT ![n] = text]
  /\ UNCHANGED <<messages, isLoading, requests, unanswered, early>>

\* SignInViewModel.signIn: clear the messages, validate, start a request.
signIn ==
  LET result == SignInValidate(fields.email, fields.password) IN
  \/ /\ result # "valid"
     /\ messages' = [NoMessages EXCEPT ![FieldOf(result)] = result]
     /\ UNCHANGED <<fields, isLoading, requests, unanswered, early>>
  \/ /\ result = "valid"
     /\ Len(requests) < MaxRequests
     /\ messages' = NoMessages
     /\ isLoading' = TRUE
     /\ requests' = Append(requests, [values |-> fields, pc |-> "account"])
     /\ early' = FALSE
     /\ UNCHANGED <<fields, unanswered>>

RemoveRequest(i) ==
  requests' = SubSeq(requests, 1, i - 1) \o SubSeq(requests, i + 1, Len(requests))

\* Seeded fault (no part of the specification): the flag is reset only on success.
completion_ErrorLoading(error) ==
  /\ unanswered' = FALSE
  /\ early' = (requests' # <<>>)
  /\ isLoading' = (isLoading /\ error)
  /\ messages' = IF error THEN [messages EXCEPT !["email"] = "server"] ELSE NoMessages
  /\ fields' = IF error THEN fields ELSE NoTexts

\* Seeded fault (no part of the specification): the error goes below the password.
completion_BelowPassword(error) ==
  /\ isLoading' = FALSE
  /\ unanswered' = FALSE
  /\ early' = (requests' # <<>>)
  /\ messages' = IF error THEN [messages EXCEPT !["password"] = "server"] ELSE NoMessages
  /\ fields' = IF error THEN fields ELSE NoTexts

\* The closure signIn passes to AuthManager: an error is shown below the address; a
\* success empties the form, whatever has been typed meanwhile.
completion(error) ==
  /\ isLoading' = FALSE
  /\ unanswered' = FALSE
  /\ early' = (requests' # <<>>)
  /\ messages' = IF error THEN [messages EXCEPT !["email"] = "server"] ELSE NoMessages
  /\ fields' = IF error THEN fields ELSE NoTexts

\* Auth.signIn fails, or succeeds and the user's document is fetched.
NotSignedIn(i) ==
  /\ requests[i].pc = "account"
  /\ RemoveRequest(i)
  /\ completion(TRUE)

SignedIn(i) ==
  /\ requests[i].pc = "account"
  /\ requests' = [requests EXCEPT ![i].pc = "document"]
  /\ UNCHANGED <<fields, messages, isLoading, unanswered, early>>

\* The fetch fails or finds the user; a missing or undecodable document is never
\* answered.
Fetched(i, error) ==
  /\ requests[i].pc = "document"
  /\ RemoveRequest(i)
  /\ completion(error)

NoUserFetched(i) ==
  /\ requests[i].pc = "document"
  /\ RemoveRequest(i)
  /\ unanswered' = TRUE
  /\ UNCHANGED <<fields, messages, isLoading, early>>

Next ==
  \/ \E n \in Fields : Edit(n)
  \/ signIn
  \/ \E i \in 1..Len(requests) :
       \/ NotSignedIn(i)
       \/ SignedIn(i)
       \/ \E error \in BOOLEAN : Fetched(i, error)
       \/ NoUserFetched(i)

Spec == Init /\ [][Next]_vars

-----------------------------------------------------------------------------
\* Every request under way was valid when the button was tapped, although an
\* answer may have emptied or marked the form at any time before or after.
RequestsAreValid ==
  \A i \in 1..Len(requests) :
    LET v == requests[i].values IN
    /\ v.password # <<>>
    /\ \E k \in 2..Len(v.email) : v.email[k] = "@"
    /\ v.email[1] # "@"

\* The loading card tells whether a request is under way, with two exceptions: it
\* stays when the user's document was missing or undecodable, and it goes too
\* early when one of several requests is answered.
LoadingTellsRequests ==
  /\ isLoading /\ requests = <<>> => unanswered
  /\ ~isLoading /\ requests # <<>> => early

\* Both messages stand only when the error of an earlier request came after a
\* later tap with an empty password.
OneMessage ==
  (\A n \in Fields : messages[n] # "") =>
    messages["email"] = "server" /\ messages["password"] = "password empty"

=============================================================================
