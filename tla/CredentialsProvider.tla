------------------------ MODULE CredentialsProvider ------------------------
(***************************************************************************)
(* Firestore's view of the Auth client                                     *)
(* (firebase_credentials_provider_apple.mm, firestore_client.cc): which    *)
(* user it is told of, and how a stream gets a token for that user.        *)
(*                                                                         *)
(* Three serial queues take part.  Auth's work queue changes the user and  *)
(* fetches tokens; the main queue runs notifications and token callbacks   *)
(* in the order they were dispatched; Firestore's worker queue runs what   *)
(* those enqueue.  A token is represented by the user ID it names.         *)
(***************************************************************************)
EXTENDS FIRAuth

CONSTANTS
  Failed,      \* in place of a user ID: no token, an error
  Unasked,     \* in place of a user ID: the work queue has not looked yet
  MaxEvents    \* bound on changes of user or token

ASSUME TokenSentinels == Failed \notin UserIds /\ Unasked \notin UserIds \cup {Failed}

VARIABLES
  up,            \* the Firestore client has been created
  current_user,  \* the provider's user
  token_counter, \* how many notifications it has seen
  fetches,       \* token requests on Auth's work queue
  workQ,         \* operations enqueued on Firestore's worker queue, in order
  events         \* changes of user or token so far

providerVars == <<up, current_user, token_counter, fetches, workQ, events>>

\* A token request of the stream whose close count was c, and its answer.
Request(uid, c) == [uid |-> uid, counter |-> token_counter, close |-> c]
Answered(f, uid) == [kind |-> "token", uid |-> uid, counter |-> f.counter, close |-> f.close]

\* An operation of the worker queue.
Op(op, uid, c) == [op |-> op, uid |-> uid, close |-> c]

Fetches == [uid : UserIds \cup {Unasked}, counter : Nat, close : Nat]
Operations == [op : {"initialize", "credential", "resume", "write"},
               uid : UserIds \cup {Failed}, close : Nat]

ProviderInit ==
  /\ up = FALSE
  /\ current_user = None
  /\ token_counter = 0
  /\ fetches = {}
  /\ workQ = <<>>
  /\ events = 0

-----------------------------------------------------------------------------
(* Auth's work queue.  Keychain failures change no user ID and notify      *)
(* nobody; FIRAuth covers them.                                            *)

LoadSaved(ok) ==
  /\ Room(1)
  /\ LoadUser(ok)
  /\ UNCHANGED providerVars

\* Bound: at most MaxEvents changes.
ChangeUser ==
  /\ Room(1)
  /\ events < MaxEvents
  /\ events' = events + 1
  /\ \/ \E t \in Tokens : CompleteSignIn(t, TRUE, <<>>)
     \/ SignOut(TRUE)
     \/ \E t \in Tokens : UpdateKeychain(t, TRUE, <<>>)
  /\ UNCHANGED <<up, current_user, token_counter, fetches, workQ>>

\* The answer to f is dispatched to the main queue.  Bound: its counters are among
\* those of Calls.
Deliver(f, uid) ==
  /\ Room(1)
  /\ Answered(f, uid) \in Calls
  /\ fetches' = fetches \ {f}
  /\ Dispatch(Answered(f, uid))

\* The block of getTokenForcingRefresh looks at the current user; without one it
\* answers at once.
BeginFetch(f) ==
  /\ ready
  /\ f \in fetches
  /\ f.uid = Unasked
  /\ \/ /\ user # None
        /\ fetches' = (fetches \ {f}) \cup {[f EXCEPT !.uid = Uid(user)]}
        /\ UNCHANGED authVars
     \/ /\ user = None
        /\ Deliver(f, None)
  /\ UNCHANGED <<up, current_user, token_counter, workQ, events>>

\* The token service answers with a token of the user it was asked for, or fails.
EndFetch(f, uid) ==
  /\ f \in fetches
  /\ f.uid # Unasked
  /\ uid \in {f.uid, Failed}
  /\ Deliver(f, uid)
  /\ UNCHANGED <<up, current_user, token_counter, workQ, events>>

-----------------------------------------------------------------------------
(* The main queue.                                                         *)

\* The Firestore client is created: the provider reads the user ID at that moment,
\* and Initialize is the first operation of the worker queue.
CreateClient ==
  /\ ~up
  /\ up' = TRUE
  /\ current_user' = Uid(user)
  /\ workQ' = <<Op("initialize", Uid(user), 0)>>
  /\ UNCHANGED <<authVars, token_counter, fetches, events>>

\* The provider's observer of a notification.
OnAuthStateDidChange ==
  /\ RunAuthBlock
  /\ \/ /\ up
        /\ current_user' = Head(mainQ).uid
        /\ token_counter' = token_counter + 1
        /\ workQ' = Append(workQ, Op("credential", Head(mainQ).uid, 0))
     \/ /\ ~up
        /\ UNCHANGED <<current_user, token_counter, workQ>>
  /\ UNCHANGED <<up, fetches, events>>

\* Seeded fault (no part of the specification): notifications are not looked for.
OnToken_AnyCounter ==
  /\ mainQ # <<>>
  /\ Head(mainQ).kind = "token"
  /\ mainQ' = Tail(mainQ)
  /\ workQ' = Append(workQ, Op("resume", Head(mainQ).uid, Head(mainQ).close))
  /\ UNCHANGED <<stored, ready, user, notified, observers, prev,
                 up, current_user, token_counter, fetches, events>>

\* get_token_callback: after a notification the answer may be for another user,
\* and the token is asked for again; else the stream gets it on the worker queue.
OnToken ==
  /\ mainQ # <<>>
  /\ Head(mainQ).kind = "token"
  /\ mainQ' = Tail(mainQ)
  /\ \/ /\ Head(mainQ).counter # token_counter
        /\ fetches' = fetches \cup {Request(Unasked, Head(mainQ).close)}
        /\ UNCHANGED workQ
     \/ /\ Head(mainQ).counter = token_counter
        /\ workQ' = Append(workQ, Op("resume", Head(mainQ).uid, Head(mainQ).close))
        /\ UNCHANGED fetches
  /\ UNCHANGED <<stored, ready, user, notified, observers, prev,
                 up, current_user, token_counter, events>>

\* The process is killed and launched again.
ProviderRestart ==
  /\ Restart
  /\ up' = FALSE
  /\ current_user' = None
  /\ token_counter' = 0
  /\ fetches' = {}
  /\ workQ' = <<>>
  /\ UNCHANGED events

=============================================================================
