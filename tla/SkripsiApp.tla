----------------------------- MODULE SkripsiApp -----------------------------
(***************************************************************************)
(* The app: its user, its view models and views, the Firebase clients and  *)
(* the backends, from launch over sign-in and sign-up to logout, through   *)
(* failures and restarts.                                                  *)
(***************************************************************************)
EXTENDS AuthManager

CONSTANTS
  InitDocs,    \* what accounts' documents may hold when the app is installed
  MaxEvents,   \* bound on user actions and token refreshes
  MaxFaults    \* bound on failures, forced sign-outs and restarts

ASSUME MaxQueueAssumption == MaxQueue \in Nat
ASSUME ListenersAssumption == IsFiniteSet(Listeners)

VARIABLES
  events,      \* events left
  faults       \* faults left

bounds == <<events, faults>>
appVars == <<authVars, storeVars, sessionVars, viewVars, flowVars, bounds>>

\* An account has a document or, after an interrupted sign-up, none; nobody
\* else has one.
AppInit ==
  /\ AuthInit
  /\ FlowInit
  /\ StoreInit
  /\ \A u \in Uids : docs[u] \in IF u \in accounts THEN InitDocs ELSE {"missing"}
  /\ stored # None => Uid(stored) \in accounts
  /\ SessionInit
  /\ ViewsInit
  /\ events = MaxEvents
  /\ faults = MaxFaults

Event == events > 0 /\ events' = events - 1 /\ UNCHANGED faults
Fault == faults > 0 /\ faults' = faults - 1 /\ UNCHANGED events
Free == UNCHANGED bounds
\* An outcome costs a fault unless it is good.
Outcome(good) == IF good THEN Free ELSE Fault

Appeared == observers # {}

-----------------------------------------------------------------------------
(* The user.                                                               *)

\* ContentView.onAppear -> SessionViewModel.listen.
Appear(l) ==
  /\ ~Appeared
  /\ Room(1)
  /\ AddListener(l)
  /\ isLoading' = TRUE
  /\ SessionPublished
  /\ Free
  /\ UNCHANGED <<storeVars, flowVars, authUser>>

\* The handles not handed out yet suffice for the listen() of every sign-up.
ListenersLeft ==
  Cardinality({f \in Flows : flow[f].op = "signUp"})
    < Cardinality({l \in Listeners : prev[l] = Unused})

Start(f, op, u) ==
  /\ flow[f] = Done
  /\ flow' = [flow EXCEPT ![f] = [op |-> op, pc |-> "rpc", uid |-> u]]
  /\ Event
  /\ UNCHANGED <<authVars, storeVars, sessionVars, accounts>>

\* "Sign In" with valid fields; the loading card does not cover the button.
TapSignIn(f, u) ==
  /\ Appeared /\ Screen = "signIn"
  /\ Start(f, "signIn", u)
  /\ SignInPublished(TRUE, signInShown \cup {f})

\* "Register" with valid fields.
TapSignUp(f, u) ==
  /\ Appeared /\ Screen = "signUp"
  /\ ListenersLeft
  /\ Start(f, "signUp", u)
  /\ SignUpPublished(TRUE, signUpShown \cup {f})

\* Seeded fault (no part of the specification): logout forgets the user without
\* the Auth client's bookkeeping.
TapLogout_Local(removed) ==
  /\ Screen = "challenges"
  /\ ready /\ user' = None
  /\ IF removed THEN Event ELSE Fault
  /\ UNCHANGED <<stored, ready, notified, observers, prev, mainQ>>
  /\ UNCHANGED <<storeVars, sessionVars, viewVars, flowVars>>

\* "Logout": SessionViewModel.logout, nothing if there is no current user.
TapLogout(removed) ==
  /\ Screen = "challenges"
  /\ Room(1)
  /\ SignOut(removed)
  /\ IF removed THEN Event ELSE Fault
  /\ UNCHANGED <<storeVars, sessionVars, viewVars, flowVars>>

Navigate ==
  /\ Appeared
  /\ OpenSignUp \/ Back
  /\ Free
  /\ UNCHANGED <<authVars, storeVars, sessionVars, flowVars>>

-----------------------------------------------------------------------------
(* The work queue and the backends.                                        *)

Load ==
  \E ok \in BOOLEAN :
    /\ Room(1)
    /\ LoadUser(ok)
    /\ Outcome(ok)
    /\ UNCHANGED <<storeVars, sessionVars, viewVars, flowVars>>

\* A scheduled or requested refresh of the current user's token.
Refresh ==
  \E t \in Tokens, saved \in BOOLEAN :
    /\ Room(1)
    /\ UpdateKeychain(t, saved, <<>>)
    /\ IF saved THEN Event ELSE Fault
    /\ UNCHANGED <<storeVars, sessionVars, viewVars, flowVars>>

\* The backend disowns the current user (disabled, token revoked or expired).
Disown ==
  \E removed \in BOOLEAN :
    /\ Room(1)
    /\ SignOutByForce(removed)
    /\ Fault
    /\ UNCHANGED <<storeVars, sessionVars, viewVars, flowVars>>

RequestStep(f) ==
  /\ Room(2)
  /\ \/ \E t \in Tokens, saved \in BOOLEAN :
          /\ SignInAccepted(f, t, saved) \/ SignUpAccepted(f, t, saved)
          /\ Outcome(saved)
     \/ AccountCreated(f) /\ Free
     \/ RequestFailed(f) /\ Outcome(flow[f].pc = "rpc" /\ Refused(f))
     \/ \E ok \in BOOLEAN : CommitDone(f, ok) /\ Outcome(ok)
  /\ UNCHANGED <<storeVars, sessionVars, viewVars>>

Read(i) ==
  \E res \in Contents \cup {"error"} :
    /\ Room(1)
    /\ ReadDone(i, res)
    /\ Dispatch(ReadCallback(reads[i], res))
    /\ Outcome(res # "error")
    /\ UNCHANGED <<sessionVars, viewVars, flowVars>>

\* Success calls back too, to no effect.
Acknowledge(i) ==
  /\ AckWrite(i)
  /\ Free
  /\ UNCHANGED <<authVars, sessionVars, viewVars, flowVars>>

\* A batch restored from disk has no callback.
Reject(i) ==
  /\ Room(1)
  /\ RejectWrite(i)
  /\ Dispatch(WriteCallback) \/ UNCHANGED authVars
  /\ Fault
  /\ UNCHANGED <<sessionVars, viewVars, flowVars>>

-----------------------------------------------------------------------------
(* The main queue.                                                         *)

\* An auth block: a notification first switches Firestore's user, then both
\* kinds invoke listeners, whose closures run at once.
OnAuthState ==
  /\ RunAuthBlock
  /\ LET switched == IF IsBlock("post") THEN HandleCredentialChange(Head(mainQ).uid)
                                        ELSE fsUser
     IN fsUser' = IF switched = Unused /\ Called # {} /\ user # None
                  THEN Uid(user) ELSE switched
  /\ SessionTold(Called)
  /\ IF PublishesWhenTold(Called) THEN SessionPublished ELSE UNCHANGED viewVars
  /\ UNCHANGED <<docs, writes, flowVars>>

OnSessionFetched ==
  /\ IsBlock("read")
  /\ Head(mainQ).asker = "session"
  /\ SessionFetched(Head(mainQ).doc, Head(mainQ).res)
  /\ IF PublishesWhenFetched(Head(mainQ).res) THEN SessionPublished ELSE UNCHANGED viewVars
  /\ FinishCall
  /\ UNCHANGED <<storeVars, flowVars>>

RunMainBlock ==
  /\ \/ OnAuthState
     \/ OnSessionFetched
     \/ OnSignIn
     \/ OnSignInFetched
     \/ OnSignUp
     \/ \E l \in Listeners : OnCommitted(l)
     \/ OnWriteRejected
  /\ Free

Kill ==
  /\ Restart
  /\ StoreRestart
  /\ isLoading' = FALSE /\ authUser' = None
  /\ nav' = "signIn"
  /\ signInLoading' = FALSE /\ signUpLoading' = FALSE
  /\ signInShown' = {} /\ signUpShown' = {}
  /\ flow' = [f \in Flows |-> Done]
  /\ Fault
  /\ UNCHANGED accounts

-----------------------------------------------------------------------------
AppNext ==
  \/ \E l \in Listeners : Appear(l)
  \/ \E f \in Flows, u \in Uids : TapSignIn(f, u) \/ TapSignUp(f, u)
  \/ \E removed \in BOOLEAN : TapLogout(removed)
  \/ Navigate
  \/ Load \/ Refresh \/ Disown
  \/ \E f \in Flows : RequestStep(f)
  \/ \E i \in 1..Len(reads) : Read(i)
  \/ \E i \in 1..Len(writes) : Acknowledge(i) \/ Reject(i)
  \/ RunMainBlock
  \/ Kill

AppSpec == AppInit /\ [][AppNext]_appVars

\* The run loop runs, the work queue runs, the view appears, and every request
\* to a backend is answered or fails (requests time out).  The user need not do
\* anything.
AppFairness ==
  /\ WF_appVars(RunMainBlock)
  /\ WF_appVars(Load)
  /\ WF_appVars(\E l \in Listeners : Appear(l))
  /\ \A f \in Flows : WF_appVars(RequestStep(f))
  /\ WF_appVars(\E i \in 1..Len(reads) : Read(i))

FairAppSpec == AppSpec /\ AppFairness

-----------------------------------------------------------------------------
(* Properties.                                                             *)

\* The types of the whole state.
AppTypeOK ==
  /\ AuthTypeOK
  /\ StoreTypeOK
  /\ reads \in Seq([doc : Uids, asker : Flows \cup {"session"}])
  /\ isLoading \in BOOLEAN
  /\ authUser \in UserIds
  /\ ViewsTypeOK
  /\ FlowTypeOK

\* The Auth client inside the app behaves as FIRAuth does on its own, so what is
\* proved of FIRAuth holds in the app.
ImplementsFIRAuth == AuthSpec

\* Firestore reads and writes as the current user, except while the notification
\* of a change is still in the main queue.
FirestoreFollowsAuth ==
  fsUser \in {Unused, Uid(user)} \/ PendingPost(mainQ)

\* A session fetch is under way: issued, or its closure waits in the main queue.
Fetching ==
  \/ \E i \in 1..Len(mainQ) : mainQ[i].kind = "read" /\ mainQ[i].asker = "session"
  \/ \E i \in 1..Len(reads) : reads[i].asker = "session"

\* A listener's first call is still to come.
FirstCallPending ==
  \E l \in Listeners : prev[l] = Fresh /\ Pending(mainQ, InitialCall(l))

\* The step runs a session fetch's closure with an outcome in results, for a
\* document in ids.
Fetched(ids, results) ==
  /\ IsBlock("read")
  /\ Head(mainQ).asker = "session"
  /\ Head(mainQ).doc \in ids
  /\ Head(mainQ).res \in results
  /\ mainQ' = Tail(mainQ)

\* A blank screen that nothing under way for the current user will end.  A change
\* of user may, but it may also be coalesced away: a sign-out about to be announced
\* is not, once the same user is back.
Stranded == isLoading /\ ~Fetching /\ ~FirstCallPending

\* The only way to a blank screen that stays is a session fetch that failed or
\* found no document (SessionViewModel.listen leaves isLoading set then): not a
\* race of listeners, sign-ins and sign-outs.
StrandedOnlyByFetch ==
  [][(~Stranded /\ Stranded') => Fetched(Uids, {"error", "missing"})]_appVars

\* The session shows a user who is not the one its listeners were last told of,
\* and no fetch will correct it.  (By NoLostAuthChange that is the current user,
\* or they are about to be told.)
Told == {prev[l] : l \in observers}
ShowsWrongUser == authUser \notin Told \cup {None} /\ ~Fetching

\* The only ways there: a fetch answered after its user was gone (a late answer,
\* of any of the listeners listen() leaked), or a fetch for the right user
\* without a usable document, which leaves the previous user on screen.
WrongUserOnlyByFetch ==
  [][(~ShowsWrongUser /\ ShowsWrongUser')
       => \/ Fetched(Uids \ Told, Contents \cup {"error"})
          \/ Fetched(Told, {"error", "missing", "undecodable"})]_appVars

\* "Signing In..." is shown and no request of the form on screen is under way.
SignInSpins == signInLoading /\ signInShown = {}

\* The only way there is a sign-in whose document is missing or undecodable:
\* AuthManager.signIn then never calls its completion.
SignInSpinsOnlyByFetch ==
  [][(~SignInSpins /\ SignInSpins')
       => /\ IsBlock("read")
          /\ Head(mainQ).asker \in Flows
          /\ Head(mainQ).res \in {"missing", "undecodable"}]_appVars

\* "Registering Account..." is shown and no request of the form is under way.
SignUpSpins == signUpLoading /\ signUpShown = {}

\* The only way there is a user signed out between createUser's success and its
\* callback: AuthManager.signUp then never calls its completion.
SignUpSpinsOnlyBySignOut ==
  [][(~SignUpSpins /\ SignUpSpins')
       => IsBlock("auth") /\ Head(mainQ).ok /\ user = None]_appVars

\* Request f created account u and is on its way to writing the document.
WillWrite(f, u) ==
  /\ flow[f].op = "signUp"
  /\ flow[f].uid = u
  /\ \/ flow[f].pc \in {"created", "commit", "committed"}
     \/ flow[f].pc = "callback" /\ Pending(mainQ, AuthCallback(f, TRUE))

\* Account u exists, its document does not, and nobody will write it.
Orphan(u) ==
  /\ u \in accounts
  /\ docs[u] = "missing"
  /\ \A i \in 1..Len(writes) : writes[i].doc # u
  /\ \A f \in Flows : ~WillWrite(f, u)

\* An account loses its document-to-be only to a kill in mid-sign-up, to a
\* request or keychain failure after the account was created, to a sign-out
\* before the callback, or to the backend rejecting the write.  In particular a
\* failing commitChanges, overlapping requests and changes of user never do.
OrphanOnlyByFault ==
  [][\A u \in Uids : (~Orphan(u) /\ Orphan(u)') =>
       \/ Kill
       \/ \E i \in 1..Len(writes) : Reject(i)
       \/ \E f \in Flows : RequestFailed(f) /\ flow[f].pc = "created"
       \/ \E f \in Flows, t \in Tokens : SignUpAccepted(f, t, FALSE)
       \/ OnSignUp /\ user = None]_appVars

\* A listener was told "no user" before the saved user was loaded: the sign-in
\* form is up while the saved user is about to be signed in.
ToldBeforeLoad == ~ready /\ \E l \in observers : prev[l] = None

\* Only the listener of the first listen() is registered; only one event so far.
OneListener == Cardinality(observers) <= 1
OneEvent == events >= MaxEvents - 1

\* With nothing failing, one listener, one request at a time and the saved user
\* loaded first, the app settles on the right screen: the current user's
\* challenges, or the sign-in form.  No answer can come late then: the session's
\* fetch is issued before the request's own fetch of the same document.
Settles ==
  [](~ToldBeforeLoad /\ OneListener) => <>[](~isLoading /\ authUser = Uid(user))

\* With nothing failing and nothing else going on, a created account ends up on
\* its challenges screen, although the listener told of it first may find no
\* document: the listen() after the write repairs that.
SignUpEntersApp ==
  []OneEvent =>
    \A f \in Flows, u \in Uids :
      (WillWrite(f, u) ~> (~isLoading /\ authUser = u /\ Uid(user) = u))

=============================================================================
