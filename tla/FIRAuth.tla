------------------------------- MODULE FIRAuth -------------------------------
(***************************************************************************)
(* The Firebase Auth client as the app uses it (FIRAuth.m, FIRUser.m): one *)
(* current user, mirrored in the keychain, changed on a serial work queue, *)
(* and announced to listeners on the main queue.                           *)
(*                                                                         *)
(* A signed-in FIRUser is represented by its ID token: the code compares   *)
(* raw tokens to decide whether to notify, and user IDs to decide whether  *)
(* a listener is called.  A token is a JWT that names its user, so it      *)
(* determines the user ID (UidOf).  Tokens may be issued more than once.   *)
(*                                                                         *)
(* Main-queue blocks are records: "post" (an auth-state notification),     *)
(* "init" (the first invocation of a listener), and the blocks of clients, *)
(* which this module only orders (Calls).                                  *)
(***************************************************************************)
EXTENDS Naturals, Sequences

CONSTANTS
  Uids,        \* user IDs
  Tokens,      \* ID tokens
  UidOf,       \* the user ID a token names
  Listeners,   \* listener handles
  Calls,       \* main-queue blocks dispatched for clients
  None,        \* nil: no user
  Fresh,       \* a registered listener that was never invoked
  Unused,      \* a handle not handed out yet
  MaxQueue     \* bound on the length of the main queue

ASSUME UidOfAssumption == UidOf \in [Tokens -> Uids]
ASSUME NoneAssumption == None \notin Tokens \cup Uids
ASSUME SentinelAssumption == /\ Fresh \notin Uids \cup {None}
                             /\ Unused \notin Uids \cup {None, Fresh}
ASSUME CallsAssumption == \A c \in Calls : c.kind \notin {"post", "init"}

VARIABLES
  stored,      \* the user in the keychain; survives a restart
  ready,       \* the start-up block of the work queue has run
  user,        \* _currentUser
  notified,    \* _lastNotifiedUserToken
  observers,   \* handles registered with the notification center
  prev,        \* per handle: previousUserID, Fresh while firstInvocation
  mainQ        \* blocks dispatched to the main queue, in order

authVars == <<stored, ready, user, notified, observers, prev, mainQ>>

Users == Tokens \cup {None}
UserIds == Uids \cup {None}

Uid(u) == IF u = None THEN None ELSE UidOf[u]

\* Seeded fault (no part of the specification): the user ID is read before the
\* user is changed.
Post_Early(u) == [kind |-> "post", uid |-> Uid(user)]

Post(u) == [kind |-> "post", uid |-> Uid(u)]
InitialCall(l) == [kind |-> "init", listener |-> l]
Blocks == [kind : {"post"}, uid : UserIds]
            \cup [kind : {"init"}, listener : Listeners]
            \cup Calls

\* Bound: at most MaxQueue blocks wait for the main thread.
Room(n) == Len(mainQ) + n <= MaxQueue

AuthInit ==
  /\ stored \in Users
  /\ ready = FALSE
  /\ user = None
  /\ notified = None
  /\ observers = {}
  /\ prev = [l \in Listeners |-> Unused]
  /\ mainQ = <<>>

-----------------------------------------------------------------------------
(* The work queue.                                                         *)

\* Seeded fault (no part of the specification): nothing is posted for nil.
PossiblyPost_SkipNil(u, calls) ==
  /\ notified' = u
  /\ mainQ' = (IF notified = u \/ u = None THEN mainQ ELSE Append(mainQ, Post(u))) \o calls

\* Seeded fault (no part of the specification): nil is not recorded as announced.
PossiblyPost_KeepToken(u, calls) ==
  /\ notified' = IF u = None THEN notified ELSE u
  /\ mainQ' = (IF notified = u THEN mainQ ELSE Append(mainQ, Post(u))) \o calls

\* Seeded fault (no part of the specification): the user ID is recorded instead
\* of the token.
PossiblyPost_Uid(u, calls) ==
  /\ notified' = Uid(u)
  /\ mainQ' = (IF notified = u THEN mainQ ELSE Append(mainQ, Post(u))) \o calls

\* possiblyPostAuthStateChangeNotification for a user whose token is u: a
\* notification is dispatched only if the token is not the one announced last.
\* The calls are dispatched after it.
PossiblyPost(u, calls) ==
  /\ notified' = u
  /\ mainQ' = (IF notified = u THEN mainQ ELSE Append(mainQ, Post(u))) \o calls

\* Seeded fault (no part of the specification): a failed save is ignored.
UpdateCurrentUser_Unsaved(u, force, saved, calls) ==
  /\ stored' = IF saved THEN u ELSE stored
  /\ user' = u
  /\ PossiblyPost(u, calls)

\* updateCurrentUser:byForce:savingToDisk: for a user that is not current.
\* `saved` is the result of the keychain operation.
UpdateCurrentUser(u, force, saved, calls) ==
  /\ stored' = IF saved THEN u ELSE stored
  /\ \/ /\ saved \/ force
        /\ user' = u
        /\ PossiblyPost(u, calls)
     \/ /\ ~(saved \/ force)
        /\ mainQ' = mainQ \o calls
        /\ UNCHANGED <<user, notified>>

\* The block initWithAPIKey queues: read the saved user.  On a keychain error
\* the client goes on with no user.
LoadUser(ok) ==
  /\ ~ready
  /\ ready' = TRUE
  /\ \/ /\ ok
        /\ user' = stored
        /\ PossiblyPost(stored, <<>>)
     \/ /\ ~ok
        /\ UNCHANGED <<user, notified, mainQ>>
  /\ UNCHANGED <<stored, observers, prev>>

\* The end of a sign-in or createUser request: the decorated callback makes t's
\* user current, then dispatches the client's callback, if there is one.
CompleteSignIn(t, saved, calls) ==
  /\ ready
  /\ UpdateCurrentUser(t, FALSE, saved, calls)
  /\ UNCHANGED <<ready, observers, prev>>

\* signOut: nothing happens when there is no current user.
SignOut(removed) ==
  /\ ready
  /\ user # None
  /\ UpdateCurrentUser(None, FALSE, removed, <<>>)
  /\ UNCHANGED <<ready, observers, prev>>

\* signOutIfTokenIsInvalid: the backend disowned the current user's token; the
\* user is dropped even if the keychain entry cannot be removed.
SignOutByForce(removed) ==
  /\ ready
  /\ user # None
  /\ UpdateCurrentUser(None, TRUE, removed, <<>>)
  /\ UNCHANGED <<ready, observers, prev>>

\* updateKeychainWithUser for the current user, after its token or profile was
\* refreshed.  The user object holds the new token even if saving it fails.  The
\* calls are dispatched afterwards.
UpdateKeychain(t, saved, calls) ==
  /\ ready
  /\ user # None
  /\ Uid(t) = Uid(user)
  /\ user' = t
  /\ \/ /\ saved
        /\ stored' = t
        /\ PossiblyPost(t, calls)
     \/ /\ ~saved
        /\ mainQ' = mainQ \o calls
        /\ UNCHANGED <<stored, notified>>
  /\ UNCHANGED <<ready, observers, prev>>

-----------------------------------------------------------------------------
(* The main thread.                                                        *)

\* Seeded fault (no part of the specification): no first call is dispatched.
AddListenerTo_NoCall(q, l) ==
  /\ prev[l] = Unused
  /\ observers' = observers \cup {l}
  /\ prev' = [prev EXCEPT ![l] = Fresh]
  /\ mainQ' = q

\* addAuthStateDidChangeListener, called while the main queue is q.
AddListenerTo(q, l) ==
  /\ prev[l] = Unused
  /\ observers' = observers \cup {l}
  /\ prev' = [prev EXCEPT ![l] = Fresh]
  /\ mainQ' = Append(q, InitialCall(l))

AddListener(l) ==
  /\ AddListenerTo(mainQ, l)
  /\ UNCHANGED <<stored, ready, user, notified>>

\* removeAuthStateDidChangeListener: an "init" block already dispatched stays.
RemoveListener(l) ==
  /\ l \in observers
  /\ observers' = observers \ {l}
  /\ UNCHANGED <<stored, ready, user, notified, prev, mainQ>>

\* The handlers the head block invokes when the current user is read as u, and
\* those among them that get past firstInvocation/previousUserID.
Invoked == IF Head(mainQ).kind = "post" THEN observers ELSE {Head(mainQ).listener}
Called == {l \in Invoked : prev[l] # Uid(user)}

\* One auth block of the main queue.  A notification reaches every observer
\* registered now; both kinds of block read the current user when they run.
RunAuthBlock ==
  /\ mainQ # <<>>
  /\ Head(mainQ).kind \in {"post", "init"}
  /\ prev' = [l \in Listeners |-> IF l \in Invoked THEN Uid(user) ELSE prev[l]]
  /\ mainQ' = Tail(mainQ)
  /\ UNCHANGED <<stored, ready, user, notified, observers>>

\* One client block of the main queue runs; its code may register a listener.
FinishCall ==
  /\ mainQ # <<>>
  /\ Head(mainQ).kind \notin {"post", "init"}
  /\ mainQ' = Tail(mainQ)
  /\ UNCHANGED <<stored, ready, user, notified, observers, prev>>

FinishCallAndListen(l) ==
  /\ mainQ # <<>>
  /\ Head(mainQ).kind \notin {"post", "init"}
  /\ AddListenerTo(Tail(mainQ), l)
  /\ UNCHANGED <<stored, ready, user, notified>>

RunCall == FinishCall \/ \E l \in Listeners : FinishCallAndListen(l)

\* A block dispatched to the main queue for a client.
Dispatch(c) ==
  /\ mainQ' = Append(mainQ, c)
  /\ UNCHANGED <<stored, ready, user, notified, observers, prev>>

\* The process is killed and launched again: only the keychain is left.
Restart ==
  /\ ready' = FALSE
  /\ user' = None
  /\ notified' = None
  /\ observers' = {}
  /\ prev' = [l \in Listeners |-> Unused]
  /\ mainQ' = <<>>
  /\ UNCHANGED stored

-----------------------------------------------------------------------------
WorkStep ==
  \E b \in BOOLEAN :
    \/ Room(1) /\ LoadUser(b)
    \/ \E t \in Tokens : Room(1) /\ CompleteSignIn(t, b, <<>>)
    \/ \E t \in Tokens, c \in Calls : Room(2) /\ CompleteSignIn(t, b, <<c>>)
    \/ Room(1) /\ SignOut(b)
    \/ Room(1) /\ SignOutByForce(b)
    \/ \E t \in Tokens : Room(1) /\ UpdateKeychain(t, b, <<>>)
    \/ \E t \in Tokens, c \in Calls : Room(2) /\ UpdateKeychain(t, b, <<c>>)

MainStep ==
  \/ \E l \in Listeners : Room(1) /\ AddListener(l)
  \/ \E l \in Listeners : RemoveListener(l)
  \/ RunAuthBlock
  \/ RunCall

AuthNext ==
  \/ WorkStep
  \/ MainStep
  \/ \E c \in Calls : Room(1) /\ Dispatch(c)
  \/ Restart

AuthSpec == AuthInit /\ [][AuthNext]_authVars

\* The main run loop keeps taking blocks and the work queue runs its start-up
\* block.  Nothing is assumed of the user, the network or the system.
AuthFairness ==
  /\ WF_authVars(RunAuthBlock \/ RunCall)
  /\ WF_authVars(\E b \in BOOLEAN : Room(1) /\ LoadUser(b))

FairAuthSpec == AuthSpec /\ AuthFairness

-----------------------------------------------------------------------------
(* Properties.                                                             *)

\* The user ID and what listeners were told, as AuthState sees them.
Promise == INSTANCE AuthState
             WITH current <- Uid(user), registered <- observers, told <- prev

\* The client keeps its promise to listeners: every step of the keychain, token
\* and queue machinery is a step of AuthState or changes nothing it can see, and
\* under a live main run loop an out-of-date listener is eventually invoked.
KeepsPromise == Promise!FairSpec

\* The types of the client's state.
AuthTypeOK ==
  /\ stored \in Users
  /\ ready \in BOOLEAN
  /\ user \in Users
  /\ notified \in Users
  /\ observers \subseteq Listeners
  /\ prev \in [Listeners -> UserIds \cup {Fresh, Unused}]
  /\ mainQ \in Seq(Blocks)

\* Facts about a main queue q: block b waits in it, a notification waits in it,
\* the last notification in it (if any) carries uid.
Pending(q, b) == \E i \in 1..Len(q) : q[i] = b
PendingPost(q) == \E i \in 1..Len(q) : q[i].kind = "post"
PostsEndWith(q, uid) ==
  \A i \in 1..Len(q) :
    (q[i].kind = "post" /\ \A j \in i+1..Len(q) : q[j].kind # "post") => q[i].uid = uid

\* No listener misses an auth change for good: the last user ID a registered
\* listener was told is the current one, or a block that will tell it again is
\* still in the main queue (the token comparison in
\* possiblyPostAuthStateChangeNotification never swallows a change of user).
NoLostAuthChange ==
  \A l \in observers : \/ prev[l] = Uid(user)
                       \/ PendingPost(mainQ)
                       \/ Pending(mainQ, InitialCall(l))

\* The token announced last belongs to the current user, even after a refreshed
\* token could not be saved and was never announced.
AnnouncedIsCurrent == Uid(notified) = Uid(user)

\* Notifications carry the user ID of the moment they were posted, for internal
\* observers such as Firestore.  However many are queued, the last one carries
\* the current user ID, so those observers end up with it too.
LastPostIsCurrent == PostsEndWith(mainQ, Uid(user))

\* Whoever is signed in is the user the next launch finds in the keychain: no
\* sign-in takes effect unsaved, and no failed save leaves another user's entry.
SignedInIsPersisted == user # None => Uid(stored) = Uid(user)

\* Only handles that were handed out are registered or wait for their first call.
HandlesInUse ==
  /\ \A l \in observers : prev[l] # Unused
  /\ \A i \in 1..Len(mainQ) :
       mainQ[i].kind = "init" => prev[mainQ[i].listener] # Unused

\* FIRAuth.h on addAuthStateDidChangeListener: the block is "To be invoked when
\* [...] The current user has signed out."  So a registered listener that knows
\* of a user is told when there is none any more.
SignOutIsAnnounced ==
  \A l \in Listeners :
    (ready /\ user = None /\ l \in observers /\ prev[l] \in Uids)
      ~> (l \notin observers \/ prev[l] = None)

=============================================================================
