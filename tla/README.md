# SkripsiSKW: a TLA+ model of the session and of the clients it rests on

SkripsiSKW is an iOS app in SwiftUI. At this commit its own logic is the
session: registering with e-mail and password, signing in, showing the signed-in
user's screen, logging out. Accounts are in Firebase Auth, the user's profile is
a document `Users/<uid>` in Firestore. The difficulty is that every operation
crosses several queues and two services, and that the code that reacts to a
change (listeners, completions) runs later, in another order than the changes.

These modules model the app together with the parts of the two Firebase clients
(under `SkripsiSKW/Pods`) it depends on. Paths below are relative to
`SkripsiSKW/` of the repository.

## Inventory

| component | state | operations | interacts through |
|---|---|---|---|
| Auth client: `Pods/FirebaseAuth/.../FIRAuth.m`, `FIRUser.m`, `FIRSecureTokenService.m` | `_currentUser`, `_lastNotifiedUserToken`, the saved user in the keychain, listeners; refresh timers, `_autoRefreshScheduled`, `_isAppInBackground`, token fetches | launch (load), sign in, create user, sign out, forced sign-out, refresh/save of the current user, add/remove listener; get token, timer, retry, background, foreground | serial work queue; blocks on the main queue; `NSNotificationCenter` |
| Firestore client: `Pods/FirebaseFirestore/Firestore/core/src` | credentials (user, token counter); mutation queues (on disk), write pipeline, callbacks; write and watch stream; online state; targets, views, listeners | `getDocument`, `setData`, change of credentials; stream start, back-off, idling, failure; answers of the backend | auth notification; token callbacks; its own worker queue; callbacks on the main queue |
| `SessionViewModel` | `isLoading`, `authUser`, a listener handle | `listen`, listener closure, fetch closure, `logout`, `unbind` | auth listener; `getDocument`; observed by `ContentView` |
| `AuthManager` | none of its own; each request is a chain of closures | `signUp`, `signIn` | Auth and Firestore calls, completion closures |
| `SignUpViewModel`, `SignInViewModel` | fields, messages, `isLoading` | `signUp`, `signIn`, `validateValue` | `AuthManager`; observed by their views |
| `ContentView`, `SignInView`, `SignUpView`, `ChallengesView` | which screen, navigation stack | buttons, links, `onAppear` | the view models |
| `Validator` | none | two checks of texts | the view models |
| `User`, `Decodable+Ext`, `Encodable+Ext` | none | document to/from `User` | session and sign-in closures |

What is hard here: sign-ins, sign-outs, forced sign-outs and refreshes on the work
queue against the main queue, where they are announced later; closures that
publish the answer to a question asked for an earlier user; overlapping requests
(the loading card does not block the buttons); failures in the middle of sign-up;
being killed in the middle of anything; view models replaced while their request
is under way. Below the app: a token fetched across three queues while users come
and go; writes sent again after a failure whose answer was lost; answers that name
no request; listens, removals and messages of earlier listens that cross on one
stream; timers that race what they wait for. The hazards are listed with their lines in `PROJECT.json`.

## Modules

| module | models |
|---|---|
| `AuthState` | abstract: what `addAuthStateDidChangeListener` promises, namely current user ID, who is registered, what each listener was told last |
| `FIRAuth` | the Auth client: keychain, current user, announced token, listeners, main queue |
| `FIRAuth_proofs` | theorems about `FIRAuth` |
| `UsersCollection` | the Firestore client on user documents (extends `FIRAuth`) |
| `SessionViewModel` | the session's published state and what its closures do to it |
| `Views` | screens, navigation, the form view models on screen |
| `AuthManager` | the two callback chains, per request |
| `SkripsiApp` | the composition: user, work queue, backends, main queue, restart |
| `SkripsiApp_proofs` | theorems about `SkripsiApp` (extends `FIRAuth_proofs`) |
| `Validator` | the checks of both forms, on texts as sequences of characters |
| `SignUpForm`, `SignInForm` | the two form view models: edits, taps, completions |
| `Validator_proofs`, `SignUpForm_proofs`, `SignInForm_proofs` | lemmas about the checks and theorems about the forms |
| `TokenRefresh` | the automatic token refresh (extends `FIRAuth`) |
| `TokenRefresh_proofs` | theorems about `TokenRefresh` |
| `Stream` | the life of a Firestore stream, as operators on a record |
| `CredentialsProvider` | which user Firestore is told of and how a stream gets its token (extends `FIRAuth`) |
| `WriteQueue` | abstract: per-user queues of writes, finished in order |
| `WriteStream` | mutation queues, write pipeline and write stream (extends `CredentialsProvider` and `Stream`; implements `WriteQueue`) |
| `WriteStream_proofs` | theorems about `WriteStream` |
| `WatchStream` | `getDocument` through the watch stream, the online state and the views (extends `Stream`) |
| `WatchStream_proofs` | theorems about `WatchStream` |
| `MC_*` | instances for TLC |

Each module of the app extends the one before, in the order of the table from
`FIRAuth` to `SkripsiApp`. Those in between define the *effects* of closures;
`SkripsiApp` has the actions. The forms stand by themselves: the session model
takes "a tap with valid fields" as its input and the form models say when that
is. `UsersCollection` is what the app sees of Firestore; `WriteStream` and
`WatchStream` open it up, each with its own half of the client, because their
product is out of TLC's reach. They meet in `RestartNetwork`, which both have: a
change of user restarts both streams. What `UsersCollection` takes for granted of
writes (one queue per user that outlives the process, finished from the front) is
`WriteQueue`, which `WriteStream` is shown to implement; that a read is answered,
in the end and once, is `AnsweredUnlessMiscounted` (with the exception of finding 3)
and `OneCallback` of `WatchStream`.

### How state corresponds to the code

* A signed-in user is represented by its **ID token**. The code compares tokens to
  decide whether to notify (`FIRAuth.m:1694`) and user IDs to decide whether to
  call a listener (`FIRAuth.m:1377`); `UidOf` says whose token it is. Several
  tokens of one user model refreshes.
* `mainQ` is the main dispatch queue, in order. A `"post"` block posts the
  notification, an `"init"` block is a listener's first invocation, the others are
  callbacks of the app's requests (`Calls`). Each action of the main thread takes
  one block and runs the whole closure: the listener closure with its
  `getDocument` calls, or the completion with what it publishes.
* `prev[l]` merges `firstInvocation` and `previousUserID`: `Fresh` until the first
  invocation, `Unused` before the handle exists.
* `stored` is the keychain entry, `writes` Firestore's mutation queues (owner and
  document); both survive `Kill`. Everything else restarts.
* `flow[f]` is the call a request of `AuthManager` waits for. Its completions are
  closures of the view model that started it; `signInShown` and `signUpShown` are
  the requests whose view model is still the one on screen.
* A document is `"missing"`, `"user"` (decodes) or `"undecodable"`; a fetch yields
  that or `"error"`.

* In `TokenRefresh` a timer is the token, delay and retry flag its block captured;
  equal timers are counted. `tasks` are the token fetches. The timer's block and the
  foreground handler are two steps each, since they race on two flags without a lock.
* In `CredentialsProvider` `fetches` are token requests on Auth's work queue, and
  `workQ` Firestore's worker queue with the operations the main queue enqueues. A
  token is the user it names.
* A stream is a record with `state_`, `close_count_` and the idle timer. A failed
  `HARD_ASSERT` makes its field `ok` false. `sent` and `received` are the two
  directions of the gRPC call; a back-off in progress is the state `Backoff`.
* In `WriteStream` `queue` is what is on disk; `pipeline` is `write_pipeline_`. In
  `WatchStream` the whole state of the worker queue is one record, `client`, since
  one operation of it passes through six classes; the operators on it have the names
  of the methods.

### Abstractions

* A notification reaches all listeners in one step. In the code the user may change
  between two of them; the change then posts another notification, which the
  model has too.
* `_currentUser` read on the main thread without the work queue
  (`FIRAuth.m:1410`) is a data race; it is modelled as a read of the value before
  or after, i.e. atomically.
* Sign-in (verify the password, fetch the account) is one step at its end, since
  nothing is changed before; sign-up is two, because the backend has the account
  after the first. `commitChanges` is one step with its final save; the saves
  during it are `Refresh` steps.
* The backend applying a write and the client hearing of it are one step. `setData`
  overwrites, so a lost acknowledgement followed by a retry changes nothing.
* Time is left out everywhere: a timer that is set may fire at any moment.
* The backend of the streams is external: it handles the requests of a stream in
  order, answers each, and sends a snapshot only when all its targets are current.
  It answers a refused listen request by the error alone.
* gRPC keeps the order of messages. When a client write fails, the answers not yet
  handed on are lost (`grpc_stream.cc:218-252`); `OnWriteFailed` has that.
* A document is its version. Mutations are `setData`, which overwrite.
* Access groups, tenants and other sign-in providers, which the app does not use,
  are left out.
* SwiftUI decides when bodies are evaluated and whether a popped navigation stack is
  kept; where the app's code leaves that open the model allows both.
* The definitions called "seeded fault" are used by no specification. They are
  variants of the definition that follows them, each with one plausible
  mistake; putting one in the place of its original makes the run named in
  `PROJECT.json` fail, which shows that the property is not vacuous.

## What TLC checks

Deadlock is not checked in the runs of `SkripsiApp`, `WriteStream` and
`WatchStream`: when the bounded events are used up and the queues are empty, they
stop. The other models never stop.

| run | property | says |
|---|---|---|
| `auth` | `NoLostAuthChange` | a registered listener knows the current user, or a block that will tell it is queued |
| | `AnnouncedIsCurrent` | the announced token belongs to the current user, also after failed saves |
| | `LastPostIsCurrent` | the last queued notification carries the current user ID |
| | `SignedInIsPersisted` | the signed-in user is the one the next launch finds |
| | `KeepsPromise` | `FIRAuth` implements `AuthState` with its fairness |
| | `AuthTypeOK` | types |
| `auth_signout_doc` | `SignOutIsAnnounced` | *violated*: see Findings |
| `app_safety` | `FirestoreFollowsAuth` | Firestore acts as the current user unless a notification is queued |
| | `SignInSpinsOnlyByFetch` | "Signing In..." stays only through a missing or undecodable document |
| | `SignUpSpinsOnlyBySignOut` | "Registering Account..." stays only through a sign-out before the callback |
| | `OrphanOnlyByFault` | an account loses its document-to-be only in the five ways the property names |
| | `StrandedOnlyByFetch` | the screen stays blank only through a session fetch that failed or found nothing |
| | `WrongUserOnlyByFetch` | a wrong user stays on screen only through a late or useless session fetch |
| `app_live` | `Settles` | without failures, overlap or leaked listeners the app settles on the right screen |
| | `SignUpEntersApp` | an undisturbed sign-up ends on the new user's screen |
| | `ImplementsFIRAuth` | the client inside the app is `FIRAuth`, so its theorems apply to the app |
| | `AppTypeOK` | types |
| `signup_form` | `RequestsAreValid` | what is submitted is valid, whatever was edited since |
| | `SignUpImpliesSignIn` | what can be registered can be signed in with |
| | `OneMessage` | two messages at once only through the answer to an earlier request |
| `signin_form` | `RequestsAreValid` | what is submitted is valid, although an answer may have emptied the form |
| | `LoadingTellsRequests` | the loading card is wrong only after an unanswered request or among several |
| | `OneMessage` | two messages at once only when a late error meets a later tap |
| `token_refresh` | `FlagIsTrue` | while `_autoRefreshScheduled` is set, a timer for the announced token is pending |
| | `RefreshGoesOn` | in the foreground the refreshes of a signed-in user never die out |
| | `TypeOK` | types |
| `write_safety` | `SentAsOwner` | no batch is sent under another user's token |
| | `TokenFitsUser` | a token under way names the user Firestore will act as when it arrives |
| | `NoWriteLost` | a write stays queued until the backend applied or refused it |
| | `AckedSurvives` | what was acknowledged was applied, and is not overwritten by an older write sent again |
| | `CallbackIsOwn` | a waiting callback belongs to the batch pending under its ID |
| | `NoAssertFails` | no `HARD_ASSERT` fails |
| | `KeepsOrder` | `WriteStream` implements `WriteQueue` |
| | `TypeOK` | types |
| `write_finish` | `WritesFinish` | a write of a user who stays is finished in the end |
| `write_rejected` | `RejectedWasRefused` | *violated*: see Findings |
| `watch` | `LayersAgree` | event manager, sync engine and remote store agree on what is listened to |
| | `OneCallback` | the callback of `getDocument` is called once |
| | `NoAssertFails` | no `HARD_ASSERT` fails |
| | `SyncedIsFresh` | a synced snapshot is no older than the document was when listening began, unless the aggregator lost count |
| | `NoLimbo` | document queries never need limbo resolution, with the same exception |
| | `AnsweredUnlessMiscounted` | every read is answered in the end unless a late refusal was not counted |
| `watch_refused` | `ReadsAreAnswered` | *violated*: see Findings |

The "only by" properties are action properties: they name every step that can lead
into a bad state. The bad states are real. The app has no documentation
saying they are excluded, so the properties delimit them instead: any change to
the code that opens another way into one is caught. What they show, in words:

* After a logout or a second sign-in, the answer to the previous user's fetch puts
  that user back on screen (`SessionViewModel.swift:39`). If nobody is signed in
  then, the Logout button does nothing.
* A session fetch that fails, or finds no document, leaves a blank screen until
  the next launch or a change of user (`SessionViewModel.swift:31-36`). Even a
  sign-out that is about to be announced need not end it: if the same user is back
  before the main queue gets to it, nobody is told.
* `AuthManager.signIn` never calls its completion for a missing or undecodable
  document (`AuthManager.swift:72-75`).
* `AuthManager.signUp` goes on after a failed `commitChanges`
  (`AuthManager.swift:34`). That looks like a forgotten `return`, but with the
  `return` the account would be left without a document
  (`OnCommitted_Return` violates `OrphanOnlyByFault`).
* `Settles` needs the assumption that no listener is told "no user" before the saved
  user is loaded. Otherwise the sign-in form is up during the load, and a sign-in
  then races it.

### Findings

Each of these has a run of its own; the lines are quoted in `PROJECT.json`.

1. `FIRAuth.h:747-751`: a listener is "To be invoked when [...] The current user has
   signed out." The block posted for a sign-out reads the current user when it
   runs. If the same user has signed in again by then, no listener is called.
2. `remote_store.cc:513`: a permanent error is charged to the first batch of the
   pipeline. When the status of a later batch overtakes the answers before it, that
   first batch has been applied; its caller is told it failed.
3. `FIRDocumentReference.h:211` says when `getDocument` may fail. The refusal of a
   target that is no longer listened to is ignored (`remote_store.cc:356`), and not
   counted as the answer to its request. The next read of the document over this
   stream waits for one answer too many, and is never answered unless the stream
   restarts. In the app: a session fetch that is removed while its refusal is under
   way makes the next fetch of the same document hang.

   A refusal of a target that *is* listened to also leaves the count wrong, the other
   way: `ProcessTargetError` erases the target's state, and with it the count of
   answers still due to other requests for the document. When it is listened to again on this
   stream, an answer to an older request ends the waiting, and messages for the older
   listen are taken for the new one. It takes four reads of a document and two
   refusals, more than `watch` has; the proof of `SyncedIsFresh` brought it up. The
   history variable `lost` collects the documents for which the aggregator has ever
   waited for fewer answers than were due (`Due`). `SyncedIsFresh` and `NoLimbo` are
   about the others, as `AnsweredUnlessMiscounted` is about reads while the two
   numbers agree.

Three more disagreements came up while modelling; the properties are stated so as to
leave room for them:

* `FIRAuth.h:54` calls the listener's argument "the current signed in user, if any."
  The first invocation reads `_currentUser` without waiting for the work queue to
  load the saved user, and may say nil for a user who is about to be signed in.
  `Settles` excludes that case (`ToldBeforeLoad`).
* `FIRAuth.m:1808`: a timer that finds another token takes it that another refresh
  is scheduled. A token that was fetched but could not be saved is not announced
  and has none. The flag stays set, so coming to the foreground does not help.
  `FlagIsTrue` and `RefreshGoesOn` are about announced tokens for this reason.
* `online_state_tracker.cc:47`: the client is said not to wait indefinitely for a
  connection. A read that starts while the stream of an earlier one is backing off
  has no timeout: `StopListening` cleared it and `Listen` sets none. It is answered
  when that stream opens or fails, which `AnsweredUnlessMiscounted` relies on.

### Bounds

| bound | value | why it is enough |
|---|---|---|
| users, tokens | 2 users; 3 tokens, or one each | a change of user needs two; a refresh without a change of user needs two tokens of one user. The app's own code never looks at tokens, so `app_safety` has one each |
| listeners | 2 | a leaked one and a current one |
| `MaxQueue` | 5 (`FIRAuth`; 4 in `auth_signout_doc`); 8 (app) | two pending notifications, both first calls and a callback. The app never fills its queue |
| requests (`Flows`) | 2; 1 in `app_live` | overlap needs two |
| `MaxEvents` | 2 (`app_safety`), 4 (`app_live`) | taps that start something, logouts, refreshes: a user may be signed in from the start, so that two suffice for log out and sign in as another, and for two requests that overlap. The properties of `app_safety` are also proved for every bound |
| `MaxFaults` | 1; 0 in `app_live` | one failure, forced sign-out or kill at any point; with more, the properties that name faults say the same |
| documents at the start | "user", "undecodable" | a missing one is that of an account being created, or one whose write was rejected |
| `MaxRequests` (forms) | 2 | an earlier and a later tap |
| texts | addresses of up to 2 (sign-in: 3) characters over `@` and another, passwords of 0, 7, 8 and 8 others (sign-in: none and two others) | every branch of the checks and both sides of the limit |
| `TokenRefresh` | 3 tokens; `MaxWait` 1, one timer of each kind, 2 fetches | a refresh and a change of session; the first delay and the limit (proved for all); a client's fetch and a timer's at once |
| `write_safety` | 1 user, who may be saved, and nobody, who has a mutation queue too; 1 change besides the load, 3 writes, pipeline 3, 1 failure or restart | a token fetched for one and delivered to the other; an answer lost because a later write was refused, with a third under way; IDs used again |
| `write_finish` | 1 user, 2 writes, pipeline 1 | a full pipeline: one write waits for the other |
| `write_rejected` | 1 user, 3 writes, pipeline 3 | a refusal behind an answer, with a write still under way |
| `watch` | 2 reads of one document, 1 change of it, 1 refusal, failure or restart | listen, stop and listen again with answers of the first under way |

`MaxPipeline` is 10 in the code. `kMaxWatchStreamFailures` is kept at 1. The safety
properties of `watch` were also checked once with two documents (4.3 million
states), which is too slow together with liveness.

`ListenersLeft` keeps a sign-up from starting when no handle is left for its
`listen()`, which would otherwise block the main queue.

In the app requests, listeners and (with one token each) users are interchangeable; symmetry
is used only for invariants and action properties, never with fairness.

### Fairness

* The main run loop takes the next block (`RunMainBlock`, `RunAuthBlock \/ RunCall`):
  the main thread never blocks for good.
* The work queue runs its start-up block (`Load`); the view appears (`Appear`).
* Every request and read ends, possibly with an error: the network layer times out.
* Nothing is assumed of the user, of refreshes, faults, or of the write being
  acknowledged (offline it may never be; reads see it all the same).
* `WriteStream` and `WatchStream` (`FairSpec`): the queues, the back-off timer and (for
  reads) the online-state timer go on; a token fetch ends with a token or an error; a
  backend that is connected answers. Failures are bounded by `MaxFaults`: with
  failures for ever no write need finish. The idle timer need not fire. For the
  writes fairness of the three main-queue, worker-queue and stream actions is
  separate because they are separate queues or callbacks.
* `TokenRefresh` has no fairness: `RefreshGoesOn` says, as an invariant, that the next
  refresh is always pending or under way. In the background nothing need be.

## What is proved

`FIRAuth_proofs` proves, for every set of users, tokens, listeners and callbacks
and every queue bound (from the four named assumptions of `FIRAuth`: each token
names a user, the special values are no users, and the app's callbacks are told
apart from notifications):

* `Invariance`: `AuthSpec => []AuthInv`, and from it `TypeCorrect`,
  `NoLostAuthChangeHolds`, `SignedInIsPersistedHolds`, `LastPostIsCurrentHolds`,
  `AnnouncedIsCurrentHolds`;
* `ImplementsAuthState`: `AuthSpec => Promise!Spec`, the safety part of
  `KeepsPromise`.

`NoLostAuthChange` is not inductive. That the token comparison in
`possiblyPostAuthStateChangeNotification` swallows no change of user depends on
`AnnouncedIsCurrent`: if the announced token equals the new one, the user ID did
not change and what listeners know is still right. `SignedInIsPersisted` is not
needed for that, but shares the case analysis. `HandlesInUse` (only handles that
were handed out are registered or queued) is needed to map a block's execution to
`AuthState`'s `Tell`. `AuthInv` is their conjunction with the types. The lemma
`ChangeUser` does the work once for every step that sets the current user and
posts (load, sign-in, sign-out, refresh); `CallsFacts`, `AppendFacts` and
`TailFacts` say what the queue operations keep.

`SkripsiApp_proofs` proves, for every set of requests, too, and every bound, from
four more assumptions (`AppCallsAssumption`: the callbacks in the main queue are
the app's; `SessionAssumption`: the session is not the name of a request;
`MaxQueueAssumption`; `ListenersAssumption`: there are finitely many listener
handles):

* `AppInvariance`: `AppSpec => []AppInv`, and from it `AppTypeCorrect` and
  `FirestoreFollowsAuthHolds`;
* `ImplementsFIRAuthHolds`: `AppSpec => AuthSpec`, so that the theorems above hold
  of the client inside the app; `AppNoLostAuthChange` draws the first of them;
* `RequestInvariance`: `AppSpec => []RequestInv`, and from it the five action
  properties: `SignInSpinsOnlyByFetchHolds`, `SignUpSpinsOnlyBySignOutHolds`,
  `StrandedOnlyByFetchHolds`, `WrongUserOnlyByFetchHolds`, `OrphanOnlyByFaultHolds`.

`AppInv` is `AuthInv`, the types of the other components and
`FirestoreFollowsAuth`. `OutsideStep` says what a step outside the main queue does
to the Auth client: a work-queue step, one more listener, a dispatched callback, or
nothing. That Firestore has the right user once no notification is queued rests
on two facts about the client. A work-queue step that changes the user ID leaves a
notification behind (`WorkAnnounces`, from `AnnouncedIsCurrent`). A notification
carries the user ID of its time, which may be outdated when it is delivered; the
last one is not (`LastPostIsCurrent`). The types need the finiteness of the
listeners because a notification makes every listener it invokes fetch.

The action properties need more than the types. `RequestInv` adds `FlowPart`: for
each request at most one thing is under way, a callback in the main queue or a read,
and it is the one the request's state names; and `ShownPart`: a form shows requests
of its kind, none of which is over. Without the first, a second callback could end a
request that the form still waits for, or run `OnSignUp` for a failure while the
successful callback is still queued (`OrphanOnlyByFault`). Each step is reduced to
what it does to the main queue: it grows (`Grown`, `JoinedGrows`), or its first block
runs (`RunPasses`); `PassedWaits` carries what a request waits for over both.
`SessionStep` sorts the steps by what they do to the session: what is under way goes
on, a listener is added, a fetch is issued, the session is emptied, or a fetch is
answered. Only the last can strand it or show a wrong user.

`TokenRefresh_proofs` proves, for any tokens, timers, delays and number of fetches,
from `MaxWaitAssumption` (there is a largest delay) and `NoTimerAssumption` (nil is
no timer): `RefreshInvariance`, `RefreshTypeCorrect`, `FlagIsTrueHolds`,
`RefreshGoesOnHolds`, and through `FIRAuth`'s invariant `RefreshKeepsListeners`.
The two properties are inductive only together with four facts. A new token differs from every
token the client holds (`KnownTokens`); nothing of the refresh happens before somebody
asked for a token (`OnlyWhenOn`); the two halves of a timer's block see the same token,
since they are one block of the work queue (`FiringIsCurrent`); and a fetch that the
current user object started is for its user ID (`MineIsCurrent`).

`WriteStream_proofs` proves every safety property of `WriteStream`, for any users,
tokens, writes, faults and pipeline length (from the assumptions of `FIRAuth`,
`TokenSentinels`: a failed or unanswered fetch has no user ID, and
`MaxPipelineAssumption`): `WriteInvariance`, `WriteTypeCorrect`,
`TokenFitsUserHolds`, `SentAsOwnerHolds`, `NoAssertFailsHolds`, `NoWriteLostHolds`,
`AckedSurvivesHolds`, `CallbackIsOwnHolds`, and the refinement `KeepsOrderHolds`:
`Spec => KeepsOrder`. `WriteInv` has `AuthInv` and six parts:

* `TokenPart` follows a token over three queues. A token with the current counter that
  no notification precedes is the provider's user's (`FetchFits`, `AnswerFits`); a
  token in the worker queue names the user Firestore acts as once the operations before
  it have run (`WorkFits`). `TokenFitsUser` is a consequence; it is not inductive, as it
  says nothing of the time before the answer is delivered.
* `AsksPart`: the token for one start of the stream, i.e. for one close count, is
  asked for once, and is in one place. Otherwise a late second answer would resume a
  stream that is not starting, an assertion failure.
* `QueuePart`: the pipeline is the front of the current user's queue on disk, and IDs
  and write numbers rise along each queue; the next ID is beyond all of them.
* `RunPart`: `Initialize` is the first operation, and nothing is sent before it ran.
* `StreamPart`: an open stream is the current user's, and after the handshake the
  answers received and the batches sent are together exactly the pipeline, in order.
  So the answer, which names no batch, is about the front.
* `BackendPart`: an answer tells what the backend did, and what is acknowledged is older
  than what is pending. The latter makes a batch that is sent again harmless
  (`AckedSurvives`).

The refinement maps each queue to the numbers of its writes. That a queue's
`Remove` is `Tail` there needs `IsFront` (`RemoveQueue`). `HasLeast`, from the
library's well-foundedness theorem, gives the next ID after a restart.

`WatchStream_proofs` proves every safety property of `WatchStream`, for any documents,
reads, changes, refusals, failures and restarts, from `WatchAssumption` alone (that
no version is the mark of a document not known). The proof has two layers.

`BaseInvariance` (`BaseInv`): the types; `StreamPart`, which ties the stream's state to
the close counts of the tokens asked for and to what may be on the way; `TrackerPart`,
the online state's timer and failures; `Agree`, the three layers; and `ReadPart`, what
each read has queued, is listening to, and was told. It gives `LayersAlwaysAgree`,
`AssertsHold` and `CalledBackOnce`. `ReadPart` is what `OneCallback` lacks: an error is
the last event of a read, a read listens once, and one whose callback ran is muted.
For every operator on the client a `...Fields` lemma says what it changes;
for every action a `...Step` lemma says that it preserves `BaseInv` and what it amounts
to for the documents (`Ended`, `Rests`, `Resumed`, `Listened`, `Unlistened`).

`WatchInvariance` (`WatchInv`) adds `FreshInv`, which holds of each document by itself
(`FreshAt`) and gives `SyncedViewsAreFresh` and `NoLimboEver`:

* `Ordered`: versions rise from the cache over the aggregator and the messages on
  the way to the document itself, and since listening began it had at least
  version `since`;
* `Resumable`: a resume token never names a version that is not in the cache with the
  target's keys, whether it is kept by the client or on its way in a request;
* `Counted`: the aggregator waits for no fewer answers than are due (`Due`: requests
  on the way, and answers on the way back);
* `Served`, `Knows`: the last request for a target that is listened to is to watch it;
  and what the backend believes the client to have is in the cache, the
  aggregator, or a message that the aggregator will take (`Reaches`);
* `Told`: so is the version a snapshot on the way claims, at the place it has in the
  stream; messages before an answer to be counted do not matter, since they are
  ignored;
* `Applicable`, `FreshView`: an update that waits reaches a synced view, which is
  the property itself.

`Knows` says nothing while a request for the document is on its way, and `Told`
nothing of a snapshot with an answer behind it: such a snapshot comes while the
aggregator still waits and ignores it. That is why a miscount breaks the properties,
and why the exception (`lost`) is needed. `AnswersAppend` and `AnswersTail` count
answers in the stream; the sections "A message is read" and "The backend sends a
message" shift the parts by one message at its two ends. The lemmas `...Keys` put one
action's parts together.

`SignUpForm_proofs` and `SignInForm_proofs` prove every property of the two forms, for
texts over any alphabet, of any length, and for any number of overlapping requests,
from `ValuesAssumption` (what can be typed is a set of texts containing the empty
one) alone. The inductive invariants say that each request under way carries values
that passed `validateValue`, that messages are those some check or answer can leave
together, and (sign-in) what the loading flag means. `RequestsAreValid` speaks of
characters, the code of an order of checks; `Validator_proofs` bridges them once:
`FirstFailureFact` (the result is "valid" only if every check passed), `SignInFact` and
`SignUpFact` (what that says of each field), `SignInAccepts` (what signs up can sign
in), and `RemoveFact` (a request taken out leaves the others as they were).

The inductive invariants were checked with TLC before they were proved.

Only model-checked: liveness (`KeepsPromise`'s fairness, `Settles`,
`SignUpEntersApp`, `WritesFinish`, `AnsweredUnlessMiscounted`), which is beyond TLAPS'
fragment. Every invariant and every safety property of steps that a run checks is
stated by a theorem.

## Not modelled

* Layout and colours; the empty test templates.
* The other pods: gRPC, BoringSSL, abseil, leveldb, nanopb, the Google utilities, with
  generated tables and certificates. They make up nearly all lines of the repository
  and are third-party code that the app's logic meets only as "a message arrives, is
  lost, is persisted"; so these modules stand for a small share of the lines.
* Of Auth: other sign-in providers, e-mail actions, access groups and tenants, which the
  app does not use. Of Firestore: collection queries, transactions, bundles, cache
  eviction, limbo resolution (`NoLimbo` shows that it does not arise for documents) and
  serialization.
* How `User` becomes a dictionary and back is Foundation's JSON coding, code outside the
  repository; whether a document decodes is an input of the model.
* `unbind`: the session model is created once, with the app, and goes with it.

## Plan

1. (done) `AuthState`, `FIRAuth`, its proofs; Firestore, session, views, manager,
   their composition; validators and the sign-up form.
2. (done) The automatic token refresh; the credentials provider, the write and the watch
   stream, with `WriteQueue`; the sign-in form; proofs about both forms.
3. (done) Proofs about `TokenRefresh`, `WriteStream` with its refinement of `WriteQueue`,
   the action properties of the app, and `WatchStream`.
4. To come: an abstract specification of a read (asked; told at most once, of a version
   that is current at some time after it was asked, of what is cached, or of an error)
   that `WatchStream` implements as `WriteStream` implements `WriteQueue`; with it, that the reads
   of `UsersCollection` are those of `WatchStream`.
