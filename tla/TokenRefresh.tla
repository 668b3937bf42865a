---------------------------- MODULE TokenRefresh ----------------------------
(***************************************************************************)
(* The automatic token refresh of the Auth client (FIRAuth.m, FIRUser.m,   *)
(* FIRSecureTokenService.m): once somebody has asked for a token, every    *)
(* announced token gets a timer; the timer forces a refresh, whose new     *)
(* token is announced and gets a timer in turn, and a failed refresh is    *)
(* tried again after a delay that doubles.                                 *)
(*                                                                         *)
(* Everything but the two app notifications runs on the work queue.  A     *)
(* timer's block clears the flag and reads _isAppInBackground, and the     *)
(* foreground handler writes _isAppInBackground and reads the flag on the  *)
(* main thread: both are two steps here.  Time is left out: a pending      *)
(* timer may fire at any moment.  Delays count minutes; 0 stands for "five *)
(* minutes before the token expires".                                      *)
(*                                                                         *)
(* Token fetches of one FIRUser run one after the other.  A fetch outlives *)
(* the session it belongs to; `mine` says whether its FIRUser is still the *)
(* current one.  Callbacks of clients change nothing here and are left     *)
(* out.  Backend tokens carry their time of issue, so none comes twice.    *)
(***************************************************************************)
EXTENDS FIRAuth

CONSTANTS
  MaxWait,     \* kMaxWaitTimeForBackoff
  MaxTimers,   \* bound on equal timers pending at once
  MaxTasks     \* bound on token fetches under way

ASSUME MaxWaitAssumption == MaxWait \in Nat \ {0}

VARIABLES
  auto,        \* _autoRefreshTokens
  scheduled,   \* _autoRefreshScheduled
  background,  \* _isAppInBackground
  waking,      \* the foreground handler is between its two halves
  timers,      \* how many timers of each kind are pending
  firing,      \* the timer whose block is between its two halves, or None
  tasks,       \* token fetches, oldest first
  issued,      \* tokens the backend has issued
  settled      \* history: the last forced refresh of the current token brought nothing new

refreshVars == <<auto, scheduled, background, waking, timers, firing, tasks, issued, settled>>
vars == <<authVars, refreshVars>>

Timers == [token : Tokens, delay : 0..MaxWait, retry : BOOLEAN]
Tasks == [mine : BOOLEAN, uid : Uids, timer : Timers \cup {None}]

ASSUME NoTimerAssumption == None \notin Timers

Init ==
  /\ AuthInit
  /\ auto = FALSE
  /\ scheduled = FALSE
  /\ background = FALSE
  /\ waking = FALSE
  /\ timers = [tm \in Timers |-> 0]
  /\ firing = None
  /\ tasks = <<>>
  /\ issued = {stored} \ {None}
  /\ settled = FALSE

TimerFor(t) == \E tm \in Timers : tm.token = t /\ timers[tm] > 0

-----------------------------------------------------------------------------
(* Scheduling.                                                             *)

\* scheduleAutoTokenRefreshWithDelay:retry: while t is the current token.
\* Bound: at most MaxTimers equal timers.
ScheduleWithDelay(t, delay, retry) ==
  LET tm == [token |-> t, delay |-> delay, retry |-> retry]
  IN  \/ /\ t = None
         /\ UNCHANGED <<scheduled, timers>>
      \/ /\ t # None
         /\ timers[tm] < MaxTimers
         /\ scheduled' = TRUE
         /\ timers' = [timers EXCEPT ![tm] = @ + 1]

\* scheduleAutoTokenRefresh.
Schedule(t) == ScheduleWithDelay(t, 0, FALSE)

\* The delay after a failed attempt of timer tm.
RetryDelay(tm) ==
  IF ~tm.retry THEN 1 ELSE IF tm.delay * 2 < MaxWait THEN tm.delay * 2 ELSE MaxWait

\* The part of possiblyPostAuthStateChangeNotification that FIRAuth leaves out:
\* the new token gets a timer.
ScheduleIfPosted ==
  IF auto /\ notified' # notified THEN Schedule(user') ELSE UNCHANGED <<scheduled, timers>>

\* History: another token is another story.
Unsettle == settled' = (settled /\ user' = user)

\* A FIRUser object stops being current: its fetches are no longer `mine`.
Disowned(seq) == [i \in DOMAIN seq |-> [seq[i] EXCEPT !.mine = FALSE]]

-----------------------------------------------------------------------------
(* Blocks of the work queue, which runs one block at a time.               *)

LoadSavedUser(ok) ==
  /\ Room(1)
  /\ LoadUser(ok)
  /\ UNCHANGED refreshVars

SignIn(t, saved) ==
  /\ Room(1)
  /\ firing = None
  /\ t \notin issued
  /\ issued' = issued \cup {t}
  /\ CompleteSignIn(t, saved, <<>>)
  /\ ScheduleIfPosted
  /\ IF saved THEN tasks' = Disowned(tasks) ELSE UNCHANGED tasks
  /\ Unsettle
  /\ UNCHANGED <<auto, background, waking, firing>>

UserSignsOut(removed) ==
  /\ Room(1)
  /\ firing = None
  /\ SignOut(removed)
  /\ ScheduleIfPosted
  /\ IF removed THEN tasks' = Disowned(tasks) ELSE UNCHANGED tasks
  /\ Unsettle
  /\ UNCHANGED <<auto, background, waking, firing, issued>>

\* The current user's profile was changed and is saved.
SaveProfile(saved) ==
  /\ Room(1)
  /\ firing = None
  /\ UpdateKeychain(user, saved, <<>>)
  /\ ScheduleIfPosted
  /\ Unsettle
  /\ UNCHANGED <<auto, background, waking, firing, tasks, issued>>

\* Seeded fault (no part of the specification): a token is fetched for nobody.
GetToken_ForNobody ==
  /\ ready
  /\ firing = None
  /\ Len(tasks) < MaxTasks
  /\ auto' = TRUE
  /\ IF auto THEN UNCHANGED <<scheduled, timers>> ELSE Schedule(user)
  /\ tasks' = Append(tasks, [mine |-> TRUE, uid |-> Uid(user), timer |-> None])
  /\ UNCHANGED <<authVars, background, waking, firing, issued, settled>>

\* getTokenForcingRefresh: the first call turns the automatic refresh on.
\* Bound: at most MaxTasks fetches.
GetToken ==
  /\ ready
  /\ firing = None
  /\ Len(tasks) < MaxTasks
  /\ auto' = TRUE
  /\ IF auto THEN UNCHANGED <<scheduled, timers>> ELSE Schedule(user)
  /\ tasks' = IF user = None THEN tasks
              ELSE Append(tasks, [mine |-> TRUE, uid |-> Uid(user), timer |-> None])
  /\ UNCHANGED <<authVars, background, waking, firing, issued, settled>>

\* A timer goes off for a token that is no longer the current one.
FireStale(tm) ==
  /\ firing = None
  /\ timers[tm] > 0
  /\ user # tm.token
  /\ timers' = [timers EXCEPT ![tm] = @ - 1]
  /\ UNCHANGED <<authVars, auto, scheduled, background, waking, firing, tasks, issued, settled>>

\* Seeded fault (no part of the specification): the flag keeps its value.
Fire_FlagStays(tm) ==
  /\ firing = None
  /\ timers[tm] > 0
  /\ user = tm.token
  /\ timers' = [timers EXCEPT ![tm] = @ - 1]
  /\ firing' = tm
  /\ settled' = FALSE
  /\ UNCHANGED <<authVars, auto, scheduled, background, waking, tasks, issued>>

\* A timer goes off for the current token: first half of its block.
Fire(tm) ==
  /\ firing = None
  /\ timers[tm] > 0
  /\ user = tm.token
  /\ timers' = [timers EXCEPT ![tm] = @ - 1]
  /\ scheduled' = FALSE
  /\ firing' = tm
  /\ settled' = FALSE
  /\ UNCHANGED <<authVars, auto, background, waking, tasks, issued>>

\* Second half: nothing is refreshed in the background.
Refresh ==
  /\ firing # None
  /\ firing' = None
  /\ \/ /\ background
        /\ UNCHANGED tasks
     \/ /\ ~background
        /\ Len(tasks) < MaxTasks
        /\ tasks' = Append(tasks, [mine |-> TRUE, uid |-> Uid(user), timer |-> firing])
  /\ UNCHANGED <<authVars, auto, scheduled, background, waking, timers, issued, settled>>

-----------------------------------------------------------------------------
(* Answers of the token service.                                           *)

\* The fetches of one FIRUser run one after the other; those of former users
\* are independent of the current one's.
CanFinish(i) ==
  /\ firing = None
  /\ i \in DOMAIN tasks
  /\ tasks[i].mine => \A j \in 1..i-1 : ~tasks[j].mine

Without(i) == [j \in 1..Len(tasks)-1 |-> IF j < i THEN tasks[j] ELSE tasks[j+1]]

\* Seeded fault (no part of the specification): a retry is not retried.
RetryAfter_Once(i) ==
  IF tasks[i].timer # None /\ Uid(user') = tasks[i].uid /\ ~tasks[i].timer.retry
  THEN ScheduleWithDelay(user', 1, TRUE)
  ELSE UNCHANGED <<scheduled, timers>>

\* The timer's callback after an error: try again, unless the user has changed.
RetryAfter(i) ==
  IF tasks[i].timer # None /\ Uid(user') = tasks[i].uid
  THEN ScheduleWithDelay(user', RetryDelay(tasks[i].timer), TRUE)
  ELSE UNCHANGED <<scheduled, timers>>

\* History: the refresh a timer asked for brought no new token.
Settle(i) ==
  settled' = (settled \/ (tasks[i].mine /\ tasks[i].timer # None))

\* The token is still valid or the backend returned nothing new.
AnswerSame(i) ==
  /\ CanFinish(i)
  /\ tasks' = Without(i)
  /\ Settle(i)
  /\ UNCHANGED <<authVars, auto, scheduled, background, waking, timers, firing, issued>>

\* A new access token t, or (t = user) a new refresh token, for the current user.
\* When it cannot be saved it is in use all the same, but the callback gets the
\* error.
Answer(i, t, saved) ==
  /\ CanFinish(i)
  /\ Room(1)
  /\ tasks[i].mine
  /\ t \notin issued \/ t = user
  /\ issued' = issued \cup {t}
  /\ UpdateKeychain(t, saved, <<>>)
  /\ IF saved THEN ScheduleIfPosted ELSE RetryAfter(i)
  /\ IF saved /\ t = user THEN Settle(i) ELSE Unsettle
  /\ tasks' = Without(i)
  /\ UNCHANGED <<auto, background, waking, firing>>

\* An error that says nothing about the token, or any error for a former user.
AnswerError(i) ==
  /\ CanFinish(i)
  /\ UNCHANGED authVars
  /\ RetryAfter(i)
  /\ tasks' = Without(i)
  /\ UNCHANGED <<auto, background, waking, firing, issued, settled>>

\* The backend disowned the current user's token: signOutIfTokenIsInvalid, which
\* compares the identity of the user ID objects, then the callback.
AnswerInvalid(i, removed) ==
  /\ CanFinish(i)
  /\ Room(1)
  /\ tasks[i].mine
  /\ SignOutByForce(removed)
  /\ RetryAfter(i)
  /\ tasks' = Disowned(Without(i))
  /\ Unsettle
  /\ UNCHANGED <<auto, background, waking, firing, issued>>

-----------------------------------------------------------------------------
(* Notifications of the application, on the main thread.                   *)

DidEnterBackground ==
  /\ auto
  /\ ~waking
  /\ background' = TRUE
  /\ UNCHANGED <<authVars, auto, scheduled, waking, timers, firing, tasks, issued, settled>>

DidBecomeActive ==
  /\ auto
  /\ ~waking
  /\ background' = FALSE
  /\ waking' = TRUE
  /\ UNCHANGED <<authVars, auto, scheduled, timers, firing, tasks, issued, settled>>

\* Its second half.
ScheduleIfNone ==
  /\ waking
  /\ waking' = FALSE
  /\ IF scheduled THEN UNCHANGED <<scheduled, timers>> ELSE Schedule(user)
  /\ UNCHANGED <<authVars, auto, background, firing, tasks, issued, settled>>

RunMain ==
  /\ ~waking
  /\ RunAuthBlock
  /\ UNCHANGED refreshVars

Relaunch ==
  /\ Restart
  /\ auto' = FALSE
  /\ scheduled' = FALSE
  /\ background' = FALSE
  /\ waking' = FALSE
  /\ timers' = [tm \in Timers |-> 0]
  /\ firing' = None
  /\ tasks' = <<>>
  /\ settled' = FALSE
  /\ UNCHANGED issued

Next ==
  \/ \E b \in BOOLEAN : LoadSavedUser(b) \/ UserSignsOut(b) \/ SaveProfile(b)
  \/ \E t \in Tokens, b \in BOOLEAN : SignIn(t, b)
  \/ GetToken
  \/ \E tm \in Timers : FireStale(tm) \/ Fire(tm)
  \/ Refresh
  \/ \E i \in 1..MaxTasks :
       \/ AnswerSame(i)
       \/ \E t \in Tokens, b \in BOOLEAN : Answer(i, t, b)
       \/ AnswerError(i)
       \/ \E b \in BOOLEAN : AnswerInvalid(i, b)
  \/ DidEnterBackground
  \/ DidBecomeActive
  \/ ScheduleIfNone
  \/ RunMain
  \/ Relaunch

Spec == Init /\ [][Next]_vars

-----------------------------------------------------------------------------
(* Properties.                                                             *)

\* The types of the refresh's state.
TypeOK ==
  /\ AuthTypeOK
  /\ auto \in BOOLEAN
  /\ scheduled \in BOOLEAN
  /\ background \in BOOLEAN
  /\ waking \in BOOLEAN
  /\ timers \in [Timers -> Nat]
  /\ firing \in Timers \cup {None}
  /\ tasks \in Seq(Tasks)
  /\ issued \subseteq Tokens
  /\ settled \in BOOLEAN

\* _autoRefreshScheduled tells the truth about an announced token: while it is
\* set, a timer for the current token is pending, however sign-ins, sign-outs,
\* answers, retries and timers of earlier tokens and sessions interleave.  The
\* foreground handler relies on it.
FlagIsTrue == (scheduled /\ user # None /\ notified = user) => TimerFor(user)

\* A refresh of the current token is pending or under way.
Alive == \/ TimerFor(user)
         \/ firing # None
         \/ \E i \in DOMAIN tasks : tasks[i].mine /\ tasks[i].timer # None

\* The refreshes of a signed-in user go on: in the foreground, an announced token
\* has a refresh pending or under way unless the last one brought nothing new.  No
\* failed attempt, no change of user or session, no stay in the background and no
\* race between a timer's block and the foreground handler ends them.
RefreshGoesOn ==
  (auto /\ user # None /\ notified = user /\ ~settled /\ ~background /\ ~waking) => Alive

=============================================================================
