------------------------ MODULE TokenRefresh_proofs ------------------------
(***************************************************************************)
(* Proofs about the automatic token refresh, for every set of users and    *)
(* tokens, every longest delay and all bounds: its types, that             *)
(* _autoRefreshScheduled tells the truth, and that the refreshes of a      *)
(* signed-in user go on.                                                   *)
(***************************************************************************)
EXTENDS TokenRefresh, FIRAuth_proofs

-----------------------------------------------------------------------------
(* The inductive invariant.                                                *)

\* The types of what TokenRefresh adds to FIRAuth.
RefreshTypes ==
  /\ auto \in BOOLEAN
  /\ scheduled \in BOOLEAN
  /\ background \in BOOLEAN
  /\ waking \in BOOLEAN
  /\ timers \in [Timers -> Nat]
  /\ firing \in Timers \cup {None}
  /\ tasks \in Seq(Tasks)
  /\ issued \subseteq Tokens
  /\ settled \in BOOLEAN

\* Every token the client holds was issued, so that a new one differs from all.
KnownTokens == {stored, user, notified} \subseteq issued \cup {None}

\* Nothing of the automatic refresh happens before somebody asked for a token,
\* and nobody can before the saved user was loaded.
OnlyWhenOn ==
  /\ auto => ready
  /\ scheduled \/ waking \/ firing # None \/ tasks # <<>> => auto
  /\ \A tm \in Timers : timers[tm] > 0 => auto

\* Between the halves of a timer's block the work queue does nothing else.
FiringIsCurrent == firing # None => user = firing.token

\* The fetches of the current FIRUser are for its user ID.
MineIsCurrent ==
  \A i \in DOMAIN tasks : tasks[i].mine => user # None /\ tasks[i].uid = Uid(user)

RefreshPart ==
  /\ RefreshTypes
  /\ KnownTokens
  /\ OnlyWhenOn
  /\ FiringIsCurrent
  /\ MineIsCurrent
  /\ FlagIsTrue
  /\ RefreshGoesOn

RefreshInv == AuthInv /\ RefreshPart

-----------------------------------------------------------------------------
(* Steps of the Auth client.                                               *)

\* Every step is, for the Auth client, a step of FIRAuth or none.
LEMMA RefreshAuthStep ==
  ASSUME AuthInv, [Next]_vars
  PROVE  [AuthNext]_authVars
<1>1. ASSUME NEW b \in BOOLEAN, LoadSavedUser(b) \/ UserSignsOut(b) PROVE AuthNext
  BY <1>1 DEF LoadSavedUser, UserSignsOut, AuthNext, WorkStep
<1>2. ASSUME NEW b \in BOOLEAN, SaveProfile(b) PROVE AuthNext
  <2>1. user \in Tokens
    BY <1>2 DEF SaveProfile, UpdateKeychain, AuthInv, AuthTypeOK, Users
  <2> QED
    BY <1>2, <2>1 DEF SaveProfile, AuthNext, WorkStep
<1>3. ASSUME NEW t \in Tokens, NEW b \in BOOLEAN, SignIn(t, b) PROVE AuthNext
  BY <1>3 DEF SignIn, AuthNext, WorkStep
<1>4. ASSUME NEW i \in 1..MaxTasks, NEW t \in Tokens, NEW b \in BOOLEAN, Answer(i, t, b)
      PROVE  AuthNext
  BY <1>4 DEF Answer, AuthNext, WorkStep
<1>5. ASSUME NEW i \in 1..MaxTasks, NEW b \in BOOLEAN, AnswerInvalid(i, b) PROVE AuthNext
  BY <1>5 DEF AnswerInvalid, AuthNext, WorkStep
<1>6. CASE RunMain
  BY <1>6 DEF RunMain, AuthNext, MainStep
<1>7. CASE Relaunch
  BY <1>7 DEF Relaunch, AuthNext
<1>8. ASSUME NEW tm \in Timers, FireStale(tm) \/ Fire(tm) PROVE UNCHANGED authVars
  BY <1>8 DEF FireStale, Fire
<1>9. ASSUME NEW i \in 1..MaxTasks, AnswerSame(i) \/ AnswerError(i) PROVE UNCHANGED authVars
  BY <1>9 DEF AnswerSame, AnswerError
<1>10. CASE GetToken \/ Refresh \/ DidEnterBackground \/ DidBecomeActive \/ ScheduleIfNone
  BY <1>10 DEF GetToken, Refresh, DidEnterBackground, DidBecomeActive, ScheduleIfNone
<1>11. CASE UNCHANGED vars
  BY <1>11 DEF vars
<1> QED
  BY <1>1, <1>2, <1>3, <1>4, <1>5, <1>6, <1>7, <1>8, <1>9, <1>10, <1>11 DEF Next

-----------------------------------------------------------------------------
(* Timers and fetches.                                                     *)

\* A step that cancels no timer, and one after which t has a timer and the flag is
\* set.
Grows ==
  /\ timers' \in [Timers -> Nat]
  /\ scheduled' \in BOOLEAN
  /\ \A tm \in Timers : timers[tm] > 0 => timers'[tm] > 0
Covers(t) ==
  /\ scheduled'
  /\ \E tm \in Timers : tm.token = t /\ timers'[tm] > 0

\* Scheduling a refresh for the current token t.
LEMMA ScheduleFacts ==
  ASSUME RefreshTypes, NEW t \in Users, NEW delay \in 0..MaxWait, NEW retry \in BOOLEAN,
         ScheduleWithDelay(t, delay, retry)
  PROVE  /\ Grows
         /\ t = None => UNCHANGED <<scheduled, timers>>
         /\ t # None => Covers(t)
<1> DEFINE tm == [token |-> t, delay |-> delay, retry |-> retry]
<1>1. timers \in [Timers -> Nat] /\ scheduled \in BOOLEAN
  BY DEF RefreshTypes
<1>2. CASE t = None
  <2>1. UNCHANGED <<scheduled, timers>>
    BY <1>2 DEF ScheduleWithDelay
  <2> QED
    BY <1>1, <1>2, <2>1 DEF Grows
<1>3. CASE t # None
  <2>1. tm \in Timers /\ tm.token = t
    BY <1>3 DEF Timers, Users
  <2>2. scheduled' = TRUE /\ timers' = [timers EXCEPT ![tm] = @ + 1]
    BY <1>3 DEF ScheduleWithDelay
  <2> HIDE DEF tm
  <2>3. timers' \in [Timers -> Nat] /\ timers'[tm] > 0
    BY <1>1, <2>1, <2>2
  <2>4. \A x \in Timers : timers[x] > 0 => timers'[x] > 0
    BY <1>1, <2>1, <2>2
  <2> QED
    BY <1>3, <2>1, <2>2, <2>3, <2>4 DEF Grows, Covers
<1> QED
  BY <1>2, <1>3

\* Nothing scheduled cancels nothing.
LEMMA NoTimerStep ==
  ASSUME RefreshTypes, UNCHANGED <<scheduled, timers>>
  PROVE  Grows
BY DEF RefreshTypes, Grows

\* The first delay.
LEMMA FirstDelay == 0 \in 0..MaxWait /\ 1 \in 0..MaxWait /\ MaxWait \in 0..MaxWait
BY MaxWaitAssumption

\* A newly announced token gets a timer.
LEMMA PostedFacts ==
  ASSUME RefreshTypes, user' \in Users, ScheduleIfPosted
  PROVE  /\ Grows
         /\ auto /\ notified' # notified /\ user' # None => Covers(user')
         /\ UNCHANGED <<scheduled, timers>> \/ (auto /\ Covers(user'))
<1>1. CASE auto /\ notified' # notified
  <2>1. ScheduleWithDelay(user', 0, FALSE)
    BY <1>1 DEF ScheduleIfPosted, Schedule
  <2> QED
    BY <1>1, <2>1, FirstDelay, ScheduleFacts
<1>2. CASE ~(auto /\ notified' # notified)
  <2>1. UNCHANGED <<scheduled, timers>>
    BY <1>2 DEF ScheduleIfPosted
  <2> QED
    BY <1>2, <2>1, NoTimerStep
<1> QED
  BY <1>1, <1>2

\* The delay after a failure is a delay.
LEMMA RetryDelayType ==
  ASSUME NEW tm \in Timers
  PROVE  RetryDelay(tm) \in 0..MaxWait
<1>1. tm.delay \in 0..MaxWait /\ tm.retry \in BOOLEAN
  BY DEF Timers
<1> QED
  BY <1>1, MaxWaitAssumption DEF RetryDelay

\* A failed refresh of the current user is tried again.
LEMMA RetryFacts ==
  ASSUME RefreshTypes, user' \in Users, NEW i \in DOMAIN tasks, RetryAfter(i)
  PROVE  /\ Grows
         /\ tasks[i].timer # None /\ Uid(user') = tasks[i].uid => Covers(user')
         /\ UNCHANGED <<scheduled, timers>> \/ Covers(user')
<1>1. tasks[i] \in Tasks
  BY DEF RefreshTypes
<1>2. tasks[i].timer \in Timers \cup {None} /\ tasks[i].uid \in Uids
  BY <1>1 DEF Tasks
<1>3. CASE tasks[i].timer # None /\ Uid(user') = tasks[i].uid
  <2>1. ScheduleWithDelay(user', RetryDelay(tasks[i].timer), TRUE)
    BY <1>3 DEF RetryAfter
  <2>2. user' # None
    BY <1>2, <1>3, NoneAssumption DEF Uid
  <2> QED
    BY <1>2, <1>3, <2>1, <2>2, RetryDelayType, ScheduleFacts
<1>4. CASE ~(tasks[i].timer # None /\ Uid(user') = tasks[i].uid)
  <2>1. UNCHANGED <<scheduled, timers>>
    BY <1>4 DEF RetryAfter
  <2> QED
    BY <1>4, <2>1, NoTimerStep
<1> QED
  BY <1>3, <1>4

\* The fetches left when the i-th is answered are the others.
LEMMA WithoutFacts ==
  ASSUME tasks \in Seq(Tasks), NEW i \in DOMAIN tasks
  PROVE  /\ Without(i) \in Seq(Tasks)
         /\ \A j \in DOMAIN Without(i) : \E k \in DOMAIN tasks : Without(i)[j] = tasks[k]
         /\ \A k \in DOMAIN tasks : k # i => \E j \in DOMAIN Without(i) : Without(i)[j] = tasks[k]
<1> DEFINE n == Len(tasks)
           w == Without(i)
<1>1. n \in Nat /\ i \in 1..n /\ DOMAIN tasks = 1..n /\ \A k \in 1..n : tasks[k] \in Tasks
  OBVIOUS
<1>2. /\ DOMAIN w = 1..n-1
      /\ \A j \in 1..n-1 : w[j] = IF j < i THEN tasks[j] ELSE tasks[j+1]
  BY DEF Without
<1>3. w = [j \in 1..n-1 |-> w[j]] /\ n - 1 \in Nat
  BY <1>1 DEF Without
<1> HIDE DEF n, w
<1>4. \A j \in 1..n-1 : w[j] \in Tasks
  BY <1>1, <1>2
<1>5. w \in Seq(Tasks)
  BY <1>3, <1>4
<1>6. ASSUME NEW j \in 1..n-1 PROVE \E k \in 1..n : w[j] = tasks[k]
  <2>1. j \in 1..n /\ j+1 \in 1..n
    BY <1>1
  <2> QED
    BY <1>2, <2>1
<1>7. ASSUME NEW k \in 1..n, k # i PROVE \E j \in 1..n-1 : w[j] = tasks[k]
  <2>1. CASE k < i
    BY <1>1, <1>2, <2>1
  <2>2. CASE k > i
    <3>1. k-1 \in 1..n-1 /\ ~(k-1 < i) /\ (k-1)+1 = k
      BY <1>1, <2>2
    <3> QED
      BY <1>2, <3>1
  <2> QED
    BY <1>1, <1>7, <2>1, <2>2
<1> QED
  BY <1>1, <1>2, <1>5, <1>6, <1>7 DEF w

-----------------------------------------------------------------------------
(* What keeps FlagIsTrue and RefreshGoesOn.                                *)

\* A fetch that a timer asked for, of the current user.
Asked(i) == tasks[i].mine /\ tasks[i].timer # None

\* The flag stays true when the current token is covered, not announced or gone,
\* and when nothing changes but timers that are added.
LEMMA FlagStep ==
  ASSUME FlagIsTrue, Grows,
         \/ Covers(user')
         \/ user' = None
         \/ notified' # user'
         \/ ~scheduled'
         \/ UNCHANGED <<scheduled, user, notified>>
  PROVE  FlagIsTrue'
BY DEF FlagIsTrue, TimerFor, Grows, Covers

\* The refreshes go on when the current token is covered, not announced or gone.
LEMMA CoveredGoesOn ==
  ASSUME Covers(user') \/ user' = None \/ notified' # user'
  PROVE  RefreshGoesOn'
BY DEF RefreshGoesOn, Alive, TimerFor, Covers

\* They go on when the session stays and no timer or fetch of it is lost, unless a
\* fetch brought nothing new.
LEMMA ProceedsGoesOn ==
  ASSUME RefreshGoesOn, Grows,
         UNCHANGED <<auto, user, notified, firing, background, waking>>,
         settled => settled',
         \A k \in DOMAIN tasks : Asked(k) => settled' \/ \E j \in DOMAIN tasks' : Asked(j)'
  PROVE  RefreshGoesOn'
<1> SUFFICES ASSUME auto, user # None, notified = user, ~settled', ~background, ~waking
             PROVE  Alive'
  BY DEF RefreshGoesOn
<1>1. Alive
  BY DEF RefreshGoesOn
<1>2. CASE TimerFor(user)
  BY <1>2 DEF TimerFor, Alive, Grows
<1>3. CASE firing # None
  BY <1>3 DEF Alive
<1>4. CASE \E k \in DOMAIN tasks : Asked(k)
  <2>1. PICK j \in DOMAIN tasks' : Asked(j)'
    BY <1>4
  <2> QED
    BY <2>1 DEF Asked, Alive
<1> QED
  BY <1>1, <1>2, <1>3, <1>4 DEF Alive, Asked

\* The fetches after one more was asked for.
LEMMA AppendTaskFacts ==
  ASSUME NEW s \in Seq(Tasks), NEW t \in Tasks
  PROVE  /\ Append(s, t) \in Seq(Tasks)
         /\ Append(s, t) # <<>>
         /\ \A i \in DOMAIN s : i \in DOMAIN Append(s, t) /\ Append(s, t)[i] = s[i]
         /\ \A i \in DOMAIN Append(s, t) :
              (i \in DOMAIN s /\ Append(s, t)[i] = s[i]) \/ Append(s, t)[i] = t
         /\ \E i \in DOMAIN Append(s, t) : Append(s, t)[i] = t
<1> DEFINE r == Append(s, t)
<1>1. /\ Len(s) \in Nat /\ DOMAIN s = 1..Len(s)
      /\ r \in Seq(Tasks) /\ DOMAIN r = 1..Len(s)+1
      /\ \A i \in 1..Len(s) : r[i] = s[i]
      /\ r[Len(s)+1] = t
  <2>1. r \in Seq(Tasks) /\ Len(r) = Len(s)+1 /\ Len(s) \in Nat
    OBVIOUS
  <2>2. r[Len(s)+1] = t /\ \A i \in 1..Len(s) : r[i] = s[i]
    OBVIOUS
  <2> QED
    BY <2>1, <2>2
<1>2. r # <<>>
  <2>1. Len(r) = Len(s)+1 /\ Len(s) \in Nat
    OBVIOUS
  <2> HIDE DEF r
  <2> QED
    BY <2>1
<1> HIDE DEF r
<1>3. \A i \in 1..Len(s)+1 : i \in 1..Len(s) \/ i = Len(s)+1
  BY <1>1
<1>4. Len(s)+1 \in 1..Len(s)+1 /\ 1..Len(s) \subseteq 1..Len(s)+1
  BY <1>1
<1> QED
  BY <1>1, <1>2, <1>3, <1>4 DEF r

\* Fetches whose FIRUser stopped being current.
LEMMA DisownFacts ==
  ASSUME NEW s \in Seq(Tasks)
  PROVE  /\ Disowned(s) \in Seq(Tasks)
         /\ \A i \in DOMAIN Disowned(s) : ~Disowned(s)[i].mine
         /\ s = <<>> => Disowned(s) = <<>>
<1> DEFINE r == Disowned(s)
           disowned(i) == [s[i] EXCEPT !.mine = FALSE]
<1>1. DOMAIN s = 1..Len(s) /\ Len(s) \in Nat /\ r = [i \in DOMAIN s |-> disowned(i)]
  BY DEF Disowned
<1>2. ASSUME NEW i \in 1..Len(s) PROVE disowned(i) \in Tasks /\ ~disowned(i).mine
  <2>1. s[i] \in Tasks
    OBVIOUS
  <2> QED
    BY <2>1 DEF Tasks
<1> HIDE DEF disowned, r
<1>3. DOMAIN r = 1..Len(s) /\ \A i \in 1..Len(s) : r[i] = disowned(i)
  BY <1>1
<1>4. r \in Seq(Tasks)
  <2>1. r = [i \in 1..Len(s) |-> disowned(i)] /\ Len(s) \in Nat
    BY <1>1
  <2> QED
    BY <1>2, <2>1
<1>5. ASSUME s = <<>> PROVE r = <<>>
  <2>1. DOMAIN r = 1..0
    BY <1>3, <1>5
  <2>2. Len(r) = 0
    BY <1>4, <2>1
  <2> QED
    BY <1>4, <2>2
<1> QED
  BY <1>2, <1>3, <1>4, <1>5 DEF r

-----------------------------------------------------------------------------
(* Every action keeps the invariant.  AuthInv is kept by RefreshAuthStep   *)
(* and NextInv.                                                            *)

\* Before the saved user is loaded the automatic refresh is off.
LEMMA LoadKeeps ==
  ASSUME RefreshPart, NEW b, LoadSavedUser(b)
  PROVE  RefreshPart'
<1> USE DEF RefreshPart
<1>1. /\ ~ready /\ ready' /\ UNCHANGED refreshVars
      /\ user' \in {user, stored} /\ notified' \in {notified, stored} /\ stored' = stored
  BY DEF LoadSavedUser, LoadUser, PossiblyPost
<1>2. ~auto /\ ~scheduled /\ ~waking /\ firing = None /\ tasks = <<>>
  BY <1>1 DEF OnlyWhenOn
<1>3. RefreshTypes' /\ KnownTokens'
  BY <1>1 DEF RefreshTypes, KnownTokens, refreshVars
<1>4. OnlyWhenOn' /\ FiringIsCurrent' /\ MineIsCurrent' /\ FlagIsTrue' /\ RefreshGoesOn'
  BY <1>1, <1>2 DEF OnlyWhenOn, FiringIsCurrent, MineIsCurrent, FlagIsTrue, RefreshGoesOn, refreshVars
<1> QED
  BY <1>3, <1>4

\* A sign-in brings a token not seen before, which is announced and covered.
LEMMA SignInKeeps ==
  ASSUME RefreshPart, AuthInv', NEW t \in Tokens, NEW b \in BOOLEAN, SignIn(t, b)
  PROVE  RefreshPart'
<1> USE DEF RefreshPart
<1>0. /\ t # None /\ t \notin issued /\ notified # t /\ issued' = issued \cup {t}
      /\ ready /\ ready' = ready /\ firing = None
      /\ UNCHANGED <<auto, background, waking, firing>>
      /\ settled' = (settled /\ user' = user)
      /\ user' \in Users /\ tasks \in Seq(Tasks)
  BY NoneAssumption DEF SignIn, KnownTokens, CompleteSignIn, Unsettle, AuthInv, AuthTypeOK, RefreshTypes
<1>1. /\ Grows
      /\ auto /\ notified' # notified /\ user' # None => Covers(user')
      /\ UNCHANGED <<scheduled, timers>> \/ (auto /\ Covers(user'))
  BY <1>0, PostedFacts DEF SignIn
<1>2. CASE b
  <2>1. user' = t /\ notified' = t /\ stored' = t
    BY <1>2 DEF SignIn, CompleteSignIn, UpdateCurrentUser, PossiblyPost
  <2>2. /\ tasks' \in Seq(Tasks) /\ \A i \in DOMAIN tasks' : ~tasks'[i].mine
        /\ tasks = <<>> => tasks' = <<>>
    BY <1>0, <1>2, DisownFacts DEF SignIn
  <2>3. RefreshTypes' /\ KnownTokens'
    BY <1>0, <1>1, <2>1, <2>2 DEF RefreshTypes, KnownTokens, Grows
  <2>4. OnlyWhenOn' /\ FiringIsCurrent' /\ MineIsCurrent'
    BY <1>0, <1>1, <2>2 DEF OnlyWhenOn, FiringIsCurrent, MineIsCurrent
  <2>5. auto => Covers(user')
    BY <1>0, <1>1, <2>1
  <2>6. FlagIsTrue' /\ RefreshGoesOn'
    <3>1. CASE auto
      BY <1>1, <2>5, <3>1, FlagStep, CoveredGoesOn
    <3>2. CASE ~auto
      BY <1>0, <2>4, <3>2 DEF OnlyWhenOn, FlagIsTrue, RefreshGoesOn
    <3> QED
      BY <3>1, <3>2
  <2> QED
    BY <2>3, <2>4, <2>6
<1>3. CASE ~b
  <2>1. UNCHANGED <<user, notified, stored, tasks>>
    BY <1>3 DEF SignIn, CompleteSignIn, UpdateCurrentUser
  <2>2. UNCHANGED <<scheduled, timers>>
    BY <2>1 DEF SignIn, ScheduleIfPosted
  <2>3. RefreshTypes' /\ KnownTokens'
    BY <1>0, <1>1, <2>1, <2>2 DEF RefreshTypes, KnownTokens
  <2>4. OnlyWhenOn' /\ FiringIsCurrent' /\ MineIsCurrent'
    BY <1>0, <2>1, <2>2 DEF OnlyWhenOn, FiringIsCurrent, MineIsCurrent
  <2>5. FlagIsTrue' /\ RefreshGoesOn'
    <3>1. settled => settled'
      BY <1>0, <2>1
    <3>2. \A k \in DOMAIN tasks : Asked(k) => \E j \in DOMAIN tasks' : Asked(j)'
      BY <2>1 DEF Asked
    <3> QED
      BY <1>0, <1>1, <2>1, <2>2, <3>1, <3>2, FlagStep, ProceedsGoesOn
  <2> QED
    BY <2>3, <2>4, <2>5
<1> QED
  BY <1>2, <1>3

\* A sign-out ends the session, or fails and changes nothing.
LEMMA SignOutKeeps ==
  ASSUME RefreshPart, AuthInv', NEW b \in BOOLEAN, UserSignsOut(b)
  PROVE  RefreshPart'
<1> USE DEF RefreshPart
<1>0. /\ ready' = ready /\ firing = None
      /\ UNCHANGED <<auto, background, waking, firing, issued>>
      /\ settled' = (settled /\ user' = user)
      /\ user' \in Users /\ tasks \in Seq(Tasks)
  BY DEF UserSignsOut, SignOut, Unsettle, AuthInv, AuthTypeOK, RefreshTypes
<1>1. /\ Grows
      /\ UNCHANGED <<scheduled, timers>> \/ (auto /\ Covers(user'))
  BY <1>0, PostedFacts DEF UserSignsOut
<1>2. CASE b
  <2>1. user' = None /\ notified' = None /\ stored' = None
    BY <1>2 DEF UserSignsOut, SignOut, UpdateCurrentUser, PossiblyPost
  <2>2. /\ tasks' \in Seq(Tasks) /\ \A i \in DOMAIN tasks' : ~tasks'[i].mine
        /\ tasks = <<>> => tasks' = <<>>
    BY <1>0, <1>2, DisownFacts DEF UserSignsOut
  <2>3. RefreshTypes' /\ KnownTokens'
    BY <1>0, <1>1, <2>1, <2>2 DEF RefreshTypes, KnownTokens, Grows
  <2>4. OnlyWhenOn' /\ FiringIsCurrent' /\ MineIsCurrent'
    BY <1>0, <1>1, <2>2 DEF OnlyWhenOn, FiringIsCurrent, MineIsCurrent
  <2>5. FlagIsTrue' /\ RefreshGoesOn'
    BY <1>1, <2>1, FlagStep, CoveredGoesOn
  <2> QED
    BY <2>3, <2>4, <2>5
<1>3. CASE ~b
  <2>1. UNCHANGED <<user, notified, stored, tasks>>
    BY <1>3 DEF UserSignsOut, SignOut, UpdateCurrentUser
  <2>2. UNCHANGED <<scheduled, timers>>
    BY <2>1 DEF UserSignsOut, ScheduleIfPosted
  <2>3. RefreshTypes' /\ KnownTokens'
    BY <1>0, <1>1, <2>1, <2>2 DEF RefreshTypes, KnownTokens
  <2>4. OnlyWhenOn' /\ FiringIsCurrent' /\ MineIsCurrent'
    BY <1>0, <2>1, <2>2 DEF OnlyWhenOn, FiringIsCurrent, MineIsCurrent
  <2>5. FlagIsTrue' /\ RefreshGoesOn'
    <3>1. settled => settled'
      BY <1>0, <2>1
    <3>2. \A k \in DOMAIN tasks : Asked(k) => \E j \in DOMAIN tasks' : Asked(j)'
      BY <2>1 DEF Asked
    <3> QED
      BY <1>0, <1>1, <2>1, <2>2, <3>1, <3>2, FlagStep, ProceedsGoesOn
  <2> QED
    BY <2>3, <2>4, <2>5
<1> QED
  BY <1>2, <1>3

\* Saving the current user announces its token if it was not, and then covers it.
LEMMA SaveProfileKeeps ==
  ASSUME RefreshPart, AuthInv', NEW b \in BOOLEAN, SaveProfile(b)
  PROVE  RefreshPart'
<1> USE DEF RefreshPart
<1>0. /\ ready' = ready /\ firing = None /\ user' = user /\ user # None
      /\ stored' \in {stored, user} /\ notified' \in {notified, user}
      /\ UNCHANGED <<auto, background, waking, firing, tasks, issued>>
      /\ settled' = settled
      /\ user' \in Users /\ tasks \in Seq(Tasks)
  BY DEF SaveProfile, UpdateKeychain, PossiblyPost, Unsettle, AuthInv, AuthTypeOK, RefreshTypes
<1>1. /\ Grows
      /\ auto /\ notified' # notified /\ user' # None => Covers(user')
      /\ UNCHANGED <<scheduled, timers>> \/ (auto /\ Covers(user'))
  BY <1>0, PostedFacts DEF SaveProfile
<1>2. RefreshTypes' /\ KnownTokens'
  BY <1>0, <1>1 DEF RefreshTypes, KnownTokens, Grows
<1>3. OnlyWhenOn' /\ FiringIsCurrent' /\ MineIsCurrent'
  BY <1>0, <1>1 DEF OnlyWhenOn, FiringIsCurrent, MineIsCurrent
<1>4. FlagIsTrue' /\ RefreshGoesOn'
  <2>1. CASE notified' = notified
    <3>1. \A k \in DOMAIN tasks : Asked(k) => \E j \in DOMAIN tasks' : Asked(j)'
      BY <1>0 DEF Asked
    <3>2. RefreshGoesOn'
      BY <1>0, <1>1, <2>1, <3>1, ProceedsGoesOn
    <3>3. FlagIsTrue'
      BY <1>0, <1>1, <2>1, FlagStep
    <3> QED
      BY <3>2, <3>3
  <2>2. CASE notified' # notified /\ auto
    BY <1>0, <1>1, <2>2, FlagStep, CoveredGoesOn
  <2>3. CASE ~auto
    BY <1>0, <1>3, <2>3 DEF OnlyWhenOn, FlagIsTrue, RefreshGoesOn
  <2> QED
    BY <2>1, <2>2, <2>3
<1> QED
  BY <1>2, <1>3, <1>4

\* The first request for a token covers the current one.
LEMMA GetTokenKeeps ==
  ASSUME RefreshPart, AuthInv, GetToken
  PROVE  RefreshPart'
<1> USE DEF RefreshPart
<1> DEFINE task == [mine |-> TRUE, uid |-> Uid(user), timer |-> None]
<1>0. /\ ready /\ firing = None /\ auto'
      /\ UNCHANGED <<authVars, background, waking, firing, issued, settled>>
      /\ user \in Users /\ tasks \in Seq(Tasks)
      /\ UNCHANGED <<stored, ready, user, notified>>
  BY DEF GetToken, AuthInv, AuthTypeOK, RefreshTypes, authVars
<1>1. Grows /\ (~auto /\ user # None => Covers(user'))
      /\ (auto \/ user = None => UNCHANGED <<scheduled, timers>>)
  <2>1. CASE auto
    BY <2>1, NoTimerStep DEF GetToken
  <2>2. CASE ~auto
    <3>1. ScheduleWithDelay(user, 0, FALSE)
      BY <2>2 DEF GetToken, Schedule
    <3> QED
      BY <1>0, <2>2, <3>1, FirstDelay, ScheduleFacts
  <2> QED
    BY <2>1, <2>2
<1>2. user # None => task \in Tasks /\ task.uid = Uid(user)
  BY <1>0, UidOfAssumption DEF Tasks, Users, Uid
<1>3. tasks' = IF user = None THEN tasks ELSE Append(tasks, task)
  BY DEF GetToken
<1> HIDE DEF task
<1>4. /\ tasks' \in Seq(Tasks)
      /\ \A i \in DOMAIN tasks : i \in DOMAIN tasks' /\ tasks'[i] = tasks[i]
      /\ \A i \in DOMAIN tasks' : \/ i \in DOMAIN tasks /\ tasks'[i] = tasks[i]
                                  \/ user # None /\ tasks'[i] = task
  <2>1. CASE user = None
    <3>1. tasks' = tasks /\ tasks \in Seq(Tasks)
      BY <1>0, <1>3, <2>1
    <3> QED
      BY <3>1
  <2>2. CASE user # None
    <3>1. tasks' = Append(tasks, task) /\ tasks \in Seq(Tasks) /\ task \in Tasks
      BY <1>0, <1>2, <1>3, <2>2
    <3> QED
      BY <2>2, <3>1, AppendTaskFacts
  <2> QED
    BY <2>1, <2>2
<1>5. RefreshTypes' /\ KnownTokens'
  BY <1>0, <1>1, <1>4 DEF RefreshTypes, KnownTokens, Grows
<1>6. OnlyWhenOn' /\ FiringIsCurrent'
  BY <1>0 DEF OnlyWhenOn, FiringIsCurrent
<1>7. MineIsCurrent'
  <2> SUFFICES ASSUME NEW i \in DOMAIN tasks', tasks'[i].mine
               PROVE  user # None /\ tasks'[i].uid = Uid(user)
    BY <1>0 DEF MineIsCurrent, Uid
  <2> QED
    BY <1>2, <1>4 DEF MineIsCurrent
<1>8. FlagIsTrue' /\ RefreshGoesOn'
  <2>1. CASE user = None
    BY <1>0, <1>1, <2>1, FlagStep, CoveredGoesOn
  <2>2. CASE user # None /\ ~auto
    BY <1>1, <2>2, FlagStep, CoveredGoesOn
  <2>3. CASE auto
    <3>1. \A k \in DOMAIN tasks : Asked(k) => \E j \in DOMAIN tasks' : Asked(j)'
      BY <1>4 DEF Asked
    <3>2. UNCHANGED <<scheduled, auto, user, notified, firing, background, waking>>
      BY <1>0, <1>1, <2>3 DEF RefreshTypes
    <3>3. FlagIsTrue'
      BY <1>1, <3>2, FlagStep
    <3>4. RefreshGoesOn'
      BY <1>0, <1>1, <3>1, <3>2, ProceedsGoesOn
    <3> QED
      BY <3>3, <3>4
  <2> QED
    BY <2>1, <2>2, <2>3
<1> QED
  BY <1>5, <1>6, <1>7, <1>8

\* A timer of another token takes nothing from the current one.
LEMMA FireStaleKeeps ==
  ASSUME RefreshPart, NEW tm \in Timers, FireStale(tm)
  PROVE  RefreshPart'
<1> USE DEF RefreshPart
<1>0. /\ user # tm.token /\ timers[tm] > 0 /\ timers' = [timers EXCEPT ![tm] = @ - 1]
      /\ UNCHANGED <<stored, ready, user, notified>>
      /\ UNCHANGED <<auto, scheduled, background, waking, firing, tasks, issued, settled>>
      /\ timers \in [Timers -> Nat]
  BY DEF FireStale, RefreshTypes, authVars
<1>1. /\ timers' \in [Timers -> Nat]
      /\ \A x \in Timers : x # tm => timers'[x] = timers[x]
  BY <1>0
<1>2. TimerFor(user) => TimerFor(user)'
  BY <1>0, <1>1 DEF TimerFor
<1>3. RefreshTypes' /\ KnownTokens' /\ OnlyWhenOn' /\ FiringIsCurrent'
  BY <1>0, <1>1 DEF RefreshTypes, KnownTokens, OnlyWhenOn, FiringIsCurrent
<1>4. MineIsCurrent'
  BY <1>0 DEF MineIsCurrent, Uid
<1>5. FlagIsTrue' /\ RefreshGoesOn'
  BY <1>0, <1>2 DEF FlagIsTrue, RefreshGoesOn, Alive
<1> QED
  BY <1>3, <1>4, <1>5

\* A timer of the current token: the flag is cleared, the refresh is under way.
LEMMA FireKeeps ==
  ASSUME RefreshPart, NEW tm \in Timers, Fire(tm)
  PROVE  RefreshPart'
<1> USE DEF RefreshPart
<1>0. /\ user = tm.token /\ timers[tm] > 0 /\ timers' = [timers EXCEPT ![tm] = @ - 1]
      /\ ~scheduled' /\ scheduled' \in BOOLEAN /\ firing' = tm /\ ~settled' /\ settled' \in BOOLEAN
      /\ UNCHANGED <<stored, ready, user, notified>>
      /\ UNCHANGED <<auto, background, waking, tasks, issued>>
      /\ timers \in [Timers -> Nat]
  BY DEF Fire, RefreshTypes, authVars
<1>1. timers' \in [Timers -> Nat] /\ firing' # None
  BY <1>0, NoTimerAssumption
<1>2. RefreshTypes' /\ KnownTokens' /\ FiringIsCurrent'
  BY <1>0, <1>1 DEF RefreshTypes, KnownTokens, FiringIsCurrent
<1>3. MineIsCurrent'
  BY <1>0 DEF MineIsCurrent, Uid
<1>4. FlagIsTrue' /\ RefreshGoesOn'
  BY <1>0, <1>1 DEF FlagIsTrue, RefreshGoesOn, Alive
<1> QED
  BY <1>0, <1>2, <1>3, <1>4 DEF OnlyWhenOn

\* The second half of a timer's block: in the foreground a fetch is under way.
LEMMA RefreshKeeps ==
  ASSUME RefreshPart, AuthInv, Refresh
  PROVE  RefreshPart'
<1> USE DEF RefreshPart
<1> DEFINE task == [mine |-> TRUE, uid |-> Uid(user), timer |-> firing]
<1>0. /\ firing # None /\ firing' = None /\ firing \in Timers
      /\ UNCHANGED <<stored, ready, user, notified>>
      /\ UNCHANGED <<auto, scheduled, background, waking, timers, issued, settled>>
      /\ tasks \in Seq(Tasks) /\ auto /\ user \in Users
  BY DEF Refresh, RefreshTypes, authVars, OnlyWhenOn, AuthInv, AuthTypeOK
<1>1. user = firing.token /\ user # None
  BY <1>0, NoneAssumption DEF FiringIsCurrent, Timers
<1>2. task \in Tasks /\ task.mine /\ task.timer # None /\ task.uid = Uid(user)
  BY <1>0, <1>1, UidOfAssumption DEF Tasks, Users, Uid
<1>3. /\ background \/ tasks' = Append(tasks, task)
      /\ tasks' = tasks \/ tasks' = Append(tasks, task)
  BY DEF Refresh
<1> HIDE DEF task
<1>4. /\ tasks' \in Seq(Tasks)
      /\ \A i \in DOMAIN tasks' : (i \in DOMAIN tasks /\ tasks'[i] = tasks[i]) \/ tasks'[i] = task
      /\ background \/ \E i \in DOMAIN tasks' : tasks'[i] = task
  <2>1. CASE tasks' = tasks
    BY <1>0, <1>3, <2>1, <1>2, AppendTaskFacts
  <2>2. CASE tasks' = Append(tasks, task)
    BY <1>0, <1>2, <2>2, AppendTaskFacts
  <2> QED
    BY <1>3, <2>1, <2>2
<1>5. RefreshTypes' /\ KnownTokens' /\ OnlyWhenOn' /\ FiringIsCurrent'
  BY <1>0, <1>4 DEF RefreshTypes, KnownTokens, OnlyWhenOn, FiringIsCurrent
<1>6. MineIsCurrent'
  <2> SUFFICES ASSUME NEW i \in DOMAIN tasks', tasks'[i].mine
               PROVE  user # None /\ tasks'[i].uid = Uid(user)
    BY <1>0 DEF MineIsCurrent, Uid
  <2> QED
    BY <1>1, <1>2, <1>4 DEF MineIsCurrent
<1>7. FlagIsTrue'
  BY <1>0 DEF FlagIsTrue, TimerFor
<1>8. RefreshGoesOn'
  BY <1>0, <1>2, <1>4 DEF RefreshGoesOn, Alive
<1> QED
  BY <1>5, <1>6, <1>7, <1>8

\* Nothing new: the fetch is gone, and if a timer had asked for it that is noted.
LEMMA AnswerSameKeeps ==
  ASSUME RefreshPart, NEW i, AnswerSame(i)
  PROVE  RefreshPart'
<1> USE DEF RefreshPart
<1>0. /\ i \in DOMAIN tasks /\ tasks' = Without(i) /\ tasks \in Seq(Tasks)
      /\ settled' = (settled \/ (tasks[i].mine /\ tasks[i].timer # None))
      /\ UNCHANGED <<stored, ready, user, notified>>
      /\ UNCHANGED <<auto, scheduled, background, waking, timers, firing, issued>>
  BY DEF AnswerSame, CanFinish, Settle, RefreshTypes, authVars
<1>1. /\ tasks' \in Seq(Tasks)
      /\ \A j \in DOMAIN tasks' : \E k \in DOMAIN tasks : tasks'[j] = tasks[k]
      /\ \A k \in DOMAIN tasks : k # i => \E j \in DOMAIN tasks' : tasks'[j] = tasks[k]
  BY <1>0, WithoutFacts
<1>2. RefreshTypes' /\ KnownTokens' /\ FiringIsCurrent'
  BY <1>0, <1>1 DEF RefreshTypes, KnownTokens, FiringIsCurrent
<1>3. OnlyWhenOn'
  BY <1>0 DEF OnlyWhenOn
<1>4. MineIsCurrent'
  BY <1>0, <1>1 DEF MineIsCurrent, Uid
<1>5. FlagIsTrue' /\ RefreshGoesOn'
  <2>1. Grows
    BY <1>0, NoTimerStep
  <2>2. \A k \in DOMAIN tasks : Asked(k) => settled' \/ \E j \in DOMAIN tasks' : Asked(j)'
    <3> SUFFICES ASSUME NEW k \in DOMAIN tasks, Asked(k), ~settled'
                 PROVE  \E j \in DOMAIN tasks' : Asked(j)'
      OBVIOUS
    <3>1. k # i
      BY <1>0 DEF Asked
    <3>2. PICK j \in DOMAIN tasks' : tasks'[j] = tasks[k]
      BY <1>1, <3>1
    <3> QED
      BY <3>2 DEF Asked
  <2>3. settled => settled'
    BY <1>0
  <2>4. FlagIsTrue'
    BY <1>0, <2>1, FlagStep
  <2>5. RefreshGoesOn'
    BY <1>0, <2>1, <2>2, <2>3, ProceedsGoesOn
  <2> QED
    BY <2>4, <2>5
<1> QED
  BY <1>2, <1>3, <1>4, <1>5

\* An error: a fetch that a timer asked for is tried again if its user is current.
LEMMA AnswerErrorKeeps ==
  ASSUME RefreshPart, AuthInv, NEW i, AnswerError(i)
  PROVE  RefreshPart'
<1> USE DEF RefreshPart
<1>0. /\ i \in DOMAIN tasks /\ tasks' = Without(i) /\ tasks \in Seq(Tasks) /\ RetryAfter(i)
      /\ UNCHANGED <<stored, ready, user, notified>> /\ user' \in Users
      /\ UNCHANGED <<auto, background, waking, firing, issued, settled>>
  BY DEF AnswerError, CanFinish, RefreshTypes, authVars, AuthInv, AuthTypeOK
<1>1. /\ tasks' \in Seq(Tasks)
      /\ \A j \in DOMAIN tasks' : \E k \in DOMAIN tasks : tasks'[j] = tasks[k]
      /\ \A k \in DOMAIN tasks : k # i => \E j \in DOMAIN tasks' : tasks'[j] = tasks[k]
  BY <1>0, WithoutFacts
<1>2. /\ Grows
      /\ tasks[i].timer # None /\ Uid(user') = tasks[i].uid => Covers(user')
      /\ UNCHANGED <<scheduled, timers>> \/ Covers(user')
  BY <1>0, RetryFacts
<1>3. auto
  BY <1>0 DEF OnlyWhenOn
<1>4. RefreshTypes' /\ KnownTokens' /\ FiringIsCurrent'
  BY <1>0, <1>1, <1>2 DEF RefreshTypes, KnownTokens, FiringIsCurrent, Grows
<1>5. OnlyWhenOn'
  BY <1>0, <1>3 DEF OnlyWhenOn
<1>6. MineIsCurrent'
  BY <1>0, <1>1 DEF MineIsCurrent, Uid
<1>7. FlagIsTrue'
  BY <1>0, <1>2, FlagStep
<1>8. RefreshGoesOn'
  <2>1. CASE Covers(user')
    BY <2>1, CoveredGoesOn
  <2>2. CASE ~Covers(user')
    <3>1. ~Asked(i)
      BY <1>0, <1>2, <2>2 DEF Asked, MineIsCurrent, Uid
    <3>2. \A k \in DOMAIN tasks : Asked(k) => \E j \in DOMAIN tasks' : Asked(j)'
      BY <1>1, <3>1 DEF Asked
    <3> QED
      BY <1>0, <1>2, <3>2, ProceedsGoesOn
  <2> QED
    BY <2>1, <2>2
<1> QED
  BY <1>4, <1>5, <1>6, <1>7, <1>8

\* A new token of the current user is announced and covered when it could be saved;
\* else the timer's callback tries again.
LEMMA AnswerKeeps ==
  ASSUME RefreshPart, NEW i, NEW t \in Tokens, NEW b \in BOOLEAN, Answer(i, t, b)
  PROVE  RefreshPart'
<1> USE DEF RefreshPart
<1>0. /\ i \in DOMAIN tasks /\ tasks' = Without(i) /\ tasks \in Seq(Tasks)
      /\ ready' = ready /\ user # None /\ user' = t /\ Uid(t) = Uid(user)
      /\ issued' = issued \cup {t}
      /\ UNCHANGED <<auto, background, waking, firing>> /\ firing = None
      /\ user' \in Users /\ t # None
  BY NoneAssumption DEF Answer, CanFinish, RefreshTypes, UpdateKeychain, Users
<1>1. /\ tasks' \in Seq(Tasks)
      /\ \A j \in DOMAIN tasks' : \E k \in DOMAIN tasks : tasks'[j] = tasks[k]
      /\ \A k \in DOMAIN tasks : k # i => \E j \in DOMAIN tasks' : tasks'[j] = tasks[k]
  BY <1>0, WithoutFacts
<1>2. auto /\ tasks[i].mine
  BY <1>0 DEF OnlyWhenOn, Answer
<1>3. MineIsCurrent'
  BY <1>0, <1>1 DEF MineIsCurrent
<1>4. FiringIsCurrent' /\ OnlyWhenOn'
  BY <1>0, <1>2 DEF FiringIsCurrent, OnlyWhenOn
<1>5. notified = t => t = user
  <2>1. t \notin issued \/ t = user
    BY DEF Answer
  <2> QED
    BY <1>0, <2>1 DEF KnownTokens
<1>6. CASE b
  <2>1. stored' = t /\ notified' = t /\ ScheduleIfPosted
    BY <1>6 DEF Answer, UpdateKeychain, PossiblyPost
  <2>2. /\ Grows
        /\ auto /\ notified' # notified /\ user' # None => Covers(user')
    BY <1>0, <2>1, PostedFacts
  <2>3. settled' \in BOOLEAN
    BY <1>6 DEF Answer, Settle, Unsettle
  <2>4. RefreshTypes' /\ KnownTokens'
    BY <1>0, <1>1, <2>1, <2>2, <2>3 DEF RefreshTypes, KnownTokens, Grows
  <2>5. CASE notified # t
    BY <1>0, <1>2, <1>3, <1>4, <2>1, <2>2, <2>4, <2>5, FlagStep, CoveredGoesOn
  <2>6. CASE notified = t
    <3>1. /\ UNCHANGED <<user, notified, scheduled, timers>>
          /\ settled' = (settled \/ Asked(i))
      BY <1>0, <1>5, <1>6, <2>1, <2>6 DEF Answer, Settle, ScheduleIfPosted, Asked
    <3>2. ASSUME NEW k \in DOMAIN tasks, Asked(k), ~settled'
          PROVE  \E j \in DOMAIN tasks' : Asked(j)'
      <4>1. k # i
        BY <3>1, <3>2
      <4>2. PICK j \in DOMAIN tasks' : tasks'[j] = tasks[k]
        BY <1>1, <4>1
      <4> QED
        BY <3>2, <4>2 DEF Asked
    <3>3. settled => settled'
      BY <3>1
    <3>4. RefreshGoesOn'
      BY <1>0, <2>2, <3>1, <3>2, <3>3, ProceedsGoesOn
    <3>5. FlagIsTrue'
      BY <2>2, <3>1, FlagStep
    <3> QED
      BY <1>3, <1>4, <2>4, <3>4, <3>5
  <2> QED
    BY <2>5, <2>6
<1>7. CASE ~b
  <2>1. /\ UNCHANGED <<stored, notified>> /\ RetryAfter(i)
        /\ settled' = (settled /\ user' = user)
    BY <1>7 DEF Answer, UpdateKeychain, Unsettle
  <2>2. /\ Grows
        /\ tasks[i].timer # None /\ Uid(user') = tasks[i].uid => Covers(user')
        /\ UNCHANGED <<scheduled, timers>> \/ Covers(user')
    BY <1>0, <2>1, RetryFacts
  <2>3. RefreshTypes' /\ KnownTokens'
    BY <1>0, <1>1, <2>1, <2>2 DEF RefreshTypes, KnownTokens, Grows
  <2>4. CASE Covers(user') \/ notified' # user'
    BY <1>3, <1>4, <2>2, <2>3, <2>4, FlagStep, CoveredGoesOn
  <2>5. CASE ~Covers(user') /\ notified' = user'
    <3>1. UNCHANGED <<user, notified, scheduled, timers>> /\ settled' = settled
      BY <1>0, <1>5, <2>1, <2>2, <2>5 DEF RefreshTypes
    <3>2. ~Asked(i)
      BY <1>0, <1>2, <2>2, <2>5 DEF Asked, MineIsCurrent
    <3>3. \A k \in DOMAIN tasks : Asked(k) => \E j \in DOMAIN tasks' : Asked(j)'
      BY <1>1, <3>2 DEF Asked
    <3>4. RefreshGoesOn'
      BY <1>0, <2>2, <3>1, <3>3, ProceedsGoesOn
    <3>5. FlagIsTrue'
      BY <2>2, <3>1, FlagStep
    <3> QED
      BY <1>3, <1>4, <2>3, <3>4, <3>5
  <2> QED
    BY <2>4, <2>5
<1> QED
  BY <1>6, <1>7

\* The current user is signed out by force: its fetches are disowned.
LEMMA AnswerInvalidKeeps ==
  ASSUME RefreshPart, NEW i, NEW b \in BOOLEAN, AnswerInvalid(i, b)
  PROVE  RefreshPart'
<1> USE DEF RefreshPart
<1>0. /\ i \in DOMAIN tasks /\ tasks \in Seq(Tasks) /\ RetryAfter(i)
      /\ ready' = ready /\ user' = None /\ notified' = None /\ stored' \in {stored, None}
      /\ settled' = (settled /\ user' = user)
      /\ UNCHANGED <<auto, background, waking, firing, issued>> /\ firing = None
      /\ user' \in Users
      /\ tasks' = Disowned(Without(i))
  BY DEF AnswerInvalid, CanFinish, RefreshTypes, SignOutByForce, UpdateCurrentUser,
     PossiblyPost, Unsettle, Users
<1>1. tasks' \in Seq(Tasks) /\ \A j \in DOMAIN tasks' : ~tasks'[j].mine
  <2>1. Without(i) \in Seq(Tasks)
    BY <1>0, WithoutFacts
  <2> QED
    BY <1>0, <2>1, DisownFacts
<1>2. Grows
  BY <1>0, RetryFacts
<1>3. auto
  BY <1>0 DEF OnlyWhenOn
<1>4. RefreshTypes' /\ KnownTokens' /\ FiringIsCurrent' /\ OnlyWhenOn' /\ MineIsCurrent'
  BY <1>0, <1>1, <1>2, <1>3
     DEF RefreshTypes, KnownTokens, FiringIsCurrent, OnlyWhenOn, MineIsCurrent, Grows
<1>5. FlagIsTrue' /\ RefreshGoesOn'
  BY <1>0, <1>2, FlagStep, CoveredGoesOn
<1> QED
  BY <1>4, <1>5

\* In the background nothing is promised; on return the flag, which tells the truth,
\* decides whether a timer is needed.
LEMMA AppStateKeeps ==
  ASSUME RefreshPart, AuthInv, DidEnterBackground \/ DidBecomeActive \/ ScheduleIfNone
  PROVE  RefreshPart'
<1> USE DEF RefreshPart
<1>0. /\ UNCHANGED <<stored, ready, user, notified>>
      /\ UNCHANGED <<auto, firing, tasks, issued, settled>>
      /\ user \in Users
      /\ background' \in BOOLEAN /\ waking' \in BOOLEAN
  BY DEF DidEnterBackground, DidBecomeActive, ScheduleIfNone, authVars, AuthInv, AuthTypeOK, RefreshTypes
<1>1. MineIsCurrent'
  BY <1>0 DEF MineIsCurrent, Uid
<1>2. CASE DidEnterBackground \/ DidBecomeActive
  <2>1. /\ UNCHANGED <<scheduled, timers>> /\ auto
        /\ (background' /\ waking' = waking) \/ waking'
    BY <1>2 DEF DidEnterBackground, DidBecomeActive
  <2>2. RefreshTypes' /\ KnownTokens' /\ FiringIsCurrent' /\ OnlyWhenOn' /\ FlagIsTrue'
    BY <1>0, <2>1
       DEF RefreshTypes, KnownTokens, FiringIsCurrent, OnlyWhenOn, FlagIsTrue, TimerFor
  <2>3. RefreshGoesOn'
    BY <2>1 DEF RefreshGoesOn
  <2> QED
    BY <1>1, <2>2, <2>3
<1>3. CASE ScheduleIfNone
  <2>1. waking /\ auto /\ ~waking'
    BY <1>3 DEF ScheduleIfNone, OnlyWhenOn
  <2>2. /\ Grows
        /\ scheduled => UNCHANGED <<scheduled, timers>>
        /\ ~scheduled => (user = None /\ UNCHANGED <<scheduled, timers>>) \/ Covers(user)
    <3>1. CASE scheduled
      BY <1>3, <3>1, NoTimerStep DEF ScheduleIfNone
    <3>2. CASE ~scheduled
      <4>1. ScheduleWithDelay(user, 0, FALSE)
        BY <1>3, <3>2 DEF ScheduleIfNone, Schedule
      <4> QED
        BY <1>0, <3>2, <4>1, FirstDelay, ScheduleFacts
    <3> QED
      BY <3>1, <3>2
  <2>3. RefreshTypes' /\ KnownTokens' /\ FiringIsCurrent' /\ OnlyWhenOn'
    BY <1>0, <2>1, <2>2 DEF RefreshTypes, KnownTokens, FiringIsCurrent, OnlyWhenOn, Grows
  <2>4. FlagIsTrue'
    BY <1>0, <2>2, FlagStep
  <2>5. RefreshGoesOn'
    <3>1. CASE scheduled
      <4>1. user # None /\ notified = user => TimerFor(user)'
        BY <1>0, <2>2, <3>1 DEF FlagIsTrue, TimerFor
      <4> QED
        BY <1>0, <4>1 DEF RefreshGoesOn, Alive
    <3>2. CASE ~scheduled
      BY <1>0, <2>2, <3>2, CoveredGoesOn
    <3> QED
      BY <3>1, <3>2
  <2> QED
    BY <1>1, <2>3, <2>4, <2>5
<1> QED
  BY <1>2, <1>3

\* A new process starts with the refresh off.
LEMMA RelaunchKeeps ==
  ASSUME RefreshPart, Relaunch
  PROVE  RefreshPart'
<1> USE DEF RefreshPart
<1>0. /\ user' = None /\ notified' = None /\ stored' = stored /\ issued' = issued
      /\ auto' = FALSE /\ scheduled' = FALSE /\ background' = FALSE /\ waking' = FALSE
      /\ timers' = [tm \in Timers |-> 0] /\ firing' = None /\ tasks' = <<>> /\ settled' = FALSE
  BY DEF Relaunch, Restart
<1>1. RefreshTypes'
  <2>1. timers' \in [Timers -> Nat]
    BY <1>0
  <2>2. tasks' \in Seq(Tasks)
    BY <1>0
  <2>3. issued' \subseteq Tokens /\ settled' \in BOOLEAN
    BY <1>0 DEF RefreshTypes
  <2> QED
    BY <1>0, <2>1, <2>2, <2>3 DEF RefreshTypes
<1>3. KnownTokens'
  BY <1>0 DEF KnownTokens
<1>2. OnlyWhenOn' /\ FiringIsCurrent' /\ MineIsCurrent' /\ FlagIsTrue' /\ RefreshGoesOn'
  BY <1>0 DEF OnlyWhenOn, FiringIsCurrent, MineIsCurrent, FlagIsTrue, RefreshGoesOn
<1> QED
  BY <1>1, <1>2, <1>3

\* A notification that is delivered concerns neither tokens nor timers.
LEMMA RunMainKeeps ==
  ASSUME RefreshPart, RunMain \/ UNCHANGED vars
  PROVE  RefreshPart'
<1>1. UNCHANGED <<stored, ready, user, notified>> /\ UNCHANGED refreshVars
  BY DEF RunMain, RunAuthBlock, vars, authVars
<1> QED
  BY <1>1 DEF RefreshPart, RefreshTypes, KnownTokens, OnlyWhenOn, FiringIsCurrent, MineIsCurrent,
     FlagIsTrue, RefreshGoesOn, Alive, TimerFor, Uid, refreshVars

-----------------------------------------------------------------------------
(* The theorems.                                                           *)

\* The refresh starts in the invariant.
LEMMA RefreshInitInv == Init => RefreshInv
<1> SUFFICES ASSUME Init PROVE RefreshInv
  OBVIOUS
<1>1. AuthInv
  BY InitInv DEF Init
<1>2. RefreshTypes
  <2>1. issued \subseteq Tokens
    BY DEF Init, AuthInit, Users
  <2>2. timers \in [Timers -> Nat]
    BY DEF Init
  <2>3. tasks \in Seq(Tasks)
    BY DEF Init
  <2> QED
    BY <2>1, <2>2, <2>3 DEF Init, RefreshTypes
<1>3. KnownTokens
  BY DEF Init, AuthInit, KnownTokens
<1>4. OnlyWhenOn /\ FiringIsCurrent /\ MineIsCurrent /\ FlagIsTrue /\ RefreshGoesOn
  BY DEF Init, OnlyWhenOn, FiringIsCurrent, MineIsCurrent, FlagIsTrue, RefreshGoesOn
<1> QED
  BY <1>1, <1>2, <1>3, <1>4 DEF RefreshInv, RefreshPart

\* Every step keeps it.
LEMMA RefreshNextInv == RefreshInv /\ [Next]_vars => RefreshInv'
<1> SUFFICES ASSUME RefreshInv, [Next]_vars PROVE RefreshInv'
  OBVIOUS
<1>0. AuthInv /\ RefreshPart
  BY DEF RefreshInv
<1>1. AuthInv'
  BY <1>0, RefreshAuthStep, NextInv
<1>2. ASSUME NEW b \in BOOLEAN, LoadSavedUser(b) \/ UserSignsOut(b) \/ SaveProfile(b)
      PROVE  RefreshPart'
  BY <1>0, <1>1, <1>2, LoadKeeps, SignOutKeeps, SaveProfileKeeps
<1>3. ASSUME NEW t \in Tokens, NEW b \in BOOLEAN, SignIn(t, b) PROVE RefreshPart'
  BY <1>0, <1>1, <1>3, SignInKeeps
<1>4. ASSUME GetToken \/ Refresh PROVE RefreshPart'
  BY <1>0, <1>4, GetTokenKeeps, RefreshKeeps
<1>5. ASSUME NEW tm \in Timers, FireStale(tm) \/ Fire(tm) PROVE RefreshPart'
  BY <1>0, <1>5, FireStaleKeeps, FireKeeps
<1>6. ASSUME NEW i \in 1..MaxTasks, AnswerSame(i) \/ AnswerError(i) PROVE RefreshPart'
  BY <1>0, <1>6, AnswerSameKeeps, AnswerErrorKeeps
<1>7. ASSUME NEW i \in 1..MaxTasks, NEW t \in Tokens, NEW b \in BOOLEAN, Answer(i, t, b)
      PROVE  RefreshPart'
  BY <1>0, <1>7, AnswerKeeps
<1>8. ASSUME NEW i \in 1..MaxTasks, NEW b \in BOOLEAN, AnswerInvalid(i, b)
      PROVE  RefreshPart'
  BY <1>0, <1>8, AnswerInvalidKeeps
<1>9. ASSUME DidEnterBackground \/ DidBecomeActive \/ ScheduleIfNone PROVE RefreshPart'
  BY <1>0, <1>9, AppStateKeeps
<1>10. ASSUME RunMain \/ UNCHANGED vars PROVE RefreshPart'
  BY <1>0, <1>10, RunMainKeeps
<1>11. ASSUME Relaunch PROVE RefreshPart'
  BY <1>0, <1>11, RelaunchKeeps
<1>12. RefreshPart'
  BY <1>2, <1>3, <1>4, <1>5, <1>6, <1>7, <1>8, <1>9, <1>10, <1>11 DEF Next
<1> QED
  BY <1>1, <1>12 DEF RefreshInv

\* The invariant holds throughout.
THEOREM RefreshInvariance == Spec => []RefreshInv
BY RefreshInitInv, RefreshNextInv, PTL DEF Spec

\* Timers, fetches and delays have their types: in particular a delay that doubles
\* stays within kMaxWaitTimeForBackoff.
THEOREM RefreshTypeCorrect == Spec => []TypeOK
<1>1. RefreshInv => TypeOK
  BY DEF RefreshInv, RefreshPart, RefreshTypes, AuthInv, TypeOK
<1> QED
  BY <1>1, RefreshInvariance, PTL

\* While _autoRefreshScheduled is set, a timer for the announced token is pending.
THEOREM FlagIsTrueHolds == Spec => []FlagIsTrue
<1>1. RefreshInv => FlagIsTrue
  BY DEF RefreshInv, RefreshPart
<1> QED
  BY <1>1, RefreshInvariance, PTL

\* In the foreground the refreshes of a signed-in user never die out: whatever
\* failed, whoever came and went and however often the app was in the background.
THEOREM RefreshGoesOnHolds == Spec => []RefreshGoesOn
<1>1. RefreshInv => RefreshGoesOn
  BY DEF RefreshInv, RefreshPart
<1> QED
  BY <1>1, RefreshInvariance, PTL

\* The Auth client under the automatic refresh is still FIRAuth, so what is proved of
\* FIRAuth holds of it: no token it fetches on its own account loses a listener.
THEOREM RefreshKeepsListeners == Spec => []NoLostAuthChange
<1>1. RefreshInv => NoLostAuthChange
  BY DEF RefreshInv, AuthInv
<1> QED
  BY <1>1, RefreshInvariance, PTL

=============================================================================
