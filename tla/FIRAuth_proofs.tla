--------------------------- MODULE FIRAuth_proofs ---------------------------
(***************************************************************************)
(* Proofs about FIRAuth for every set of users, tokens and listeners and   *)
(* every bound on the main queue.                                          *)
(***************************************************************************)
EXTENDS FIRAuth, TLAPS

-----------------------------------------------------------------------------
(* The blocks and the queue operations.                                    *)

\* The user ID of a user is a user ID; a notification for it is a block.
LEMMA UidType ==
  ASSUME NEW u \in Users
  PROVE  /\ Uid(u) \in UserIds
         /\ Post(u) \in Blocks
         /\ Post(u).kind = "post"
         /\ Post(u).uid = Uid(u)
BY UidOfAssumption, NoneAssumption DEF Users, UserIds, Uid, Post, Blocks

\* A listener's first call is a block.
LEMMA InitialCallType ==
  ASSUME NEW l \in Listeners
  PROVE  /\ InitialCall(l) \in Blocks
         /\ InitialCall(l).kind = "init"
         /\ InitialCall(l).listener = l
BY DEF InitialCall, Blocks

\* What a block with a given kind is.
LEMMA BlockKinds ==
  ASSUME NEW b \in Blocks
  PROVE  /\ b.kind = "init" => b.listener \in Listeners /\ b = InitialCall(b.listener)
         /\ b \in Calls => b.kind \notin {"post", "init"}
<1>1. b \in Calls => b.kind \notin {"post", "init"}
  BY CallsAssumption
<1>2. b.kind = "init" => b \in [kind : {"init"}, listener : Listeners]
  BY <1>1 DEF Blocks
<1>3. ASSUME b \in [kind : {"init"}, listener : Listeners]
      PROVE  b.listener \in Listeners /\ b = InitialCall(b.listener)
  BY <1>3 DEF InitialCall
<1> QED
  BY <1>1, <1>2, <1>3

\* A block appended to the queue: it waits there, everything that waited still
\* does, and the last notification is the new block or the one it was.
LEMMA AppendFacts ==
  ASSUME NEW q \in Seq(Blocks), NEW b \in Blocks
  PROVE  /\ Append(q, b) \in Seq(Blocks)
         /\ Pending(Append(q, b), b)
         /\ \A c : Pending(q, c) => Pending(Append(q, b), c)
         /\ PendingPost(q) => PendingPost(Append(q, b))
         /\ b.kind = "post" => /\ PendingPost(Append(q, b))
                               /\ PostsEndWith(Append(q, b), b.uid)
         /\ b.kind # "post" => \A uid : PostsEndWith(q, uid) => PostsEndWith(Append(q, b), uid)
<1> DEFINE r == Append(q, b)
<1>1. /\ r \in Seq(Blocks)
      /\ Len(r) = Len(q) + 1
      /\ r[Len(q) + 1] = b
      /\ \A i \in 1..Len(q) : r[i] = q[i]
      /\ Len(q) \in Nat
  OBVIOUS
<1> HIDE DEF r
<1>2. Pending(r, b)
  BY <1>1 DEF Pending
<1>3. \A c : Pending(q, c) => Pending(r, c)
  BY <1>1 DEF Pending
<1>4. PendingPost(q) => PendingPost(r)
  BY <1>1 DEF PendingPost
<1>5. b.kind = "post" => PendingPost(r)
  BY <1>1 DEF PendingPost
<1>6. ASSUME b.kind = "post" PROVE PostsEndWith(r, b.uid)
  <2> SUFFICES ASSUME NEW i \in 1..Len(r), \A j \in i+1..Len(r) : r[j].kind # "post"
               PROVE  r[i].uid = b.uid
    BY DEF PostsEndWith
  <2>1. i = Len(q) + 1
    BY <1>1, <1>6
  <2> QED
    BY <2>1, <1>1
<1>7. ASSUME b.kind # "post", NEW uid, PostsEndWith(q, uid) PROVE PostsEndWith(r, uid)
  <2> SUFFICES ASSUME NEW i \in 1..Len(r), r[i].kind = "post",
                      \A j \in i+1..Len(r) : r[j].kind # "post"
               PROVE  r[i].uid = uid
    BY DEF PostsEndWith
  <2>1. i \in 1..Len(q)
    BY <1>1, <1>7
  <2>2. \A j \in i+1..Len(q) : q[j].kind # "post"
    BY <2>1, <1>1
  <2> QED
    BY <2>1, <2>2, <1>1, <1>7 DEF PostsEndWith
<1> QED
  BY <1>1, <1>2, <1>3, <1>4, <1>5, <1>6, <1>7 DEF r

\* The head block taken off the queue: whatever else waited still does, and the
\* last notification still carries the same user ID.
LEMMA TailFacts ==
  ASSUME NEW q \in Seq(Blocks), q # <<>>
  PROVE  /\ Head(q) \in Blocks
         /\ Tail(q) \in Seq(Blocks)
         /\ \A c : Pending(q, c) /\ c # Head(q) => Pending(Tail(q), c)
         /\ PendingPost(q) /\ Head(q).kind # "post" => PendingPost(Tail(q))
         /\ \A uid : PostsEndWith(q, uid) => PostsEndWith(Tail(q), uid)
         /\ \A i \in 1..Len(Tail(q)) : Tail(q)[i] = q[i+1] /\ i+1 \in 1..Len(q)
<1> DEFINE r == Tail(q)
<1>1. /\ r \in Seq(Blocks)
      /\ Len(q) = Len(r) + 1
      /\ Head(q) = q[1]
      /\ \A i \in 1..Len(r) : r[i] = q[i+1]
      /\ Len(r) \in Nat
      /\ Head(q) \in Blocks
  OBVIOUS
<1> HIDE DEF r
<1>2. \A c : Pending(q, c) /\ c # Head(q) => Pending(r, c)
  <2> SUFFICES ASSUME NEW c, NEW i \in 1..Len(q), q[i] = c, c # Head(q)
               PROVE  Pending(r, c)
    BY DEF Pending
  <2>1. i - 1 \in 1..Len(r) /\ r[i - 1] = c
    BY <1>1
  <2> QED
    BY <2>1 DEF Pending
<1>3. ASSUME PendingPost(q), Head(q).kind # "post" PROVE PendingPost(r)
  <2>1. PICK i \in 1..Len(q) : q[i].kind = "post"
    BY <1>3 DEF PendingPost
  <2>2. i - 1 \in 1..Len(r) /\ r[i - 1] = q[i]
    BY <2>1, <1>1, <1>3
  <2> QED
    BY <2>1, <2>2 DEF PendingPost
<1>4. ASSUME NEW uid, PostsEndWith(q, uid) PROVE PostsEndWith(r, uid)
  <2> SUFFICES ASSUME NEW i \in 1..Len(r), r[i].kind = "post",
                      \A j \in i+1..Len(r) : r[j].kind # "post"
               PROVE  r[i].uid = uid
    BY DEF PostsEndWith
  <2>1. i+1 \in 1..Len(q) /\ q[i+1] = r[i]
    BY <1>1
  <2>2. ASSUME NEW j \in (i+1)+1..Len(q) PROVE q[j].kind # "post"
    <3>1. j - 1 \in i+1..Len(r) /\ r[j - 1] = q[j]
      BY <1>1
    <3> QED
      BY <3>1
  <2> QED
    BY <2>1, <2>2, <1>4 DEF PostsEndWith
<1> QED
  BY <1>1, <1>2, <1>3, <1>4 DEF r

-----------------------------------------------------------------------------
(* The inductive invariant.                                                *)

\* NoLostAuthChange is not inductive: that a swallowed notification loses
\* nothing rests on the announced token being one of the current user.
AuthInv ==
  /\ AuthTypeOK
  /\ NoLostAuthChange
  /\ AnnouncedIsCurrent
  /\ LastPostIsCurrent
  /\ SignedInIsPersisted
  /\ HandlesInUse

\* What is appended after a notification: nothing, or one client block.
IsCalls(calls) == calls = <<>> \/ \E c \in Calls : calls = <<c>>

\* Client blocks appended to the queue lose nothing that waited in it.
LEMMA CallsFacts ==
  ASSUME NEW q \in Seq(Blocks), NEW calls, IsCalls(calls)
  PROVE  /\ q \o calls \in Seq(Blocks)
         /\ \A b : Pending(q, b) => Pending(q \o calls, b)
         /\ PendingPost(q) => PendingPost(q \o calls)
         /\ \A uid : PostsEndWith(q, uid) => PostsEndWith(q \o calls, uid)
         /\ \A i \in 1..Len(q \o calls) :
              \/ i \in 1..Len(q) /\ (q \o calls)[i] = q[i]
              \/ (q \o calls)[i].kind \notin {"post", "init"}
<1>1. CASE calls = <<>>
  <2>1. q \o calls = q
    BY <1>1
  <2> QED
    BY <2>1
<1>2. ASSUME NEW c \in Calls, calls = <<c>>
      PROVE  /\ q \o calls \in Seq(Blocks)
             /\ \A b : Pending(q, b) => Pending(q \o calls, b)
             /\ PendingPost(q) => PendingPost(q \o calls)
             /\ \A uid : PostsEndWith(q, uid) => PostsEndWith(q \o calls, uid)
             /\ \A i \in 1..Len(q \o calls) :
                  \/ i \in 1..Len(q) /\ (q \o calls)[i] = q[i]
                  \/ (q \o calls)[i].kind \notin {"post", "init"}
  <2>1. q \o calls = Append(q, c)
    BY <1>2
  <2>2. c \in Blocks /\ c.kind \notin {"post", "init"}
    BY CallsAssumption DEF Blocks
  <2>3. \A i \in 1..Len(Append(q, c)) :
          \/ i \in 1..Len(q) /\ Append(q, c)[i] = q[i]
          \/ Append(q, c)[i].kind \notin {"post", "init"}
    BY <2>2
  <2> QED
    BY <2>1, <2>2, <2>3, AppendFacts
<1> QED
  BY <1>1, <1>2 DEF IsCalls

\* A change of the current user to u that possibly posts keeps what the main
\* queue and the listeners owe each other.
LEMMA ChangeUserInv ==
  ASSUME AuthInv, NEW u \in Users, NEW calls, IsCalls(calls),
         user' = u, PossiblyPost(u, calls), UNCHANGED <<observers, prev>>
  PROVE  /\ notified' \in Users
         /\ mainQ' \in Seq(Blocks)
         /\ NoLostAuthChange'
         /\ AnnouncedIsCurrent'
         /\ LastPostIsCurrent'
         /\ HandlesInUse'
<1> DEFINE q == IF notified = u THEN mainQ ELSE Append(mainQ, Post(u))
<1>0. mainQ \in Seq(Blocks) /\ notified \in Users /\ user \in Users
  BY DEF AuthInv, AuthTypeOK
<1>1. mainQ' = q \o calls /\ notified' = u
  BY DEF PossiblyPost
<1>2. /\ q \in Seq(Blocks)
      /\ \A b : Pending(mainQ, b) => Pending(q, b)
      /\ PendingPost(mainQ) => PendingPost(q)
      /\ PostsEndWith(q, Uid(u))
      /\ \A i \in 1..Len(q) : \/ i \in 1..Len(mainQ) /\ q[i] = mainQ[i]
                              \/ q[i].kind = "post"
      /\ Uid(u) = Uid(user) \/ PendingPost(q)
  <2>1. CASE notified = u
    <3>1. Uid(u) = Uid(user)
      BY <2>1 DEF AuthInv, AnnouncedIsCurrent
    <3> QED
      BY <2>1, <3>1, <1>0 DEF AuthInv, LastPostIsCurrent
  <2>2. CASE notified # u
    <3>1. q = Append(mainQ, Post(u))
      BY <2>2
    <3>2. \A i \in 1..Len(Append(mainQ, Post(u))) :
            \/ i \in 1..Len(mainQ) /\ Append(mainQ, Post(u))[i] = mainQ[i]
            \/ Append(mainQ, Post(u))[i].kind = "post"
      BY <1>0, UidType
    <3> QED
      BY <3>1, <3>2, <1>0, UidType, AppendFacts
  <2> QED
    BY <2>1, <2>2
<1> HIDE DEF q
<1>3. /\ mainQ' \in Seq(Blocks)
      /\ \A b : Pending(mainQ, b) => Pending(mainQ', b)
      /\ PendingPost(q) => PendingPost(mainQ')
      /\ PostsEndWith(mainQ', Uid(u))
      /\ \A i \in 1..Len(mainQ') :
           \/ i \in 1..Len(q) /\ mainQ'[i] = q[i]
           \/ mainQ'[i].kind \notin {"post", "init"}
  BY <1>1, <1>2, CallsFacts
<1>4. NoLostAuthChange'
  <2> SUFFICES ASSUME NEW l \in observers
               PROVE  \/ prev[l] = Uid(u)
                      \/ PendingPost(mainQ')
                      \/ Pending(mainQ', InitialCall(l))
    BY DEF NoLostAuthChange, Uid, InitialCall
  <2>1. prev[l] = Uid(user) \/ PendingPost(mainQ) \/ Pending(mainQ, InitialCall(l))
    BY DEF AuthInv, NoLostAuthChange
  <2> QED
    BY <2>1, <1>2, <1>3
<1>5. AnnouncedIsCurrent'
  BY <1>1 DEF AnnouncedIsCurrent, Uid
<1>6. LastPostIsCurrent'
  BY <1>3 DEF LastPostIsCurrent, PostsEndWith, Uid
<1>7. HandlesInUse'
  <2>1. ASSUME NEW i \in 1..Len(mainQ'), mainQ'[i].kind = "init"
        PROVE  prev[mainQ'[i].listener] # Unused
    <3>1. i \in 1..Len(mainQ) /\ mainQ'[i] = mainQ[i]
      BY <2>1, <1>2, <1>3
    <3> QED
      BY <3>1, <2>1 DEF AuthInv, HandlesInUse
  <2>2. \A l \in observers' : prev'[l] # Unused
    BY DEF AuthInv, HandlesInUse
  <2> QED
    BY <2>1, <2>2 DEF HandlesInUse
<1> QED
  BY <1>1, <1>3, <1>4, <1>5, <1>6, <1>7

\* The work queue's steps keep the invariant.
LEMMA WorkStepInv ==
  ASSUME AuthInv, WorkStep
  PROVE  AuthInv'
<1> USE DEF AuthInv
<1>0. /\ stored \in Users /\ user \in Users /\ None \in Users
      /\ IsCalls(<<>>) /\ \A c \in Calls : IsCalls(<<c>>)
      /\ Tokens \subseteq Users
  BY DEF AuthTypeOK, Users, IsCalls
<1>1. ASSUME NEW ok \in BOOLEAN, LoadUser(ok) PROVE AuthInv'
  <2>1. CASE ok
    <3>1. user' = stored /\ PossiblyPost(stored, <<>>) /\ UNCHANGED <<stored, observers, prev>>
      BY <1>1, <2>1 DEF LoadUser
    <3>3. /\ notified' \in Users /\ mainQ' \in Seq(Blocks) /\ NoLostAuthChange'
          /\ AnnouncedIsCurrent' /\ LastPostIsCurrent' /\ HandlesInUse'
      BY <3>1, <1>0, ChangeUserInv
    <3>4. AuthTypeOK'
      BY <1>1, <3>1, <3>3, <1>0 DEF AuthTypeOK, LoadUser
    <3>5. SignedInIsPersisted'
      BY <3>1 DEF SignedInIsPersisted, Uid
    <3> QED
      BY <3>3, <3>4, <3>5
  <2>2. CASE ~ok
    BY <1>1, <2>2 DEF LoadUser, AuthTypeOK, NoLostAuthChange, AnnouncedIsCurrent,
       LastPostIsCurrent, SignedInIsPersisted, HandlesInUse, Uid, InitialCall,
       Pending, PendingPost, PostsEndWith
  <2> QED
    BY <2>1, <2>2
<1>2. ASSUME NEW u \in Users, NEW force \in BOOLEAN, NEW saved \in BOOLEAN,
             NEW calls, IsCalls(calls),
             UpdateCurrentUser(u, force, saved, calls),
             force => u = None,
             UNCHANGED <<ready, observers, prev>>
      PROVE  AuthInv'
  <2>1. CASE saved \/ force
    <3>1. user' = u /\ PossiblyPost(u, calls) /\ stored' = IF saved THEN u ELSE stored
      BY <1>2, <2>1 DEF UpdateCurrentUser
    <3>2. /\ notified' \in Users /\ mainQ' \in Seq(Blocks) /\ NoLostAuthChange'
          /\ AnnouncedIsCurrent' /\ LastPostIsCurrent' /\ HandlesInUse'
      BY <3>1, <1>2, <1>0, ChangeUserInv
    <3>3. AuthTypeOK'
      BY <1>2, <3>1, <3>2, <1>0 DEF AuthTypeOK
    <3>4. SignedInIsPersisted'
      BY <1>2, <2>1, <3>1 DEF SignedInIsPersisted, Uid
    <3> QED
      BY <3>2, <3>3, <3>4
  <2>2. CASE ~(saved \/ force)
    <3>1. mainQ' = mainQ \o calls /\ UNCHANGED <<user, notified, stored>>
      BY <1>2, <2>2 DEF UpdateCurrentUser
    <3>2. mainQ \in Seq(Blocks)
      BY DEF AuthTypeOK
    <3>3. /\ mainQ' \in Seq(Blocks)
          /\ \A b : Pending(mainQ, b) => Pending(mainQ', b)
          /\ PendingPost(mainQ) => PendingPost(mainQ')
          /\ \A uid : PostsEndWith(mainQ, uid) => PostsEndWith(mainQ', uid)
          /\ \A i \in 1..Len(mainQ') :
               \/ i \in 1..Len(mainQ) /\ mainQ'[i] = mainQ[i]
               \/ mainQ'[i].kind \notin {"post", "init"}
      BY <3>1, <3>2, <1>2, CallsFacts
    <3>4. AuthTypeOK'
      BY <1>2, <3>1, <3>3 DEF AuthTypeOK
    <3>5. NoLostAuthChange'
      BY <1>2, <3>1, <3>3 DEF NoLostAuthChange, Uid, InitialCall
    <3>6. AnnouncedIsCurrent' /\ SignedInIsPersisted'
      BY <3>1 DEF AnnouncedIsCurrent, SignedInIsPersisted, Uid
    <3>7. LastPostIsCurrent'
      BY <3>1, <3>3 DEF LastPostIsCurrent
    <3>8. HandlesInUse'
      BY <1>2, <3>3 DEF HandlesInUse
    <3> QED
      BY <3>4, <3>5, <3>6, <3>7, <3>8
  <2> QED
    BY <2>1, <2>2
<1>3. ASSUME NEW t \in Tokens, NEW saved \in BOOLEAN, NEW calls, IsCalls(calls),
             CompleteSignIn(t, saved, calls)
      PROVE  AuthInv'
  BY <1>3, <1>2, <1>0 DEF CompleteSignIn
<1>4. ASSUME NEW removed \in BOOLEAN, SignOut(removed) PROVE AuthInv'
  BY <1>4, <1>2, <1>0 DEF SignOut
<1>5. ASSUME NEW removed \in BOOLEAN, SignOutByForce(removed) PROVE AuthInv'
  BY <1>5, <1>2, <1>0 DEF SignOutByForce
<1>6. ASSUME NEW t \in Tokens, NEW saved \in BOOLEAN, NEW calls, IsCalls(calls),
             UpdateKeychain(t, saved, calls)
      PROVE  AuthInv'
  <2>1. CASE saved
    <3>1. /\ user' = t /\ stored' = t /\ PossiblyPost(t, calls)
          /\ UNCHANGED <<ready, observers, prev>>
      BY <1>6, <2>1 DEF UpdateKeychain
    <3>2. /\ notified' \in Users /\ mainQ' \in Seq(Blocks) /\ NoLostAuthChange'
          /\ AnnouncedIsCurrent' /\ LastPostIsCurrent' /\ HandlesInUse'
      BY <3>1, <1>6, <1>0, ChangeUserInv
    <3>3. AuthTypeOK' /\ SignedInIsPersisted'
      BY <3>1, <3>2, <1>0 DEF AuthTypeOK, SignedInIsPersisted, Uid
    <3> QED
      BY <3>2, <3>3
  <2>2. CASE ~saved
    <3>1. /\ user' = t /\ Uid(t) = Uid(user) /\ user # None /\ mainQ' = mainQ \o calls
          /\ UNCHANGED <<stored, notified, ready, observers, prev>>
      BY <1>6, <2>2 DEF UpdateKeychain
    <3>2. Uid(user') = Uid(user) /\ mainQ \in Seq(Blocks)
      BY <3>1 DEF AuthTypeOK
    <3>7. /\ mainQ' \in Seq(Blocks)
          /\ \A b : Pending(mainQ, b) => Pending(mainQ', b)
          /\ PendingPost(mainQ) => PendingPost(mainQ')
          /\ \A uid : PostsEndWith(mainQ, uid) => PostsEndWith(mainQ', uid)
          /\ \A i \in 1..Len(mainQ') :
               \/ i \in 1..Len(mainQ) /\ mainQ'[i] = mainQ[i]
               \/ mainQ'[i].kind \notin {"post", "init"}
      BY <3>1, <3>2, <1>6, CallsFacts
    <3>3. AuthTypeOK'
      BY <3>1, <3>7, <1>0 DEF AuthTypeOK
    <3>4. NoLostAuthChange'
      BY <3>1, <3>2, <3>7 DEF NoLostAuthChange, InitialCall
    <3>8. LastPostIsCurrent'
      BY <3>2, <3>7 DEF LastPostIsCurrent, PostsEndWith
    <3>5. AnnouncedIsCurrent' /\ SignedInIsPersisted'
      BY <3>1, <3>2 DEF AnnouncedIsCurrent, SignedInIsPersisted
    <3>6. HandlesInUse'
      BY <3>1, <3>7 DEF HandlesInUse
    <3> QED
      BY <3>3, <3>4, <3>5, <3>6, <3>8
  <2> QED
    BY <2>1, <2>2
<1> QED
  BY <1>0, <1>1, <1>3, <1>4, <1>5, <1>6 DEF WorkStep

\* Appending a client block, or a listener's registration, keeps the invariant
\* when the rest of the queue is q, what is left of mainQ.
LEMMA AddListenerInv ==
  ASSUME AuthInv, NEW q \in Seq(Blocks), NEW l \in Listeners, AddListenerTo(q, l),
         PendingPost(mainQ) => PendingPost(q),
         \A m \in Listeners : Pending(mainQ, InitialCall(m)) => Pending(q, InitialCall(m)),
         PostsEndWith(q, Uid(user)),
         \A i \in 1..Len(q) : q[i].kind = "init" => prev[q[i].listener] # Unused,
         UNCHANGED <<stored, ready, user, notified>>
  PROVE  AuthInv'
<1> USE DEF AuthInv
<1> DEFINE r == Append(q, InitialCall(l))
<1>0. /\ prev[l] = Unused
      /\ observers' = observers \cup {l}
      /\ prev' = [prev EXCEPT ![l] = Fresh]
      /\ mainQ' = r
  BY DEF AddListenerTo
<1>1. /\ r \in Seq(Blocks)
      /\ Pending(r, InitialCall(l))
      /\ \A c : Pending(q, c) => Pending(r, c)
      /\ PendingPost(q) => PendingPost(r)
      /\ PostsEndWith(r, Uid(user))
  BY InitialCallType, AppendFacts
<1>2. \A i \in 1..Len(r) : r[i] = InitialCall(l) \/ (i \in 1..Len(q) /\ r[i] = q[i])
  OBVIOUS
<1>3. prev \in [Listeners -> UserIds \cup {Fresh, Unused}] /\ observers \subseteq Listeners
  BY DEF AuthTypeOK
<1> HIDE DEF r
<1>4. AuthTypeOK'
  BY <1>0, <1>1, <1>3 DEF AuthTypeOK
<1>5. NoLostAuthChange'
  <2> SUFFICES ASSUME NEW m \in observers'
               PROVE  \/ prev'[m] = Uid(user)
                      \/ PendingPost(r)
                      \/ Pending(r, InitialCall(m))
    BY <1>0 DEF NoLostAuthChange
  <2>1. CASE m = l
    BY <2>1, <1>1
  <2>2. CASE m # l
    <3>1. m \in observers /\ m \in Listeners /\ prev'[m] = prev[m]
      BY <2>2, <1>0, <1>3
    <3>2. prev[m] = Uid(user) \/ PendingPost(mainQ) \/ Pending(mainQ, InitialCall(m))
      BY <3>1 DEF NoLostAuthChange
    <3> QED
      BY <3>1, <3>2, <1>1
  <2> QED
    BY <2>1, <2>2
<1>6. AnnouncedIsCurrent' /\ SignedInIsPersisted'
  BY DEF AnnouncedIsCurrent, SignedInIsPersisted
<1>7. LastPostIsCurrent'
  BY <1>0, <1>1 DEF LastPostIsCurrent
<1>8. HandlesInUse'
  <2>1. ASSUME NEW m \in observers' PROVE prev'[m] # Unused
    BY <2>1, <1>0, <1>3, SentinelAssumption DEF HandlesInUse
  <2>2. ASSUME NEW i \in 1..Len(r), r[i].kind = "init"
        PROVE  prev'[r[i].listener] # Unused
    <3>1. CASE r[i] = InitialCall(l)
      BY <3>1, <1>0, <1>3, InitialCallType, SentinelAssumption
    <3>2. CASE i \in 1..Len(q) /\ r[i] = q[i]
      BY <3>2, <2>2, <1>0, <1>3, SentinelAssumption
    <3> QED
      BY <3>1, <3>2, <1>2
  <2> QED
    BY <2>1, <2>2, <1>0 DEF HandlesInUse
<1> QED
  BY <1>4, <1>5, <1>6, <1>7, <1>8

\* The main thread's steps keep the invariant.
LEMMA MainStepInv ==
  ASSUME AuthInv, MainStep
  PROVE  AuthInv'
<1> USE DEF AuthInv
<1>0. /\ mainQ \in Seq(Blocks) /\ observers \subseteq Listeners
      /\ prev \in [Listeners -> UserIds \cup {Fresh, Unused}]
      /\ Uid(user) \in UserIds
  BY UidType DEF AuthTypeOK
<1>1. ASSUME NEW l \in Listeners, AddListener(l) PROVE AuthInv'
  BY <1>0, <1>1, AddListenerInv DEF AddListener, LastPostIsCurrent, HandlesInUse
<1>2. ASSUME NEW l \in Listeners, RemoveListener(l) PROVE AuthInv'
  BY <1>2 DEF RemoveListener, AuthTypeOK, NoLostAuthChange, AnnouncedIsCurrent,
     LastPostIsCurrent, SignedInIsPersisted, HandlesInUse
<1>3. ASSUME RunAuthBlock PROVE AuthInv'
  <2>1. /\ mainQ # <<>> /\ Head(mainQ).kind \in {"post", "init"}
        /\ prev' = [l \in Listeners |-> IF l \in Invoked THEN Uid(user) ELSE prev[l]]
        /\ mainQ' = Tail(mainQ)
        /\ UNCHANGED <<stored, ready, user, notified, observers>>
    BY <1>3 DEF RunAuthBlock
  <2>2. /\ mainQ' \in Seq(Blocks)
        /\ \A c : Pending(mainQ, c) /\ c # Head(mainQ) => Pending(mainQ', c)
        /\ PendingPost(mainQ) /\ Head(mainQ).kind # "post" => PendingPost(mainQ')
        /\ PostsEndWith(mainQ', Uid(user))
        /\ \A i \in 1..Len(mainQ') : mainQ'[i] = mainQ[i+1] /\ i+1 \in 1..Len(mainQ)
        /\ Head(mainQ) \in Blocks
    BY <1>0, <2>1, TailFacts DEF LastPostIsCurrent
  <2>3. AuthTypeOK'
    BY <1>0, <2>1, <2>2 DEF AuthTypeOK
  <2>4. NoLostAuthChange'
    <3> SUFFICES ASSUME NEW l \in observers, prev'[l] # Uid(user)
                 PROVE  PendingPost(mainQ') \/ Pending(mainQ', InitialCall(l))
      BY <2>1 DEF NoLostAuthChange
    <3>1. l \in Listeners /\ l \notin Invoked /\ prev[l] # Uid(user)
      BY <1>0, <2>1
    <3>2. Head(mainQ).kind = "init" /\ l # Head(mainQ).listener
      BY <2>1, <3>1 DEF Invoked
    <3>3. InitialCall(l) # Head(mainQ)
      BY <3>1, <3>2, InitialCallType
    <3>4. PendingPost(mainQ) \/ Pending(mainQ, InitialCall(l))
      BY <3>1 DEF NoLostAuthChange
    <3> QED
      BY <3>2, <3>3, <3>4, <2>2
  <2>5. AnnouncedIsCurrent' /\ SignedInIsPersisted'
    BY <2>1 DEF AnnouncedIsCurrent, SignedInIsPersisted
  <2>6. LastPostIsCurrent'
    BY <2>1, <2>2 DEF LastPostIsCurrent
  <2>7. \A l \in Listeners : prev[l] # Unused => prev'[l] # Unused
    BY <1>0, <2>1, SentinelAssumption DEF UserIds
  <2>8. HandlesInUse'
    <3>1. ASSUME NEW i \in 1..Len(mainQ'), mainQ'[i].kind = "init"
          PROVE  prev'[mainQ'[i].listener] # Unused
      <4>1. mainQ'[i] \in Blocks /\ mainQ'[i] = mainQ[i+1] /\ i+1 \in 1..Len(mainQ)
        BY <2>2
      <4>2. mainQ'[i].listener \in Listeners
        BY <3>1, <4>1, BlockKinds
      <4> QED
        BY <3>1, <4>1, <4>2, <2>7 DEF HandlesInUse
    <3> QED
      BY <3>1, <2>1, <2>7, <1>0 DEF HandlesInUse
  <2> QED
    BY <2>3, <2>4, <2>5, <2>6, <2>8
<1>4. ASSUME RunCall PROVE AuthInv'
  <2>1. /\ mainQ # <<>> /\ Head(mainQ).kind \notin {"post", "init"}
        /\ UNCHANGED <<stored, ready, user, notified>>
    BY <1>4 DEF RunCall, FinishCall, FinishCallAndListen
  <2> DEFINE q == Tail(mainQ)
  <2>2. /\ q \in Seq(Blocks)
        /\ PendingPost(mainQ) => PendingPost(q)
        /\ \A l \in Listeners : Pending(mainQ, InitialCall(l)) => Pending(q, InitialCall(l))
        /\ PostsEndWith(q, Uid(user))
        /\ \A i \in 1..Len(q) : q[i].kind = "init" => prev[q[i].listener] # Unused
    BY <1>0, <2>1, TailFacts, InitialCallType DEF LastPostIsCurrent, HandlesInUse
  <2> HIDE DEF q
  <2>3. CASE mainQ' = q /\ UNCHANGED <<observers, prev>>
    <3>1. AuthTypeOK'
      BY <2>1, <2>2, <2>3 DEF AuthTypeOK
    <3>2. NoLostAuthChange'
      BY <1>0, <2>1, <2>2, <2>3 DEF NoLostAuthChange
    <3>3. AnnouncedIsCurrent' /\ SignedInIsPersisted' /\ LastPostIsCurrent'
      BY <2>1, <2>2, <2>3 DEF AnnouncedIsCurrent, SignedInIsPersisted, LastPostIsCurrent
    <3>4. HandlesInUse'
      BY <2>2, <2>3 DEF HandlesInUse
    <3> QED
      BY <3>1, <3>2, <3>3, <3>4
  <2>4. ASSUME NEW l \in Listeners, AddListenerTo(q, l) PROVE AuthInv'
    BY <2>1, <2>2, <2>4, AddListenerInv
  <2> QED
    BY <1>4, <2>3, <2>4 DEF RunCall, FinishCall, FinishCallAndListen, q
<1> QED
  BY <1>1, <1>2, <1>3, <1>4 DEF MainStep

\* A block dispatched for a client keeps the invariant.
LEMMA DispatchInv ==
  ASSUME AuthInv, NEW c \in Calls, Dispatch(c)
  PROVE  AuthInv'
<1> USE DEF AuthInv
<1>1. /\ mainQ' = mainQ \o <<c>> /\ mainQ \in Seq(Blocks) /\ IsCalls(<<c>>)
      /\ UNCHANGED <<stored, ready, user, notified, observers, prev>>
  BY DEF Dispatch, AuthTypeOK, IsCalls
<1>2. /\ mainQ' \in Seq(Blocks)
      /\ \A b : Pending(mainQ, b) => Pending(mainQ', b)
      /\ PendingPost(mainQ) => PendingPost(mainQ')
      /\ PostsEndWith(mainQ', Uid(user))
      /\ \A i \in 1..Len(mainQ') :
           \/ i \in 1..Len(mainQ) /\ mainQ'[i] = mainQ[i]
           \/ mainQ'[i].kind \notin {"post", "init"}
  BY <1>1, CallsFacts DEF LastPostIsCurrent
<1>3. AuthTypeOK' /\ NoLostAuthChange'
  BY <1>1, <1>2 DEF AuthTypeOK, NoLostAuthChange
<1>4. AnnouncedIsCurrent' /\ SignedInIsPersisted' /\ LastPostIsCurrent'
  BY <1>1, <1>2 DEF AnnouncedIsCurrent, SignedInIsPersisted, LastPostIsCurrent
<1>5. HandlesInUse'
  BY <1>1, <1>2 DEF HandlesInUse
<1> QED
  BY <1>3, <1>4, <1>5

\* The state of a launch, before anything ran, satisfies the invariant.
LEMMA LaunchInv ==
  ASSUME stored \in Users, ready = FALSE, user = None, notified = None,
         observers = {}, prev = [l \in Listeners |-> Unused], mainQ = <<>>
  PROVE  AuthInv
<1>0. <<>> \in Seq(Blocks)
  OBVIOUS
<1>1. AuthTypeOK
  <2>1. ready \in BOOLEAN
    OBVIOUS
  <2>2. prev \in [Listeners -> UserIds \cup {Fresh, Unused}]
    OBVIOUS
  <2> QED
    BY <1>0, <2>1, <2>2 DEF AuthTypeOK, Users
<1>2. Len(mainQ) = 0
  OBVIOUS
<1>3. LastPostIsCurrent
  BY <1>2 DEF LastPostIsCurrent, PostsEndWith
<1>4. HandlesInUse
  BY <1>2 DEF HandlesInUse
<1>5. NoLostAuthChange /\ AnnouncedIsCurrent /\ SignedInIsPersisted
  BY DEF NoLostAuthChange, AnnouncedIsCurrent, SignedInIsPersisted
<1> QED
  BY <1>1, <1>3, <1>4, <1>5 DEF AuthInv

\* The initial states satisfy the invariant.
LEMMA InitInv == AuthInit => AuthInv
BY LaunchInv DEF AuthInit

\* A restart re-establishes it: nobody is signed in and nobody listens yet.
LEMMA RestartInv == AuthInv /\ Restart => AuthInv'
<1> SUFFICES ASSUME AuthInv, Restart PROVE AuthInv'
  OBVIOUS
<1>1. stored \in Users
  BY DEF AuthInv, AuthTypeOK
<1>2. AuthTypeOK'
  <2>1. <<>> \in Seq(Blocks)
    OBVIOUS
  <2>2. ready' \in BOOLEAN
    BY DEF Restart
  <2>3. prev' \in [Listeners -> UserIds \cup {Fresh, Unused}]
    BY DEF Restart
  <2> QED
    BY <1>1, <2>1, <2>2, <2>3 DEF AuthTypeOK, Users, Restart
<1>3. Len(mainQ') = 0
  BY DEF Restart
<1>4. LastPostIsCurrent' /\ HandlesInUse'
  BY <1>3 DEF LastPostIsCurrent, PostsEndWith, HandlesInUse, Restart
<1>5. NoLostAuthChange' /\ AnnouncedIsCurrent' /\ SignedInIsPersisted'
  BY DEF Restart, NoLostAuthChange, AnnouncedIsCurrent, SignedInIsPersisted
<1> QED
  BY <1>2, <1>4, <1>5 DEF AuthInv

\* Every step keeps the invariant.
LEMMA NextInv == AuthInv /\ [AuthNext]_authVars => AuthInv'
<1> SUFFICES ASSUME AuthInv, [AuthNext]_authVars PROVE AuthInv'
  OBVIOUS
<1>1. CASE WorkStep
  BY <1>1, WorkStepInv
<1>2. CASE MainStep
  BY <1>2, MainStepInv
<1>3. CASE \E c \in Calls : Dispatch(c)
  BY <1>3, DispatchInv
<1>4. CASE Restart
  BY <1>4, RestartInv
<1>5. CASE UNCHANGED authVars
  BY <1>5 DEF authVars, AuthInv, AuthTypeOK, NoLostAuthChange, AnnouncedIsCurrent,
     LastPostIsCurrent, SignedInIsPersisted, HandlesInUse
<1> QED
  BY <1>1, <1>2, <1>3, <1>4, <1>5 DEF AuthNext

\* The inductive invariant holds throughout.
THEOREM Invariance == AuthSpec => []AuthInv
<1> QED
  BY InitInv, NextInv, PTL DEF AuthSpec

\* The client's state has its types (FIRAuth.m's instance variables).
THEOREM TypeCorrect == AuthSpec => []AuthTypeOK
<1>1. AuthInv => AuthTypeOK
  BY DEF AuthInv
<1> QED
  BY <1>1, Invariance, PTL

\* possiblyPostAuthStateChangeNotification never swallows a change of user: a
\* registered listener knows the current user or is about to be told.
THEOREM NoLostAuthChangeHolds == AuthSpec => []NoLostAuthChange
<1>1. AuthInv => NoLostAuthChange
  BY DEF AuthInv
<1> QED
  BY <1>1, Invariance, PTL

\* lastNotifiedUserToken never names another user than the current one, through any
\* refreshes that could not be saved.
THEOREM AnnouncedIsCurrentHolds == AuthSpec => []AnnouncedIsCurrent
<1>1. AuthInv => AnnouncedIsCurrent
  BY DEF AuthInv
<1> QED
  BY <1>1, Invariance, PTL

\* Whoever is signed in is in the keychain (updateCurrentUser, saveUser).
THEOREM SignedInIsPersistedHolds == AuthSpec => []SignedInIsPersisted
<1>1. AuthInv => SignedInIsPersisted
  BY DEF AuthInv
<1> QED
  BY <1>1, Invariance, PTL

\* The last notification in the main queue carries the current user ID.
THEOREM LastPostIsCurrentHolds == AuthSpec => []LastPostIsCurrent
<1>1. AuthInv => LastPostIsCurrent
  BY DEF AuthInv
<1> QED
  BY <1>1, Invariance, PTL

-----------------------------------------------------------------------------
(* The client implements AuthState.                                        *)

\* A step that changes neither the observers nor what they were told is, for
\* them, at most a change of the current user ID.
LEMMA ChangeStep ==
  ASSUME Uid(user') \in UserIds, UNCHANGED <<observers, prev>>
  PROVE  Promise!Next
BY DEF Promise!Next, Promise!Change, UserIds

\* Every step of the client is a step of AuthState or one it cannot see.
LEMMA StepImplements ==
  ASSUME AuthInv, AuthInv', [AuthNext]_authVars
  PROVE  [Promise!Next]_(Promise!vars)
<1> USE DEF AuthInv
<1>0. user' \in Users /\ Uid(user') \in UserIds
  <2>1. user' \in Users
    BY DEF AuthTypeOK
  <2> QED
    BY <2>1, UidOfAssumption DEF Users, UserIds, Uid
<1>1. CASE WorkStep
  <2>1. UNCHANGED <<observers, prev>>
    BY <1>1 DEF WorkStep, LoadUser, CompleteSignIn, SignOut, SignOutByForce, UpdateKeychain
  <2> QED
    BY <2>1, <1>0, ChangeStep
<1>2. CASE \E c \in Calls : Dispatch(c)
  BY <1>2, <1>0, ChangeStep DEF Dispatch
<1>3. CASE Restart
  BY <1>3 DEF Restart, Uid, Promise!Next, Promise!Reset
<1>4. ASSUME NEW q, NEW l \in Listeners, AddListenerTo(q, l), UNCHANGED user
      PROVE  Promise!Next
  BY <1>4 DEF AddListenerTo, Promise!Next, Promise!Register
<1>5. ASSUME NEW l \in Listeners, RemoveListener(l) PROVE Promise!Next
  BY <1>5 DEF RemoveListener, Promise!Next, Promise!Unregister
<1>6. ASSUME RunAuthBlock PROVE Promise!Next
  <2>1. Invoked \in SUBSET Listeners /\ \A l \in Invoked : prev[l] # Unused
    <3>1. mainQ \in Seq(Blocks) /\ mainQ # <<>> /\ observers \subseteq Listeners
      BY <1>6 DEF RunAuthBlock, AuthTypeOK
    <3>2. 1 \in 1..Len(mainQ) /\ Head(mainQ) = mainQ[1] /\ Head(mainQ) \in Blocks
      BY <3>1
    <3>3. CASE Head(mainQ).kind = "post"
      BY <3>1, <3>3 DEF Invoked, HandlesInUse
    <3>4. CASE Head(mainQ).kind = "init"
      BY <3>2, <3>4, BlockKinds DEF Invoked, HandlesInUse
    <3> QED
      BY <1>6, <3>3, <3>4 DEF RunAuthBlock
  <2>2. Promise!Tell(Invoked)
    BY <1>6, <2>1 DEF RunAuthBlock, Promise!Tell
  <2> QED
    BY <2>1, <2>2 DEF Promise!Next
<1>7. ASSUME RunCall PROVE Promise!Next
  BY <1>0, <1>4, <1>7, ChangeStep DEF RunCall, FinishCall, FinishCallAndListen
<1>8. CASE MainStep
  BY <1>4, <1>5, <1>6, <1>7, <1>8 DEF MainStep, AddListener
<1>9. CASE UNCHANGED authVars
  BY <1>9 DEF authVars, Promise!vars
<1> QED
  BY <1>1, <1>2, <1>3, <1>8, <1>9 DEF AuthNext

\* The client implements the safety part of AuthState: listeners are told only
\* the user ID that is current, and only after they were registered.
THEOREM ImplementsAuthState == AuthSpec => Promise!Spec
<1>1. AuthInit => Promise!Init
  BY DEF AuthInit, Promise!Init, Uid
<1> QED
  BY <1>1, Invariance, StepImplements, PTL DEF AuthSpec, Promise!Spec

=============================================================================
