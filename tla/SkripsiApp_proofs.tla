------------------------- MODULE SkripsiApp_proofs -------------------------
(***************************************************************************)
(* Proofs about the composed app for every set of users, tokens, listeners *)
(* and requests and all bounds: its types, that the Auth client inside it  *)
(* is FIRAuth, that Firestore's user follows Auth's, and what the only ways *)
(* are to a spinner, a blank screen or a wrong user that stays and to an   *)
(* account without a document.                                             *)
(***************************************************************************)
EXTENDS SkripsiApp, FIRAuth_proofs, FiniteSetTheorems

-----------------------------------------------------------------------------
(* Callbacks as main-queue blocks.                                         *)

Results == Contents \cup {"error"}
ReadCalls == [doc : Uids, asker : Flows \cup {"session"}]

\* The callbacks the app dispatches are client blocks.
LEMMA CallbackTypes ==
  /\ \A f \in Flows, ok \in BOOLEAN : /\ AuthCallback(f, ok) \in Calls
                                      /\ CommitCallback(f, ok) \in Calls
  /\ \A r \in ReadCalls, res \in Results : ReadCallback(r, res) \in Calls
  /\ WriteCallback \in Calls
BY AppCallsAssumption DEF AppCalls, AuthCallback, CommitCallback, ReadCallback,
   WriteCallback, ReadCalls, Results

\* What the head of the main queue holds, by its kind.
LEMMA HeadTypes ==
  ASSUME AuthTypeOK, mainQ # <<>>
  PROVE  /\ Head(mainQ).kind \in {"auth", "commit"}
              => Head(mainQ).flow \in Flows /\ Head(mainQ).ok \in BOOLEAN
         /\ Head(mainQ).kind = "read"
              => /\ Head(mainQ).asker \in Flows \cup {"session"}
                 /\ Head(mainQ).doc \in Uids
                 /\ Head(mainQ).res \in Results
         /\ Head(mainQ).kind = "post" => Head(mainQ).uid \in UserIds
<1> DEFINE b == Head(mainQ)
<1>1. b \in Blocks
  BY TailFacts DEF AuthTypeOK
<1> HIDE DEF b
<1>2. \/ b \in [kind : {"post"}, uid : UserIds]
      \/ b \in [kind : {"init"}, listener : Listeners]
      \/ b \in [kind : {"auth", "commit"}, flow : Flows, ok : BOOLEAN]
      \/ b \in [kind : {"read"}, asker : Flows \cup {"session"}, doc : Uids, res : Results]
      \/ b = [kind |-> "write"]
  BY <1>1, AppCallsAssumption DEF Blocks, AppCalls, WriteCallback, Results
<1> QED
  BY <1>2 DEF b

-----------------------------------------------------------------------------
(* The Auth client's part of a step.                                       *)

\* The types an app step relies on.
AppTypes ==
  /\ StoreTypeOK
  /\ reads \in Seq(ReadCalls)
  /\ isLoading \in BOOLEAN
  /\ authUser \in UserIds
  /\ ViewsTypeOK
  /\ FlowTypeOK

\* What a step that neither runs a main-queue block nor kills the app does to the
\* Auth client.
Outside ==
  \/ WorkStep
  \/ \E l \in Listeners : Room(1) /\ AddListener(l)
  \/ \E c \in Calls : Room(1) /\ Dispatch(c)
  \/ UNCHANGED authVars

\* Every step of the app runs a main-queue block, kills it, or is one of those.
LEMMA OutsideStep ==
  ASSUME AuthTypeOK, AppTypes, [AppNext]_appVars
  PROVE  RunMainBlock \/ Kill \/ Outside
<1>0. Len(mainQ) \in Nat /\ (Room(2) => Room(1))
  BY MaxQueueAssumption DEF AuthTypeOK, Room
<1>1. ASSUME NEW l \in Listeners, Appear(l) PROVE Outside
  BY <1>1 DEF Appear, Outside
<1>2. ASSUME NEW f \in Flows, NEW u \in Uids, TapSignIn(f, u) \/ TapSignUp(f, u)
      PROVE  Outside
  BY <1>2 DEF TapSignIn, TapSignUp, Start, Outside
<1>3. ASSUME NEW removed \in BOOLEAN, TapLogout(removed) PROVE Outside
  BY <1>3 DEF TapLogout, Outside, WorkStep
<1>4. ASSUME Navigate PROVE Outside
  BY <1>4 DEF Navigate, Outside
<1>5. ASSUME Load \/ Refresh \/ Disown PROVE Outside
  BY <1>5 DEF Load, Refresh, Disown, Outside, WorkStep
<1>6. ASSUME NEW f \in Flows, RequestStep(f) PROVE Outside
  <2>1. ASSUME NEW t \in Tokens, NEW saved \in BOOLEAN, NEW ok \in BOOLEAN,
               CompleteSignIn(t, saved, <<AuthCallback(f, ok)>>), Room(2)
        PROVE  Outside
    BY <2>1, CallbackTypes DEF Outside, WorkStep
  <2>2. ASSUME NEW c \in Calls, Dispatch(c), Room(2) PROVE Outside
    BY <2>2, <1>0 DEF Outside
  <2>3. ASSUME NEW t \in Tokens, NEW ok \in BOOLEAN, Room(2),
               UpdateKeychain(t, ok, <<CommitCallback(f, ok)>>)
        PROVE  Outside
    BY <2>3, CallbackTypes DEF Outside, WorkStep
  <2>4. Room(2)
    BY <1>6 DEF RequestStep
  <2>5. CASE \E t \in Tokens, saved \in BOOLEAN :
               SignInAccepted(f, t, saved) \/ SignUpAccepted(f, t, saved)
    BY <2>1, <2>4, <2>5 DEF SignInAccepted, SignUpAccepted
  <2>6. CASE AccountCreated(f)
    BY <2>6 DEF AccountCreated, Outside
  <2>7. CASE RequestFailed(f)
    BY <2>2, <2>4, <2>7, CallbackTypes DEF RequestFailed
  <2>8. CASE \E ok \in BOOLEAN : CommitDone(f, ok)
    BY <2>2, <2>3, <2>4, <2>8, CallbackTypes DEF CommitDone
  <2> QED
    BY <1>6, <2>5, <2>6, <2>7, <2>8 DEF RequestStep
<1>7. ASSUME NEW i \in 1..Len(reads), Read(i) PROVE Outside
  <2>1. reads[i] \in ReadCalls
    BY DEF AppTypes
  <2> QED
    BY <1>7, <2>1, CallbackTypes DEF Read, Outside, Results
<1>8. ASSUME NEW i \in 1..Len(writes), Acknowledge(i) \/ Reject(i) PROVE Outside
  BY <1>8, CallbackTypes DEF Acknowledge, Reject, Outside
<1>9. ASSUME UNCHANGED appVars PROVE Outside
  BY <1>9 DEF appVars, Outside
<1> QED
  BY <1>1, <1>2, <1>3, <1>4, <1>5, <1>6, <1>7, <1>8, <1>9 DEF AppNext

\* Every step of the app is, for the Auth client, a step of FIRAuth or none.
LEMMA AuthStep ==
  ASSUME AuthTypeOK, AppTypes, [AppNext]_appVars
  PROVE  [AuthNext]_authVars
<1>1. CASE RunMainBlock
  <2>1. RunAuthBlock \/ RunCall
    BY <1>1 DEF RunMainBlock, OnAuthState, OnSessionFetched, OnSignIn, OnSignInFetched,
       OnSignUp, OnCommitted, OnWriteRejected, RunCall
  <2> QED
    BY <2>1 DEF AuthNext, MainStep
<1>2. CASE Kill
  BY <1>2 DEF Kill, AuthNext
<1>3. CASE Outside
  BY <1>3 DEF Outside, AuthNext, MainStep
<1> QED
  BY <1>1, <1>2, <1>3, OutsideStep

-----------------------------------------------------------------------------
(* Types.                                                                  *)

\* Removing an element of a sequence, and adding several, keeps its type.
LEMMA RemoveAtType ==
  ASSUME NEW S, NEW s \in Seq(S), NEW i \in 1..Len(s)
  PROVE  RemoveAt(s, i) \in Seq(S)
<1>1. SubSeq(s, 1, i - 1) \in Seq(S) /\ SubSeq(s, i + 1, Len(s)) \in Seq(S)
  OBVIOUS
<1> QED
  BY <1>1 DEF RemoveAt

\* Issuing reads of a document keeps the type of the reads under way.
LEMMA GetDocumentType ==
  ASSUME reads \in Seq(ReadCalls), NEW doc \in Uids,
         NEW askers \in Seq(Flows \cup {"session"}), GetDocument(doc, askers)
  PROVE  reads' \in Seq(ReadCalls)
<1> DEFINE r == [i \in 1..Len(askers) |-> [doc |-> doc, asker |-> askers[i]]]
<1>1. \A i \in 1..Len(askers) : [doc |-> doc, asker |-> askers[i]] \in ReadCalls
  BY DEF ReadCalls
<1>2. r \in Seq(ReadCalls)
  BY <1>1
<1> HIDE DEF r
<1> QED
  BY <1>2 DEF GetDocument, r

\* The store keeps its types: every operation on a document names a user's.
LEMMA StoreTypes ==
  ASSUME AuthTypeOK, AppTypes, [AppNext]_appVars
  PROVE  StoreTypeOK' /\ reads' \in Seq(ReadCalls)
<1> DEFINE Good == StoreTypeOK' /\ reads' \in Seq(ReadCalls)
<1> USE DEF AppTypes
<1>0. /\ StoreTypeOK /\ reads \in Seq(ReadCalls)
      /\ Uid(user) \in Uids \cup {None}
      /\ user # None => Uid(user) \in Uids
      /\ Instance(Uid(user)) \in Uids \cup {None}
  <2>1. Uid(user) \in UserIds /\ (user # None => Uid(user) \in Uids)
    BY UidOfAssumption DEF AuthTypeOK, Users, UserIds, Uid
  <2> QED
    BY <2>1 DEF UserIds, Instance, StoreTypeOK
<1>1. ASSUME UNCHANGED storeVars PROVE Good
  BY <1>0, <1>1 DEF storeVars, StoreTypeOK
<1>2. ASSUME NEW i \in 1..Len(reads), Read(i) PROVE Good
  <2>1. reads' = RemoveAt(reads, i) /\ UNCHANGED <<docs, fsUser, writes>>
    BY <1>2 DEF Read, ReadDone
  <2> QED
    BY <2>1, <1>0, RemoveAtType DEF StoreTypeOK
<1>3. ASSUME NEW i \in 1..Len(writes), Acknowledge(i) \/ Reject(i) PROVE Good
  <2>1. /\ writes' = RemoveAt(writes, i)
        /\ \/ UNCHANGED docs
           \/ docs' = [docs EXCEPT ![writes[i].doc] = "user"]
        /\ UNCHANGED <<fsUser, reads>>
    BY <1>3 DEF Acknowledge, Reject, AckWrite, RejectWrite
  <2>2. writes' \in Seq([owner : Uids \cup {None}, doc : Uids])
    BY <2>1, <1>0, RemoveAtType DEF StoreTypeOK
  <2>3. docs' \in [Uids -> Contents]
    BY <2>1, <1>0 DEF StoreTypeOK, Contents
  <2> QED
    BY <1>0, <2>1, <2>2, <2>3 DEF StoreTypeOK
<1>4. ASSUME OnAuthState PROVE Good
  <2>1. fsUser' \in Uids \cup {None, Unused}
    <3>1. IsBlock("post") => Head(mainQ).uid \in Uids \cup {None}
      BY HeadTypes DEF IsBlock, UserIds
    <3> QED
      BY <1>0, <1>4, <3>1 DEF OnAuthState, HandleCredentialChange, StoreTypeOK
  <2>2. reads' \in Seq(ReadCalls)
    <3>1. CASE reads' = reads
      BY <1>0, <3>1
    <3>2. CASE /\ user # None
               /\ GetDocument(Uid(user), [i \in 1..Cardinality(Called) |-> "session"])
      <4>1. mainQ \in Seq(Blocks) /\ mainQ # <<>> /\ Head(mainQ).kind \in {"post", "init"}
        BY <1>4 DEF OnAuthState, RunAuthBlock, AuthTypeOK
      <4>2. Called \subseteq Listeners
        BY <4>1, TailFacts, BlockKinds DEF Called, Invoked, AuthTypeOK
      <4>3. Cardinality(Called) \in Nat
        BY <4>2, ListenersAssumption, FS_Subset, FS_CardinalityType
      <4>4. [i \in 1..Cardinality(Called) |-> "session"] \in Seq(Flows \cup {"session"})
        BY <4>3
      <4> QED
        BY <4>4, <3>2, <1>0, GetDocumentType
    <3> QED
      BY <1>4, <3>1, <3>2 DEF OnAuthState, SessionTold
  <2> QED
    BY <1>0, <1>4, <2>1, <2>2 DEF OnAuthState, StoreTypeOK
<1>5. ASSUME OnSignIn PROVE Good
  <2>1. CASE UNCHANGED <<fsUser, reads>>
    BY <1>0, <1>5, <2>1 DEF OnSignIn, StoreTypeOK
  <2>2. ASSUME NEW f \in Flows, At(f, "signIn", "callback"), GetDocument(flow[f].uid, <<f>>),
               fsUser' = Instance(Uid(user))
        PROVE  Good
    <3>1. flow[f].uid \in Uids
      BY <2>2 DEF FlowTypeOK, At, Done
    <3>2. <<f>> \in Seq(Flows \cup {"session"})
      OBVIOUS
    <3>3. reads' \in Seq(ReadCalls)
      BY <1>0, <2>2, <3>1, <3>2, GetDocumentType
    <3> QED
      BY <1>0, <1>5, <2>2, <3>3 DEF OnSignIn, StoreTypeOK
  <2> QED
    BY <1>5, <2>1, <2>2, HeadTypes DEF OnSignIn, IsBlock
<1>6. ASSUME NEW l \in Listeners, OnCommitted(l) PROVE Good
  <2>1. PICK f \in Flows : /\ SetData(Instance(Uid(user)), flow[f].uid)
                           /\ At(f, "signUp", "committed")
                           /\ fsUser' = Instance(Uid(user))
    BY <1>6, HeadTypes DEF OnCommitted, IsBlock
  <2>2. flow[f].uid \in Uids
    BY <2>1 DEF FlowTypeOK, At, Done
  <2> QED
    BY <1>0, <1>6, <2>1, <2>2 DEF OnCommitted, SetData, StoreTypeOK
<1>7. ASSUME Kill PROVE Good
  BY <1>0, <1>7 DEF Kill, StoreRestart, StoreTypeOK
<1>8. \/ UNCHANGED storeVars
      \/ \E i \in 1..Len(reads) : Read(i)
      \/ \E i \in 1..Len(writes) : Acknowledge(i) \/ Reject(i)
      \/ OnAuthState \/ OnSignIn \/ (\E l \in Listeners : OnCommitted(l))
      \/ Kill
  BY DEF AppNext, appVars, Appear, TapSignIn, TapSignUp, Start, TapLogout, Navigate,
     Load, Refresh, Disown, RequestStep, RunMainBlock, OnSessionFetched,
     OnSignInFetched, OnSignUp, OnWriteRejected
<1> QED
  BY <1>1, <1>2, <1>3, <1>4, <1>5, <1>6, <1>7, <1>8

\* The session and the views keep their types.
LEMMA SessionAndViewTypes ==
  ASSUME AuthTypeOK, AppTypes, [AppNext]_appVars
  PROVE  isLoading' \in BOOLEAN /\ authUser' \in UserIds /\ ViewsTypeOK'
<1> DEFINE SessionOK == isLoading \in BOOLEAN /\ authUser \in UserIds
<1> USE DEF AppTypes
<1>1. UNCHANGED sessionVars => SessionOK'
  BY DEF sessionVars
<1>2. UNCHANGED viewVars => ViewsTypeOK'
  BY DEF viewVars, ViewsTypeOK
<1>3. SessionPublished => ViewsTypeOK'
  BY DEF SessionPublished, ViewsTypeOK
<1>4. ASSUME NEW f \in Flows
      PROVE  /\ SignInCompletion(f) => ViewsTypeOK'
             /\ SignUpFailed(f) => ViewsTypeOK'
             /\ NoCompletion(f) => ViewsTypeOK'
  BY DEF SignInCompletion, SignUpFailed, NoCompletion, SignInPublished, SignUpPublished,
     ViewsTypeOK, viewVars
<1>5. ASSUME NEW l \in Listeners, Appear(l) PROVE SessionOK' /\ ViewsTypeOK'
  BY <1>3, <1>5 DEF Appear
<1>6. ASSUME NEW f \in Flows, NEW u \in Uids, TapSignIn(f, u) \/ TapSignUp(f, u)
      PROVE  SessionOK' /\ ViewsTypeOK'
  <2>1. UNCHANGED sessionVars
    BY <1>6 DEF TapSignIn, TapSignUp, Start
  <2>2. ViewsTypeOK'
    BY <1>6 DEF TapSignIn, TapSignUp, SignInPublished, SignUpPublished, ViewsTypeOK
  <2> QED
    BY <1>1, <2>1, <2>2
<1>7. ASSUME Navigate PROVE SessionOK' /\ ViewsTypeOK'
  <2>1. ViewsTypeOK'
    BY <1>7 DEF Navigate, OpenSignUp, Back, ViewsTypeOK
  <2> QED
    BY <1>1, <1>7, <2>1 DEF Navigate
<1>8. ASSUME OnAuthState PROVE SessionOK' /\ ViewsTypeOK'
  <2>1. SessionOK'
    BY <1>8 DEF OnAuthState, SessionTold, UserIds
  <2> QED
    BY <1>2, <1>3, <1>8, <2>1 DEF OnAuthState
<1>9. ASSUME OnSessionFetched PROVE SessionOK' /\ ViewsTypeOK'
  <2>1. Head(mainQ).doc \in Uids
    BY <1>9, HeadTypes DEF OnSessionFetched, IsBlock
  <2>2. SessionOK'
    BY <1>9, <2>1 DEF OnSessionFetched, SessionFetched, UserIds
  <2> QED
    BY <1>2, <1>3, <1>9, <2>2 DEF OnSessionFetched
<1>10. ASSUME OnSignIn \/ OnSignInFetched \/ OnSignUp \/ OnWriteRejected
       PROVE  SessionOK' /\ ViewsTypeOK'
  <2>1. UNCHANGED sessionVars
    BY <1>10 DEF OnSignIn, OnSignInFetched, OnSignUp, OnWriteRejected
  <2>2. mainQ # <<>> /\ (IsBlock("auth") => Head(mainQ).flow \in Flows)
    BY <1>10, HeadTypes DEF OnSignIn, OnSignInFetched, OnSignUp, OnWriteRejected, IsBlock
  <2>3. ViewsTypeOK'
    BY <1>2, <1>4, <1>10, <2>2 DEF OnSignIn, OnSignInFetched, OnSignUp, OnWriteRejected
  <2> QED
    BY <1>1, <2>1, <2>3
<1>11. ASSUME NEW l \in Listeners, OnCommitted(l) PROVE SessionOK' /\ ViewsTypeOK'
  BY <1>3, <1>11 DEF OnCommitted
<1>12. ASSUME Kill PROVE SessionOK' /\ ViewsTypeOK'
  BY <1>12 DEF Kill, ViewsTypeOK, UserIds
<1>13. \/ UNCHANGED <<sessionVars, viewVars>>
       \/ \E l \in Listeners : Appear(l) \/ OnCommitted(l)
       \/ \E f \in Flows, u \in Uids : TapSignIn(f, u) \/ TapSignUp(f, u)
       \/ Navigate \/ OnAuthState \/ OnSessionFetched
       \/ OnSignIn \/ OnSignInFetched \/ OnSignUp \/ OnWriteRejected
       \/ Kill
  BY DEF AppNext, appVars, TapLogout, Load, Refresh, Disown, RequestStep, Read,
     Acknowledge, Reject, RunMainBlock
<1> QED
  BY <1>1, <1>2, <1>5, <1>6, <1>7, <1>8, <1>9, <1>10, <1>11, <1>12, <1>13

\* The requests keep their types: a request that waits names its operation and
\* its account, one that ended names nothing.
LEMMA FlowTypes ==
  ASSUME AuthTypeOK, AppTypes, [AppNext]_appVars
  PROVE  FlowTypeOK'
<1> USE DEF AppTypes
<1> DEFINE Pcs == {"rpc", "created", "callback", "fetch", "commit", "committed"}
           Waiting == [op : {"signIn", "signUp"}, pc : Pcs, uid : Uids]
<1>0. flow \in [Flows -> Waiting \cup {Done}] /\ accounts \subseteq Uids
  BY DEF FlowTypeOK
<1>1. ASSUME UNCHANGED flowVars PROVE FlowTypeOK'
  BY <1>1 DEF flowVars, FlowTypeOK
<1>2. ASSUME NEW f \in Flows, NEW pc \in Pcs, flow[f].pc # "done", GoTo(f, pc),
             accounts' \subseteq Uids
      PROVE  FlowTypeOK'
  <2>1. flow[f] \in Waiting
    BY <1>0, <1>2 DEF Done
  <2>2. [flow[f] EXCEPT !.pc = pc] \in Waiting
    BY <2>1
  <2>3. flow' = [flow EXCEPT ![f] = [flow[f] EXCEPT !.pc = pc]]
    BY <1>0, <1>2 DEF GoTo
  <2>4. flow' \in [Flows -> Waiting \cup {Done}]
    BY <1>0, <2>2, <2>3
  <2> QED
    BY <1>2, <2>4 DEF FlowTypeOK
<1>3. ASSUME NEW f \in Flows, Finish(f), UNCHANGED accounts PROVE FlowTypeOK'
  BY <1>0, <1>3 DEF Finish, FlowTypeOK
<1>4. ASSUME NEW f \in Flows, NEW u \in Uids, TapSignIn(f, u) \/ TapSignUp(f, u)
      PROVE  FlowTypeOK'
  <2>1. PICK op \in {"signIn", "signUp"} : Start(f, op, u)
    BY <1>4 DEF TapSignIn, TapSignUp
  <2> DEFINE r == [op |-> op, pc |-> "rpc", uid |-> u]
  <2>2. r \in Waiting
    OBVIOUS
  <2>3. flow' = [flow EXCEPT ![f] = r] /\ UNCHANGED accounts
    BY <2>1 DEF Start
  <2> HIDE DEF r
  <2> QED
    BY <1>0, <2>2, <2>3 DEF FlowTypeOK
<1>5. ASSUME NEW f \in Flows, RequestStep(f) PROVE FlowTypeOK'
  <2>1. flow[f].pc # "done" => flow[f].uid \in Uids
    BY <1>0 DEF Done
  <2>2. /\ flow[f].pc # "done"
        /\ \E pc \in Pcs : GoTo(f, pc)
        /\ accounts' = accounts \/ accounts' = accounts \cup {flow[f].uid}
    BY <1>5 DEF RequestStep, SignInAccepted, SignUpAccepted, AccountCreated,
       RequestFailed, CommitDone, At
  <2> QED
    BY <1>0, <1>2, <2>1, <2>2
<1>6. ASSUME OnSignIn \/ OnSignUp PROVE FlowTypeOK'
  <2>1. Head(mainQ).flow \in Flows /\ UNCHANGED accounts
    BY <1>6, HeadTypes DEF OnSignIn, OnSignUp, IsBlock
  <2>2. LET f == Head(mainQ).flow
        IN  Finish(f) \/ (flow[f].pc # "done" /\ \E pc \in Pcs : GoTo(f, pc))
    BY <1>6 DEF OnSignIn, OnSignUp, At
  <2> QED
    BY <1>0, <1>2, <1>3, <2>1, <2>2
<1>7. ASSUME OnSignInFetched PROVE FlowTypeOK'
  BY <1>3, <1>7 DEF OnSignInFetched
<1>8. ASSUME NEW l \in Listeners, OnCommitted(l) PROVE FlowTypeOK'
  BY <1>3, <1>8, HeadTypes DEF OnCommitted, IsBlock
<1>9. ASSUME Kill PROVE FlowTypeOK'
  BY <1>0, <1>9 DEF Kill, FlowTypeOK
<1>10. \/ UNCHANGED flowVars
       \/ \E f \in Flows, u \in Uids : TapSignIn(f, u) \/ TapSignUp(f, u)
       \/ \E f \in Flows : RequestStep(f)
       \/ OnSignIn \/ OnSignUp \/ OnSignInFetched
       \/ \E l \in Listeners : OnCommitted(l)
       \/ Kill
  BY DEF AppNext, appVars, Appear, TapLogout, Navigate, Load, Refresh, Disown, Read,
     Acknowledge, Reject, RunMainBlock, OnAuthState, OnSessionFetched, OnWriteRejected
<1> QED
  BY <1>1, <1>4, <1>5, <1>6, <1>7, <1>8, <1>9, <1>10

-----------------------------------------------------------------------------
(* Firestore's user.                                                       *)

\* A step of the work queue keeps queued notifications, and after a change of the
\* user ID there is one.
LEMMA WorkAnnounces ==
  ASSUME AuthInv, WorkStep
  PROVE  /\ PendingPost(mainQ) => PendingPost(mainQ')
         /\ Uid(user') = Uid(user) \/ PendingPost(mainQ')
<1> DEFINE Announces == /\ PendingPost(mainQ) => PendingPost(mainQ')
                        /\ Uid(user') = Uid(user) \/ PendingPost(mainQ')
<1>0. /\ mainQ \in Seq(Blocks) /\ stored \in Users /\ user \in Users
      /\ Uid(notified) = Uid(user)
      /\ None \in Users /\ Tokens \subseteq Users
      /\ IsCalls(<<>>) /\ \A c \in Calls : IsCalls(<<c>>)
  BY DEF AuthInv, AuthTypeOK, AnnouncedIsCurrent, Users, IsCalls
<1>1. ASSUME NEW u \in Users, NEW calls, IsCalls(calls), user' = u, PossiblyPost(u, calls)
      PROVE  Announces
  <2>1. CASE notified = u
    <3>1. mainQ' = mainQ \o calls
      BY <1>1, <2>1 DEF PossiblyPost
    <3> QED
      BY <1>0, <1>1, <2>1, <3>1, CallsFacts
  <2>2. CASE notified # u
    <3>1. mainQ' = Append(mainQ, Post(u)) \o calls
      BY <1>1, <2>2 DEF PossiblyPost
    <3>2. Append(mainQ, Post(u)) \in Seq(Blocks) /\ PendingPost(Append(mainQ, Post(u)))
      BY <1>0, UidType, AppendFacts
    <3> QED
      BY <1>1, <3>1, <3>2, CallsFacts
  <2> QED
    BY <2>1, <2>2
<1>2. ASSUME NEW calls, IsCalls(calls), mainQ' = mainQ \o calls, Uid(user') = Uid(user)
      PROVE  Announces
  BY <1>0, <1>2, CallsFacts
<1>3. ASSUME NEW u \in Users, NEW force, NEW saved, NEW calls, IsCalls(calls),
             UpdateCurrentUser(u, force, saved, calls)
      PROVE  Announces
  BY <1>1, <1>2, <1>3 DEF UpdateCurrentUser
<1>4. ASSUME NEW ok, LoadUser(ok) PROVE Announces
  BY <1>0, <1>1, <1>4 DEF LoadUser
<1>5. ASSUME NEW t \in Tokens, NEW saved, NEW calls, IsCalls(calls),
             UpdateKeychain(t, saved, calls)
      PROVE  Announces
  BY <1>0, <1>1, <1>2, <1>5 DEF UpdateKeychain
<1> QED
  BY <1>0, <1>3, <1>4, <1>5 DEF WorkStep, CompleteSignIn, SignOut, SignOutByForce

\* Firestore's user and the notifications queued stay in step.  A notification
\* carries the user ID of its time; that the one delivered last carries the
\* current user ID is LastPostIsCurrent.
LEMMA FirestoreStep ==
  ASSUME AuthInv, AppTypes, FirestoreFollowsAuth, [AppNext]_appVars
  PROVE  FirestoreFollowsAuth'
<1>0. /\ AuthTypeOK /\ mainQ \in Seq(Blocks) /\ LastPostIsCurrent
  BY DEF AuthInv, AuthTypeOK
<1>1. ASSUME UNCHANGED fsUser, Outside
      PROVE  FirestoreFollowsAuth'
  <2>1. CASE WorkStep
    BY <1>1, <2>1, WorkAnnounces DEF FirestoreFollowsAuth
  <2>2. ASSUME NEW b \in Blocks, mainQ' = Append(mainQ, b), UNCHANGED user
        PROVE  FirestoreFollowsAuth'
    BY <1>0, <1>1, <2>2, AppendFacts DEF FirestoreFollowsAuth
  <2>3. CASE \E l \in Listeners : AddListener(l)
    BY <2>2, <2>3, InitialCallType DEF AddListener, AddListenerTo
  <2>4. CASE \E c \in Calls : Dispatch(c)
    BY <2>2, <2>4 DEF Dispatch, Blocks
  <2>5. CASE UNCHANGED authVars
    BY <1>1, <2>5 DEF FirestoreFollowsAuth, authVars
  <2> QED
    BY <1>1, <2>1, <2>3, <2>4, <2>5 DEF Outside
<1>2. ASSUME RunCall, fsUser' \in {fsUser, Instance(Uid(user))}
      PROVE  FirestoreFollowsAuth'
  <2>1. /\ mainQ # <<>> /\ Head(mainQ).kind # "post" /\ UNCHANGED user
        /\ mainQ' = Tail(mainQ) \/ \E l \in Listeners : mainQ' = Append(Tail(mainQ), InitialCall(l))
    BY <1>2 DEF RunCall, FinishCall, FinishCallAndListen, AddListenerTo
  <2>2. PendingPost(mainQ) => PendingPost(mainQ')
    <3>1. Tail(mainQ) \in Seq(Blocks) /\ (PendingPost(mainQ) => PendingPost(Tail(mainQ)))
      BY <1>0, <2>1, TailFacts
    <3>2. ASSUME NEW l \in Listeners
          PROVE  PendingPost(Tail(mainQ)) => PendingPost(Append(Tail(mainQ), InitialCall(l)))
      BY <3>1, InitialCallType, AppendFacts
    <3> QED
      BY <2>1, <3>1, <3>2
  <2> QED
    BY <1>2, <2>1, <2>2 DEF FirestoreFollowsAuth, Instance
<1>3. ASSUME OnAuthState PROVE FirestoreFollowsAuth'
  <2>1. /\ mainQ # <<>> /\ mainQ' = Tail(mainQ) /\ UNCHANGED user
        /\ Head(mainQ).kind \in {"post", "init"}
    BY <1>3 DEF OnAuthState, RunAuthBlock
  <2>2. CASE Head(mainQ).kind = "init"
    <3>1. PendingPost(mainQ) => PendingPost(mainQ')
      BY <1>0, <2>1, <2>2, TailFacts
    <3>2. fsUser' \in {fsUser, Uid(user)}
      BY <1>3, <2>2 DEF OnAuthState, IsBlock
    <3> QED
      BY <2>1, <3>1, <3>2 DEF FirestoreFollowsAuth
  <2>3. CASE Head(mainQ).kind = "post"
    <3>1. fsUser' \in {Unused, Uid(user), Head(mainQ).uid}
      BY <1>3, <2>1, <2>3 DEF OnAuthState, IsBlock, HandleCredentialChange
    <3>2. ASSUME ~PendingPost(Tail(mainQ)) PROVE Head(mainQ).uid = Uid(user)
      <4>1. ASSUME NEW j \in 2..Len(mainQ) PROVE mainQ[j].kind # "post"
        <5>1. j - 1 \in 1..Len(Tail(mainQ)) /\ Tail(mainQ)[j - 1] = mainQ[j]
          BY <1>0, <2>1
        <5> QED
          BY <5>1, <3>2 DEF PendingPost
      <4>2. 1 \in 1..Len(mainQ) /\ Head(mainQ) = mainQ[1]
        BY <1>0, <2>1
      <4> QED
        BY <1>0, <2>3, <4>1, <4>2 DEF LastPostIsCurrent, PostsEndWith
    <3> QED
      BY <2>1, <3>1, <3>2 DEF FirestoreFollowsAuth
  <2> QED
    BY <2>1, <2>2, <2>3
<1>4. ASSUME RunMainBlock PROVE FirestoreFollowsAuth'
  <2>1. OnAuthState \/ (RunCall /\ fsUser' \in {fsUser, Instance(Uid(user))})
    BY <1>4 DEF RunMainBlock, OnSessionFetched, OnSignIn, OnSignInFetched, OnSignUp,
       OnCommitted, OnWriteRejected, RunCall, storeVars
  <2> QED
    BY <1>2, <1>3, <2>1
<1>5. ASSUME Kill PROVE FirestoreFollowsAuth'
  BY <1>5 DEF Kill, StoreRestart, FirestoreFollowsAuth
<1>6. CASE ~RunMainBlock /\ ~Kill
  <2>1. UNCHANGED fsUser
    BY <1>6 DEF AppNext, appVars, storeVars, Appear, TapSignIn, TapSignUp, Start, TapLogout,
       Navigate, Load, Refresh, Disown, RequestStep, Read, ReadDone, Acknowledge, AckWrite,
       Reject, RejectWrite
  <2> QED
    BY <1>0, <1>1, <1>6, <2>1, OutsideStep
<1> QED
  BY <1>4, <1>5, <1>6

-----------------------------------------------------------------------------
(* The theorems.                                                           *)

\* The inductive invariant: that of the Auth client, the types of the rest, and
\* Firestore's user.
AppInv == AuthInv /\ AppTypes /\ FirestoreFollowsAuth

\* The app starts in the invariant.
LEMMA AppInitInv == AppInit => AppInv
<1> SUFFICES ASSUME AppInit PROVE AppInv
  OBVIOUS
<1>1. AuthInv
  BY InitInv DEF AppInit
<1>2. StoreTypeOK /\ reads \in Seq(ReadCalls) /\ FirestoreFollowsAuth
  BY DEF AppInit, StoreInit, StoreTypeOK, FirestoreFollowsAuth
<1>3. isLoading \in BOOLEAN /\ authUser \in UserIds /\ ViewsTypeOK
  BY DEF AppInit, SessionInit, ViewsInit, ViewsTypeOK, UserIds
<1>4. FlowTypeOK
  BY DEF AppInit, FlowInit, FlowTypeOK
<1> QED
  BY <1>1, <1>2, <1>3, <1>4 DEF AppInv, AppTypes

\* Every step of the app keeps the invariant.
LEMMA AppNextInv == AppInv /\ [AppNext]_appVars => AppInv'
<1> SUFFICES ASSUME AppInv, [AppNext]_appVars PROVE AppInv'
  OBVIOUS
<1>0. AuthInv /\ AuthTypeOK /\ AppTypes /\ FirestoreFollowsAuth
  BY DEF AppInv, AuthInv
<1>1. AuthInv'
  BY <1>0, AuthStep, NextInv
<1>2. AppTypes'
  BY <1>0, StoreTypes, SessionAndViewTypes, FlowTypes DEF AppTypes
<1>3. FirestoreFollowsAuth'
  BY <1>0, FirestoreStep
<1> QED
  BY <1>1, <1>2, <1>3 DEF AppInv

\* The invariant holds in every state of the app.
THEOREM AppInvariance == AppSpec => []AppInv
  BY AppInitInv, AppNextInv, PTL DEF AppSpec

\* Every callback, document, request and form the app handles has its type, in
\* particular every block it dispatches is one that Auth's main queue may hold.
THEOREM AppTypeCorrect == AppSpec => []AppTypeOK
<1>1. AppInv => AppTypeOK
  BY DEF AppInv, AuthInv, AppTypes, AppTypeOK, ReadCalls
<1> QED
  BY <1>1, AppInvariance, PTL

\* The app drives the Auth client only in ways FIRAuth allows, so every theorem
\* about AuthSpec holds of the Auth client in the app.
THEOREM ImplementsFIRAuthHolds == AppSpec => ImplementsFIRAuth
<1>1. AppInit => AuthInit
  BY DEF AppInit
<1>2. AppInv /\ [AppNext]_appVars => [AuthNext]_authVars
  BY AuthStep DEF AppInv, AuthInv
<1> QED
  BY <1>1, <1>2, AppInvariance, PTL DEF AppSpec, ImplementsFIRAuth, AuthSpec

\* Firestore reads and writes as Auth's current user unless the notification of a
\* change is still queued: the credentials provider never misses a change.
THEOREM FirestoreFollowsAuthHolds == AppSpec => []FirestoreFollowsAuth
<1>1. AppInv => FirestoreFollowsAuth
  BY DEF AppInv
<1> QED
  BY <1>1, AppInvariance, PTL

\* In the app, an auth change reaches every listener or is about to
\* (FIRAuth's NoLostAuthChange, inherited through the refinement).
THEOREM AppNoLostAuthChange == AppSpec => []NoLostAuthChange
  BY ImplementsFIRAuthHolds, NoLostAuthChangeHolds, PTL DEF ImplementsFIRAuth

-----------------------------------------------------------------------------
(* What waits for a request.                                               *)

OnlyOne(S) == \A x, y \in S : x = y

\* The block b is a callback of request f.
Concerns(b, f) ==
  \/ b.kind \in {"auth", "commit"} /\ b.flow = f
  \/ b.kind = "read" /\ b.asker = f

Concerning(q, f) == {i \in 1..Len(q) : Concerns(q[i], f)}
Asking(rs, f) == {i \in 1..Len(rs) : rs[i].asker = f}

\* A request in state r waits for at most one thing: a callback in the main queue q
\* or a read among rs, and the one its state says.
Waits(q, rs, f, r) ==
  /\ OnlyOne(Concerning(q, f))
  /\ OnlyOne(Asking(rs, f))
  /\ Concerning(q, f) = {} \/ Asking(rs, f) = {}
  /\ \A i \in Concerning(q, f) :
       \/ q[i].kind = "auth" /\ r.pc = "callback"
       \/ q[i].kind = "commit" /\ r.op = "signUp" /\ r.pc = "committed"
       \/ q[i].kind = "read" /\ r.op = "signIn" /\ r.pc = "fetch"
  /\ Asking(rs, f) # {} => r.op = "signIn" /\ r.pc = "fetch"

FlowPart == \A f \in Flows : Waits(mainQ, reads, f, flow[f])

\* A form's requests are of its kind, and not over.
ShownPart ==
  /\ \A f \in signInShown : flow[f].op = "signIn"
  /\ \A f \in signUpShown : flow[f].op = "signUp"

LEMMA WaitsForNothing ==
  ASSUME NEW q, NEW rs, NEW f, NEW r, Concerning(q, f) = {}, Asking(rs, f) = {}
  PROVE  Waits(q, rs, f, r)
BY DEF Waits, OnlyOne

\* Requests that have not been answered wait for nothing here.
LEMMA IdleRequest ==
  ASSUME NEW q, NEW rs, NEW f, NEW r, Waits(q, rs, f, r),
         r.pc \notin {"callback", "committed", "fetch"}
  PROVE  Concerning(q, f) = {} /\ Asking(rs, f) = {}
BY DEF Waits

\* The state of a request after GoTo and Finish.
LEMMA RequestFacts ==
  ASSUME FlowTypeOK, NEW f \in Flows
  PROVE  /\ \A pc : GoTo(f, pc) /\ flow[f].pc # "done" =>
              /\ flow'[f].op = flow[f].op /\ flow'[f].uid = flow[f].uid /\ flow'[f].pc = pc
              /\ \A g \in Flows : g # f => flow'[g] = flow[g]
         /\ Finish(f) => /\ flow'[f] = Done /\ \A g \in Flows : g # f => flow'[g] = flow[g]
         /\ flow[f] = Done <=> flow[f].pc = "done"
         /\ flow[f] = Done => flow[f].op = "none"
<1>1. ASSUME NEW pc, GoTo(f, pc), flow[f].pc # "done"
      PROVE  /\ flow'[f].op = flow[f].op /\ flow'[f].uid = flow[f].uid /\ flow'[f].pc = pc
             /\ \A g \in Flows : g # f => flow'[g] = flow[g]
  <2>1. flow[f] \in [op : {"signIn", "signUp"},
                     pc : {"rpc", "created", "callback", "fetch", "commit", "committed"},
                     uid : Uids]
    BY <1>1 DEF FlowTypeOK, Done
  <2>2. flow'[f] = [flow[f] EXCEPT !.pc = pc] /\ \A g \in Flows : g # f => flow'[g] = flow[g]
    BY <1>1 DEF GoTo, FlowTypeOK
  <2> QED
    BY <2>1, <2>2
<1>2. Finish(f) => /\ flow'[f] = Done /\ \A g \in Flows : g # f => flow'[g] = flow[g]
  BY DEF Finish, FlowTypeOK
<1>3. (flow[f] = Done <=> flow[f].pc = "done") /\ (flow[f] = Done => flow[f].op = "none")
  BY DEF FlowTypeOK, Done
<1> QED
  BY <1>1, <1>2, <1>3

-----------------------------------------------------------------------------
(* How the main queue grows.                                               *)

\* A possible notification and then the calls join the main queue.
Joined(calls) ==
  \/ mainQ' = mainQ \o calls
  \/ \E u \in Users : mainQ' = Append(mainQ, Post(u)) \o calls

\* The main queue grows by notifications, first calls and at most the block c.
Grown(c) ==
  /\ Len(mainQ) <= Len(mainQ')
  /\ \A i \in 1..Len(mainQ) : mainQ'[i] = mainQ[i]
  /\ \A i \in Len(mainQ) + 1..Len(mainQ') :
       mainQ'[i].kind \in {"post", "init"} \/ (mainQ'[i] = c /\ i = Len(mainQ'))

LEMMA AppendGrows ==
  ASSUME mainQ \in Seq(Blocks), NEW b \in Blocks, mainQ' = Append(mainQ, b)
  PROVE  /\ Grown(b)
         /\ b.kind \in {"post", "init"} => \A c : Grown(c)
         /\ Len(mainQ') = Len(mainQ) + 1 /\ mainQ'[Len(mainQ')] = b
<1>1. /\ Len(mainQ) \in Nat /\ Len(mainQ') = Len(mainQ) + 1
      /\ mainQ'[Len(mainQ) + 1] = b /\ \A i \in 1..Len(mainQ) : mainQ'[i] = mainQ[i]
  OBVIOUS
<1>2. \A i \in Len(mainQ) + 1..Len(mainQ') : i = Len(mainQ) + 1
  BY <1>1
<1> QED
  BY <1>1, <1>2 DEF Grown

LEMMA SameGrows ==
  ASSUME mainQ \in Seq(Blocks), mainQ' = mainQ
  PROVE  \A c : Grown(c)
BY DEF Grown

LEMMA JoinedGrows ==
  ASSUME mainQ \in Seq(Blocks)
  PROVE  /\ Joined(<<>>) => \A c : Grown(c)
         /\ \A c \in Calls : Joined(<<c>>) =>
              /\ Grown(c) /\ Len(mainQ') > Len(mainQ) /\ mainQ'[Len(mainQ')] = c
<1>1. ASSUME Joined(<<>>), NEW c PROVE Grown(c)
  <2>1. mainQ \o <<>> = mainQ
    OBVIOUS
  <2>2. ASSUME NEW u \in Users
        PROVE  Post(u) \in Blocks /\ Post(u).kind = "post"
               /\ Append(mainQ, Post(u)) \o <<>> = Append(mainQ, Post(u))
    <3>1. Post(u) \in Blocks /\ Post(u).kind = "post"
      BY UidType
    <3>2. Append(mainQ, Post(u)) \in Seq(Blocks)
      BY <3>1
    <3> QED
      BY <3>1, <3>2
  <2> QED
    BY <1>1, <2>1, <2>2, SameGrows, AppendGrows DEF Joined
<1>2. ASSUME NEW c \in Calls, Joined(<<c>>)
      PROVE  Grown(c) /\ Len(mainQ') > Len(mainQ) /\ mainQ'[Len(mainQ')] = c
  <2>0. c \in Blocks /\ Len(mainQ) \in Nat
    BY DEF Blocks
  <2>1. CASE mainQ' = mainQ \o <<c>>
    <3>1. mainQ' = Append(mainQ, c)
      BY <2>0, <2>1
    <3> QED
      BY <2>0, <3>1, AppendGrows
  <2>2. ASSUME NEW u \in Users, mainQ' = Append(mainQ, Post(u)) \o <<c>>
        PROVE  Grown(c) /\ Len(mainQ') > Len(mainQ) /\ mainQ'[Len(mainQ')] = c
    <3> DEFINE p == Post(u)
    <3>1. p \in Blocks /\ p.kind = "post"
      BY UidType
    <3>2. mainQ' = Append(mainQ, p) \o <<c>>
      BY <2>2
    <3> HIDE DEF p
    <3>3. /\ Len(mainQ') = Len(mainQ) + 2 /\ mainQ'[Len(mainQ) + 1] = p
          /\ mainQ'[Len(mainQ) + 2] = c /\ \A i \in 1..Len(mainQ) : mainQ'[i] = mainQ[i]
      BY <2>0, <3>1, <3>2
    <3>4. \A i \in Len(mainQ) + 1..Len(mainQ') : i = Len(mainQ) + 1 \/ i = Len(mainQ) + 2
      BY <2>0, <3>3
    <3> QED
      BY <2>0, <3>1, <3>3, <3>4 DEF Grown
  <2> QED
    BY <1>2, <2>1, <2>2 DEF Joined
<1> QED
  BY <1>1, <1>2

\* The work queue dispatches notifications and the calls it is given.
LEMMA WorkJoins ==
  ASSUME AuthTypeOK, NEW calls
  PROVE  /\ \A t \in Tokens, b \in BOOLEAN :
              CompleteSignIn(t, b, calls) \/ UpdateKeychain(t, b, calls) =>
                Joined(calls) /\ UNCHANGED <<observers, prev>>
         /\ \A b \in BOOLEAN :
              LoadUser(b) \/ SignOut(b) \/ SignOutByForce(b) =>
                Joined(<<>>) /\ UNCHANGED <<observers, prev>>
<1>0. mainQ \in Seq(Blocks) /\ stored \in Users /\ None \in Users /\ Tokens \subseteq Users
      /\ mainQ \o <<>> = mainQ
  BY DEF AuthTypeOK, Users
<1>1. ASSUME NEW u \in Users, NEW cs, PossiblyPost(u, cs) PROVE Joined(cs)
  BY <1>1 DEF PossiblyPost, Joined
<1>2. ASSUME NEW u \in Users, NEW cs, NEW force, NEW saved, UpdateCurrentUser(u, force, saved, cs)
      PROVE  Joined(cs)
  BY <1>1, <1>2 DEF UpdateCurrentUser, Joined
<1>3. ASSUME NEW t \in Tokens, NEW b \in BOOLEAN,
             CompleteSignIn(t, b, calls) \/ UpdateKeychain(t, b, calls)
      PROVE  Joined(calls) /\ UNCHANGED <<observers, prev>>
  <2>1. CASE CompleteSignIn(t, b, calls)
    BY <1>0, <1>2, <2>1 DEF CompleteSignIn
  <2>2. CASE UpdateKeychain(t, b, calls)
    BY <1>0, <1>1, <2>2 DEF UpdateKeychain, Joined
  <2> QED
    BY <1>3, <2>1, <2>2
<1>4. ASSUME NEW b \in BOOLEAN, LoadUser(b) \/ SignOut(b) \/ SignOutByForce(b)
      PROVE  Joined(<<>>) /\ UNCHANGED <<observers, prev>>
  <2>1. CASE LoadUser(b)
    BY <1>0, <1>1, <2>1 DEF LoadUser, Joined
  <2>2. CASE SignOut(b) \/ SignOutByForce(b)
    BY <1>0, <1>2, <2>2 DEF SignOut, SignOutByForce
  <2> QED
    BY <1>4, <2>1, <2>2
<1> QED
  BY <1>3, <1>4

-----------------------------------------------------------------------------
(* What a step does to the things a request waits for.                     *)

\* Nothing new waits in the main queue, or among the reads, for request f.
QueuePasses(f) ==
  /\ OnlyOne(Concerning(mainQ', f))
  /\ \A i \in Concerning(mainQ', f) : \E k \in Concerning(mainQ, f) : mainQ'[i] = mainQ[k]

ReadsPass(f) ==
  /\ OnlyOne(Asking(reads', f))
  /\ Asking(reads, f) = {} => Asking(reads', f) = {}

LEMMA PassedWaits ==
  ASSUME NEW f \in Flows, Waits(mainQ, reads, f, flow[f]), QueuePasses(f), ReadsPass(f),
         flow'[f] = flow[f]
  PROVE  Waits(mainQ', reads', f, flow'[f])
<1>1. Concerning(mainQ, f) = {} => Concerning(mainQ', f) = {}
  BY DEF QueuePasses
<1>2. Concerning(mainQ', f) = {} \/ Asking(reads', f) = {}
  BY <1>1 DEF Waits, ReadsPass
<1>3. \A i \in Concerning(mainQ', f) :
        \/ mainQ'[i].kind = "auth" /\ flow'[f].pc = "callback"
        \/ mainQ'[i].kind = "commit" /\ flow'[f].op = "signUp" /\ flow'[f].pc = "committed"
        \/ mainQ'[i].kind = "read" /\ flow'[f].op = "signIn" /\ flow'[f].pc = "fetch"
  BY DEF Waits, QueuePasses
<1>4. Asking(reads', f) # {} => flow'[f].op = "signIn" /\ flow'[f].pc = "fetch"
  BY DEF Waits, ReadsPass
<1> QED
  BY <1>2, <1>3, <1>4 DEF Waits, QueuePasses, ReadsPass

LEMMA GrownPasses ==
  ASSUME mainQ \in Seq(Blocks), Len(mainQ') \in Nat, NEW c, Grown(c), NEW f
  PROVE  /\ ~Concerns(c, f) /\ OnlyOne(Concerning(mainQ, f)) => QueuePasses(f)
         /\ /\ Concerns(c, f) /\ Concerning(mainQ, f) = {}
            /\ Len(mainQ') > Len(mainQ) /\ mainQ'[Len(mainQ')] = c
            => Concerning(mainQ', f) = {Len(mainQ')}
<1>0. Len(mainQ) \in Nat
  OBVIOUS
<1>1. ASSUME NEW i \in 1..Len(mainQ')
      PROVE  \/ i \in 1..Len(mainQ) /\ mainQ'[i] = mainQ[i]
             \/ ~Concerns(mainQ'[i], f)
             \/ mainQ'[i] = c /\ i = Len(mainQ')
  <2>1. i \in 1..Len(mainQ) \/ i \in Len(mainQ) + 1..Len(mainQ')
    BY <1>0
  <2> QED
    BY <2>1 DEF Grown, Concerns
<1>2. ASSUME ~Concerns(c, f), OnlyOne(Concerning(mainQ, f)) PROVE QueuePasses(f)
  <2>1. \A i \in Concerning(mainQ', f) : i \in Concerning(mainQ, f) /\ mainQ'[i] = mainQ[i]
    BY <1>1, <1>2 DEF Concerning
  <2> QED
    BY <1>2, <2>1 DEF QueuePasses, OnlyOne
<1>3. ASSUME Concerns(c, f), Concerning(mainQ, f) = {}, Len(mainQ') > Len(mainQ),
             mainQ'[Len(mainQ')] = c
      PROVE  Concerning(mainQ', f) = {Len(mainQ')}
  <2>1. Len(mainQ') \in 1..Len(mainQ') /\ Concerns(mainQ'[Len(mainQ')], f)
    BY <1>0, <1>3
  <2>2. ASSUME NEW i \in 1..Len(mainQ'), Concerns(mainQ'[i], f) PROVE i = Len(mainQ')
    BY <1>1, <1>3, <2>2 DEF Concerning
  <2> QED
    BY <2>1, <2>2 DEF Concerning
<1> QED
  BY <1>2, <1>3

\* The first block runs, and perhaps registers a listener.
LEMMA RunPasses ==
  ASSUME mainQ \in Seq(Blocks), mainQ # <<>>, NEW f, OnlyOne(Concerning(mainQ, f)),
         \/ mainQ' = Tail(mainQ)
         \/ \E l \in Listeners : mainQ' = Append(Tail(mainQ), InitialCall(l))
  PROVE  /\ QueuePasses(f)
         /\ Concerns(Head(mainQ), f) => Concerning(mainQ', f) = {}
<1> DEFINE t == Tail(mainQ)
<1>1. /\ t \in Seq(Blocks) /\ Len(t) \in Nat
      /\ \A i \in 1..Len(t) : t[i] = mainQ[i + 1] /\ i + 1 \in 1..Len(mainQ)
  BY TailFacts
<1>2. 1 \in 1..Len(mainQ) /\ Head(mainQ) = mainQ[1]
  OBVIOUS
<1>3. mainQ' = t \/ \E l \in Listeners : mainQ' = Append(t, InitialCall(l))
  OBVIOUS
<1> HIDE DEF t
<1>4. \A i \in Concerning(mainQ', f) : /\ i \in 1..Len(t) /\ mainQ'[i] = mainQ[i + 1]
                                       /\ i + 1 \in Concerning(mainQ, f)
  <2>1. CASE mainQ' = t
    BY <1>1, <2>1 DEF Concerning
  <2>2. ASSUME NEW l \in Listeners, mainQ' = Append(t, InitialCall(l))
        PROVE  \A i \in Concerning(mainQ', f) : /\ i \in 1..Len(t) /\ mainQ'[i] = mainQ[i + 1]
                                                /\ i + 1 \in Concerning(mainQ, f)
    <3>0. InitialCall(l) \in Blocks /\ InitialCall(l).kind = "init"
      BY InitialCallType
    <3>1. /\ Len(mainQ') = Len(t) + 1 /\ mainQ'[Len(t) + 1] = InitialCall(l)
          /\ \A i \in 1..Len(t) : mainQ'[i] = t[i]
      BY <1>1, <2>2, <3>0
    <3>2. \A i \in 1..Len(mainQ') : i \in 1..Len(t) \/ i = Len(t) + 1
      BY <1>1, <3>1
    <3>3. ~Concerns(InitialCall(l), f)
      BY <3>0 DEF Concerns
    <3>4. ASSUME NEW i \in Concerning(mainQ', f)
          PROVE  i \in 1..Len(t) /\ mainQ'[i] = mainQ[i + 1] /\ i + 1 \in Concerning(mainQ, f)
      <4>1. i \in 1..Len(mainQ') /\ Concerns(mainQ'[i], f)
        BY DEF Concerning
      <4>2. i \in 1..Len(t) /\ mainQ'[i] = t[i]
        BY <3>1, <3>2, <3>3, <4>1
      <4> QED
        BY <1>1, <4>1, <4>2 DEF Concerning
    <3> QED
      BY <3>4
  <2> QED
    BY <1>3, <2>1, <2>2
<1>5. QueuePasses(f)
  <2>1. \A i, j \in Concerning(mainQ', f) : i \in Nat /\ j \in Nat /\ i + 1 = j + 1
    BY <1>1, <1>4 DEF OnlyOne
  <2>2. OnlyOne(Concerning(mainQ', f))
    BY <2>1 DEF OnlyOne
  <2> QED
    BY <1>4, <2>2 DEF QueuePasses
<1>6. ASSUME Concerns(Head(mainQ), f), NEW i \in Concerning(mainQ', f) PROVE FALSE
  <2>1. 1 \in Concerning(mainQ, f)
    BY <1>2, <1>6 DEF Concerning
  <2>2. i \in 1..Len(t) /\ i + 1 \in Concerning(mainQ, f)
    BY <1>4, <1>6
  <2>3. i + 1 = 1
    BY <2>1, <2>2 DEF OnlyOne
  <2> QED
    BY <1>1, <2>2, <2>3
<1> QED
  BY <1>5, <1>6

\* Reads are issued for others than f, and one for f.
LEMMA IssueReads ==
  ASSUME reads \in Seq(ReadCalls), NEW doc \in Uids, NEW askers \in Seq(Flows \cup {"session"}),
         GetDocument(doc, askers), NEW f
  PROVE  /\ (\A i \in 1..Len(askers) : askers[i] # f) => Asking(reads', f) = Asking(reads, f)
         /\ askers = <<f>> /\ Asking(reads, f) = {} => Asking(reads', f) = {Len(reads) + 1}
         /\ \A i \in 1..Len(reads) : i \in 1..Len(reads') /\ reads'[i] = reads[i]
         /\ Len(reads') = Len(reads) + Len(askers)
         /\ \A i \in 1..Len(askers) : reads'[Len(reads) + i] = [doc |-> doc, asker |-> askers[i]]
<1> DEFINE new == [i \in 1..Len(askers) |-> [doc |-> doc, asker |-> askers[i]]]
<1>1. \A i \in 1..Len(askers) : [doc |-> doc, asker |-> askers[i]] \in ReadCalls
  BY DEF ReadCalls
<1>2. new \in Seq(ReadCalls) /\ Len(new) = Len(askers) /\ Len(askers) \in Nat /\ Len(reads) \in Nat
  BY <1>1
<1>3. \A i \in 1..Len(askers) : new[i] = [doc |-> doc, asker |-> askers[i]] /\ new[i].asker = askers[i]
  OBVIOUS
<1>4. reads' = reads \o new
  BY DEF GetDocument
<1> HIDE DEF new
<1>5. /\ Len(reads') = Len(reads) + Len(askers)
      /\ \A i \in 1..Len(reads) : reads'[i] = reads[i]
      /\ \A i \in 1..Len(askers) : reads'[Len(reads) + i] = new[i]
  BY <1>2, <1>4
<1>6. ASSUME NEW i \in 1..Len(reads'), i \notin 1..Len(reads)
      PROVE  i - Len(reads) \in 1..Len(askers) /\ reads'[i] = new[i - Len(reads)]
  <2>1. i - Len(reads) \in 1..Len(askers)
    BY <1>2, <1>5, <1>6
  <2>2. i = Len(reads) + (i - Len(reads))
    BY <1>2
  <2> QED
    BY <1>5, <2>1, <2>2
<1>7. \A i \in 1..Len(reads) : i \in 1..Len(reads')
  BY <1>2, <1>5
<1>8. ASSUME \A i \in 1..Len(askers) : askers[i] # f PROVE Asking(reads', f) = Asking(reads, f)
  <2>1. ASSUME NEW i \in 1..Len(reads'), reads'[i].asker = f PROVE i \in 1..Len(reads)
    BY <1>3, <1>6, <1>8, <2>1
  <2> QED
    BY <1>5, <1>7, <2>1 DEF Asking
<1>9. ASSUME askers = <<f>>, Asking(reads, f) = {} PROVE Asking(reads', f) = {Len(reads) + 1}
  <2>1. Len(askers) = 1 /\ askers[1] = f /\ 1 \in 1..Len(askers)
    BY <1>9
  <2>2. Len(reads) + 1 \in 1..Len(reads') /\ reads'[Len(reads) + 1].asker = f
    BY <1>2, <1>3, <1>5, <2>1
  <2>3. ASSUME NEW i \in 1..Len(reads'), reads'[i].asker = f PROVE i = Len(reads) + 1
    <3>1. i \notin 1..Len(reads)
      BY <1>5, <1>9, <2>3 DEF Asking
    <3> QED
      BY <1>2, <1>5, <2>1, <3>1
  <2> QED
    BY <2>2, <2>3 DEF Asking
<1> QED
  BY <1>3, <1>5, <1>7, <1>8, <1>9

\* What RemoveAt leaves.
LEMMA RemoveAtFacts ==
  ASSUME NEW S, NEW s \in Seq(S), NEW i \in 1..Len(s)
  PROVE  /\ Len(RemoveAt(s, i)) = Len(s) - 1
         /\ \A j \in 1..Len(s) - 1 : RemoveAt(s, i)[j] = s[IF j < i THEN j ELSE j + 1]
<1> DEFINE a == SubSeq(s, 1, i - 1)
           b == SubSeq(s, i + 1, Len(s))
<1>0. Len(s) \in Nat /\ i \in Nat /\ 1 <= i /\ i <= Len(s)
  OBVIOUS
<1>1. /\ a \in Seq(S) /\ Len(a) = i - 1 /\ \A j \in 1..i - 1 : a[j] = s[j]
  BY <1>0
<1>2. /\ b \in Seq(S) /\ Len(b) = Len(s) - i /\ \A j \in 1..Len(s) - i : b[j] = s[i + j]
  BY <1>0
<1>3. RemoveAt(s, i) = a \o b
  BY DEF RemoveAt
<1> HIDE DEF a, b
<1>4. /\ Len(a \o b) = Len(a) + Len(b)
      /\ \A j \in 1..Len(a) : (a \o b)[j] = a[j]
      /\ \A j \in 1..Len(b) : (a \o b)[Len(a) + j] = b[j]
  <2>1. a \in Seq(S) /\ b \in Seq(S)
    BY <1>1, <1>2
  <2> QED
    BY ONLY <2>1
<1>5. ASSUME NEW j \in 1..Len(s) - 1 PROVE (a \o b)[j] = s[IF j < i THEN j ELSE j + 1]
  <2>1. CASE j < i
    BY <1>0, <1>1, <1>4, <2>1
  <2>2. CASE ~(j < i)
    <3> DEFINE k == j - (i - 1)
    <3>1. k \in 1..Len(s) - i /\ j = Len(a) + k /\ i + k = j + 1
      BY <1>0, <1>1, <2>2
    <3> HIDE DEF k
    <3>2. (a \o b)[j] = b[k] /\ b[k] = s[i + k]
      BY <1>2, <1>4, <3>1
    <3> QED
      BY <2>2, <3>1, <3>2
  <2> QED
    BY <2>1, <2>2
<1> QED
  BY <1>0, <1>1, <1>2, <1>3, <1>4, <1>5

LEMMA ReadRemoved ==
  ASSUME reads \in Seq(ReadCalls), NEW i \in 1..Len(reads), reads' = RemoveAt(reads, i), NEW f,
         OnlyOne(Asking(reads, f))
  PROVE  /\ ReadsPass(f)
         /\ reads[i].asker = f => Asking(reads', f) = {}
<1> DEFINE At_(j) == IF j < i THEN j ELSE j + 1
<1>0. Len(reads) \in Nat /\ i \in Nat
  OBVIOUS
<1>1. Len(reads') = Len(reads) - 1 /\ \A j \in 1..Len(reads) - 1 : reads'[j] = reads[At_(j)]
  BY RemoveAtFacts
<1>2. \A j \in 1..Len(reads) - 1 : At_(j) \in 1..Len(reads) /\ At_(j) # i
  BY <1>0
<1>3. \A j, k \in 1..Len(reads) - 1 : At_(j) = At_(k) => j = k
  BY <1>0
<1> HIDE DEF At_
<1>4. \A j \in Asking(reads', f) : /\ j \in 1..Len(reads) - 1 /\ At_(j) \in Asking(reads, f)
                                   /\ At_(j) # i
  BY <1>1, <1>2 DEF Asking
<1>5. OnlyOne(Asking(reads', f))
  <2>1. ASSUME NEW j \in Asking(reads', f), NEW k \in Asking(reads', f) PROVE j = k
    <3>1. At_(j) = At_(k)
      BY <1>4 DEF OnlyOne
    <3> QED
      BY <1>3, <1>4, <3>1
  <2> QED
    BY <2>1 DEF OnlyOne
<1>6. ASSUME reads[i].asker = f, NEW j \in Asking(reads', f) PROVE FALSE
  <2>1. i \in Asking(reads, f)
    BY <1>6 DEF Asking
  <2> QED
    BY <1>4, <1>6, <2>1 DEF OnlyOne
<1>7. Asking(reads, f) = {} => Asking(reads', f) = {}
  BY <1>4
<1> QED
  BY <1>5, <1>6, <1>7 DEF ReadsPass

\* A step that leaves every request and its reads alone.
LEMMA OthersWait ==
  ASSUME FlowPart, UNCHANGED <<flow, reads>>, \A f \in Flows : QueuePasses(f)
  PROVE  FlowPart'
<1> SUFFICES ASSUME NEW f \in Flows PROVE Waits(mainQ', reads', f, flow'[f])
  BY DEF FlowPart
<1>1. Waits(mainQ, reads, f, flow[f])
  BY DEF FlowPart
<1>2. ReadsPass(f)
  BY <1>1 DEF ReadsPass, Waits
<1> QED
  BY <1>1, <1>2, PassedWaits

\* A step of request f that leaves the others, and what they wait for, alone.
LEMMA OneMoves ==
  ASSUME FlowPart, NEW f \in Flows, Waits(mainQ', reads', f, flow'[f]),
         \A g \in Flows : g # f => flow'[g] = flow[g] /\ QueuePasses(g) /\ ReadsPass(g)
  PROVE  FlowPart'
<1> SUFFICES ASSUME NEW g \in Flows PROVE Waits(mainQ', reads', g, flow'[g])
  BY DEF FlowPart
<1>1. CASE g = f
  BY <1>1
<1>2. CASE g # f
  BY <1>2, PassedWaits DEF FlowPart
<1> QED
  BY <1>1, <1>2

\* The first block concerns f: it runs, and f waits for a read or for nothing.
LEMMA BlockMoves ==
  ASSUME FlowPart, AuthTypeOK, mainQ # <<>>, NEW f \in Flows, Concerns(Head(mainQ), f),
         \/ mainQ' = Tail(mainQ)
         \/ \E l \in Listeners : mainQ' = Append(Tail(mainQ), InitialCall(l)),
         \A g \in Flows : g # f => flow'[g] = flow[g] /\ Asking(reads', g) = Asking(reads, g),
         \/ Asking(reads', f) = Asking(reads, f)
         \/ /\ Asking(reads', f) = {Len(reads) + 1}
            /\ flow'[f].op = "signIn" /\ flow'[f].pc = "fetch"
  PROVE  FlowPart'
<1>0. mainQ \in Seq(Blocks) /\ Waits(mainQ, reads, f, flow[f])
  BY DEF AuthTypeOK, FlowPart
<1>1. \A g \in Flows : QueuePasses(g) /\ (Concerns(Head(mainQ), g) => Concerning(mainQ', g) = {})
  BY <1>0, RunPasses DEF FlowPart, Waits
<1>2. Concerning(mainQ', f) = {}
  BY <1>1
<1>3. Asking(reads, f) = {}
  <2>1. 1 \in 1..Len(mainQ) /\ Head(mainQ) = mainQ[1]
    BY <1>0
  <2>2. 1 \in Concerning(mainQ, f)
    BY <2>1 DEF Concerning
  <2> QED
    BY <1>0, <2>2 DEF Waits
<1>4. Waits(mainQ', reads', f, flow'[f])
  <2>1. CASE Asking(reads', f) = Asking(reads, f)
    BY <1>2, <1>3, <2>1, WaitsForNothing
  <2>2. CASE /\ Asking(reads', f) = {Len(reads) + 1}
             /\ flow'[f].op = "signIn" /\ flow'[f].pc = "fetch"
    BY <1>2, <2>2 DEF Waits, OnlyOne
  <2> QED
    BY <2>1, <2>2
<1>5. \A g \in Flows : g # f => ReadsPass(g)
  BY DEF FlowPart, Waits, ReadsPass
<1> QED
  BY <1>1, <1>4, <1>5, OneMoves

\* The answer to request f, the block c, joins the main queue.
LEMMA AnswerMoves ==
  ASSUME FlowPart, AuthTypeOK, Len(mainQ') \in Nat, NEW f \in Flows, NEW c, Grown(c),
         Len(mainQ') > Len(mainQ), mainQ'[Len(mainQ')] = c,
         Concerns(c, f), \A g \in Flows : g # f => ~Concerns(c, g) /\ flow'[g] = flow[g],
         Concerning(mainQ, f) = {}, Asking(reads', f) = {},
         \A g \in Flows : g # f => ReadsPass(g),
         \/ c.kind = "auth" /\ flow'[f].pc = "callback"
         \/ c.kind = "commit" /\ flow'[f].op = "signUp" /\ flow'[f].pc = "committed"
         \/ c.kind = "read" /\ flow'[f].op = "signIn" /\ flow'[f].pc = "fetch"
  PROVE  FlowPart'
<1>0. mainQ \in Seq(Blocks)
  BY DEF AuthTypeOK
<1>1. Concerning(mainQ', f) = {Len(mainQ')}
  BY <1>0, GrownPasses
<1>2. Waits(mainQ', reads', f, flow'[f])
  BY <1>1 DEF Waits, OnlyOne
<1>3. \A g \in Flows : g # f => QueuePasses(g)
  BY <1>0, GrownPasses DEF FlowPart, Waits
<1> QED
  BY <1>2, <1>3, OneMoves

\* The steps that no request takes part in.
LEMMA QuietFlow ==
  ASSUME FlowPart, AuthTypeOK, AuthTypeOK', UNCHANGED <<flow, reads>>, Grown(WriteCallback)
  PROVE  FlowPart'
<1>1. mainQ \in Seq(Blocks) /\ Len(mainQ') \in Nat
  BY DEF AuthTypeOK
<1>2. \A f \in Flows : ~Concerns(WriteCallback, f)
  BY DEF Concerns, WriteCallback
<1>3. \A f \in Flows : QueuePasses(f)
  BY <1>1, <1>2, GrownPasses DEF FlowPart, Waits
<1> QED
  BY <1>3, OthersWait

LEMMA RunQuietFlow ==
  ASSUME FlowPart, AuthTypeOK, UNCHANGED flow, mainQ # <<>>, mainQ' = Tail(mainQ),
         \A f \in Flows : Asking(reads', f) = Asking(reads, f)
  PROVE  FlowPart'
<1> SUFFICES ASSUME NEW f \in Flows PROVE Waits(mainQ', reads', f, flow'[f])
  BY DEF FlowPart
<1>0. mainQ \in Seq(Blocks) /\ Waits(mainQ, reads, f, flow[f])
  BY DEF AuthTypeOK, FlowPart
<1>1. QueuePasses(f)
  BY <1>0, RunPasses DEF Waits
<1>2. ReadsPass(f)
  BY <1>0 DEF Waits, ReadsPass
<1> QED
  BY <1>0, <1>1, <1>2, PassedWaits

\* A request is started.
LEMMA StartFlow ==
  ASSUME FlowPart, AuthTypeOK, AppTypes, NEW f \in Flows, NEW op, NEW u, Start(f, op, u)
  PROVE  FlowPart'
<1>0. /\ flow[f] = Done /\ flow' = [flow EXCEPT ![f] = [op |-> op, pc |-> "rpc", uid |-> u]]
      /\ UNCHANGED <<mainQ, reads>>
  BY DEF Start, authVars, storeVars
<1>1. \A g \in Flows : g # f => flow'[g] = flow[g]
  BY <1>0 DEF AppTypes, FlowTypeOK
<1>2. \A g \in Flows : Waits(mainQ, reads, g, flow[g])
  BY DEF FlowPart
<1>3. Concerning(mainQ, f) = {} /\ Asking(reads, f) = {}
  BY <1>0, <1>2, IdleRequest DEF Done
<1>4. Waits(mainQ', reads', f, flow'[f])
  BY <1>0, <1>3, WaitsForNothing
<1>5. \A g \in Flows : QueuePasses(g) /\ ReadsPass(g)
  BY <1>0, <1>2 DEF QueuePasses, ReadsPass, Waits
<1> QED
  BY <1>1, <1>4, <1>5, OneMoves

\* What a request's answer is.
LEMMA CallbackFacts ==
  ASSUME NEW f \in Flows, NEW ok \in BOOLEAN
  PROVE  /\ Concerns(AuthCallback(f, ok), f) /\ AuthCallback(f, ok).kind = "auth"
         /\ AuthCallback(f, ok).ok = ok /\ AuthCallback(f, ok).flow = f
         /\ Concerns(CommitCallback(f, ok), f) /\ CommitCallback(f, ok).kind = "commit"
         /\ \A g : g # f => ~Concerns(AuthCallback(f, ok), g) /\ ~Concerns(CommitCallback(f, ok), g)
BY DEF Concerns, AuthCallback, CommitCallback

\* How a request advances off the main thread.
RequestAnswered(f) ==
  \E ok \in BOOLEAN :
    \/ /\ \/ At(f, "signIn", "rpc")
          \/ At(f, "signUp", "created")
          \/ flow[f].pc \in {"rpc", "created"} /\ ~ok
       /\ Joined(<<AuthCallback(f, ok)>>)
       /\ GoTo(f, "callback")
    \/ /\ At(f, "signUp", "commit")
       /\ Joined(<<CommitCallback(f, ok)>>)
       /\ GoTo(f, "committed")

LEMMA RequestEffect ==
  ASSUME AuthTypeOK, NEW f \in Flows, RequestStep(f)
  PROVE  /\ AccountCreated(f) \/ (RequestAnswered(f) /\ UNCHANGED accounts)
         /\ UNCHANGED <<observers, prev, storeVars, sessionVars, viewVars>>
<1>0. mainQ \in Seq(Blocks)
  BY DEF AuthTypeOK
<1>1. UNCHANGED <<storeVars, sessionVars, viewVars>>
  BY DEF RequestStep
<1>2. ASSUME NEW c, Dispatch(c), c \in Calls PROVE Joined(<<c>>) /\ UNCHANGED <<observers, prev>>
  <2>1. mainQ' = Append(mainQ, c)
    BY <1>2 DEF Dispatch
  <2>2. Append(mainQ, c) = mainQ \o <<c>>
    BY <1>0, <1>2 DEF Blocks
  <2> QED
    BY <1>2, <2>1, <2>2 DEF Joined, Dispatch
<1>3. CASE \E t \in Tokens, saved \in BOOLEAN :
             SignInAccepted(f, t, saved) \/ SignUpAccepted(f, t, saved)
  <2>1. PICK t \in Tokens, saved \in BOOLEAN :
          SignInAccepted(f, t, saved) \/ SignUpAccepted(f, t, saved)
    BY <1>3
  <2>2. CompleteSignIn(t, saved, <<AuthCallback(f, saved)>>)
    BY <2>1 DEF SignInAccepted, SignUpAccepted
  <2>3. Joined(<<AuthCallback(f, saved)>>) /\ UNCHANGED <<observers, prev>>
    BY <2>2, WorkJoins
  <2>4. /\ At(f, "signIn", "rpc") \/ At(f, "signUp", "created")
        /\ GoTo(f, "callback") /\ UNCHANGED accounts
    BY <2>1 DEF SignInAccepted, SignUpAccepted
  <2> QED
    BY <1>1, <2>3, <2>4 DEF RequestAnswered
<1>4. CASE AccountCreated(f)
  BY <1>1, <1>4 DEF AccountCreated, authVars
<1>5. CASE RequestFailed(f)
  <2>1. Joined(<<AuthCallback(f, FALSE)>>) /\ UNCHANGED <<observers, prev>>
    BY <1>2, <1>5, CallbackTypes DEF RequestFailed
  <2> QED
    BY <1>1, <1>5, <2>1 DEF RequestFailed, RequestAnswered
<1>6. CASE \E ok \in BOOLEAN : CommitDone(f, ok)
  <2>1. PICK ok \in BOOLEAN : CommitDone(f, ok)
    BY <1>6
  <2>2. Joined(<<CommitCallback(f, ok)>>) /\ UNCHANGED <<observers, prev>>
    <3>1. CASE Dispatch(CommitCallback(f, ok))
      BY <1>2, <3>1, CallbackTypes
    <3>2. CASE \E t \in Tokens : UpdateKeychain(t, ok, <<CommitCallback(f, ok)>>)
      BY <3>2, WorkJoins
    <3> QED
      BY <2>1, <3>1, <3>2 DEF CommitDone
  <2> QED
    BY <1>1, <2>1, <2>2 DEF CommitDone, RequestAnswered
<1> QED
  BY <1>3, <1>4, <1>5, <1>6 DEF RequestStep

LEMMA RequestFlow ==
  ASSUME FlowPart, AuthTypeOK, AuthTypeOK', AppTypes, NEW f \in Flows, RequestStep(f)
  PROVE  FlowPart'
<1>0. /\ mainQ \in Seq(Blocks) /\ Len(mainQ') \in Nat /\ FlowTypeOK /\ UNCHANGED reads
      /\ \A g \in Flows : Waits(mainQ, reads, g, flow[g])
  BY RequestEffect DEF AuthTypeOK, AppTypes, FlowPart, storeVars
<1>1. \A g \in Flows : ReadsPass(g)
  BY <1>0 DEF ReadsPass, Waits
<1>2. CASE AccountCreated(f)
  <2>1. UNCHANGED mainQ /\ flow[f].pc = "rpc" /\ GoTo(f, "created")
    BY <1>2 DEF AccountCreated, At, authVars
  <2>2. \A g \in Flows : g # f => flow'[g] = flow[g]
    BY <1>0, <2>1, RequestFacts
  <2>3. Concerning(mainQ, f) = {} /\ Asking(reads, f) = {}
    BY <1>0, <2>1, IdleRequest
  <2>4. Waits(mainQ', reads', f, flow'[f])
    BY <1>0, <2>1, <2>3, WaitsForNothing
  <2>5. \A g \in Flows : QueuePasses(g)
    BY <1>0, <2>1 DEF QueuePasses, Waits
  <2> QED
    BY <1>1, <2>2, <2>4, <2>5, OneMoves
<1>3. CASE RequestAnswered(f)
  <2>0. PICK ok \in BOOLEAN :
          \/ /\ flow[f].pc \in {"rpc", "created"} /\ Joined(<<AuthCallback(f, ok)>>)
             /\ GoTo(f, "callback")
          \/ At(f, "signUp", "commit") /\ Joined(<<CommitCallback(f, ok)>>) /\ GoTo(f, "committed")
    BY <1>3 DEF RequestAnswered, At
  <2>1. PICK c \in Calls :
          /\ Joined(<<c>>) /\ Concerns(c, f) /\ \A g \in Flows : g # f => ~Concerns(c, g)
          /\ \/ flow[f].pc \in {"rpc", "created"} /\ c.kind = "auth" /\ GoTo(f, "callback")
             \/ At(f, "signUp", "commit") /\ c.kind = "commit" /\ GoTo(f, "committed")
    BY <2>0, CallbackTypes, CallbackFacts
  <2>2. /\ \A g \in Flows : g # f => flow'[g] = flow[g]
        /\ \/ c.kind = "auth" /\ flow'[f].pc = "callback"
           \/ c.kind = "commit" /\ flow'[f].op = "signUp" /\ flow'[f].pc = "committed"
    BY <1>0, <2>1, RequestFacts DEF At
  <2>3. Concerning(mainQ, f) = {} /\ Asking(reads', f) = {}
    BY <1>0, <2>1, IdleRequest DEF At
  <2>4. Grown(c) /\ Len(mainQ') > Len(mainQ) /\ mainQ'[Len(mainQ')] = c
    BY <1>0, <2>1, JoinedGrows
  <2> QED
    BY <1>0, <1>1, <2>1, <2>2, <2>3, <2>4, AnswerMoves
<1> QED
  BY <1>2, <1>3, RequestEffect

\* The listeners an auth block calls.
LEMMA CalledFacts ==
  ASSUME AuthTypeOK, OnAuthState
  PROVE  /\ Called \subseteq Listeners /\ Cardinality(Called) \in Nat
         /\ Called # {} => Cardinality(Called) >= 1
         /\ user # None => Uid(user) \in Uids
<1>1. mainQ \in Seq(Blocks) /\ mainQ # <<>> /\ Head(mainQ).kind \in {"post", "init"}
  BY DEF OnAuthState, RunAuthBlock, AuthTypeOK
<1>2. Called \subseteq Listeners
  BY <1>1, TailFacts, BlockKinds DEF Called, Invoked, AuthTypeOK
<1>3. IsFiniteSet(Called) /\ Cardinality(Called) \in Nat
  BY <1>2, ListenersAssumption, FS_Subset, FS_CardinalityType
<1>4. Cardinality(Called) = 0 <=> Called = {}
  BY <1>3, FS_EmptySet
<1>5. user # None => Uid(user) \in Uids
  BY UidOfAssumption DEF AuthTypeOK, Users, Uid
<1> QED
  BY <1>2, <1>3, <1>4, <1>5

\* A document arrives for a request or for the session.
LEMMA ReadFlow ==
  ASSUME FlowPart, AuthTypeOK, AuthTypeOK', AppTypes, NEW i \in 1..Len(reads), Read(i)
  PROVE  FlowPart'
<1>0. /\ mainQ \in Seq(Blocks) /\ Len(mainQ') \in Nat /\ reads \in Seq(ReadCalls)
      /\ \A g \in Flows : Waits(mainQ, reads, g, flow[g])
      /\ UNCHANGED flow /\ reads' = RemoveAt(reads, i)
  BY DEF AuthTypeOK, AppTypes, FlowPart, Read, ReadDone, flowVars
<1>1. PICK res \in Results : Dispatch(ReadCallback(reads[i], res))
  BY DEF Read, Results
<1> DEFINE a == reads[i].asker
           c == ReadCallback(reads[i], res)
<1>2. c \in Calls /\ c \in Blocks /\ c.kind = "read" /\ \A g : Concerns(c, g) <=> g = a
  BY <1>0, CallbackTypes DEF ReadCallback, Concerns, Blocks
<1>3. mainQ' = Append(mainQ, c)
  BY <1>1 DEF Dispatch
<1> HIDE DEF c
<1>4. Grown(c) /\ Len(mainQ') = Len(mainQ) + 1 /\ mainQ'[Len(mainQ')] = c /\ Len(mainQ) \in Nat
  BY <1>0, <1>2, <1>3, AppendGrows
<1>5. \A g \in Flows : ReadsPass(g) /\ (a = g => Asking(reads', g) = {})
  BY <1>0, ReadRemoved DEF Waits
<1>6. CASE a \in Flows
  <2>1. i \in Asking(reads, a)
    BY DEF Asking
  <2>2. flow[a].op = "signIn" /\ flow[a].pc = "fetch" /\ Concerning(mainQ, a) = {}
    BY <1>0, <1>6, <2>1 DEF Waits
  <2> HIDE DEF a
  <2> QED
    BY <1>0, <1>2, <1>4, <1>5, <1>6, <2>2, AnswerMoves
<1>7. CASE a \notin Flows
  <2>1. \A g \in Flows : QueuePasses(g)
    BY <1>0, <1>2, <1>4, <1>7, GrownPasses DEF Waits
  <2>2. ASSUME NEW g \in Flows PROVE Waits(mainQ', reads', g, flow'[g])
    BY <1>0, <1>5, <2>1, PassedWaits
  <2> QED
    BY <2>2 DEF FlowPart
<1> QED
  BY <1>6, <1>7

\* The main queue's blocks.
LEMMA BlockFlow ==
  ASSUME FlowPart, AuthTypeOK, AppTypes, RunMainBlock
  PROVE  FlowPart'
<1>0. /\ mainQ \in Seq(Blocks) /\ reads \in Seq(ReadCalls) /\ FlowTypeOK
      /\ \A g \in Flows : g # "session"
  BY SessionAssumption DEF AuthTypeOK, AppTypes
<1>1. CASE OnAuthState
  <2>1. mainQ # <<>> /\ mainQ' = Tail(mainQ) /\ UNCHANGED flow
    BY <1>1 DEF OnAuthState, RunAuthBlock, flowVars
  <2>2. ASSUME NEW g \in Flows PROVE Asking(reads', g) = Asking(reads, g)
    <3>1. CASE reads' = reads
      BY <3>1
    <3>2. CASE /\ user # None
               /\ GetDocument(Uid(user), [i \in 1..Cardinality(Called) |-> "session"])
      <4>1. Uid(user) \in Uids /\ Cardinality(Called) \in Nat
        BY <1>1, <3>2, CalledFacts
      <4> DEFINE askers == [i \in 1..Cardinality(Called) |-> "session"]
      <4>2. /\ askers \in Seq(Flows \cup {"session"})
            /\ \A i \in 1..Len(askers) : askers[i] = "session"
        BY <4>1
      <4> HIDE DEF askers
      <4>3. GetDocument(Uid(user), askers)
        BY <3>2 DEF askers
      <4> QED
        BY <1>0, <4>1, <4>2, <4>3, IssueReads
    <3> QED
      BY <1>1, <3>1, <3>2 DEF OnAuthState, SessionTold
  <2> QED
    BY <2>1, <2>2, RunQuietFlow
<1>2. CASE OnSessionFetched \/ OnWriteRejected
  <2>1. mainQ # <<>> /\ mainQ' = Tail(mainQ) /\ UNCHANGED <<flow, reads>>
    BY <1>2 DEF OnSessionFetched, OnWriteRejected, FinishCall, storeVars, flowVars
  <2> QED
    BY <2>1, RunQuietFlow
<1>3. CASE OnSignIn
  <2> DEFINE f == Head(mainQ).flow
  <2>1. /\ mainQ # <<>> /\ mainQ' = Tail(mainQ) /\ f \in Flows /\ Concerns(Head(mainQ), f)
        /\ flow[f].op = "signIn" /\ flow[f].pc = "callback" /\ flow[f].uid \in Uids
    BY <1>0, <1>3, HeadTypes DEF OnSignIn, IsBlock, FinishCall, Concerns, At, FlowTypeOK, Done
  <2>2. CASE GetDocument(flow[f].uid, <<f>>) /\ GoTo(f, "fetch")
    <3> HIDE DEF f
    <3>1. /\ flow'[f].op = "signIn" /\ flow'[f].pc = "fetch"
          /\ \A g \in Flows : g # f => flow'[g] = flow[g]
      BY <1>0, <2>1, <2>2, RequestFacts
    <3>2. <<f>> \in Seq(Flows \cup {"session"}) /\ \A g : g # f => \A i \in 1..Len(<<f>>) : <<f>>[i] # g
      BY <2>1
    <3>3. Asking(reads, f) = {}
      <4>1. 1 \in 1..Len(mainQ) /\ Head(mainQ) = mainQ[1]
        BY <1>0, <2>1
      <4>2. 1 \in Concerning(mainQ, f)
        BY <2>1, <4>1 DEF Concerning
      <4> QED
        BY <2>1, <4>2 DEF FlowPart, Waits
    <3>4. Asking(reads', f) = {Len(reads) + 1}
      BY <1>0, <2>1, <2>2, <3>2, <3>3, IssueReads
    <3>5. ASSUME NEW g, g # f PROVE Asking(reads', g) = Asking(reads, g)
      <4> DEFINE askers == <<f>>
                 doc == flow[f].uid
      <4>1. /\ \A i \in 1..Len(askers) : askers[i] # g
            /\ askers \in Seq(Flows \cup {"session"}) /\ doc \in Uids
            /\ reads \in Seq(ReadCalls) /\ GetDocument(doc, askers)
        BY <1>0, <2>1, <2>2, <3>2, <3>5
      <4> HIDE DEF askers, doc
      <4> QED
        BY <4>1, IssueReads
    <3> QED
      BY <2>1, <3>1, <3>4, <3>5, BlockMoves
  <2>3. CASE Finish(f) /\ UNCHANGED reads
    <3> HIDE DEF f
    <3>1. \A g \in Flows : g # f => flow'[g] = flow[g]
      BY <1>0, <2>1, <2>3, RequestFacts
    <3> QED
      BY <2>1, <2>3, <3>1, BlockMoves
  <2> QED
    BY <1>3, <2>2, <2>3 DEF OnSignIn
<1>4. ASSUME NEW f \in Flows, Concerns(Head(mainQ), f), mainQ # <<>>, UNCHANGED reads,
             Finish(f) \/ (flow[f].pc # "done" /\ \E pc : GoTo(f, pc)),
             \/ mainQ' = Tail(mainQ)
             \/ \E l \in Listeners : mainQ' = Append(Tail(mainQ), InitialCall(l))
      PROVE  FlowPart'
  <2>1. \A g \in Flows : g # f => flow'[g] = flow[g]
    BY <1>0, <1>4, RequestFacts
  <2> QED
    BY <1>4, <2>1, BlockMoves
<1>5. CASE OnSignInFetched
  <2>1. /\ Head(mainQ).asker \in Flows /\ Concerns(Head(mainQ), Head(mainQ).asker) /\ mainQ # <<>>
        /\ UNCHANGED reads /\ Finish(Head(mainQ).asker) /\ mainQ' = Tail(mainQ)
    BY <1>5 DEF OnSignInFetched, IsBlock, Concerns, FinishCall, storeVars
  <2> QED
    BY <1>4, <2>1
<1>6. CASE OnSignUp
  <2>1. /\ Head(mainQ).flow \in Flows /\ Concerns(Head(mainQ), Head(mainQ).flow) /\ mainQ # <<>>
        /\ UNCHANGED reads /\ mainQ' = Tail(mainQ)
    BY <1>6, HeadTypes DEF OnSignUp, IsBlock, Concerns, FinishCall, storeVars
  <2>2. LET f == Head(mainQ).flow
        IN  Finish(f) \/ (flow[f].pc # "done" /\ \E pc : GoTo(f, pc))
    BY <1>6 DEF OnSignUp, At
  <2> QED
    BY <1>4, <2>1, <2>2
<1>7. CASE \E l \in Listeners : OnCommitted(l)
  <2>1. /\ Head(mainQ).flow \in Flows /\ Concerns(Head(mainQ), Head(mainQ).flow) /\ mainQ # <<>>
        /\ UNCHANGED reads /\ Finish(Head(mainQ).flow)
        /\ \E l \in Listeners : mainQ' = Append(Tail(mainQ), InitialCall(l))
    BY <1>7, HeadTypes DEF OnCommitted, IsBlock, Concerns, FinishCallAndListen, AddListenerTo
  <2> QED
    BY <1>4, <2>1
<1> QED
  BY <1>1, <1>2, <1>3, <1>5, <1>6, <1>7 DEF RunMainBlock

\* Every step keeps each request waiting for what its state says.
LEMMA FlowStep ==
  ASSUME FlowPart, AuthTypeOK, AuthTypeOK', AppTypes, [AppNext]_appVars
  PROVE  FlowPart'
<1>0. mainQ \in Seq(Blocks)
  BY DEF AuthTypeOK
<1>1. CASE \E f \in Flows, u \in Uids : TapSignIn(f, u) \/ TapSignUp(f, u)
  BY <1>1, StartFlow DEF TapSignIn, TapSignUp
<1>2. CASE \E f \in Flows : RequestStep(f)
  BY <1>2, RequestFlow
<1>3. CASE \E i \in 1..Len(reads) : Read(i)
  BY <1>3, ReadFlow
<1>4. CASE RunMainBlock
  BY <1>4, BlockFlow
<1>5. CASE Kill
  <2>1. mainQ' = <<>> /\ reads' = <<>> /\ 1..0 = {} /\ Len(<<>>) = 0
    BY <1>5 DEF Kill, Restart, StoreRestart
  <2>2. \A f \in Flows : Concerning(mainQ', f) = {} /\ Asking(reads', f) = {}
    BY <2>1 DEF Concerning, Asking
  <2>3. ASSUME NEW f \in Flows PROVE Waits(mainQ', reads', f, flow'[f])
    BY <2>2, WaitsForNothing
  <2> QED
    BY <2>3 DEF FlowPart
<1>6. CASE \E l \in Listeners : Appear(l)
  <2>1. PICK l \in Listeners : mainQ' = Append(mainQ, InitialCall(l))
    BY <1>6 DEF Appear, AddListener, AddListenerTo
  <2>2. Grown(WriteCallback)
    BY <1>0, <2>1, InitialCallType, AppendGrows
  <2>3. UNCHANGED <<flow, reads>>
    BY <1>6 DEF Appear, storeVars, flowVars
  <2> QED
    BY <2>2, <2>3, QuietFlow
<1>7. CASE (\E removed \in BOOLEAN : TapLogout(removed)) \/ Load \/ Refresh \/ Disown
  <2>1. Joined(<<>>)
    BY <1>7, WorkJoins DEF TapLogout, Load, Refresh, Disown
  <2>2. UNCHANGED <<flow, reads>>
    BY <1>7 DEF TapLogout, Load, Refresh, Disown, storeVars, flowVars
  <2> QED
    BY <1>0, <2>1, <2>2, JoinedGrows, QuietFlow
<1>8. CASE \E i \in 1..Len(writes) : Acknowledge(i) \/ Reject(i)
  <2>1. UNCHANGED mainQ \/ mainQ' = Append(mainQ, WriteCallback)
    BY <1>8 DEF Acknowledge, Reject, Dispatch, authVars
  <2>2. WriteCallback \in Blocks
    BY CallbackTypes DEF Blocks
  <2>3. Grown(WriteCallback)
    BY <1>0, <2>1, <2>2, SameGrows, AppendGrows
  <2>4. UNCHANGED <<flow, reads>>
    BY <1>8 DEF Acknowledge, Reject, AckWrite, RejectWrite, flowVars
  <2> QED
    BY <2>3, <2>4, QuietFlow
<1>9. CASE Navigate \/ UNCHANGED appVars
  <2>1. UNCHANGED <<flow, reads, mainQ>>
    BY <1>9 DEF Navigate, appVars, storeVars, flowVars, authVars
  <2> QED
    BY <1>0, <2>1, SameGrows, QuietFlow
<1> QED
  BY <1>1, <1>2, <1>3, <1>4, <1>5, <1>6, <1>7, <1>8, <1>9 DEF AppNext

-----------------------------------------------------------------------------
(* The forms.                                                              *)

\* What a step does to the requests on screen and their spinners.
LEMMA ShownStep ==
  ASSUME FlowPart, ShownPart, AuthTypeOK, AppTypes, [AppNext]_appVars
  PROVE  /\ ShownPart'
         /\ ~SignInSpins /\ SignInSpins' =>
              /\ IsBlock("read")
              /\ Head(mainQ).asker \in Flows
              /\ Head(mainQ).res \in {"missing", "undecodable"}
         /\ ~SignUpSpins /\ SignUpSpins' => IsBlock("auth") /\ Head(mainQ).ok /\ user = None
<1> DEFINE Good == /\ ShownPart'
                   /\ ~SignInSpins /\ SignInSpins' =>
                        /\ IsBlock("read")
                        /\ Head(mainQ).asker \in Flows
                        /\ Head(mainQ).res \in {"missing", "undecodable"}
                   /\ ~SignUpSpins /\ SignUpSpins' => IsBlock("auth") /\ Head(mainQ).ok /\ user = None
<1>0. /\ signInShown \subseteq Flows /\ signUpShown \subseteq Flows /\ FlowTypeOK
  BY DEF AppTypes, ViewsTypeOK
<1>1. ASSUME SessionPublished PROVE Good
  BY <1>1 DEF SessionPublished, ShownPart, SignInSpins, SignUpSpins
<1>2. ASSUME UNCHANGED viewVars, \A g \in Flows : flow'[g].op = flow[g].op PROVE Good
  <2>1. UNCHANGED <<signInShown, signUpShown, signInLoading, signUpLoading>>
    BY <1>2 DEF viewVars
  <2> QED
    BY <1>0, <1>2, <2>1 DEF ShownPart, SignInSpins, SignUpSpins
<1>3. ASSUME NEW f \in Flows, NEW u \in Uids, TapSignIn(f, u) \/ TapSignUp(f, u) PROVE Good
  <2>1. PICK op \in {"signIn", "signUp"} :
          /\ Start(f, op, u)
          /\ \/ op = "signIn" /\ SignInPublished(TRUE, signInShown \cup {f})
             \/ op = "signUp" /\ SignUpPublished(TRUE, signUpShown \cup {f})
    BY <1>3 DEF TapSignIn, TapSignUp
  <2>2. flow[f] = Done /\ flow' = [flow EXCEPT ![f] = [op |-> op, pc |-> "rpc", uid |-> u]]
    BY <2>1 DEF Start
  <2>3. flow'[f].op = op /\ \A g \in Flows : g # f => flow'[g] = flow[g]
    BY <1>0, <2>2 DEF FlowTypeOK
  <2>4. f \notin signInShown /\ f \notin signUpShown
    BY <2>2 DEF ShownPart, Done
  <2>5. /\ \A g \in signInShown : flow'[g].op = "signIn"
        /\ \A g \in signUpShown : flow'[g].op = "signUp"
    BY <1>0, <2>3, <2>4 DEF ShownPart
  <2>6. CASE op = "signIn" /\ SignInPublished(TRUE, signInShown \cup {f})
    BY <2>3, <2>5, <2>6 DEF SignInPublished, ShownPart, SignInSpins, SignUpSpins
  <2>7. CASE op = "signUp" /\ SignUpPublished(TRUE, signUpShown \cup {f})
    BY <2>3, <2>5, <2>7 DEF SignUpPublished, ShownPart, SignInSpins, SignUpSpins
  <2> QED
    BY <2>1, <2>6, <2>7
<1>4. ASSUME Navigate PROVE Good
  <2>1. /\ UNCHANGED <<signInLoading, signInShown, flow>>
        /\ UNCHANGED <<signUpLoading, signUpShown>> \/ (signUpLoading' = FALSE /\ signUpShown' = {})
    BY <1>4 DEF Navigate, OpenSignUp, Back, flowVars
  <2> QED
    BY <2>1 DEF ShownPart, SignInSpins, SignUpSpins
<1>5. ASSUME NEW f \in Flows, RequestStep(f) PROVE Good
  <2>1. UNCHANGED viewVars /\ flow[f].pc # "done" /\ \E pc : GoTo(f, pc)
    BY <1>5 DEF RequestStep, SignInAccepted, SignUpAccepted, AccountCreated,
       RequestFailed, CommitDone, At
  <2>2. \A g \in Flows : flow'[g].op = flow[g].op
    BY <1>0, <2>1, RequestFacts
  <2> QED
    BY <1>2, <2>1, <2>2
<1>6. ASSUME NEW f \in Flows, flow[f].op = "signIn", Finish(f), SignInCompletion(f) PROVE Good
  <2>1. flow'[f] = Done /\ \A g \in Flows : g # f => flow'[g] = flow[g]
    BY <1>0, <1>6, RequestFacts
  <2>2. f \notin signUpShown
    BY <1>6 DEF ShownPart
  <2>3. CASE f \in signInShown
    BY <1>0, <1>6, <2>1, <2>2, <2>3
    DEF SignInCompletion, SignInPublished, ShownPart, SignInSpins, SignUpSpins
  <2>4. CASE f \notin signInShown
    BY <1>0, <1>6, <2>1, <2>2, <2>4 DEF SignInCompletion, viewVars, ShownPart, SignInSpins, SignUpSpins
  <2> QED
    BY <2>3, <2>4
<1>7. CASE OnSignIn
  <2> DEFINE f == Head(mainQ).flow
  <2>1. f \in Flows /\ flow[f].op = "signIn" /\ flow[f].pc = "callback"
    BY <1>7, HeadTypes DEF OnSignIn, IsBlock, At
  <2>2. (GoTo(f, "fetch") /\ UNCHANGED viewVars) \/ (Finish(f) /\ SignInCompletion(f))
    BY <1>7 DEF OnSignIn
  <2> HIDE DEF f
  <2>3. CASE GoTo(f, "fetch") /\ UNCHANGED viewVars
    <3>1. \A g \in Flows : flow'[g].op = flow[g].op
      BY <1>0, <2>1, <2>3, RequestFacts
    <3> QED
      BY <1>2, <2>3, <3>1
  <2>4. CASE Finish(f) /\ SignInCompletion(f)
    BY <1>6, <2>1, <2>4
  <2> QED
    BY <2>2, <2>3, <2>4
<1>8. CASE OnSignInFetched
  <2> DEFINE f == Head(mainQ).asker
  <2>1. f \in Flows /\ mainQ # <<>> /\ IsBlock("read") /\ Head(mainQ).kind = "read" /\ Finish(f)
    BY <1>8 DEF OnSignInFetched, IsBlock
  <2>2. flow[f].op = "signIn"
    <3>1. 1 \in 1..Len(mainQ) /\ Head(mainQ) = mainQ[1]
      BY <2>1 DEF AuthTypeOK
    <3>2. 1 \in Concerning(mainQ, f) /\ mainQ[1].kind = "read"
      BY <2>1, <3>1 DEF Concerning, Concerns
    <3> QED
      BY <2>1, <3>2 DEF FlowPart, Waits
  <2>3. CASE SignInCompletion(f)
    BY <1>6, <2>1, <2>2, <2>3
  <2>4. CASE Head(mainQ).res \in {"missing", "undecodable"} /\ NoCompletion(f)
    <3>1. flow'[f] = Done /\ \A g \in Flows : g # f => flow'[g] = flow[g]
      BY <1>0, <2>1, RequestFacts
    <3>2. f \notin signUpShown
      BY <2>2 DEF ShownPart
    <3> QED
      BY <1>0, <2>1, <2>4, <3>1, <3>2 DEF NoCompletion, ShownPart, SignInSpins, SignUpSpins
  <2>5. SignInCompletion(f) \/ (Head(mainQ).res \in {"missing", "undecodable"} /\ NoCompletion(f))
    BY <1>8, <2>1, HeadTypes DEF OnSignInFetched, Results, Contents
  <2> QED
    BY <2>3, <2>4, <2>5
<1>9. CASE OnSignUp
  <2> DEFINE f == Head(mainQ).flow
  <2>1. /\ f \in Flows /\ flow[f].op = "signUp" /\ flow[f].pc = "callback" /\ f \notin signInShown
        /\ IsBlock("auth")
    BY <1>9, HeadTypes DEF OnSignUp, IsBlock, At, ShownPart
  <2>2. \/ GoTo(f, "commit") /\ UNCHANGED viewVars
        \/ Finish(f) /\ SignUpFailed(f)
        \/ Finish(f) /\ NoCompletion(f) /\ Head(mainQ).ok /\ user = None
    BY <1>9 DEF OnSignUp
  <2>3. CASE GoTo(f, "commit") /\ UNCHANGED viewVars
    <3> HIDE DEF f
    <3>1. \A g \in Flows : flow'[g].op = flow[g].op
      BY <1>0, <2>1, <2>3, RequestFacts
    <3> QED
      BY <1>2, <2>3, <3>1
  <2>4. ASSUME Finish(f) PROVE flow'[f] = Done /\ \A g \in Flows : g # f => flow'[g] = flow[g]
    BY <1>0, <2>1, <2>4, RequestFacts
  <2>5. CASE Finish(f) /\ SignUpFailed(f)
    <3>1. CASE f \in signUpShown
      BY <1>0, <2>1, <2>4, <2>5, <3>1
      DEF SignUpFailed, SignUpPublished, ShownPart, SignInSpins, SignUpSpins
    <3>2. CASE f \notin signUpShown
      BY <1>0, <2>1, <2>4, <2>5, <3>2 DEF SignUpFailed, viewVars, ShownPart, SignInSpins, SignUpSpins
    <3> QED
      BY <3>1, <3>2
  <2>6. CASE Finish(f) /\ NoCompletion(f) /\ Head(mainQ).ok /\ user = None
    BY <1>0, <2>1, <2>4, <2>6 DEF NoCompletion, ShownPart, SignInSpins, SignUpSpins
  <2> QED
    BY <2>2, <2>3, <2>5, <2>6
<1>10. CASE Kill
  BY <1>10 DEF Kill, ShownPart, SignInSpins, SignUpSpins
<1>11. \/ SessionPublished
       \/ UNCHANGED <<viewVars, flow>>
       \/ \E f \in Flows, u \in Uids : TapSignIn(f, u) \/ TapSignUp(f, u)
       \/ \E f \in Flows : RequestStep(f)
       \/ Navigate \/ OnSignIn \/ OnSignInFetched \/ OnSignUp \/ Kill
  BY DEF AppNext, appVars, Appear, TapLogout, Load, Refresh, Disown, Read, Acknowledge, Reject,
     RunMainBlock, OnAuthState, OnSessionFetched, OnCommitted, OnWriteRejected, flowVars
<1> QED
  BY <1>1, <1>2, <1>3, <1>4, <1>5, <1>7, <1>8, <1>9, <1>10, <1>11

-----------------------------------------------------------------------------
(* The session.                                                            *)

\* The fetches of the session that are queued in the main queue q, or issued.
QueuedFetch(q) == \E i \in 1..Len(q) : q[i].kind = "read" /\ q[i].asker = "session"
IssuedFetch(rs) == \E i \in 1..Len(rs) : rs[i].asker = "session"

\* What is under way for the session goes on, and it shows what it showed.
GoesOn ==
  /\ Fetching => Fetching'
  /\ FirstCallPending => FirstCallPending'
  /\ authUser \in Told => authUser \in Told'
  /\ UNCHANGED <<isLoading, authUser>>

\* A listener's first call is to come, and the rest of what is under way goes on.
Listens ==
  /\ FirstCallPending'
  /\ Fetching => Fetching'
  /\ authUser \in Told => authUser \in Told'
  /\ UNCHANGED authUser

\* The main queue grows.
LEMMA GrowingGoesOn ==
  ASSUME AuthTypeOK, AuthTypeOK', NEW c, Grown(c), UNCHANGED <<observers, prev, isLoading, authUser>>,
         IssuedFetch(reads) => Fetching'
  PROVE  GoesOn
<1>1. mainQ \in Seq(Blocks) /\ Len(mainQ) \in Nat /\ Len(mainQ') \in Nat
  BY DEF AuthTypeOK
<1>2. \A i \in 1..Len(mainQ) : i \in 1..Len(mainQ') /\ mainQ'[i] = mainQ[i]
  BY <1>1 DEF Grown
<1>3. Fetching => Fetching'
  BY <1>2 DEF Fetching, IssuedFetch
<1>4. FirstCallPending => FirstCallPending'
  BY <1>2 DEF FirstCallPending, Pending
<1>5. Told' = Told
  BY DEF Told
<1> QED
  BY <1>3, <1>4, <1>5 DEF GoesOn

\* A block runs that is neither the session's nor a listener's first call.
LEMMA RunningGoesOn ==
  ASSUME AuthTypeOK, mainQ # <<>>, mainQ' = Tail(mainQ),
         UNCHANGED <<observers, prev, isLoading, authUser>>,
         ~(Head(mainQ).kind = "read" /\ Head(mainQ).asker = "session"),
         \A l \in Listeners : prev[l] = Fresh => Head(mainQ) # InitialCall(l),
         IssuedFetch(reads) => IssuedFetch(reads')
  PROVE  GoesOn
<1>1. mainQ \in Seq(Blocks) /\ Len(mainQ) \in Nat /\ 1 \in 1..Len(mainQ) /\ Head(mainQ) = mainQ[1]
  BY DEF AuthTypeOK
<1>2. ASSUME QueuedFetch(mainQ) PROVE QueuedFetch(mainQ')
  <2>1. PICK i \in 1..Len(mainQ) : mainQ[i].kind = "read" /\ mainQ[i].asker = "session"
    BY <1>2 DEF QueuedFetch
  <2>2. i # 1
    BY <1>1, <2>1
  <2>3. i - 1 \in 1..Len(mainQ') /\ mainQ'[i - 1] = mainQ[i]
    BY <1>1, <2>2
  <2> QED
    BY <2>1, <2>3 DEF QueuedFetch
<1>3. (Fetching <=> QueuedFetch(mainQ) \/ IssuedFetch(reads))
      /\ (Fetching' <=> QueuedFetch(mainQ') \/ IssuedFetch(reads'))
  BY DEF Fetching, QueuedFetch, IssuedFetch
<1>4. Fetching => Fetching'
  BY <1>2, <1>3
<1>5. FirstCallPending => FirstCallPending'
  BY <1>1, TailFacts DEF FirstCallPending
<1>6. Told' = Told
  BY DEF Told
<1> QED
  BY <1>4, <1>5, <1>6 DEF GoesOn

\* A document arrives: if it is the session's, its closure is queued.
LEMMA ReadGoesOn ==
  ASSUME AuthTypeOK, AuthTypeOK', AppTypes, NEW i \in 1..Len(reads), Read(i)
  PROVE  GoesOn
<1>0. /\ mainQ \in Seq(Blocks) /\ reads \in Seq(ReadCalls) /\ Len(reads) \in Nat
      /\ reads' = RemoveAt(reads, i) /\ UNCHANGED <<observers, prev, isLoading, authUser>>
  BY DEF AuthTypeOK, AppTypes, Read, ReadDone, Dispatch, sessionVars
<1>1. PICK res \in Results : mainQ' = Append(mainQ, ReadCallback(reads[i], res))
  BY DEF Read, Results, Dispatch
<1> DEFINE c == ReadCallback(reads[i], res)
<1>2. c \in Blocks /\ c.kind = "read" /\ c.asker = reads[i].asker
  BY <1>0, CallbackTypes DEF ReadCallback, Blocks
<1> HIDE DEF c
<1>3. Grown(c) /\ Len(mainQ') = Len(mainQ) + 1 /\ mainQ'[Len(mainQ')] = c
  BY <1>0, <1>1, <1>2, AppendGrows DEF c
<1>4. ASSUME IssuedFetch(reads) PROVE Fetching'
  <2>1. PICK k \in 1..Len(reads) : reads[k].asker = "session"
    BY <1>4 DEF IssuedFetch
  <2>2. CASE k = i
    <3>1. Len(mainQ') \in 1..Len(mainQ')
      BY <1>0, <1>3
    <3> QED
      BY <1>2, <1>3, <2>1, <2>2, <3>1 DEF Fetching
  <2>3. CASE k # i
    <3> DEFINE j == IF k < i THEN k ELSE k - 1
    <3>1. j \in 1..Len(reads) - 1 /\ (IF j < i THEN j ELSE j + 1) = k
      BY <1>0, <2>3
    <3> HIDE DEF j
    <3>2. j \in 1..Len(reads') /\ reads'[j] = reads[k]
      BY <1>0, <3>1, RemoveAtFacts
    <3> QED
      BY <2>1, <3>2 DEF Fetching
  <2> QED
    BY <2>2, <2>3
<1> QED
  BY <1>0, <1>3, <1>4, GrowingGoesOn

\* listen() is called while the main queue is q.
LEMMA ListenStep ==
  ASSUME AuthTypeOK, AppTypes, NEW q \in Seq(Blocks), NEW l \in Listeners, AddListenerTo(q, l),
         isLoading' = TRUE, UNCHANGED <<authUser, reads>>, QueuedFetch(mainQ) => QueuedFetch(q)
  PROVE  Listens
<1>0. /\ mainQ' = Append(q, InitialCall(l)) /\ observers' = observers \cup {l}
      /\ prev[l] = Unused /\ prev' = [prev EXCEPT ![l] = Fresh]
      /\ prev \in [Listeners -> UserIds \cup {Fresh, Unused}] /\ observers \subseteq Listeners
      /\ InitialCall(l) \in Blocks
  BY InitialCallType DEF AddListenerTo, AuthTypeOK
<1>1. FirstCallPending'
  BY <1>0, AppendFacts DEF FirstCallPending
<1>2. ASSUME Fetching PROVE Fetching'
  <2>1. CASE IssuedFetch(reads)
    BY <2>1 DEF IssuedFetch, Fetching
  <2>2. CASE QueuedFetch(q)
    <3>1. PICK i \in 1..Len(q) : q[i].kind = "read" /\ q[i].asker = "session"
      BY <2>2 DEF QueuedFetch
    <3>2. i \in 1..Len(mainQ') /\ mainQ'[i] = q[i]
      BY <1>0
    <3> QED
      BY <3>1, <3>2 DEF Fetching
  <2> QED
    BY <1>2, <2>1, <2>2 DEF Fetching, QueuedFetch, IssuedFetch
<1>3. ASSUME authUser \in Told PROVE authUser \in Told'
  <2>1. PICK k \in observers : authUser = prev[k]
    BY <1>3 DEF Told
  <2>2. k # l
    BY <1>0, <2>1, SentinelAssumption DEF AppTypes, UserIds
  <2>3. prev'[k] = prev[k] /\ k \in observers'
    BY <1>0, <2>1, <2>2
  <2> QED
    BY <2>1, <2>3 DEF Told
<1> QED
  BY <1>1, <1>2, <1>3 DEF Listens

\* What an auth block does to the session.
LEMMA ToldStep ==
  ASSUME AuthTypeOK, AppTypes, OnAuthState
  PROVE  GoesOn \/ Fetching' \/ (isLoading' = FALSE /\ authUser' = None)
<1>0. /\ mainQ \in Seq(Blocks) /\ mainQ # <<>> /\ Head(mainQ).kind \in {"post", "init"}
      /\ mainQ' = Tail(mainQ) /\ UNCHANGED observers
      /\ reads \in Seq(ReadCalls) /\ Len(reads) \in Nat
      /\ prev \in [Listeners -> UserIds \cup {Fresh, Unused}]
      /\ prev' = [l \in Listeners |-> IF l \in Invoked THEN Uid(user) ELSE prev[l]]
  BY DEF OnAuthState, RunAuthBlock, AuthTypeOK, AppTypes
<1>1. CASE Called # {} /\ user # None
  <2> DEFINE askers == [i \in 1..Cardinality(Called) |-> "session"]
  <2>1. GetDocument(Uid(user), askers)
    BY <1>1 DEF OnAuthState, SessionTold
  <2>2. Cardinality(Called) \in Nat /\ Cardinality(Called) >= 1 /\ Uid(user) \in Uids
    BY <1>1, CalledFacts
  <2>3. /\ askers \in Seq(Flows \cup {"session"}) /\ Len(askers) = Cardinality(Called)
        /\ 1 \in 1..Len(askers) /\ askers[1] = "session"
    BY <2>2
  <2> HIDE DEF askers
  <2>4. /\ Len(reads') = Len(reads) + Len(askers)
        /\ reads'[Len(reads) + 1] = [doc |-> Uid(user), asker |-> askers[1]]
    BY <1>0, <2>1, <2>2, <2>3, IssueReads
  <2>5. Len(reads) + 1 \in 1..Len(reads') /\ reads'[Len(reads) + 1].asker = "session"
    BY <1>0, <2>2, <2>3, <2>4
  <2> QED
    BY <2>5 DEF Fetching
<1>2. CASE Called # {} /\ user = None
  BY <1>2 DEF OnAuthState, SessionTold
<1>3. CASE Called = {}
  <2>1. UNCHANGED <<isLoading, authUser, reads>>
    BY <1>3 DEF OnAuthState, SessionTold
  <2>2. \A l \in Invoked : prev[l] = Uid(user)
    BY <1>3 DEF Called
  <2>3. prev' = prev
    BY <1>0, <2>2
  <2>4. ASSUME NEW l \in Listeners, Head(mainQ) = InitialCall(l) PROVE prev[l] # Fresh
    <3>1. l \in Invoked
      BY <2>4 DEF Invoked, InitialCall
    <3>2. Uid(user) # Fresh
      BY UidOfAssumption, SentinelAssumption DEF Uid, AuthTypeOK, Users
    <3> QED
      BY <2>2, <3>1, <3>2
  <2> QED
    BY <1>0, <2>1, <2>3, <2>4, RunningGoesOn
<1> QED
  BY <1>1, <1>2, <1>3

\* What every step does to the session.
LEMMA SessionStep ==
  ASSUME AuthTypeOK, AuthTypeOK', AppTypes, [AppNext]_appVars
  PROVE  \/ GoesOn \/ Listens \/ Fetching'
         \/ isLoading' = FALSE /\ authUser' = None
         \/ OnSessionFetched
<1>0. /\ mainQ \in Seq(Blocks) /\ (IssuedFetch(reads) => Fetching) /\ "session" \notin Flows
      /\ UNCHANGED reads => (IssuedFetch(reads) => Fetching' /\ IssuedFetch(reads'))
  BY SessionAssumption DEF AuthTypeOK, IssuedFetch, Fetching
<1>1. CASE \E l \in Listeners : Appear(l)
  <2>1. PICK l \in Listeners : /\ AddListenerTo(mainQ, l) /\ isLoading' = TRUE
                               /\ UNCHANGED <<authUser, reads>>
    BY <1>1 DEF Appear, AddListener, storeVars
  <2> QED
    BY <1>0, <2>1, ListenStep
<1>2. CASE \E l \in Listeners : OnCommitted(l)
  <2>1. PICK l \in Listeners : /\ AddListenerTo(Tail(mainQ), l) /\ isLoading' = TRUE
                               /\ UNCHANGED <<authUser, reads>>
                               /\ mainQ # <<>> /\ Head(mainQ).kind = "commit"
    BY <1>2 DEF OnCommitted, FinishCallAndListen, IsBlock
  <2>2. Tail(mainQ) \in Seq(Blocks)
    BY <1>0, <2>1
  <2>3. ASSUME QueuedFetch(mainQ) PROVE QueuedFetch(Tail(mainQ))
    <3>1. PICK i \in 1..Len(mainQ) : mainQ[i].kind = "read" /\ mainQ[i].asker = "session"
      BY <2>3 DEF QueuedFetch
    <3>2. i # 1
      BY <1>0, <2>1, <3>1
    <3>3. i - 1 \in 1..Len(Tail(mainQ)) /\ Tail(mainQ)[i - 1] = mainQ[i]
      BY <1>0, <2>1, <3>2
    <3> QED
      BY <3>1, <3>3 DEF QueuedFetch
  <2> QED
    BY <2>1, <2>2, <2>3, ListenStep
<1>3. CASE \E i \in 1..Len(reads) : Read(i)
  BY <1>3, ReadGoesOn
<1>4. CASE OnAuthState
  BY <1>4, ToldStep
<1>5. CASE Kill
  BY <1>5 DEF Kill
<1>6. CASE OnSignIn \/ OnSignInFetched \/ OnSignUp \/ OnWriteRejected
  <2>1. /\ mainQ # <<>> /\ mainQ' = Tail(mainQ) /\ UNCHANGED <<observers, prev, isLoading, authUser>>
        /\ Head(mainQ).kind # "init"
        /\ ~(Head(mainQ).kind = "read" /\ Head(mainQ).asker = "session")
    BY <1>0, <1>6 DEF OnSignIn, OnSignInFetched, OnSignUp, OnWriteRejected, IsBlock, FinishCall,
       sessionVars
  <2>2. \A l \in Listeners : Head(mainQ) # InitialCall(l)
    BY <2>1 DEF InitialCall
  <2>3. IssuedFetch(reads) => IssuedFetch(reads')
    <3>1. CASE UNCHANGED reads
      BY <1>0, <3>1
    <3>2. CASE OnSignIn /\ reads' # reads
      <4> DEFINE f == Head(mainQ).flow
      <4>1. f \in Flows /\ At(f, "signIn", "callback") /\ GetDocument(flow[f].uid, <<f>>)
        BY <3>2, HeadTypes DEF OnSignIn, IsBlock
      <4> HIDE DEF f
      <4>2. flow[f].uid \in Uids /\ <<f>> \in Seq(Flows \cup {"session"}) /\ reads \in Seq(ReadCalls)
        BY <4>1 DEF AppTypes, FlowTypeOK, At, Done
      <4>3. \A i \in 1..Len(reads) : i \in 1..Len(reads') /\ reads'[i] = reads[i]
        BY <4>1, <4>2, IssueReads
      <4> QED
        BY <4>3 DEF IssuedFetch
    <3> QED
      BY <1>6, <3>1, <3>2 DEF OnSignInFetched, OnSignUp, OnWriteRejected, storeVars
  <2> QED
    BY <2>1, <2>2, <2>3, RunningGoesOn
<1>7. ASSUME NEW c, Grown(c), UNCHANGED <<observers, prev, isLoading, authUser, reads>> PROVE GoesOn
  BY <1>0, <1>7, GrowingGoesOn
<1>8. CASE (\E removed \in BOOLEAN : TapLogout(removed)) \/ Load \/ Refresh \/ Disown
  <2>1. Joined(<<>>) /\ UNCHANGED <<observers, prev>>
    BY <1>8, WorkJoins DEF TapLogout, Load, Refresh, Disown
  <2>2. UNCHANGED <<isLoading, authUser, reads>>
    BY <1>8 DEF TapLogout, Load, Refresh, Disown, storeVars, sessionVars
  <2> QED
    BY <1>0, <1>7, <2>1, <2>2, JoinedGrows
<1>9. CASE \E f \in Flows : RequestStep(f)
  <2>1. PICK f \in Flows : RequestStep(f)
    BY <1>9
  <2>2. UNCHANGED <<observers, prev, isLoading, authUser, reads>>
    BY <2>1, RequestEffect DEF storeVars, sessionVars
  <2>3. CASE AccountCreated(f)
    BY <1>0, <1>7, <2>2, <2>3, SameGrows DEF AccountCreated, authVars
  <2>4. CASE RequestAnswered(f)
    <3>1. PICK c \in Calls : Joined(<<c>>)
      BY <2>4, CallbackTypes DEF RequestAnswered
    <3> QED
      BY <1>0, <1>7, <2>2, <3>1, JoinedGrows
  <2> QED
    BY <2>1, <2>3, <2>4, RequestEffect
<1>10. CASE \E i \in 1..Len(writes) : Acknowledge(i) \/ Reject(i)
  <2>1. /\ UNCHANGED mainQ \/ mainQ' = Append(mainQ, WriteCallback)
        /\ UNCHANGED <<observers, prev, isLoading, authUser, reads>>
    BY <1>10 DEF Acknowledge, Reject, AckWrite, RejectWrite, Dispatch, authVars, sessionVars
  <2>2. WriteCallback \in Blocks
    BY CallbackTypes DEF Blocks
  <2> QED
    BY <1>0, <1>7, <2>1, <2>2, SameGrows, AppendGrows
<1>11. CASE UNCHANGED <<authVars, sessionVars, reads>>
  BY <1>0, <1>7, <1>11, SameGrows DEF authVars, sessionVars
<1>12. CASE Navigate \/ (\E f \in Flows, u \in Uids : TapSignIn(f, u) \/ TapSignUp(f, u))
            \/ UNCHANGED appVars
  <2>1. UNCHANGED <<authVars, sessionVars, reads>>
    BY <1>12 DEF Navigate, TapSignIn, TapSignUp, Start, appVars, storeVars
  <2> QED
    BY <1>11, <2>1
<1> QED
  BY <1>1, <1>2, <1>3, <1>4, <1>5, <1>6, <1>8, <1>9, <1>10, <1>12 DEF AppNext, RunMainBlock

\* How the session comes to be stranded, or to show the wrong user.
LEMMA SessionFaults ==
  ASSUME AuthTypeOK, AuthTypeOK', AppTypes, [AppNext]_appVars
  PROVE  /\ ~Stranded /\ Stranded' => Fetched(Uids, {"error", "missing"})
         /\ ~ShowsWrongUser /\ ShowsWrongUser' =>
              \/ Fetched(Uids \ Told, Results)
              \/ Fetched(Told, {"error", "missing", "undecodable"})
<1>1. CASE GoesOn
  BY <1>1 DEF GoesOn, Stranded, ShowsWrongUser
<1>2. CASE Listens
  BY <1>2 DEF Listens, Stranded, ShowsWrongUser
<1>3. CASE Fetching' \/ (isLoading' = FALSE /\ authUser' = None)
  BY <1>3 DEF Stranded, ShowsWrongUser
<1>4. CASE OnSessionFetched
  <2> DEFINE doc == Head(mainQ).doc
             res == Head(mainQ).res
  <2>1. /\ IsBlock("read") /\ Head(mainQ).asker = "session" /\ mainQ' = Tail(mainQ)
        /\ UNCHANGED <<observers, prev>>
        /\ isLoading' = (isLoading /\ res \in {"error", "missing"})
        /\ authUser' = IF res = "user" THEN doc ELSE authUser
    BY <1>4 DEF OnSessionFetched, SessionFetched, FinishCall
  <2>2. doc \in Uids /\ res \in Results
    BY <2>1, HeadTypes DEF IsBlock
  <2>3. Stranded' => Fetched(Uids, {"error", "missing"})
    BY <2>1, <2>2 DEF Stranded, Fetched
  <2>4. Told' = Told
    BY <2>1 DEF Told
  <2>5. CASE doc \notin Told
    BY <2>1, <2>2, <2>3, <2>5 DEF Fetched
  <2>6. CASE doc \in Told /\ res = "user"
    BY <2>1, <2>3, <2>4, <2>6 DEF ShowsWrongUser
  <2>7. CASE doc \in Told /\ res # "user"
    BY <2>1, <2>2, <2>3, <2>7 DEF Fetched, Results, Contents
  <2> QED
    BY <2>3, <2>5, <2>6, <2>7
<1> QED
  BY <1>1, <1>2, <1>3, <1>4, SessionStep

-----------------------------------------------------------------------------
(* The documents of new accounts.                                          *)

\* A step that runs no block and does not kill the app only adds blocks.
LEMMA QueueStep ==
  ASSUME AuthTypeOK, AppTypes, [AppNext]_appVars
  PROVE  RunMainBlock \/ Kill \/ \E c : Grown(c)
<1>0. mainQ \in Seq(Blocks)
  BY DEF AuthTypeOK
<1>1. CASE WorkStep
  <2>1. Joined(<<>>) \/ \E c \in Calls : Joined(<<c>>)
    BY <1>1, WorkJoins DEF WorkStep
  <2> QED
    BY <1>0, <2>1, JoinedGrows
<1>2. CASE \E l \in Listeners : AddListener(l)
  <2>1. PICK b \in Blocks : mainQ' = Append(mainQ, b)
    BY <1>2, InitialCallType DEF AddListener, AddListenerTo
  <2> QED
    BY <1>0, <2>1, AppendGrows
<1>3. CASE \E c \in Calls : Dispatch(c)
  <2>1. PICK b \in Blocks : mainQ' = Append(mainQ, b)
    BY <1>3 DEF Dispatch, Blocks
  <2> QED
    BY <1>0, <2>1, AppendGrows
<1>4. CASE UNCHANGED authVars
  BY <1>0, <1>4, SameGrows DEF authVars
<1> QED
  BY <1>1, <1>2, <1>3, <1>4, OutsideStep DEF Outside

\* A block that waits goes on waiting unless it is the one that runs.
LEMMA PendingStays ==
  ASSUME AuthTypeOK, AuthTypeOK', NEW b, Pending(mainQ, b),
         \/ \E c : Grown(c)
         \/ /\ mainQ # <<>> /\ Head(mainQ) # b
            /\ \/ mainQ' = Tail(mainQ)
               \/ \E l \in Listeners : mainQ' = Append(Tail(mainQ), InitialCall(l))
  PROVE  Pending(mainQ', b)
<1>0. mainQ \in Seq(Blocks) /\ Len(mainQ) \in Nat /\ Len(mainQ') \in Nat
  BY DEF AuthTypeOK
<1>1. CASE \E c : Grown(c)
  <2>1. PICK i \in 1..Len(mainQ) : mainQ[i] = b
    BY DEF Pending
  <2>2. i \in 1..Len(mainQ') /\ mainQ'[i] = mainQ[i]
    BY <1>0, <1>1 DEF Grown
  <2> QED
    BY <2>1, <2>2 DEF Pending
<1>2. ASSUME mainQ # <<>>, Head(mainQ) # b
      PROVE  Tail(mainQ) \in Seq(Blocks) /\ Pending(Tail(mainQ), b)
  BY <1>0, <1>2, TailFacts
<1>3. CASE mainQ # <<>> /\ Head(mainQ) # b /\ mainQ' = Tail(mainQ)
  BY <1>2, <1>3
<1>4. ASSUME mainQ # <<>>, Head(mainQ) # b, NEW l \in Listeners,
             mainQ' = Append(Tail(mainQ), InitialCall(l))
      PROVE  Pending(mainQ', b)
  BY <1>2, <1>4, InitialCallType, AppendFacts
<1> QED
  BY <1>1, <1>3, <1>4

QueuedWrite(u) == \E i \in 1..Len(writes) : writes[i].doc = u

\* A document written or queued stays so, unless the backend rejects the write.
LEMMA DocumentStays ==
  ASSUME AppTypes, [AppNext]_appVars, NEW u \in Uids, docs[u] # "missing" \/ QueuedWrite(u)
  PROVE  \/ docs'[u] # "missing" \/ QueuedWrite(u)'
         \/ \E i \in 1..Len(writes) : Reject(i)
<1> DEFINE W == [owner : Uids \cup {None}, doc : Uids]
<1>0. docs \in [Uids -> Contents] /\ writes \in Seq(W) /\ Len(writes) \in Nat
  BY DEF AppTypes, StoreTypeOK
<1>1. CASE UNCHANGED <<docs, writes>>
  BY <1>1 DEF QueuedWrite
<1>2. ASSUME NEW i \in 1..Len(writes), AckWrite(i)
      PROVE  docs'[u] # "missing" \/ QueuedWrite(u)'
  <2>1. docs' = [docs EXCEPT ![writes[i].doc] = "user"] /\ writes' = RemoveAt(writes, i)
    BY <1>2 DEF AckWrite
  <2>2. docs'[u] = docs[u] \/ docs'[u] = "user"
    BY <1>0, <2>1
  <2>3. ASSUME NEW k \in 1..Len(writes), writes[k].doc = u
        PROVE  docs'[u] # "missing" \/ QueuedWrite(u)'
    <3>1. CASE k = i
      BY <1>0, <2>1, <2>3, <3>1
    <3>2. CASE k # i
      <4> DEFINE j == IF k < i THEN k ELSE k - 1
      <4>1. j \in 1..Len(writes) - 1 /\ (IF j < i THEN j ELSE j + 1) = k
        BY <1>0, <3>2
      <4> HIDE DEF j
      <4>2. j \in 1..Len(writes') /\ writes'[j] = writes[k]
        BY <1>0, <2>1, <4>1, RemoveAtFacts
      <4> QED
        BY <2>3, <4>2 DEF QueuedWrite
    <3> QED
      BY <3>1, <3>2
  <2> QED
    BY <2>2, <2>3 DEF QueuedWrite
<1>3. ASSUME NEW owner, NEW doc, SetData(owner, doc), UNCHANGED docs
      PROVE  docs'[u] # "missing" \/ QueuedWrite(u)'
  <2> DEFINE w == [owner |-> owner, doc |-> doc]
  <2>1. writes' = Append(writes, w)
    BY <1>3 DEF SetData
  <2> HIDE DEF w
  <2>2. /\ Len(writes') = Len(writes) + 1
        /\ \A i \in 1..Len(writes) : i \in 1..Len(writes') /\ writes'[i] = writes[i]
    BY <1>0, <2>1
  <2> QED
    BY <1>3, <2>2 DEF QueuedWrite
<1>4. CASE \E l \in Listeners : OnCommitted(l)
  BY <1>3, <1>4 DEF OnCommitted
<1>5. \/ UNCHANGED <<docs, writes>>
      \/ \E i \in 1..Len(writes) : AckWrite(i) \/ Reject(i)
      \/ \E l \in Listeners : OnCommitted(l)
  BY DEF AppNext, appVars, storeVars, Appear, TapSignIn, TapSignUp, Start, TapLogout, Navigate,
     Load, Refresh, Disown, RequestStep, Read, ReadDone, Acknowledge, RunMainBlock, OnAuthState,
     OnSessionFetched, OnSignIn, OnSignInFetched, OnSignUp, OnWriteRejected, Kill, StoreRestart
<1> QED
  BY <1>1, <1>2, <1>4, <1>5

\* The faults that cost an account its document, as OrphanOnlyByFault lists them.
LosesDocument ==
  \/ Kill
  \/ \E i \in 1..Len(writes) : Reject(i)
  \/ \E f \in Flows : RequestFailed(f) /\ flow[f].pc = "created"
  \/ \E f \in Flows, t \in Tokens : SignUpAccepted(f, t, FALSE)
  \/ OnSignUp /\ user = None

\* A request that is not taken a step further goes on being about to write.
LEMMA WillWriteStays ==
  ASSUME AuthTypeOK, AuthTypeOK', NEW f \in Flows, NEW u \in Uids, WillWrite(f, u),
         flow'[f] = flow[f],
         \/ \E c : Grown(c)
         \/ /\ mainQ # <<>> /\ Head(mainQ) # AuthCallback(f, TRUE)
            /\ \/ mainQ' = Tail(mainQ)
               \/ \E l \in Listeners : mainQ' = Append(Tail(mainQ), InitialCall(l))
  PROVE  WillWrite(f, u)'
<1>1. Pending(mainQ, AuthCallback(f, TRUE)) => Pending(mainQ', AuthCallback(f, TRUE))
  BY PendingStays
<1> QED
  BY <1>1 DEF WillWrite

\* A request about to write advances off the main thread.
LEMMA WriterAnswered ==
  ASSUME AuthTypeOK, AuthTypeOK', AppTypes, NEW f \in Flows, NEW u \in Uids, WillWrite(f, u),
         RequestStep(f)
  PROVE  WillWrite(f, u)' \/ LosesDocument
<1>0. /\ FlowTypeOK /\ mainQ \in Seq(Blocks) /\ Len(mainQ) \in Nat /\ Len(mainQ') \in Nat
      /\ flow[f].op = "signUp" /\ flow[f].uid = u
      /\ flow[f].pc \in {"created", "commit", "committed", "callback"}
  <2>1. FlowTypeOK /\ mainQ \in Seq(Blocks) /\ Len(mainQ) \in Nat /\ Len(mainQ') \in Nat
    BY DEF AuthTypeOK, AppTypes
  <2>2. /\ flow[f].op = "signUp" /\ flow[f].uid = u
        /\ flow[f].pc \in {"created", "commit", "committed", "callback"}
    BY DEF WillWrite
  <2> QED
    BY <2>1, <2>2
<1>1. ASSUME NEW t \in Tokens, NEW saved \in BOOLEAN, SignUpAccepted(f, t, saved), saved
      PROVE  WillWrite(f, u)'
  <2>1. CompleteSignIn(t, saved, <<AuthCallback(f, TRUE)>>) /\ GoTo(f, "callback")
    BY <1>1 DEF SignUpAccepted
  <2>2. flow'[f].op = "signUp" /\ flow'[f].uid = u /\ flow'[f].pc = "callback"
    BY <1>0, <2>1, RequestFacts
  <2>3. Joined(<<AuthCallback(f, TRUE)>>)
    BY <2>1, WorkJoins
  <2>4. Len(mainQ') > Len(mainQ) /\ mainQ'[Len(mainQ')] = AuthCallback(f, TRUE)
    BY <1>0, <2>3, CallbackTypes, JoinedGrows
  <2>5. Len(mainQ') \in 1..Len(mainQ')
    BY <1>0, <2>4
  <2>6. Pending(mainQ', AuthCallback(f, TRUE))
    BY <2>4, <2>5 DEF Pending
  <2> QED
    BY <2>2, <2>6 DEF WillWrite
<1>2. ASSUME NEW t \in Tokens, NEW saved \in BOOLEAN,
             SignInAccepted(f, t, saved) \/ SignUpAccepted(f, t, saved)
      PROVE  WillWrite(f, u)' \/ LosesDocument
  <2>1. SignUpAccepted(f, t, saved)
    BY <1>0, <1>2 DEF SignInAccepted, At
  <2>2. CASE saved
    BY <1>1, <2>1, <2>2
  <2>3. CASE ~saved
    <3>1. SignUpAccepted(f, t, FALSE)
      BY <2>1, <2>3 DEF SignUpAccepted, CompleteSignIn, UpdateCurrentUser, AuthCallback
    <3> QED
      BY <3>1 DEF LosesDocument
  <2> QED
    BY <2>2, <2>3
<1>3. ASSUME AccountCreated(f) PROVE FALSE
  BY <1>0, <1>3 DEF AccountCreated, At
<1>4. CASE RequestFailed(f)
  <2>1. flow[f].pc = "created"
    BY <1>0, <1>4 DEF RequestFailed
  <2> QED
    BY <1>4, <2>1 DEF LosesDocument
<1>5. CASE \E ok \in BOOLEAN : CommitDone(f, ok)
  <2>1. GoTo(f, "committed")
    BY <1>5 DEF CommitDone
  <2>2. flow'[f].op = "signUp" /\ flow'[f].uid = u /\ flow'[f].pc = "committed"
    BY <1>0, <2>1, RequestFacts
  <2> QED
    BY <2>2 DEF WillWrite
<1> QED
  BY <1>2, <1>3, <1>4, <1>5 DEF RequestStep

\* A block of the main queue runs while request f is about to write.  That at most
\* one block waits for f makes createUser's callback, when it runs, the successful
\* one.
LEMMA WriterRuns ==
  ASSUME FlowPart, AuthTypeOK, AuthTypeOK', AppTypes, NEW f \in Flows, NEW u \in Uids,
         WillWrite(f, u), RunMainBlock
  PROVE  WillWrite(f, u)' \/ QueuedWrite(u)' \/ LosesDocument
<1>0. FlowTypeOK /\ mainQ \in Seq(Blocks) /\ "session" \notin Flows
  BY SessionAssumption DEF AuthTypeOK, AppTypes
<1>1. flow[f].op = "signUp" /\ flow[f].uid = u
  BY DEF WillWrite
<1>2. AuthCallback(f, TRUE).kind = "auth" /\ AuthCallback(f, TRUE).flow = f
  BY DEF AuthCallback
<1>3. mainQ # <<>> => 1 \in 1..Len(mainQ) /\ Head(mainQ) = mainQ[1]
  BY <1>0
<1>4. CASE OnAuthState \/ OnSessionFetched \/ OnWriteRejected
  <2>1. /\ mainQ # <<>> /\ mainQ' = Tail(mainQ) /\ flow' = flow /\ Head(mainQ).kind # "auth"
    BY <1>4 DEF OnAuthState, RunAuthBlock, OnSessionFetched, OnWriteRejected, IsBlock, FinishCall,
       flowVars
  <2> QED
    BY <1>2, <2>1, WillWriteStays
<1>5. CASE OnSignIn
  <2> DEFINE g == Head(mainQ).flow
  <2>1. /\ mainQ # <<>> /\ mainQ' = Tail(mainQ) /\ g \in Flows /\ g # f
        /\ GoTo(g, "fetch") \/ Finish(g)
        /\ flow[g].pc = "callback"
    BY <1>1, <1>5, HeadTypes DEF OnSignIn, IsBlock, At, FinishCall
  <2>2. Head(mainQ) # AuthCallback(f, TRUE)
    BY <1>2, <2>1
  <2> HIDE DEF g
  <2>3. flow'[f] = flow[f]
    BY <1>0, <2>1, RequestFacts
  <2> QED
    BY <2>1, <2>2, <2>3, WillWriteStays
<1>6. CASE OnSignInFetched
  <2> DEFINE g == Head(mainQ).asker
  <2>1. /\ mainQ # <<>> /\ mainQ' = Tail(mainQ) /\ g \in Flows /\ Finish(g)
        /\ Head(mainQ).kind = "read"
    BY <1>6 DEF OnSignInFetched, IsBlock, FinishCall
  <2>2. 1 \in Concerning(mainQ, g) /\ mainQ[1].kind = "read"
    BY <1>3, <2>1 DEF Concerning, Concerns
  <2>3. flow[g].op = "signIn"
    BY <2>1, <2>2 DEF FlowPart, Waits
  <2> HIDE DEF g
  <2>4. flow'[f] = flow[f]
    BY <1>0, <1>1, <2>1, <2>3, RequestFacts
  <2> QED
    BY <1>2, <2>1, <2>4, WillWriteStays
<1>7. CASE OnSignUp
  <2> DEFINE g == Head(mainQ).flow
  <2>1. /\ mainQ # <<>> /\ mainQ' = Tail(mainQ) /\ Head(mainQ).kind = "auth"
        /\ g \in Flows /\ flow[g].op = "signUp" /\ flow[g].pc = "callback"
        /\ GoTo(g, "commit") \/ Finish(g)
    BY <1>7, HeadTypes DEF OnSignUp, IsBlock, At, FinishCall
  <2>2. CASE g # f
    <3>1. Head(mainQ) # AuthCallback(f, TRUE)
      BY <1>2, <2>2
    <3> HIDE DEF g
    <3>2. flow'[f] = flow[f]
      BY <1>0, <2>1, <2>2, RequestFacts
    <3> QED
      BY <2>1, <3>1, <3>2, WillWriteStays
  <2>3. CASE g = f
    <3>1. PICK i \in 1..Len(mainQ) : mainQ[i] = AuthCallback(f, TRUE)
      BY <2>1, <2>3 DEF WillWrite, Pending
    <3>2. 1 \in Concerning(mainQ, f) /\ i \in Concerning(mainQ, f)
      BY <1>2, <1>3, <2>1, <2>3, <3>1 DEF Concerning, Concerns
    <3>3. i = 1
      BY <3>2 DEF FlowPart, Waits, OnlyOne
    <3>4. Head(mainQ).ok
      BY <1>3, <2>1, <3>1, <3>3 DEF AuthCallback
    <3>5. CASE user = None
      BY <1>7, <3>5 DEF LosesDocument
    <3>6. CASE user # None
      <4>1. GoTo(f, "commit")
        BY <1>7, <2>3, <3>4, <3>6 DEF OnSignUp
      <4>2. flow'[f].op = "signUp" /\ flow'[f].uid = u /\ flow'[f].pc = "commit"
        BY <1>0, <1>1, <2>1, <2>3, <4>1, RequestFacts
      <4> QED
        BY <4>2 DEF WillWrite
    <3> QED
      BY <3>5, <3>6
  <2> QED
    BY <2>2, <2>3
<1>8. ASSUME NEW l \in Listeners, OnCommitted(l) PROVE WillWrite(f, u)' \/ QueuedWrite(u)'
  <2> DEFINE g == Head(mainQ).flow
  <2>1. /\ mainQ # <<>> /\ mainQ' = Append(Tail(mainQ), InitialCall(l))
        /\ Head(mainQ).kind = "commit" /\ g \in Flows /\ Finish(g)
        /\ SetData(Instance(Uid(user)), flow[g].uid)
    BY <1>8, HeadTypes DEF OnCommitted, IsBlock, FinishCallAndListen, AddListenerTo
  <2> HIDE DEF g
  <2>2. CASE g # f
    <3>1. flow'[f] = flow[f]
      BY <1>0, <2>1, <2>2, RequestFacts
    <3> QED
      BY <1>2, <2>1, <3>1, WillWriteStays
  <2>3. CASE g = f
    <3> DEFINE w == [owner |-> Instance(Uid(user)), doc |-> u]
    <3>1. writes' = Append(writes, w) /\ w.doc = u
      BY <1>1, <2>1, <2>3 DEF SetData
    <3> HIDE DEF w
    <3>2. writes \in Seq([owner : Uids \cup {None}, doc : Uids])
      BY DEF AppTypes, StoreTypeOK
    <3>3. Len(writes) + 1 \in 1..Len(writes') /\ writes'[Len(writes) + 1] = w
      BY <3>1, <3>2
    <3> QED
      BY <3>1, <3>3 DEF QueuedWrite
  <2> QED
    BY <2>2, <2>3
<1> QED
  BY <1>4, <1>5, <1>6, <1>7, <1>8 DEF RunMainBlock

\* A request about to write its document goes on to do so, except for the faults.
LEMMA WriterStep ==
  ASSUME FlowPart, AuthTypeOK, AuthTypeOK', AppTypes, [AppNext]_appVars, NEW f \in Flows,
         NEW u \in Uids, WillWrite(f, u)
  PROVE  WillWrite(f, u)' \/ QueuedWrite(u)' \/ LosesDocument
<1>0. FlowTypeOK /\ flow[f].op = "signUp"
  BY DEF AppTypes, WillWrite
<1>1. CASE RunMainBlock
  BY <1>1, WriterRuns
<1>2. CASE Kill
  BY <1>2 DEF LosesDocument
<1>3. CASE RequestStep(f)
  BY <1>3, WriterAnswered
<1>4. CASE ~RunMainBlock /\ ~Kill /\ ~RequestStep(f)
  <2>1. \E c : Grown(c)
    BY <1>4, QueueStep
  <2>2. flow'[f] = flow[f]
    <3>1. ASSUME NEW g \in Flows, NEW v \in Uids, TapSignIn(g, v) \/ TapSignUp(g, v)
          PROVE  flow'[f] = flow[f]
      <4>1. PICK op : flow[g] = Done /\ flow' = [flow EXCEPT ![g] = [op |-> op, pc |-> "rpc", uid |-> v]]
        BY <3>1 DEF TapSignIn, TapSignUp, Start
      <4>2. g # f
        BY <1>0, <4>1, RequestFacts
      <4> QED
        BY <1>0, <4>1, <4>2 DEF FlowTypeOK
    <3>2. ASSUME NEW g \in Flows, g # f, RequestStep(g) PROVE flow'[f] = flow[f]
      <4>1. flow[g].pc # "done" /\ \E pc : GoTo(g, pc)
        BY <3>2 DEF RequestStep, SignInAccepted, SignUpAccepted, AccountCreated,
           RequestFailed, CommitDone, At
      <4> QED
        BY <1>0, <3>2, <4>1, RequestFacts
    <3>3. \/ UNCHANGED flow
          \/ \E g \in Flows, v \in Uids : TapSignIn(g, v) \/ TapSignUp(g, v)
          \/ \E g \in Flows : g # f /\ RequestStep(g)
      BY <1>4 DEF AppNext, appVars, Appear, TapLogout, Navigate, Load, Refresh, Disown, Read,
         Acknowledge, Reject, flowVars
    <3> QED
      BY <3>1, <3>2, <3>3
  <2> QED
    BY <2>1, <2>2, WillWriteStays
<1> QED
  BY <1>1, <1>2, <1>3, <1>4

\* An account becomes an orphan only by one of the faults.
LEMMA OrphanStep ==
  ASSUME FlowPart, AuthTypeOK, AuthTypeOK', AppTypes, [AppNext]_appVars, NEW u \in Uids,
         ~Orphan(u), Orphan(u)'
  PROVE  LosesDocument
<1>0. /\ u \in accounts' /\ docs'[u] = "missing" /\ ~QueuedWrite(u)'
      /\ \A f \in Flows : ~WillWrite(f, u)'
  BY DEF Orphan, QueuedWrite
<1>1. u \notin accounts \/ docs[u] # "missing" \/ QueuedWrite(u) \/ \E f \in Flows : WillWrite(f, u)
  BY DEF Orphan, QueuedWrite
<1>2. CASE u \notin accounts
  <2>1. PICK f \in Flows : AccountCreated(f)
    BY <1>0, <1>2 DEF AppNext, appVars, Appear, TapSignIn, TapSignUp, Start, TapLogout, Navigate,
       Load, Refresh, Disown, Read, Acknowledge, Reject, RunMainBlock, OnAuthState,
       OnSessionFetched, OnSignIn, OnSignInFetched, OnSignUp, OnCommitted, OnWriteRejected, Kill,
       RequestStep, SignInAccepted, SignUpAccepted, RequestFailed, CommitDone, flowVars
  <2>2. /\ flow[f].uid = u /\ At(f, "signUp", "rpc") /\ GoTo(f, "created")
    BY <1>0, <1>2, <2>1 DEF AccountCreated
  <2>3. flow'[f].op = "signUp" /\ flow'[f].uid = u /\ flow'[f].pc = "created"
    BY <2>2, RequestFacts DEF AppTypes, At
  <2> QED
    BY <1>0, <2>3 DEF WillWrite
<1>3. CASE docs[u] # "missing" \/ QueuedWrite(u)
  BY <1>0, <1>3, DocumentStays DEF LosesDocument
<1>4. CASE \E f \in Flows : WillWrite(f, u)
  BY <1>0, <1>4, WriterStep
<1> QED
  BY <1>1, <1>2, <1>3, <1>4

-----------------------------------------------------------------------------
(* The theorems about requests, forms, session and documents.              *)

\* The inductive invariant of the requests: besides the types, every request waits
\* for at most one callback or read, the one its state says, and the forms on
\* screen show only requests of their own that are not over.
RequestInv == AppInv /\ FlowPart /\ ShownPart

\* The invariant holds in every state: no request of AuthManager is ever called
\* back twice, or by a callback of another operation, however requests overlap.
THEOREM RequestInvariance == AppSpec => []RequestInv
<1>1. AppInit => RequestInv
  <2> SUFFICES ASSUME AppInit PROVE FlowPart /\ ShownPart
    BY AppInitInv DEF RequestInv
  <2>1. mainQ = <<>> /\ reads = <<>> /\ signInShown = {} /\ signUpShown = {}
        /\ Len(<<>>) = 0 /\ 1..0 = {}
    BY DEF AppInit, AuthInit, StoreInit, ViewsInit
  <2>2. \A f \in Flows : Concerning(mainQ, f) = {} /\ Asking(reads, f) = {}
    BY <2>1 DEF Concerning, Asking
  <2>3. ASSUME NEW f \in Flows PROVE Waits(mainQ, reads, f, flow[f])
    BY <2>2, WaitsForNothing
  <2> QED
    BY <2>1, <2>3 DEF FlowPart, ShownPart
<1>2. RequestInv /\ [AppNext]_appVars => RequestInv'
  <2> SUFFICES ASSUME RequestInv, [AppNext]_appVars PROVE RequestInv'
    OBVIOUS
  <2>1. AppInv /\ FlowPart /\ ShownPart /\ AuthTypeOK /\ AppTypes
    BY DEF RequestInv, AppInv, AuthInv
  <2>2. AppInv' /\ AuthTypeOK'
    BY <2>1, AppNextInv DEF AppInv, AuthInv
  <2>3. FlowPart' /\ ShownPart'
    BY <2>1, <2>2, FlowStep, ShownStep
  <2> QED
    BY <2>2, <2>3 DEF RequestInv
<1> QED
  BY <1>1, <1>2, PTL DEF AppSpec

\* What a step of the app relies on.
LEMMA StepFacts ==
  RequestInv /\ RequestInv' => FlowPart /\ ShownPart /\ AuthTypeOK /\ AuthTypeOK' /\ AppTypes
BY DEF RequestInv, AppInv, AuthInv

\* "Signing In..." is left on screen with nothing under way only by a sign-in whose
\* document is missing or undecodable, where AuthManager.signIn never calls its
\* completion: no overlap of requests, forms and publications does it.
THEOREM SignInSpinsOnlyByFetchHolds == AppSpec => SignInSpinsOnlyByFetch
<1>1. RequestInv /\ RequestInv' /\ [AppNext]_appVars =>
        [(~SignInSpins /\ SignInSpins')
           => /\ IsBlock("read")
              /\ Head(mainQ).asker \in Flows
              /\ Head(mainQ).res \in {"missing", "undecodable"}]_appVars
  BY StepFacts, ShownStep
<1> QED
  BY <1>1, RequestInvariance, PTL DEF AppSpec, SignInSpinsOnlyByFetch

\* "Registering Account..." is left on screen only by a user signed out between
\* createUser's success and its callback, where AuthManager.signUp returns without
\* a completion.
THEOREM SignUpSpinsOnlyBySignOutHolds == AppSpec => SignUpSpinsOnlyBySignOut
<1>1. RequestInv /\ RequestInv' /\ [AppNext]_appVars =>
        [(~SignUpSpins /\ SignUpSpins')
           => IsBlock("auth") /\ Head(mainQ).ok /\ user = None]_appVars
  BY StepFacts, ShownStep
<1> QED
  BY <1>1, RequestInvariance, PTL DEF AppSpec, SignUpSpinsOnlyBySignOut

\* The blank screen stays only by a session fetch that failed or found no document,
\* whatever listeners listen() leaked and however sign-ins and sign-outs interleave.
THEOREM StrandedOnlyByFetchHolds == AppSpec => StrandedOnlyByFetch
<1>1. RequestInv /\ RequestInv' /\ [AppNext]_appVars =>
        [(~Stranded /\ Stranded') => Fetched(Uids, {"error", "missing"})]_appVars
  BY StepFacts, SessionFaults
<1> QED
  BY <1>1, RequestInvariance, PTL DEF AppSpec, StrandedOnlyByFetch

\* The session comes to show a user its listeners were not told of only by a fetch
\* answered too late, or one for the right user without a usable document.
THEOREM WrongUserOnlyByFetchHolds == AppSpec => WrongUserOnlyByFetch
<1>1. RequestInv /\ RequestInv' /\ [AppNext]_appVars =>
        [(~ShowsWrongUser /\ ShowsWrongUser')
           => \/ Fetched(Uids \ Told, Contents \cup {"error"})
              \/ Fetched(Told, {"error", "missing", "undecodable"})]_appVars
  BY StepFacts, SessionFaults DEF Results
<1> QED
  BY <1>1, RequestInvariance, PTL DEF AppSpec, WrongUserOnlyByFetch

\* A created account loses its document-to-be only to the faults listed: in
\* AuthManager.signUp a failing commitChanges, overlapping requests and changes of
\* user never do.
THEOREM OrphanOnlyByFaultHolds == AppSpec => OrphanOnlyByFault
<1>1. RequestInv /\ RequestInv' /\ [AppNext]_appVars =>
        [\A u \in Uids : (~Orphan(u) /\ Orphan(u)') =>
           \/ Kill
           \/ \E i \in 1..Len(writes) : Reject(i)
           \/ \E f \in Flows : RequestFailed(f) /\ flow[f].pc = "created"
           \/ \E f \in Flows, t \in Tokens : SignUpAccepted(f, t, FALSE)
           \/ OnSignUp /\ user = None]_appVars
  <2> SUFFICES ASSUME RequestInv, RequestInv', [AppNext]_appVars, NEW u \in Uids,
                      ~Orphan(u), Orphan(u)'
               PROVE  LosesDocument
    BY DEF LosesDocument
  <2> QED
    BY StepFacts, OrphanStep
<1> QED
  BY <1>1, RequestInvariance, PTL DEF AppSpec, OrphanOnlyByFault

=============================================================================
