----------------------------- MODULE AuthManager -----------------------------
(***************************************************************************)
(* AuthManager.signUp and AuthManager.signIn: chains of callbacks over     *)
(* Firebase Auth and Firestore.  A request (a member of Flows) is a record *)
(* of the call it waits for.                                               *)
(*                                                                         *)
(*   signIn:  rpc -> callback -> fetch -> done                             *)
(*   signUp:  rpc -> created -> callback -> commit -> committed -> done    *)
(*                                                                         *)
(* "created": the backend has the account, the client does not know yet.   *)
(* The backend's account list is external.                                 *)
(***************************************************************************)
EXTENDS Views

VARIABLES
  flow,        \* per request: the operation, the call it waits for, the account
  accounts     \* accounts the auth backend knows

flowVars == <<flow, accounts>>

Done == [op |-> "none", pc |-> "done", uid |-> None]

FlowInit == flow = [f \in Flows |-> Done] /\ accounts \in SUBSET Uids

\* The main-queue blocks of the callbacks.
AuthCallback(f, ok) == [kind |-> "auth", flow |-> f, ok |-> ok]
CommitCallback(f, ok) == [kind |-> "commit", flow |-> f, ok |-> ok]
ReadCallback(r, res) == [kind |-> "read", asker |-> r.asker, doc |-> r.doc, res |-> res]
WriteCallback == [kind |-> "write"]

AppCalls ==
  [kind : {"auth", "commit"}, flow : Flows, ok : BOOLEAN]
    \cup [kind : {"read"}, asker : Flows \cup {"session"}, doc : Uids,
          res : Contents \cup {"error"}]
    \cup {WriteCallback}

\* The client blocks of FIRAuth are the callbacks of this app.
ASSUME AppCallsAssumption == Calls = AppCalls

\* The session's own fetches are nobody's request.
ASSUME SessionAssumption == "session" \notin Flows

At(f, op, pc) == flow[f].op = op /\ flow[f].pc = pc
GoTo(f, pc) == flow' = [flow EXCEPT ![f].pc = pc]
\* Seeded fault (no part of the specification): only the program counter is reset.
Finish_Partly(f) == flow' = [flow EXCEPT ![f].pc = "done"]

Finish(f) == flow' = [flow EXCEPT ![f] = Done]

-----------------------------------------------------------------------------
(* Calls that complete off the main thread.                                *)

\* signInWithEmail is accepted: token t, then the user is made current.
SignInAccepted(f, t, saved) ==
  /\ At(f, "signIn", "rpc")
  /\ flow[f].uid \in accounts
  /\ UidOf[t] = flow[f].uid
  /\ CompleteSignIn(t, saved, <<AuthCallback(f, saved)>>)
  /\ GoTo(f, "callback")
  /\ UNCHANGED accounts

\* createUserWithEmail: the backend creates the account ...
AccountCreated(f) ==
  /\ At(f, "signUp", "rpc")
  /\ flow[f].uid \notin accounts
  /\ accounts' = accounts \cup {flow[f].uid}
  /\ GoTo(f, "created")
  /\ UNCHANGED authVars

\* ... and the client, once it has fetched the account's data, makes it current.
SignUpAccepted(f, t, saved) ==
  /\ At(f, "signUp", "created")
  /\ UidOf[t] = flow[f].uid
  /\ CompleteSignIn(t, saved, <<AuthCallback(f, saved)>>)
  /\ GoTo(f, "callback")
  /\ UNCHANGED accounts

\* Either request fails: refused by the backend, or the network failed, for a
\* sign-up possibly after the account was created.
RequestFailed(f) ==
  /\ flow[f].pc \in {"rpc", "created"}
  /\ Dispatch(AuthCallback(f, FALSE))
  /\ GoTo(f, "callback")
  /\ UNCHANGED accounts

\* The backend itself refuses: unknown account, or the address is taken.
Refused(f) == (flow[f].op = "signIn") # (flow[f].uid \in accounts)

\* commitChanges ends: a request of it failed, or its user is no longer current;
\* or the current user, with the token the backend may have issued, is saved.
CommitDone(f, ok) ==
  /\ At(f, "signUp", "commit")
  /\ \/ Dispatch(CommitCallback(f, ok))
     \/ \E t \in Tokens : UpdateKeychain(t, ok, <<CommitCallback(f, ok)>>)
  /\ GoTo(f, "committed")
  /\ UNCHANGED accounts

-----------------------------------------------------------------------------
(* The callbacks, on the main thread.  Each takes its block off the queue. *)

IsBlock(kind) == mainQ # <<>> /\ Head(mainQ).kind = kind

\* signIn's callback fetches the document, or reports the error.
OnSignIn ==
  /\ IsBlock("auth")
  /\ LET f == Head(mainQ).flow IN
     /\ At(f, "signIn", "callback")
     /\ \/ /\ Head(mainQ).ok
           /\ GetDocument(flow[f].uid, <<f>>)
           /\ fsUser' = Instance(Uid(user))
           /\ GoTo(f, "fetch")
           /\ UNCHANGED viewVars
        \/ /\ ~Head(mainQ).ok
           /\ Finish(f)
           /\ SignInCompletion(f)
           /\ UNCHANGED <<fsUser, reads>>
  /\ FinishCall
  /\ UNCHANGED <<docs, writes, accounts, sessionVars>>

\* The document of a sign-in arrives.  A missing or undecodable one ends the
\* request without a completion.
OnSignInFetched ==
  /\ IsBlock("read")
  /\ Head(mainQ).asker \in Flows
  /\ LET f == Head(mainQ).asker IN
     /\ Finish(f)
     /\ IF Head(mainQ).res \in {"error", "user"} THEN SignInCompletion(f)
                                                 ELSE NoCompletion(f)
  /\ FinishCall
  /\ UNCHANGED <<storeVars, accounts, sessionVars>>

\* createUser's callback: report the error; or set the display name of whoever
\* is current now, and stop without a completion if nobody is.
OnSignUp ==
  /\ IsBlock("auth")
  /\ LET f == Head(mainQ).flow IN
     /\ At(f, "signUp", "callback")
     /\ \/ ~Head(mainQ).ok /\ Finish(f) /\ SignUpFailed(f)
        \/ Head(mainQ).ok /\ user # None /\ GoTo(f, "commit") /\ UNCHANGED viewVars
        \/ Head(mainQ).ok /\ user = None /\ Finish(f) /\ NoCompletion(f)
  /\ FinishCall
  /\ UNCHANGED <<storeVars, accounts, sessionVars>>

\* Seeded fault (no part of the specification): return after commitChanges' error.
OnCommitted_Return(l) ==
  /\ IsBlock("commit")
  /\ LET f == Head(mainQ).flow IN
     /\ Finish(f)
     /\ \/ /\ Head(mainQ).ok
           /\ fsUser' = Instance(Uid(user))
           /\ SetData(Instance(Uid(user)), flow[f].uid)
           /\ isLoading' = TRUE
           /\ SessionPublished
           /\ FinishCallAndListen(l)
        \/ /\ ~Head(mainQ).ok
           /\ SignUpFailed(f)
           /\ FinishCall
           /\ UNCHANGED <<isLoading, fsUser, writes>>
  /\ UNCHANGED <<docs, reads, accounts, authUser>>

\* Seeded fault (no part of the specification): the view does not call listen().
OnCommitted_NoListen(l) ==
  /\ IsBlock("commit")
  /\ LET f == Head(mainQ).flow IN
     /\ fsUser' = Instance(Uid(user))
     /\ SetData(Instance(Uid(user)), flow[f].uid)
     /\ Finish(f)
     /\ SignUpFailed(f)
  /\ FinishCall
  /\ UNCHANGED <<docs, reads, accounts, sessionVars>>

\* commitChanges' callback.  Even after an error the document is written, to the
\* mutation queue of whoever Firestore's user is, and success is reported at
\* once: the view then calls listen() and dismisses itself.
OnCommitted(l) ==
  /\ IsBlock("commit")
  /\ LET f == Head(mainQ).flow IN
     /\ At(f, "signUp", "committed")
     /\ fsUser' = Instance(Uid(user))
     /\ SetData(Instance(Uid(user)), flow[f].uid)
     /\ Finish(f)
  /\ isLoading' = TRUE
  /\ SessionPublished
  /\ FinishCallAndListen(l)
  /\ UNCHANGED <<docs, reads, accounts, authUser>>

\* setData's callback with an error reports to a view model that listen() has
\* already replaced.
OnWriteRejected ==
  /\ IsBlock("write")
  /\ FinishCall
  /\ UNCHANGED <<storeVars, flowVars, sessionVars, viewVars>>

FlowTypeOK ==
  /\ flow \in [Flows -> [op : {"signIn", "signUp"},
                         pc : {"rpc", "created", "callback", "fetch", "commit", "committed"},
                         uid : Uids] \cup {Done}]
  /\ accounts \subseteq Uids

=============================================================================
