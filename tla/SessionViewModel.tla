-------------------------- MODULE SessionViewModel --------------------------
(***************************************************************************)
(* SessionViewModel: which user the app shows.  listen() registers one     *)
(* more auth listener each time it is called and forgets the previous      *)
(* handle; a listener told of a user fetches the user's document and       *)
(* publishes it.  The operators compute the effect of its closures on the  *)
(* published state; SkripsiApp runs them.                                  *)
(***************************************************************************)
EXTENDS UsersCollection, FiniteSets

VARIABLES
  isLoading,   \* SessionViewModel.isLoading
  authUser     \* SessionViewModel.authUser, by user ID

sessionVars == <<isLoading, authUser>>

SessionInit == isLoading = FALSE /\ authUser = None

\* Seeded fault (no part of the specification): isLoading stays set without a user.
SessionTold_StillLoading(S) ==
  \/ S = {} /\ UNCHANGED <<isLoading, authUser, reads>>
  \/ /\ S # {} /\ user # None
     /\ GetDocument(Uid(user), [i \in 1..Cardinality(S) |-> "session"])
     /\ UNCHANGED <<isLoading, authUser>>
  \/ S # {} /\ user = None /\ authUser' = None /\ UNCHANGED <<isLoading, reads>>

\* Seeded fault (no part of the specification): authUser survives a sign-out.
SessionTold_KeepUser(S) ==
  \/ S = {} /\ UNCHANGED <<isLoading, authUser, reads>>
  \/ /\ S # {} /\ user # None
     /\ GetDocument(Uid(user), [i \in 1..Cardinality(S) |-> "session"])
     /\ UNCHANGED <<isLoading, authUser>>
  \/ S # {} /\ user = None /\ isLoading' = FALSE /\ UNCHANGED <<authUser, reads>>

\* The listeners in S are told the current user: with one, each fetches the
\* document; without, the session is over.
SessionTold(S) ==
  \/ /\ S = {}
     /\ UNCHANGED <<isLoading, authUser, reads>>
  \/ /\ S # {}
     /\ user # None
     /\ GetDocument(Uid(user), [i \in 1..Cardinality(S) |-> "session"])
     /\ UNCHANGED <<isLoading, authUser>>
  \/ /\ S # {}
     /\ user = None
     /\ isLoading' = FALSE
     /\ authUser' = None
     /\ UNCHANGED reads

\* The closure of the listener's getDocument, called with document doc: an
\* error or a missing document changes nothing, not even isLoading.
SessionFetched(doc, res) ==
  /\ isLoading' = (isLoading /\ res \in {"error", "missing"})
  /\ authUser' = IF res = "user" THEN doc ELSE authUser

\* Which of these calls assign a published property, whatever the value.
PublishesWhenTold(S) == S # {} /\ user = None
PublishesWhenFetched(res) == res \in {"user", "undecodable"}

=============================================================================
