----------------------------- MODULE WriteQueue -----------------------------
(***************************************************************************)
(* What Firestore promises about writes, without batches, pipeline, stream *)
(* or backend, and what UsersCollection assumes of them: every user has a  *)
(* queue of writes that outlives the process.  A write joins the queue of  *)
(* the user Firestore acts as, and only the first write of that user's     *)
(* queue is ever finished.                                                 *)
(***************************************************************************)
EXTENDS Naturals, Sequences

CONSTANTS UserIds, None

VARIABLES
  acting,    \* the user Firestore acts as
  pending,   \* per user: the numbers of the writes not finished yet
  made       \* how many writes were made

vars == <<acting, pending, made>>

Init ==
  /\ acting = None
  /\ pending = [u \in UserIds |-> <<>>]
  /\ made = 0

ActAs(u) ==
  /\ acting' = u
  /\ UNCHANGED <<pending, made>>

Write ==
  /\ made' = made + 1
  /\ pending' = [pending EXCEPT ![acting] = Append(@, made + 1)]
  /\ UNCHANGED acting

Finish ==
  /\ pending[acting] # <<>>
  /\ pending' = [pending EXCEPT ![acting] = Tail(@)]
  /\ UNCHANGED <<acting, made>>

Next == Write \/ Finish \/ \E u \in UserIds : ActAs(u)

Spec == Init /\ [][Next]_vars

=============================================================================
