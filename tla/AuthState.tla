------------------------------ MODULE AuthState ------------------------------
(***************************************************************************)
(* What addAuthStateDidChangeListener promises its callers, without tokens, *)
(* keychain, notifications or queues: listeners observe the current user   *)
(* ID.  A listener is only ever told the user ID that is current at that   *)
(* moment; it may skip values that came and went; and a registered listener *)
(* whose last value is out of date is eventually told.                     *)
(***************************************************************************)
CONSTANTS Uids, Listeners, None, Fresh, Unused

VARIABLES
  current,     \* the current user ID
  registered,  \* the handles registered
  told         \* per handle: the last user ID it was told

vars == <<current, registered, told>>

Init ==
  /\ current = None
  /\ registered = {}
  /\ told = [l \in Listeners |-> Unused]

Change ==
  /\ current' \in Uids \cup {None}
  /\ UNCHANGED <<registered, told>>

Register(l) ==
  /\ told[l] = Unused
  /\ registered' = registered \cup {l}
  /\ told' = [told EXCEPT ![l] = Fresh]
  /\ UNCHANGED current

Unregister(l) ==
  /\ l \in registered
  /\ registered' = registered \ {l}
  /\ UNCHANGED <<current, told>>

\* The listeners in S, registered now or earlier, are invoked.
Tell(S) ==
  /\ \A l \in S : told[l] # Unused
  /\ told' = [l \in Listeners |-> IF l \in S THEN current ELSE told[l]]
  /\ UNCHANGED <<current, registered>>

\* The process starts anew.
Reset ==
  /\ current' = None
  /\ registered' = {}
  /\ told' = [l \in Listeners |-> Unused]

Next ==
  \/ Change
  \/ \E l \in Listeners : Register(l) \/ Unregister(l)
  \/ \E S \in SUBSET Listeners : Tell(S)
  \/ Reset

\* The listener l, out of date, is invoked (possibly along with others).
Update(l) ==
  /\ l \in registered
  /\ told[l] # current
  /\ \E S \in SUBSET Listeners : l \in S /\ Tell(S)

Spec == Init /\ [][Next]_vars

FairSpec == Spec /\ \A l \in Listeners : WF_vars(Update(l))

=============================================================================
