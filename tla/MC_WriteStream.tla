--------------------------- MODULE MC_WriteStream ---------------------------
(***************************************************************************)
(* WriteStream with a user, whose only token is named like the user.       *)
(***************************************************************************)
EXTENDS WriteStream

CONSTANT a

MCUidOf == [t \in Tokens |-> t]
TokenCalls == [kind : {"token"}, uid : UserIds \cup {Failed},
               counter : 0..MaxEvents + 1, close : 0..MaxEvents + MaxFaults + MaxWrites + 1]

=============================================================================
