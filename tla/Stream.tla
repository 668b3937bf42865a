------------------------------- MODULE Stream -------------------------------
(***************************************************************************)
(* The life of a Firestore stream (remote/stream.cc), as operators on a    *)
(* record with at least the fields                                         *)
(*   state  Initial, Starting, Open, Error or Backoff                      *)
(*   close  close_count_                                                   *)
(*   idle   the idleness timer is pending                                  *)
(*   ok     no HARD_ASSERT has failed                                      *)
(* A pending back-off timer is the state Backoff itself: Close cancels it  *)
(* and leaves that state.  Delays are left out.  What Close tells its      *)
(* listener is up to the modules that use a stream.                        *)
(***************************************************************************)
EXTENDS Naturals

States == {"Initial", "Starting", "Open", "Error", "Backoff"}

IsOpen(s) == s.state = "Open"
IsStarted(s) == s.state \in {"Starting", "Backoff", "Open"}

\* HARD_ASSERT(p).
HardAssert(s, p) == [s EXCEPT !.ok = @ /\ p]

\* After an error a stream starts only after a back-off.  RequestCredentials is
\* called when the state becomes Starting.
Start(s) ==
  IF s.state = "Error" THEN [s EXCEPT !.state = "Backoff"]
  ELSE [HardAssert(s, s.state = "Initial") EXCEPT !.state = "Starting"]

\* The operation BackoffAndRun schedules.
BackoffElapsed(s) == Start([HardAssert(s, s.state = "Backoff") EXCEPT !.state = "Initial"])

\* ResumeStartWithCredentials with a token: the gRPC stream reports its start
\* without waiting for the server.
ResumeStart(s) == [HardAssert(s, s.state = "Starting") EXCEPT !.state = "Open"]

InhibitBackoff(s) == [HardAssert(s, ~IsStarted(s)) EXCEPT !.state = "Initial"]

MarkIdle(s) == IF IsOpen(s) THEN [s EXCEPT !.idle = TRUE] ELSE s
CancelIdleCheck(s) == [s EXCEPT !.idle = FALSE]

\* Close, gracefully (Stop) or with an error.
Close(s, graceful) ==
  IF graceful /\ ~IsStarted(s) THEN s
  ELSE [HardAssert(s, IsStarted(s)) EXCEPT
          !.state = IF graceful THEN "Initial" ELSE "Error",
          !.idle = FALSE,
          !.close = @ + 1]

=============================================================================
