------------------------- MODULE WatchStream_proofs -------------------------
(***************************************************************************)
(* Proofs about WatchStream, for any number of documents, reads, versions  *)
(* and faults.  The base invariant BaseInv (types, stream, online state,   *)
(* layers, reads) gives LayersAgree, NoAssertFails and OneCallback.  With  *)
(* FreshInv, which follows one document's versions from the backend to the *)
(* cache, it makes WatchInv, which gives SyncedIsFresh and NoLimbo.        *)
(***************************************************************************)
EXTENDS WatchStream, FiniteSetTheorems, FunctionTheorems, SequenceTheorems, TLAPS

-----------------------------------------------------------------------------
(* The base invariant: the types; its other parts follow their operators.  *)

Cached == Nat \cup {Unknown}
Requests == [op : {"watch", "unwatch"}, resume : Nat]
Messages ==
  [kind : {"added", "removed", "error", "current"}, key : Keys]
    \cup [kind : {"doc"}, key : Keys, v : Nat]
    \cup [kind : {"snapshot"}, tokens : [Keys -> Nat]]
Streams ==
  [state : States, close : Nat, idle : BOOLEAN, ok : BOOLEAN,
   sent : [Keys -> Seq(Requests)], received : Seq(Messages)]
TargetStates == [pending : Int, current : BOOLEAN, added : BOOLEAN, update : Cached]
Raised == [kind : {"value", "error"}, key : Keys, v : Nat, cached : BOOLEAN]
Clients ==
  [stream : Streams, tokens : SUBSET Nat, online : {"Unknown", "Online", "Offline"},
   failures : Nat, timer : BOOLEAN, targets : SUBSET Keys,
   states : [Keys -> TargetStates], listeners : [Keys -> SUBSET Reads],
   raised : SUBSET Reads, current : [Keys -> BOOLEAN], cache : [Keys -> Cached],
   synced : [Keys -> BOOLEAN], resume : [Keys -> Nat], out : [Reads -> Seq(Raised)]]

-----------------------------------------------------------------------------
(* What the operators on the client do.                                    *)

\* Emit only appends a value event to reads that listen.
LEMMA EmitFields ==
  ASSUME NEW c \in Clients, NEW rs \in [Keys -> SUBSET Reads]
  PROVE  LET d == Emit(c, rs)
         IN  /\ d \in Clients
             /\ d.stream = c.stream
             /\ d.tokens = c.tokens
             /\ d.online = c.online
             /\ d.failures = c.failures
             /\ d.timer = c.timer
             /\ d.targets = c.targets
             /\ d.states = c.states
             /\ d.listeners = c.listeners
             /\ d.current = c.current
             /\ d.cache = c.cache
             /\ d.synced = c.synced
             /\ d.resume = c.resume
             /\ \A r \in Reads :
                  \/ d.out[r] = c.out[r]
                  \/ \E k \in Keys, e \in Raised : /\ r \in rs[k]
                                                   /\ e.kind = "value"
                                                   /\ d.out[r] = Append(c.out[r], e)
<1> DEFINE told(r) == \E k \in Keys : r \in rs[k]
           of(r) == CHOOSE k \in Keys : r \in rs[k]
           ev(r) == Event("value", of(r), Shown(c.cache[of(r)]), ~c.current[of(r)])
           raised == c.raised \cup UNION {rs[k] : k \in Keys}
           out == [r \in Reads |-> IF \A k \in Keys : r \notin rs[k] THEN c.out[r]
                                   ELSE Append(c.out[r], ev(r))]
<1>1. \A r \in Reads : told(r) => of(r) \in Keys /\ r \in rs[of(r)]
  OBVIOUS
<1>2. \A r \in Reads : told(r) => ev(r) \in Raised /\ ev(r).kind = "value"
  <2>1. \A k \in Keys : c.cache[k] \in Cached /\ c.current[k] \in BOOLEAN
    BY DEF Clients
  <2> QED
    BY <1>1, <2>1 DEF Event, Raised, Shown, Cached
<1>3. raised \in SUBSET Reads
  BY DEF Clients
<1>4. out \in [Reads -> Seq(Raised)]
  <2>1. \A r \in Reads : c.out[r] \in Seq(Raised)
    BY DEF Clients
  <2> QED
    BY <1>2, <2>1
<1>5. Emit(c, rs) = [c EXCEPT !.raised = raised, !.out = out]
  BY Zenon DEF Emit
<1>6. \A r \in Reads : \/ out[r] = c.out[r]
                       \/ \E k \in Keys, e \in Raised : r \in rs[k] /\ e.kind = "value"
                                                        /\ out[r] = Append(c.out[r], e)
  BY <1>1, <1>2
<1> HIDE DEF raised, out, told, of, ev
<1>7. [c EXCEPT !.raised = raised, !.out = out] \in Clients
  BY <1>3, <1>4 DEF Clients
<1>8. [c EXCEPT !.raised = raised, !.out = out].out = out
  BY DEF Clients
<1>9. Emit(c, rs).out = out
  BY <1>5, <1>8
<1>10. LET d == [c EXCEPT !.raised = raised, !.out = out]
       IN  /\ d.stream = c.stream
           /\ d.tokens = c.tokens
           /\ d.online = c.online
           /\ d.failures = c.failures
           /\ d.timer = c.timer
           /\ d.targets = c.targets
           /\ d.states = c.states
           /\ d.listeners = c.listeners
           /\ d.current = c.current
           /\ d.cache = c.cache
           /\ d.synced = c.synced
           /\ d.resume = c.resume
  BY DEF Clients
<1> QED
  BY <1>5, <1>6, <1>7, <1>9, <1>10

\* The documents on disk and what is listened to stay as they are.
Frame(c, d) ==
  /\ d.targets = c.targets
  /\ d.listeners = c.listeners
  /\ d.cache = c.cache
  /\ d.synced = c.synced
  /\ d.resume = c.resume

\* Each listener may be told once.
Tells(c, d) ==
  \A r \in Reads :
    \/ d.out[r] = c.out[r]
    \/ \E k \in Keys, e \in Raised :
         /\ r \in c.listeners[k]
         /\ e.kind = "value"
         /\ d.out[r] = Append(c.out[r], e)

NoCurrent == [k \in Keys |-> FALSE]

\* Going offline makes no view current and tells listeners; the rest stays.
LEMMA GoOfflineFields ==
  ASSUME NEW c \in Clients
  PROVE  LET d == GoOffline(c)
         IN  /\ d \in Clients
             /\ d.stream = c.stream
             /\ d.tokens = c.tokens
             /\ d.online = c.online
             /\ d.failures = c.failures
             /\ d.timer = c.timer
             /\ d.states = c.states
             /\ d.current = NoCurrent
             /\ Frame(c, d)
             /\ Tells(c, d)
<1> DEFINE b == [c EXCEPT !.current = NoCurrent]
           rs == [k \in Keys |-> {r \in c.listeners[k] : r \notin c.raised \/ c.current[k]}]
<1>1. /\ b \in Clients
      /\ b.current = NoCurrent
  BY DEF Clients, NoCurrent
<1>2. /\ b.stream = c.stream
      /\ b.tokens = c.tokens
      /\ b.online = c.online
      /\ b.failures = c.failures
      /\ b.timer = c.timer
      /\ b.states = c.states
      /\ b.listeners = c.listeners
      /\ b.targets = c.targets
      /\ b.cache = c.cache
      /\ b.synced = c.synced
      /\ b.resume = c.resume
      /\ b.out = c.out
  BY DEF Clients
<1>3. rs \in [Keys -> SUBSET Reads] /\ \A k \in Keys : rs[k] \subseteq c.listeners[k]
  BY DEF Clients
<1>4. GoOffline(c) = Emit(b, rs)
  BY DEF GoOffline, NoCurrent
<1> HIDE DEF b, rs
<1>5. Frame(c, Emit(b, rs))
  BY <1>1, <1>2, <1>3, EmitFields DEF Frame
<1>6. Tells(c, Emit(b, rs))
  <2> SUFFICES ASSUME NEW r \in Reads
               PROVE  \/ Emit(b, rs).out[r] = c.out[r]
                      \/ \E k \in Keys, e \in Raised :
                           /\ r \in c.listeners[k]
                           /\ e.kind = "value"
                           /\ Emit(b, rs).out[r] = Append(c.out[r], e)
    BY DEF Tells
  <2>1. CASE Emit(b, rs).out[r] = b.out[r]
    BY <2>1, <1>2
  <2>2. CASE \E k \in Keys, e \in Raised : /\ r \in rs[k]
                                           /\ e.kind = "value"
                                           /\ Emit(b, rs).out[r] = Append(b.out[r], e)
    BY <2>2, <1>2, <1>3
  <2> QED
    BY <2>1, <2>2, <1>1, <1>3, EmitFields
<1> QED
  BY <1>1, <1>2, <1>3, <1>4, <1>5, <1>6, EmitFields

\* Only the state Offline is told to anybody.
LEMMA SetAndBroadcastQuiet ==
  ASSUME NEW c \in Clients, NEW state \in {"Unknown", "Online"}
  PROVE  LET d == SetAndBroadcast(c, state)
         IN  /\ d \in Clients
             /\ d.online = state
             /\ d.stream = c.stream
             /\ d.tokens = c.tokens
             /\ d.failures = c.failures
             /\ d.timer = c.timer
             /\ d.states = c.states
             /\ d.current = c.current
             /\ d.out = c.out
             /\ Frame(c, d)
<1>1. SetAndBroadcast(c, state) = [c EXCEPT !.online = state]
  BY DEF SetAndBroadcast
<1>2. [c EXCEPT !.online = state] \in Clients
  BY DEF Clients
<1> QED
  BY <1>1, <1>2 DEF Clients, Frame

\* Broadcasting Offline does what GoOffline does.
LEMMA SetAndBroadcastOffline ==
  ASSUME NEW c \in Clients
  PROVE  LET d == SetAndBroadcast(c, "Offline")
         IN  /\ d \in Clients
             /\ d.online = "Offline"
             /\ d.stream = c.stream
             /\ d.tokens = c.tokens
             /\ d.failures = c.failures
             /\ d.timer = c.timer
             /\ d.states = c.states
             /\ d.current = c.current \/ d.current = NoCurrent
             /\ Tells(c, d)
             /\ Frame(c, d)
<1> DEFINE b == [c EXCEPT !.online = "Offline"]
<1>1. b \in Clients
  BY DEF Clients
<1>2. /\ b.online = "Offline"
      /\ b.stream = c.stream
      /\ b.tokens = c.tokens
      /\ b.failures = c.failures
      /\ b.timer = c.timer
      /\ b.states = c.states
      /\ b.current = c.current
      /\ b.listeners = c.listeners
      /\ b.out = c.out
  BY DEF Clients
<1>3. Frame(c, b)
  BY DEF Clients, Frame
<1>4. SetAndBroadcast(c, "Offline") = b \/ SetAndBroadcast(c, "Offline") = GoOffline(b)
  BY DEF SetAndBroadcast
<1> HIDE DEF b
<1>5. CASE SetAndBroadcast(c, "Offline") = b
  BY <1>1, <1>2, <1>3, <1>5 DEF Tells
<1>6. CASE SetAndBroadcast(c, "Offline") = GoOffline(b)
  <2>1. Frame(c, GoOffline(b))
    BY <1>1, <1>3, GoOfflineFields DEF Frame
  <2>2. Tells(b, GoOffline(b))
    BY <1>1, GoOfflineFields
  <2>3. Tells(c, GoOffline(b))
    BY <1>2, <2>2 DEF Tells
  <2> QED
    BY <1>1, <1>2, <1>6, <2>1, <2>3, GoOfflineFields
<1> QED
  BY <1>4, <1>5, <1>6

\* A state other than Offline stops the timer, forgets the failures and leaves the views.
LEMMA UpdateStateFields ==
  ASSUME NEW c \in Clients, NEW state \in {"Unknown", "Online"}
  PROVE  LET d == UpdateState(c, state)
         IN  /\ d \in Clients
             /\ d.online = state
             /\ d.stream = c.stream
             /\ d.tokens = c.tokens
             /\ d.failures = 0
             /\ d.timer = FALSE
             /\ d.states = c.states
             /\ d.current = c.current
             /\ d.out = c.out
             /\ Frame(c, d)
<1> DEFINE b == [c EXCEPT !.timer = FALSE, !.failures = 0]
<1>1. b \in Clients
  BY DEF Clients
<1>2. /\ b.stream = c.stream
      /\ b.tokens = c.tokens
      /\ b.failures = 0
      /\ b.timer = FALSE
      /\ b.states = c.states
      /\ b.current = c.current
      /\ b.out = c.out
      /\ Frame(c, b)
  BY DEF Clients, Frame
<1>3. UpdateState(c, state) = SetAndBroadcast(b, state)
  BY DEF UpdateState
<1> HIDE DEF b
<1>4. Frame(c, SetAndBroadcast(b, state))
  BY <1>1, <1>2, SetAndBroadcastQuiet DEF Frame
<1> QED
  BY <1>1, <1>2, <1>3, <1>4, SetAndBroadcastQuiet

-----------------------------------------------------------------------------
(* The stream and the online state.                                        *)

NoStatesAtAll == [k \in Keys |-> NoTarget]

Silent(s) == s.sent = [k \in Keys |-> <<>>] /\ s.received = <<>> /\ ~s.idle

\* The stream waits for one token when it is starting, carries messages when it is
\* open, and is idle only without targets.
StreamPart(c) ==
  /\ c.stream.ok
  /\ \A n \in c.tokens : n <= c.stream.close
  /\ (c.stream.close \in c.tokens) <=> (c.stream.state = "Starting")
  /\ ~IsOpen(c.stream) => Silent(c.stream) /\ c.states = NoStatesAtAll
  /\ c.stream.idle => c.targets = {}

\* The timer runs only during a first attempt to connect.
TrackerPart(c) ==
  /\ c.timer => c.online = "Unknown" /\ c.failures = 0 /\ IsStarted(c.stream)
  /\ c.online = "Online" => c.failures = 0

\* A stream that was closed: what OnWatchStreamClose and StartWatchStream find.
Stopped(c) ==
  /\ c.stream.ok
  /\ ~IsStarted(c.stream)
  /\ Silent(c.stream)
  /\ \A n \in c.tokens : n <= c.stream.close
  /\ c.stream.close \notin c.tokens
  /\ c.timer => c.online = "Unknown" /\ c.failures = 0
  /\ c.online = "Online" => c.failures = 0

\* Nothing but the stream, its token requests and the tracker has changed.
StreamOnly(c, d) ==
  /\ Frame(c, d)
  /\ d.current = c.current
  /\ d.out = c.out

\* The aggregator is emptied and nothing else changes.
LEMMA NoStatesFields ==
  ASSUME NEW c \in Clients
  PROVE  LET d == NoStates(c)
         IN  /\ d \in Clients
             /\ d.stream = c.stream
             /\ d.tokens = c.tokens
             /\ d.online = c.online
             /\ d.failures = c.failures
             /\ d.timer = c.timer
             /\ d.states = NoStatesAtAll
             /\ StreamOnly(c, d)
<1>1. NoTarget \in TargetStates
  BY DEF NoTarget, TargetStates, Cached
<1>2. [c EXCEPT !.states = NoStatesAtAll] \in Clients
  BY <1>1 DEF Clients, NoStatesAtAll
<1>3. NoStates(c) = [c EXCEPT !.states = NoStatesAtAll]
  BY DEF NoStates, NoStatesAtAll
<1> QED
  BY <1>2, <1>3 DEF Clients, StreamOnly, Frame

\* The client with another stream.
LEMMA StreamFields ==
  ASSUME NEW c \in Clients, NEW s \in Streams
  PROVE  LET d == [c EXCEPT !.stream = s]
         IN  /\ d \in Clients
             /\ d.stream = s
             /\ d.tokens = c.tokens
             /\ d.online = c.online
             /\ d.failures = c.failures
             /\ d.timer = c.timer
             /\ d.states = c.states
             /\ d.current = c.current
             /\ d.out = c.out
             /\ d.targets = c.targets
             /\ d.listeners = c.listeners
             /\ d.cache = c.cache
             /\ d.synced = c.synced
             /\ d.resume = c.resume
<1>1. [c EXCEPT !.stream = s] \in Clients
  BY DEF Clients
<1> QED
  BY <1>1 DEF Clients

\* An assertion that holds changes nothing; one that fails only clears ok.
LEMMA CheckFields ==
  ASSUME NEW c \in Clients, NEW p \in BOOLEAN
  PROVE  LET d == Check(c, p)
         IN  /\ d \in Clients
             /\ p => d = c
             /\ d.tokens = c.tokens
             /\ d.online = c.online
             /\ d.failures = c.failures
             /\ d.timer = c.timer
             /\ d.states = c.states
             /\ StreamOnly(c, d)
<1> DEFINE s == HardAssert(c.stream, p)
<1>1. c.stream \in Streams
  BY DEF Clients
<1>2. s \in Streams
  BY <1>1 DEF HardAssert, Streams
<1>3. Check(c, p) = [c EXCEPT !.stream = s]
  BY DEF Check
<1>4. ASSUME p PROVE Check(c, p) = c
  <2>1. s = c.stream
    BY <1>1, <1>4 DEF HardAssert, Streams
  <2> QED
    BY <1>3, <2>1 DEF Clients
<1> HIDE DEF s
<1> QED
  BY <1>2, <1>3, <1>4, StreamFields DEF StreamOnly, Frame

\* StartWatchStream: the stream starts, at once or after a back-off.
LEMMA StartWatchStreamFields ==
  ASSUME NEW c \in Clients, Stopped(c), ~c.timer
  PROVE  LET d == StartWatchStream(c)
         IN  /\ d \in Clients
             /\ StreamOnly(c, d)
             /\ StreamPart(d)
             /\ TrackerPart(d)
             /\ ~IsOpen(d.stream)
             /\ IsStarted(d.stream)
<1> DEFINE a == NoStates(c)
           s == Start(c.stream)
           b == Becomes(a, s)
<1>1. a \in Clients /\ a.stream = c.stream /\ StreamOnly(c, a) /\ a.tokens = c.tokens
      /\ a.states = NoStatesAtAll /\ a.online = c.online /\ a.failures = c.failures
      /\ a.timer = FALSE
  BY NoStatesFields DEF Clients
<1>2. c.stream \in Streams
  BY DEF Clients
<1>3. /\ s \in Streams
      /\ s.ok
      /\ Silent(s)
      /\ ~IsOpen(s)
      /\ IsStarted(s)
      /\ s.close = c.stream.close
  <2>1. c.stream.state \in {"Initial", "Error"}
    BY <1>2 DEF Stopped, Streams, States, IsStarted
  <2> QED
    BY <1>2, <2>1 DEF Stopped, Start, HardAssert, Streams, States, IsStarted, IsOpen, Silent
<1> HIDE DEF a, s
<1> DEFINE ts == IF s.state = "Starting" THEN a.tokens \cup {s.close} ELSE a.tokens
<1>4. ts \in SUBSET Nat
  BY <1>1, <1>2, <1>3 DEF Clients, Streams
<1>5. b = [a EXCEPT !.stream = s, !.tokens = ts]
  BY Zenon DEF Becomes
<1> HIDE DEF b, ts
<1>6. b \in Clients
  BY <1>1, <1>3, <1>4, <1>5 DEF Clients
<1>7. /\ b.stream = s
      /\ b.tokens = ts
      /\ b.online = a.online
      /\ b.failures = a.failures
      /\ b.timer = FALSE
      /\ b.states = NoStatesAtAll
      /\ StreamOnly(c, b)
  BY <1>1, <1>5 DEF Clients, StreamOnly, Frame
<1>8. StartWatchStream(c) = HandleWatchStreamStart(b)
  BY DEF StartWatchStream, a, s, b
<1>9. ASSUME NEW d \in Clients, d.stream = b.stream, d.tokens = b.tokens, d.states = b.states
      PROVE  StreamPart(d)
  <2>1. \A n \in ts : n <= s.close
    BY <1>1, <1>2, <1>3 DEF Stopped, ts, Streams
  <2>2. s.close \in ts <=> s.state = "Starting"
    BY <1>1, <1>3 DEF Stopped, ts
  <2> QED
    BY <1>3, <1>7, <1>9, <2>1, <2>2 DEF StreamPart, Silent
<1>10. CASE b.failures # 0
  <2>1. HandleWatchStreamStart(b) = b
    BY <1>10 DEF HandleWatchStreamStart
  <2>2. TrackerPart(b)
    BY <1>1, <1>7, <1>10 DEF TrackerPart, Stopped
  <2> QED
    BY <1>3, <1>6, <1>7, <1>8, <1>9, <2>1, <2>2
<1>11. CASE b.failures = 0
  <2> DEFINE e == SetAndBroadcast(b, "Unknown")
             d == [e EXCEPT !.timer = TRUE]
  <2>1. /\ e \in Clients
        /\ e.stream = b.stream
        /\ e.tokens = b.tokens
        /\ e.states = b.states
        /\ e.failures = 0
        /\ e.online = "Unknown"
        /\ StreamOnly(b, e)
    BY <1>6, <1>11, SetAndBroadcastQuiet DEF StreamOnly
  <2> HIDE DEF e
  <2>2. HandleWatchStreamStart(b) = d
    <3>1. Check(e, ~b.timer) = e
      BY <1>7, <2>1, CheckFields
    <3> QED
      BY <1>11, <3>1 DEF HandleWatchStreamStart, e
  <2>3. d \in Clients
    BY <2>1 DEF Clients
  <2>4. /\ d.stream = b.stream
        /\ d.tokens = b.tokens
        /\ d.states = b.states
        /\ d.failures = 0
        /\ d.online = "Unknown"
        /\ StreamOnly(b, d)
    BY <2>1 DEF Clients, StreamOnly, Frame
  <2> HIDE DEF d
  <2>5. TrackerPart(d)
    BY <1>3, <1>7, <2>4 DEF TrackerPart
  <2>6. StreamOnly(c, d)
    BY <1>7, <2>4 DEF StreamOnly, Frame
  <2> QED
    BY <1>3, <1>7, <1>8, <1>9, <2>2, <2>3, <2>4, <2>5, <2>6
<1> QED
  BY <1>6, <1>10, <1>11 DEF Clients

\* Close leaves a stopped stream.
LEMMA ClosedFields ==
  ASSUME NEW c \in Clients, NEW graceful \in BOOLEAN,
         c.stream.ok,
         \A n \in c.tokens : n <= c.stream.close,
         IsStarted(c.stream) \/ (graceful /\ c.stream.close \notin c.tokens /\ Silent(c.stream)),
         TrackerPart(c)
  PROVE  LET d == Closed(c, graceful)
         IN  /\ d \in Clients
             /\ Stopped(d)
             /\ StreamOnly(c, d)
             /\ d.tokens = c.tokens
             /\ d.online = c.online
             /\ d.failures = c.failures
             /\ d.timer = c.timer
             /\ d.states = c.states
<1> DEFINE t == Close(c.stream, graceful)
           s == [t EXCEPT !.sent = [k \in Keys |-> <<>>], !.received = <<>>]
<1>1. c.stream \in Streams
  BY DEF Clients
<1>2. t \in Streams /\ t.ok /\ ~IsStarted(t) /\ ~t.idle
  <2>1. CASE IsStarted(c.stream)
    <3> DEFINE u == HardAssert(c.stream, IsStarted(c.stream))
               st == IF graceful THEN "Initial" ELSE "Error"
    <3>1. u \in Streams /\ u.ok /\ u.close \in Nat
      BY <1>1, <2>1 DEF HardAssert, Streams
    <3>2. st \in States /\ st \notin {"Starting", "Backoff", "Open"}
      BY DEF States
    <3>3. t = [u EXCEPT !.state = st, !.idle = FALSE, !.close = @ + 1]
      BY <2>1 DEF Close
    <3> DEFINE m == u.close + 1
    <3>4. m \in Nat
      BY <3>1
    <3>5. t = [u EXCEPT !.state = st, !.idle = FALSE, !.close = m]
      BY <3>3
    <3> HIDE DEF u, st, m
    <3> QED
      BY <3>1, <3>2, <3>4, <3>5 DEF IsStarted, Streams
  <2>2. CASE ~IsStarted(c.stream)
    BY <1>1, <2>2 DEF Close, Silent
  <2> QED
    BY <2>1, <2>2
<1>3. (\A n \in c.tokens : n <= t.close) /\ t.close \notin c.tokens
  <2>1. CASE IsStarted(c.stream)
    <3>1. t.close = c.stream.close + 1
      BY <1>1, <2>1 DEF Close, HardAssert, Streams
    <3>2. c.stream.close \in Nat /\ c.tokens \subseteq Nat
      BY <1>1 DEF Streams, Clients
    <3> QED
      BY <3>1, <3>2
  <2>2. CASE ~IsStarted(c.stream)
    BY <1>1, <2>2 DEF Close
  <2> QED
    BY <2>1, <2>2
<1> HIDE DEF t
<1>4. /\ s \in Streams
      /\ s.ok
      /\ ~IsStarted(s)
      /\ Silent(s)
      /\ s.close = t.close
  <2> DEFINE none == [k \in Keys |-> <<>>]
  <2>1. none \in [Keys -> Seq(Requests)] /\ <<>> \in Seq(Messages)
    OBVIOUS
  <2>2. s = [t EXCEPT !.sent = none, !.received = <<>>]
    OBVIOUS
  <2> HIDE DEF none
  <2>3. s \in Streams /\ s.sent = none
    BY <1>2, <2>1, <2>2 DEF Streams
  <2> QED
    BY <1>2, <2>2, <2>3 DEF Streams, IsStarted, Silent, none
<1>5. Closed(c, graceful) = [c EXCEPT !.stream = s]
  BY DEF Closed, t
<1> HIDE DEF s
<1> QED
  BY <1>3, <1>4, <1>5, StreamFields DEF Stopped, TrackerPart, StreamOnly, Frame

\* HandleWatchStreamFailure of a stopped stream: the timer does not run.
LEMMA HandleWatchStreamFailureFields ==
  ASSUME NEW c \in Clients, Stopped(c)
  PROVE  LET d == HandleWatchStreamFailure(c)
         IN  /\ d \in Clients
             /\ Stopped(d)
             /\ ~d.timer
             /\ d.stream = c.stream
             /\ d.tokens = c.tokens
             /\ d.states = c.states
             /\ d.current = c.current \/ d.current = NoCurrent
             /\ Frame(c, d)
             /\ Tells(c, d)
<1>1. CASE c.online = "Online"
  <2> DEFINE e == SetAndBroadcast(c, "Unknown")
  <2>1. e \in Clients
    BY SetAndBroadcastQuiet
  <2>2. Check(e, c.failures = 0 /\ ~c.timer) = e
    <3>1. c.failures = 0 /\ ~c.timer
      BY <1>1 DEF Stopped
    <3> QED
      BY <2>1, <3>1, CheckFields
  <2>3. HandleWatchStreamFailure(c) = e
    BY <1>1, <2>2 DEF HandleWatchStreamFailure
  <2>4. ~e.timer /\ e.online = "Unknown" /\ e.stream = c.stream /\ e.tokens = c.tokens
    BY <1>1, SetAndBroadcastQuiet DEF Stopped
  <2>5. Stopped(e)
    BY <2>4 DEF Stopped
  <2>6. Tells(c, e)
    BY SetAndBroadcastQuiet DEF Tells
  <2> QED
    BY <2>1, <2>3, <2>4, <2>5, <2>6, SetAndBroadcastQuiet
<1>2. CASE c.online # "Online"
  <2> DEFINE f == [c EXCEPT !.failures = @ + 1]
             g == [f EXCEPT !.timer = FALSE]
             d == SetAndBroadcast(g, "Offline")
  <2>1. f \in Clients /\ f.failures = c.failures + 1 /\ c.failures \in Nat
    <3>1. c.failures \in Nat /\ c.failures + 1 \in Nat
      BY DEF Clients
    <3> QED
      BY <3>1 DEF Clients
  <2>2. g \in Clients
    BY <2>1 DEF Clients
  <2>3. /\ g.stream = c.stream
        /\ g.tokens = c.tokens
        /\ g.timer = FALSE
        /\ g.states = c.states
        /\ g.current = c.current
        /\ g.listeners = c.listeners
        /\ g.out = c.out
        /\ Frame(c, g)
    BY DEF Clients, Frame
  <2>4. HandleWatchStreamFailure(c) = d
    BY <1>2, <2>1 DEF HandleWatchStreamFailure, MaxWatchStreamFailures
  <2> HIDE DEF f, g
  <2>5. /\ d \in Clients
        /\ d.stream = c.stream
        /\ d.tokens = c.tokens
        /\ d.states = c.states
        /\ d.timer = FALSE
        /\ d.online = "Offline"
        /\ d.current = c.current \/ d.current = NoCurrent
        /\ Tells(g, d)
        /\ Frame(g, d)
    BY <2>2, <2>3, SetAndBroadcastOffline
  <2> HIDE DEF d
  <2>6. Tells(c, d)
    BY <2>3, <2>5 DEF Tells
  <2>7. Frame(c, d)
    BY <2>3, <2>5 DEF Frame
  <2>8. Stopped(d)
    BY <2>5 DEF Stopped
  <2> QED
    BY <2>4, <2>5, <2>6, <2>7, <2>8
<1> QED
  BY <1>1, <1>2

\* What any end of the stream comes to, started again or not.
Ends(c, d) ==
  /\ d \in Clients
  /\ StreamPart(d)
  /\ TrackerPart(d)
  /\ ~IsOpen(d.stream)
  /\ d.current = c.current \/ d.current = NoCurrent
  /\ Frame(c, d)
  /\ Tells(c, d)

\* A stream that broke leaves a tracker that is told, and an empty aggregator.
LEMMA OnWatchStreamCloseFields ==
  ASSUME NEW c \in Clients, Stopped(c)
  PROVE  Ends(c, OnWatchStreamClose(c))
<1> DEFINE a == NoStates(c)
<1>1. /\ a \in Clients
      /\ a.stream = c.stream
      /\ a.tokens = c.tokens
      /\ a.states = NoStatesAtAll
      /\ a.online = c.online
      /\ a.failures = c.failures
      /\ a.timer = c.timer
      /\ StreamOnly(c, a)
  BY NoStatesFields
<1> HIDE DEF a
<1>2. Stopped(a)
  BY <1>1 DEF Stopped
<1>3. CASE ShouldStartWatchStream(c)
  <2> DEFINE b == HandleWatchStreamFailure(a)
             d == StartWatchStream(b)
  <2>1. /\ b \in Clients
        /\ Stopped(b)
        /\ ~b.timer
        /\ b.current = a.current \/ b.current = NoCurrent
        /\ Frame(a, b)
        /\ Tells(a, b)
    BY <1>1, <1>2, HandleWatchStreamFailureFields
  <2>2. OnWatchStreamClose(c) = d
    BY <1>3 DEF OnWatchStreamClose, a
  <2> HIDE DEF b
  <2>3. /\ d \in Clients
        /\ StreamOnly(b, d)
        /\ StreamPart(d)
        /\ TrackerPart(d)
        /\ ~IsOpen(d.stream)
    BY <2>1, StartWatchStreamFields
  <2> HIDE DEF d
  <2>4. d.current = c.current \/ d.current = NoCurrent
    BY <1>1, <2>1, <2>3 DEF StreamOnly
  <2>5. Frame(c, d)
    BY <1>1, <2>1, <2>3 DEF StreamOnly, Frame
  <2>6. Tells(c, b)
    BY <1>1, <2>1 DEF StreamOnly, Frame, Tells
  <2>7. Tells(c, d)
    BY <2>3, <2>6 DEF StreamOnly, Tells
  <2> QED
    BY <2>2, <2>3, <2>4, <2>5, <2>7 DEF Ends
<1>4. CASE ~ShouldStartWatchStream(c)
  <2> DEFINE d == UpdateState(a, "Unknown")
  <2>1. OnWatchStreamClose(c) = d
    BY <1>4 DEF OnWatchStreamClose, a
  <2>2. /\ d \in Clients
        /\ d.online = "Unknown"
        /\ d.stream = c.stream
        /\ d.tokens = c.tokens
        /\ d.failures = 0
        /\ d.timer = FALSE
        /\ d.states = NoStatesAtAll
        /\ d.current = a.current
        /\ d.out = a.out
        /\ Frame(a, d)
    BY <1>1, UpdateStateFields
  <2> HIDE DEF d
  <2>3. StreamOnly(c, d)
    BY <1>1, <2>2 DEF StreamOnly, Frame
  <2>4. StreamPart(d) /\ TrackerPart(d) /\ ~IsOpen(d.stream)
    BY <1>1, <1>2, <2>2 DEF Stopped, StreamPart, TrackerPart, IsStarted, IsOpen, Silent
  <2> QED
    BY <2>1, <2>2, <2>3, <2>4 DEF StreamOnly, Tells, Ends
<1> QED
  BY <1>3, <1>4

\* Ends of the stream that follow a client which only lost a token or its messages.
LEMMA EndsFrom ==
  ASSUME NEW c, NEW b, NEW d, StreamOnly(c, b), Ends(b, d)
  PROVE  Ends(c, d)
<1>1. Frame(c, d)
  BY DEF StreamOnly, Frame, Ends
<1>2. d.current = c.current \/ d.current = NoCurrent
  BY DEF StreamOnly, Ends
<1>3. Tells(c, d)
  BY DEF StreamOnly, Frame, Ends, Tells
<1> QED
  BY <1>1, <1>2, <1>3 DEF Ends

\* Restarting the network ends the stream and opens another when it is wanted.
LEMMA RestartedFields ==
  ASSUME NEW c \in Clients, StreamPart(c), TrackerPart(c)
  PROVE  Ends(c, Restarted(c))
<1> DEFINE a == Closed(c, TRUE)
           b == NoStates(a)
           e == UpdateState(b, "Unknown")
           s == InhibitBackoff(e.stream)
           f == [e EXCEPT !.stream = s]
<1>1. a \in Clients /\ Stopped(a) /\ StreamOnly(c, a)
  <2>1. IsStarted(c.stream) \/ (c.stream.close \notin c.tokens /\ Silent(c.stream))
    BY DEF StreamPart, IsStarted, IsOpen
  <2> QED
    BY <2>1, ClosedFields DEF StreamPart
<1> HIDE DEF a
<1>2. /\ b \in Clients
      /\ b.stream = a.stream
      /\ b.tokens = a.tokens
      /\ b.states = NoStatesAtAll
      /\ StreamOnly(a, b)
  BY <1>1, NoStatesFields
<1> HIDE DEF b
<1>3. /\ e \in Clients
      /\ e.online = "Unknown"
      /\ e.stream = a.stream
      /\ e.tokens = a.tokens
      /\ e.failures = 0
      /\ e.timer = FALSE
      /\ e.states = NoStatesAtAll
      /\ StreamOnly(b, e)
  BY <1>2, UpdateStateFields DEF StreamOnly
<1> HIDE DEF e
<1>4. /\ s \in Streams
      /\ s.ok
      /\ s.state = "Initial"
      /\ s.close = a.stream.close
      /\ Silent(s)
  <2>1. e.stream \in Streams
    BY <1>3 DEF Clients
  <2> QED
    BY <1>1, <1>3, <2>1 DEF Stopped, InhibitBackoff, HardAssert, Streams, States, Silent
<1> HIDE DEF s
<1>5. /\ f \in Clients
      /\ f.stream = s
      /\ f.tokens = a.tokens
      /\ f.online = "Unknown"
      /\ f.failures = 0
      /\ f.timer = FALSE
      /\ f.states = NoStatesAtAll
      /\ StreamOnly(e, f)
  BY <1>3, <1>4, StreamFields DEF StreamOnly, Frame
<1> HIDE DEF f
<1>6. StreamOnly(c, f)
  BY <1>1, <1>2, <1>3, <1>5 DEF StreamOnly, Frame
<1>7. Stopped(f)
  BY <1>1, <1>4, <1>5 DEF Stopped, IsStarted
<1>8. Restarted(c) = IF ShouldStartWatchStream(f) THEN StartWatchStream(f) ELSE f
  BY DEF Restarted, f, s, e, b, a
<1>9. Ends(f, StartWatchStream(f))
  BY <1>5, <1>7, StartWatchStreamFields DEF Ends, StreamOnly, Tells
<1>10. Ends(f, f)
  <2>1. StreamPart(f) /\ TrackerPart(f) /\ ~IsOpen(f.stream)
    BY <1>4, <1>5, <1>7 DEF Stopped, StreamPart, TrackerPart, IsOpen, IsStarted, Silent
  <2> QED
    BY <1>5, <2>1 DEF Ends, Frame, Tells
<1> QED
  BY <1>6, <1>8, <1>9, <1>10, EndsFrom

-----------------------------------------------------------------------------
(* Requests.                                                               *)

\* One more answer is awaited about each document of ks.
Awaits(states, ks) ==
  [k \in Keys |-> IF k \in ks THEN [states[k] EXCEPT !.pending = @ + 1] ELSE states[k]]

\* One more request is sent about each document of ks.
Asks(sent, op, ks, resume) ==
  [k \in Keys |-> IF k \in ks THEN Append(sent[k], [op |-> op, resume |-> resume[k]]) ELSE sent[k]]

\* A request is put behind those for the same document.
LEMMA SendFields ==
  ASSUME NEW c \in Clients, NEW op \in {"watch", "unwatch"}, NEW ks \in SUBSET Keys
  PROVE  LET d == Send(c, op, ks)
         IN  /\ d \in Clients
             /\ d.states = Awaits(c.states, ks)
             /\ d.stream.state = c.stream.state
             /\ d.stream.close = c.stream.close
             /\ d.stream.ok = c.stream.ok
             /\ d.stream.idle = FALSE
             /\ d.stream.received = c.stream.received
             /\ d.stream.sent = Asks(c.stream.sent, op, ks, c.resume)
             /\ d.tokens = c.tokens
             /\ d.online = c.online
             /\ d.failures = c.failures
             /\ d.timer = c.timer
             /\ StreamOnly(c, d)
<1> DEFINE ts == Awaits(c.states, ks)
           q == Asks(c.stream.sent, op, ks, c.resume)
           s == [CancelIdleCheck(c.stream) EXCEPT !.sent = q]
<1>1. c.stream \in Streams /\ c.states \in [Keys -> TargetStates] /\ c.resume \in [Keys -> Nat]
  BY DEF Clients
<1>2. ts \in [Keys -> TargetStates]
  <2> SUFFICES ASSUME NEW k \in Keys
               PROVE  (IF k \in ks THEN [c.states[k] EXCEPT !.pending = @ + 1] ELSE c.states[k])
                        \in TargetStates
    BY DEF Awaits
  <2>1. c.states[k] \in TargetStates
    BY <1>1
  <2> DEFINE n == c.states[k].pending + 1
  <2>2. n \in Int
    BY <2>1 DEF TargetStates
  <2> HIDE DEF n
  <2>3. [c.states[k] EXCEPT !.pending = n] \in TargetStates
    BY <2>1, <2>2 DEF TargetStates
  <2> QED
    BY <2>1, <2>3 DEF n
<1>3. q \in [Keys -> Seq(Requests)]
  <2> SUFFICES ASSUME NEW k \in Keys
               PROVE  Append(c.stream.sent[k], [op |-> op, resume |-> c.resume[k]]) \in Seq(Requests)
                      /\ c.stream.sent[k] \in Seq(Requests)
    BY DEF Asks
  <2>1. [op |-> op, resume |-> c.resume[k]] \in Requests
    BY <1>1 DEF Requests
  <2>2. c.stream.sent[k] \in Seq(Requests)
    BY <1>1 DEF Streams
  <2> QED
    BY <2>1, <2>2
<1>4. Send(c, op, ks) = [c EXCEPT !.states = ts, !.stream = s]
  BY DEF Send, Awaits, Asks
<1>5. /\ s \in Streams
      /\ s.state = c.stream.state
      /\ s.close = c.stream.close
      /\ s.ok = c.stream.ok
      /\ s.idle = FALSE
      /\ s.received = c.stream.received
      /\ s.sent = q
  <2> HIDE DEF q
  <2>1. CancelIdleCheck(c.stream) \in Streams
    BY <1>1 DEF CancelIdleCheck, Streams
  <2>2. s \in Streams
    BY <1>3, <2>1 DEF Streams
  <2> QED
    BY <1>1, <1>3, <2>1, <2>2 DEF Streams, CancelIdleCheck
<1> HIDE DEF ts, s, q
<1>6. [c EXCEPT !.states = ts, !.stream = s] \in Clients
  BY <1>2, <1>5 DEF Clients
<1>7. LET d == [c EXCEPT !.states = ts, !.stream = s]
      IN  /\ d.states = ts
          /\ d.stream = s
          /\ d.tokens = c.tokens
          /\ d.online = c.online
          /\ d.failures = c.failures
          /\ d.timer = c.timer
          /\ StreamOnly(c, d)
  BY DEF Clients, StreamOnly, Frame
<1> QED
  BY <1>4, <1>5, <1>6, <1>7 DEF ts, q

\* What the client's layers agree on (LayersAgree).
Agree(c) ==
  /\ c.targets = {k \in Keys : c.listeners[k] # {}}
  /\ \A k \in Keys : c.current[k] => k \in c.targets

\* Read r joins the listeners of k.
Joins(c, d, r, k) ==
  /\ d.targets = c.targets \cup {k}
  /\ d.listeners = [c.listeners EXCEPT ![k] = @ \cup {r}]
  /\ d.cache = c.cache
  /\ d.synced = c.synced
  /\ d.resume = c.resume
  /\ d.current = c.current
  /\ \A x \in Reads :
       \/ d.out[x] = c.out[x]
       \/ \E e \in Raised : x = r /\ e.kind = "value" /\ d.out[x] = Append(c.out[x], e)

\* The messages and the states of the targets stay as they are.
SameMessages(c, d) ==
  /\ d.states = c.states
  /\ d.stream.sent = c.stream.sent
  /\ d.stream.received = c.stream.received

\* They follow a request about k on the open stream.
Requested(c, d, op, k) ==
  /\ d.states = Awaits(c.states, {k})
  /\ d.stream.sent = Asks(c.stream.sent, op, {k}, c.resume)
  /\ d.stream.received = c.stream.received
  /\ IsOpen(c.stream)
  /\ IsOpen(d.stream)

\* Listening adds the target, and asks for it when the stream is open.
LEMMA ListenFields ==
  ASSUME NEW c \in Clients, NEW r \in Reads, NEW k \in Keys,
         StreamPart(c), TrackerPart(c), Agree(c)
  PROVE  LET d == Listen(c, r, k)
         IN  /\ d \in Clients
             /\ StreamPart(d)
             /\ TrackerPart(d)
             /\ Joins(c, d, r, k)
             /\ \/ SameMessages(c, d) /\ k \in c.targets
                \/ ~IsOpen(c.stream) /\ ~IsOpen(d.stream)
                \/ Requested(c, d, "watch", k) /\ k \notin c.targets
             /\ IsOpen(d.stream) <=> IsOpen(c.stream)
<1> DEFINE a == [c EXCEPT !.listeners[k] = @ \cup {r}]
           t == IF ShouldRaiseInitialEvent(a, k) THEN Emit(a, Only(k, {r})) ELSE a
           w == [t EXCEPT !.targets = @ \cup {k}]
           ls == [c.listeners EXCEPT ![k] = @ \cup {r}]
<1>1. ls \in [Keys -> SUBSET Reads] /\ a = [c EXCEPT !.listeners = ls]
  <2>1. c.listeners \in [Keys -> SUBSET Reads]
    BY DEF Clients
  <2> QED
    BY <2>1 DEF Clients
<1> HIDE DEF ls
<1>2. a \in Clients
  BY <1>1 DEF Clients
<1>3. /\ a.listeners = ls
      /\ a.stream = c.stream
      /\ a.tokens = c.tokens
      /\ a.online = c.online
      /\ a.failures = c.failures
      /\ a.timer = c.timer
      /\ a.states = c.states
      /\ a.targets = c.targets
      /\ a.cache = c.cache
      /\ a.synced = c.synced
      /\ a.resume = c.resume
      /\ a.current = c.current
      /\ a.out = c.out
  BY <1>1 DEF Clients
<1> HIDE DEF a
<1>4. Only(k, {r}) \in [Keys -> SUBSET Reads]
  BY DEF Only
<1>5. /\ t \in Clients
      /\ t.listeners = ls
      /\ t.stream = c.stream
      /\ t.tokens = c.tokens
      /\ t.online = c.online
      /\ t.failures = c.failures
      /\ t.timer = c.timer
      /\ t.states = c.states
      /\ t.targets = c.targets
      /\ t.cache = c.cache
      /\ t.synced = c.synced
      /\ t.resume = c.resume
      /\ t.current = c.current
  BY <1>2, <1>3, <1>4, EmitFields
<1>6. \A x \in Reads :
        \/ t.out[x] = c.out[x]
        \/ \E e \in Raised : x = r /\ e.kind = "value" /\ t.out[x] = Append(c.out[x], e)
  <2> SUFFICES ASSUME NEW x \in Reads
               PROVE  \/ t.out[x] = c.out[x]
                      \/ \E e \in Raised : x = r /\ e.kind = "value" /\ t.out[x] = Append(c.out[x], e)
    OBVIOUS
  <2>1. CASE t = a
    BY <1>3, <2>1
  <2>2. CASE t = Emit(a, Only(k, {r}))
    <3>1. \/ t.out[x] = a.out[x]
          \/ \E j \in Keys, e \in Raised : /\ x \in Only(k, {r})[j]
                                           /\ e.kind = "value"
                                           /\ t.out[x] = Append(a.out[x], e)
      BY <1>2, <1>4, <2>2, EmitFields
    <3>2. \A j \in Keys : x \in Only(k, {r})[j] => x = r
      BY DEF Only
    <3> QED
      BY <1>3, <3>1, <3>2
  <2> QED
    BY <2>1, <2>2
<1> HIDE DEF t
<1>7. w \in Clients
  BY <1>5 DEF Clients
<1>8. /\ w.targets = c.targets \cup {k}
      /\ w.listeners = ls
      /\ w.stream = c.stream
      /\ w.tokens = c.tokens
      /\ w.online = c.online
      /\ w.failures = c.failures
      /\ w.timer = c.timer
      /\ w.states = c.states
      /\ w.cache = c.cache
      /\ w.synced = c.synced
      /\ w.resume = c.resume
      /\ w.current = c.current
      /\ w.out = t.out
  BY <1>5 DEF Clients
<1> HIDE DEF w
<1>9. Joins(c, w, r, k)
  BY <1>6, <1>8 DEF Joins, ls
<1>10. \A d \in Clients : StreamOnly(w, d) => Joins(c, d, r, k)
  BY <1>9 DEF StreamOnly, Frame, Joins
<1>11. CASE k \in c.targets
  <2>1. Listen(c, r, k) = t
    <3>1. c.listeners[k] # {}
      BY <1>11 DEF Agree
    <3> QED
      BY <3>1 DEF Listen, t, a
  <2>2. Joins(c, t, r, k)
    BY <1>5, <1>6, <1>11 DEF Joins, ls
  <2>3. StreamPart(t) /\ TrackerPart(t) /\ SameMessages(c, t)
    BY <1>5 DEF StreamPart, TrackerPart, SameMessages
  <2> QED
    BY <1>5, <1>11, <2>1, <2>2, <2>3
<1>12. CASE k \notin c.targets /\ ShouldStartWatchStream(w)
  <2> DEFINE d == StartWatchStream(w)
  <2>1. ~IsStarted(c.stream)
    BY <1>8, <1>12 DEF ShouldStartWatchStream
  <2>2. Stopped(w) /\ ~w.timer
    BY <1>8, <2>1 DEF Stopped, StreamPart, TrackerPart, IsStarted, IsOpen
  <2>3. d \in Clients /\ StreamOnly(w, d) /\ StreamPart(d) /\ TrackerPart(d) /\ ~IsOpen(d.stream)
    BY <1>7, <2>2, StartWatchStreamFields
  <2>4. ~IsOpen(c.stream)
    BY <2>1 DEF IsStarted, IsOpen
  <2>5. Listen(c, r, k) = d
    <3>1. c.listeners[k] = {}
      BY <1>12 DEF Agree
    <3> QED
      BY <1>12, <2>4, <3>1 DEF Listen, w, t, a
  <2> HIDE DEF d
  <2> QED
    BY <1>10, <2>5, <2>3, <2>4
<1>13. CASE k \notin c.targets /\ ~ShouldStartWatchStream(w) /\ IsOpen(c.stream)
  <2> DEFINE d == Send(w, "watch", {k})
  <2>1. Listen(c, r, k) = d
    <3>1. c.listeners[k] = {}
      BY <1>13 DEF Agree
    <3> QED
      BY <1>13, <3>1 DEF Listen, w, t, a
  <2>2. /\ d \in Clients
        /\ d.states = Awaits(w.states, {k})
        /\ d.stream.state = w.stream.state
        /\ d.stream.close = w.stream.close
        /\ d.stream.ok = w.stream.ok
        /\ d.stream.idle = FALSE
        /\ d.stream.received = w.stream.received
        /\ d.stream.sent = Asks(w.stream.sent, "watch", {k}, w.resume)
        /\ d.tokens = w.tokens
        /\ d.online = w.online
        /\ d.failures = w.failures
        /\ d.timer = w.timer
        /\ StreamOnly(w, d)
    BY <1>7, SendFields
  <2> HIDE DEF d
  <2>3. IsOpen(d.stream)
    BY <1>8, <1>13, <2>2 DEF IsOpen
  <2>4. StreamPart(d)
    BY <1>8, <2>2, <2>3 DEF StreamPart
  <2>5. TrackerPart(d)
    BY <1>8, <2>2 DEF TrackerPart, IsStarted
  <2>6. Requested(c, d, "watch", k)
    BY <1>8, <1>13, <2>2, <2>3 DEF Requested
  <2> QED
    BY <1>10, <1>13, <2>1, <2>2, <2>3, <2>4, <2>5, <2>6
<1>14. CASE k \notin c.targets /\ ~ShouldStartWatchStream(w) /\ ~IsOpen(c.stream)
  <2>1. Listen(c, r, k) = w
    <3>1. c.listeners[k] = {}
      BY <1>14 DEF Agree
    <3> QED
      BY <1>14, <3>1 DEF Listen, w, t, a
  <2>2. StreamPart(w) /\ TrackerPart(w)
    <3>1. ~c.stream.idle
      BY <1>14 DEF StreamPart, Silent
    <3> QED
      BY <1>8, <3>1 DEF StreamPart, TrackerPart
  <2> QED
    BY <1>7, <1>8, <1>9, <1>14, <2>1, <2>2
<1> QED
  BY <1>11, <1>12, <1>13, <1>14

\* Nobody listens to k any more.
Leaves(c, d, k) ==
  /\ d.targets = c.targets \ {k}
  /\ d.listeners = c.listeners
  /\ d.cache = c.cache
  /\ d.synced = c.synced
  /\ d.resume = c.resume
  /\ d.current = [c.current EXCEPT ![k] = FALSE]
  /\ d.out = c.out

\* Unlistening removes the target, and tells the backend when the stream is open.
LEMMA StopListeningFields ==
  ASSUME NEW c \in Clients, NEW k \in c.targets, StreamPart(c), TrackerPart(c)
  PROVE  LET d == StopListening(c, k)
         IN  /\ d \in Clients
             /\ StreamPart(d)
             /\ TrackerPart(d)
             /\ Leaves(c, d, k)
             /\ \/ ~IsOpen(c.stream) /\ ~IsOpen(d.stream)
                \/ Requested(c, d, "unwatch", k)
<1> DEFINE cur == [c.current EXCEPT ![k] = FALSE]
           s == [Check(c, k \in c.targets) EXCEPT !.targets = @ \ {k}, !.current[k] = FALSE]
           u == IF IsOpen(c.stream) THEN Send(s, "unwatch", {k}) ELSE s
<1>1. k \in Keys /\ cur \in [Keys -> BOOLEAN]
  <2>1. c.current \in [Keys -> BOOLEAN] /\ c.targets \in SUBSET Keys
    BY DEF Clients
  <2> QED
    BY <2>1
<1>2. s = [c EXCEPT !.targets = c.targets \ {k}, !.current = cur]
  <2>1. Check(c, k \in c.targets) = c
    BY CheckFields
  <2>2. [c EXCEPT !.targets = c.targets \ {k}].current = c.current
    BY DEF Clients
  <2> QED
    BY <2>1, <2>2
<1>3. /\ s.targets # {} => StopListening(c, k) = u
      /\ s.targets = {} /\ IsOpen(c.stream) =>
           StopListening(c, k) = [u EXCEPT !.stream = MarkIdle(u.stream)]
      /\ s.targets = {} /\ ~IsOpen(c.stream) => StopListening(c, k) = UpdateState(u, "Unknown")
  BY DEF StopListening
<1> HIDE DEF cur, s
<1>4. s \in Clients
  BY <1>1, <1>2 DEF Clients
<1>5. /\ s.targets = c.targets \ {k}
      /\ s.current = cur
      /\ s.stream = c.stream
      /\ s.tokens = c.tokens
      /\ s.online = c.online
      /\ s.failures = c.failures
      /\ s.timer = c.timer
      /\ s.states = c.states
      /\ s.listeners = c.listeners
      /\ s.cache = c.cache
      /\ s.synced = c.synced
      /\ s.resume = c.resume
      /\ s.out = c.out
  BY <1>2 DEF Clients
<1>6. \A d \in Clients : StreamOnly(s, d) => Leaves(c, d, k)
  BY <1>5 DEF StreamOnly, Frame, Leaves, cur
<1>7. CASE IsOpen(c.stream)
  <2>1. /\ u \in Clients
        /\ u.states = Awaits(s.states, {k})
        /\ u.stream.state = s.stream.state
        /\ u.stream.close = s.stream.close
        /\ u.stream.ok = s.stream.ok
        /\ u.stream.idle = FALSE
        /\ u.stream.received = s.stream.received
        /\ u.stream.sent = Asks(s.stream.sent, "unwatch", {k}, s.resume)
        /\ u.tokens = s.tokens
        /\ u.online = s.online
        /\ u.failures = s.failures
        /\ u.timer = s.timer
        /\ StreamOnly(s, u)
    BY <1>1, <1>4, <1>7, SendFields
  <2> HIDE DEF u
  <2>2. IsOpen(u.stream)
    BY <1>5, <1>7, <2>1 DEF IsOpen
  <2>3. CASE s.targets # {}
    <3>1. StopListening(c, k) = u
      BY <1>3, <2>3 DEF u
    <3>2. StreamPart(u) /\ TrackerPart(u)
      BY <1>5, <2>1, <2>2 DEF StreamPart, TrackerPart, IsStarted
    <3>3. Requested(c, u, "unwatch", k)
      BY <1>5, <1>7, <2>1, <2>2 DEF Requested
    <3> QED
      BY <1>6, <2>1, <3>1, <3>2, <3>3
  <2>4. CASE s.targets = {}
    <3> DEFINE m == [u.stream EXCEPT !.idle = TRUE]
               d == [u EXCEPT !.stream = m]
    <3>1. StopListening(c, k) = d
      <4>1. StopListening(c, k) = [u EXCEPT !.stream = MarkIdle(u.stream)]
        BY <1>7, <1>3, <2>4 DEF u
      <4>2. MarkIdle(u.stream) = m
        BY <2>2 DEF MarkIdle
      <4> QED
        BY <4>1, <4>2
    <3>2. /\ m \in Streams
          /\ m.state = u.stream.state
          /\ m.close = u.stream.close
          /\ m.ok = u.stream.ok
          /\ m.received = u.stream.received
          /\ m.sent = u.stream.sent
      <4>1. u.stream \in Streams
        BY <2>1 DEF Clients
      <4> QED
        BY <4>1 DEF Streams
    <3> HIDE DEF m
    <3>3. /\ d \in Clients
          /\ d.stream = m
          /\ d.states = u.states
          /\ d.tokens = u.tokens
          /\ d.online = u.online
          /\ d.failures = u.failures
          /\ d.timer = u.timer
          /\ d.targets = u.targets
          /\ StreamOnly(u, d)
      BY <2>1, <3>2, StreamFields DEF StreamOnly, Frame
    <3> HIDE DEF d
    <3>4. IsOpen(d.stream)
      BY <2>2, <3>2, <3>3 DEF IsOpen
    <3>5. d.targets = {}
      BY <2>1, <2>4, <3>3 DEF StreamOnly, Frame
    <3>6. StreamPart(d)
      <4>1. d.stream.ok = c.stream.ok /\ d.stream.close = c.stream.close
            /\ d.stream.state = c.stream.state /\ d.tokens = c.tokens
        BY <1>5, <2>1, <3>2, <3>3
      <4> QED
        BY <3>4, <3>5, <4>1 DEF StreamPart
    <3>7. TrackerPart(d)
      BY <1>5, <2>1, <3>2, <3>3 DEF TrackerPart, IsStarted
    <3>8. Requested(c, d, "unwatch", k)
      BY <1>5, <1>7, <2>1, <3>2, <3>3, <3>4 DEF Requested
    <3>9. StreamOnly(s, d)
      BY <2>1, <3>3 DEF StreamOnly, Frame
    <3> QED
      BY <1>6, <3>1, <3>3, <3>6, <3>8, <3>9, <3>7
  <2> QED
    BY <2>3, <2>4
<1>8. CASE ~IsOpen(c.stream)
  <2>1. u = s
    BY <1>8
  <2> HIDE DEF u
  <2>2. ~c.stream.idle
    BY <1>8 DEF StreamPart, Silent
  <2>3. CASE s.targets # {}
    <3>1. StopListening(c, k) = s
      BY <1>3, <2>1, <2>3 DEF u
    <3>2. StreamPart(s) /\ TrackerPart(s)
      BY <1>5, <2>2 DEF StreamPart, TrackerPart
    <3>3. StreamOnly(s, s)
      BY DEF StreamOnly, Frame
    <3> QED
      BY <1>4, <1>5, <1>6, <1>8, <3>1, <3>2, <3>3
  <2>4. CASE s.targets = {}
    <3> DEFINE d == UpdateState(s, "Unknown")
    <3>1. StopListening(c, k) = d
      BY <1>8, <1>3, <2>1, <2>4 DEF u
    <3>2. /\ d \in Clients
          /\ d.stream = s.stream
          /\ d.tokens = s.tokens
          /\ d.online = "Unknown"
          /\ d.failures = 0
          /\ d.timer = FALSE
          /\ d.states = s.states
          /\ StreamOnly(s, d)
      BY <1>4, UpdateStateFields DEF StreamOnly
    <3> HIDE DEF d
    <3>3. StreamPart(d) /\ TrackerPart(d)
      BY <1>5, <2>2, <3>2 DEF StreamPart, TrackerPart
    <3> QED
      BY <1>5, <1>6, <1>8, <3>1, <3>2, <3>3
  <2> QED
    BY <2>3, <2>4
<1> QED
  BY <1>7, <1>8

\* Read r leaves the listeners of k, if it was there.
LEMMA RemoveQueryListenerFields ==
  ASSUME NEW c \in Clients, NEW r \in Reads, NEW k \in Keys,
         StreamPart(c), TrackerPart(c), Agree(c)
  PROVE  LET d == RemoveQueryListener(c, r, k)
         IN  /\ d \in Clients
             /\ StreamPart(d)
             /\ TrackerPart(d)
             /\ d.listeners = [c.listeners EXCEPT ![k] = @ \ {r}]
             /\ d.out = c.out
             /\ d.cache = c.cache
             /\ d.synced = c.synced
             /\ d.resume = c.resume
             /\ \/ /\ d.listeners[k] # {} \/ c.listeners[k] = {}
                   /\ SameMessages(c, d)
                   /\ d.targets = c.targets
                   /\ d.current = c.current
                   /\ d.stream = c.stream
                \/ /\ d.listeners[k] = {}
                   /\ d.targets = c.targets \ {k}
                   /\ d.current = [c.current EXCEPT ![k] = FALSE]
                   /\ \/ ~IsOpen(c.stream) /\ ~IsOpen(d.stream)
                      \/ Requested(c, d, "unwatch", k)
<1> DEFINE ls == [c.listeners EXCEPT ![k] = @ \ {r}]
           b == [c EXCEPT !.listeners = ls]
<1>1. c.listeners \in [Keys -> SUBSET Reads]
  BY DEF Clients
<1>2. ls \in [Keys -> SUBSET Reads] /\ [c EXCEPT !.listeners[k] = @ \ {r}] = b
  BY <1>1
<1> HIDE DEF ls
<1>3. b \in Clients
  BY <1>2 DEF Clients
<1>4. /\ b.listeners = ls
      /\ b.targets = c.targets
      /\ b.current = c.current
      /\ b.stream = c.stream
      /\ b.tokens = c.tokens
      /\ b.online = c.online
      /\ b.failures = c.failures
      /\ b.timer = c.timer
      /\ b.states = c.states
      /\ b.cache = c.cache
      /\ b.synced = c.synced
      /\ b.resume = c.resume
      /\ b.out = c.out
  BY DEF Clients
<1>5. StreamPart(b) /\ TrackerPart(b)
  BY <1>4 DEF StreamPart, TrackerPart
<1> HIDE DEF b
<1>6. RemoveQueryListener(c, r, k) =
        IF c.listeners[k] # {} /\ b.listeners[k] = {} THEN StopListening(b, k) ELSE b
  BY <1>2 DEF RemoveQueryListener
<1>7. CASE c.listeners[k] # {} /\ b.listeners[k] = {}
  <2> DEFINE d == StopListening(b, k)
  <2>1. k \in b.targets
    BY <1>4, <1>7 DEF Agree
  <2>2. /\ d \in Clients
        /\ StreamPart(d)
        /\ TrackerPart(d)
        /\ Leaves(b, d, k)
        /\ \/ ~IsOpen(b.stream) /\ ~IsOpen(d.stream)
           \/ Requested(b, d, "unwatch", k)
    BY <1>3, <1>5, <2>1, StopListeningFields
  <2>3. RemoveQueryListener(c, r, k) = d
    BY <1>6, <1>7
  <2> HIDE DEF d
  <2>4. Requested(b, d, "unwatch", k) => Requested(c, d, "unwatch", k)
    BY <1>4 DEF Requested
  <2> QED
    BY <1>4, <1>7, <2>2, <2>3, <2>4 DEF Leaves, ls
<1>8. CASE ~(c.listeners[k] # {} /\ b.listeners[k] = {})
  BY <1>3, <1>4, <1>5, <1>6, <1>8 DEF SameMessages, ls
<1> QED
  BY <1>7, <1>8

-----------------------------------------------------------------------------
(* Messages of the backend.                                                *)

\* Only the states of targets have changed.
OnlyStates(c, d) ==
  /\ d \in Clients
  /\ d.stream = c.stream
  /\ d.tokens = c.tokens
  /\ d.online = c.online
  /\ d.failures = c.failures
  /\ d.timer = c.timer
  /\ StreamOnly(c, d)

\* Only that of k, which is now t.
BecomesState(c, d, k, t) ==
  /\ OnlyStates(c, d)
  /\ d.states = [c.states EXCEPT ![k] = t]

\* Setting one target's state sets that one only.
LEMMA StateFields ==
  ASSUME NEW c \in Clients, NEW k \in Keys, NEW t \in TargetStates
  PROVE  BecomesState(c, [c EXCEPT !.states[k] = t], k, t)
<1> DEFINE ts == [c.states EXCEPT ![k] = t]
<1>1. ts \in [Keys -> TargetStates]
  BY DEF Clients
<1>2. [c EXCEPT !.states[k] = t] = [c EXCEPT !.states = ts]
  OBVIOUS
<1> HIDE DEF ts
<1>3. [c EXCEPT !.states = ts] \in Clients
  BY <1>1 DEF Clients
<1> QED
  BY <1>2, <1>3 DEF Clients, BecomesState, OnlyStates, StreamOnly, Frame, ts

\* An acknowledged watch is counted off; at none pending what was seen before it is dropped.
LEMMA AddedFields ==
  ASSUME NEW c \in Clients, NEW k \in Keys
  PROVE  LET n == c.states[k].pending - 1
         IN  BecomesState(c, Added(c, k), k,
               [c.states[k] EXCEPT !.pending = n,
                                   !.added = IF n = 0 THEN FALSE ELSE c.states[k].added])
<1> DEFINE n == c.states[k].pending - 1
           s == c.states[k]
           a == IF n = 0 THEN FALSE ELSE c.states[k].added
           t == [s EXCEPT !.pending = n, !.added = a]
<1>1. c.states \in [Keys -> TargetStates]
  BY DEF Clients
<1>2. s \in TargetStates /\ n \in Int
  BY <1>1 DEF TargetStates
<1>3. a \in BOOLEAN
  BY <1>2 DEF TargetStates
<1>4. t \in TargetStates
  <2> HIDE DEF s, n, a
  <2> QED
    BY <1>2, <1>3 DEF TargetStates
<1>5. Added(c, k) = [c EXCEPT !.states[k] = t]
  <2> DEFINE b == [c EXCEPT !.states[k].pending = n]
             u == [s EXCEPT !.pending = n]
  <2>1. b = [c EXCEPT !.states = [c.states EXCEPT ![k] = u]]
    OBVIOUS
  <2>2. b.states = [c.states EXCEPT ![k] = u]
    <3> HIDE DEF u
    <3> QED
      BY <2>1 DEF Clients
  <2>3. b.states[k] = u
    BY <1>1, <2>2
  <2>4. u.added = s.added
    BY <1>2 DEF TargetStates
  <2>5. Added(c, k) = [b EXCEPT !.states = [b.states EXCEPT ![k] =
                         [b.states[k] EXCEPT !.added = IF n = 0 THEN FALSE ELSE b.states[k].added]]]
    BY DEF Added
  <2>6. Added(c, k) = [b EXCEPT !.states = [b.states EXCEPT ![k] = t]]
    BY <2>3, <2>4, <2>5
  <2>7. [b.states EXCEPT ![k] = t] = [c.states EXCEPT ![k] = t]
    <3> HIDE DEF u, t, b
    <3> QED
      BY <1>1, <2>2
  <2>8. Added(c, k) = [b EXCEPT !.states = [c.states EXCEPT ![k] = t]]
    BY <2>6, <2>7
  <2> DEFINE v == [c.states EXCEPT ![k] = t]
             w == [c.states EXCEPT ![k] = u]
  <2> HIDE DEF u, t, v, w, b
  <2>9. [[c EXCEPT !.states = w] EXCEPT !.states = v] = [c EXCEPT !.states = v]
    BY DEF Clients
  <2> QED
    BY <2>1, <2>8, <2>9 DEF v, w
<1> QED
  BY <1>4, <1>5, StateFields

\* An acknowledged unwatch is counted off; at none pending the target's state goes.
LEMMA RemovedFields ==
  ASSUME NEW c \in Clients, NEW k \in Keys
  PROVE  LET n == c.states[k].pending - 1
         IN  BecomesState(c, Removed(c, k), k,
               IF n = 0 THEN [NoTarget EXCEPT !.update = c.states[k].update]
               ELSE [c.states[k] EXCEPT !.pending = n])
<1> DEFINE n == c.states[k].pending - 1
           s == c.states[k]
           z == [NoTarget EXCEPT !.update = s.update]
           m == [s EXCEPT !.pending = n]
<1>1. s \in TargetStates /\ n \in Int
  BY DEF Clients, TargetStates
<1>2. z \in TargetStates
  <2>1. s.update \in Cached
    BY <1>1 DEF TargetStates
  <2>2. NoTarget \in TargetStates
    BY DEF NoTarget, TargetStates, Cached
  <2> HIDE DEF s
  <2> QED
    BY <2>1, <2>2 DEF TargetStates
<1>3. m \in TargetStates
  <2> HIDE DEF s, n
  <2> QED
    BY <1>1 DEF TargetStates
<1>4. Removed(c, k) = [c EXCEPT !.states[k] = IF n = 0 THEN z ELSE m]
  BY DEF Removed
<1> HIDE DEF z, m, n
<1>5. BecomesState(c, Removed(c, k), k, IF n = 0 THEN z ELSE m)
  BY <1>2, <1>3, <1>4, StateFields
<1> QED
  BY <1>5 DEF z, m, n

\* A target told to be current is current in the aggregator.
LEMMA CurrentFields ==
  ASSUME NEW c \in Clients, NEW k \in Keys
  PROVE  IF IsActiveTarget(c, k)
         THEN BecomesState(c, Current(c, k), k, [c.states[k] EXCEPT !.current = TRUE])
         ELSE Current(c, k) = c
<1> DEFINE t == [c.states[k] EXCEPT !.current = TRUE]
<1>1. t \in TargetStates
  <2>1. c.states[k] \in TargetStates
    BY DEF Clients
  <2> QED
    BY <2>1 DEF TargetStates
<1>2. IsActiveTarget(c, k) => Current(c, k) = [c EXCEPT !.states[k] = t]
  BY DEF Current
<1>3. ~IsActiveTarget(c, k) => Current(c, k) = c
  BY DEF Current
<1> QED
  BY <1>1, <1>2, <1>3, StateFields

\* A document's version waits in the aggregator for the snapshot.
LEMMA DocumentFields ==
  ASSUME NEW c \in Clients, NEW k \in Keys, NEW v \in Nat
  PROVE  IF IsActiveTarget(c, k)
         THEN BecomesState(c, Document(c, k, v), k,
                           [c.states[k] EXCEPT !.added = TRUE, !.update = v])
         ELSE Document(c, k, v) = c
<1> DEFINE s == c.states[k]
           u == [s EXCEPT !.added = TRUE]
           t == [s EXCEPT !.added = TRUE, !.update = v]
<1>1. c.states \in [Keys -> TargetStates] /\ s \in TargetStates
  BY DEF Clients
<1>2. t \in TargetStates
  BY <1>1 DEF TargetStates, Cached
<1>3. ASSUME IsActiveTarget(c, k) PROVE Document(c, k, v) = [c EXCEPT !.states[k] = t]
  <2> DEFINE b == [c EXCEPT !.states[k].added = TRUE]
  <2>1. b = [c EXCEPT !.states = [c.states EXCEPT ![k] = u]]
    OBVIOUS
  <2>2. b.states = [c.states EXCEPT ![k] = u]
    <3> HIDE DEF u
    <3> QED
      BY <2>1 DEF Clients
  <2>3. b.states[k] = u
    BY <1>1, <2>2
  <2>4. Document(c, k, v) = [b EXCEPT !.states = [b.states EXCEPT ![k] = [b.states[k] EXCEPT !.update = v]]]
    BY <1>3 DEF Document
  <2>5. Document(c, k, v) = [b EXCEPT !.states = [b.states EXCEPT ![k] = t]]
    BY <2>3, <2>4
  <2>6. [b.states EXCEPT ![k] = t] = [c.states EXCEPT ![k] = t]
    <3> HIDE DEF u, t, b
    <3> QED
      BY <1>1, <2>2
  <2>7. Document(c, k, v) = [b EXCEPT !.states = [c.states EXCEPT ![k] = t]]
    BY <2>5, <2>6
  <2> DEFINE x == [c.states EXCEPT ![k] = t]
             w == [c.states EXCEPT ![k] = u]
  <2> HIDE DEF u, t, x, w, b
  <2>8. [[c EXCEPT !.states = w] EXCEPT !.states = x] = [c EXCEPT !.states = x]
    BY DEF Clients
  <2> QED
    BY <2>1, <2>7, <2>8 DEF x, w
<1>4. ~IsActiveTarget(c, k) => Document(c, k, v) = c
  BY DEF Document
<1> HIDE DEF t
<1>5. IsActiveTarget(c, k) => BecomesState(c, Document(c, k, v), k, t)
  BY <1>2, <1>3, StateFields
<1> QED
  BY <1>4, <1>5 DEF t

\* The listeners of k get an error and are gone.
LEMMA TargetErrorFields ==
  ASSUME NEW c \in Clients, NEW k \in Keys
  PROVE  LET d == TargetError(c, k)
         IN  /\ k \notin c.targets => d = c
             /\ k \in c.targets =>
                  /\ d \in Clients
                  /\ d.stream = c.stream
                  /\ d.tokens = c.tokens
                  /\ d.online = c.online
                  /\ d.failures = c.failures
                  /\ d.timer = c.timer
                  /\ d.cache = c.cache
                  /\ d.synced = c.synced
                  /\ d.resume = c.resume
                  /\ d.targets = c.targets \ {k}
                  /\ d.states = [c.states EXCEPT ![k] = [NoTarget EXCEPT !.update = c.states[k].update]]
                  /\ d.current = [c.current EXCEPT ![k] = FALSE]
                  /\ d.listeners = [c.listeners EXCEPT ![k] = {}]
                  /\ \A r \in Reads \ c.listeners[k] : d.out[r] = c.out[r]
                  /\ \A r \in c.listeners[k] :
                       \E e \in Raised : e.kind = "error" /\ d.out[r] = Append(c.out[r], e)
<1> DEFINE z == [NoTarget EXCEPT !.update = c.states[k].update]
           ts == [c.states EXCEPT ![k] = z]
           cur == [c.current EXCEPT ![k] = FALSE]
           ls == [c.listeners EXCEPT ![k] = {}]
           e == Event("error", k, 0, FALSE)
           out == [r \in Reads |-> IF r \in c.listeners[k] THEN Append(c.out[r], e) ELSE c.out[r]]
           d == [c EXCEPT !.targets = c.targets \ {k}, !.states = ts, !.current = cur,
                          !.listeners = ls, !.out = out]
<1>1. /\ c.states \in [Keys -> TargetStates]
      /\ c.current \in [Keys -> BOOLEAN]
      /\ c.listeners \in [Keys -> SUBSET Reads]
      /\ c.out \in [Reads -> Seq(Raised)]
      /\ c.targets \in SUBSET Keys
  BY DEF Clients
<1>2. z \in TargetStates
  <2>1. NoTarget \in TargetStates
    BY DEF NoTarget, TargetStates, Cached
  <2>2. c.states[k].update \in Cached
    BY <1>1 DEF TargetStates
  <2> QED
    BY <2>1, <2>2 DEF TargetStates
<1>3. e \in Raised /\ e.kind = "error"
  BY DEF Event, Raised
<1> HIDE DEF e
<1>4. /\ ts \in [Keys -> TargetStates]
      /\ cur \in [Keys -> BOOLEAN]
      /\ ls \in [Keys -> SUBSET Reads]
      /\ out \in [Reads -> Seq(Raised)]
  <2>1. \A r \in Reads : c.out[r] \in Seq(Raised) /\ Append(c.out[r], e) \in Seq(Raised)
    BY <1>1, <1>3
  <2> QED
    BY <1>1, <1>2, <2>1
<1>5. k \in c.targets => TargetError(c, k) = d
  <2> SUFFICES ASSUME k \in c.targets PROVE TargetError(c, k) = d
    OBVIOUS
  <2> DEFINE c1 == [c EXCEPT !.targets = c.targets \ {k}]
             c2 == [c1 EXCEPT !.states = ts]
             c3 == [c2 EXCEPT !.current = cur]
             c4 == [c3 EXCEPT !.listeners = ls]
  <2>1. c1.states = c.states
    BY DEF Clients
  <2> HIDE DEF ts
  <2>2. c2.current = c.current
    BY DEF Clients
  <2> HIDE DEF cur
  <2>3. c3.listeners = c.listeners
    BY DEF Clients
  <2> HIDE DEF ls
  <2>4. c4.out = c.out
    BY DEF Clients
  <2>5. TargetError(c, k) =
          [c EXCEPT !.targets = @ \ {k}, !.states[k] = z, !.current[k] = FALSE, !.listeners[k] = {},
                    !.out = [r \in Reads |->
                      IF r \in c.listeners[k] THEN Append(@[r], Event("error", k, 0, FALSE)) ELSE @[r]]]
    BY Zenon DEF TargetError
  <2> QED
    BY <2>1, <2>2, <2>3, <2>4, <2>5 DEF ts, cur, ls, e
<1> HIDE DEF ts, cur, ls, out, z
<1>6. d \in Clients
  BY <1>1, <1>4 DEF Clients
<1>7. /\ d.stream = c.stream
      /\ d.tokens = c.tokens
      /\ d.online = c.online
      /\ d.failures = c.failures
      /\ d.timer = c.timer
      /\ d.cache = c.cache
      /\ d.synced = c.synced
      /\ d.resume = c.resume
      /\ d.targets = c.targets \ {k}
      /\ d.states = ts
      /\ d.current = cur
      /\ d.listeners = ls
      /\ d.out = out
  BY DEF Clients
<1> HIDE DEF d
<1>8. k \notin c.targets => TargetError(c, k) = c
  BY DEF TargetError
<1>9. /\ \A r \in Reads \ c.listeners[k] : out[r] = c.out[r]
      /\ \A r \in c.listeners[k] : out[r] = Append(c.out[r], e)
  BY <1>1 DEF out
<1> QED
  BY <1>3, <1>5, <1>6, <1>7, <1>8, <1>9 DEF ts, cur, ls, z

\* What the cache stores is a version or nothing.
LEMMA StoredType ==
  ASSUME NEW old \in Cached, NEW update \in Cached
  PROVE  Stored(old, update) \in Cached
  BY DEF Stored, Cached

\* What the aggregator holds of a document is a version or nothing.
LEMMA UpdateOfType ==
  ASSUME NEW c \in Clients, NEW k \in Keys
  PROVE  UpdateOf(c, k) \in Cached
<1>1. c.states[k].update \in Cached
  BY DEF Clients, TargetStates
<1> QED
  BY <1>1 DEF UpdateOf, Cached

\* The view of k after a snapshot.
ViewOf(c, k) ==
  (IF IsActiveTarget(c, k) THEN c.states[k].current ELSE c.current[k]) /\ c.listeners[k] # {}

\* What a snapshot does to the client, but for the events it raises.
Applies(c, d, tokens) ==
  /\ d.stream = c.stream
  /\ d.tokens = c.tokens
  /\ d.online = c.online
  /\ d.failures = c.failures
  /\ d.timer = c.timer
  /\ d.targets = c.targets
  /\ d.listeners = c.listeners
  /\ d.cache = [k \in Keys |-> Stored(c.cache[k], UpdateOf(c, k))]
  /\ d.current = [k \in Keys |-> ViewOf(c, k)]
  /\ d.synced = [k \in Keys |-> c.synced[k] \/ (IsActiveTarget(c, k) /\ c.states[k].added)]
  /\ d.resume = [k \in Keys |-> IF IsActiveTarget(c, k) THEN tokens[k] ELSE c.resume[k]]
  /\ d.states = [k \in Keys |->
       [c.states[k] EXCEPT !.added = c.states[k].added /\ ~IsActiveTarget(c, k), !.update = Unknown]]

\* A snapshot, before its events: cache, views and resume tokens of the active targets.
LEMMA AppliedFields ==
  ASSUME NEW c \in Clients, NEW tokens \in [Keys -> Nat]
  PROVE  LET d == Applied(c, tokens)
         IN  d \in Clients /\ Applies(c, d, tokens) /\ d.out = c.out
<1> DEFINE ca == [k \in Keys |-> Stored(c.cache[k], UpdateOf(c, k))]
           cu == [k \in Keys |-> ViewOf(c, k)]
           sy == [k \in Keys |-> c.synced[k] \/ (IsActiveTarget(c, k) /\ c.states[k].added)]
           re == [k \in Keys |-> IF IsActiveTarget(c, k) THEN tokens[k] ELSE c.resume[k]]
           st == [k \in Keys |-> [c.states[k] EXCEPT
                    !.added = c.states[k].added /\ ~IsActiveTarget(c, k), !.update = Unknown]]
           d == [c EXCEPT !.cache = ca, !.current = cu, !.synced = sy, !.resume = re, !.states = st]
<1>1. /\ c.states \in [Keys -> TargetStates]
      /\ c.current \in [Keys -> BOOLEAN]
      /\ c.cache \in [Keys -> Cached]
      /\ c.synced \in [Keys -> BOOLEAN]
      /\ c.resume \in [Keys -> Nat]
  BY DEF Clients
<1>2. ca \in [Keys -> Cached]
  BY <1>1, StoredType, UpdateOfType
<1>3. cu \in [Keys -> BOOLEAN] /\ sy \in [Keys -> BOOLEAN]
  BY DEF ViewOf
<1>4. re \in [Keys -> Nat]
  BY <1>1
<1>5. st \in [Keys -> TargetStates]
  <2> SUFFICES ASSUME NEW k \in Keys
               PROVE  [c.states[k] EXCEPT !.added = c.states[k].added /\ ~IsActiveTarget(c, k),
                                          !.update = Unknown] \in TargetStates
    OBVIOUS
  <2> DEFINE b == c.states[k].added /\ ~IsActiveTarget(c, k)
  <2>1. b \in BOOLEAN
    OBVIOUS
  <2>2. c.states[k] \in TargetStates
    BY <1>1
  <2> HIDE DEF b
  <2>3. [c.states[k] EXCEPT !.added = b, !.update = Unknown] \in TargetStates
    BY <2>1, <2>2 DEF TargetStates, Cached
  <2> QED
    BY <2>3 DEF b
<1>6. Applied(c, tokens) = d
  <2>1. [c EXCEPT !.cache = ca].synced = c.synced
        /\ [[c EXCEPT !.cache = ca] EXCEPT !.current = cu].synced = c.synced
    <3> HIDE DEF ca, cu
    <3> QED
      BY DEF Clients
  <2>2. [[[c EXCEPT !.cache = ca] EXCEPT !.current = cu] EXCEPT !.synced = sy].resume = c.resume
    <3> HIDE DEF ca, cu, sy
    <3> QED
      BY DEF Clients
  <2> QED
    BY <2>1, <2>2 DEF Applied, ViewOf
<1> HIDE DEF ca, cu, sy, re, st
<1>7. d \in Clients
  BY <1>2, <1>3, <1>4, <1>5 DEF Clients
<1>8. /\ d.stream = c.stream
      /\ d.tokens = c.tokens
      /\ d.online = c.online
      /\ d.failures = c.failures
      /\ d.timer = c.timer
      /\ d.targets = c.targets
      /\ d.listeners = c.listeners
      /\ d.cache = ca
      /\ d.current = cu
      /\ d.synced = sy
      /\ d.resume = re
      /\ d.states = st
      /\ d.out = c.out
  BY DEF Clients
<1> HIDE DEF d
<1>9. Applies(c, d, tokens)
  BY <1>8 DEF Applies, ca, cu, sy, re, st
<1> QED
  BY <1>6, <1>7, <1>8, <1>9

\* A snapshot raises the events of what it applies, and only to listeners.
LEMMA SnapshotFields ==
  ASSUME NEW c \in Clients, NEW tokens \in [Keys -> Nat]
  PROVE  LET d == Snapshot(c, tokens)
         IN  d \in Clients /\ Applies(c, d, tokens) /\ Tells(c, d)
<1> DEFINE a == Applied(c, tokens)
           changed(k) == Shown(a.cache[k]) # Shown(c.cache[k]) \/ a.current[k] # c.current[k]
           rs == [k \in Keys |-> IF changed(k) THEN OnViewSnapshot(a, k) ELSE {}]
           d == Emit(a, rs)
<1>1. a \in Clients /\ Applies(c, a, tokens) /\ a.out = c.out
  BY AppliedFields
<1>2. Snapshot(c, tokens) = d
  BY DEF Snapshot
<1> HIDE DEF a
<1>3. \A k \in Keys : rs[k] \subseteq a.listeners[k] /\ a.listeners[k] \subseteq Reads
  BY <1>1 DEF OnViewSnapshot, Clients
<1>4. rs \in [Keys -> SUBSET Reads]
  BY <1>3
<1> HIDE DEF rs
<1>5. d \in Clients /\ Applies(c, d, tokens)
  <2>1. /\ d \in Clients
        /\ d.stream = a.stream
        /\ d.tokens = a.tokens
        /\ d.online = a.online
        /\ d.failures = a.failures
        /\ d.timer = a.timer
        /\ d.targets = a.targets
        /\ d.states = a.states
        /\ d.listeners = a.listeners
        /\ d.current = a.current
        /\ d.cache = a.cache
        /\ d.synced = a.synced
        /\ d.resume = a.resume
    BY <1>1, <1>4, EmitFields
  <2> HIDE DEF d
  <2> QED
    BY <1>1, <2>1, Zenon DEF Applies
<1>6. Tells(c, d)
  <2> SUFFICES ASSUME NEW r \in Reads
               PROVE  \/ d.out[r] = c.out[r]
                      \/ \E k \in Keys, e \in Raised :
                           /\ r \in c.listeners[k]
                           /\ e.kind = "value"
                           /\ d.out[r] = Append(c.out[r], e)
    BY DEF Tells
  <2>1. \/ d.out[r] = a.out[r]
        \/ \E k \in Keys, e \in Raised : /\ r \in rs[k]
                                         /\ e.kind = "value"
                                         /\ d.out[r] = Append(a.out[r], e)
    BY <1>1, <1>4, EmitFields
  <2>2. a.listeners = c.listeners
    BY <1>1 DEF Applies
  <2> QED
    BY <1>1, <1>3, <2>1, <2>2
<1> QED
  BY <1>2, <1>5, <1>6

-----------------------------------------------------------------------------
(* The reads.                                                              *)

Operations == [op : {"listen", "remove"}, read : Reads, key : Keys]

ReadTypes ==
  /\ workQ \in Seq(Operations)
  /\ events \in [Reads -> Seq(Raised)]
  /\ muted \subseteq Reads
  /\ answered \in [Reads -> Nat]
  /\ asked \subseteq Reads

Listens(w, r) == w.op = "listen" /\ w.read = r

Unheard(r) == \A k \in Keys : r \notin client.listeners[k]

\* Nothing has happened to read r yet.
Untold(r) == events[r] = <<>> /\ r \notin muted /\ answered[r] = 0 /\ Unheard(r)

\* A read is asked for once, and starts to listen once.
ListensOnce ==
  /\ \A r \in Reads \ asked : Untold(r) /\ \A i \in 1..Len(workQ) : ~Listens(workQ[i], r)
  /\ \A i \in 1..Len(workQ) : workQ[i].op = "listen" => Untold(workQ[i].read)
  /\ \A i, j \in 1..Len(workQ) :
       workQ[i].op = "listen" /\ Listens(workQ[j], workQ[i].read) => i = j
  /\ \A r \in Reads : \A j, k \in Keys :
       r \in client.listeners[j] /\ r \in client.listeners[k] => j = k

\* An error is the last event of a read, which is then no listener.
ErrorIsLast ==
  \A r \in Reads : \A i \in 1..Len(events[r]) :
    events[r][i].kind = "error" => i = Len(events[r]) /\ Unheard(r)

\* A read that was called back hears nothing more, unless it is muted.
CalledIsOver ==
  \A r \in Reads :
    /\ answered[r] <= 1
    /\ answered[r] = 1 /\ r \notin muted => events[r] = <<>> /\ Unheard(r)

ReadPart ==
  /\ ReadTypes
  /\ client.out = NoEvents
  /\ ListensOnce
  /\ ErrorIsLast
  /\ CalledIsOver

\* The inductive invariant of LayersAgree, NoAssertFails and OneCallback.
BaseInv ==
  /\ client \in Clients
  /\ StreamPart(client)
  /\ TrackerPart(client)
  /\ Agree(client)
  /\ ReadPart

-----------------------------------------------------------------------------
(* Steps of the worker queue.                                              *)

\* What an operation of the worker queue tells the reads, and which reads it joins:
\* only listeners, old or new, are told, at most once, and an error ends the listening.
TellsReads(d, joining) ==
  \A r \in Reads :
    \/ d.out[r] = <<>>
    \/ \E e \in Raised :
         /\ d.out[r] = <<e>>
         /\ \/ e.kind = "value" /\ (~Unheard(r) \/ r \in joining)
            \/ /\ e.kind = "error"
               /\ ~Unheard(r)
               /\ \A k \in Keys : r \notin d.listeners[k]

\* Run keeps all of d but the events.
LEMMA RunFields ==
  ASSUME NEW d \in Clients, Run(d), client \in Clients
  PROVE  /\ client' \in Clients
         /\ client'.out = NoEvents
         /\ client'.stream = d.stream
         /\ client'.tokens = d.tokens
         /\ client'.online = d.online
         /\ client'.failures = d.failures
         /\ client'.timer = d.timer
         /\ client'.targets = d.targets
         /\ client'.states = d.states
         /\ client'.listeners = d.listeners
         /\ client'.current = d.current
         /\ client'.cache = d.cache
         /\ client'.synced = d.synced
         /\ client'.resume = d.resume
<1>1. NoEvents \in [Reads -> Seq(Raised)]
  BY DEF NoEvents
<1> HIDE DEF NoEvents
<1> QED
  BY <1>1 DEF Run, Clients

\* Run keeps the stream's, the tracker's and the layers' parts of the invariant.
LEMMA RunKeeps ==
  ASSUME NEW d \in Clients, Run(d), client \in Clients,
         StreamPart(d), TrackerPart(d), Agree(d)
  PROVE  client' \in Clients /\ StreamPart(client') /\ TrackerPart(client') /\ Agree(client')
<1> USE RunFields
<1>1. client' \in Clients
  OBVIOUS
<1>2. StreamPart(client')
  BY DEF StreamPart
<1>3. TrackerPart(client')
  BY DEF TrackerPart
<1>4. Agree(client')
  BY DEF Agree
<1> QED
  BY <1>1, <1>2, <1>3, <1>4

\* The operations left in the worker queue after the first was taken.
LEMMA TailOps ==
  ASSUME NEW q \in Seq(Operations), q # <<>>
  PROVE  /\ Tail(q) \in Seq(Operations)
         /\ Len(Tail(q)) = Len(q) - 1
         /\ Len(q) \in Nat \ {0}
         /\ \A i \in 1..Len(Tail(q)) : Tail(q)[i] = q[i + 1] /\ i + 1 \in 1..Len(q)
         /\ Head(q) = q[1]
         /\ Head(q) \in Operations
         /\ 1 \in 1..Len(q)
  OBVIOUS

\* What a read's events become.
LEMMA MoreEvents ==
  ASSUME NEW q \in Seq(Raised), NEW e \in Raised
  PROVE  q \o <<>> = q /\ q \o <<e>> = Append(q, e) /\ Append(<<>>, e) = <<e>>
  OBVIOUS

\* Such an operation keeps what is known of the reads.
LEMMA ReadStep ==
  ASSUME ReadPart, client \in Clients, NEW d \in Clients, Run(d),
         UNCHANGED <<muted, answered, asked>>,
         workQ' = workQ \/ (workQ # <<>> /\ workQ' = Tail(workQ)),
         NEW joining \in SUBSET Reads,
         \A r \in joining :
           /\ r \in asked
           /\ Untold(r)
           /\ \A i \in 1..Len(workQ') : ~Listens(workQ'[i], r)
           /\ \A j, k \in Keys : r \in d.listeners[j] /\ r \in d.listeners[k] => j = k,
         \A r \in Reads \ joining, k \in Keys : r \in d.listeners[k] => r \in client.listeners[k],
         TellsReads(d, joining)
  PROVE  ReadPart'
<1>1. /\ client'.out = NoEvents
      /\ client'.listeners = d.listeners
  BY RunFields
<1>2. workQ \in Seq(Operations) /\ events \in [Reads -> Seq(Raised)]
  BY DEF ReadPart, ReadTypes
<1>3. \A r \in Reads : events'[r] = events[r] \o d.out[r]
  BY DEF Run
<1>4. events' \in [Reads -> Seq(Raised)]
  <2>1. events' = [r \in Reads |-> events[r] \o d.out[r]]
    BY DEF Run
  <2>2. d.out \in [Reads -> Seq(Raised)]
    BY DEF Clients
  <2>3. \A r \in Reads : events[r] \o d.out[r] \in Seq(Raised)
    BY <1>2, <2>2, ConcatProperties
  <2> QED
    BY <2>1, <2>3
<1>5. workQ' \in Seq(Operations)
  BY <1>2, TailOps
<1>6. ReadTypes'
  BY <1>4, <1>5 DEF ReadPart, ReadTypes
<1>7. \A i \in 1..Len(workQ') : \E j \in 1..Len(workQ) : workQ'[i] = workQ[j]
  <2>1. CASE workQ' = workQ
    BY <2>1
  <2>2. CASE workQ # <<>> /\ workQ' = Tail(workQ)
    BY <1>2, <2>2, TailOps
  <2> QED
    BY <2>1, <2>2
<1>8. \A r \in Reads : Untold(r) /\ r \notin joining => Untold(r)'
  <2> SUFFICES ASSUME NEW r \in Reads, Untold(r), r \notin joining PROVE Untold(r)'
    OBVIOUS
  <2>1. Unheard(r)'
    BY <1>1 DEF Unheard, Untold
  <2>2. d.out[r] = <<>>
    BY DEF TellsReads, Untold
  <2>3. events'[r] = <<>>
    <3>1. events'[r] = events[r] \o <<>> /\ events[r] = <<>>
      BY <1>3, <2>2 DEF Untold
    <3> QED
      BY <3>1
  <2> QED
    BY <2>1, <2>3 DEF Untold
<1>9. ListensOnce'
  <2>1. ASSUME NEW r \in Reads \ asked
        PROVE  Untold(r)' /\ \A i \in 1..Len(workQ') : ~Listens(workQ'[i], r)
    <3>1. Untold(r) /\ \A i \in 1..Len(workQ) : ~Listens(workQ[i], r)
      BY DEF ReadPart, ListensOnce
    <3> QED
      BY <1>7, <1>8, <3>1
  <2>2. ASSUME NEW i \in 1..Len(workQ'), workQ'[i].op = "listen"
        PROVE  Untold(workQ[i].read)'
    <3>1. PICK j \in 1..Len(workQ) : workQ'[i] = workQ[j]
      BY <1>7
    <3>2. workQ[j] \in Operations
      BY <1>2
    <3>3. PICK x \in Reads : x = workQ[j].read
      BY <3>2 DEF Operations
    <3>4. Untold(x)
      BY <2>2, <3>1, <3>3 DEF ReadPart, ListensOnce
    <3>5. x \notin joining
      BY <2>2, <3>1, <3>3 DEF Listens
    <3>6. Untold(x)'
      BY <1>8, <3>4, <3>5
    <3>7. x = workQ'[i].read
      BY <3>1, <3>3
    <3> QED
      BY <3>6, <3>7 DEF Untold, Unheard
  <2>3. ASSUME NEW i \in 1..Len(workQ'), NEW j \in 1..Len(workQ'),
               workQ'[i].op = "listen", Listens(workQ'[j], workQ'[i].read)
        PROVE  i = j
    <3>1. CASE workQ' = workQ
      BY <2>3, <3>1 DEF ReadPart, ListensOnce
    <3>2. CASE workQ # <<>> /\ workQ' = Tail(workQ)
      <4>1. /\ workQ'[i] = workQ[i + 1]
            /\ workQ'[j] = workQ[j + 1]
            /\ i + 1 \in 1..Len(workQ)
            /\ j + 1 \in 1..Len(workQ)
        BY <1>2, <3>2, TailOps
      <4>2. i + 1 = j + 1
        BY <2>3, <4>1 DEF ReadPart, ListensOnce
      <4> QED
        BY <4>2
    <3> QED
      BY <3>1, <3>2
  <2>4. ASSUME NEW r \in Reads, NEW j \in Keys, NEW k \in Keys,
               r \in client'.listeners[j], r \in client'.listeners[k]
        PROVE  j = k
    BY <1>1, <2>4 DEF ReadPart, ListensOnce
  <2> QED
    BY <2>1, <2>2, <2>3, <2>4 DEF ListensOnce
<1>10. ErrorIsLast'
  <2> SUFFICES ASSUME NEW r \in Reads, NEW i \in 1..Len(events'[r]), events'[r][i].kind = "error"
               PROVE  i = Len(events'[r]) /\ Unheard(r)'
    BY DEF ErrorIsLast
  <2>1. events[r] \in Seq(Raised)
    BY <1>2
  <2>2. CASE d.out[r] = <<>>
    <3>1. events'[r] = events[r]
      <4>1. events'[r] = events[r] \o <<>>
        BY <1>3, <2>2
      <4> QED
        BY <2>1, <4>1
    <3>2. i = Len(events[r]) /\ Unheard(r)
      BY <3>1 DEF ReadPart, ErrorIsLast
    <3>3. r \notin joining
      BY <2>1, <3>1 DEF Untold
    <3> QED
      BY <1>1, <3>1, <3>2, <3>3 DEF Unheard
  <2>3. CASE d.out[r] # <<>>
    <3>1. PICK e \in Raised :
               /\ d.out[r] = <<e>>
               /\ \/ e.kind = "value" /\ (~Unheard(r) \/ r \in joining)
                  \/ /\ e.kind = "error"
                     /\ ~Unheard(r)
                     /\ \A k \in Keys : r \notin d.listeners[k]
      BY <2>3 DEF TellsReads
    <3>2. events'[r] = Append(events[r], e)
      <4>1. events'[r] = events[r] \o <<e>>
        BY <1>3, <3>1
      <4> QED
        BY <2>1, <4>1, MoreEvents
    <3>3. \A j \in 1..Len(events[r]) : events[r][j].kind # "error"
      <4>1. CASE ~Unheard(r)
        BY <4>1 DEF ReadPart, ErrorIsLast
      <4>2. CASE r \in joining
        BY <4>2 DEF Untold
      <4> QED
        BY <3>1, <4>1, <4>2
    <3>4. i = Len(events[r]) + 1 /\ events'[r][i] = e
      BY <2>1, <3>2, <3>3
    <3>5. Unheard(r)'
      BY <1>1, <3>1, <3>4 DEF Unheard
    <3> QED
      BY <2>1, <3>2, <3>4, <3>5
  <2> QED
    BY <2>2, <2>3
<1>11. CalledIsOver'
  <2> SUFFICES ASSUME NEW r \in Reads
               PROVE  /\ answered[r] <= 1
                      /\ answered[r] = 1 /\ r \notin muted => events'[r] = <<>> /\ Unheard(r)'
    BY DEF CalledIsOver
  <2>1. answered[r] <= 1
    BY DEF ReadPart, CalledIsOver
  <2>2. ASSUME answered[r] = 1, r \notin muted
        PROVE  events'[r] = <<>> /\ Unheard(r)'
    <3>1. events[r] = <<>> /\ Unheard(r)
      BY <2>2 DEF ReadPart, CalledIsOver
    <3>2. r \notin joining
      BY <2>2 DEF Untold
    <3>3. d.out[r] = <<>>
      BY <3>1, <3>2 DEF TellsReads
    <3>4. events'[r] = <<>> \o <<>>
      BY <1>3, <3>1, <3>3
    <3>5. events'[r] = <<>>
      BY <3>4
    <3> QED
      BY <1>1, <3>1, <3>2, <3>5 DEF Unheard
  <2> QED
    BY <2>1, <2>2
<1> QED
  BY <1>1, <1>6, <1>9, <1>10, <1>11 DEF ReadPart

\* An operation that tells listeners only what they listen to, and adds none.
LEMMA QuietStep ==
  ASSUME BaseInv, NEW d \in Clients, StreamPart(d), TrackerPart(d), Agree(d),
         \A k \in Keys : d.listeners[k] \subseteq client.listeners[k],
         TellsReads(d, {}), Run(d), UNCHANGED <<muted, answered, asked>>,
         workQ' = workQ \/ (workQ # <<>> /\ workQ' = Tail(workQ))
  PROVE  BaseInv'
<1>1. client \in Clients /\ ReadPart
  BY DEF BaseInv
<1>2. client' \in Clients /\ StreamPart(client') /\ TrackerPart(client') /\ Agree(client')
  BY <1>1, RunKeeps
<1>3. ReadPart'
  BY <1>1, ReadStep
<1> QED
  BY <1>2, <1>3 DEF BaseInv

\* Events raised one by one are what the reads are told.
LEMMA TellsAll ==
  ASSUME client.out = NoEvents, NEW d, Tells(client, d)
  PROVE  TellsReads(d, {})
<1> SUFFICES ASSUME NEW r \in Reads, d.out[r] # <<>>
             PROVE  \E e \in Raised : d.out[r] = <<e>> /\ e.kind = "value" /\ ~Unheard(r)
  BY DEF TellsReads
<1>1. client.out[r] = <<>>
  BY DEF NoEvents
<1>2. PICK k \in Keys, e \in Raised :
           r \in client.listeners[k] /\ e.kind = "value" /\ d.out[r] = Append(client.out[r], e)
  BY <1>1 DEF Tells
<1>3. d.out[r] = Append(<<>>, e)
  BY <1>1, <1>2
<1>4. Append(<<>>, e) = <<e>>
  BY MoreEvents
<1> QED
  BY <1>2, <1>3, <1>4 DEF Unheard

\* How the client differs after such an operation.  The views are as before or, off
\* line, not current.
ViewsEnd(c, d) == d.current = c.current \/ d.current = NoCurrent

\* The stream is not open.
Ended(c, d) == ~IsOpen(d.stream) /\ Frame(c, d) /\ ViewsEnd(c, d)

\* No message and no request is sent, read or dropped.
Rests(c, d) ==
  /\ SameMessages(c, d)
  /\ IsOpen(d.stream) <=> IsOpen(c.stream)
  /\ Frame(c, d)
  /\ ViewsEnd(c, d)

\* The stream has opened, with a request for each target.
Resumed(c, d) ==
  /\ ~IsOpen(c.stream)
  /\ d.states = Awaits(c.states, c.targets)
  /\ d.stream.sent = Asks(c.stream.sent, "watch", c.targets, c.resume)
  /\ d.stream.received = c.stream.received
  /\ Frame(c, d)
  /\ d.current = c.current

\* Read r has been added to the listeners of k.
Listened(c, d, r, k) ==
  /\ d.targets = c.targets \cup {k}
  /\ d.listeners = [c.listeners EXCEPT ![k] = @ \cup {r}]
  /\ d.cache = c.cache
  /\ d.synced = c.synced
  /\ d.resume = c.resume
  /\ d.current = c.current
  /\ IsOpen(d.stream) <=> IsOpen(c.stream)
  /\ \/ SameMessages(c, d) /\ k \in c.targets
     \/ ~IsOpen(c.stream) /\ ~IsOpen(d.stream)
     \/ Requested(c, d, "watch", k) /\ k \notin c.targets

\* Or has been removed from them.
Unlistened(c, d, r, k) ==
  /\ d.listeners = [c.listeners EXCEPT ![k] = @ \ {r}]
  /\ d.cache = c.cache
  /\ d.synced = c.synced
  /\ d.resume = c.resume
  /\ \/ /\ SameMessages(c, d)
        /\ d.targets = c.targets
        /\ d.current = c.current
        /\ d.stream = c.stream
     \/ /\ d.targets = c.targets \ {k}
        /\ d.current = [c.current EXCEPT ![k] = FALSE]
        /\ \/ ~IsOpen(c.stream) /\ ~IsOpen(d.stream)
           \/ Requested(c, d, "unwatch", k)

\* The stream ends.
LEMMA EndsStep ==
  ASSUME BaseInv, NEW d, Ends(client, d), Run(d), UNCHANGED <<workQ, muted, answered, asked>>
  PROVE  BaseInv' /\ Ended(client, client')
<1>1. d \in Clients /\ StreamPart(d) /\ TrackerPart(d)
  BY DEF Ends
<1>2. Agree(d)
  BY DEF Ends, Frame, BaseInv, Agree, NoCurrent
<1>3. \A k \in Keys : d.listeners[k] \subseteq client.listeners[k]
  BY DEF Ends, Frame
<1>4. TellsReads(d, {})
  BY TellsAll DEF Ends, BaseInv, ReadPart
<1>5. Ended(client, client')
  BY <1>1, RunFields DEF BaseInv, Ends, Ended, ViewsEnd, Frame
<1> QED
  BY <1>1, <1>2, <1>3, <1>4, <1>5, QuietStep

\* Nobody is told anything.
LEMMA SilentStep ==
  ASSUME BaseInv, NEW d \in Clients, StreamPart(d), TrackerPart(d), StreamOnly(client, d),
         Run(d), UNCHANGED <<workQ, muted, answered, asked>>
  PROVE  /\ BaseInv'
         /\ SameMessages(client, d) /\ (IsOpen(d.stream) <=> IsOpen(client.stream)) =>
              Rests(client, client')
<1>1. Agree(d)
  BY DEF StreamOnly, Frame, BaseInv, Agree
<1>2. \A k \in Keys : d.listeners[k] \subseteq client.listeners[k]
  BY DEF StreamOnly, Frame
<1>3. TellsReads(d, {})
  BY DEF TellsReads, StreamOnly, BaseInv, ReadPart, NoEvents
<1>4. ASSUME SameMessages(client, d), IsOpen(d.stream) <=> IsOpen(client.stream)
      PROVE  Rests(client, client')
  BY <1>4, RunFields DEF BaseInv, StreamOnly, Rests, ViewsEnd, SameMessages, Frame
<1> QED
  BY <1>1, <1>2, <1>3, <1>4, QuietStep

\* A client with fewer token requests.
LEMMA TokenFields ==
  ASSUME NEW c \in Clients, NEW n
  PROVE  LET d == [c EXCEPT !.tokens = @ \ {n}]
         IN  /\ d \in Clients
             /\ d.tokens = c.tokens \ {n}
             /\ d.stream = c.stream
             /\ d.online = c.online
             /\ d.failures = c.failures
             /\ d.timer = c.timer
             /\ d.states = c.states
             /\ StreamOnly(c, d)
  BY DEF Clients, StreamOnly, Frame

\* An answer with a token opens the stream it was asked for, or nothing.
LEMMA ResumeStartStep ==
  ASSUME BaseInv, NEW n, ResumeStartWithCredentials(n)
  PROVE  /\ BaseInv'
         /\ IF n = client.stream.close THEN Resumed(client, client')
            ELSE Rests(client, client')
<1> DEFINE c == [client EXCEPT !.tokens = @ \ {n}]
           open == [c EXCEPT !.stream = ResumeStart(@)]
<1>1. client \in Clients /\ StreamPart(client) /\ TrackerPart(client)
  BY DEF BaseInv
<1>2. /\ c \in Clients
      /\ c.tokens = client.tokens \ {n}
      /\ c.stream = client.stream
      /\ c.online = client.online
      /\ c.failures = client.failures
      /\ c.timer = client.timer
      /\ c.states = client.states
      /\ StreamOnly(client, c)
  BY <1>1, TokenFields
<1>3. /\ n \in client.tokens
      /\ Run(IF n # c.stream.close THEN c ELSE Send(open, "watch", c.targets))
      /\ UNCHANGED <<workQ, muted, answered, asked>>
  BY DEF ResumeStartWithCredentials
<1> HIDE DEF c
<1>4. CASE n # c.stream.close
  <2>1. StreamPart(c)
    BY <1>1, <1>2, <1>4 DEF StreamPart, StreamOnly, Frame
  <2>2. TrackerPart(c)
    BY <1>1, <1>2 DEF TrackerPart
  <2>3. SameMessages(client, c) /\ (IsOpen(c.stream) <=> IsOpen(client.stream))
    BY <1>2 DEF SameMessages
  <2> QED
    BY <1>2, <1>3, <1>4, <2>1, <2>2, <2>3, SilentStep
<1>5. CASE n = c.stream.close
  <2> DEFINE s == ResumeStart(c.stream)
             d == Send(open, "watch", c.targets)
  <2>1. client.stream \in Streams /\ client.stream.state = "Starting" /\ client.stream.ok
    BY <1>1, <1>2, <1>3, <1>5 DEF Clients, StreamPart
  <2>2. /\ s \in Streams
        /\ s.state = "Open"
        /\ s.close = client.stream.close
        /\ s.ok
        /\ s.sent = client.stream.sent
        /\ s.received = client.stream.received
    BY <1>2, <2>1 DEF ResumeStart, HardAssert, Streams, States
  <2>3. open = [c EXCEPT !.stream = s]
    OBVIOUS
  <2> HIDE DEF s, open
  <2>4. /\ open \in Clients
        /\ open.stream = s
        /\ open.tokens = c.tokens
        /\ open.online = c.online
        /\ open.failures = c.failures
        /\ open.timer = c.timer
        /\ open.states = c.states
        /\ StreamOnly(c, open)
    BY <1>2, <2>2, <2>3, StreamFields DEF StreamOnly, Frame
  <2>5. c.targets \in SUBSET Keys
    BY <1>2 DEF Clients
  <2>6. /\ d \in Clients
        /\ d.stream.state = "Open"
        /\ d.stream.close = client.stream.close
        /\ d.stream.ok
        /\ d.stream.idle = FALSE
        /\ d.tokens = client.tokens \ {n}
        /\ d.online = client.online
        /\ d.failures = client.failures
        /\ d.timer = client.timer
        /\ d.states = Awaits(open.states, c.targets)
        /\ d.stream.sent = Asks(open.stream.sent, "watch", c.targets, open.resume)
        /\ d.stream.received = open.stream.received
        /\ StreamOnly(open, d)
    <3>1. /\ d \in Clients
          /\ d.stream.state = open.stream.state
          /\ d.stream.close = open.stream.close
          /\ d.stream.ok = open.stream.ok
          /\ d.stream.idle = FALSE
          /\ d.tokens = open.tokens
          /\ d.online = open.online
          /\ d.failures = open.failures
          /\ d.timer = open.timer
          /\ d.states = Awaits(open.states, c.targets)
          /\ d.stream.sent = Asks(open.stream.sent, "watch", c.targets, open.resume)
          /\ d.stream.received = open.stream.received
          /\ StreamOnly(open, d)
      BY <2>4, <2>5, SendFields
    <3> HIDE DEF d
    <3> QED
      BY <1>2, <2>2, <2>4, <3>1
  <2> HIDE DEF d
  <2>7. StreamPart(d)
    BY <1>1, <1>2, <1>5, <2>6 DEF StreamPart, IsOpen
  <2>8. TrackerPart(d)
    BY <1>1, <2>6 DEF TrackerPart, IsStarted
  <2>9. StreamOnly(client, d)
    BY <1>2, <2>4, <2>6 DEF StreamOnly, Frame
  <2>10. Run(d)
    BY <1>3, <1>5 DEF d
  <2>11. BaseInv'
    BY <1>3, <2>6, <2>7, <2>8, <2>9, <2>10, SilentStep
  <2>12. /\ ~IsOpen(client.stream)
         /\ d.states = Awaits(client.states, client.targets)
         /\ d.stream.sent = Asks(client.stream.sent, "watch", client.targets, client.resume)
         /\ d.stream.received = client.stream.received
    BY <1>2, <2>1, <2>2, <2>4, <2>6 DEF IsOpen, StreamOnly, Frame
  <2>13. Resumed(client, client')
    BY <1>1, <2>6, <2>9, <2>10, <2>12, RunFields DEF Resumed, StreamOnly, Frame
  <2> QED
    BY <1>2, <1>5, <2>11, <2>13
<1> QED
  BY <1>2, <1>4, <1>5

\* A stream that fails, or whose token does not come.
LEMMA FailsEnds ==
  ASSUME NEW c \in Clients, c.stream.ok, \A n \in c.tokens : n <= c.stream.close,
         IsStarted(c.stream), TrackerPart(c)
  PROVE  Ends(c, Fails(c))
<1> DEFINE b == Closed(c, FALSE)
<1>1. b \in Clients /\ Stopped(b) /\ StreamOnly(c, b)
  BY ClosedFields
<1> HIDE DEF b
<1>2. Ends(b, OnWatchStreamClose(b))
  BY <1>1, OnWatchStreamCloseFields
<1>3. Ends(c, OnWatchStreamClose(b))
  BY <1>1, <1>2, EndsFrom
<1> QED
  BY <1>3 DEF Fails, b

\* A failed token request ends the stream it was asked for, or does nothing.
LEMMA TokenFailsStep ==
  ASSUME BaseInv, NEW n, TokenFails(n)
  PROVE  BaseInv' /\ (Ended(client, client') \/ Rests(client, client'))
<1> DEFINE c == [client EXCEPT !.tokens = @ \ {n}]
<1>1. client \in Clients /\ StreamPart(client) /\ TrackerPart(client)
  BY DEF BaseInv
<1>2. /\ c \in Clients
      /\ c.tokens = client.tokens \ {n}
      /\ c.stream = client.stream
      /\ c.online = client.online
      /\ c.failures = client.failures
      /\ c.timer = client.timer
      /\ c.states = client.states
      /\ StreamOnly(client, c)
  BY <1>1, TokenFields
<1>3. /\ n \in client.tokens
      /\ Run(IF n # c.stream.close THEN c ELSE Fails(c))
      /\ UNCHANGED <<workQ, muted, answered, asked>>
  BY DEF TokenFails
<1> HIDE DEF c
<1>4. TrackerPart(c)
  BY <1>1, <1>2 DEF TrackerPart
<1>5. CASE n # c.stream.close
  <2>1. StreamPart(c)
    BY <1>1, <1>2, <1>5 DEF StreamPart, StreamOnly, Frame
  <2>2. SameMessages(client, c) /\ (IsOpen(c.stream) <=> IsOpen(client.stream))
    BY <1>2 DEF SameMessages
  <2> QED
    BY <1>2, <1>3, <1>4, <1>5, <2>1, <2>2, SilentStep
<1>6. CASE n = c.stream.close
  <2>1. c.stream.ok /\ IsStarted(c.stream) /\ \A m \in c.tokens : m <= c.stream.close
    BY <1>1, <1>2, <1>3, <1>6 DEF StreamPart, IsStarted
  <2>2. Ends(c, Fails(c))
    BY <1>2, <1>4, <2>1, FailsEnds
  <2>3. Ends(client, Fails(c))
    BY <1>2, <2>2, EndsFrom
  <2> QED
    BY <1>3, <1>6, <2>3, EndsStep
<1> QED
  BY <1>5, <1>6

\* An open stream that breaks.
LEMMA StreamFailsStep ==
  ASSUME BaseInv, StreamFails
  PROVE  BaseInv' /\ Ended(client, client')
<1>1. client \in Clients /\ StreamPart(client) /\ TrackerPart(client)
  BY DEF BaseInv
<1>2. IsOpen(client.stream) /\ Run(Fails(client)) /\ UNCHANGED <<workQ, muted, answered, asked>>
  BY DEF StreamFails
<1>3. client.stream.ok /\ IsStarted(client.stream) /\ \A m \in client.tokens : m <= client.stream.close
  BY <1>1, <1>2 DEF StreamPart, IsStarted, IsOpen
<1>4. Ends(client, Fails(client))
  BY <1>1, <1>3, FailsEnds
<1> QED
  BY <1>2, <1>4, EndsStep

\* The app restarts the network.
LEMMA RestartNetworkStep ==
  ASSUME BaseInv, RestartNetwork
  PROVE  BaseInv' /\ Ended(client, client')
  BY RestartedFields, EndsStep DEF BaseInv, RestartNetwork

\* The backoff is over and the stream starts.
LEMMA BackoffTimeoutStep ==
  ASSUME BaseInv, BackoffTimeout
  PROVE  BaseInv' /\ Rests(client, client')
<1> DEFINE s == BackoffElapsed(client.stream)
           d == Becomes(client, s)
<1>1. client \in Clients /\ StreamPart(client) /\ TrackerPart(client)
  BY DEF BaseInv
<1>2. /\ client.stream.state = "Backoff"
      /\ Run(d)
      /\ UNCHANGED <<workQ, muted, answered, asked>>
  BY DEF BackoffTimeout
<1>3. client.stream \in Streams /\ client.stream.ok
  BY <1>1 DEF Clients, StreamPart
<1>4. /\ s \in Streams
      /\ s.state = "Starting"
      /\ s.close = client.stream.close
      /\ s.ok
      /\ s.idle = client.stream.idle
      /\ s.sent = client.stream.sent
      /\ s.received = client.stream.received
  BY <1>2, <1>3 DEF BackoffElapsed, Start, HardAssert, Streams, States
<1>5. s.close \in Nat
  BY <1>4 DEF Streams
<1>6. d = [client EXCEPT !.stream = s, !.tokens = @ \cup {s.close}]
  BY <1>4 DEF Becomes
<1> HIDE DEF s, d
<1>7. /\ d \in Clients
      /\ d.stream = s
      /\ d.tokens = client.tokens \cup {s.close}
      /\ d.online = client.online
      /\ d.failures = client.failures
      /\ d.timer = client.timer
      /\ d.states = client.states
      /\ StreamOnly(client, d)
  BY <1>1, <1>4, <1>5, <1>6 DEF Clients, StreamOnly, Frame
<1>8. StreamPart(d)
  BY <1>1, <1>2, <1>4, <1>5, <1>7 DEF StreamPart, IsOpen, Silent, StreamOnly, Frame
<1>9. TrackerPart(d)
  BY <1>1, <1>4, <1>7 DEF TrackerPart, IsStarted
<1>10. SameMessages(client, d) /\ (IsOpen(d.stream) <=> IsOpen(client.stream))
  BY <1>2, <1>4, <1>7 DEF SameMessages, IsOpen
<1> QED
  BY <1>2, <1>7, <1>8, <1>9, <1>10, SilentStep

\* The idle timer closes a stream without targets.
LEMMA IdleTimeoutStep ==
  ASSUME BaseInv, IdleTimeout
  PROVE  BaseInv' /\ Ended(client, client')
<1> DEFINE c == Closed(client, TRUE)
           d == OnWatchStreamClose(Check(c, ~ShouldStartWatchStream(c)))
<1>1. client \in Clients /\ StreamPart(client) /\ TrackerPart(client)
  BY DEF BaseInv
<1>2. client.stream.idle /\ Run(d) /\ UNCHANGED <<workQ, muted, answered, asked>>
  BY DEF IdleTimeout
<1>3. client.targets = {} /\ IsStarted(client.stream)
  BY <1>1, <1>2 DEF StreamPart, Silent, IsOpen, IsStarted
<1>4. c \in Clients /\ Stopped(c) /\ StreamOnly(client, c)
  BY <1>1, <1>3, ClosedFields DEF StreamPart
<1> HIDE DEF c
<1>5. ShouldStartWatchStream(c) = FALSE
  BY <1>3, <1>4 DEF ShouldStartWatchStream, StreamOnly, Frame
<1>6. Check(c, ~ShouldStartWatchStream(c)) = c
  BY <1>4, <1>5, CheckFields
<1>7. Ends(c, d)
  BY <1>4, <1>6, OnWatchStreamCloseFields
<1>8. Ends(client, d)
  BY <1>4, <1>7, EndsFrom
<1> QED
  BY <1>2, <1>8, EndsStep

\* The online state's timer gives the stream up for offline.
LEMMA OnlineStateTimeoutStep ==
  ASSUME BaseInv, OnlineStateTimeout
  PROVE  BaseInv' /\ Rests(client, client')
<1> DEFINE c == [client EXCEPT !.timer = FALSE]
           d == SetAndBroadcast(c, "Offline")
<1>1. client \in Clients /\ StreamPart(client) /\ TrackerPart(client)
  BY DEF BaseInv
<1>2. /\ client.timer
      /\ Run(SetAndBroadcast([Check(client, client.online = "Unknown") EXCEPT !.timer = FALSE],
                             "Offline"))
      /\ UNCHANGED <<workQ, muted, answered, asked>>
  BY DEF OnlineStateTimeout
<1>3. client.online = "Unknown"
  BY <1>1, <1>2 DEF TrackerPart
<1>4. Check(client, client.online = "Unknown") = client
  BY <1>1, <1>3, CheckFields
<1>5. Run(d)
  BY <1>2, <1>4
<1>6. /\ c \in Clients
      /\ c.stream = client.stream
      /\ c.tokens = client.tokens
      /\ c.failures = client.failures
      /\ c.timer = FALSE
      /\ c.states = client.states
      /\ c.current = client.current
      /\ c.out = client.out
      /\ Frame(client, c)
  BY <1>1 DEF Clients, Frame
<1> HIDE DEF c
<1>7. /\ d \in Clients
      /\ d.online = "Offline"
      /\ d.stream = c.stream
      /\ d.tokens = c.tokens
      /\ d.failures = c.failures
      /\ d.timer = c.timer
      /\ d.states = c.states
      /\ d.current = c.current \/ d.current = NoCurrent
      /\ Tells(c, d)
      /\ Frame(c, d)
  BY <1>6, SetAndBroadcastOffline
<1> HIDE DEF d
<1>8. StreamPart(d)
  BY <1>1, <1>6, <1>7 DEF StreamPart, Frame
<1>9. TrackerPart(d)
  BY <1>6, <1>7 DEF TrackerPart
<1>10. Agree(d)
  BY <1>6, <1>7 DEF BaseInv, Agree, Frame, NoCurrent
<1>11. Tells(client, d)
  BY <1>6, <1>7 DEF Tells, Frame
<1>12. TellsReads(d, {})
  BY <1>11, TellsAll DEF BaseInv, ReadPart
<1>13. \A k \in Keys : d.listeners[k] \subseteq client.listeners[k]
  BY <1>6, <1>7 DEF Frame
<1>14. Rests(client, client')
  BY <1>1, <1>5, <1>6, <1>7, RunFields DEF Rests, ViewsEnd, SameMessages, Frame
<1> QED
  BY <1>2, <1>5, <1>7, <1>8, <1>9, <1>10, <1>12, <1>13, <1>14, QuietStep

\* A read starts to listen.
LEMMA RunListenStep ==
  ASSUME BaseInv, RunOp, Head(workQ).op = "listen"
  PROVE  BaseInv' /\ \E r \in Reads, k \in Keys : Listened(client, client', r, k)
<1> DEFINE r == Head(workQ).read
           k == Head(workQ).key
           d == Listen(client, r, k)
<1>1. client \in Clients /\ StreamPart(client) /\ TrackerPart(client) /\ Agree(client) /\ ReadPart
  BY DEF BaseInv
<1>2. workQ # <<>> /\ workQ' = Tail(workQ) /\ Run(d) /\ UNCHANGED <<muted, answered, asked>>
  BY DEF RunOp
<1>3. workQ \in Seq(Operations)
  BY <1>1 DEF ReadPart, ReadTypes
<1>4. Head(workQ) \in Operations /\ Head(workQ) = workQ[1] /\ 1 \in 1..Len(workQ)
  BY <1>2, <1>3, TailOps
<1>5. r \in Reads /\ k \in Keys
  BY <1>4 DEF Operations
<1>6. Untold(r)
  BY <1>1, <1>4 DEF ReadPart, ListensOnce
<1>7. r \in asked
  BY <1>1, <1>4, <1>5 DEF ReadPart, ListensOnce, Listens
<1>8. \A i \in 1..Len(workQ') : ~Listens(workQ'[i], r)
  <2> SUFFICES ASSUME NEW i \in 1..Len(workQ'), Listens(workQ'[i], r) PROVE FALSE
    OBVIOUS
  <2>1. workQ'[i] = workQ[i + 1] /\ i + 1 \in 1..Len(workQ)
    BY <1>2, <1>3, TailOps
  <2>2. Listens(workQ[i + 1], workQ[1].read) /\ workQ[1].op = "listen"
    BY <1>4, <2>1
  <2>3. i + 1 = 1
    BY <1>1, <1>4, <2>1, <2>2 DEF ReadPart, ListensOnce
  <2> QED
    BY <2>3
<1> HIDE DEF r, k
<1>9. /\ d \in Clients
      /\ StreamPart(d)
      /\ TrackerPart(d)
      /\ Joins(client, d, r, k)
      /\ \/ SameMessages(client, d) /\ k \in client.targets
         \/ ~IsOpen(client.stream) /\ ~IsOpen(d.stream)
         \/ Requested(client, d, "watch", k) /\ k \notin client.targets
      /\ IsOpen(d.stream) <=> IsOpen(client.stream)
  BY <1>1, <1>5, ListenFields
<1> HIDE DEF d
<1>10. client.listeners \in [Keys -> SUBSET Reads]
  BY <1>1 DEF Clients
<1>11. d.listeners = [client.listeners EXCEPT ![k] = @ \cup {r}]
  BY <1>9 DEF Joins
<1>12. Agree(d)
  BY <1>1, <1>5, <1>9, <1>10, <1>11 DEF Agree, Joins
<1>13. TellsReads(d, {r})
  <2> SUFFICES ASSUME NEW x \in Reads, d.out[x] # <<>>
               PROVE  \E e \in Raised : d.out[x] = <<e>> /\ e.kind = "value" /\ x = r
    BY DEF TellsReads
  <2>1. client.out[x] = <<>>
    BY <1>1 DEF ReadPart, NoEvents
  <2>2. PICK e \in Raised : x = r /\ e.kind = "value" /\ d.out[x] = Append(client.out[x], e)
    BY <1>9, <2>1 DEF Joins
  <2>3. d.out[x] = Append(<<>>, e)
    BY <2>1, <2>2
  <2>4. Append(<<>>, e) = <<e>>
    BY <2>2, MoreEvents
  <2> QED
    BY <2>2, <2>3, <2>4
<1>14. \A x \in Reads \ {r}, j \in Keys : x \in d.listeners[j] => x \in client.listeners[j]
  BY <1>10, <1>11
<1>15. \A i, j \in Keys : r \in d.listeners[i] /\ r \in d.listeners[j] => i = j
  BY <1>6, <1>10, <1>11 DEF Untold, Unheard
<1>16. ReadPart'
  BY <1>1, <1>2, <1>5, <1>6, <1>7, <1>8, <1>9, <1>13, <1>14, <1>15, ReadStep
<1>17. client' \in Clients /\ StreamPart(client') /\ TrackerPart(client') /\ Agree(client')
  BY <1>1, <1>2, <1>9, <1>12, RunKeeps
<1>18. Listened(client, client', r, k)
  BY <1>1, <1>2, <1>9, RunFields DEF Listened, Joins, SameMessages, Requested
<1> QED
  BY <1>5, <1>16, <1>17, <1>18 DEF BaseInv

\* A read's listener is removed.
LEMMA RunRemoveStep ==
  ASSUME BaseInv, RunOp, Head(workQ).op # "listen"
  PROVE  BaseInv' /\ \E r \in Reads, k \in Keys : Unlistened(client, client', r, k)
<1> DEFINE r == Head(workQ).read
           k == Head(workQ).key
           d == RemoveQueryListener(client, r, k)
<1>1. client \in Clients /\ StreamPart(client) /\ TrackerPart(client) /\ Agree(client) /\ ReadPart
  BY DEF BaseInv
<1>2. workQ # <<>> /\ workQ' = Tail(workQ) /\ Run(d) /\ UNCHANGED <<muted, answered, asked>>
  BY DEF RunOp
<1>3. Head(workQ) \in Operations
  BY <1>1, <1>2, TailOps DEF ReadPart, ReadTypes
<1>4. r \in Reads /\ k \in Keys
  BY <1>3 DEF Operations
<1> HIDE DEF r, k
<1>5. /\ d \in Clients
      /\ StreamPart(d)
      /\ TrackerPart(d)
      /\ d.listeners = [client.listeners EXCEPT ![k] = @ \ {r}]
      /\ d.out = client.out
      /\ d.cache = client.cache
      /\ d.synced = client.synced
      /\ d.resume = client.resume
      /\ \/ /\ d.listeners[k] # {} \/ client.listeners[k] = {}
            /\ SameMessages(client, d)
            /\ d.targets = client.targets
            /\ d.current = client.current
            /\ d.stream = client.stream
         \/ /\ d.listeners[k] = {}
            /\ d.targets = client.targets \ {k}
            /\ d.current = [client.current EXCEPT ![k] = FALSE]
            /\ \/ ~IsOpen(client.stream) /\ ~IsOpen(d.stream)
               \/ Requested(client, d, "unwatch", k)
  BY <1>1, <1>4, RemoveQueryListenerFields
<1> HIDE DEF d
<1>6. client.listeners \in [Keys -> SUBSET Reads] /\ client.current \in [Keys -> BOOLEAN]
  BY <1>1 DEF Clients
<1>7. Agree(d)
  BY <1>1, <1>4, <1>5, <1>6 DEF Agree
<1>8. TellsReads(d, {})
  BY <1>1, <1>5 DEF TellsReads, ReadPart, NoEvents
<1>9. \A j \in Keys : d.listeners[j] \subseteq client.listeners[j]
  BY <1>5, <1>6
<1>10. Unlistened(client, client', r, k)
  BY <1>1, <1>2, <1>5, RunFields DEF Unlistened, SameMessages, Requested
<1> QED
  BY <1>2, <1>4, <1>5, <1>7, <1>8, <1>9, <1>10, QuietStep

\* The client has taken a message from the stream.
LEMMA ReceivedFields ==
  ASSUME NEW c \in Clients, c.stream.received # <<>>
  PROVE  LET d == [c EXCEPT !.stream.received = Tail(@)]
         IN  /\ d \in Clients
             /\ Head(c.stream.received) \in Messages
             /\ d.stream.received = Tail(c.stream.received)
             /\ d.stream.sent = c.stream.sent
             /\ d.stream.state = c.stream.state
             /\ d.stream.close = c.stream.close
             /\ d.stream.idle = c.stream.idle
             /\ d.stream.ok = c.stream.ok
             /\ d.tokens = c.tokens
             /\ d.online = c.online
             /\ d.failures = c.failures
             /\ d.timer = c.timer
             /\ d.states = c.states
             /\ StreamOnly(c, d)
<1> DEFINE q == Tail(c.stream.received)
           s == [c.stream EXCEPT !.received = q]
<1>1. c.stream \in Streams
  BY DEF Clients
<1>2. c.stream.received \in Seq(Messages)
  BY <1>1 DEF Streams
<1>3. q \in Seq(Messages) /\ Head(c.stream.received) \in Messages
  <2> HIDE DEF Messages
  <2> QED
    BY <1>2
<1> HIDE DEF q
<1>4. /\ s \in Streams
      /\ s.received = q
      /\ s.sent = c.stream.sent
      /\ s.state = c.stream.state
      /\ s.close = c.stream.close
      /\ s.idle = c.stream.idle
      /\ s.ok = c.stream.ok
  BY <1>1, <1>3 DEF Streams
<1>5. [c EXCEPT !.stream.received = Tail(@)] = [c EXCEPT !.stream = s]
  BY DEF q
<1> HIDE DEF s
<1>6. /\ [c EXCEPT !.stream = s] \in Clients
      /\ [c EXCEPT !.stream = s].stream = s
      /\ [c EXCEPT !.stream = s].tokens = c.tokens
      /\ [c EXCEPT !.stream = s].online = c.online
      /\ [c EXCEPT !.stream = s].failures = c.failures
      /\ [c EXCEPT !.stream = s].timer = c.timer
      /\ [c EXCEPT !.stream = s].states = c.states
      /\ StreamOnly(c, [c EXCEPT !.stream = s])
  BY <1>4, StreamFields DEF StreamOnly, Frame
<1>7. q = Tail(c.stream.received)
  BY DEF q
<1> QED
  BY <1>3, <1>4, <1>5, <1>6, <1>7

\* What the client is when OnWatchStreamChange turns to message m of an open stream.
Reading(c, d) ==
  /\ d \in Clients
  /\ d.stream.received = Tail(c.stream.received)
  /\ d.stream.sent = c.stream.sent
  /\ IsOpen(c.stream)
  /\ IsOpen(d.stream)
  /\ d.online = "Online"
  /\ d.states = c.states
  /\ StreamOnly(c, d)

\* Taking a message from the stream makes the client online.
LEMMA ReadingFields ==
  ASSUME NEW c \in Clients, StreamPart(c), c.stream.received # <<>>
  PROVE  LET d == UpdateState([c EXCEPT !.stream.received = Tail(@)], "Online")
         IN  /\ Reading(c, d)
             /\ StreamPart(d)
             /\ TrackerPart(d)
<1> DEFINE b == [c EXCEPT !.stream.received = Tail(@)]
           d == UpdateState(b, "Online")
<1>1. /\ b \in Clients
      /\ b.stream.received = Tail(c.stream.received)
      /\ b.stream.sent = c.stream.sent
      /\ b.stream.state = c.stream.state
      /\ b.stream.close = c.stream.close
      /\ b.stream.idle = c.stream.idle
      /\ b.stream.ok = c.stream.ok
      /\ b.tokens = c.tokens
      /\ b.states = c.states
      /\ StreamOnly(c, b)
  BY ReceivedFields
<1> HIDE DEF b
<1>2. /\ d \in Clients
      /\ d.online = "Online"
      /\ d.stream = b.stream
      /\ d.tokens = b.tokens
      /\ d.failures = 0
      /\ d.timer = FALSE
      /\ d.states = b.states
      /\ d.current = b.current
      /\ d.out = b.out
      /\ Frame(b, d)
  BY <1>1, UpdateStateFields
<1> HIDE DEF d
<1>3. IsOpen(c.stream)
  BY DEF StreamPart, Silent
<1>4. IsOpen(d.stream)
  BY <1>1, <1>2, <1>3 DEF IsOpen
<1>5. StreamOnly(c, d)
  BY <1>1, <1>2 DEF StreamOnly, Frame
<1>6. StreamPart(d)
  <2>1. /\ d.stream.ok = c.stream.ok
        /\ d.stream.close = c.stream.close
        /\ d.stream.state = c.stream.state
        /\ d.stream.idle = c.stream.idle
        /\ d.tokens = c.tokens
    BY <1>1, <1>2
  <2>2. d.targets = c.targets
    BY <1>5 DEF StreamOnly, Frame
  <2> QED
    BY <1>4, <2>1, <2>2 DEF StreamPart
<1>7. TrackerPart(d)
  BY <1>2 DEF TrackerPart
<1> QED
  BY <1>1, <1>2, <1>3, <1>4, <1>5, <1>6, <1>7 DEF Reading, d, b

\* Messages that only change a target's state.
LEMMA StatesStep ==
  ASSUME BaseInv, NEW c, Reading(client, c), StreamPart(c), TrackerPart(c),
         NEW d, OnlyStates(c, d), Run(d), UNCHANGED <<workQ, muted, answered, asked>>
  PROVE  BaseInv'
<1>1. d \in Clients
  BY DEF OnlyStates
<1>2. StreamPart(d)
  BY DEF StreamPart, OnlyStates, StreamOnly, Frame, Reading
<1>3. TrackerPart(d)
  BY DEF TrackerPart, OnlyStates
<1>4. StreamOnly(client, d)
  BY DEF StreamOnly, Frame, Reading, OnlyStates
<1> QED
  BY <1>1, <1>2, <1>3, <1>4, SilentStep

\* A snapshot.
LEMMA SnapshotStep ==
  ASSUME BaseInv, NEW c, Reading(client, c), StreamPart(c), TrackerPart(c),
         NEW tokens \in [Keys -> Nat],
         Run(Snapshot(c, tokens)), UNCHANGED <<workQ, muted, answered, asked>>
  PROVE  BaseInv'
<1> DEFINE d == Snapshot(c, tokens)
<1>1. d \in Clients /\ Applies(c, d, tokens) /\ Tells(c, d)
  BY SnapshotFields DEF Reading
<1> HIDE DEF d
<1>2. StreamPart(d)
  BY <1>1 DEF StreamPart, Applies, Reading
<1>3. TrackerPart(d)
  BY <1>1 DEF TrackerPart, Applies
<1>4. client.listeners = d.listeners /\ client.targets = d.targets /\ client.out = c.out
  BY <1>1 DEF Applies, Reading, StreamOnly, Frame
<1>5. \A k \in Keys : d.current[k] => d.listeners[k] # {}
  <2>1. d.current = [k \in Keys |-> ViewOf(c, k)] /\ d.listeners = c.listeners
    BY <1>1 DEF Applies
  <2> QED
    BY <2>1 DEF ViewOf
<1>6. Agree(d)
  BY <1>4, <1>5 DEF Agree, BaseInv
<1>7. Tells(client, d)
  <2>1. d.listeners = c.listeners
    BY <1>1 DEF Applies
  <2> QED
    BY <1>1, <1>4, <2>1 DEF Tells
<1>8. TellsReads(d, {})
  BY <1>7, TellsAll DEF BaseInv, ReadPart
<1>9. \A k \in Keys : d.listeners[k] \subseteq client.listeners[k]
  BY <1>4
<1> QED
  BY <1>1, <1>2, <1>3, <1>6, <1>8, <1>9, QuietStep DEF d

\* The refusal of a target.
LEMMA TargetErrorStep ==
  ASSUME BaseInv, NEW c, Reading(client, c), StreamPart(c), TrackerPart(c),
         NEW k \in Keys,
         Run(TargetError(c, k)), UNCHANGED <<workQ, muted, answered, asked>>
  PROVE  BaseInv'
<1> DEFINE d == TargetError(c, k)
<1>1. CASE k \notin c.targets
  <2>1. d = c /\ c \in Clients
    BY <1>1, TargetErrorFields DEF Reading
  <2>2. Run(c)
    BY <2>1
  <2> QED
    BY <2>1, <2>2, SilentStep DEF Reading
<1>2. CASE k \in c.targets
  <2>1. /\ d \in Clients
        /\ d.stream = c.stream
        /\ d.tokens = c.tokens
        /\ d.online = c.online
        /\ d.failures = c.failures
        /\ d.timer = c.timer
        /\ d.targets = c.targets \ {k}
        /\ d.current = [c.current EXCEPT ![k] = FALSE]
        /\ d.listeners = [c.listeners EXCEPT ![k] = {}]
        /\ \A r \in Reads \ c.listeners[k] : d.out[r] = c.out[r]
        /\ \A r \in c.listeners[k] :
             \E e \in Raised : e.kind = "error" /\ d.out[r] = Append(c.out[r], e)
    BY <1>2, TargetErrorFields DEF Reading
  <2> HIDE DEF d
  <2>2. StreamPart(d)
    BY <2>1 DEF StreamPart, Reading
  <2>3. TrackerPart(d)
    BY <2>1 DEF TrackerPart
  <2>4. /\ c.listeners = client.listeners
        /\ c.targets = client.targets
        /\ c.current = client.current
        /\ c.out = NoEvents
        /\ client.listeners \in [Keys -> SUBSET Reads]
        /\ client.current \in [Keys -> BOOLEAN]
    BY DEF Reading, StreamOnly, Frame, BaseInv, ReadPart, Clients
  <2>5. Agree(d)
    BY <2>1, <2>4 DEF Agree, BaseInv
  <2>6. \A j \in Keys : d.listeners[j] \subseteq client.listeners[j]
    BY <2>1, <2>4
  <2>7. TellsReads(d, {})
    <3> SUFFICES ASSUME NEW r \in Reads, d.out[r] # <<>>
                 PROVE  \E e \in Raised : /\ d.out[r] = <<e>>
                                          /\ e.kind = "error"
                                          /\ ~Unheard(r)
                                          /\ \A j \in Keys : r \notin d.listeners[j]
      BY DEF TellsReads
    <3>1. c.out[r] = <<>>
      BY <2>4 DEF NoEvents
    <3>2. r \in c.listeners[k]
      BY <2>1, <3>1
    <3>3. PICK e \in Raised : e.kind = "error" /\ d.out[r] = Append(c.out[r], e)
      BY <2>1, <3>2
    <3>4. d.out[r] = Append(<<>>, e)
      BY <3>1, <3>3
    <3>5. Append(<<>>, e) = <<e>>
      BY MoreEvents
    <3>6. ~Unheard(r)
      BY <2>4, <3>2 DEF Unheard
    <3>7. \A j \in Keys : r \in client.listeners[j] => j = k
      BY <2>4, <3>2 DEF BaseInv, ReadPart, ListensOnce
    <3>8. \A j \in Keys : r \notin d.listeners[j]
      BY <2>1, <2>4, <3>7
    <3> QED
      BY <3>3, <3>4, <3>5, <3>6, <3>8
  <2> QED
    BY <2>1, <2>2, <2>3, <2>5, <2>6, <2>7, QuietStep DEF d
<1> QED
  BY <1>1, <1>2

\* Any client is like itself.
LEMMA SameStates ==
  ASSUME NEW c \in Clients
  PROVE  OnlyStates(c, c)
  BY DEF OnlyStates, StreamOnly, Frame

\* A message of the backend is read.
LEMMA OnStreamReadStep ==
  ASSUME BaseInv, OnStreamRead
  PROVE  BaseInv'
<1> DEFINE m == Head(client.stream.received)
           c == UpdateState([client EXCEPT !.stream.received = Tail(@)], "Online")
<1>1. client \in Clients /\ StreamPart(client)
  BY DEF BaseInv
<1>2. /\ client.stream.received # <<>>
      /\ Run(OnWatchStreamChange([client EXCEPT !.stream.received = Tail(@)], m))
      /\ UNCHANGED <<workQ, muted, answered, asked>>
  BY DEF OnStreamRead
<1>3. Reading(client, c) /\ StreamPart(c) /\ TrackerPart(c)
  BY <1>1, <1>2, ReadingFields
<1>4. m \in Messages
  BY <1>1, <1>2, ReceivedFields
<1>5. c \in Clients
  BY <1>3 DEF Reading
<1>6. Run(CASE m.kind = "added"    -> Added(c, m.key)
            [] m.kind = "removed"  -> Removed(c, m.key)
            [] m.kind = "current"  -> Current(c, m.key)
            [] m.kind = "doc"      -> Document(c, m.key, m.v)
            [] m.kind = "error"    -> TargetError(c, m.key)
            [] m.kind = "snapshot" -> Snapshot(c, m.tokens))
  BY <1>2 DEF OnWatchStreamChange
<1> HIDE DEF c, m
<1>7. CASE m.kind = "added"
  <2>1. Run(Added(c, m.key)) /\ m.key \in Keys
    BY <1>4, <1>6, <1>7 DEF Messages
  <2>2. OnlyStates(c, Added(c, m.key))
    BY <1>5, <2>1, AddedFields DEF BecomesState
  <2> QED
    BY <1>2, <1>3, <2>1, <2>2, StatesStep
<1>8. CASE m.kind = "removed"
  <2>1. Run(Removed(c, m.key)) /\ m.key \in Keys
    BY <1>4, <1>6, <1>8 DEF Messages
  <2>2. OnlyStates(c, Removed(c, m.key))
    BY <1>5, <2>1, RemovedFields DEF BecomesState
  <2> QED
    BY <1>2, <1>3, <2>1, <2>2, StatesStep
<1>9. CASE m.kind = "current"
  <2>1. Run(Current(c, m.key)) /\ m.key \in Keys
    BY <1>4, <1>6, <1>9 DEF Messages
  <2>2. OnlyStates(c, Current(c, m.key))
    BY <1>5, <2>1, CurrentFields, SameStates DEF BecomesState
  <2> QED
    BY <1>2, <1>3, <2>1, <2>2, StatesStep
<1>10. CASE m.kind = "doc"
  <2>1. Run(Document(c, m.key, m.v)) /\ m.key \in Keys /\ m.v \in Nat
    BY <1>4, <1>6, <1>10 DEF Messages
  <2>2. OnlyStates(c, Document(c, m.key, m.v))
    BY <1>5, <2>1, DocumentFields, SameStates DEF BecomesState
  <2> QED
    BY <1>2, <1>3, <2>1, <2>2, StatesStep
<1>11. CASE m.kind = "error"
  <2>1. Run(TargetError(c, m.key)) /\ m.key \in Keys
    BY <1>4, <1>6, <1>11 DEF Messages
  <2> QED
    BY <1>2, <1>3, <2>1, TargetErrorStep
<1>12. CASE m.kind = "snapshot"
  <2>1. Run(Snapshot(c, m.tokens)) /\ m.tokens \in [Keys -> Nat]
    BY <1>4, <1>6, <1>12 DEF Messages
  <2> QED
    BY <1>2, <1>3, <2>1, SnapshotStep
<1>13. m.kind \in {"added", "removed", "current", "doc", "error", "snapshot"}
  BY <1>4 DEF Messages
<1> QED
  BY <1>7, <1>8, <1>9, <1>10, <1>11, <1>12, <1>13

-----------------------------------------------------------------------------
(* Steps of the app and of the backend.                                    *)

\* The app asks for a document.
LEMMA GetDocumentStep ==
  ASSUME BaseInv, NEW r \in Reads, NEW k \in Keys, GetDocument(r, k)
  PROVE  BaseInv'
<1> DEFINE w == [op |-> "listen", read |-> r, key |-> k]
<1>1. /\ r \notin asked
      /\ asked' = asked \cup {r}
      /\ workQ' = Append(workQ, w)
      /\ UNCHANGED <<client, events, muted, answered>>
  BY DEF GetDocument, readVars
<1>2. w \in Operations /\ w.op = "listen" /\ w.read = r
  BY DEF Operations
<1> HIDE DEF w
<1>3. ReadPart
  BY DEF BaseInv
<1>4. workQ \in Seq(Operations)
  BY <1>3 DEF ReadPart, ReadTypes
<1>5. /\ workQ' \in Seq(Operations)
      /\ Len(workQ') = Len(workQ) + 1
      /\ \A i \in 1..Len(workQ) : workQ'[i] = workQ[i]
      /\ workQ'[Len(workQ) + 1] = w
      /\ Len(workQ) \in Nat
  BY <1>1, <1>2, <1>4
<1>6. ReadTypes'
  BY <1>1, <1>3, <1>5 DEF ReadPart, ReadTypes
<1>7. \A x : Untold(x)' <=> Untold(x)
  BY <1>1 DEF Untold, Unheard
<1>8. Untold(r) /\ \A i \in 1..Len(workQ) : ~Listens(workQ[i], r)
  BY <1>1, <1>3 DEF ReadPart, ListensOnce
<1>9. \A i \in 1..Len(workQ') : (i \in 1..Len(workQ) /\ workQ'[i] = workQ[i]) \/ i = Len(workQ) + 1
  BY <1>5
<1>10. ListensOnce'
  <2>1. ASSUME NEW x \in Reads \ asked'
        PROVE  Untold(x)' /\ \A i \in 1..Len(workQ') : ~Listens(workQ'[i], x)
    <3>1. x \in Reads \ asked /\ x # r
      BY <1>1
    <3>2. Untold(x) /\ \A i \in 1..Len(workQ) : ~Listens(workQ[i], x)
      BY <1>3, <3>1 DEF ReadPart, ListensOnce
    <3>3. ~Listens(w, x)
      BY <1>2, <3>1 DEF Listens
    <3> QED
      BY <1>5, <1>7, <1>9, <3>2, <3>3
  <2>2. ASSUME NEW i \in 1..Len(workQ'), workQ'[i].op = "listen"
        PROVE  Untold(workQ[i].read)'
    <3>1. PICK x : x = workQ'[i].read
      OBVIOUS
    <3>2. Untold(x)
      <4>1. CASE i \in 1..Len(workQ) /\ workQ'[i] = workQ[i]
        BY <1>3, <2>2, <3>1, <4>1 DEF ReadPart, ListensOnce
      <4>2. CASE i = Len(workQ) + 1
        BY <1>2, <1>5, <1>8, <3>1, <4>2
      <4> QED
        BY <1>9, <4>1, <4>2
    <3> QED
      BY <1>7, <3>1, <3>2 DEF Untold, Unheard
  <2>3. ASSUME NEW i \in 1..Len(workQ'), NEW j \in 1..Len(workQ'),
               workQ'[i].op = "listen", Listens(workQ'[j], workQ'[i].read)
        PROVE  i = j
    <3>1. CASE i \in 1..Len(workQ) /\ j \in 1..Len(workQ)
      BY <1>3, <1>5, <2>3, <3>1 DEF ReadPart, ListensOnce
    <3>2. CASE i = Len(workQ) + 1 /\ j \in 1..Len(workQ)
      <4>1. Listens(workQ[j], r)
        BY <1>2, <1>5, <2>3, <3>2
      <4> QED
        BY <1>8, <3>2, <4>1
    <3>3. CASE j = Len(workQ) + 1 /\ i \in 1..Len(workQ)
      <4>1. Listens(workQ[i], r)
        BY <1>2, <1>5, <2>3, <3>3 DEF Listens
      <4> QED
        BY <1>8, <3>3, <4>1
    <3> QED
      BY <1>9, <3>1, <3>2, <3>3
  <2>4. \A x \in Reads : \A i, j \in Keys :
          x \in client'.listeners[i] /\ x \in client'.listeners[j] => i = j
    BY <1>1, <1>3 DEF ReadPart, ListensOnce
  <2> QED
    BY <2>1, <2>2, <2>3, <2>4 DEF ListensOnce
<1>11. ErrorIsLast'
  BY <1>1, <1>3 DEF ReadPart, ErrorIsLast, Unheard
<1>12. CalledIsOver'
  BY <1>1, <1>3 DEF ReadPart, CalledIsOver, Unheard
<1> QED
  BY <1>1, <1>3, <1>6, <1>10, <1>11, <1>12 DEF BaseInv, ReadPart

\* The events left to a read after the first was taken.
LEMMA TailEvents ==
  ASSUME NEW q \in Seq(Raised), q # <<>>
  PROVE  /\ Tail(q) \in Seq(Raised)
         /\ Len(Tail(q)) = Len(q) - 1
         /\ Len(q) \in Nat \ {0}
         /\ \A i \in 1..Len(Tail(q)) : Tail(q)[i] = q[i + 1] /\ i + 1 \in 1..Len(q)
         /\ Head(q) = q[1]
         /\ Head(q) \in Raised
         /\ 1 \in 1..Len(q)
         /\ Len(q) = 1 => Tail(q) = <<>>
<1> HIDE DEF Raised
<1>1. /\ Tail(q) \in Seq(Raised)
      /\ Len(Tail(q)) = Len(q) - 1
      /\ Len(q) \in Nat \ {0}
      /\ \A i \in 1..Len(Tail(q)) : Tail(q)[i] = q[i + 1] /\ i + 1 \in 1..Len(q)
      /\ Head(q) = q[1]
      /\ Head(q) \in Raised
      /\ 1 \in 1..Len(q)
  OBVIOUS
<1>2. Len(q) = 1 => Tail(q) = <<>>
  BY <1>1, EmptySeq
<1> QED
  BY <1>1, <1>2

\* A listener's event reaches the app's thread.
LEMMA OnEventStep ==
  ASSUME BaseInv, NEW r \in Reads, OnEvent(r)
  PROVE  BaseInv'
<1> DEFINE e == Head(events[r])
           w == [op |-> "remove", read |-> r, key |-> e.key]
<1>1. ReadPart
  BY DEF BaseInv
<1>2. /\ workQ \in Seq(Operations)
      /\ events \in [Reads -> Seq(Raised)]
      /\ muted \subseteq Reads
      /\ answered \in [Reads -> Nat]
  BY <1>1 DEF ReadPart, ReadTypes
<1>3. /\ events[r] # <<>>
      /\ events' = [events EXCEPT ![r] = Tail(@)]
      /\ client' = client
      /\ asked' = asked
      /\ \/ r \in muted /\ UNCHANGED <<workQ, muted, answered>>
         \/ /\ r \notin muted
            /\ answered' = [answered EXCEPT ![r] = @ + 1]
            /\ e.kind = "error"
            /\ UNCHANGED <<workQ, muted>>
         \/ /\ r \notin muted
            /\ answered' = [answered EXCEPT ![r] = @ + 1]
            /\ e.kind = "value"
            /\ muted' = muted \cup {r}
            /\ workQ' = Append(workQ, w)
  BY DEF OnEvent
<1>4. /\ Tail(events[r]) \in Seq(Raised)
      /\ Len(Tail(events[r])) = Len(events[r]) - 1
      /\ Len(events[r]) \in Nat \ {0}
      /\ \A i \in 1..Len(Tail(events[r])) : /\ Tail(events[r])[i] = events[r][i + 1]
                                            /\ i + 1 \in 1..Len(events[r])
      /\ e = events[r][1]
      /\ e \in Raised
      /\ Len(events[r]) = 1 => Tail(events[r]) = <<>>
  BY <1>2, <1>3, TailEvents
<1>5. w \in Operations /\ w.op = "remove"
  BY <1>4 DEF Operations, Raised
<1> HIDE DEF e, w
<1>6. \/ workQ' = workQ
      \/ workQ' = Append(workQ, w)
  BY <1>3
<1>7. /\ workQ' \in Seq(Operations)
      /\ Len(workQ) <= Len(workQ')
      /\ Len(workQ) \in Nat
      /\ Len(workQ') \in Nat
      /\ \A i \in 1..Len(workQ') : \/ i \in 1..Len(workQ) /\ workQ'[i] = workQ[i]
                                   \/ workQ'[i].op = "remove"
  <2>1. CASE workQ' = workQ
    BY <1>2, <2>1
  <2>2. CASE workQ' = Append(workQ, w)
    <3>1. /\ workQ' \in Seq(Operations)
          /\ Len(workQ') = Len(workQ) + 1
          /\ Len(workQ) \in Nat
          /\ \A i \in 1..Len(workQ) : workQ'[i] = workQ[i]
          /\ workQ'[Len(workQ) + 1] = w
      BY <1>2, <1>5, <2>2
    <3> QED
      BY <1>5, <3>1
  <2> QED
    BY <1>6, <2>1, <2>2
<1>8. events' \in [Reads -> Seq(Raised)]
  BY <1>2, <1>3, <1>4
<1>9. answered' \in [Reads -> Nat] /\ muted' \subseteq Reads
  <2>1. answered[r] + 1 \in Nat
    BY <1>2
  <2>2. answered' = answered \/ answered' = [answered EXCEPT ![r] = answered[r] + 1]
    BY <1>3
  <2>3. muted' = muted \/ muted' = muted \cup {r}
    BY <1>3
  <2> QED
    BY <1>2, <2>1, <2>2, <2>3
<1>10. ReadTypes'
  BY <1>1, <1>3, <1>7, <1>8, <1>9 DEF ReadPart, ReadTypes
<1>11. \A x \in Reads \ {r} : /\ events'[x] = events[x]
                              /\ answered'[x] = answered[x]
                              /\ x \in muted => x \in muted'
                              /\ x \in muted' => x \in muted
  BY <1>2, <1>3
<1>12. \A x \in Reads : Unheard(x) => Unheard(x)'
  BY <1>3 DEF Unheard
<1>13. ~Untold(r)
  BY <1>3 DEF Untold
<1>14. \A x \in Reads : Untold(x) => Untold(x)'
  <2> SUFFICES ASSUME NEW x \in Reads, Untold(x) PROVE Untold(x)'
    OBVIOUS
  <2>1. x # r
    BY <1>13
  <2>2. events[x] = <<>> /\ x \notin muted /\ answered[x] = 0 /\ Unheard(x)
    BY DEF Untold
  <2>3. events'[x] = <<>> /\ x \notin muted' /\ answered'[x] = 0 /\ Unheard(x)'
    BY <1>11, <1>12, <2>1, <2>2
  <2> QED
    BY <2>3 DEF Untold
<1>15. ListensOnce'
  <2>1. ASSUME NEW x \in Reads \ asked'
        PROVE  Untold(x)' /\ \A i \in 1..Len(workQ') : ~Listens(workQ'[i], x)
    <3>1. Untold(x) /\ \A i \in 1..Len(workQ) : ~Listens(workQ[i], x)
      BY <1>1, <1>3 DEF ReadPart, ListensOnce
    <3> QED
      BY <1>7, <1>14, <3>1 DEF Listens
  <2>2. ASSUME NEW i \in 1..Len(workQ'), workQ'[i].op = "listen"
        PROVE  Untold(workQ[i].read)'
    <3>1. i \in 1..Len(workQ) /\ workQ'[i] = workQ[i]
      BY <1>7, <2>2
    <3>2. workQ[i] \in Operations
      BY <1>2, <3>1
    <3>3. PICK x \in Reads : x = workQ[i].read
      BY <3>2 DEF Operations
    <3>4. Untold(x)'
      BY <1>1, <1>14, <2>2, <3>1, <3>3 DEF ReadPart, ListensOnce
    <3> QED
      BY <3>1, <3>3, <3>4 DEF Untold, Unheard
  <2>3. ASSUME NEW i \in 1..Len(workQ'), NEW j \in 1..Len(workQ'),
               workQ'[i].op = "listen", Listens(workQ'[j], workQ'[i].read)
        PROVE  i = j
    BY <1>1, <1>7, <2>3 DEF ReadPart, ListensOnce, Listens
  <2>4. \A x \in Reads : \A i, j \in Keys :
          x \in client'.listeners[i] /\ x \in client'.listeners[j] => i = j
    BY <1>1, <1>3 DEF ReadPart, ListensOnce
  <2> QED
    BY <2>1, <2>2, <2>3, <2>4 DEF ListensOnce
<1>16. events'[r] = Tail(events[r])
  BY <1>2, <1>3
<1>17. ErrorIsLast'
  <2> SUFFICES ASSUME NEW x \in Reads, NEW i \in 1..Len(events'[x]), events'[x][i].kind = "error"
               PROVE  i = Len(events'[x]) /\ Unheard(x)'
    BY DEF ErrorIsLast
  <2>1. CASE x # r
    BY <1>1, <1>3, <1>11, <2>1 DEF ReadPart, ErrorIsLast, Unheard
  <2>2. CASE x = r
    <3>1. events[r][i + 1].kind = "error" /\ i + 1 \in 1..Len(events[r])
      BY <1>4, <1>16, <2>2
    <3>2. i + 1 = Len(events[r]) /\ Unheard(r)
      BY <1>1, <3>1 DEF ReadPart, ErrorIsLast
    <3>3. i = Len(events'[r])
      BY <1>4, <1>16, <3>2
    <3> QED
      BY <1>12, <2>2, <3>2, <3>3
  <2> QED
    BY <2>1, <2>2
<1>18. CalledIsOver'
  <2> SUFFICES ASSUME NEW x \in Reads
               PROVE  /\ answered'[x] <= 1
                      /\ answered'[x] = 1 /\ x \notin muted' => events'[x] = <<>> /\ Unheard(x)'
    BY DEF CalledIsOver
  <2>1. CASE x # r
    <3>1. /\ answered[x] <= 1
          /\ answered[x] = 1 /\ x \notin muted => events[x] = <<>> /\ Unheard(x)
      BY <1>1 DEF ReadPart, CalledIsOver
    <3> QED
      BY <1>11, <1>12, <2>1, <3>1
  <2>2. CASE x = r /\ r \in muted
    BY <1>1, <1>3, <2>2 DEF ReadPart, CalledIsOver
  <2>3. CASE x = r /\ r \notin muted
    <3>1. answered[r] = 0
      BY <1>1, <1>2, <1>3, <2>3 DEF ReadPart, CalledIsOver
    <3>2. answered'[r] = 1
      BY <1>2, <1>3, <2>3, <3>1
    <3>3. ASSUME r \notin muted'
          PROVE  events'[r] = <<>> /\ Unheard(r)'
      <4>1. e.kind = "error"
        BY <1>3, <2>3, <3>3
      <4>2. Len(events[r]) = 1 /\ Unheard(r)
        <5>1. 1 \in 1..Len(events[r]) /\ events[r][1].kind = "error"
          BY <1>4, <4>1
        <5> QED
          BY <1>1, <5>1 DEF ReadPart, ErrorIsLast
      <4> QED
        BY <1>4, <1>12, <1>16, <4>2
    <3> QED
      BY <2>3, <3>2, <3>3
  <2> QED
    BY <2>1, <2>2, <2>3
<1>19. ReadPart'
  BY <1>1, <1>3, <1>10, <1>15, <1>17, <1>18 DEF ReadPart
<1> QED
  BY <1>3, <1>19 DEF BaseInv

\* What the backend keeps.
BackendTypes ==
  /\ doc \in [Keys -> Nat]
  /\ srv \in [Keys -> [on : BOOLEAN, current : BOOLEAN, known : Nat]]

\* The backend has sent m, and the requests for k are q: the client after Reply.
Replies(c, m, k, q) == [c EXCEPT !.stream.received = Append(@, m), !.stream.sent[k] = q]

\* How it differs from the client before.
Replied(c, d, m, k, q) ==
  /\ d \in Clients
  /\ d.stream.received = Append(c.stream.received, m)
  /\ d.stream.sent = [c.stream.sent EXCEPT ![k] = q]
  /\ d.stream.state = c.stream.state
  /\ d.stream.close = c.stream.close
  /\ d.stream.idle = c.stream.idle
  /\ d.stream.ok = c.stream.ok
  /\ d.tokens = c.tokens
  /\ d.online = c.online
  /\ d.failures = c.failures
  /\ d.timer = c.timer
  /\ d.states = c.states
  /\ StreamOnly(c, d)

\* A reply is put behind the messages on their way and takes the request it answers.
LEMMA ReplyFields ==
  ASSUME NEW c \in Clients, NEW m \in Messages, NEW k \in Keys, NEW q \in Seq(Requests)
  PROVE  Replied(c, Replies(c, m, k, q), m, k, q)
<1> DEFINE ms == Append(c.stream.received, m)
           qs == [c.stream.sent EXCEPT ![k] = q]
           s == [c.stream EXCEPT !.received = ms, !.sent = qs]
           d == Replies(c, m, k, q)
<1>1. c.stream \in Streams
  BY DEF Clients
<1>2. c.stream.received \in Seq(Messages) /\ c.stream.sent \in [Keys -> Seq(Requests)]
  BY <1>1 DEF Streams
<1>3. ms \in Seq(Messages)
  <2> HIDE DEF Messages
  <2> QED
    BY <1>2
<1>4. qs \in [Keys -> Seq(Requests)]
  <2> HIDE DEF Requests
  <2> QED
    BY <1>2
<1>5. d = [c EXCEPT !.stream = s]
  BY <1>1 DEF Replies, Clients, Streams
<1> HIDE DEF ms, qs, d
<1>6. /\ s \in Streams
      /\ s.received = ms
      /\ s.sent = qs
      /\ s.state = c.stream.state
      /\ s.close = c.stream.close
      /\ s.idle = c.stream.idle
      /\ s.ok = c.stream.ok
  BY <1>1, <1>3, <1>4 DEF Streams
<1> HIDE DEF s
<1>7. /\ d \in Clients
      /\ d.stream = s
      /\ d.tokens = c.tokens
      /\ d.online = c.online
      /\ d.failures = c.failures
      /\ d.timer = c.timer
      /\ d.states = c.states
      /\ StreamOnly(c, d)
  BY <1>5, <1>6, StreamFields DEF StreamOnly, Frame
<1> QED
  BY <1>6, <1>7 DEF ms, qs, d, Replied

\* A reply preserves the base invariant.
LEMMA ReplyStep ==
  ASSUME BaseInv, NEW m \in Messages, NEW k \in Keys, NEW q \in Seq(Requests), Reply(m, k, q)
  PROVE  BaseInv'
<1>1. client \in Clients /\ StreamPart(client) /\ TrackerPart(client) /\ Agree(client) /\ ReadPart
  BY DEF BaseInv
<1>2. /\ IsOpen(client.stream)
      /\ client' = Replies(client, m, k, q)
      /\ UNCHANGED <<workQ, events, muted, answered, asked>>
  BY DEF Reply, Replies, readVars
<1>3. /\ client' \in Clients
      /\ client'.stream.state = client.stream.state
      /\ client'.stream.close = client.stream.close
      /\ client'.stream.idle = client.stream.idle
      /\ client'.stream.ok = client.stream.ok
      /\ client'.tokens = client.tokens
      /\ client'.online = client.online
      /\ client'.failures = client.failures
      /\ client'.timer = client.timer
      /\ StreamOnly(client, client')
  <2>1. Replied(client, client', m, k, q)
    BY <1>1, <1>2, ReplyFields
  <2> QED
    BY <2>1 DEF Replied
<1>4. StreamPart(client')
  BY <1>1, <1>2, <1>3 DEF StreamPart, IsOpen, StreamOnly, Frame
<1>5. TrackerPart(client')
  BY <1>1, <1>3 DEF TrackerPart, IsStarted
<1>6. Agree(client')
  BY <1>1, <1>3 DEF Agree, StreamOnly, Frame
<1>7. client'.listeners = client.listeners /\ client'.out = client.out
  BY <1>3 DEF StreamOnly, Frame
<1>8. ReadTypes'
  BY <1>1, <1>2 DEF ReadPart, ReadTypes
<1>9. ListensOnce'
  <2>1. ListensOnce
    BY <1>1 DEF ReadPart
  <2>2. \A r \in Reads \ asked : Untold(r)' /\ \A i \in 1..Len(workQ') : ~Listens(workQ'[i], r)
    BY <1>2, <1>7, <2>1 DEF ListensOnce, Untold, Unheard
  <2>3. \A i \in 1..Len(workQ') : workQ'[i].op = "listen" => Untold(workQ[i].read)'
    BY <1>2, <1>7, <2>1 DEF ListensOnce, Untold, Unheard
  <2> QED
    BY <1>2, <1>7, <2>1, <2>2, <2>3 DEF ListensOnce
<1>10. ErrorIsLast'
  BY <1>1, <1>2, <1>7 DEF ReadPart, ErrorIsLast, Unheard
<1>11. CalledIsOver'
  BY <1>1, <1>2, <1>7 DEF ReadPart, CalledIsOver, Unheard
<1>12. ReadPart'
  BY <1>1, <1>7, <1>8, <1>9, <1>10, <1>11 DEF ReadPart
<1> QED
  BY <1>3, <1>4, <1>5, <1>6, <1>12 DEF BaseInv

\* The requests left after the first was handled.
LEMMA TailRequests ==
  ASSUME NEW c \in Clients, NEW k \in Keys
  PROVE  /\ c.stream.sent[k] \in Seq(Requests)
         /\ c.stream.sent[k] # <<>> =>
              /\ Tail(c.stream.sent[k]) \in Seq(Requests)
              /\ Head(c.stream.sent[k]) \in Requests
<1>1. c.stream.sent[k] \in Seq(Requests)
  BY DEF Clients, Streams
<1> HIDE DEF Requests
<1> QED
  BY <1>1

\* So does each step of the backend.
LEMMA ServerStep ==
  ASSUME BaseInv, BackendTypes, Server
  PROVE  BaseInv' /\ BackendTypes'
<1>1. client \in Clients
  BY DEF BaseInv
<1>2. PICK k \in Keys : \/ ServerWatches(k) \/ ServerRejects(k) \/ ServerUnwatches(k)
                        \/ ServerSendsDocument(k) \/ ServerIsCurrent(k) \/ ServerSnapshot(k)
  BY DEF Server
<1>3. client.stream.sent[k] \in Seq(Requests)
  BY <1>1, TailRequests
<1>4. client.stream.sent[k] # <<>> => /\ Tail(client.stream.sent[k]) \in Seq(Requests)
                                      /\ Head(client.stream.sent[k]).resume \in Nat
  BY <1>1, TailRequests DEF Requests
<1>5. CASE ServerWatches(k)
  <2>1. [kind |-> "added", key |-> k] \in Messages
    BY DEF Messages
  <2>2. BaseInv'
    BY <1>4, <1>5, <2>1, ReplyStep DEF ServerWatches
  <2>3. BackendTypes'
    BY <1>4, <1>5 DEF ServerWatches, BackendTypes
  <2> QED
    BY <2>2, <2>3
<1>6. CASE ServerRejects(k)
  <2>1. [kind |-> "error", key |-> k] \in Messages
    BY DEF Messages
  <2>2. BaseInv'
    BY <1>4, <1>6, <2>1, ReplyStep DEF ServerRejects
  <2>3. BackendTypes'
    BY <1>6 DEF ServerRejects, BackendTypes, serverVars
  <2> QED
    BY <2>2, <2>3
<1>7. CASE ServerUnwatches(k)
  <2>1. [kind |-> "removed", key |-> k] \in Messages
    BY DEF Messages
  <2>2. BaseInv'
    BY <1>4, <1>7, <2>1, ReplyStep DEF ServerUnwatches
  <2>3. BackendTypes'
    BY <1>7 DEF ServerUnwatches, BackendTypes, Off
  <2> QED
    BY <2>2, <2>3
<1>8. CASE ServerSendsDocument(k)
  <2>1. [kind |-> "doc", key |-> k, v |-> doc[k]] \in Messages
    BY DEF Messages, BackendTypes
  <2>2. BaseInv'
    BY <1>3, <1>8, <2>1, ReplyStep DEF ServerSendsDocument
  <2>3. BackendTypes'
    BY <1>8 DEF ServerSendsDocument, BackendTypes
  <2> QED
    BY <2>2, <2>3
<1>9. CASE ServerIsCurrent(k)
  <2>1. [kind |-> "current", key |-> k] \in Messages
    BY DEF Messages
  <2>2. BaseInv'
    BY <1>3, <1>9, <2>1, ReplyStep DEF ServerIsCurrent
  <2>3. BackendTypes'
    BY <1>9 DEF ServerIsCurrent, BackendTypes
  <2> QED
    BY <2>2, <2>3
<1>10. CASE ServerSnapshot(k)
  <2>1. [kind |-> "snapshot", tokens |-> [j \in Keys |-> srv[j].known]] \in Messages
    <3>1. [j \in Keys |-> srv[j].known] \in [Keys -> Nat]
      BY DEF BackendTypes
    <3> QED
      BY <3>1 DEF Messages
  <2>2. BaseInv'
    BY <1>3, <1>10, <2>1, ReplyStep DEF ServerSnapshot
  <2>3. BackendTypes'
    BY <1>10 DEF ServerSnapshot, BackendTypes
  <2> QED
    BY <2>2, <2>3
<1> QED
  BY <1>2, <1>5, <1>6, <1>7, <1>8, <1>9, <1>10

\* Nothing of what BaseInv speaks of changes.
LEMMA UnchangedStep ==
  ASSUME BaseInv, UNCHANGED <<client, workQ, events, muted, answered, asked>>
  PROVE  BaseInv'
<1>1. ReadTypes'
  BY DEF BaseInv, ReadPart, ReadTypes
<1>2. ListensOnce'
  BY DEF BaseInv, ReadPart, ListensOnce, Untold, Unheard
<1>3. ErrorIsLast'
  BY DEF BaseInv, ReadPart, ErrorIsLast, Unheard
<1>4. CalledIsOver'
  BY DEF BaseInv, ReadPart, CalledIsOver, Unheard
<1> QED
  BY <1>1, <1>2, <1>3, <1>4 DEF BaseInv, ReadPart

\* The base invariant holds at first.
LEMMA InitBase ==
  ASSUME Init
  PROVE  BaseInv /\ BackendTypes
<1> DEFINE s == [state |-> "Initial", close |-> 0, idle |-> FALSE, ok |-> TRUE,
                 sent |-> [k \in Keys |-> <<>>], received |-> <<>>]
<1>1. client = InitialClient
  BY DEF Init
<1>2. s \in Streams
  BY DEF Streams, States
<1>3. [k \in Keys |-> NoTarget] \in [Keys -> TargetStates]
  BY DEF NoTarget, TargetStates, Cached
<1>4. NoEvents \in [Reads -> Seq(Raised)]
  BY DEF NoEvents
<1>5. client = [stream |-> s, tokens |-> {}, online |-> "Unknown", failures |-> 0, timer |-> FALSE,
                targets |-> {}, states |-> [k \in Keys |-> NoTarget],
                listeners |-> [k \in Keys |-> {}], raised |-> {},
                current |-> [k \in Keys |-> FALSE], cache |-> [k \in Keys |-> Unknown],
                synced |-> [k \in Keys |-> FALSE], resume |-> [k \in Keys |-> 0],
                out |-> NoEvents]
  BY <1>1, Zenon DEF InitialClient
<1>6. s.ok /\ s.close = 0 /\ s.state = "Initial" /\ Silent(s)
  BY DEF Silent
<1> HIDE DEF s, NoEvents
<1>7. client \in Clients
  <2> HIDE DEF NoTarget
  <2> QED
    BY <1>2, <1>3, <1>4, <1>5 DEF Clients, Cached
<1>8. StreamPart(client)
  BY <1>5, <1>6 DEF StreamPart, NoStatesAtAll
<1>9. TrackerPart(client)
  BY <1>5 DEF TrackerPart
<1>10. Agree(client)
  BY <1>5 DEF Agree
<1>11. ReadTypes
  BY <1>4 DEF Init, ReadTypes
<1>12. client.out = NoEvents /\ client.listeners = [k \in Keys |-> {}]
  BY <1>5
<1>13. \A r \in Reads : Untold(r)
  BY <1>12 DEF Init, Untold, Unheard, NoEvents
<1>14. ListensOnce
  BY <1>12, <1>13 DEF Init, ListensOnce
<1>15. ErrorIsLast
  BY DEF Init, ErrorIsLast, NoEvents
<1>16. CalledIsOver
  BY DEF Init, CalledIsOver
<1>17. BackendTypes
  BY DEF Init, BackendTypes, Off
<1> QED
  BY <1>7, <1>8, <1>9, <1>10, <1>11, <1>12, <1>14, <1>15, <1>16, <1>17 DEF BaseInv, ReadPart

\* Every step preserves the base invariant.
LEMMA NextBase ==
  ASSUME BaseInv, BackendTypes, [Next]_vars
  PROVE  BaseInv' /\ BackendTypes'
<1>1. ASSUME NEW r \in Reads, NEW k \in Keys, GetDocument(r, k)
      PROVE  BaseInv' /\ BackendTypes'
  BY <1>1, GetDocumentStep DEF GetDocument, BackendTypes, serverVars
<1>2. ASSUME NEW r \in Reads, OnEvent(r)
      PROVE  BaseInv' /\ BackendTypes'
  BY <1>2, OnEventStep DEF OnEvent, BackendTypes, serverVars
<1>3. CASE RunOp
  BY <1>3, RunListenStep, RunRemoveStep DEF RunOp, BackendTypes, serverVars
<1>4. ASSUME NEW n \in client.tokens, ResumeStartWithCredentials(n)
      PROVE  BaseInv' /\ BackendTypes'
  BY <1>4, ResumeStartStep DEF ResumeStartWithCredentials, BackendTypes, Off
<1>5. ASSUME NEW n \in client.tokens, TokenFails(n)
      PROVE  BaseInv' /\ BackendTypes'
  BY <1>5, TokenFailsStep DEF TokenFails, BackendTypes, serverVars
<1>6. CASE BackoffTimeout
  BY <1>6, BackoffTimeoutStep DEF BackoffTimeout, BackendTypes, serverVars
<1>7. CASE IdleTimeout
  BY <1>7, IdleTimeoutStep DEF IdleTimeout, BackendTypes, serverVars
<1>8. CASE OnlineStateTimeout
  BY <1>8, OnlineStateTimeoutStep DEF OnlineStateTimeout, BackendTypes, serverVars
<1>9. CASE OnStreamRead
  BY <1>9, OnStreamReadStep DEF OnStreamRead, BackendTypes, serverVars
<1>10. CASE StreamFails
  BY <1>10, StreamFailsStep DEF StreamFails, BackendTypes, serverVars
<1>11. CASE RestartNetwork
  BY <1>11, RestartNetworkStep DEF RestartNetwork, BackendTypes, serverVars
<1>12. CASE Server
  BY <1>12, ServerStep
<1>13. ASSUME NEW k \in Keys, Change(k)
       PROVE  BaseInv' /\ BackendTypes'
  BY <1>13, UnchangedStep DEF Change, readVars, BackendTypes
<1>14. CASE UNCHANGED vars
  BY <1>14, UnchangedStep DEF vars, readVars, serverVars, BackendTypes
<1> QED
  BY <1>1, <1>2, <1>3, <1>4, <1>5, <1>6, <1>7, <1>8, <1>9, <1>10, <1>11, <1>12, <1>13, <1>14
     DEF Next, Tokens

-----------------------------------------------------------------------------
(* LayersAgree, NoAssertFails and OneCallback.                             *)

\* BaseInv is inductive, with the types of what the backend keeps.
THEOREM BaseInvariance == Spec => [](BaseInv /\ BackendTypes)
<1>1. Init => BaseInv /\ BackendTypes
  BY InitBase
<1>2. BaseInv /\ BackendTypes /\ [Next]_vars => (BaseInv /\ BackendTypes)'
  BY NextBase
<1> QED
  BY <1>1, <1>2, PTL DEF Spec

\* EventManager, SyncEngine and RemoteStore agree on what is listened to, whatever
\* reads, removals, refusals and ends of the stream meet.
THEOREM LayersAlwaysAgree == Spec => []LayersAgree
<1>1. BaseInv => LayersAgree
  BY DEF BaseInv, Agree, LayersAgree
<1> QED
  BY <1>1, BaseInvariance, PTL

\* No HARD_ASSERT of the stream, the online state tracker and the remote store fails.
THEOREM AssertsHold == Spec => []NoAssertFails
<1>1. BaseInv => NoAssertFails
  BY DEF BaseInv, StreamPart, NoAssertFails
<1> QED
  BY <1>1, BaseInvariance, PTL

\* The callback of getDocument is called at most once.
THEOREM CalledBackOnce == Spec => []OneCallback
<1>1. BaseInv => OneCallback
  BY DEF BaseInv, ReadPart, CalledIsOver, OneCallback
<1> QED
  BY <1>1, BaseInvariance, PTL

-----------------------------------------------------------------------------
(* What messages say about one document k.                                 *)

\* Message m answers a request about k, refuses to watch k, or brings a version of k.
Answer(m, k) == m.kind \in {"added", "removed", "error"} /\ m.key = k
Refuses(m, k) == m.kind = "error" /\ m.key = k
Carries(m, k) == m.kind = "doc" /\ m.key = k

\* From place i on, the messages q hold no answer about k.
QuietFrom(q, i, k) == \A j \in i..Len(q) : ~Answer(q[j], k)

\* The stream is to deliver k, and no request about k is out or refused.
Watched(c, k) ==
  /\ IsOpen(c.stream)
  /\ k \in c.targets
  /\ c.stream.sent[k] = <<>>
  /\ \A j \in 1..Len(c.stream.received) : ~Refuses(c.stream.received[j], k)

\* Version v of k is in the cache, with the aggregator, or in a message before place
\* i which the aggregator will take.
Reaches(c, k, i, v) ==
  \/ v = 0
  \/ c.synced[k] /\ v <= Shown(c.cache[k])
  \/ /\ QuietFrom(c.stream.received, 1, k)
     /\ c.states[k].added
     /\ c.states[k].update # Unknown
     /\ v <= c.states[k].update
  \/ \E j \in 1..i-1 :
       /\ Carries(c.stream.received[j], k)
       /\ v <= c.stream.received[j].v
       /\ QuietFrom(c.stream.received, j, k)

\* Nothing known of k, or to be known from messages before place i, is newer than v.
Newest(c, k, i, v) ==
  /\ Shown(c.cache[k]) <= v
  /\ c.states[k].update # Unknown => c.states[k].update <= v
  /\ \A j \in 1..i-1 : Carries(c.stream.received[j], k) => c.stream.received[j].v <= v

-----------------------------------------------------------------------------
(* The inductive invariant of SyncedIsFresh and NoLimbo, for one document  *)
(* k: c is the client, v the document's version, s the backend's view of   *)
(* the target, n the version when listening began, and ls the documents of *)
(* which the aggregator has lost count.                                    *)

\* Versions come from the backend, one after the other.
Ordered(c, k, v, n) ==
  LET q == c.stream.received
      u == c.states[k].update
  IN  /\ n <= v
      /\ Newest(c, k, Len(q) + 1, v)
      /\ u # Unknown => u > 0 /\ \A i \in 1..Len(q) : Carries(q[i], k) => u <= q[i].v
      /\ \A i \in 1..Len(q) : Carries(q[i], k) => q[i].v > 0
      /\ \A i, j \in 1..Len(q) : i < j /\ Carries(q[i], k) /\ Carries(q[j], k) => q[i].v <= q[j].v

\* The version from which the backend is asked to go on is in the cache.
CanResume(c, k, v) == v = 0 \/ (c.synced[k] /\ v <= Shown(c.cache[k]))

Resumable(c, k, ls) ==
  k \notin ls =>
    /\ CanResume(c, k, c.resume[k])
    /\ \A i \in 1..Len(c.stream.sent[k]) : CanResume(c, k, c.stream.sent[k][i].resume)

\* The aggregator waits for no fewer answers than are due.
Counted(c, k, ls) == k \notin ls => c.states[k].pending >= Due(c, k)

Exact(c, k, ls) == k \notin ls /\ c.states[k].pending = Due(c, k)

\* The last request for a document that is listened to is to watch it, and when it
\* was handled the backend does.
Served(c, k, s) ==
  LET q == c.stream.sent[k]
  IN  /\ k \in c.targets /\ q # <<>> => q[Len(q)].op = "watch"
      /\ Watched(c, k) => s.on

\* What the backend believes the client to have.
Knows(c, k, s, n, ls) ==
  LET i == Len(c.stream.received) + 1
  IN  Watched(c, k) =>
        /\ s.current => n <= s.known /\ Newest(c, k, i, s.known)
        /\ Exact(c, k, ls) => Reaches(c, k, i, s.known)

\* What a snapshot on its way says of k.
Told(c, k, n, ls) ==
  LET q == c.stream.received
  IN  \A i \in 1..Len(q) :
        q[i].kind = "snapshot" /\ QuietFrom(q, i, k) /\ Watched(c, k) =>
          /\ n <= q[i].tokens[k]
          /\ Newest(c, k, i, q[i].tokens[k])
          /\ Exact(c, k, ls) => Reaches(c, k, i, q[i].tokens[k])

\* An update that waits for the next snapshot of a synced view will be applied to it.
Applicable(c, k, ls) ==
  k \notin ls /\ c.current[k] /\ c.states[k].update # Unknown =>
    c.states[k].pending = 0 /\ c.states[k].added

\* SyncedIsFresh and NoLimbo.
FreshView(c, k, n, ls) ==
  k \notin ls /\ c.current[k] =>
    /\ n <= Shown(c.cache[k])
    /\ Shown(c.cache[k]) > 0 => c.synced[k]

FreshAt(c, k, v, s, n, ls) ==
  /\ Ordered(c, k, v, n)
  /\ Resumable(c, k, ls)
  /\ Counted(c, k, ls)
  /\ Served(c, k, s)
  /\ Knows(c, k, s, n, ls)
  /\ Told(c, k, n, ls)
  /\ Applicable(c, k, ls)
  /\ FreshView(c, k, n, ls)

FreshInv == \A k \in Keys : FreshAt(client, k, doc[k], srv[k], since[k], lost)

-----------------------------------------------------------------------------
(* Counting answers.                                                       *)

Answers(q, k) == {i \in 1..Len(q) : Answer(q[i], k)}

\* A stream holds finitely many answers, and none exactly when it is quiet.
LEMMA AnswersFinite ==
  ASSUME NEW q \in Seq(Messages), NEW k
  PROVE  /\ IsFiniteSet(Answers(q, k))
         /\ Cardinality(Answers(q, k)) \in Nat
         /\ Cardinality(Answers(q, k)) = 0 <=> QuietFrom(q, 1, k)
<1>1. Len(q) \in Nat
  OBVIOUS
<1>2. IsFiniteSet(1..Len(q))
  BY <1>1, FS_Interval
<1>3. Answers(q, k) \in SUBSET (1..Len(q))
  BY DEF Answers
<1>4. IsFiniteSet(Answers(q, k))
  BY <1>2, <1>3, FS_Subset
<1>5. Cardinality(Answers(q, k)) \in Nat
  BY <1>4, FS_CardinalityType
<1>6. Cardinality(Answers(q, k)) = 0 <=> Answers(q, k) = {}
  BY <1>4, FS_EmptySet
<1>7. Answers(q, k) = {} <=> QuietFrom(q, 1, k)
  BY DEF Answers, QuietFrom
<1> QED
  BY <1>4, <1>5, <1>6, <1>7

\* A message sent adds one answer when it is one.
LEMMA AnswersAppend ==
  ASSUME NEW q \in Seq(Messages), NEW m \in Messages, NEW k
  PROVE  Cardinality(Answers(Append(q, m), k))
           = Cardinality(Answers(q, k)) + IF Answer(m, k) THEN 1 ELSE 0
<1> DEFINE p == Append(q, m)
           n == Len(q) + 1
<1>1. /\ Len(p) = n
      /\ \A i \in 1..Len(q) : p[i] = q[i]
      /\ p[n] = m
      /\ Len(q) \in Nat
  <2> HIDE DEF Messages
  <2> QED
    OBVIOUS
<1> HIDE DEF p
<1>2. IsFiniteSet(Answers(q, k)) /\ n \notin Answers(q, k)
  <2>1. IsFiniteSet(Answers(q, k))
    BY AnswersFinite
  <2>2. n \notin 1..Len(q)
    BY <1>1
  <2> QED
    BY <2>1, <2>2 DEF Answers
<1>3. CASE Answer(m, k)
  <2>1. Answers(p, k) = Answers(q, k) \cup {n}
    BY <1>1, <1>3 DEF Answers
  <2>2. Cardinality(Answers(q, k) \cup {n}) = Cardinality(Answers(q, k)) + 1
    BY <1>2, FS_AddElement
  <2> QED
    BY <1>3, <2>1, <2>2 DEF p
<1>4. CASE ~Answer(m, k)
  <2>1. Answers(p, k) = Answers(q, k)
    BY <1>1, <1>4 DEF Answers
  <2>2. Cardinality(Answers(q, k)) \in Nat
    BY AnswersFinite
  <2> QED
    BY <1>4, <2>1, <2>2 DEF p
<1> QED
  BY <1>3, <1>4

\* The messages left after the first was taken.
LEMMA TailMessages ==
  ASSUME NEW q \in Seq(Messages), q # <<>>
  PROVE  /\ Tail(q) \in Seq(Messages)
         /\ Len(Tail(q)) = Len(q) - 1
         /\ Len(q) \in Nat \ {0}
         /\ \A i \in 1..Len(Tail(q)) : Tail(q)[i] = q[i + 1] /\ i + 1 \in 1..Len(q)
         /\ Head(q) = q[1]
         /\ Head(q) \in Messages
         /\ 1 \in 1..Len(q)
<1> HIDE DEF Messages
<1> QED
  OBVIOUS

\* A message taken removes one answer when it is one.
LEMMA AnswersTail ==
  ASSUME NEW q \in Seq(Messages), q # <<>>, NEW k
  PROVE  Cardinality(Answers(q, k))
           = Cardinality(Answers(Tail(q), k)) + IF Answer(Head(q), k) THEN 1 ELSE 0
<1> DEFINE p == Tail(q)
           S == Answers(p, k)
           T == Answers(q, k) \ {1}
           f == [i \in S |-> i + 1]
<1>1. /\ p \in Seq(Messages)
      /\ Len(p) = Len(q) - 1
      /\ Len(q) \in Nat \ {0}
      /\ \A i \in 1..Len(p) : p[i] = q[i + 1] /\ i + 1 \in 1..Len(q)
      /\ Head(q) = q[1]
      /\ 1 \in 1..Len(q)
  BY TailMessages
<1> HIDE DEF p
<1>2. f \in [S -> T]
  BY <1>1 DEF Answers
<1>3. \A a, b \in S : f[a] = f[b] => a = b
  BY <1>1 DEF Answers
<1>4. \A t \in T : \E s \in S : f[s] = t
  <2> SUFFICES ASSUME NEW t \in T PROVE \E s \in S : f[s] = t
    OBVIOUS
  <2>1. t - 1 \in 1..Len(p) /\ t = (t - 1) + 1
    BY <1>1 DEF Answers
  <2>2. p[t - 1] = q[t]
    BY <1>1, <2>1
  <2>3. t - 1 \in S
    BY <2>1, <2>2 DEF Answers
  <2> QED
    BY <2>1, <2>3
<1>5. f \in Bijection(S, T)
  BY <1>2, <1>3, <1>4, Fun_IsBij
<1>6. IsFiniteSet(S) /\ Cardinality(S) \in Nat
  BY <1>1, AnswersFinite
<1>7. Cardinality(T) = Cardinality(S)
  <2>1. ExistsBijection(S, T)
    BY <1>5 DEF ExistsBijection
  <2> QED
    BY <1>6, <2>1, FS_Bijection
<1>8. /\ IsFiniteSet(Answers(q, k))
      /\ Cardinality(Answers(q, k)) \in Nat
  BY AnswersFinite
<1>9. Cardinality(T) = IF 1 \in Answers(q, k) THEN Cardinality(Answers(q, k)) - 1
                       ELSE Cardinality(Answers(q, k))
  BY <1>8, FS_RemoveElement
<1>10. 1 \in Answers(q, k) <=> Answer(Head(q), k)
  BY <1>1 DEF Answers
<1> HIDE DEF S, T
<1>11. Cardinality(Answers(q, k)) = Cardinality(S) + IF Answer(Head(q), k) THEN 1 ELSE 0
  BY <1>6, <1>7, <1>8, <1>9, <1>10
<1> QED
  BY <1>11 DEF S, p

\* What is due is a number; it is none when nothing is asked and nothing on its way.
LEMMA DueFields ==
  ASSUME NEW c \in Clients, NEW k \in Keys
  PROVE  /\ Due(c, k) = Len(c.stream.sent[k]) + Cardinality(Answers(c.stream.received, k))
         /\ Due(c, k) \in Nat
         /\ Len(c.stream.sent[k]) \in Nat
         /\ Cardinality(Answers(c.stream.received, k)) \in Nat
         /\ Due(c, k) = 0 => c.stream.sent[k] = <<>> /\ QuietFrom(c.stream.received, 1, k)
         /\ c.stream.sent[k] = <<>> /\ QuietFrom(c.stream.received, 1, k) => Due(c, k) = 0
<1>1. c.stream.received \in Seq(Messages)
  BY DEF Clients, Streams
<1>2. c.stream.sent[k] \in Seq(Requests)
  BY TailRequests
<1>3. Len(c.stream.sent[k]) \in Nat /\ (Len(c.stream.sent[k]) = 0 <=> c.stream.sent[k] = <<>>)
  BY <1>2, EmptySeq
<1>4. /\ Cardinality(Answers(c.stream.received, k)) \in Nat
      /\ Cardinality(Answers(c.stream.received, k)) = 0 <=> QuietFrom(c.stream.received, 1, k)
  BY <1>1, AnswersFinite
<1>5. DOMAIN c.stream.received = 1..Len(c.stream.received)
  BY <1>1
<1>6. {i \in DOMAIN c.stream.received : /\ c.stream.received[i].kind \in {"added", "removed", "error"}
                                        /\ c.stream.received[i].key = k}
        = Answers(c.stream.received, k)
  BY <1>5 DEF Answers, Answer
<1>7. Due(c, k) = Len(c.stream.sent[k]) + Cardinality(Answers(c.stream.received, k))
  BY <1>6 DEF Due
<1> QED
  BY <1>3, <1>4, <1>7

-----------------------------------------------------------------------------
(* What one document's part of the client may do.                          *)

\* What a message carries, by its kind.
LEMMA MessageTypes ==
  ASSUME NEW m \in Messages, NEW k \in Keys
  PROVE  /\ Carries(m, k) => m.v \in Nat /\ ~Answer(m, k) /\ m.kind # "snapshot"
         /\ m.kind = "snapshot" => m.tokens[k] \in Nat /\ ~Answer(m, k)
         /\ Refuses(m, k) => Answer(m, k)
  BY DEF Messages, Carries, Answer, Refuses

\* A version that is known is shown as it is.
LEMMA ShownType ==
  ASSUME NEW v \in Cached
  PROVE  Shown(v) \in Nat /\ (v # Unknown => v \in Nat /\ Shown(v) = v)
  BY DEF Cached, Shown

\* The types of one document's part of the client.
LEMMA KeyTypes ==
  ASSUME NEW c \in Clients, NEW k \in Keys
  PROVE  /\ c.stream.received \in Seq(Messages)
         /\ Len(c.stream.received) \in Nat
         /\ \A i \in 1..Len(c.stream.received) : c.stream.received[i] \in Messages
         /\ c.stream.sent[k] \in Seq(Requests)
         /\ c.states[k].pending \in Int
         /\ c.states[k].added \in BOOLEAN
         /\ c.states[k].update \in Cached
         /\ c.states[k].update # Unknown => c.states[k].update \in Nat
         /\ c.cache[k] \in Cached
         /\ Shown(c.cache[k]) \in Nat
         /\ c.synced[k] \in BOOLEAN
         /\ c.current[k] \in BOOLEAN
         /\ c.resume[k] \in Nat
<1>1. c.stream \in Streams
  BY DEF Clients
<1>2. c.stream.received \in Seq(Messages)
  BY <1>1 DEF Streams
<1>3. /\ Len(c.stream.received) \in Nat
      /\ \A i \in 1..Len(c.stream.received) : c.stream.received[i] \in Messages
  <2> HIDE DEF Messages
  <2> QED
    BY <1>2
<1>4. c.states[k] \in TargetStates /\ c.cache[k] \in Cached
  BY DEF Clients
<1>5. /\ c.states[k].pending \in Int
      /\ c.states[k].added \in BOOLEAN
      /\ c.states[k].update \in Cached
  BY <1>4 DEF TargetStates
<1>6. /\ c.synced[k] \in BOOLEAN
      /\ c.current[k] \in BOOLEAN
      /\ c.resume[k] \in Nat
  BY DEF Clients
<1> QED
  BY <1>2, <1>3, <1>4, <1>5, <1>6, TailRequests, ShownType

\* The cache of k, and the request for it that would be sent.
SameCache(c, d, k) ==
  /\ d.cache[k] = c.cache[k]
  /\ d.synced[k] = c.synced[k]
  /\ d.resume[k] = c.resume[k]

\* A view that is current was so, for the same listening.
SameView(c, d, k, n, n2) == d.current[k] => c.current[k] /\ n2 = n

\* Nothing about k has changed but that its view is no longer current.
LEMMA SameKey ==
  ASSUME NEW c \in Clients, NEW d \in Clients, NEW k \in Keys,
         NEW v \in Nat, NEW s, NEW n \in Nat, NEW ls, NEW ls2,
         FreshAt(c, k, v, s, n, ls), ls \subseteq ls2,
         SameCache(c, d, k), SameView(c, d, k, n, n),
         d.states[k] = c.states[k],
         d.stream.sent[k] = c.stream.sent[k],
         d.stream.received = c.stream.received,
         IsOpen(d.stream) <=> IsOpen(c.stream),
         k \in d.targets <=> k \in c.targets
  PROVE  FreshAt(d, k, v, s, n, ls2)
<1>1. Due(d, k) = Due(c, k)
  BY DueFields
<1>2. Watched(d, k) <=> Watched(c, k)
  BY DEF Watched
<1>3. \A i, x : Newest(d, k, i, x) <=> Newest(c, k, i, x)
  BY DEF Newest, SameCache
<1>4. \A i, x : Reaches(d, k, i, x) <=> Reaches(c, k, i, x)
  BY DEF Reaches, SameCache
<1>5. Ordered(d, k, v, n)
  BY <1>3 DEF FreshAt, Ordered
<1>6. Resumable(d, k, ls2)
  BY DEF FreshAt, Resumable, CanResume, SameCache
<1>7. Counted(d, k, ls2)
  BY <1>1 DEF FreshAt, Counted
<1>8. Served(d, k, s)
  BY <1>2 DEF FreshAt, Served
<1>9. Exact(d, k, ls2) => Exact(c, k, ls)
  BY <1>1 DEF Exact
<1>10. Knows(d, k, s, n, ls2)
  BY <1>2, <1>3, <1>4, <1>9 DEF FreshAt, Knows
<1>11. Told(d, k, n, ls2)
  BY <1>2, <1>3, <1>4, <1>9 DEF FreshAt, Told
<1>12. Applicable(d, k, ls2)
  BY DEF FreshAt, Applicable, SameView
<1>13. FreshView(d, k, n, ls2)
  BY DEF FreshAt, FreshView, SameCache, SameView
<1> QED
  BY <1>5, <1>6, <1>7, <1>8, <1>10, <1>11, <1>12, <1>13 DEF FreshAt

\* The stream does not deliver k: only the cache, the versions and the count matter.
LEMMA UnwatchedKey ==
  ASSUME NEW d \in Clients, NEW k \in Keys, NEW v \in Nat, NEW s, NEW n \in Nat, NEW ls,
         Ordered(d, k, v, n), Resumable(d, k, ls), Counted(d, k, ls),
         Applicable(d, k, ls), FreshView(d, k, n, ls),
         ~Watched(d, k),
         k \in d.targets /\ d.stream.sent[k] # <<>> =>
           d.stream.sent[k][Len(d.stream.sent[k])].op = "watch"
  PROVE  FreshAt(d, k, v, s, n, ls)
<1>1. Served(d, k, s)
  BY DEF Served
<1>2. Knows(d, k, s, n, ls)
  BY DEF Knows
<1>3. Told(d, k, n, ls)
  BY DEF Told
<1> QED
  BY <1>1, <1>2, <1>3 DEF FreshAt

\* The stream is closed, or was so before.
LEMMA ClosedKey ==
  ASSUME NEW c \in Clients, NEW d \in Clients, NEW k \in Keys,
         NEW v \in Nat, NEW s, NEW s2, NEW n \in Nat, NEW n2 \in Nat, NEW ls, NEW ls2,
         FreshAt(c, k, v, s, n, ls), ls \subseteq ls2, n2 <= v,
         SameCache(c, d, k), SameView(c, d, k, n, n2),
         StreamPart(d), ~IsOpen(d.stream)
  PROVE  FreshAt(d, k, v, s2, n2, ls2)
<1>1. /\ d.stream.sent[k] = <<>>
      /\ d.stream.received = <<>>
      /\ d.states[k] = NoTarget
  BY DEF StreamPart, Silent, NoStatesAtAll
<1>2. d.states[k].update = Unknown /\ d.states[k].pending = 0
  BY <1>1 DEF NoTarget
<1>3. Due(d, k) = 0
  BY <1>1, DueFields DEF QuietFrom
<1>4. Ordered(d, k, v, n2)
  BY <1>1, <1>2 DEF FreshAt, Ordered, Newest, SameCache
<1>5. Resumable(d, k, ls2)
  BY <1>1 DEF FreshAt, Resumable, CanResume, SameCache
<1>6. Counted(d, k, ls2)
  BY <1>2, <1>3 DEF Counted
<1>7. Applicable(d, k, ls2)
  BY <1>2 DEF Applicable
<1>8. FreshView(d, k, n2, ls2)
  BY DEF FreshAt, FreshView, SameCache, SameView
<1>9. ~Watched(d, k)
  BY DEF Watched
<1> QED
  BY <1>1, <1>4, <1>5, <1>6, <1>7, <1>8, <1>9, UnwatchedKey

\* A request about k is sent.
LEMMA AskedKey ==
  ASSUME NEW c \in Clients, NEW d \in Clients, NEW k \in Keys, NEW op,
         NEW v \in Nat, NEW s, NEW s2, NEW n \in Nat, NEW n2 \in Nat, NEW ls, NEW ls2,
         FreshAt(c, k, v, s, n, ls), ls \subseteq ls2, n2 <= v,
         SameCache(c, d, k), SameView(c, d, k, n, n2),
         d.current[k] => c.states[k].update = Unknown,
         d.states[k] = [c.states[k] EXCEPT !.pending = @ + 1],
         d.stream.sent[k] = Append(c.stream.sent[k], [op |-> op, resume |-> c.resume[k]]),
         d.stream.received = c.stream.received,
         op = "watch" \/ k \notin d.targets
  PROVE  FreshAt(d, k, v, s2, n2, ls2)
<1> DEFINE w == [op |-> op, resume |-> c.resume[k]]
           q == c.stream.sent[k]
           p == d.stream.sent[k]
<1>1. q \in Seq(Requests) /\ p \in Seq(Requests)
  BY TailRequests
<1>2. w.op = op /\ w.resume = c.resume[k]
  OBVIOUS
<1>3. /\ Len(p) = Len(q) + 1
      /\ Len(q) \in Nat
      /\ \A i \in 1..Len(q) : p[i] = q[i]
      /\ p[Len(p)] = w
  <2>1. p = Append(q, w)
    OBVIOUS
  <2> HIDE DEF w, p, q
  <2> QED
    BY <1>1, <2>1
<1> HIDE DEF w, p, q
<1>4. p # <<>>
  BY <1>3
<1>5. c.states[k] \in TargetStates
  BY DEF Clients
<1>6. /\ d.states[k].pending = c.states[k].pending + 1
      /\ d.states[k].update = c.states[k].update
      /\ c.states[k].pending \in Int
  BY <1>5 DEF TargetStates
<1>7. Due(d, k) = Due(c, k) + 1
  <2> DEFINE a == Cardinality(Answers(c.stream.received, k))
  <2>1. Due(c, k) = Len(q) + a /\ a \in Nat
    BY DueFields DEF q
  <2>2. Due(d, k) = Len(p) + a
    BY DueFields DEF p
  <2> HIDE DEF a
  <2> QED
    BY <1>3, <2>1, <2>2
<1>8. Due(c, k) \in Nat
  BY DueFields
<1>9. Ordered(d, k, v, n2)
  BY <1>6 DEF FreshAt, Ordered, Newest, SameCache
<1>10. Resumable(d, k, ls2)
  <2> SUFFICES ASSUME k \notin ls2
               PROVE  /\ CanResume(d, k, d.resume[k])
                      /\ \A i \in 1..Len(p) : CanResume(d, k, p[i].resume)
    BY DEF Resumable, p
  <2>1. \A x : CanResume(c, k, x) => CanResume(d, k, x)
    BY DEF CanResume, SameCache
  <2>2. CanResume(c, k, c.resume[k]) /\ \A i \in 1..Len(q) : CanResume(c, k, q[i].resume)
    BY DEF FreshAt, Resumable, q
  <2>3. d.resume[k] = c.resume[k]
    BY DEF SameCache
  <2> QED
    BY <1>2, <1>3, <2>1, <2>2, <2>3
<1>11. Counted(d, k, ls2)
  BY <1>6, <1>7, <1>8 DEF FreshAt, Counted
<1>12. Applicable(d, k, ls2)
  BY <1>6 DEF Applicable
<1>13. FreshView(d, k, n2, ls2)
  BY DEF FreshAt, FreshView, SameCache, SameView
<1>14. ~Watched(d, k)
  BY <1>4 DEF Watched, p
<1>15. k \in d.targets => p[Len(p)].op = "watch"
  BY <1>2, <1>3
<1> QED
  BY <1>9, <1>10, <1>11, <1>12, <1>13, <1>14, <1>15, UnwatchedKey DEF p

-----------------------------------------------------------------------------
(* A message is read.                                                      *)

\* The client takes the first message from the open stream.
Takes(c, d, k) ==
  /\ IsOpen(c.stream)
  /\ IsOpen(d.stream)
  /\ c.stream.received # <<>>
  /\ d.stream.received = Tail(c.stream.received)
  /\ d.stream.sent[k] = c.stream.sent[k]
  /\ k \in d.targets => k \in c.targets

\* Taking a message shifts the others by one, and what is due by its answer.
LEMMA TakesFields ==
  ASSUME NEW c \in Clients, NEW d \in Clients, NEW k \in Keys, Takes(c, d, k)
  PROVE  LET q == c.stream.received
             p == d.stream.received
         IN  /\ Len(p) \in Nat
             /\ Len(q) = Len(p) + 1
             /\ \A i \in 1..Len(p) : p[i] = q[i + 1] /\ i + 1 \in 1..Len(q)
             /\ Head(q) = q[1]
             /\ Head(q) \in Messages
             /\ \A i \in 1..Len(p) + 1 : QuietFrom(p, i, k) <=> QuietFrom(q, i + 1, k)
             /\ QuietFrom(q, 1, k) <=> QuietFrom(p, 1, k) /\ ~Answer(Head(q), k)
             /\ Due(c, k) = Due(d, k) + IF Answer(Head(q), k) THEN 1 ELSE 0
<1> DEFINE q == c.stream.received
           p == d.stream.received
<1>1. q \in Seq(Messages) /\ q # <<>> /\ p = Tail(q)
  BY KeyTypes DEF Takes
<1>2. /\ Len(p) = Len(q) - 1
      /\ Len(q) \in Nat \ {0}
      /\ \A i \in 1..Len(p) : p[i] = q[i + 1] /\ i + 1 \in 1..Len(q)
      /\ Head(q) = q[1]
      /\ Head(q) \in Messages
  BY <1>1, TailMessages
<1>3. Due(c, k) = Due(d, k) + IF Answer(Head(q), k) THEN 1 ELSE 0
  <2> DEFINE a == Cardinality(Answers(q, k))
             b == Cardinality(Answers(p, k))
             z == Len(c.stream.sent[k])
  <2>1. Due(c, k) = z + a /\ a \in Nat /\ z \in Nat
    BY DueFields
  <2>2. Due(d, k) = z + b /\ b \in Nat
    BY DueFields DEF Takes
  <2>3. a = b + IF Answer(Head(q), k) THEN 1 ELSE 0
    BY <1>1, AnswersTail
  <2> HIDE DEF a, b, z
  <2> QED
    BY <2>1, <2>2, <2>3
<1> HIDE DEF q, p
<1>4. \A i \in 1..Len(p) + 1 : QuietFrom(p, i, k) <=> QuietFrom(q, i + 1, k)
  <2> SUFFICES ASSUME NEW i \in 1..Len(p) + 1
               PROVE  QuietFrom(p, i, k) <=> QuietFrom(q, i + 1, k)
    OBVIOUS
  <2>1. ASSUME QuietFrom(p, i, k), NEW j \in i + 1..Len(q) PROVE ~Answer(q[j], k)
    <3>1. j - 1 \in i..Len(p) /\ j - 1 \in 1..Len(p) /\ (j - 1) + 1 = j
      BY <1>2
    <3>2. p[j - 1] = q[j]
      BY <1>2, <3>1
    <3> QED
      BY <2>1, <3>1, <3>2 DEF QuietFrom
  <2>2. ASSUME QuietFrom(q, i + 1, k), NEW j \in i..Len(p) PROVE ~Answer(p[j], k)
    <3>1. j \in 1..Len(p) /\ j + 1 \in i + 1..Len(q)
      BY <1>2
    <3> QED
      BY <1>2, <2>2, <3>1 DEF QuietFrom
  <2> QED
    BY <2>1, <2>2 DEF QuietFrom
<1>5. QuietFrom(q, 1, k) <=> QuietFrom(p, 1, k) /\ ~Answer(Head(q), k)
  <2>1. QuietFrom(q, 1, k) <=> QuietFrom(q, 2, k) /\ ~Answer(q[1], k)
    BY <1>2 DEF QuietFrom
  <2>2. 1 \in 1..Len(p) + 1 /\ 1 + 1 = 2
    BY <1>2
  <2> QED
    BY <1>2, <1>4, <2>1, <2>2
<1> QED
  BY <1>2, <1>3, <1>4, <1>5 DEF q, p

\* The stream still delivers k when the message was no refusal of it.
LEMMA StillWatched ==
  ASSUME NEW c \in Clients, NEW d \in Clients, NEW k \in Keys, Takes(c, d, k),
         ~Refuses(Head(c.stream.received), k), Watched(d, k)
  PROVE  Watched(c, k)
<1> DEFINE q == c.stream.received
           p == d.stream.received
<1>1. /\ Len(p) \in Nat
      /\ Len(q) = Len(p) + 1
      /\ \A i \in 1..Len(p) : p[i] = q[i + 1]
      /\ Head(q) = q[1]
  BY TakesFields
<1>2. \A j \in 1..Len(p) : ~Refuses(p[j], k)
  BY DEF Watched
<1>3. IsOpen(c.stream) /\ k \in c.targets /\ c.stream.sent[k] = <<>>
  BY DEF Watched, Takes
<1>4. ~Refuses(q[1], k)
  BY <1>1
<1> HIDE DEF q, p
<1>5. \A j \in 1..Len(q) : ~Refuses(q[j], k)
  <2> SUFFICES ASSUME NEW j \in 1..Len(q), j # 1 PROVE ~Refuses(q[j], k)
    BY <1>4
  <2>1. j - 1 \in 1..Len(p) /\ (j - 1) + 1 = j
    BY <1>1
  <2> QED
    BY <1>1, <1>2, <2>1
<1> QED
  BY <1>3, <1>5 DEF Watched, q

\* The aggregator's update of k is as before, or what the message brought.
Updates(c, d, k) ==
  \/ d.states[k].update = c.states[k].update
  \/ /\ Carries(Head(c.stream.received), k)
     /\ d.states[k].update = Head(c.stream.received).v

\* A bound on the versions up to a message still bounds them when one is taken.
LEMMA NewestOn ==
  ASSUME NEW c \in Clients, NEW d \in Clients, NEW k \in Keys, Takes(c, d, k),
         Shown(d.cache[k]) = Shown(c.cache[k]), Updates(c, d, k),
         NEW i \in 1..Len(d.stream.received) + 1, NEW x \in Nat, Newest(c, k, i + 1, x)
  PROVE  Newest(d, k, i, x)
<1> DEFINE q == c.stream.received
           p == d.stream.received
<1>1. /\ Len(p) \in Nat
      /\ Len(q) = Len(p) + 1
      /\ \A j \in 1..Len(p) : p[j] = q[j + 1]
      /\ Head(q) = q[1]
  BY TakesFields
<1>2. \A j \in 1..i : Carries(q[j], k) => q[j].v <= x
  BY <1>1 DEF Newest
<1>3. Shown(d.cache[k]) <= x
  BY DEF Newest
<1>4. d.states[k].update # Unknown => d.states[k].update <= x
  <2>1. CASE d.states[k].update = c.states[k].update
    BY <2>1 DEF Newest
  <2>2. CASE Carries(Head(q), k) /\ d.states[k].update = Head(q).v
    BY <1>1, <1>2, <2>2
  <2> QED
    BY <2>1, <2>2 DEF Updates
<1> HIDE DEF q
<1>5. \A j \in 1..i-1 : Carries(p[j], k) => p[j].v <= x
  <2> SUFFICES ASSUME NEW j \in 1..i-1 PROVE Carries(p[j], k) => p[j].v <= x
    OBVIOUS
  <2>1. j \in 1..Len(p) /\ j + 1 \in 1..i
    BY <1>1
  <2> QED
    BY <1>1, <1>2, <2>1
<1> QED
  BY <1>3, <1>4, <1>5 DEF Newest

\* What reaches the client still does after a message that brings no version of k.
LEMMA ReachesOn ==
  ASSUME NEW c \in Clients, NEW d \in Clients, NEW k \in Keys, Takes(c, d, k),
         SameCache(c, d, k),
         ~Carries(Head(c.stream.received), k),
         \/ Answer(Head(c.stream.received), k)
         \/ /\ d.states[k].added = c.states[k].added
            /\ d.states[k].update = c.states[k].update,
         NEW i \in 1..Len(d.stream.received) + 1, NEW x \in Nat, Reaches(c, k, i + 1, x)
  PROVE  Reaches(d, k, i, x)
<1> DEFINE q == c.stream.received
           p == d.stream.received
<1>1. /\ Len(p) \in Nat
      /\ Len(q) = Len(p) + 1
      /\ \A j \in 1..Len(p) : p[j] = q[j + 1]
      /\ Head(q) = q[1]
      /\ \A j \in 1..Len(p) + 1 : QuietFrom(p, j, k) <=> QuietFrom(q, j + 1, k)
      /\ QuietFrom(q, 1, k) => QuietFrom(p, 1, k) /\ ~Answer(Head(q), k)
  BY TakesFields
<1>2. \/ x = 0
      \/ c.synced[k] /\ x <= Shown(c.cache[k])
      \/ /\ QuietFrom(q, 1, k)
         /\ c.states[k].added
         /\ c.states[k].update # Unknown
         /\ x <= c.states[k].update
      \/ \E j \in 1..i : Carries(q[j], k) /\ x <= q[j].v /\ QuietFrom(q, j, k)
  BY <1>1 DEF Reaches
<1>3. CASE x = 0 \/ (c.synced[k] /\ x <= Shown(c.cache[k]))
  BY <1>3 DEF Reaches, SameCache
<1>4. CASE /\ QuietFrom(q, 1, k)
           /\ c.states[k].added
           /\ c.states[k].update # Unknown
           /\ x <= c.states[k].update
  BY <1>1, <1>4 DEF Reaches
<1>5. CASE \E j \in 1..i : Carries(q[j], k) /\ x <= q[j].v /\ QuietFrom(q, j, k)
  <2>1. PICK j \in 1..i : Carries(q[j], k) /\ x <= q[j].v /\ QuietFrom(q, j, k)
    BY <1>5
  <2>2. j # 1
    BY <1>1, <2>1
  <2> DEFINE h == j - 1
  <2>3. h \in 1..i-1 /\ h \in 1..Len(p) /\ h \in 1..Len(p) + 1 /\ h + 1 = j
    BY <1>1, <2>2
  <2> HIDE DEF h, p, q
  <2>4. p[h] = q[j] /\ QuietFrom(p, h, k)
    BY <1>1, <2>1, <2>3
  <2> QED
    BY <2>1, <2>3, <2>4 DEF Reaches, p
<1> QED
  BY <1>2, <1>3, <1>4, <1>5

\* What the backend and the snapshots on their way say stays true.
LEMMA StillTold ==
  ASSUME NEW c \in Clients, NEW d \in Clients, NEW k \in Keys, Takes(c, d, k),
         NEW s \in [on : BOOLEAN, current : BOOLEAN, known : Nat], NEW n \in Nat,
         NEW ls, NEW ls2,
         Watched(d, k) => Watched(c, k),
         Exact(d, k, ls2) => Exact(c, k, ls),
         \A i \in 1..Len(d.stream.received) + 1, x \in Nat :
           Newest(c, k, i + 1, x) => Newest(d, k, i, x),
         Watched(d, k) /\ Exact(d, k, ls2) =>
           \A i \in 1..Len(d.stream.received) + 1, x \in Nat :
             Reaches(c, k, i + 1, x) => Reaches(d, k, i, x),
         Knows(c, k, s, n, ls), Told(c, k, n, ls)
  PROVE  Knows(d, k, s, n, ls2) /\ Told(d, k, n, ls2)
<1> DEFINE q == c.stream.received
           p == d.stream.received
<1>1. /\ Len(p) \in Nat
      /\ Len(q) = Len(p) + 1
      /\ \A j \in 1..Len(p) : p[j] = q[j + 1] /\ j + 1 \in 1..Len(q)
      /\ \A j \in 1..Len(p) + 1 : QuietFrom(p, j, k) <=> QuietFrom(q, j + 1, k)
  BY TakesFields
<1>2. Knows(d, k, s, n, ls2)
  <2> SUFFICES ASSUME Watched(d, k)
               PROVE  /\ s.current => n <= s.known /\ Newest(d, k, Len(p) + 1, s.known)
                      /\ Exact(d, k, ls2) => Reaches(d, k, Len(p) + 1, s.known)
    BY DEF Knows
  <2>1. /\ s.current => n <= s.known /\ Newest(c, k, Len(q) + 1, s.known)
        /\ Exact(c, k, ls) => Reaches(c, k, Len(q) + 1, s.known)
    BY DEF Knows
  <2>2. Len(p) + 1 \in 1..Len(p) + 1 /\ s.known \in Nat
    BY <1>1
  <2> HIDE DEF p, q
  <2>3. (Len(p) + 1) + 1 = Len(q) + 1
    BY <1>1
  <2> QED
    BY <2>1, <2>2, <2>3 DEF p
<1>3. Told(d, k, n, ls2)
  <2> SUFFICES ASSUME NEW i \in 1..Len(p),
                      p[i].kind = "snapshot", QuietFrom(p, i, k), Watched(d, k)
               PROVE  /\ n <= p[i].tokens[k]
                      /\ Newest(d, k, i, p[i].tokens[k])
                      /\ Exact(d, k, ls2) => Reaches(d, k, i, p[i].tokens[k])
    BY DEF Told
  <2>1. p[i] = q[i + 1] /\ i + 1 \in 1..Len(q) /\ i \in 1..Len(p) + 1
    <3> HIDE DEF p, q
    <3> QED
      BY <1>1
  <2>2. p[i] \in Messages
    BY KeyTypes
  <2>3. p[i].tokens[k] \in Nat
    BY <2>2, MessageTypes
  <2>4. QuietFrom(q, i + 1, k) /\ q[i + 1].kind = "snapshot"
    BY <1>1, <2>1
  <2>5. /\ n <= q[i + 1].tokens[k]
        /\ Newest(c, k, i + 1, q[i + 1].tokens[k])
        /\ Exact(c, k, ls) => Reaches(c, k, i + 1, q[i + 1].tokens[k])
    BY <2>1, <2>4 DEF Told
  <2> DEFINE t == p[i].tokens[k]
  <2>6. t \in Nat /\ n <= t /\ Newest(c, k, i + 1, t) /\ (Exact(c, k, ls) => Reaches(c, k, i + 1, t))
    BY <2>1, <2>3, <2>5
  <2> HIDE DEF t
  <2>7. /\ n <= t
        /\ Newest(d, k, i, t)
        /\ Exact(d, k, ls2) => Reaches(d, k, i, t)
    BY <2>1, <2>6
  <2> QED
    BY <2>7 DEF t
<1> QED
  BY <1>2, <1>3

\* The order of versions survives taking a message.
LEMMA OrderedOn ==
  ASSUME NEW c \in Clients, NEW d \in Clients, NEW k \in Keys, Takes(c, d, k),
         NEW v \in Nat, NEW n \in Nat,
         Shown(d.cache[k]) = Shown(c.cache[k]), Updates(c, d, k), Ordered(c, k, v, n)
  PROVE  Ordered(d, k, v, n)
<1> DEFINE q == c.stream.received
           p == d.stream.received
           u == d.states[k].update
<1>1. /\ Len(p) \in Nat
      /\ Len(q) = Len(p) + 1
      /\ \A j \in 1..Len(p) : p[j] = q[j + 1] /\ j + 1 \in 1..Len(q)
      /\ Head(q) = q[1]
  BY TakesFields
<1>2. /\ n <= v
      /\ Newest(c, k, Len(q) + 1, v)
      /\ c.states[k].update # Unknown =>
           /\ c.states[k].update > 0
           /\ \A i \in 1..Len(q) : Carries(q[i], k) => c.states[k].update <= q[i].v
      /\ \A i \in 1..Len(q) : Carries(q[i], k) => q[i].v > 0
      /\ \A i, j \in 1..Len(q) : i < j /\ Carries(q[i], k) /\ Carries(q[j], k) => q[i].v <= q[j].v
  BY DEF Ordered
<1>3. Newest(d, k, Len(p) + 1, v)
  <2>1. Len(p) + 1 \in 1..Len(p) + 1 /\ (Len(p) + 1) + 1 = Len(q) + 1
    BY <1>1
  <2> QED
    BY <1>2, <2>1, NewestOn
<1>4. ASSUME u # Unknown
      PROVE  u > 0 /\ \A i \in 1..Len(p) : Carries(p[i], k) => u <= p[i].v
  <2>1. CASE u = c.states[k].update
    BY <1>1, <1>2, <1>4, <2>1
  <2>2. CASE Carries(Head(q), k) /\ u = Head(q).v
    <3>1. u > 0
      BY <1>1, <1>2, <2>2
    <3>2. ASSUME NEW i \in 1..Len(p), Carries(p[i], k)
          PROVE  u <= p[i].v
      <4>1. p[i] = q[i + 1] /\ i + 1 \in 1..Len(q)
        BY <1>1
      <4>2. i \in Nat /\ i > 0 /\ Len(q) > 0 /\ Len(q) \in Nat
        BY <1>1
      <4>3. 1 \in 1..Len(q) /\ 1 < i + 1
        BY <4>2
      <4> HIDE DEF q
      <4> QED
        BY <1>1, <1>2, <2>2, <3>2, <4>1, <4>3
    <3> QED
      BY <3>1, <3>2
  <2> QED
    BY <2>1, <2>2 DEF Updates
<1>5. \A i \in 1..Len(p) : Carries(p[i], k) => p[i].v > 0
  BY <1>1, <1>2
<1>6. ASSUME NEW i \in 1..Len(p), NEW j \in 1..Len(p), i < j, Carries(p[i], k), Carries(p[j], k)
      PROVE  p[i].v <= p[j].v
  <2>1. /\ p[i] = q[i + 1]
        /\ p[j] = q[j + 1]
        /\ i + 1 \in 1..Len(q)
        /\ j + 1 \in 1..Len(q)
    BY <1>1
  <2>2. i + 1 < j + 1
    BY <1>6
  <2> QED
    BY <1>2, <1>6, <2>1, <2>2
<1> QED
  BY <1>2, <1>3, <1>4, <1>5, <1>6 DEF Ordered

\* The message says nothing of k, or that it is current.
LEMMA ReadOther ==
  ASSUME NEW c \in Clients, NEW d \in Clients, NEW k \in Keys, Takes(c, d, k),
         NEW v \in Nat, NEW s \in [on : BOOLEAN, current : BOOLEAN, known : Nat],
         NEW n \in Nat, NEW ls, NEW ls2,
         FreshAt(c, k, v, s, n, ls), ls \subseteq ls2, Counted(d, k, ls2),
         SameCache(c, d, k), SameView(c, d, k, n, n),
         d.states[k].pending = c.states[k].pending,
         d.states[k].added = c.states[k].added,
         d.states[k].update = c.states[k].update,
         ~Carries(Head(c.stream.received), k),
         ~Answer(Head(c.stream.received), k)
  PROVE  FreshAt(d, k, v, s, n, ls2)
<1>1. Head(c.stream.received) \in Messages /\ Due(c, k) = Due(d, k) /\ Due(d, k) \in Nat
  BY TakesFields, DueFields
<1>2. Watched(d, k) => Watched(c, k)
  BY <1>1, MessageTypes, StillWatched
<1>3. Ordered(d, k, v, n)
  BY OrderedOn DEF FreshAt, SameCache, Updates
<1>4. Resumable(d, k, ls2)
  BY DEF FreshAt, Resumable, CanResume, SameCache, Takes
<1>5. Served(d, k, s)
  BY <1>2 DEF FreshAt, Served, Takes
<1>6. Exact(d, k, ls2) => Exact(c, k, ls)
  BY <1>1 DEF Exact
<1>7. \A i \in 1..Len(d.stream.received) + 1, x \in Nat :
        Newest(c, k, i + 1, x) => Newest(d, k, i, x)
  BY NewestOn DEF SameCache, Updates
<1>8. \A i \in 1..Len(d.stream.received) + 1, x \in Nat :
        Reaches(c, k, i + 1, x) => Reaches(d, k, i, x)
  BY ReachesOn
<1>9. Knows(d, k, s, n, ls2) /\ Told(d, k, n, ls2)
  BY <1>2, <1>6, <1>7, <1>8, StillTold DEF FreshAt
<1>10. Applicable(d, k, ls2)
  BY DEF FreshAt, Applicable, SameView
<1>11. FreshView(d, k, n, ls2)
  BY DEF FreshAt, FreshView, SameCache, SameView
<1> QED
  BY <1>3, <1>4, <1>5, <1>9, <1>10, <1>11 DEF FreshAt

\* The message answers a request about k, which the aggregator counts.
LEMMA ReadAnswer ==
  ASSUME NEW c \in Clients, NEW d \in Clients, NEW k \in Keys, Takes(c, d, k),
         NEW v \in Nat, NEW s \in [on : BOOLEAN, current : BOOLEAN, known : Nat],
         NEW n \in Nat, NEW ls, NEW ls2,
         FreshAt(c, k, v, s, n, ls), ls \subseteq ls2, Counted(d, k, ls2),
         SameCache(c, d, k), SameView(c, d, k, n, n),
         d.states[k].pending = c.states[k].pending - 1,
         d.states[k].update = c.states[k].update,
         Answer(Head(c.stream.received), k),
         ~Refuses(Head(c.stream.received), k)
  PROVE  FreshAt(d, k, v, s, n, ls2)
<1>1. /\ Head(c.stream.received) \in Messages
      /\ Due(c, k) = Due(d, k) + 1
      /\ Due(d, k) \in Nat
      /\ c.states[k].pending \in Int
  BY TakesFields, DueFields, KeyTypes
<1>2. ~Carries(Head(c.stream.received), k)
  BY <1>1, MessageTypes
<1>3. Watched(d, k) => Watched(c, k)
  BY StillWatched
<1>4. Ordered(d, k, v, n)
  BY OrderedOn DEF FreshAt, SameCache, Updates
<1>5. Resumable(d, k, ls2)
  BY DEF FreshAt, Resumable, CanResume, SameCache, Takes
<1>6. Served(d, k, s)
  BY <1>3 DEF FreshAt, Served, Takes
<1>7. Exact(d, k, ls2) => Exact(c, k, ls)
  BY <1>1 DEF Exact
<1>8. \A i \in 1..Len(d.stream.received) + 1, x \in Nat :
        Newest(c, k, i + 1, x) => Newest(d, k, i, x)
  BY NewestOn DEF SameCache, Updates
<1>9. \A i \in 1..Len(d.stream.received) + 1, x \in Nat :
        Reaches(c, k, i + 1, x) => Reaches(d, k, i, x)
  BY <1>2, ReachesOn
<1>10. Knows(d, k, s, n, ls2) /\ Told(d, k, n, ls2)
  BY <1>3, <1>7, <1>8, <1>9, StillTold DEF FreshAt
<1>11. Applicable(d, k, ls2)
  <2> SUFFICES ASSUME k \notin ls2, d.current[k], d.states[k].update # Unknown PROVE FALSE
    BY DEF Applicable
  <2>1. c.states[k].pending = 0
    BY DEF FreshAt, Applicable, SameView
  <2>2. c.states[k].pending >= Due(c, k)
    BY DEF FreshAt, Counted
  <2> QED
    BY <1>1, <2>1, <2>2
<1>12. FreshView(d, k, n, ls2)
  BY DEF FreshAt, FreshView, SameCache, SameView
<1> QED
  BY <1>4, <1>5, <1>6, <1>10, <1>11, <1>12 DEF FreshAt

\* The message refuses to watch k: nobody listens to it any more.
LEMMA ReadRefusal ==
  ASSUME NEW c \in Clients, NEW d \in Clients, NEW k \in Keys, Takes(c, d, k),
         NEW v \in Nat, NEW s, NEW n \in Nat, NEW ls, NEW ls2,
         FreshAt(c, k, v, s, n, ls), ls \subseteq ls2, Counted(d, k, ls2),
         SameCache(c, d, k), ~d.current[k],
         d.states[k].update = c.states[k].update,
         k \notin d.targets
  PROVE  FreshAt(d, k, v, s, n, ls2)
<1>1. Ordered(d, k, v, n)
  BY OrderedOn DEF FreshAt, SameCache, Updates
<1>2. Resumable(d, k, ls2)
  BY DEF FreshAt, Resumable, CanResume, SameCache, Takes
<1>3. Applicable(d, k, ls2)
  BY DEF Applicable
<1>4. FreshView(d, k, n, ls2)
  BY DEF FreshView
<1>5. ~Watched(d, k)
  BY DEF Watched
<1> QED
  BY <1>1, <1>2, <1>3, <1>4, <1>5, UnwatchedKey

\* The message brings a version of k, which the aggregator takes when the target is
\* active.
LEMMA ReadDocument ==
  ASSUME NEW c \in Clients, NEW d \in Clients, NEW k \in Keys, Takes(c, d, k),
         NEW v \in Nat, NEW s \in [on : BOOLEAN, current : BOOLEAN, known : Nat],
         NEW n \in Nat, NEW ls, NEW ls2,
         FreshAt(c, k, v, s, n, ls), ls \subseteq ls2, Counted(d, k, ls2),
         SameCache(c, d, k), SameView(c, d, k, n, n),
         d.states[k].pending = c.states[k].pending,
         Carries(Head(c.stream.received), k),
         IF IsActiveTarget(c, k)
         THEN d.states[k].added = TRUE /\ d.states[k].update = Head(c.stream.received).v
         ELSE d.states[k].added = c.states[k].added /\ d.states[k].update = c.states[k].update
  PROVE  FreshAt(d, k, v, s, n, ls2)
<1> DEFINE q == c.stream.received
           p == d.stream.received
           m == Head(q)
<1>1. /\ m \in Messages
      /\ m = q[1]
      /\ Due(d, k) \in Nat
      /\ Len(p) \in Nat
      /\ Len(q) = Len(p) + 1
      /\ \A j \in 1..Len(p) : p[j] = q[j + 1]
      /\ \A j \in 1..Len(p) + 1 : QuietFrom(p, j, k) <=> QuietFrom(q, j + 1, k)
      /\ QuietFrom(q, 1, k) <=> QuietFrom(p, 1, k) /\ ~Answer(m, k)
  BY TakesFields, DueFields
<1>2. ~Answer(m, k) /\ ~Refuses(m, k) /\ m.v \in Nat
  BY <1>1, MessageTypes
<1>3. Due(c, k) = Due(d, k)
  BY <1>1, <1>2, TakesFields
<1>4. Watched(d, k) => Watched(c, k)
  BY <1>2, StillWatched
<1>5. Updates(c, d, k)
  BY DEF Updates
<1>6. Ordered(d, k, v, n)
  BY <1>5, OrderedOn DEF FreshAt, SameCache
<1>7. Resumable(d, k, ls2)
  BY DEF FreshAt, Resumable, CanResume, SameCache, Takes
<1>8. Served(d, k, s)
  BY <1>4 DEF FreshAt, Served, Takes
<1>9. Exact(d, k, ls2) => Exact(c, k, ls)
  BY <1>3 DEF Exact
<1>10. \A i \in 1..Len(p) + 1, x \in Nat : Newest(c, k, i + 1, x) => Newest(d, k, i, x)
  BY <1>5, NewestOn DEF SameCache
<1>11. ASSUME Watched(d, k), Exact(d, k, ls2),
              NEW i \in 1..Len(p) + 1, NEW x \in Nat, Reaches(c, k, i + 1, x)
       PROVE  Reaches(d, k, i, x)
  <2>1. Exact(c, k, ls) /\ Watched(c, k)
    BY <1>4, <1>9, <1>11
  <2>2. QuietFrom(q, 1, k) => IsActiveTarget(c, k) /\ QuietFrom(p, 1, k)
    <3>1. k \in c.targets /\ c.stream.sent[k] = <<>> /\ c.states[k].pending = Due(c, k)
      BY <2>1 DEF Watched, Exact
    <3> QED
      BY <1>1, <3>1, DueFields DEF IsActiveTarget
  <2>3. QuietFrom(q, 1, k) /\ x <= m.v => Reaches(d, k, i, x)
    <3> SUFFICES ASSUME QuietFrom(q, 1, k), x <= m.v PROVE Reaches(d, k, i, x)
      OBVIOUS
    <3>1. d.states[k].added = TRUE /\ d.states[k].update = m.v /\ QuietFrom(p, 1, k)
      BY <2>2
    <3>2. m.v # Unknown
      BY <1>2, WatchAssumption
    <3> QED
      BY <3>1, <3>2 DEF Reaches
  <2>4. \/ x = 0
        \/ c.synced[k] /\ x <= Shown(c.cache[k])
        \/ /\ QuietFrom(q, 1, k)
           /\ c.states[k].added
           /\ c.states[k].update # Unknown
           /\ x <= c.states[k].update
        \/ \E j \in 1..i : Carries(q[j], k) /\ x <= q[j].v /\ QuietFrom(q, j, k)
    BY <1>11 DEF Reaches
  <2>5. CASE x = 0 \/ (c.synced[k] /\ x <= Shown(c.cache[k]))
    BY <2>5 DEF Reaches, SameCache
  <2>6. CASE /\ QuietFrom(q, 1, k)
             /\ c.states[k].added
             /\ c.states[k].update # Unknown
             /\ x <= c.states[k].update
    <3>1. 1 \in 1..Len(q)
      BY <1>1
    <3>2. c.states[k].update \in Nat /\ c.states[k].update <= m.v
      BY <1>1, <2>6, <3>1, KeyTypes DEF FreshAt, Ordered
    <3> QED
      BY <1>2, <2>3, <2>6, <3>2
  <2>7. CASE \E j \in 1..i : Carries(q[j], k) /\ x <= q[j].v /\ QuietFrom(q, j, k)
    <3>1. PICK j \in 1..i : Carries(q[j], k) /\ x <= q[j].v /\ QuietFrom(q, j, k)
      BY <2>7
    <3>2. CASE j = 1
      BY <1>1, <2>3, <3>1, <3>2
    <3>3. CASE j # 1
      <4> DEFINE h == j - 1
      <4> HIDE DEF p, q, m
      <4>1. h \in 1..i-1 /\ h \in 1..Len(p) /\ h \in 1..Len(p) + 1 /\ h + 1 = j
        BY <1>1, <3>3
      <4> HIDE DEF h
      <4>2. p[h] = q[j] /\ QuietFrom(p, h, k)
        BY <1>1, <3>1, <4>1
      <4> QED
        BY <3>1, <4>1, <4>2 DEF Reaches, p
    <3> QED
      BY <3>2, <3>3
  <2> QED
    BY <2>4, <2>5, <2>6, <2>7
<1>12. Knows(d, k, s, n, ls2) /\ Told(d, k, n, ls2)
  BY <1>4, <1>9, <1>10, <1>11, StillTold DEF FreshAt
<1>13. Applicable(d, k, ls2)
  <2>1. CASE IsActiveTarget(c, k)
    BY <2>1 DEF Applicable, IsActiveTarget
  <2>2. CASE ~IsActiveTarget(c, k)
    BY <2>2 DEF FreshAt, Applicable, SameView
  <2> QED
    BY <2>1, <2>2
<1>14. FreshView(d, k, n, ls2)
  BY DEF FreshAt, FreshView, SameCache, SameView
<1> QED
  BY <1>6, <1>7, <1>8, <1>12, <1>13, <1>14 DEF FreshAt

\* What the snapshot does to the cached version of k.
LEMMA StoredVersion ==
  ASSUME NEW c \in Clients, NEW k \in Keys, NEW new,
         c.states[k].update # Unknown => c.states[k].update > 0,
         new = Stored(c.cache[k], UpdateOf(c, k))
  PROVE  LET u == c.states[k].update
             o == Shown(c.cache[k])
         IN  /\ u # Unknown => Shown(new) >= u /\ Shown(new) >= o
             /\ Shown(new) = o \/ Shown(new) = 0 \/ (u # Unknown /\ Shown(new) = u)
             /\ u = Unknown /\ ~IsActiveTarget(c, k) => new = c.cache[k]
             /\ c.synced[k] => Shown(new) >= o
<1> DEFINE u == c.states[k].update
           old == c.cache[k]
           w == UpdateOf(c, k)
<1>1. /\ u \in Cached
      /\ u # Unknown => u \in Nat
      /\ old \in Cached
      /\ Shown(old) \in Nat
      /\ old # Unknown => old \in Nat /\ Shown(old) = old
  BY KeyTypes, ShownType
<1>2. 0 # Unknown
  BY WatchAssumption
<1>3. \/ w = u
      \/ w = 0 /\ u = Unknown /\ IsActiveTarget(c, k) /\ ~c.synced[k]
  BY DEF UpdateOf
<1>4. /\ u # Unknown => u > 0
      /\ new = Stored(old, w)
  OBVIOUS
<1> HIDE DEF u, old, w
<1>5. CASE w = u /\ u = Unknown
  <2>1. new = old
    BY <1>4, <1>5 DEF Stored
  <2> QED
    BY <1>1, <1>5, <2>1 DEF u, old
<1>6. CASE w = u /\ u # Unknown
  <2>1. CASE old = Unknown
    <3>1. new = u
      BY <1>4, <1>6, <2>1 DEF Stored
    <3>2. Shown(new) = u /\ Shown(old) = 0
      BY <1>6, <2>1, <3>1 DEF Shown
    <3> QED
      BY <1>1, <1>4, <1>6, <3>2 DEF u, old
  <2>2. CASE old # Unknown
    <3>1. new = IF u > old THEN u ELSE old
      BY <1>1, <1>4, <1>6, <2>2 DEF Stored
    <3>2. new \in Nat /\ new # Unknown
      BY <1>1, <1>6, <2>2, <3>1, WatchAssumption
    <3>3. Shown(new) = new /\ Shown(old) = old
      BY <2>2, <3>2 DEF Shown
    <3> QED
      BY <1>1, <1>6, <2>2, <3>1, <3>3 DEF u, old
  <2> QED
    BY <2>1, <2>2
<1>7. CASE w = 0 /\ u = Unknown /\ IsActiveTarget(c, k) /\ ~c.synced[k]
  <2>1. new = 0
    BY <1>2, <1>4, <1>7 DEF Stored
  <2>2. Shown(new) = 0
    BY <1>2, <2>1 DEF Shown
  <2> QED
    BY <1>1, <1>7, <2>2 DEF u, old
<1> QED
  BY <1>3, <1>5, <1>6, <1>7

\* A snapshot is applied to k.
LEMMA ReadSnapshot ==
  ASSUME NEW c \in Clients, NEW d \in Clients, NEW k \in Keys, Takes(c, d, k),
         NEW v \in Nat, NEW s \in [on : BOOLEAN, current : BOOLEAN, known : Nat],
         NEW n \in Nat, NEW ls, NEW ls2,
         FreshAt(c, k, v, s, n, ls), ls \subseteq ls2, Counted(d, k, ls2),
         c.current[k] => k \in c.targets,
         Head(c.stream.received).kind = "snapshot",
         d.cache[k] = Stored(c.cache[k], UpdateOf(c, k)),
         d.current[k] = ViewOf(c, k),
         d.synced[k] = (c.synced[k] \/ (IsActiveTarget(c, k) /\ c.states[k].added)),
         d.resume[k] = (IF IsActiveTarget(c, k) THEN Head(c.stream.received).tokens[k]
                        ELSE c.resume[k]),
         d.states[k].pending = c.states[k].pending,
         d.states[k].update = Unknown
  PROVE  FreshAt(d, k, v, s, n, ls2)
<1> DEFINE q == c.stream.received
           p == d.stream.received
           m == Head(q)
           t == m.tokens[k]
           u == c.states[k].update
           o == Shown(c.cache[k])
           o2 == Shown(d.cache[k])
<1>1. /\ m \in Messages
      /\ m = q[1]
      /\ Len(p) \in Nat
      /\ Len(q) = Len(p) + 1
      /\ \A j \in 1..Len(p) : p[j] = q[j + 1] /\ j + 1 \in 1..Len(q)
      /\ \A j \in 1..Len(p) + 1 : QuietFrom(p, j, k) <=> QuietFrom(q, j + 1, k)
  BY TakesFields
<1>2. ~Carries(m, k) /\ ~Answer(m, k) /\ ~Refuses(m, k) /\ t \in Nat
  BY <1>1, MessageTypes
<1>3. Due(c, k) = Due(d, k) /\ Due(c, k) \in Nat
  BY <1>2, TakesFields, DueFields
<1>4. Watched(d, k) => Watched(c, k)
  BY <1>2, StillWatched
<1>5. /\ u # Unknown => u \in Nat
      /\ o \in Nat
      /\ o2 \in Nat
      /\ c.states[k].pending \in Int
  BY KeyTypes
<1>6. u # Unknown => u > 0
  BY DEF FreshAt, Ordered
<1>7. /\ u # Unknown => o2 >= u /\ o2 >= o
      /\ o2 = o \/ o2 = 0 \/ (u # Unknown /\ o2 = u)
      /\ u = Unknown /\ ~IsActiveTarget(c, k) => d.cache[k] = c.cache[k]
      /\ c.synced[k] => o2 >= o
  BY <1>6, StoredVersion
<1>8. ASSUME IsActiveTarget(c, k), k \notin ls2
      PROVE  /\ n <= t
             /\ o <= t
             /\ u # Unknown => u <= t
             /\ \/ t = 0
                \/ c.synced[k] /\ t <= o
                \/ c.states[k].added /\ u # Unknown /\ t <= u
  <2>1. c.states[k].pending = 0 /\ k \in c.targets
    BY <1>8 DEF IsActiveTarget
  <2>2. Due(c, k) = 0 /\ Exact(c, k, ls)
    BY <1>3, <1>8, <2>1 DEF FreshAt, Counted, Exact
  <2>3. c.stream.sent[k] = <<>> /\ QuietFrom(q, 1, k)
    BY <2>2, DueFields
  <2>4. \A j \in 1..Len(q) : ~Refuses(q[j], k)
    BY <2>3, KeyTypes, MessageTypes DEF QuietFrom
  <2>5. Watched(c, k)
    BY <2>1, <2>3, <2>4 DEF Watched, Takes
  <2>6. 1 \in 1..Len(q)
    BY <1>1
  <2>7. n <= t /\ Newest(c, k, 1, t) /\ Reaches(c, k, 1, t)
    BY <1>1, <2>2, <2>3, <2>5, <2>6 DEF FreshAt, Told
  <2>8. o <= t /\ (u # Unknown => u <= t)
    BY <2>7 DEF Newest
  <2>9. \/ t = 0
        \/ c.synced[k] /\ t <= o
        \/ c.states[k].added /\ u # Unknown /\ t <= u
    BY <2>7 DEF Reaches
  <2> QED
    BY <2>7, <2>8, <2>9
<1>9. \A i \in 1..Len(p) + 1, x \in Nat : Newest(c, k, i + 1, x) => Newest(d, k, i, x)
  <2> SUFFICES ASSUME NEW i \in 1..Len(p) + 1, NEW x \in Nat, Newest(c, k, i + 1, x)
               PROVE  Newest(d, k, i, x)
    OBVIOUS
  <2>1. o <= x /\ (u # Unknown => u <= x)
    BY DEF Newest
  <2>2. o2 <= x
    BY <1>5, <1>7, <2>1
  <2>3. \A j \in 1..i : Carries(q[j], k) => q[j].v <= x
    BY DEF Newest
  <2> HIDE DEF q
  <2>4. \A j \in 1..i-1 : Carries(p[j], k) => p[j].v <= x
    <3> SUFFICES ASSUME NEW j \in 1..i-1 PROVE Carries(p[j], k) => p[j].v <= x
      OBVIOUS
    <3>1. j \in 1..Len(p) /\ j + 1 \in 1..i
      BY <1>1
    <3> QED
      BY <1>1, <2>3, <3>1
  <2> QED
    BY <2>2, <2>4 DEF Newest
<1>10. /\ c.synced[k] => d.synced[k]
       /\ IsActiveTarget(c, k) /\ c.states[k].added => d.synced[k]
  OBVIOUS
<1>11. \A x \in Nat : x = 0 \/ (c.synced[k] /\ x <= o) => x = 0 \/ (d.synced[k] /\ x <= o2)
  <2> HIDE DEF o, o2, u
  <2> SUFFICES ASSUME NEW x \in Nat, c.synced[k], x <= o PROVE d.synced[k] /\ x <= o2
    OBVIOUS
  <2>1. d.synced[k]
    BY <1>10
  <2>2. o2 >= o
    BY <1>7
  <2> QED
    BY <1>5, <2>1, <2>2
<1>12. Exact(d, k, ls2) => Exact(c, k, ls)
  BY <1>3 DEF Exact
<1>13. ASSUME Watched(d, k), Exact(d, k, ls2),
              NEW i \in 1..Len(p) + 1, NEW x \in Nat, Reaches(c, k, i + 1, x)
       PROVE  Reaches(d, k, i, x)
  <2>1. \/ x = 0
        \/ c.synced[k] /\ x <= o
        \/ /\ QuietFrom(q, 1, k)
           /\ c.states[k].added
           /\ u # Unknown
           /\ x <= u
        \/ \E j \in 1..i : Carries(q[j], k) /\ x <= q[j].v /\ QuietFrom(q, j, k)
    BY <1>13 DEF Reaches
  <2>2. CASE x = 0 \/ (c.synced[k] /\ x <= o)
    BY <1>11, <2>2 DEF Reaches
  <2>3. CASE /\ QuietFrom(q, 1, k)
             /\ c.states[k].added
             /\ u # Unknown
             /\ x <= u
    <3>1. k \in c.targets /\ c.stream.sent[k] = <<>> /\ c.states[k].pending = Due(c, k)
      BY <1>4, <1>12, <1>13 DEF Watched, Exact
    <3>2. IsActiveTarget(c, k)
      BY <2>3, <3>1, DueFields DEF IsActiveTarget
    <3>3. o2 >= u /\ u \in Nat
      BY <1>5, <1>7, <2>3
    <3>4. d.synced[k] /\ x <= o2
      <4>1. d.synced[k]
        BY <1>10, <2>3, <3>2
      <4> HIDE DEF o, o2, u
      <4> QED
        BY <1>5, <2>3, <3>3, <4>1
    <3> QED
      BY <3>4 DEF Reaches
  <2>4. CASE \E j \in 1..i : Carries(q[j], k) /\ x <= q[j].v /\ QuietFrom(q, j, k)
    <3>1. PICK j \in 1..i : Carries(q[j], k) /\ x <= q[j].v /\ QuietFrom(q, j, k)
      BY <2>4
    <3>2. j # 1
      BY <1>1, <1>2, <3>1
    <3> DEFINE h == j - 1
    <3>3. h \in 1..i-1 /\ h \in 1..Len(p) /\ h \in 1..Len(p) + 1 /\ h + 1 = j
      BY <1>1, <3>2
    <3> HIDE DEF h, p, q, m
    <3>4. p[h] = q[j] /\ QuietFrom(p, h, k)
      BY <1>1, <3>1, <3>3
    <3> QED
      BY <3>1, <3>3, <3>4 DEF Reaches, p
  <2> QED
    BY <2>1, <2>2, <2>3, <2>4
<1>14. Knows(d, k, s, n, ls2) /\ Told(d, k, n, ls2)
  BY <1>4, <1>9, <1>12, <1>13, StillTold DEF FreshAt
<1>15. Ordered(d, k, v, n)
  <2>1. /\ n <= v
        /\ Newest(c, k, Len(q) + 1, v)
        /\ \A i \in 1..Len(q) : Carries(q[i], k) => q[i].v > 0
        /\ \A i, j \in 1..Len(q) : i < j /\ Carries(q[i], k) /\ Carries(q[j], k) => q[i].v <= q[j].v
    BY DEF FreshAt, Ordered
  <2>2. Len(p) + 1 \in 1..Len(p) + 1 /\ (Len(p) + 1) + 1 = Len(q) + 1
    BY <1>1
  <2>3. Newest(d, k, Len(p) + 1, v)
    BY <1>9, <2>1, <2>2
  <2>4. \A i \in 1..Len(p) : Carries(p[i], k) => p[i].v > 0
    BY <1>1, <2>1
  <2>5. ASSUME NEW i \in 1..Len(p), NEW j \in 1..Len(p), i < j, Carries(p[i], k), Carries(p[j], k)
        PROVE  p[i].v <= p[j].v
    <3>1. /\ p[i] = q[i + 1]
          /\ p[j] = q[j + 1]
          /\ i + 1 \in 1..Len(q)
          /\ j + 1 \in 1..Len(q)
      BY <1>1
    <3>2. i + 1 < j + 1
      BY <2>5
    <3> QED
      BY <2>1, <2>5, <3>1, <3>2
  <2> QED
    BY <2>1, <2>3, <2>4, <2>5 DEF Ordered
<1>16. \A x \in Nat : CanResume(c, k, x) => CanResume(d, k, x)
  BY <1>11 DEF CanResume
<1>17. Resumable(d, k, ls2)
  <2> SUFFICES ASSUME k \notin ls2
               PROVE  /\ CanResume(d, k, d.resume[k])
                      /\ \A i \in 1..Len(d.stream.sent[k]) :
                           CanResume(d, k, d.stream.sent[k][i].resume)
    BY DEF Resumable
  <2>1. /\ CanResume(c, k, c.resume[k])
        /\ \A i \in 1..Len(c.stream.sent[k]) : CanResume(c, k, c.stream.sent[k][i].resume)
    BY DEF FreshAt, Resumable
  <2>2. d.stream.sent[k] = c.stream.sent[k] /\ c.resume[k] \in Nat
    BY KeyTypes DEF Takes
  <2>3. \A i \in 1..Len(c.stream.sent[k]) : c.stream.sent[k][i].resume \in Nat
    <3>1. \A i \in 1..Len(c.stream.sent[k]) : c.stream.sent[k][i] \in Requests
      <4> HIDE DEF Requests
      <4>1. c.stream.sent[k] \in Seq(Requests)
        BY KeyTypes
      <4> QED
        BY <4>1
    <3> QED
      BY <3>1 DEF Requests
  <2>4. CASE IsActiveTarget(c, k)
    <3>1. t = 0 \/ (d.synced[k] /\ t <= o2)
      <4>1. \/ t = 0
            \/ c.synced[k] /\ t <= o
            \/ c.states[k].added /\ u # Unknown /\ t <= u
        BY <1>8, <2>4
      <4> HIDE DEF o, o2, u, t
      <4>2. CASE c.synced[k] /\ t <= o
        BY <1>2, <1>11, <4>2
      <4>3. CASE c.states[k].added /\ u # Unknown /\ t <= u
        <5>1. d.synced[k]
          BY <1>10, <2>4, <4>3
        <5>2. o2 >= u /\ u \in Nat
          BY <1>5, <1>7, <4>3
        <5> QED
          BY <1>2, <1>5, <4>3, <5>1, <5>2
      <4> QED
        BY <4>1, <4>2, <4>3
    <3>2. CanResume(d, k, t)
      BY <3>1 DEF CanResume
    <3> QED
      BY <1>16, <2>1, <2>2, <2>3, <2>4, <3>2
  <2>5. CASE ~IsActiveTarget(c, k)
    BY <1>16, <2>1, <2>2, <2>3, <2>5
  <2> QED
    BY <2>4, <2>5
<1>18. Served(d, k, s)
  BY <1>4 DEF FreshAt, Served, Takes
<1>19. Applicable(d, k, ls2)
  BY DEF Applicable
<1>20. FreshView(d, k, n, ls2)
  <2> SUFFICES ASSUME k \notin ls2, d.current[k]
               PROVE  n <= o2 /\ (o2 > 0 => d.synced[k])
    BY DEF FreshView
  <2>1. CASE IsActiveTarget(c, k)
    <3>1. /\ n <= t
          /\ o <= t
          /\ u # Unknown => u <= t
          /\ \/ t = 0
             \/ c.synced[k] /\ t <= o
             \/ c.states[k].added /\ u # Unknown /\ t <= u
      BY <1>8, <2>1
    <3>2. c.states[k].added => d.synced[k]
      BY <1>10, <2>1
    <3> HIDE DEF o, o2, u, t
    <3>3. CASE t = 0
      <4>1. u = Unknown
        BY <1>5, <1>6, <3>1, <3>3
      <4>2. n = 0 /\ o = 0
        BY <1>2, <1>5, <3>1, <3>3
      <4>3. o2 = 0
        BY <1>7, <4>1, <4>2
      <4> QED
        BY <4>2, <4>3
    <3>4. CASE c.synced[k] /\ t <= o
      <4>1. o2 >= o
        BY <1>7, <3>4
      <4>2. n <= o2
        BY <1>2, <1>5, <3>1, <3>4, <4>1
      <4> QED
        BY <1>10, <3>4, <4>2
    <3>5. CASE c.states[k].added /\ u # Unknown /\ t <= u
      <4>1. o2 >= u /\ u \in Nat
        BY <1>5, <1>7, <3>5
      <4>2. n <= o2
        BY <1>2, <1>5, <3>1, <3>5, <4>1
      <4> QED
        BY <3>2, <3>5, <4>2
    <3> QED
      BY <3>1, <3>3, <3>4, <3>5
  <2>2. CASE ~IsActiveTarget(c, k)
    <3>1. c.current[k]
      BY <2>2 DEF ViewOf
    <3>2. k \in c.targets /\ c.states[k].pending # 0
      BY <2>2, <3>1 DEF IsActiveTarget
    <3>3. u = Unknown
      BY <3>1, <3>2 DEF FreshAt, Applicable
    <3>4. o2 = o
      BY <1>7, <2>2, <3>3
    <3>5. n <= o /\ (o > 0 => c.synced[k])
      BY <3>1 DEF FreshAt, FreshView
    <3> QED
      BY <3>4, <3>5
  <2> QED
    BY <2>1, <2>2
<1> QED
  BY <1>14, <1>15, <1>17, <1>18, <1>19, <1>20 DEF FreshAt

-----------------------------------------------------------------------------
(* The backend sends a message.                                            *)

\* Message m is put behind those on their way; what the client has is as before.
Sends(c, d, m, k) ==
  /\ IsOpen(c.stream)
  /\ IsOpen(d.stream)
  /\ d.stream.received = Append(c.stream.received, m)
  /\ d.states[k] = c.states[k]
  /\ d.current[k] = c.current[k]
  /\ SameCache(c, d, k)
  /\ k \in d.targets <=> k \in c.targets

\* It answers the first request about k, or none.
AnswersFirst(c, d, m, k) ==
  IF Answer(m, k) THEN c.stream.sent[k] # <<>> /\ d.stream.sent[k] = Tail(c.stream.sent[k])
  ELSE d.stream.sent[k] = c.stream.sent[k]

\* The messages behind which m was put are where they were.
LEMMA SendsFields ==
  ASSUME NEW c \in Clients, NEW d \in Clients, NEW k \in Keys, NEW m \in Messages,
         Sends(c, d, m, k)
  PROVE  LET q == c.stream.received
             p == d.stream.received
         IN  /\ Len(q) \in Nat
             /\ Len(p) = Len(q) + 1
             /\ \A i \in 1..Len(q) : p[i] = q[i]
             /\ p[Len(q) + 1] = m
             /\ Answer(m, k) => \A i \in 1..Len(q) + 1 : ~QuietFrom(p, i, k)
             /\ ~Answer(m, k) => \A i \in 1..Len(q) + 1 : QuietFrom(p, i, k) <=> QuietFrom(q, i, k)
<1> DEFINE q == c.stream.received
           p == d.stream.received
<1>1. q \in Seq(Messages) /\ p = Append(q, m)
  BY KeyTypes DEF Sends
<1>2. /\ Len(q) \in Nat
      /\ Len(p) = Len(q) + 1
      /\ \A i \in 1..Len(q) : p[i] = q[i]
      /\ p[Len(q) + 1] = m
  <2> HIDE DEF Messages, p, q
  <2> QED
    BY <1>1
<1> HIDE DEF p, q
<1>3. ASSUME Answer(m, k), NEW i \in 1..Len(q) + 1
      PROVE  ~QuietFrom(p, i, k)
  <2>1. Len(q) + 1 \in i..Len(p)
    BY <1>2
  <2> QED
    BY <1>2, <1>3, <2>1 DEF QuietFrom
<1>4. ASSUME ~Answer(m, k), NEW i \in 1..Len(q) + 1
      PROVE  QuietFrom(p, i, k) <=> QuietFrom(q, i, k)
  <2>1. ASSUME QuietFrom(q, i, k), NEW j \in i..Len(p)
        PROVE  ~Answer(p[j], k)
    <3>1. CASE j = Len(q) + 1
      BY <1>2, <1>4, <3>1
    <3>2. CASE j # Len(q) + 1
      <4>1. j \in i..Len(q) /\ j \in 1..Len(q)
        BY <1>2, <3>2
      <4>2. p[j] = q[j] /\ ~Answer(q[j], k)
        BY <1>2, <2>1, <4>1 DEF QuietFrom
      <4> QED
        BY <4>2
    <3> QED
      BY <3>1, <3>2
  <2>2. ASSUME QuietFrom(p, i, k), NEW j \in i..Len(q)
        PROVE  ~Answer(q[j], k)
    <3>1. j \in i..Len(p) /\ j \in 1..Len(q)
      BY <1>2
    <3>2. p[j] = q[j] /\ ~Answer(p[j], k)
      BY <1>2, <2>2, <3>1 DEF QuietFrom
    <3> QED
      BY <3>2
  <2> QED
    BY <2>1, <2>2 DEF QuietFrom
<1> QED
  BY <1>2, <1>3, <1>4 DEF p, q

\* The answer was due as a request, and is due as a message.
LEMMA SendsDue ==
  ASSUME NEW c \in Clients, NEW d \in Clients, NEW k \in Keys, NEW m \in Messages,
         Sends(c, d, m, k), AnswersFirst(c, d, m, k)
  PROVE  Due(d, k) = Due(c, k)
<1> DEFINE q == c.stream.received
           p == d.stream.received
           a == Cardinality(Answers(q, k))
           b == Cardinality(Answers(p, k))
           x == Len(c.stream.sent[k])
           y == Len(d.stream.sent[k])
<1>1. /\ Due(c, k) = x + a
      /\ Due(d, k) = y + b
      /\ x \in Nat
      /\ a \in Nat
  BY DueFields
<1>2. b = a + IF Answer(m, k) THEN 1 ELSE 0
  <2>1. q \in Seq(Messages) /\ p = Append(q, m)
    BY KeyTypes DEF Sends
  <2> QED
    BY <2>1, AnswersAppend
<1>3. y = IF Answer(m, k) THEN x - 1 ELSE x
  <2>1. CASE Answer(m, k)
    <3>1. c.stream.sent[k] # <<>> /\ d.stream.sent[k] = Tail(c.stream.sent[k])
      BY <2>1 DEF AnswersFirst
    <3>2. c.stream.sent[k] \in Seq(Requests)
      BY TailRequests
    <3> HIDE DEF Requests
    <3>3. Len(Tail(c.stream.sent[k])) = Len(c.stream.sent[k]) - 1
      BY <3>1, <3>2
    <3> QED
      BY <2>1, <3>1, <3>3
  <2>2. CASE ~Answer(m, k)
    BY <2>2 DEF AnswersFirst
  <2> QED
    BY <2>1, <2>2
<1> HIDE DEF a, b, x, y
<1> QED
  BY <1>1, <1>2, <1>3

\* What is known from the messages before m is as it was.
LEMMA SendsKnown ==
  ASSUME NEW c \in Clients, NEW d \in Clients, NEW k \in Keys, NEW m \in Messages,
         Sends(c, d, m, k), NEW i \in 1..Len(c.stream.received) + 1, NEW x \in Nat
  PROVE  /\ Newest(c, k, i, x) => Newest(d, k, i, x)
         /\ ~Answer(m, k) /\ Reaches(c, k, i, x) => Reaches(d, k, i, x)
<1> DEFINE q == c.stream.received
           p == d.stream.received
<1>1. /\ Len(q) \in Nat
      /\ \A j \in 1..Len(q) : p[j] = q[j]
      /\ ~Answer(m, k) => \A j \in 1..Len(q) + 1 : QuietFrom(p, j, k) <=> QuietFrom(q, j, k)
  BY SendsFields
<1>2. \A j \in 1..i-1 : j \in 1..Len(q) /\ j \in 1..Len(q) + 1
  BY <1>1
<1>3. 1 \in 1..Len(q) + 1
  BY <1>1
<1>4. d.states[k] = c.states[k] /\ d.cache[k] = c.cache[k] /\ d.synced[k] = c.synced[k]
  BY DEF Sends, SameCache
<1> HIDE DEF p, q
<1>5. ASSUME Newest(c, k, i, x)
      PROVE  Newest(d, k, i, x)
  <2>1. \A j \in 1..i-1 : Carries(q[j], k) => q[j].v <= x
    BY <1>5 DEF Newest, q
  <2>2. \A j \in 1..i-1 : Carries(p[j], k) => p[j].v <= x
    BY <1>1, <1>2, <2>1
  <2> QED
    BY <1>4, <1>5, <2>2 DEF Newest, p
<1>6. ASSUME ~Answer(m, k), Reaches(c, k, i, x)
      PROVE  Reaches(d, k, i, x)
  <2>1. QuietFrom(q, 1, k) => QuietFrom(p, 1, k)
    BY <1>1, <1>3, <1>6
  <2>2. CASE \E j \in 1..i-1 : Carries(q[j], k) /\ x <= q[j].v /\ QuietFrom(q, j, k)
    <3>1. PICK j \in 1..i-1 : Carries(q[j], k) /\ x <= q[j].v /\ QuietFrom(q, j, k)
      BY <2>2
    <3>2. p[j] = q[j] /\ QuietFrom(p, j, k)
      BY <1>1, <1>2, <1>6, <3>1
    <3> QED
      BY <3>1, <3>2 DEF Reaches, p
  <2>3. CASE ~\E j \in 1..i-1 : Carries(q[j], k) /\ x <= q[j].v /\ QuietFrom(q, j, k)
    BY <1>4, <1>6, <2>1, <2>3 DEF Reaches, p, q
  <2> QED
    BY <2>2, <2>3
<1> QED
  BY <1>5, <1>6

\* What does not depend on where the messages are.
LEMMA SendsRest ==
  ASSUME NEW c \in Clients, NEW d \in Clients, NEW k \in Keys, NEW m \in Messages,
         NEW v \in Nat, NEW s, NEW n \in Nat, NEW ls, FreshAt(c, k, v, s, n, ls),
         Sends(c, d, m, k), AnswersFirst(c, d, m, k),
         Carries(m, k) => m.v = v /\ v > 0
  PROVE  /\ Ordered(d, k, v, n)
         /\ Resumable(d, k, ls)
         /\ Counted(d, k, ls)
         /\ Exact(d, k, ls) => Exact(c, k, ls)
         /\ Applicable(d, k, ls)
         /\ FreshView(d, k, n, ls)
         /\ k \in d.targets /\ d.stream.sent[k] # <<>> =>
              d.stream.sent[k][Len(d.stream.sent[k])].op = "watch"
<1> DEFINE q == c.stream.received
           p == d.stream.received
           u == c.states[k].update
           a == c.stream.sent[k]
           b == d.stream.sent[k]
<1>1. /\ Len(q) \in Nat
      /\ Len(p) = Len(q) + 1
      /\ \A i \in 1..Len(q) : p[i] = q[i]
      /\ p[Len(q) + 1] = m
  BY SendsFields
<1>2. d.states[k] = c.states[k] /\ SameCache(c, d, k) /\ d.current[k] = c.current[k]
  BY DEF Sends
<1>3. Due(d, k) = Due(c, k)
  BY SendsDue
<1>4. Ordered(d, k, v, n)
  <2>1. /\ n <= v
        /\ Newest(c, k, Len(q) + 1, v)
        /\ u # Unknown => u > 0 /\ \A i \in 1..Len(q) : Carries(q[i], k) => u <= q[i].v
        /\ \A i \in 1..Len(q) : Carries(q[i], k) => q[i].v > 0
        /\ \A i, j \in 1..Len(q) : i < j /\ Carries(q[i], k) /\ Carries(q[j], k) => q[i].v <= q[j].v
    BY DEF FreshAt, Ordered
  <2>2. /\ Shown(c.cache[k]) <= v
        /\ u # Unknown => u <= v
        /\ \A i \in 1..Len(q) : Carries(q[i], k) => q[i].v <= v
    BY <1>1, <2>1 DEF Newest
  <2>3. \A i \in 1..Len(p) : i \in 1..Len(q) \/ i = Len(q) + 1
    BY <1>1
  <2> HIDE DEF p, q, u
  <2>4. \A i \in 1..Len(p) : Carries(p[i], k) =>
          /\ p[i].v <= v
          /\ p[i].v > 0
          /\ u # Unknown => u <= p[i].v
    BY <1>1, <2>1, <2>2, <2>3
  <2>5. ASSUME NEW i \in 1..Len(p), NEW j \in 1..Len(p), i < j, Carries(p[i], k), Carries(p[j], k)
        PROVE  p[i].v <= p[j].v
    <3>1. i \in 1..Len(q) /\ p[i] = q[i]
      BY <1>1, <2>5
    <3>2. CASE j \in 1..Len(q)
      BY <1>1, <2>1, <2>5, <3>1, <3>2
    <3>3. CASE j = Len(q) + 1
      BY <1>1, <2>2, <2>5, <3>1, <3>3
    <3> QED
      BY <2>3, <3>2, <3>3
  <2>6. Newest(d, k, Len(p) + 1, v)
    <3>1. \A i \in 1..(Len(p) + 1) - 1 : Carries(p[i], k) => p[i].v <= v
      BY <1>1, <2>4
    <3> QED
      BY <1>2, <2>2, <3>1 DEF Newest, SameCache, p, u
  <2> QED
    BY <1>2, <2>1, <2>4, <2>5, <2>6 DEF Ordered, p, u
<1>5. a \in Seq(Requests)
  BY TailRequests
<1>6. /\ \A i \in 1..Len(b) : \E j \in 1..Len(a) : b[i] = a[j]
      /\ b # <<>> => a # <<>> /\ b[Len(b)] = a[Len(a)]
  <2>1. b = a \/ (a # <<>> /\ b = Tail(a))
    BY DEF AnswersFirst
  <2>2. CASE b = a
    BY <2>2
  <2>3. CASE a # <<>> /\ b = Tail(a)
    <3>1. /\ Len(a) \in Nat \ {0}
          /\ Len(b) = Len(a) - 1
          /\ \A i \in 1..Len(b) : b[i] = a[i + 1]
          /\ b # <<>> => Len(b) # 0
      <4> HIDE DEF a, b, Requests
      <4>1. Len(a) \in Nat \ {0} /\ Len(b) = Len(a) - 1
        BY <1>5, <2>3, EmptySeq
      <4>2. b \in Seq(Requests)
        BY <1>5, <2>3
      <4> QED
        BY <1>5, <2>3, <4>1, <4>2, EmptySeq
    <3> HIDE DEF a, b
    <3>2. \A i \in 1..Len(b) : i + 1 \in 1..Len(a)
      BY <3>1
    <3>3. b # <<>> => b[Len(b)] = a[Len(a)]
      BY <3>1
    <3> QED
      BY <2>3, <3>1, <3>2, <3>3
  <2> QED
    BY <2>1, <2>2, <2>3
<1>7. Resumable(d, k, ls)
  <2> SUFFICES ASSUME k \notin ls
               PROVE  /\ CanResume(d, k, d.resume[k])
                      /\ \A i \in 1..Len(b) : CanResume(d, k, b[i].resume)
    BY DEF Resumable
  <2>1. \A x : CanResume(c, k, x) => CanResume(d, k, x)
    BY <1>2 DEF CanResume, SameCache
  <2>2. CanResume(c, k, c.resume[k]) /\ \A i \in 1..Len(a) : CanResume(c, k, a[i].resume)
    BY DEF FreshAt, Resumable
  <2>3. d.resume[k] = c.resume[k]
    BY <1>2 DEF SameCache
  <2> HIDE DEF a, b
  <2> QED
    BY <1>6, <2>1, <2>2, <2>3
<1>8. Counted(d, k, ls)
  BY <1>2, <1>3 DEF FreshAt, Counted
<1>9. Exact(d, k, ls) => Exact(c, k, ls)
  BY <1>2, <1>3 DEF Exact
<1>10. Applicable(d, k, ls)
  BY <1>2 DEF FreshAt, Applicable
<1>11. FreshView(d, k, n, ls)
  BY <1>2 DEF FreshAt, FreshView, SameCache
<1>12. ASSUME k \in d.targets, b # <<>>
       PROVE  b[Len(b)].op = "watch"
  <2>1. k \in c.targets /\ a # <<>> /\ b[Len(b)] = a[Len(a)]
    BY <1>6, <1>12 DEF Sends
  <2>2. a[Len(a)].op = "watch"
    BY <2>1 DEF FreshAt, Served
  <2> QED
    BY <2>1, <2>2
<1> QED
  BY <1>4, <1>7, <1>8, <1>9, <1>10, <1>11, <1>12

\* A message that answers nothing is told of, and the backend knows of it.
LEMMA SendQuiet ==
  ASSUME NEW c \in Clients, NEW d \in Clients, NEW k \in Keys, NEW m \in Messages,
         NEW v \in Nat, NEW s \in [on : BOOLEAN, current : BOOLEAN, known : Nat], NEW s2,
         NEW n \in Nat, NEW ls, FreshAt(c, k, v, s, n, ls),
         Sends(c, d, m, k), d.stream.sent[k] = c.stream.sent[k], ~Answer(m, k),
         Carries(m, k) => m.v = v /\ v > 0,
         s2.on = s.on,
         Watched(c, k) =>
           /\ s2.current => n <= s2.known /\ Newest(d, k, Len(c.stream.received) + 2, s2.known)
           /\ Exact(d, k, ls) => Reaches(d, k, Len(c.stream.received) + 2, s2.known),
         m.kind = "snapshot" => m.tokens[k] = s.known /\ (s.on => s.current)
  PROVE  FreshAt(d, k, v, s2, n, ls)
<1> DEFINE q == c.stream.received
           p == d.stream.received
<1>1. /\ Len(q) \in Nat
      /\ Len(p) = Len(q) + 1
      /\ \A i \in 1..Len(q) : p[i] = q[i]
      /\ p[Len(q) + 1] = m
      /\ \A i \in 1..Len(q) + 1 : QuietFrom(p, i, k) <=> QuietFrom(q, i, k)
  BY SendsFields
<1>2. AnswersFirst(c, d, m, k)
  BY DEF AnswersFirst
<1>3. /\ Ordered(d, k, v, n)
      /\ Resumable(d, k, ls)
      /\ Counted(d, k, ls)
      /\ Exact(d, k, ls) => Exact(c, k, ls)
      /\ Applicable(d, k, ls)
      /\ FreshView(d, k, n, ls)
      /\ k \in d.targets /\ d.stream.sent[k] # <<>> =>
           d.stream.sent[k][Len(d.stream.sent[k])].op = "watch"
  BY <1>2, SendsRest
<1>4. Watched(d, k) => Watched(c, k)
  <2> HIDE DEF p, q
  <2> SUFFICES ASSUME Watched(d, k) PROVE Watched(c, k)
    OBVIOUS
  <2>1. \A i \in 1..Len(q) : i \in 1..Len(p)
    BY <1>1
  <2>2. \A i \in 1..Len(q) : ~Refuses(q[i], k)
    BY <1>1, <2>1 DEF Watched, p
  <2> QED
    BY <2>2 DEF Watched, Sends, q
<1>5. Served(d, k, s2)
  BY <1>3, <1>4 DEF FreshAt, Served
<1>6. Knows(d, k, s2, n, ls)
  <2>1. Len(p) + 1 = Len(q) + 2
    BY <1>1
  <2> QED
    BY <1>4, <2>1 DEF Knows
<1>7. Told(d, k, n, ls)
  <2> SUFFICES ASSUME NEW i \in 1..Len(p), p[i].kind = "snapshot", QuietFrom(p, i, k), Watched(d, k)
               PROVE  /\ n <= p[i].tokens[k]
                      /\ Newest(d, k, i, p[i].tokens[k])
                      /\ Exact(d, k, ls) => Reaches(d, k, i, p[i].tokens[k])
    BY DEF Told
  <2>1. i \in 1..Len(q) + 1
    BY <1>1
  <2>2. \E x \in Nat : /\ x = p[i].tokens[k]
                       /\ n <= x
                       /\ Newest(c, k, i, x)
                       /\ Exact(c, k, ls) => Reaches(c, k, i, x)
    <3>1. CASE i = Len(q) + 1
      <4>1. p[i] = m /\ m.tokens[k] = s.known /\ s.known \in Nat
        BY <1>1, <3>1
      <4>2. s.current
        BY <1>4, <4>1 DEF FreshAt, Served
      <4> QED
        BY <1>4, <3>1, <4>1, <4>2 DEF FreshAt, Knows
    <3>2. CASE i # Len(q) + 1
      <4>1. i \in 1..Len(q)
        BY <1>1, <3>2
      <4>2. p[i] = q[i] /\ QuietFrom(q, i, k)
        BY <1>1, <4>1
      <4>3. q[i] \in Messages
        BY <4>1, KeyTypes
      <4>4. q[i].tokens[k] \in Nat
        BY <4>2, <4>3, MessageTypes
      <4> QED
        BY <1>4, <4>1, <4>2, <4>4 DEF FreshAt, Told
    <3> QED
      BY <3>1, <3>2
  <2> HIDE DEF p, q
  <2>3. PICK x \in Nat : /\ x = p[i].tokens[k]
                         /\ n <= x
                         /\ Newest(c, k, i, x)
                         /\ Exact(c, k, ls) => Reaches(c, k, i, x)
    BY <2>2
  <2>4. Newest(d, k, i, x) /\ (Reaches(c, k, i, x) => Reaches(d, k, i, x))
    BY <2>1, <2>3, SendsKnown DEF q
  <2> QED
    BY <1>3, <2>3, <2>4
<1> QED
  BY <1>3, <1>5, <1>6, <1>7 DEF FreshAt

\* One place further on no less is known, if m does not bring more.
LEMMA FurtherOn ==
  ASSUME NEW c \in Clients, NEW d \in Clients, NEW k \in Keys, NEW m \in Messages,
         Sends(c, d, m, k), NEW x \in Nat
  PROVE  /\ (Carries(m, k) => m.v <= x) /\ Newest(c, k, Len(c.stream.received) + 1, x) =>
              Newest(d, k, Len(c.stream.received) + 2, x)
         /\ ~Answer(m, k) /\ Reaches(c, k, Len(c.stream.received) + 1, x) =>
              Reaches(d, k, Len(c.stream.received) + 2, x)
<1> DEFINE q == c.stream.received
           p == d.stream.received
           i == Len(q) + 1
<1>1. /\ Len(q) \in Nat
      /\ p[i] = m
      /\ i \in 1..Len(q) + 1
      /\ i + 1 = Len(q) + 2
  BY SendsFields
<1>2. /\ Newest(c, k, i, x) => Newest(d, k, i, x)
      /\ ~Answer(m, k) /\ Reaches(c, k, i, x) => Reaches(d, k, i, x)
  BY <1>1, SendsKnown
<1> HIDE DEF p, q
<1>3. ASSUME Carries(m, k) => m.v <= x, Newest(d, k, i, x)
      PROVE  Newest(d, k, i + 1, x)
  <2>1. \A j \in 1..i : j = i \/ j \in 1..i-1
    BY <1>1
  <2>2. \A j \in 1..i-1 : Carries(p[j], k) => p[j].v <= x
    BY <1>3 DEF Newest, p
  <2>3. \A j \in 1..(i+1)-1 : Carries(p[j], k) => p[j].v <= x
    BY <1>1, <1>3, <2>1, <2>2
  <2> QED
    BY <1>3, <2>3 DEF Newest, p
<1>4. ASSUME Reaches(d, k, i, x)
      PROVE  Reaches(d, k, i + 1, x)
  <2>1. \A j \in 1..i-1 : j \in 1..(i+1)-1
    BY <1>1
  <2> QED
    BY <1>4, <2>1 DEF Reaches
<1> QED
  BY <1>1, <1>2, <1>3, <1>4 DEF q

\* The message is not about k.
LEMMA SendOther ==
  ASSUME NEW c \in Clients, NEW d \in Clients, NEW k \in Keys, NEW m \in Messages,
         NEW v \in Nat, NEW s \in [on : BOOLEAN, current : BOOLEAN, known : Nat],
         NEW n \in Nat, NEW ls, FreshAt(c, k, v, s, n, ls),
         Sends(c, d, m, k), d.stream.sent[k] = c.stream.sent[k],
         ~Answer(m, k), ~Carries(m, k),
         m.kind = "snapshot" => m.tokens[k] = s.known /\ (s.on => s.current)
  PROVE  FreshAt(d, k, v, s, n, ls)
<1> DEFINE i == Len(c.stream.received) + 1
<1>1. s.known \in Nat
  OBVIOUS
<1>2. AnswersFirst(c, d, m, k)
  BY DEF AnswersFirst
<1>3. Exact(d, k, ls) => Exact(c, k, ls)
  BY <1>2, SendsRest
<1>4. Watched(c, k) =>
        /\ s.current => n <= s.known /\ Newest(c, k, i, s.known)
        /\ Exact(c, k, ls) => Reaches(c, k, i, s.known)
  BY DEF FreshAt, Knows
<1>5. /\ Newest(c, k, i, s.known) => Newest(d, k, Len(c.stream.received) + 2, s.known)
      /\ Reaches(c, k, i, s.known) => Reaches(d, k, Len(c.stream.received) + 2, s.known)
  BY <1>1, FurtherOn
<1> QED
  BY <1>3, <1>4, <1>5, SendQuiet

\* The document is sent.
LEMMA SendDocument ==
  ASSUME NEW c \in Clients, NEW d \in Clients, NEW k \in Keys, NEW m \in Messages,
         NEW v \in Nat, NEW s \in [on : BOOLEAN, current : BOOLEAN, known : Nat],
         NEW n \in Nat, NEW ls, FreshAt(c, k, v, s, n, ls),
         Sends(c, d, m, k), d.stream.sent[k] = c.stream.sent[k],
         Carries(m, k), m.v = v, v > s.known
  PROVE  FreshAt(d, k, v, [s EXCEPT !.known = v], n, ls)
<1> DEFINE q == c.stream.received
           p == d.stream.received
           t == [s EXCEPT !.known = v]
<1>1. t.known = v /\ t.on = s.on /\ s.known \in Nat
  OBVIOUS
<1>2. v > 0
  BY <1>1
<1>3. ~Answer(m, k) /\ m.kind # "snapshot"
  BY MessageTypes
<1>4. n <= v /\ Newest(c, k, Len(q) + 1, v)
  BY DEF FreshAt, Ordered
<1>5. Newest(d, k, Len(q) + 2, v)
  BY <1>4, FurtherOn
<1>6. Reaches(d, k, Len(q) + 2, v)
  <2>1. /\ Len(q) \in Nat
        /\ Len(p) = Len(q) + 1
        /\ p[Len(q) + 1] = m
    BY SendsFields
  <2> HIDE DEF p, q
  <2>2. QuietFrom(p, Len(q) + 1, k)
    <3>1. \A j \in (Len(q) + 1)..Len(p) : j = Len(q) + 1
      BY <2>1
    <3> QED
      BY <1>3, <2>1, <3>1 DEF QuietFrom
  <2>3. Len(q) + 1 \in 1..(Len(q) + 2) - 1
    BY <2>1
  <2> QED
    BY <2>1, <2>2, <2>3 DEF Reaches, p
<1> HIDE DEF t
<1> QED
  BY <1>1, <1>2, <1>3, <1>4, <1>5, <1>6, SendQuiet DEF t

\* The backend says that it has sent everything.
LEMMA SendCurrent ==
  ASSUME NEW c \in Clients, NEW d \in Clients, NEW k \in Keys, NEW m \in Messages,
         NEW v \in Nat, NEW s \in [on : BOOLEAN, current : BOOLEAN, known : Nat],
         NEW n \in Nat, NEW ls, FreshAt(c, k, v, s, n, ls),
         Sends(c, d, m, k), d.stream.sent[k] = c.stream.sent[k],
         m.kind = "current", v = s.known
  PROVE  FreshAt(d, k, v, [s EXCEPT !.current = TRUE], n, ls)
<1> DEFINE q == c.stream.received
           t == [s EXCEPT !.current = TRUE]
<1>1. t.known = v /\ t.on = s.on
  OBVIOUS
<1>2. ~Answer(m, k) /\ ~Carries(m, k) /\ m.kind # "snapshot"
  BY DEF Answer, Carries
<1>3. n <= v /\ Newest(c, k, Len(q) + 1, v)
  BY DEF FreshAt, Ordered
<1>4. Newest(d, k, Len(q) + 2, v)
  BY <1>2, <1>3, FurtherOn
<1>5. AnswersFirst(c, d, m, k)
  BY <1>2 DEF AnswersFirst
<1>6. Exact(d, k, ls) => Exact(c, k, ls)
  BY <1>2, <1>5, SendsRest
<1>7. Watched(c, k) /\ Exact(c, k, ls) => Reaches(c, k, Len(q) + 1, v)
  BY DEF FreshAt, Knows
<1>8. Watched(c, k) /\ Exact(c, k, ls) => Reaches(d, k, Len(q) + 2, v)
  BY <1>2, <1>7, FurtherOn
<1> HIDE DEF t
<1> QED
  BY <1>1, <1>2, <1>3, <1>4, <1>6, <1>8, SendQuiet DEF t

\* The request to watch k is answered: the backend goes on from the version it names.
LEMMA SendAdded ==
  ASSUME NEW c \in Clients, NEW d \in Clients, NEW k \in Keys, NEW m \in Messages,
         NEW v \in Nat, NEW s, NEW n \in Nat, NEW ls, FreshAt(c, k, v, s, n, ls),
         Sends(c, d, m, k), c.stream.sent[k] # <<>>, d.stream.sent[k] = Tail(c.stream.sent[k]),
         Answer(m, k)
  PROVE  FreshAt(d, k, v, [on |-> TRUE, current |-> FALSE,
                           known |-> Head(c.stream.sent[k]).resume], n, ls)
<1> DEFINE q == c.stream.received
           p == d.stream.received
           x == Head(c.stream.sent[k]).resume
           t == [on |-> TRUE, current |-> FALSE, known |-> x]
<1>1. /\ Len(q) \in Nat
      /\ Len(p) = Len(q) + 1
      /\ \A i \in 1..Len(q) + 1 : ~QuietFrom(p, i, k)
  BY SendsFields
<1>2. AnswersFirst(c, d, m, k)
  BY DEF AnswersFirst
<1>3. ~Carries(m, k)
  BY DEF Answer, Carries
<1>4. /\ Ordered(d, k, v, n)
      /\ Resumable(d, k, ls)
      /\ Counted(d, k, ls)
      /\ Applicable(d, k, ls)
      /\ FreshView(d, k, n, ls)
      /\ k \in d.targets /\ d.stream.sent[k] # <<>> =>
           d.stream.sent[k][Len(d.stream.sent[k])].op = "watch"
  BY <1>2, <1>3, SendsRest
<1>5. t.on /\ ~t.current /\ t.known = x
  OBVIOUS
<1>6. k \notin ls => CanResume(c, k, x)
  <2>1. c.stream.sent[k] \in Seq(Requests)
    BY TailRequests
  <2>2. 1 \in 1..Len(c.stream.sent[k]) /\ Head(c.stream.sent[k]) = c.stream.sent[k][1]
    <3> HIDE DEF Requests
    <3> QED
      BY <2>1, EmptySeq
  <2> QED
    BY <2>2 DEF FreshAt, Resumable
<1> HIDE DEF t, x
<1>7. Served(d, k, t)
  BY <1>4, <1>5 DEF Served
<1>8. Knows(d, k, t, n, ls)
  <2>1. Exact(d, k, ls) => Reaches(d, k, Len(p) + 1, t.known)
    BY <1>5, <1>6 DEF Exact, Reaches, CanResume, Sends, SameCache
  <2> QED
    BY <1>5, <2>1 DEF Knows
<1>9. Told(d, k, n, ls)
  BY <1>1 DEF Told
<1> QED
  BY <1>4, <1>7, <1>8, <1>9 DEF FreshAt, t, x

\* The request is refused.
LEMMA SendRefusal ==
  ASSUME NEW c \in Clients, NEW d \in Clients, NEW k \in Keys, NEW m \in Messages,
         NEW v \in Nat, NEW s, NEW s2, NEW n \in Nat, NEW ls, FreshAt(c, k, v, s, n, ls),
         Sends(c, d, m, k), c.stream.sent[k] # <<>>, d.stream.sent[k] = Tail(c.stream.sent[k]),
         Refuses(m, k)
  PROVE  FreshAt(d, k, v, s2, n, ls)
<1> DEFINE q == c.stream.received
           p == d.stream.received
<1>1. /\ Len(q) \in Nat
      /\ Len(p) = Len(q) + 1
      /\ p[Len(q) + 1] = m
  BY SendsFields
<1>2. Answer(m, k) /\ ~Carries(m, k)
  BY DEF Answer, Carries, Refuses
<1>3. AnswersFirst(c, d, m, k)
  BY <1>2 DEF AnswersFirst
<1>4. Len(q) + 1 \in 1..Len(p)
  BY <1>1
<1>5. ~Watched(d, k)
  BY <1>1, <1>4 DEF Watched
<1> QED
  BY <1>2, <1>3, <1>5, SendsRest, UnwatchedKey

\* The request not to watch k any more is answered.
LEMMA SendRemoved ==
  ASSUME NEW c \in Clients, NEW d \in Clients, NEW k \in Keys, NEW m \in Messages,
         NEW v \in Nat, NEW s, NEW s2, NEW n \in Nat, NEW ls, FreshAt(c, k, v, s, n, ls),
         Sends(c, d, m, k), c.stream.sent[k] # <<>>, d.stream.sent[k] = Tail(c.stream.sent[k]),
         Head(c.stream.sent[k]).op = "unwatch", Answer(m, k)
  PROVE  FreshAt(d, k, v, s2, n, ls)
<1> DEFINE a == c.stream.sent[k]
           b == d.stream.sent[k]
<1>1. ~Carries(m, k)
  BY DEF Answer, Carries
<1>2. AnswersFirst(c, d, m, k)
  BY DEF AnswersFirst
<1>3. ASSUME k \in d.targets, b = <<>>
      PROVE  FALSE
  <2>1. k \in c.targets
    BY <1>3 DEF Sends
  <2>2. a[Len(a)].op = "watch"
    BY <2>1 DEF FreshAt, Served
  <2>3. a \in Seq(Requests)
    BY TailRequests
  <2>4. Len(a) = 1 /\ Head(a) = a[1]
    <3> HIDE DEF Requests, a
    <3>1. a # <<>> /\ Tail(a) = <<>>
      BY <1>3 DEF a
    <3>2. Tail(a) \in Seq(Requests)
      BY <2>3, <3>1
    <3>3. Len(Tail(a)) = 0
      BY <3>1, <3>2, EmptySeq
    <3>4. Len(Tail(a)) = Len(a) - 1 /\ Len(a) \in Nat /\ Head(a) = a[1]
      BY <2>3, <3>1
    <3> QED
      BY <3>3, <3>4
  <2> QED
    BY <2>2, <2>4
<1>4. ~Watched(d, k)
  BY <1>3 DEF Watched
<1> QED
  BY <1>1, <1>2, <1>4, SendsRest, UnwatchedKey

\* The document is changed.
LEMMA ChangeKey ==
  ASSUME NEW c \in Clients, NEW k \in Keys, NEW v \in Nat, NEW s, NEW n \in Nat, NEW ls,
         FreshAt(c, k, v, s, n, ls)
  PROVE  FreshAt(c, k, v + 1, s, n, ls)
<1> DEFINE q == c.stream.received
<1>1. n <= v + 1
  BY DEF FreshAt, Ordered
<1>2. Newest(c, k, Len(q) + 1, v + 1)
  <2>1. Newest(c, k, Len(q) + 1, v) /\ Len(q) \in Nat
    BY KeyTypes DEF FreshAt, Ordered
  <2>2. \A j \in 1..(Len(q) + 1) - 1 : Carries(q[j], k) => q[j].v \in Nat
    <3>1. \A j \in 1..(Len(q) + 1) - 1 : j \in 1..Len(q)
      <4> HIDE DEF q
      <4> QED
        BY <2>1
    <3>2. \A j \in 1..(Len(q) + 1) - 1 : q[j] \in Messages
      BY <3>1, KeyTypes
    <3> QED
      BY <3>2, MessageTypes
  <2>3. \A x \in Nat : x <= v => x <= v + 1
    OBVIOUS
  <2>4. Shown(c.cache[k]) <= v + 1
    BY <2>1, <2>3, KeyTypes DEF Newest
  <2>5. c.states[k].update # Unknown => c.states[k].update <= v + 1
    BY <2>1, <2>3, KeyTypes DEF Newest
  <2>6. \A j \in 1..(Len(q) + 1) - 1 : Carries(q[j], k) => q[j].v <= v + 1
    BY <2>1, <2>2, <2>3 DEF Newest
  <2> QED
    BY <2>4, <2>5, <2>6 DEF Newest
<1>3. Ordered(c, k, v + 1, n)
  BY <1>1, <1>2 DEF FreshAt, Ordered
<1> QED
  BY <1>3 DEF FreshAt

-----------------------------------------------------------------------------
(* Steps of the client, document by document.                              *)

\* The inductive invariant of SyncedIsFresh and NoLimbo.
WatchInv ==
  /\ BaseInv
  /\ BackendTypes
  /\ since \in [Keys -> Nat]
  /\ FreshInv

\* What an operation of the worker queue adds to the history.
History ==
  /\ since' = [k \in Keys |->
       IF client.listeners[k] = {} /\ client'.listeners[k] # {} THEN doc[k] ELSE since[k]]
  /\ lost' = lost \cup {k \in Keys : client'.states[k].pending < Due(client', k)}

\* A step of the worker queue records the history.
LEMMA RunHistory ==
  ASSUME NEW d, Run(d)
  PROVE  History
  BY DEF Run, History

\* A document's history: unless listening begins, the version is kept.
LEMMA HistoryFields ==
  ASSUME WatchInv, client' \in Clients, History, NEW k \in Keys
  PROVE  /\ since' \in [Keys -> Nat]
         /\ lost \subseteq lost'
         /\ Counted(client', k, lost')
         /\ since'[k] \in Nat
         /\ since'[k] <= doc[k]
         /\ client.current[k] => since'[k] = since[k]
         /\ client'.listeners[k] \subseteq client.listeners[k] => since'[k] = since[k]
<1>1. /\ client \in Clients
      /\ Agree(client)
      /\ doc \in [Keys -> Nat]
      /\ since \in [Keys -> Nat]
      /\ FreshAt(client, k, doc[k], srv[k], since[k], lost)
  BY DEF WatchInv, BaseInv, BackendTypes, FreshInv
<1>2. since[k] <= doc[k]
  BY <1>1 DEF FreshAt, Ordered
<1>3. since' \in [Keys -> Nat] /\ since'[k] \in Nat /\ since'[k] <= doc[k]
  BY <1>1, <1>2 DEF History
<1>4. lost \subseteq lost'
  BY DEF History
<1>5. client'.states[k].pending \in Int /\ Due(client', k) \in Nat
  BY KeyTypes, DueFields
<1>6. k \notin lost' => ~(client'.states[k].pending < Due(client', k))
  BY DEF History
<1>7. Counted(client', k, lost')
  BY <1>5, <1>6 DEF Counted
<1>8. client.current[k] => since'[k] = since[k]
  BY <1>1 DEF Agree, History
<1>9. client'.listeners[k] \subseteq client.listeners[k] => since'[k] = since[k]
  BY DEF History
<1> QED
  BY <1>3, <1>4, <1>7, <1>8, <1>9

\* The stream is not open afterwards.
LEMMA EndedKeys ==
  ASSUME WatchInv, BaseInv', History, doc' = doc, Ended(client, client')
  PROVE  FreshInv'
<1> SUFFICES ASSUME NEW k \in Keys
             PROVE  FreshAt(client', k, doc'[k], srv'[k], since'[k], lost')
  BY DEF FreshInv
<1>1. /\ client \in Clients
      /\ client' \in Clients
      /\ StreamPart(client')
      /\ doc[k] \in Nat
      /\ since[k] \in Nat
      /\ FreshAt(client, k, doc[k], srv[k], since[k], lost)
  BY DEF WatchInv, BaseInv, BackendTypes, FreshInv
<1>2. /\ lost \subseteq lost'
      /\ since'[k] \in Nat
      /\ since'[k] <= doc[k]
      /\ client.current[k] => since'[k] = since[k]
  BY <1>1, HistoryFields
<1>3. SameCache(client, client', k) /\ SameView(client, client', k, since[k], since'[k])
  BY <1>2 DEF Ended, Frame, ViewsEnd, NoCurrent, SameCache, SameView
<1>4. ~IsOpen(client'.stream)
  BY DEF Ended
<1> QED
  BY <1>1, <1>2, <1>3, <1>4, ClosedKey

\* No message and no request is sent, read or dropped.
LEMMA RestsKeys ==
  ASSUME WatchInv, BaseInv', History, UNCHANGED <<doc, srv>>, Rests(client, client')
  PROVE  FreshInv'
<1> SUFFICES ASSUME NEW k \in Keys
             PROVE  FreshAt(client', k, doc'[k], srv'[k], since'[k], lost')
  BY DEF FreshInv
<1>1. /\ client \in Clients
      /\ client' \in Clients
      /\ doc[k] \in Nat
      /\ since[k] \in Nat
      /\ FreshAt(client, k, doc[k], srv[k], since[k], lost)
  BY DEF WatchInv, BaseInv, BackendTypes, FreshInv
<1>2. lost \subseteq lost' /\ since'[k] = since[k]
  BY <1>1, HistoryFields DEF Rests, Frame
<1>3. SameCache(client, client', k) /\ SameView(client, client', k, since[k], since[k])
  BY DEF Rests, Frame, ViewsEnd, NoCurrent, SameCache, SameView
<1>4. /\ client'.states[k] = client.states[k]
      /\ client'.stream.sent[k] = client.stream.sent[k]
      /\ client'.stream.received = client.stream.received
      /\ IsOpen(client'.stream) <=> IsOpen(client.stream)
      /\ k \in client'.targets <=> k \in client.targets
  BY DEF Rests, Frame, SameMessages
<1> QED
  BY <1>1, <1>2, <1>3, <1>4, SameKey

\* The stream has opened: targets are asked for, and nothing is known of the others.
LEMMA ResumedKeys ==
  ASSUME WatchInv, BaseInv', History, doc' = doc, Resumed(client, client')
  PROVE  FreshInv'
<1> SUFFICES ASSUME NEW k \in Keys
             PROVE  FreshAt(client', k, doc'[k], srv'[k], since'[k], lost')
  BY DEF FreshInv
<1>1. /\ client \in Clients
      /\ client' \in Clients
      /\ StreamPart(client)
      /\ doc[k] \in Nat
      /\ since[k] \in Nat
      /\ FreshAt(client, k, doc[k], srv[k], since[k], lost)
  BY DEF WatchInv, BaseInv, BackendTypes, FreshInv
<1>2. lost \subseteq lost' /\ since'[k] = since[k] /\ Counted(client', k, lost')
  BY <1>1, HistoryFields DEF Resumed, Frame
<1>3. SameCache(client, client', k) /\ SameView(client, client', k, since[k], since[k])
  BY DEF Resumed, Frame, SameCache, SameView
<1>4. /\ client.stream.sent[k] = <<>>
      /\ client.stream.received = <<>>
      /\ client.states[k] = NoTarget
  BY <1>1 DEF Resumed, StreamPart, Silent, NoStatesAtAll
<1>5. client.states[k].update = Unknown
  BY <1>4 DEF NoTarget
<1>6. CASE k \in client.targets
  <2>1. /\ client'.states[k] = [client.states[k] EXCEPT !.pending = @ + 1]
        /\ client'.stream.sent[k]
             = Append(client.stream.sent[k], [op |-> "watch", resume |-> client.resume[k]])
        /\ client'.stream.received = client.stream.received
    BY <1>6 DEF Resumed, Awaits, Asks
  <2>2. since[k] <= doc[k]
    BY <1>1 DEF FreshAt, Ordered
  <2> QED
    BY <1>1, <1>2, <1>3, <1>5, <2>1, <2>2, AskedKey
<1>7. CASE k \notin client.targets
  <2>1. /\ client'.states[k] = client.states[k]
        /\ client'.stream.sent[k] = client.stream.sent[k]
        /\ client'.stream.received = client.stream.received
        /\ k \notin client'.targets
    BY <1>7 DEF Resumed, Awaits, Asks, Frame
  <2>2. Ordered(client', k, doc[k], since[k])
    BY <1>1, <1>3, <2>1 DEF FreshAt, Ordered, Newest, SameCache
  <2>3. Resumable(client', k, lost')
    BY <1>1, <1>2, <1>3, <2>1 DEF FreshAt, Resumable, CanResume, SameCache
  <2>4. Applicable(client', k, lost')
    BY <1>5, <2>1 DEF Applicable
  <2>5. FreshView(client', k, since[k], lost')
    BY <1>1, <1>2, <1>3 DEF FreshAt, FreshView, SameCache, SameView
  <2>6. ~Watched(client', k)
    BY <2>1 DEF Watched
  <2> QED
    BY <1>1, <1>2, <2>1, <2>2, <2>3, <2>4, <2>5, <2>6, UnwatchedKey
<1> QED
  BY <1>6, <1>7

\* Nothing about k is asked, or to k: a document beside the one listened to.
LEMMA BesideKey ==
  ASSUME WatchInv, client' \in Clients, StreamPart(client'), History, UNCHANGED <<doc, srv>>,
         NEW k \in Keys,
         client'.listeners[k] \subseteq client.listeners[k],
         SameCache(client, client', k),
         client'.current[k] = client.current[k],
         k \in client'.targets <=> k \in client.targets,
         \/ ~IsOpen(client'.stream)
         \/ /\ IsOpen(client'.stream) <=> IsOpen(client.stream)
            /\ client'.states[k] = client.states[k]
            /\ client'.stream.sent[k] = client.stream.sent[k]
            /\ client'.stream.received = client.stream.received
  PROVE  FreshAt(client', k, doc'[k], srv'[k], since'[k], lost')
<1>1. /\ client \in Clients
      /\ doc[k] \in Nat
      /\ since[k] \in Nat
      /\ FreshAt(client, k, doc[k], srv[k], since[k], lost)
  BY DEF WatchInv, BaseInv, BackendTypes, FreshInv
<1>2. lost \subseteq lost' /\ since'[k] = since[k] /\ since'[k] <= doc[k]
  BY HistoryFields
<1>3. SameView(client, client', k, since[k], since[k])
  BY DEF SameView
<1>4. CASE ~IsOpen(client'.stream)
  BY <1>1, <1>2, <1>3, <1>4, ClosedKey
<1>5. CASE /\ IsOpen(client'.stream) <=> IsOpen(client.stream)
           /\ client'.states[k] = client.states[k]
           /\ client'.stream.sent[k] = client.stream.sent[k]
           /\ client'.stream.received = client.stream.received
  BY <1>1, <1>2, <1>3, <1>5, SameKey
<1> QED
  BY <1>4, <1>5

\* A read starts to listen.
LEMMA ListenedKeys ==
  ASSUME WatchInv, BaseInv', History, UNCHANGED <<doc, srv>>,
         NEW r \in Reads, NEW j \in Keys, Listened(client, client', r, j)
  PROVE  FreshInv'
<1> SUFFICES ASSUME NEW k \in Keys
             PROVE  FreshAt(client', k, doc'[k], srv'[k], since'[k], lost')
  BY DEF FreshInv
<1>1. /\ client \in Clients
      /\ client' \in Clients
      /\ StreamPart(client')
      /\ Agree(client)
      /\ doc[k] \in Nat
      /\ since[k] \in Nat
      /\ FreshAt(client, k, doc[k], srv[k], since[k], lost)
  BY DEF WatchInv, BaseInv, BackendTypes, FreshInv
<1>2. /\ lost \subseteq lost'
      /\ since'[k] \in Nat
      /\ since'[k] <= doc[k]
      /\ client.current[k] => since'[k] = since[k]
  BY <1>1, HistoryFields
<1>3. /\ client'.targets = client.targets \cup {j}
      /\ client'.listeners = [client.listeners EXCEPT ![j] = @ \cup {r}]
      /\ client'.current = client.current
      /\ IsOpen(client'.stream) <=> IsOpen(client.stream)
      /\ SameCache(client, client', k)
      /\ client.listeners \in [Keys -> SUBSET Reads]
  BY <1>1 DEF Listened, SameCache, Clients
<1>4. SameView(client, client', k, since[k], since'[k])
  BY <1>2, <1>3 DEF SameView
<1>5. CASE ~IsOpen(client'.stream)
  BY <1>1, <1>2, <1>3, <1>4, <1>5, ClosedKey
<1>6. CASE SameMessages(client, client') /\ j \in client.targets
  <2>1. since'[k] = since[k]
    BY <1>1, <1>3, <1>6 DEF History, Agree
  <2>2. /\ client'.states[k] = client.states[k]
        /\ client'.stream.sent[k] = client.stream.sent[k]
        /\ client'.stream.received = client.stream.received
        /\ k \in client'.targets <=> k \in client.targets
    BY <1>3, <1>6 DEF SameMessages
  <2> QED
    BY <1>1, <1>2, <1>3, <1>4, <2>1, <2>2, SameKey
<1>7. CASE Requested(client, client', "watch", j) /\ j \notin client.targets
  <2>1. CASE k = j
    <3>1. ~client.current[k]
      BY <1>1, <1>7, <2>1 DEF Agree
    <3>2. /\ client'.states[k] = [client.states[k] EXCEPT !.pending = @ + 1]
          /\ client'.stream.sent[k]
               = Append(client.stream.sent[k], [op |-> "watch", resume |-> client.resume[k]])
          /\ client'.stream.received = client.stream.received
      BY <1>7, <2>1 DEF Requested, Awaits, Asks
    <3>3. ~client'.current[k] /\ SameCache(client, client', k)
      BY <1>3, <3>1
    <3> QED
      BY <1>1, <1>2, <1>4, <3>2, <3>3, AskedKey
  <2>2. CASE k # j
    <3>1. /\ client'.states[k] = client.states[k]
          /\ client'.stream.sent[k] = client.stream.sent[k]
          /\ client'.stream.received = client.stream.received
      BY <1>7, <2>2 DEF Requested, Awaits, Asks
    <3>2. client'.listeners[k] \subseteq client.listeners[k]
      BY <1>3, <2>2
    <3>3. k \in client'.targets <=> k \in client.targets
      BY <1>3, <2>2
    <3> QED
      BY <1>1, <1>3, <3>1, <3>2, <3>3, BesideKey
  <2> QED
    BY <2>1, <2>2
<1> QED
  BY <1>5, <1>6, <1>7 DEF Listened

\* A listener is removed.
LEMMA UnlistenedKeys ==
  ASSUME WatchInv, BaseInv', History, UNCHANGED <<doc, srv>>,
         NEW r \in Reads, NEW j \in Keys, Unlistened(client, client', r, j)
  PROVE  FreshInv'
<1> SUFFICES ASSUME NEW k \in Keys
             PROVE  FreshAt(client', k, doc'[k], srv'[k], since'[k], lost')
  BY DEF FreshInv
<1>1. /\ client \in Clients
      /\ client' \in Clients
      /\ StreamPart(client')
      /\ doc[k] \in Nat
      /\ since[k] \in Nat
      /\ FreshAt(client, k, doc[k], srv[k], since[k], lost)
  BY DEF WatchInv, BaseInv, BackendTypes, FreshInv
<1>2. /\ lost \subseteq lost'
      /\ since'[k] \in Nat
      /\ since'[k] <= doc[k]
  BY <1>1, HistoryFields
<1>3. SameCache(client, client', k) /\ client'.listeners[k] \subseteq client.listeners[k]
  <2>1. client.listeners \in [Keys -> SUBSET Reads]
    BY <1>1 DEF Clients
  <2>2. client'.listeners = [client.listeners EXCEPT ![j] = @ \ {r}]
    BY DEF Unlistened
  <2>3. client'.listeners[k] \subseteq client.listeners[k]
    BY <2>1, <2>2
  <2> QED
    BY <2>3 DEF Unlistened, SameCache
<1>4. CASE /\ SameMessages(client, client')
           /\ client'.targets = client.targets
           /\ client'.current = client.current
           /\ client'.stream = client.stream
  BY <1>1, <1>3, <1>4, BesideKey DEF SameMessages
<1>5. CASE /\ client'.targets = client.targets \ {j}
           /\ client'.current = [client.current EXCEPT ![j] = FALSE]
           /\ \/ ~IsOpen(client.stream) /\ ~IsOpen(client'.stream)
              \/ Requested(client, client', "unwatch", j)
  <2>1. client.current \in [Keys -> BOOLEAN]
    BY <1>1 DEF Clients
  <2>2. CASE k = j
    <3>1. ~client'.current[k] /\ k \notin client'.targets
      BY <1>5, <2>1, <2>2
    <3>2. SameView(client, client', k, since[k], since'[k])
      BY <3>1 DEF SameView
    <3>3. CASE ~IsOpen(client'.stream)
      BY <1>1, <1>2, <1>3, <3>2, <3>3, ClosedKey
    <3>4. CASE Requested(client, client', "unwatch", j)
      <4>1. /\ client'.states[k] = [client.states[k] EXCEPT !.pending = @ + 1]
            /\ client'.stream.sent[k]
                 = Append(client.stream.sent[k], [op |-> "unwatch", resume |-> client.resume[k]])
            /\ client'.stream.received = client.stream.received
        BY <2>2, <3>4 DEF Requested, Awaits, Asks
      <4> QED
        BY <1>1, <1>2, <1>3, <3>1, <3>2, <4>1, AskedKey
    <3> QED
      BY <1>5, <3>3, <3>4
  <2>3. CASE k # j
    <3>1. client'.current[k] = client.current[k] /\ (k \in client'.targets <=> k \in client.targets)
      BY <1>5, <2>1, <2>3
    <3>2. \/ ~IsOpen(client'.stream)
          \/ /\ IsOpen(client'.stream) <=> IsOpen(client.stream)
             /\ client'.states[k] = client.states[k]
             /\ client'.stream.sent[k] = client.stream.sent[k]
             /\ client'.stream.received = client.stream.received
      BY <1>5, <2>3 DEF Requested, Awaits, Asks
    <3> QED
      BY <1>1, <1>3, <3>1, <3>2, BesideKey
  <2> QED
    BY <2>2, <2>3
<1> QED
  BY <1>4, <1>5 DEF Unlistened

\* The first message has been taken from the stream.
LEMMA TakenFields ==
  ASSUME WatchInv, client' \in Clients, client.stream.received # <<>>,
         NEW c, Reading(client, c), NEW d \in Clients, Run(d),
         d.stream = c.stream, d.targets \subseteq c.targets,
         NEW k \in Keys, d.listeners[k] \subseteq c.listeners[k]
  PROVE  /\ client \in Clients
         /\ doc[k] \in Nat
         /\ srv[k] \in [on : BOOLEAN, current : BOOLEAN, known : Nat]
         /\ since[k] \in Nat
         /\ FreshAt(client, k, doc[k], srv[k], since[k], lost)
         /\ Takes(client, client', k)
         /\ lost \subseteq lost'
         /\ since'[k] = since[k]
         /\ Counted(client', k, lost')
         /\ client'.states = d.states
         /\ client'.targets = d.targets
         /\ client'.current = d.current
         /\ client'.cache = d.cache
         /\ client'.synced = d.synced
         /\ client'.resume = d.resume
<1>1. /\ client \in Clients
      /\ doc[k] \in Nat
      /\ srv[k] \in [on : BOOLEAN, current : BOOLEAN, known : Nat]
      /\ since[k] \in Nat
      /\ FreshAt(client, k, doc[k], srv[k], since[k], lost)
  BY DEF WatchInv, BaseInv, BackendTypes, FreshInv
<1>2. /\ client'.stream = d.stream
      /\ client'.listeners = d.listeners
      /\ client'.states = d.states
      /\ client'.targets = d.targets
      /\ client'.current = d.current
      /\ client'.cache = d.cache
      /\ client'.synced = d.synced
      /\ client'.resume = d.resume
  BY <1>1, RunFields
<1>3. Takes(client, client', k)
  BY <1>2 DEF Takes, Reading, StreamOnly, Frame
<1>4. client'.listeners[k] \subseteq client.listeners[k]
  BY <1>2 DEF Reading, StreamOnly, Frame
<1>5. History
  BY RunHistory
<1> QED
  BY <1>1, <1>2, <1>3, <1>4, <1>5, HistoryFields

\* A message has changed no more than the aggregator's state of targets.
LEMMA StateReadKey ==
  ASSUME WatchInv, client' \in Clients, UNCHANGED <<doc, srv>>, client.stream.received # <<>>,
         NEW c, Reading(client, c), NEW d, OnlyStates(c, d), Run(d), NEW k \in Keys, NEW m,
         m = Head(client.stream.received),
         \/ /\ ~Carries(m, k)
            /\ ~Answer(m, k)
            /\ d.states[k].pending = c.states[k].pending
            /\ d.states[k].added = c.states[k].added
            /\ d.states[k].update = c.states[k].update
         \/ /\ Answer(m, k)
            /\ ~Refuses(m, k)
            /\ d.states[k].pending = c.states[k].pending - 1
            /\ d.states[k].update = c.states[k].update
         \/ /\ Carries(m, k)
            /\ d.states[k].pending = c.states[k].pending
            /\ IF IsActiveTarget(c, k)
               THEN d.states[k].added = TRUE /\ d.states[k].update = m.v
               ELSE /\ d.states[k].added = c.states[k].added
                    /\ d.states[k].update = c.states[k].update
  PROVE  FreshAt(client', k, doc'[k], srv'[k], since'[k], lost')
<1>1. /\ client \in Clients
      /\ doc[k] \in Nat
      /\ srv[k] \in [on : BOOLEAN, current : BOOLEAN, known : Nat]
      /\ since[k] \in Nat
      /\ FreshAt(client, k, doc[k], srv[k], since[k], lost)
      /\ Takes(client, client', k)
      /\ lost \subseteq lost'
      /\ since'[k] = since[k]
      /\ Counted(client', k, lost')
      /\ client'.states = d.states
      /\ client'.current = d.current
      /\ client'.cache = d.cache
      /\ client'.synced = d.synced
      /\ client'.resume = d.resume
  BY TakenFields DEF OnlyStates, StreamOnly, Frame
<1>2. SameCache(client, client', k) /\ SameView(client, client', k, since[k], since[k])
  BY <1>1 DEF SameCache, SameView, OnlyStates, Reading, StreamOnly, Frame
<1>3. c.states = client.states /\ (IsActiveTarget(c, k) <=> IsActiveTarget(client, k))
  BY DEF Reading, IsActiveTarget, StreamOnly, Frame
<1>4. CASE /\ ~Carries(m, k)
           /\ ~Answer(m, k)
           /\ d.states[k].pending = c.states[k].pending
           /\ d.states[k].added = c.states[k].added
           /\ d.states[k].update = c.states[k].update
  BY <1>1, <1>2, <1>3, <1>4, ReadOther
<1>5. CASE /\ Answer(m, k)
           /\ ~Refuses(m, k)
           /\ d.states[k].pending = c.states[k].pending - 1
           /\ d.states[k].update = c.states[k].update
  BY <1>1, <1>2, <1>3, <1>5, ReadAnswer
<1>6. CASE /\ Carries(m, k)
           /\ d.states[k].pending = c.states[k].pending
           /\ IF IsActiveTarget(c, k)
              THEN d.states[k].added = TRUE /\ d.states[k].update = m.v
              ELSE /\ d.states[k].added = c.states[k].added
                   /\ d.states[k].update = c.states[k].update
  BY <1>1, <1>2, <1>3, <1>6, ReadDocument
<1> QED
  BY <1>4, <1>5, <1>6

\* A target is refused.
LEMMA RefusalKeys ==
  ASSUME WatchInv, BaseInv', UNCHANGED <<doc, srv>>, client.stream.received # <<>>,
         NEW c, Reading(client, c), NEW j \in Keys, Run(TargetError(c, j)),
         Head(client.stream.received).kind = "error",
         Head(client.stream.received).key = j
  PROVE  FreshInv'
<1> DEFINE d == TargetError(c, j)
           m == Head(client.stream.received)
<1> SUFFICES ASSUME NEW k \in Keys
             PROVE  FreshAt(client', k, doc'[k], srv'[k], since'[k], lost')
  BY DEF FreshInv
<1>1. client \in Clients /\ client' \in Clients /\ Agree(client) /\ c \in Clients
  BY DEF WatchInv, BaseInv, Reading
<1>2. /\ d \in Clients
      /\ d.stream = c.stream
      /\ d.cache = c.cache
      /\ d.synced = c.synced
      /\ d.resume = c.resume
      /\ d.targets = c.targets \ {j}
      /\ d.states[k].update = c.states[k].update
      /\ d.listeners[k] \subseteq c.listeners[k]
      /\ d.current[k] => c.current[k] /\ k # j
      /\ k # j => d.states[k] = c.states[k]
  <2>1. c.states \in [Keys -> TargetStates] /\ c.listeners \in [Keys -> SUBSET Reads]
           /\ c.current \in [Keys -> BOOLEAN]
    BY <1>1 DEF Clients
  <2>2. CASE j \notin c.targets
    <3>1. d = c
      BY <1>1, <2>2, TargetErrorFields
    <3>2. ~c.current[j]
      BY <1>1, <2>2 DEF Agree, Reading, StreamOnly, Frame
    <3> HIDE DEF d
    <3>3. c.targets \ {j} = c.targets
      BY <2>2
    <3> QED
      BY <1>1, <3>1, <3>2, <3>3
  <2>3. CASE j \in c.targets
    <3>1. /\ d \in Clients
          /\ d.stream = c.stream
          /\ d.cache = c.cache
          /\ d.synced = c.synced
          /\ d.resume = c.resume
          /\ d.targets = c.targets \ {j}
          /\ d.states = [c.states EXCEPT ![j] = [NoTarget EXCEPT !.update = c.states[j].update]]
          /\ d.current = [c.current EXCEPT ![j] = FALSE]
          /\ d.listeners = [c.listeners EXCEPT ![j] = {}]
      BY <1>1, <2>3, TargetErrorFields
    <3> HIDE DEF d
    <3>2. [NoTarget EXCEPT !.update = c.states[j].update].update = c.states[j].update
      BY DEF NoTarget
    <3> HIDE DEF NoTarget
    <3> QED
      BY <2>1, <3>1, <3>2
  <2> QED
    BY <2>2, <2>3
<1> HIDE DEF d
<1>3. Run(d)
  BY DEF d
<1>4. /\ doc[k] \in Nat
      /\ srv[k] \in [on : BOOLEAN, current : BOOLEAN, known : Nat]
      /\ since[k] \in Nat
      /\ FreshAt(client, k, doc[k], srv[k], since[k], lost)
      /\ Takes(client, client', k)
      /\ lost \subseteq lost'
      /\ since'[k] = since[k]
      /\ Counted(client', k, lost')
      /\ client'.states = d.states
      /\ client'.targets = d.targets
      /\ client'.current = d.current
      /\ client'.cache = d.cache
      /\ client'.synced = d.synced
      /\ client'.resume = d.resume
  BY <1>1, <1>2, <1>3, TakenFields
<1>5. /\ SameCache(client, client', k)
      /\ SameView(client, client', k, since[k], since[k])
      /\ c.states = client.states
  BY <1>2, <1>4 DEF SameCache, SameView, Reading, StreamOnly, Frame
<1>6. CASE k = j
  <2>1. ~client'.current[k] /\ k \notin client'.targets
    BY <1>2, <1>4, <1>6
  <2>2. client'.states[k].update = client.states[k].update
    BY <1>2, <1>4, <1>5
  <2> QED
    BY <1>1, <1>4, <1>5, <2>1, <2>2, ReadRefusal
<1>7. CASE k # j
  <2>1. client'.states[k] = client.states[k]
    BY <1>2, <1>4, <1>5, <1>7
  <2>2. ~Carries(m, k) /\ ~Answer(m, k)
    BY <1>7 DEF Carries, Answer
  <2> QED
    BY <1>1, <1>4, <1>5, <2>1, <2>2, ReadOther
<1> QED
  BY <1>6, <1>7

\* A snapshot.
LEMMA SnapshotKeys ==
  ASSUME WatchInv, BaseInv', UNCHANGED <<doc, srv>>, client.stream.received # <<>>,
         NEW c, Reading(client, c), NEW tokens \in [Keys -> Nat], Run(Snapshot(c, tokens)),
         Head(client.stream.received).kind = "snapshot",
         Head(client.stream.received).tokens = tokens
  PROVE  FreshInv'
<1> DEFINE d == Snapshot(c, tokens)
<1> SUFFICES ASSUME NEW k \in Keys
             PROVE  FreshAt(client', k, doc'[k], srv'[k], since'[k], lost')
  BY DEF FreshInv
<1>1. client \in Clients /\ client' \in Clients /\ Agree(client) /\ c \in Clients
  BY DEF WatchInv, BaseInv, Reading
<1>2. d \in Clients /\ Applies(c, d, tokens)
  BY <1>1, SnapshotFields
<1>3. Run(d)
  OBVIOUS
<1> HIDE DEF d
<1>4. /\ d.stream = c.stream
      /\ d.targets = c.targets
      /\ d.listeners = c.listeners
      /\ d.cache[k] = Stored(c.cache[k], UpdateOf(c, k))
      /\ d.current[k] = ViewOf(c, k)
      /\ d.synced[k] = (c.synced[k] \/ (IsActiveTarget(c, k) /\ c.states[k].added))
      /\ d.resume[k] = (IF IsActiveTarget(c, k) THEN tokens[k] ELSE c.resume[k])
  <2>1. /\ d.cache[k] = Stored(c.cache[k], UpdateOf(c, k))
        /\ d.current[k] = ViewOf(c, k)
    <3>1. /\ d.cache = [j \in Keys |-> Stored(c.cache[j], UpdateOf(c, j))]
          /\ d.current = [j \in Keys |-> ViewOf(c, j)]
      BY <1>2 DEF Applies
    <3> QED
      BY <3>1
  <2>2. d.synced[k] = (c.synced[k] \/ (IsActiveTarget(c, k) /\ c.states[k].added))
    <3>1. d.synced = [j \in Keys |-> c.synced[j] \/ (IsActiveTarget(c, j) /\ c.states[j].added)]
      BY <1>2 DEF Applies
    <3> QED
      BY <3>1
  <2>3. d.resume[k] = (IF IsActiveTarget(c, k) THEN tokens[k] ELSE c.resume[k])
    BY <1>2 DEF Applies
  <2> QED
    BY <1>2, <2>1, <2>2, <2>3 DEF Applies
<1>5. d.states[k].pending = c.states[k].pending /\ d.states[k].update = Unknown
  <2>1. c.states[k] \in TargetStates
    BY <1>1 DEF Clients
  <2>2. d.states[k] = [c.states[k] EXCEPT !.added = c.states[k].added /\ ~IsActiveTarget(c, k),
                                          !.update = Unknown]
    BY <1>2 DEF Applies
  <2> QED
    BY <2>1, <2>2 DEF TargetStates
<1>6. /\ doc[k] \in Nat
      /\ srv[k] \in [on : BOOLEAN, current : BOOLEAN, known : Nat]
      /\ since[k] \in Nat
      /\ FreshAt(client, k, doc[k], srv[k], since[k], lost)
      /\ Takes(client, client', k)
      /\ lost \subseteq lost'
      /\ since'[k] = since[k]
      /\ Counted(client', k, lost')
      /\ client'.states = d.states
      /\ client'.current = d.current
      /\ client'.cache = d.cache
      /\ client'.synced = d.synced
      /\ client'.resume = d.resume
  BY <1>1, <1>2, <1>3, <1>4, TakenFields
<1>7. /\ c.states = client.states
      /\ c.cache = client.cache
      /\ c.synced = client.synced
      /\ c.resume = client.resume
      /\ c.current = client.current
      /\ c.targets = client.targets
      /\ c.listeners = client.listeners
  BY DEF Reading, StreamOnly, Frame
<1>8. /\ IsActiveTarget(c, k) <=> IsActiveTarget(client, k)
      /\ UpdateOf(c, k) = UpdateOf(client, k)
      /\ ViewOf(c, k) = ViewOf(client, k)
  BY <1>7 DEF IsActiveTarget, UpdateOf, ViewOf
<1>9. client.current[k] => k \in client.targets
  BY <1>1 DEF Agree
<1>10. /\ client'.cache[k] = Stored(client.cache[k], UpdateOf(client, k))
       /\ client'.current[k] = ViewOf(client, k)
       /\ client'.resume[k] = (IF IsActiveTarget(client, k)
                               THEN Head(client.stream.received).tokens[k] ELSE client.resume[k])
       /\ client'.states[k].pending = client.states[k].pending
       /\ client'.states[k].update = Unknown
  BY <1>4, <1>5, <1>6, <1>7, <1>8
<1>11. client'.synced[k]
         = (client.synced[k] \/ (IsActiveTarget(client, k) /\ client.states[k].added))
  <2>1. client'.synced[k] = (c.synced[k] \/ (IsActiveTarget(c, k) /\ c.states[k].added))
    BY <1>4, <1>6
  <2>2. IsActiveTarget(c, k) = IsActiveTarget(client, k)
    BY <1>7 DEF IsActiveTarget
  <2> QED
    BY <1>7, <2>1, <2>2
<1> QED
  BY <1>1, <1>6, <1>9, <1>10, <1>11, ReadSnapshot

\* The client reads a message.
LEMMA OnStreamReadKeys ==
  ASSUME WatchInv, BaseInv', OnStreamRead
  PROVE  FreshInv'
<1> DEFINE m == Head(client.stream.received)
           c == UpdateState([client EXCEPT !.stream.received = Tail(@)], "Online")
<1>1. client \in Clients /\ client' \in Clients /\ StreamPart(client)
  BY DEF WatchInv, BaseInv
<1>2. /\ client.stream.received # <<>>
      /\ Run(OnWatchStreamChange([client EXCEPT !.stream.received = Tail(@)], m))
      /\ UNCHANGED <<doc, srv>>
  BY DEF OnStreamRead, serverVars
<1>3. Reading(client, c)
  BY <1>1, <1>2, ReadingFields
<1>4. m \in Messages
  BY <1>1, <1>2, ReceivedFields
<1>5. c \in Clients
  BY <1>3 DEF Reading
<1>6. Run(CASE m.kind = "added"    -> Added(c, m.key)
            [] m.kind = "removed"  -> Removed(c, m.key)
            [] m.kind = "current"  -> Current(c, m.key)
            [] m.kind = "doc"      -> Document(c, m.key, m.v)
            [] m.kind = "error"    -> TargetError(c, m.key)
            [] m.kind = "snapshot" -> Snapshot(c, m.tokens))
  BY <1>2 DEF OnWatchStreamChange
<1>7. m = Head(client.stream.received)
  OBVIOUS
<1> HIDE DEF c, m
<1>8. c.states \in [Keys -> TargetStates]
  BY <1>5 DEF Clients
<1>9. CASE m.kind = "added"
  <2> DEFINE j == m.key
             d == Added(c, j)
             n == c.states[j].pending - 1
             t == [c.states[j] EXCEPT !.pending = n, !.added = IF n = 0 THEN FALSE ELSE c.states[j].added]
  <2>1. Run(d) /\ j \in Keys
    BY <1>4, <1>6, <1>9 DEF Messages
  <2>2. BecomesState(c, d, j, t)
    BY <1>5, <2>1, AddedFields
  <2>3. t.pending = c.states[j].pending - 1 /\ t.update = c.states[j].update
    BY <1>8, <2>1 DEF TargetStates
  <2> HIDE DEF d, t
  <2>4. OnlyStates(c, d) /\ d.states = [c.states EXCEPT ![j] = t]
    BY <2>2 DEF BecomesState
  <2> SUFFICES ASSUME NEW k \in Keys
               PROVE  FreshAt(client', k, doc'[k], srv'[k], since'[k], lost')
    BY DEF FreshInv
  <2>5. CASE k = j
    <3>1. Answer(m, k) /\ ~Refuses(m, k)
      BY <1>9, <2>5 DEF Answer, Refuses
    <3>2. d.states[k] = t
      BY <1>8, <2>1, <2>4, <2>5
    <3>3. /\ d.states[k].pending = c.states[k].pending - 1
          /\ d.states[k].update = c.states[k].update
      BY <2>3, <2>5, <3>2
    <3> QED
      BY <1>1, <1>2, <1>3, <1>7, <2>1, <2>4, <3>1, <3>3, StateReadKey
  <2>6. CASE k # j
    <3>1. ~Answer(m, k) /\ ~Carries(m, k)
      BY <1>9, <2>6 DEF Answer, Carries
    <3>2. d.states[k] = c.states[k]
      BY <1>8, <2>1, <2>4, <2>6
    <3> QED
      BY <1>1, <1>2, <1>3, <1>7, <2>1, <2>4, <3>1, <3>2, StateReadKey
  <2> QED
    BY <2>5, <2>6
<1>10. CASE m.kind = "removed"
  <2> DEFINE j == m.key
             d == Removed(c, j)
             n == c.states[j].pending - 1
             t == IF n = 0 THEN [NoTarget EXCEPT !.update = c.states[j].update]
                  ELSE [c.states[j] EXCEPT !.pending = n]
  <2>1. Run(d) /\ j \in Keys
    BY <1>4, <1>6, <1>10 DEF Messages
  <2>2. BecomesState(c, d, j, t)
    BY <1>5, <2>1, RemovedFields
  <2>3. t.pending = c.states[j].pending - 1 /\ t.update = c.states[j].update
    BY <1>8, <2>1 DEF TargetStates, NoTarget
  <2> HIDE DEF d, t
  <2>4. OnlyStates(c, d) /\ d.states = [c.states EXCEPT ![j] = t]
    BY <2>2 DEF BecomesState
  <2> SUFFICES ASSUME NEW k \in Keys
               PROVE  FreshAt(client', k, doc'[k], srv'[k], since'[k], lost')
    BY DEF FreshInv
  <2>5. CASE k = j
    <3>1. Answer(m, k) /\ ~Refuses(m, k)
      BY <1>10, <2>5 DEF Answer, Refuses
    <3>2. d.states[k] = t
      BY <1>8, <2>1, <2>4, <2>5
    <3>3. /\ d.states[k].pending = c.states[k].pending - 1
          /\ d.states[k].update = c.states[k].update
      BY <2>3, <2>5, <3>2
    <3> QED
      BY <1>1, <1>2, <1>3, <1>7, <2>1, <2>4, <3>1, <3>3, StateReadKey
  <2>6. CASE k # j
    <3>1. ~Answer(m, k) /\ ~Carries(m, k)
      BY <1>10, <2>6 DEF Answer, Carries
    <3>2. d.states[k] = c.states[k]
      BY <1>8, <2>1, <2>4, <2>6
    <3> QED
      BY <1>1, <1>2, <1>3, <1>7, <2>1, <2>4, <3>1, <3>2, StateReadKey
  <2> QED
    BY <2>5, <2>6
<1>11. CASE m.kind = "current"
  <2> DEFINE j == m.key
             d == Current(c, j)
             t == [c.states[j] EXCEPT !.current = TRUE]
  <2>1. Run(d) /\ j \in Keys
    BY <1>4, <1>6, <1>11 DEF Messages
  <2>2. IF IsActiveTarget(c, j) THEN BecomesState(c, d, j, t) ELSE d = c
    BY <1>5, <2>1, CurrentFields
  <2>3. /\ t.pending = c.states[j].pending
        /\ t.added = c.states[j].added
        /\ t.update = c.states[j].update
    BY <1>8, <2>1 DEF TargetStates
  <2> HIDE DEF d, t
  <2>4. OnlyStates(c, d) /\ (d.states = c.states \/ d.states = [c.states EXCEPT ![j] = t])
    BY <1>5, <2>2, SameStates DEF BecomesState
  <2> SUFFICES ASSUME NEW k \in Keys
               PROVE  FreshAt(client', k, doc'[k], srv'[k], since'[k], lost')
    BY DEF FreshInv
  <2>5. ~Answer(m, k) /\ ~Carries(m, k)
    BY <1>11 DEF Answer, Carries
  <2>6. d.states[k] = c.states[k] \/ (k = j /\ d.states[k] = t)
    BY <1>8, <2>1, <2>4
  <2>7. /\ d.states[k].pending = c.states[k].pending
        /\ d.states[k].added = c.states[k].added
        /\ d.states[k].update = c.states[k].update
    BY <2>3, <2>6
  <2> QED
    BY <1>1, <1>2, <1>3, <1>7, <2>1, <2>4, <2>5, <2>7, StateReadKey
<1>12. CASE m.kind = "doc"
  <2> DEFINE j == m.key
             d == Document(c, j, m.v)
             t == [c.states[j] EXCEPT !.added = TRUE, !.update = m.v]
  <2>1. Run(d) /\ j \in Keys /\ m.v \in Nat
    BY <1>4, <1>6, <1>12 DEF Messages
  <2>2. IF IsActiveTarget(c, j) THEN BecomesState(c, d, j, t) ELSE d = c
    BY <1>5, <2>1, DocumentFields
  <2>3. t.pending = c.states[j].pending /\ t.added = TRUE /\ t.update = m.v
    BY <1>8, <2>1 DEF TargetStates
  <2> HIDE DEF d, t
  <2>4. /\ OnlyStates(c, d)
        /\ d.states = IF IsActiveTarget(c, j) THEN [c.states EXCEPT ![j] = t] ELSE c.states
    BY <1>5, <2>2, SameStates DEF BecomesState
  <2> SUFFICES ASSUME NEW k \in Keys
               PROVE  FreshAt(client', k, doc'[k], srv'[k], since'[k], lost')
    BY DEF FreshInv
  <2>5. CASE k = j
    <3>1. Carries(m, k)
      BY <1>12, <2>5 DEF Carries
    <3>2. d.states[k] = IF IsActiveTarget(c, k) THEN t ELSE c.states[k]
      BY <1>8, <2>1, <2>4, <2>5
    <3>3. /\ d.states[k].pending = c.states[k].pending
          /\ IF IsActiveTarget(c, k)
             THEN d.states[k].added = TRUE /\ d.states[k].update = m.v
             ELSE d.states[k].added = c.states[k].added /\ d.states[k].update = c.states[k].update
      BY <2>3, <2>5, <3>2
    <3> QED
      BY <1>1, <1>2, <1>3, <1>7, <2>1, <2>4, <3>1, <3>3, StateReadKey
  <2>6. CASE k # j
    <3>1. ~Answer(m, k) /\ ~Carries(m, k)
      BY <1>12, <2>6 DEF Answer, Carries
    <3>2. d.states[k] = c.states[k]
      BY <1>8, <2>1, <2>4, <2>6
    <3> QED
      BY <1>1, <1>2, <1>3, <1>7, <2>1, <2>4, <3>1, <3>2, StateReadKey
  <2> QED
    BY <2>5, <2>6
<1>13. CASE m.kind = "error"
  <2>1. Run(TargetError(c, m.key)) /\ m.key \in Keys
    BY <1>4, <1>6, <1>13 DEF Messages
  <2> QED
    BY <1>2, <1>3, <1>7, <1>13, <2>1, RefusalKeys
<1>14. CASE m.kind = "snapshot"
  <2>1. Run(Snapshot(c, m.tokens)) /\ m.tokens \in [Keys -> Nat]
    BY <1>4, <1>6, <1>14 DEF Messages
  <2> QED
    BY <1>2, <1>3, <1>7, <1>14, <2>1, SnapshotKeys
<1>15. m.kind \in {"added", "removed", "current", "doc", "error", "snapshot"}
  BY <1>4 DEF Messages
<1> QED
  BY <1>9, <1>10, <1>11, <1>12, <1>13, <1>14, <1>15

-----------------------------------------------------------------------------
(* Steps of the backend, document by document.                             *)

\* A reply is one message about k, and q is what is left of the requests for k.
LEMMA ReplySends ==
  ASSUME client \in Clients, NEW m \in Messages, NEW k \in Keys, NEW q \in Seq(Requests),
         Reply(m, k, q), NEW j \in Keys
  PROVE  /\ client' \in Clients
         /\ Sends(client, client', m, j)
         /\ client'.stream.sent[j] = IF j = k THEN q ELSE client.stream.sent[j]
         /\ since' = since
         /\ lost' = lost
<1>1. client' = Replies(client, m, k, q)
  BY DEF Reply, Replies
<1>2. Replied(client, client', m, k, q)
  BY <1>1, ReplyFields
<1>3. client.stream.sent \in [Keys -> Seq(Requests)]
  BY DEF Clients, Streams
<1>4. client'.stream.sent[j] = IF j = k THEN q ELSE client.stream.sent[j]
  <2>1. client'.stream.sent = [client.stream.sent EXCEPT ![k] = q]
    BY <1>2 DEF Replied
  <2> QED
    BY <1>3, <2>1
<1>5. IsOpen(client.stream) /\ IsOpen(client'.stream)
  BY <1>2 DEF Reply, Replied, IsOpen
<1>6. Sends(client, client', m, j)
  BY <1>2, <1>5 DEF Sends, Replied, SameCache, StreamOnly, Frame
<1> QED
  BY <1>2, <1>4, <1>6 DEF Reply, historyVars, Replied

\* The documents a message other than a snapshot is not about.
LEMMA ReplyOthers ==
  ASSUME WatchInv, NEW m \in Messages, NEW k \in Keys, NEW q \in Seq(Requests), Reply(m, k, q),
         m.kind # "snapshot", m.key = k, NEW j \in Keys \ {k},
         doc'[j] = doc[j], srv'[j] = srv[j]
  PROVE  FreshAt(client', j, doc'[j], srv'[j], since'[j], lost')
<1>1. /\ client \in Clients
      /\ doc[j] \in Nat
      /\ srv[j] \in [on : BOOLEAN, current : BOOLEAN, known : Nat]
      /\ since[j] \in Nat
      /\ FreshAt(client, j, doc[j], srv[j], since[j], lost)
  BY DEF WatchInv, BaseInv, BackendTypes, FreshInv
<1>2. /\ client' \in Clients
      /\ Sends(client, client', m, j)
      /\ client'.stream.sent[j] = client.stream.sent[j]
      /\ since' = since
      /\ lost' = lost
  BY <1>1, ReplySends
<1>3. ~Answer(m, j) /\ ~Carries(m, j)
  BY DEF Answer, Carries
<1> QED
  BY <1>1, <1>2, <1>3, SendOther

\* The backend answers a request, or sends what has changed.
LEMMA ServerKeys ==
  ASSUME WatchInv, BaseInv', Server
  PROVE  FreshInv'
<1>1. client \in Clients
  BY DEF WatchInv, BaseInv
<1>2. PICK k \in Keys : \/ ServerWatches(k) \/ ServerRejects(k) \/ ServerUnwatches(k)
                        \/ ServerSendsDocument(k) \/ ServerIsCurrent(k) \/ ServerSnapshot(k)
  BY DEF Server
<1> DEFINE a == client.stream.sent[k]
           b == Tail(a)
<1>3. a \in Seq(Requests) /\ (a # <<>> => b \in Seq(Requests))
  BY <1>1, TailRequests
<1>4. /\ doc \in [Keys -> Nat]
      /\ srv \in [Keys -> [on : BOOLEAN, current : BOOLEAN, known : Nat]]
      /\ doc[k] \in Nat
      /\ srv[k] \in [on : BOOLEAN, current : BOOLEAN, known : Nat]
      /\ since[k] \in Nat
      /\ FreshAt(client, k, doc[k], srv[k], since[k], lost)
  BY DEF WatchInv, BackendTypes, FreshInv
<1> SUFFICES ASSUME NEW j \in Keys
             PROVE  FreshAt(client', j, doc'[j], srv'[j], since'[j], lost')
  BY DEF FreshInv
<1>5. CASE ServerWatches(k)
  <2> DEFINE m == [kind |-> "added", key |-> k]
             s == [on |-> TRUE, current |-> FALSE, known |-> Head(a).resume]
  <2>1. m \in Messages /\ m.kind = "added" /\ m.key = k
    BY DEF Messages
  <2>2. /\ a # <<>>
        /\ Reply(m, k, b)
        /\ srv' = [srv EXCEPT ![k] = s]
        /\ doc' = doc
    BY <1>5 DEF ServerWatches
  <2> HIDE DEF m, s
  <2>3. CASE j = k
    <3> HIDE DEF b
    <3>1. /\ client' \in Clients
          /\ Sends(client, client', m, k)
          /\ client'.stream.sent[k] = b
          /\ since' = since
          /\ lost' = lost
      BY <1>1, <1>3, <2>1, <2>2, ReplySends
    <3>2. Answer(m, k) /\ srv'[k] = s
      BY <1>4, <2>1, <2>2 DEF Answer
    <3>3. FreshAt(client', k, doc[k], s, since[k], lost)
      BY <1>1, <1>4, <2>1, <2>2, <3>1, <3>2, SendAdded DEF b, s
    <3> QED
      BY <2>2, <2>3, <3>1, <3>2, <3>3
  <2>4. CASE j # k
    BY <1>3, <1>4, <2>1, <2>2, <2>4, ReplyOthers
  <2> QED
    BY <2>3, <2>4
<1>6. CASE ServerRejects(k)
  <2> DEFINE m == [kind |-> "error", key |-> k]
  <2>1. m \in Messages /\ m.kind = "error" /\ m.key = k
    BY DEF Messages
  <2>2. /\ a # <<>>
        /\ Reply(m, k, b)
        /\ srv' = srv
        /\ doc' = doc
    BY <1>6 DEF ServerRejects, serverVars
  <2> HIDE DEF m
  <2>3. CASE j = k
    <3> HIDE DEF b
    <3>1. /\ client' \in Clients
          /\ Sends(client, client', m, k)
          /\ client'.stream.sent[k] = b
          /\ since' = since
          /\ lost' = lost
      BY <1>1, <1>3, <2>1, <2>2, ReplySends
    <3>2. Refuses(m, k)
      BY <2>1 DEF Refuses
    <3> QED
      BY <1>1, <1>4, <2>1, <2>2, <2>3, <3>1, <3>2, SendRefusal DEF b
  <2>4. CASE j # k
    BY <1>3, <1>4, <2>1, <2>2, <2>4, ReplyOthers
  <2> QED
    BY <2>3, <2>4
<1>7. CASE ServerUnwatches(k)
  <2> DEFINE m == [kind |-> "removed", key |-> k]
  <2>1. m \in Messages /\ m.kind = "removed" /\ m.key = k
    BY DEF Messages
  <2>2. /\ a # <<>>
        /\ Head(a).op = "unwatch"
        /\ Reply(m, k, b)
        /\ srv' = [srv EXCEPT ![k] = Off]
        /\ doc' = doc
    BY <1>7 DEF ServerUnwatches
  <2> HIDE DEF m
  <2>3. CASE j = k
    <3> HIDE DEF b
    <3>1. /\ client' \in Clients
          /\ Sends(client, client', m, k)
          /\ client'.stream.sent[k] = b
          /\ since' = since
          /\ lost' = lost
      BY <1>1, <1>3, <2>1, <2>2, ReplySends
    <3>2. Answer(m, k)
      BY <2>1 DEF Answer
    <3> QED
      BY <1>1, <1>4, <2>1, <2>2, <2>3, <3>1, <3>2, SendRemoved DEF b
  <2>4. CASE j # k
    BY <1>3, <1>4, <2>1, <2>2, <2>4, ReplyOthers
  <2> QED
    BY <2>3, <2>4
<1>8. CASE ServerSendsDocument(k)
  <2> DEFINE m == [kind |-> "doc", key |-> k, v |-> doc[k]]
  <2>1. m \in Messages /\ m.kind = "doc" /\ m.key = k /\ m.v = doc[k]
    BY <1>4 DEF Messages
  <2>2. /\ doc[k] > srv[k].known
        /\ Reply(m, k, a)
        /\ srv' = [srv EXCEPT ![k] = [srv[k] EXCEPT !.known = doc[k]]]
        /\ doc' = doc
    BY <1>8 DEF ServerSendsDocument
  <2> HIDE DEF m
  <2>3. CASE j = k
    <3>1. /\ client' \in Clients
          /\ Sends(client, client', m, k)
          /\ client'.stream.sent[k] = a
          /\ since' = since
          /\ lost' = lost
      BY <1>1, <1>3, <2>1, <2>2, ReplySends
    <3>2. Carries(m, k)
      BY <2>1 DEF Carries
    <3>3. srv'[k] = [srv[k] EXCEPT !.known = doc[k]]
      BY <1>4, <2>2
    <3>4. FreshAt(client', k, doc[k], [srv[k] EXCEPT !.known = doc[k]], since[k], lost)
      BY <1>1, <1>4, <2>1, <2>2, <3>1, <3>2, SendDocument
    <3> QED
      BY <2>2, <2>3, <3>1, <3>3, <3>4
  <2>4. CASE j # k
    BY <1>3, <1>4, <2>1, <2>2, <2>4, ReplyOthers
  <2> QED
    BY <2>3, <2>4
<1>9. CASE ServerIsCurrent(k)
  <2> DEFINE m == [kind |-> "current", key |-> k]
  <2>1. m \in Messages /\ m.kind = "current" /\ m.key = k
    BY DEF Messages
  <2>2. /\ doc[k] = srv[k].known
        /\ Reply(m, k, a)
        /\ srv' = [srv EXCEPT ![k] = [srv[k] EXCEPT !.current = TRUE]]
        /\ doc' = doc
    BY <1>9 DEF ServerIsCurrent
  <2> HIDE DEF m
  <2>3. CASE j = k
    <3>1. /\ client' \in Clients
          /\ Sends(client, client', m, k)
          /\ client'.stream.sent[k] = a
          /\ since' = since
          /\ lost' = lost
      BY <1>1, <1>3, <2>1, <2>2, ReplySends
    <3>2. srv'[k] = [srv[k] EXCEPT !.current = TRUE]
      BY <1>4, <2>2
    <3>3. FreshAt(client', k, doc[k], [srv[k] EXCEPT !.current = TRUE], since[k], lost)
      BY <1>1, <1>4, <2>1, <2>2, <3>1, SendCurrent
    <3> QED
      BY <2>2, <2>3, <3>1, <3>2, <3>3
  <2>4. CASE j # k
    BY <1>3, <1>4, <2>1, <2>2, <2>4, ReplyOthers
  <2> QED
    BY <2>3, <2>4
<1>10. CASE ServerSnapshot(k)
  <2> DEFINE t == [i \in Keys |-> srv[i].known]
             m == [kind |-> "snapshot", tokens |-> t]
  <2>1. t \in [Keys -> Nat] /\ t[j] = srv[j].known
    BY <1>4
  <2>2. m \in Messages /\ m.kind = "snapshot" /\ m.tokens = t
    <3> HIDE DEF t
    <3> QED
      BY <2>1 DEF Messages
  <2>3. /\ srv[j].on => srv[j].current
        /\ Reply(m, k, a)
        /\ srv' = srv
        /\ doc' = doc
    BY <1>10 DEF ServerSnapshot
  <2> HIDE DEF m, t
  <2>4. /\ client' \in Clients
        /\ Sends(client, client', m, j)
        /\ client'.stream.sent[j] = client.stream.sent[j]
        /\ since' = since
        /\ lost' = lost
    BY <1>1, <1>3, <2>2, <2>3, ReplySends
  <2>5. ~Answer(m, j) /\ ~Carries(m, j)
    BY <2>2 DEF Answer, Carries
  <2>6. /\ doc[j] \in Nat
        /\ srv[j] \in [on : BOOLEAN, current : BOOLEAN, known : Nat]
        /\ since[j] \in Nat
        /\ FreshAt(client, j, doc[j], srv[j], since[j], lost)
    BY DEF WatchInv, BackendTypes, FreshInv
  <2>7. m.tokens[j] = srv[j].known
    BY <2>1, <2>2
  <2> QED
    BY <1>1, <2>2, <2>3, <2>4, <2>5, <2>6, <2>7, SendOther
<1> QED
  BY <1>2, <1>5, <1>6, <1>7, <1>8, <1>9, <1>10

\* The document is changed.
LEMMA ChangeKeys ==
  ASSUME WatchInv, NEW k \in Keys, Change(k)
  PROVE  FreshInv'
<1> SUFFICES ASSUME NEW j \in Keys
             PROVE  FreshAt(client', j, doc'[j], srv'[j], since'[j], lost')
  BY DEF FreshInv
<1>1. /\ client \in Clients
      /\ doc \in [Keys -> Nat]
      /\ doc[j] \in Nat
      /\ since[j] \in Nat
      /\ FreshAt(client, j, doc[j], srv[j], since[j], lost)
  BY DEF WatchInv, BaseInv, BackendTypes, FreshInv
<1>2. /\ client' = client
      /\ srv' = srv
      /\ since' = since
      /\ lost' = lost
      /\ doc' = [doc EXCEPT ![k] = @ + 1]
  BY DEF Change, historyVars
<1>3. doc'[j] = doc[j] \/ doc'[j] = doc[j] + 1
  BY <1>1, <1>2
<1>4. FreshAt(client, j, doc[j] + 1, srv[j], since[j], lost)
  BY <1>1, ChangeKey
<1> QED
  BY <1>1, <1>2, <1>3, <1>4

-----------------------------------------------------------------------------
(* SyncedIsFresh and NoLimbo.                                              *)

\* Nothing is known at first.
LEMMA InitFresh ==
  ASSUME Init
  PROVE  WatchInv
<1>1. BaseInv /\ BackendTypes
  BY InitBase
<1>2. since = [k \in Keys |-> 0] /\ lost = {} /\ client = InitialClient
  BY DEF Init
<1>3. since \in [Keys -> Nat]
  BY <1>2
<1>4. ASSUME NEW k \in Keys
      PROVE  FreshAt(client, k, doc[k], srv[k], since[k], lost)
  <2>1. client \in Clients /\ doc[k] \in Nat /\ since[k] = 0
    BY <1>1, <1>2 DEF BaseInv, BackendTypes
  <2>2. /\ client.stream.received = <<>>
        /\ client.stream.sent[k] = <<>>
        /\ client.stream.state = "Initial"
        /\ client.states[k] = NoTarget
        /\ client.cache[k] = Unknown
        /\ client.resume[k] = 0
        /\ client.current[k] = FALSE
    BY <1>2, SMT DEF InitialClient
  <2>3. client.states[k].pending = 0 /\ client.states[k].update = Unknown
    BY <2>2 DEF NoTarget
  <2>4. Ordered(client, k, doc[k], since[k])
    BY <2>1, <2>2, <2>3 DEF Ordered, Newest, Shown
  <2>5. Resumable(client, k, lost)
    BY <2>2 DEF Resumable, CanResume
  <2>6. Due(client, k) = 0
    BY <2>1, <2>2, DueFields DEF QuietFrom
  <2>7. Counted(client, k, lost)
    BY <2>3, <2>6 DEF Counted
  <2>8. Applicable(client, k, lost) /\ FreshView(client, k, since[k], lost)
    BY <2>2 DEF Applicable, FreshView
  <2>9. ~Watched(client, k)
    BY <2>2 DEF Watched, IsOpen
  <2>10. since[k] \in Nat
    BY <2>1
  <2> QED
    BY <2>1, <2>2, <2>4, <2>5, <2>7, <2>8, <2>9, <2>10, UnwatchedKey
<1> QED
  BY <1>1, <1>3, <1>4 DEF WatchInv, FreshInv

\* The client, the backend and the history stay as they are.
LEMMA UnchangedKeys ==
  ASSUME WatchInv, UNCHANGED <<client, doc, srv, since, lost>>
  PROVE  FreshInv'
  BY DEF WatchInv, FreshInv

\* Every operation of the worker queue records the history; the rest leaves it alone.
LEMMA NextHistory ==
  ASSUME WatchInv, BaseInv', [Next]_vars
  PROVE  History \/ UNCHANGED <<since, lost>>
<1>1. CASE Server
  BY <1>1 DEF Server, ServerWatches, ServerRejects, ServerUnwatches, ServerSendsDocument,
              ServerIsCurrent, ServerSnapshot, Reply, historyVars
<1>2. CASE RunOp \/ BackoffTimeout \/ IdleTimeout \/ OnlineStateTimeout \/ OnStreamRead
             \/ StreamFails \/ RestartNetwork
  BY <1>2, RunHistory DEF RunOp, BackoffTimeout, IdleTimeout, OnlineStateTimeout, OnStreamRead,
                          StreamFails, RestartNetwork
<1>3. ASSUME NEW n, ResumeStartWithCredentials(n) \/ TokenFails(n)
      PROVE  History
  BY <1>3, RunHistory DEF ResumeStartWithCredentials, TokenFails
<1> QED
  BY <1>1, <1>2, <1>3 DEF Next, Tokens, GetDocument, OnEvent, Change, historyVars, vars

\* No step breaks the invariant.
LEMMA NextFresh ==
  ASSUME WatchInv, [Next]_vars
  PROVE  WatchInv'
<1>1. BaseInv' /\ BackendTypes'
  BY NextBase DEF WatchInv
<1>2. client \in Clients /\ client' \in Clients
  BY <1>1 DEF WatchInv, BaseInv
<1>3. BaseInv
  BY DEF WatchInv
<1>4. since' \in [Keys -> Nat]
  BY <1>1, NextHistory DEF WatchInv, History, BackendTypes
<1>5. FreshInv'
  <2>1. ASSUME NEW r \in Reads, NEW k \in Keys, GetDocument(r, k)
        PROVE  FreshInv'
    BY <2>1, UnchangedKeys DEF GetDocument, serverVars, historyVars
  <2>2. ASSUME NEW r \in Reads, OnEvent(r)
        PROVE  FreshInv'
    BY <2>2, UnchangedKeys DEF OnEvent, serverVars, historyVars
  <2>3. CASE RunOp
    <3>1. History /\ UNCHANGED <<doc, srv>>
      BY <2>3, RunHistory DEF RunOp, serverVars
    <3> QED
      BY <1>1, <1>3, <2>3, <3>1, RunListenStep, RunRemoveStep, ListenedKeys, UnlistenedKeys
  <2>4. ASSUME NEW n \in client.tokens, ResumeStartWithCredentials(n)
        PROVE  FreshInv'
    <3>1. /\ History
          /\ doc' = doc
          /\ n # client.stream.close => srv' = srv
      BY <2>4, RunHistory DEF ResumeStartWithCredentials
    <3> QED
      BY <1>1, <1>3, <2>4, <3>1, ResumeStartStep, ResumedKeys, RestsKeys
  <2>5. ASSUME NEW n \in client.tokens, TokenFails(n)
        PROVE  FreshInv'
    <3>1. History /\ UNCHANGED <<doc, srv>>
      BY <2>5, RunHistory DEF TokenFails, serverVars
    <3> QED
      BY <1>1, <1>3, <2>5, <3>1, TokenFailsStep, EndedKeys, RestsKeys
  <2>6. CASE BackoffTimeout
    <3>1. History /\ UNCHANGED <<doc, srv>>
      BY <2>6, RunHistory DEF BackoffTimeout, serverVars
    <3> QED
      BY <1>1, <1>3, <2>6, <3>1, BackoffTimeoutStep, RestsKeys
  <2>7. CASE IdleTimeout
    <3>1. History /\ UNCHANGED <<doc, srv>>
      BY <2>7, RunHistory DEF IdleTimeout, serverVars
    <3> QED
      BY <1>1, <1>3, <2>7, <3>1, IdleTimeoutStep, EndedKeys
  <2>8. CASE OnlineStateTimeout
    <3>1. History /\ UNCHANGED <<doc, srv>>
      BY <2>8, RunHistory DEF OnlineStateTimeout, serverVars
    <3> QED
      BY <1>1, <1>3, <2>8, <3>1, OnlineStateTimeoutStep, RestsKeys
  <2>9. CASE OnStreamRead
    BY <1>1, <2>9, OnStreamReadKeys
  <2>10. CASE StreamFails
    <3>1. History /\ UNCHANGED <<doc, srv>>
      BY <2>10, RunHistory DEF StreamFails, serverVars
    <3> QED
      BY <1>1, <1>3, <2>10, <3>1, StreamFailsStep, EndedKeys
  <2>11. CASE RestartNetwork
    <3>1. History /\ UNCHANGED <<doc, srv>>
      BY <2>11, RunHistory DEF RestartNetwork, serverVars
    <3> QED
      BY <1>1, <1>3, <2>11, <3>1, RestartNetworkStep, EndedKeys
  <2>12. CASE Server
    BY <1>1, <2>12, ServerKeys
  <2>13. ASSUME NEW k \in Keys, Change(k)
         PROVE  FreshInv'
    BY <2>13, ChangeKeys
  <2>14. CASE UNCHANGED vars
    BY <2>14, UnchangedKeys DEF vars, serverVars, historyVars
  <2> QED
    BY <2>1, <2>2, <2>3, <2>4, <2>5, <2>6, <2>7, <2>8, <2>9, <2>10, <2>11, <2>12, <2>13, <2>14
       DEF Next, Tokens
<1> QED
  BY <1>1, <1>4, <1>5 DEF WatchInv

\* WatchInv is inductive: it relates the versions in the cache, with the aggregator, in
\* the messages on their way and at the backend.
THEOREM WatchInvariance == Spec => []WatchInv
<1>1. Init => WatchInv
  BY InitFresh
<1>2. WatchInv /\ [Next]_vars => WatchInv'
  BY NextFresh
<1> QED
  BY <1>1, <1>2, PTL DEF Spec

\* A snapshot that calls itself synced is no older than the document was when listening
\* began, whatever messages of earlier listens the stream still carries, unless the
\* aggregator has lost count of the answers about the document.
THEOREM SyncedViewsAreFresh == Spec => []SyncedIsFresh
<1>1. WatchInv => SyncedIsFresh
  BY DEF WatchInv, FreshInv, FreshAt, FreshView, SyncedIsFresh
<1> QED
  BY <1>1, WatchInvariance, PTL

\* With the same exception, no document query starts a limbo resolution.
THEOREM NoLimboEver == Spec => []NoLimbo
<1>1. WatchInv => NoLimbo
  BY DEF WatchInv, FreshInv, FreshAt, FreshView, NoLimbo
<1> QED
  BY <1>1, WatchInvariance, PTL

=============================================================================
