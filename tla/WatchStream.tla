----------------------------- MODULE WatchStream -----------------------------
(***************************************************************************)
(* How getDocument reads a document through Firestore's watch stream: the  *)
(* watch half of remote_store.cc, online_state_tracker.cc, the aggregator  *)
(* of remote_event.cc, the listen operations of sync_engine.cc,            *)
(* event_manager.cc and query_listener.cc, and ListenOnce of               *)
(* document_reference.cc.                                                  *)
(*                                                                         *)
(* A read listens to its document until the first snapshot that is synced  *)
(* with the backend, or any snapshot once the client counts as off line.   *)
(* The client's state is one record; an operation of the worker queue maps *)
(* it to the next, with all the callbacks it makes.  A listener's events   *)
(* go to the main queue; the order in which events of different reads run  *)
(* there is left open.  A document is the number of its version, 0 when it *)
(* does not exist; documents are not deleted.  A resume token is the       *)
(* version the backend sent last.  Pending writes, which WriteStream has,  *)
(* and limbo documents (see NoLimbo) are left out.                         *)
(*                                                                         *)
(* The backend is external.  It handles the requests for one target in     *)
(* order and answers each once, and sends a snapshot only when every       *)
(* target it watches is current.                                           *)
(***************************************************************************)
EXTENDS Stream, Integers, Sequences, FiniteSets

CONSTANTS
  Keys,        \* documents, each with its query and target
  Reads,       \* calls of getDocument
  Unknown,     \* in place of a version: not in the cache
  MaxVersion,  \* bound on changes of a document
  MaxFaults    \* bound on refusals, failures and restarts of the stream

ASSUME WatchAssumption == Unknown \notin Int

VARIABLES
  client,      \* the state of the worker queue
  workQ,       \* operations enqueued on it
  events,      \* per read: events dispatched to the main queue
  muted,       \* reads whose listener is muted
  answered,    \* per read: how often its callback was called
  asked,       \* reads the app has asked for
  doc,         \* the backend: version of each document
  srv,         \* the backend: its view of each target of the stream
  dirty,       \* the backend: something was sent since the last snapshot
  faults,      \* failures and restarts so far
  since,       \* history: version when listening to a document began
  lost         \* history: documents with fewer answers counted than were due

serverVars == <<doc, srv, dirty>>
readVars == <<events, muted, answered, asked>>
historyVars == <<since, lost>>
vars == <<client, workQ, readVars, serverVars, faults, historyVars>>

Versions == 0..MaxVersion
NoTarget == [pending |-> 0, current |-> FALSE, added |-> FALSE, update |-> Unknown]
Off == [on |-> FALSE, current |-> FALSE, known |-> 0]

NoEvents == [r \in Reads |-> <<>>]

InitialClient ==
  [stream    |-> [state |-> "Initial", close |-> 0, idle |-> FALSE, ok |-> TRUE,
                  sent |-> [k \in Keys |-> <<>>], received |-> <<>>],
   tokens    |-> {},                              \* close counts tokens were asked for
   online    |-> "Unknown",                       \* OnlineStateTracker: state_,
   failures  |-> 0,                               \* watch_stream_failures_ and
   timer     |-> FALSE,                           \* online_state_timer_
   targets   |-> {},                              \* listen_targets_
   states    |-> [k \in Keys |-> NoTarget],       \* the aggregator's target_states_
   listeners |-> [k \in Keys |-> {}],             \* EventManager's queries_
   raised    |-> {},                              \* raised_initial_event_
   current   |-> [k \in Keys |-> FALSE],          \* current_ of each query's view
   cache     |-> [k \in Keys |-> Unknown],        \* the documents on disk
   synced    |-> [k \in Keys |-> FALSE],          \* the target contains its document
   resume    |-> [k \in Keys |-> 0],              \* resume tokens
   out       |-> NoEvents]                        \* events raised by this operation

Init ==
  /\ client = InitialClient
  /\ workQ = <<>>
  /\ events = NoEvents
  /\ muted = {}
  /\ answered = [r \in Reads |-> 0]
  /\ asked = {}
  /\ doc \in [Keys -> 0..1]
  /\ srv = [k \in Keys |-> Off]
  /\ dirty = FALSE
  /\ faults = 0
  /\ since = [k \in Keys |-> 0]
  /\ lost = {}

Check(c, p) == [c EXCEPT !.stream = HardAssert(@, p)]

-----------------------------------------------------------------------------
(* EventManager and QueryListener.                                         *)

Event(kind, k, v, cached) == [kind |-> kind, key |-> k, v |-> v, cached |-> cached]

\* What a snapshot shows of the cached version v.
Shown(v) == IF v = Unknown THEN 0 ELSE v

\* For each k the listeners rs[k] of its query get its snapshot.  A listener is one
\* query's, so that the order of the queries does not matter.
Emit(c, rs) ==
  [c EXCEPT !.raised = @ \cup UNION {rs[k] : k \in Keys},
            !.out = [r \in Reads |->
              IF \A k \in Keys : r \notin rs[k] THEN @[r]
              ELSE LET k == CHOOSE k \in Keys : r \in rs[k]
                   IN  Append(@[r], Event("value", k, Shown(c.cache[k]), ~c.current[k]))]]

\* The listeners rs of k alone.
Only(k, rs) == [j \in Keys |-> IF j = k THEN rs ELSE {}]

\* ShouldRaiseInitialEvent, for getDocument's options.
ShouldRaiseInitialEvent(c, k) == c.current[k] \/ c.online = "Offline"

\* The listeners of k whose OnViewSnapshot raises an event.
OnViewSnapshot(c, k) ==
  {r \in c.listeners[k] : r \in c.raised \/ ShouldRaiseInitialEvent(c, k)}

-----------------------------------------------------------------------------
(* OnlineStateTracker.                                                     *)

\* kMaxWatchStreamFailures.
MaxWatchStreamFailures == 1

\* HandleOnlineStateChange of every query: off line no view is current, and
\* listeners that wait for the backend are told what the cache has.
GoOffline(c) ==
  Emit([c EXCEPT !.current = [k \in Keys |-> FALSE]],
       [k \in Keys |-> {r \in c.listeners[k] : r \notin c.raised \/ c.current[k]}])

\* SetAndBroadcast, with what SyncEngine and EventManager do then.
SetAndBroadcast(c, state) ==
  LET next == [c EXCEPT !.online = state]
  IN  IF state = c.online \/ state # "Offline" THEN next ELSE GoOffline(next)

UpdateState(c, state) ==
  SetAndBroadcast([c EXCEPT !.timer = FALSE, !.failures = 0], state)

HandleWatchStreamStart(c) ==
  IF c.failures # 0 THEN c
  ELSE [Check(SetAndBroadcast(c, "Unknown"), ~c.timer) EXCEPT !.timer = TRUE]

\* Seeded fault (no part of the specification): the timer keeps running.
HandleWatchStreamFailure_KeepTimer(c) ==
  IF c.online = "Online"
  THEN Check(SetAndBroadcast(c, "Unknown"), c.failures = 0 /\ ~c.timer)
  ELSE SetAndBroadcast([c EXCEPT !.failures = @ + 1], "Offline")

HandleWatchStreamFailure(c) ==
  IF c.online = "Online"
  THEN Check(SetAndBroadcast(c, "Unknown"), c.failures = 0 /\ ~c.timer)
  ELSE LET failed == [c EXCEPT !.failures = @ + 1]
       IN  IF failed.failures < MaxWatchStreamFailures THEN failed
           ELSE SetAndBroadcast([failed EXCEPT !.timer = FALSE], "Offline")

-----------------------------------------------------------------------------
(* RemoteStore: the stream.                                                *)

ShouldStartWatchStream(c) == ~IsStarted(c.stream) /\ c.targets # {}

NoStates(c) == [c EXCEPT !.states = [k \in Keys |-> NoTarget]]

\* The stream's new state; RequestCredentials is called when it becomes Starting.
Becomes(c, s) ==
  [c EXCEPT !.stream = s, !.tokens = IF s.state = "Starting" THEN @ \cup {s.close} ELSE @]

StartWatchStream(c) == HandleWatchStreamStart(Becomes(NoStates(c), Start(c.stream)))

\* The stream is closed, with its gRPC stream.
Closed(c, graceful) ==
  [c EXCEPT !.stream = [Close(@, graceful) EXCEPT !.sent = [k \in Keys |-> <<>>],
                                                  !.received = <<>>]]

\* Seeded fault (no part of the specification): the stream is not started again.
OnWatchStreamClose_NoRestart(c) == UpdateState(NoStates(c), "Unknown")

\* OnWatchStreamClose: with targets to watch the stream starts again, at once or
\* after its back-off.
OnWatchStreamClose(c) ==
  IF ShouldStartWatchStream(c) THEN StartWatchStream(HandleWatchStreamFailure(NoStates(c)))
  ELSE UpdateState(NoStates(c), "Unknown")

\* An error closes the stream.
Fails(c) == OnWatchStreamClose(Closed(c, FALSE))

\* RestartNetwork: while the network counts as disabled nothing is restarted.
Restarted(c) ==
  LET stopped == UpdateState(NoStates(Closed(c, TRUE)), "Unknown")
      ready   == [stopped EXCEPT !.stream = InhibitBackoff(@)]
  IN  IF ShouldStartWatchStream(ready) THEN StartWatchStream(ready) ELSE ready

\* SendWatchRequest and SendUnwatchRequest for each document of ks.
Send(c, op, ks) ==
  [c EXCEPT !.states = [k \in Keys |->
              IF k \in ks THEN [c.states[k] EXCEPT !.pending = @ + 1] ELSE c.states[k]],
            !.stream = [CancelIdleCheck(c.stream) EXCEPT !.sent = [k \in Keys |->
              IF k \in ks THEN Append(c.stream.sent[k], [op |-> op, resume |-> c.resume[k]])
              ELSE c.stream.sent[k]]]]

-----------------------------------------------------------------------------
(* Listening.                                                              *)

\* AddQueryListener, SyncEngine::Listen and RemoteStore::Listen.
Listen(c, r, k) ==
  LET first == c.listeners[k] = {}
      added == [c EXCEPT !.listeners[k] = @ \cup {r}]
      told  == IF ShouldRaiseInitialEvent(added, k) THEN Emit(added, Only(k, {r})) ELSE added
      watched == [told EXCEPT !.targets = @ \cup {k}]
  IN  CASE ~first -> told
        [] first /\ k \in c.targets -> told
        [] first /\ k \notin c.targets /\ ShouldStartWatchStream(watched) -> StartWatchStream(watched)
        [] first /\ k \notin c.targets /\ IsOpen(c.stream) -> Send(watched, "watch", {k})
        [] OTHER -> watched

\* RemoteStore::StopListening, which asserts that the target is watched.
StopListening(c, k) ==
  LET stopped == [Check(c, k \in c.targets) EXCEPT !.targets = @ \ {k}, !.current[k] = FALSE]
      unwatched == IF IsOpen(c.stream) THEN Send(stopped, "unwatch", {k}) ELSE stopped
  IN  CASE stopped.targets # {} -> unwatched
        [] stopped.targets = {} /\ IsOpen(c.stream) -> [unwatched EXCEPT !.stream = MarkIdle(@)]
        [] OTHER -> UpdateState(unwatched, "Unknown")

\* RemoveQueryListener: after an error the query may be gone, or belong to others.
RemoveQueryListener(c, r, k) ==
  LET removed == [c EXCEPT !.listeners[k] = @ \ {r}]
  IN  IF c.listeners[k] # {} /\ removed.listeners[k] = {} THEN StopListening(removed, k)
      ELSE removed

-----------------------------------------------------------------------------
(* WatchChangeAggregator.                                                  *)

\* Seeded fault (no part of the specification): answers to come do not matter.
IsActiveTarget_Any(c, k) == k \in c.targets

\* Messages count only when every request for the target has been answered.
IsActiveTarget(c, k) == k \in c.targets /\ c.states[k].pending = 0

\* HandleTargetChange and HandleDocumentChange.
Added(c, k) ==
  LET n == c.states[k].pending - 1
  IN  [c EXCEPT !.states[k].pending = n, !.states[k].added = IF n = 0 THEN FALSE ELSE @]

Removed(c, k) ==
  LET n == c.states[k].pending - 1
  IN  [c EXCEPT !.states[k] = IF n = 0 THEN [NoTarget EXCEPT !.update = c.states[k].update]
                              ELSE [@ EXCEPT !.pending = n]]

Current(c, k) ==
  IF IsActiveTarget(c, k) THEN [c EXCEPT !.states[k].current = TRUE] ELSE c

Document(c, k, v) ==
  IF IsActiveTarget(c, k) THEN [c EXCEPT !.states[k].added = TRUE, !.states[k].update = v] ELSE c

\* Seeded fault (no part of the specification): the target is not forgotten.
TargetError_KeepTarget(c, k) ==
  IF k \notin c.targets THEN c
  ELSE [c EXCEPT !.states[k] = [NoTarget EXCEPT !.update = c.states[k].update],
                 !.current[k] = FALSE,
                 !.listeners[k] = {},
                 !.out = [r \in Reads |->
                   IF r \in c.listeners[k] THEN Append(@[r], Event("error", k, 0, FALSE)) ELSE @[r]]]

\* ProcessTargetError: the listeners get the error and are gone.
TargetError(c, k) ==
  IF k \notin c.targets THEN c
  ELSE [c EXCEPT !.targets = @ \ {k},
                 !.states[k] = [NoTarget EXCEPT !.update = c.states[k].update],
                 !.current[k] = FALSE,
                 !.listeners[k] = {},
                 !.out = [r \in Reads |->
                   IF r \in c.listeners[k] THEN Append(@[r], Event("error", k, 0, FALSE)) ELSE @[r]]]

\* The document update of k in the remote event: a current target without its
\* document means that the document does not exist.
UpdateOf(c, k) ==
  LET s == c.states[k]
  IN  IF IsActiveTarget(c, k) /\ s.current /\ s.update = Unknown /\ ~c.synced[k] THEN 0
      ELSE s.update

\* The document's new version on disk.
Stored(old, update) ==
  IF update = Unknown THEN old
  ELSE IF old = Unknown \/ update = 0 \/ update > old THEN update ELSE old

\* Seeded fault (no part of the specification): the target's document is not recorded.
Applied_NoKeys(c, tokens) ==
  LET active(k) == IsActiveTarget(c, k)
      current(k) == IF active(k) THEN c.states[k].current ELSE c.current[k]
  IN  [c EXCEPT
        !.cache = [k \in Keys |-> Stored(@[k], UpdateOf(c, k))],
        !.current = [k \in Keys |-> current(k) /\ c.listeners[k] # {}],
        !.resume = [k \in Keys |-> IF active(k) THEN tokens[k] ELSE @[k]],
        !.states = [k \in Keys |->
          [c.states[k] EXCEPT !.added = @ /\ ~active(k), !.update = Unknown]]]

\* The remote event is created and applied to the local store and the views.
Applied(c, tokens) ==
  LET active(k) == IsActiveTarget(c, k)
      current(k) == IF active(k) THEN c.states[k].current ELSE c.current[k]
  IN  [c EXCEPT
        !.cache = [k \in Keys |-> Stored(@[k], UpdateOf(c, k))],
        !.current = [k \in Keys |-> current(k) /\ c.listeners[k] # {}],
        !.synced = [k \in Keys |-> @[k] \/ (active(k) /\ c.states[k].added)],
        !.resume = [k \in Keys |-> IF active(k) THEN tokens[k] ELSE @[k]],
        !.states = [k \in Keys |->
          [c.states[k] EXCEPT !.added = @ /\ ~active(k), !.update = Unknown]]]

\* RaiseWatchSnapshot: the listeners of the views that change are told.
Snapshot(c, tokens) ==
  LET after == Applied(c, tokens)
      changed(k) == \/ Shown(after.cache[k]) # Shown(c.cache[k])
                    \/ after.current[k] # c.current[k]
  IN  Emit(after, [k \in Keys |-> IF changed(k) THEN OnViewSnapshot(after, k) ELSE {}])

\* OnWatchStreamChange.
OnWatchStreamChange(c, m) ==
  LET d == UpdateState(c, "Online")
  IN  CASE m.kind = "added"    -> Added(d, m.key)
        [] m.kind = "removed"  -> Removed(d, m.key)
        [] m.kind = "current"  -> Current(d, m.key)
        [] m.kind = "doc"      -> Document(d, m.key, m.v)
        [] m.kind = "error"    -> TargetError(d, m.key)
        [] m.kind = "snapshot" -> Snapshot(d, m.tokens)

-----------------------------------------------------------------------------
(* The worker queue.                                                       *)

\* How many answers about k are still to be read.
Due(c, k) ==
  Len(c.stream.sent[k])
    + Cardinality({i \in DOMAIN c.stream.received :
                     /\ c.stream.received[i].kind \in {"added", "removed", "error"}
                     /\ c.stream.received[i].key = k})

\* The client's next state is c; the events c has raised go to the main queue.
Run(c) ==
  /\ client' = [c EXCEPT !.out = NoEvents]
  /\ events' = [r \in Reads |-> events[r] \o c.out[r]]
  /\ since' = [k \in Keys |->
       IF client.listeners[k] = {} /\ client'.listeners[k] # {} THEN doc[k] ELSE since[k]]
  /\ lost' = lost \cup {k \in Keys : client'.states[k].pending < Due(client', k)}

\* Operations enqueued by the app's threads.
RunOp ==
  /\ workQ # <<>>
  /\ workQ' = Tail(workQ)
  /\ LET w == Head(workQ)
     IN  Run(IF w.op = "listen" THEN Listen(client, w.read, w.key)
             ELSE RemoveQueryListener(client, w.read, w.key))
  /\ UNCHANGED <<muted, answered, asked, serverVars, faults>>

\* A token arrives: for a stream that was closed meanwhile nothing happens.
ResumeStartWithCredentials(n) ==
  /\ n \in client.tokens
  /\ LET c == [client EXCEPT !.tokens = @ \ {n}]
         open == [c EXCEPT !.stream = ResumeStart(@)]
     IN  Run(IF n # c.stream.close THEN c
             ELSE Send(open, "watch", c.targets))
  /\ srv' = IF n = client.stream.close THEN [k \in Keys |-> Off] ELSE srv
  /\ dirty' = (dirty /\ n # client.stream.close)
  /\ UNCHANGED <<workQ, muted, answered, asked, doc, faults>>

TokenFails(n) ==
  /\ faults < MaxFaults
  /\ faults' = faults + 1
  /\ n \in client.tokens
  /\ LET c == [client EXCEPT !.tokens = @ \ {n}]
     IN  Run(IF n # c.stream.close THEN c ELSE Fails(c))
  /\ UNCHANGED <<workQ, muted, answered, asked, serverVars>>

BackoffTimeout ==
  /\ client.stream.state = "Backoff"
  /\ Run(Becomes(client, BackoffElapsed(client.stream)))
  /\ UNCHANGED <<workQ, muted, answered, asked, serverVars, faults>>

\* The stream is stopped, which must not be while it is needed.
IdleTimeout ==
  /\ client.stream.idle
  /\ LET c == Closed(client, TRUE)
     IN  Run(OnWatchStreamClose(Check(c, ~ShouldStartWatchStream(c))))
  /\ UNCHANGED <<workQ, muted, answered, asked, serverVars, faults>>

\* kOnlineStateTimeout has passed.
OnlineStateTimeout ==
  /\ client.timer
  /\ Run(SetAndBroadcast([Check(client, client.online = "Unknown") EXCEPT !.timer = FALSE],
                         "Offline"))
  /\ UNCHANGED <<workQ, muted, answered, asked, serverVars, faults>>

OnStreamRead ==
  /\ client.stream.received # <<>>
  /\ Run(OnWatchStreamChange([client EXCEPT !.stream.received = Tail(@)],
                             Head(client.stream.received)))
  /\ UNCHANGED <<workQ, muted, answered, asked, serverVars, faults>>

StreamFails ==
  /\ faults < MaxFaults
  /\ faults' = faults + 1
  /\ IsOpen(client.stream)
  /\ Run(Fails(client))
  /\ UNCHANGED <<workQ, muted, answered, asked, serverVars>>

\* The user or its token has changed, or the device is on line again.
RestartNetwork ==
  /\ faults < MaxFaults
  /\ faults' = faults + 1
  /\ Run(Restarted(client))
  /\ UNCHANGED <<workQ, muted, answered, asked, serverVars>>

-----------------------------------------------------------------------------
(* The app, on the main queue.                                             *)

GetDocument(r, k) ==
  /\ r \notin asked
  /\ asked' = asked \cup {r}
  /\ workQ' = Append(workQ, [op |-> "listen", read |-> r, key |-> k])
  /\ UNCHANGED <<client, events, muted, answered, serverVars, faults, historyVars>>

\* Seeded fault (no part of the specification): the listener is not muted.
OnEvent_Unmuted(r) ==
  /\ events[r] # <<>>
  /\ events' = [events EXCEPT ![r] = Tail(@)]
  /\ answered' = [answered EXCEPT ![r] = @ + 1]
  /\ workQ' = IF Head(events[r]).kind = "error" THEN workQ
              ELSE Append(workQ, [op |-> "remove", read |-> r, key |-> Head(events[r]).key])
  /\ UNCHANGED <<client, muted, asked, serverVars, faults, historyVars>>

\* AsyncEventListener and ListenOnce: a snapshot mutes and removes the listener, an
\* error does not, and both call the app.
OnEvent(r) ==
  /\ events[r] # <<>>
  /\ events' = [events EXCEPT ![r] = Tail(@)]
  /\ \/ /\ r \in muted
        /\ UNCHANGED <<workQ, muted, answered>>
     \/ /\ r \notin muted
        /\ answered' = [answered EXCEPT ![r] = @ + 1]
        /\ \/ /\ Head(events[r]).kind = "error"
              /\ UNCHANGED <<workQ, muted>>
           \/ /\ Head(events[r]).kind = "value"
              /\ muted' = muted \cup {r}
              /\ workQ' = Append(workQ, [op |-> "remove", read |-> r, key |-> Head(events[r]).key])
  /\ UNCHANGED <<client, asked, serverVars, faults, historyVars>>

-----------------------------------------------------------------------------
(* The backend.                                                            *)

\* The backend sends m over the open stream, whose requests for k are then q.
Reply(m, k, q) ==
  /\ IsOpen(client.stream)
  /\ client' = [client EXCEPT !.stream.received = Append(@, m), !.stream.sent[k] = q]
  /\ UNCHANGED <<workQ, readVars, historyVars>>

ServerWatches(k) ==
  /\ client.stream.sent[k] # <<>>
  /\ Head(client.stream.sent[k]).op = "watch"
  /\ Reply([kind |-> "added", key |-> k], k, Tail(client.stream.sent[k]))
  /\ srv' = [srv EXCEPT ![k] = [on |-> TRUE, current |-> FALSE,
                                known |-> Head(client.stream.sent[k]).resume]]
  /\ UNCHANGED <<doc, dirty, faults>>

\* The backend refuses to watch the document: the request is answered by the error.
ServerRejects(k) ==
  /\ client.stream.sent[k] # <<>>
  /\ Head(client.stream.sent[k]).op = "watch"
  /\ faults < MaxFaults
  /\ faults' = faults + 1
  /\ Reply([kind |-> "error", key |-> k], k, Tail(client.stream.sent[k]))
  /\ UNCHANGED serverVars

ServerUnwatches(k) ==
  /\ client.stream.sent[k] # <<>>
  /\ Head(client.stream.sent[k]).op = "unwatch"
  /\ Reply([kind |-> "removed", key |-> k], k, Tail(client.stream.sent[k]))
  /\ srv' = [srv EXCEPT ![k] = Off]
  /\ UNCHANGED <<doc, dirty, faults>>

ServerSendsDocument(k) ==
  /\ srv[k].on
  /\ doc[k] > srv[k].known
  /\ Reply([kind |-> "doc", key |-> k, v |-> doc[k]], k, client.stream.sent[k])
  /\ srv' = [srv EXCEPT ![k].known = doc[k]]
  /\ dirty' = TRUE
  /\ UNCHANGED <<doc, faults>>

ServerIsCurrent(k) ==
  /\ srv[k].on
  /\ ~srv[k].current
  /\ doc[k] = srv[k].known
  /\ Reply([kind |-> "current", key |-> k], k, client.stream.sent[k])
  /\ srv' = [srv EXCEPT ![k].current = TRUE]
  /\ dirty' = TRUE
  /\ UNCHANGED <<doc, faults>>

ServerSnapshot(k) ==
  /\ dirty
  /\ \A j \in Keys : srv[j].on => srv[j].current
  /\ Reply([kind |-> "snapshot", tokens |-> [j \in Keys |-> srv[j].known]], k, client.stream.sent[k])
  /\ dirty' = FALSE
  /\ UNCHANGED <<doc, srv, faults>>

\* The document is created or changed.  Bound: MaxVersion.
Change(k) ==
  /\ doc[k] < MaxVersion
  /\ doc' = [doc EXCEPT ![k] = @ + 1]
  /\ UNCHANGED <<client, workQ, readVars, srv, dirty, faults, historyVars>>

Server ==
  \E k \in Keys : \/ ServerWatches(k) \/ ServerRejects(k) \/ ServerUnwatches(k)
                  \/ ServerSendsDocument(k) \/ ServerIsCurrent(k) \/ ServerSnapshot(k)

Tokens == \E n \in client.tokens : ResumeStartWithCredentials(n) \/ TokenFails(n)

Next ==
  \/ \E r \in Reads, k \in Keys : GetDocument(r, k)
  \/ \E r \in Reads : OnEvent(r)
  \/ RunOp
  \/ Tokens
  \/ BackoffTimeout
  \/ IdleTimeout
  \/ OnlineStateTimeout
  \/ OnStreamRead
  \/ StreamFails
  \/ RestartNetwork
  \/ Server
  \/ \E k \in Keys : Change(k)

Spec == Init /\ [][Next]_vars

\* Both queues and the timers go on, a token or an error comes in the end, and so
\* do the backend's answers.
Fairness ==
  /\ \A r \in Reads : WF_vars(OnEvent(r))
  /\ WF_vars(RunOp)
  /\ WF_vars(Tokens)
  /\ WF_vars(BackoffTimeout)
  /\ WF_vars(OnlineStateTimeout)
  /\ WF_vars(OnStreamRead)
  /\ WF_vars(Server)

FairSpec == Spec /\ Fairness

-----------------------------------------------------------------------------
(* Properties.                                                             *)

\* EventManager, SyncEngine and RemoteStore agree on what is listened to, although
\* each keeps its own list and an error, a removal and a new listener may meet.
LayersAgree ==
  /\ client.targets = {k \in Keys : client.listeners[k] # {}}
  /\ \A k \in Keys : client.current[k] => k \in client.targets

\* The callback of getDocument is called once, however many snapshots, errors and
\* changes of the connection follow: the listener stays registered until the main
\* queue and then the worker queue get to its removal.
OneCallback == \A r \in Reads : answered[r] <= 1

\* A snapshot that calls itself synced is no older than the document was when
\* listening began, although the stream may still carry messages of earlier
\* listens to the same document.  The exception are documents of which one listen
\* was refused while requests for another were out: ProcessTargetError then forgets
\* the answers still to come.
SyncedIsFresh ==
  \A k \in Keys \ lost : client.current[k] => Shown(client.cache[k]) >= since[k]

\* No HARD_ASSERT of the stream, the tracker or the remote store fails.
NoAssertFails == client.stream.ok

\* With the same exception, a synced view never shows a document its target does
\* not contain, so that no limbo resolution is started for a document query.
NoLimbo ==
  \A k \in Keys \ lost :
    (client.current[k] /\ Shown(client.cache[k]) > 0) => client.synced[k]

\* The aggregator waits for more or fewer answers about k than are due: a refusal
\* came after the client had stopped listening, and ProcessTargetError did not count
\* it, or came while the client listened again, and ProcessTargetError forgot the
\* others.
Miscounted(k) == client.states[k].pending # Due(client, k)

\* Every read is answered, whatever fails and however reads, removals and restarts
\* interleave, unless the aggregator has lost count.
AnsweredUnlessMiscounted ==
  \A r \in Reads : (r \in asked) ~> (answered[r] > 0 \/ \E k \in Keys : Miscounted(k))

\* FIRDocumentReference.h on getDocument: "This method attempts to provide
\* up-to-date data when possible by waiting for data from the server, but it may
\* return cached data or fail if you are offline and the server cannot be reached."
\* So every read is answered.
ReadsAreAnswered == \A r \in Reads : (r \in asked) ~> (answered[r] > 0)

=============================================================================
