----------------------------- MODULE WriteStream -----------------------------
(***************************************************************************)
(* How Firestore sends writes to the backend (the write half of            *)
(* remote_store.cc, write_stream.cc, the write operations of               *)
(* sync_engine.cc and local_store.cc, leveldb_mutation_queue.cc).  Every   *)
(* user has a queue of batches on disk.  Up to MaxPipeline batches of the  *)
(* current user's queue are in the write pipeline; they are sent in order  *)
(* over a stream opened with that user's token, sent again after every     *)
(* failure, and removed when the backend accepts or refuses them.          *)
(*                                                                         *)
(* Every action of the worker queue is one operation of it, with all the   *)
(* callbacks it makes.  The watch half of RestartNetwork is in             *)
(* WatchStream.  Stream tokens, which the backend only echoes, are left    *)
(* out, and so are the contents of writes: a write is its number.          *)
(*                                                                         *)
(* The backend and the network are external.  The backend handles what it  *)
(* receives on a stream in order, and nothing of a stream that is closed.  *)
(* A stream may fail at any time.  When the backend refuses a write, it    *)
(* closes the stream with a status that normally arrives after the answers *)
(* before it; but a client write that fails because of the closed stream   *)
(* makes GrpcStream cancel the reads that have not run (FinishGrpcCall),   *)
(* and the status then overtakes those answers.                            *)
(***************************************************************************)
EXTENDS CredentialsProvider, Stream, FiniteSets

CONSTANTS
  MaxPipeline, \* kMaxPendingWrites
  MaxWrites,   \* bound on the number of writes
  MaxFaults    \* bound on failures and restarts

ASSUME MaxPipelineAssumption == MaxPipeline \in Nat \ {0}

VARIABLES
  sync_user,     \* SyncEngine's current_user_
  queue,         \* per user: batches on disk, by batch ID
  next_batch_id, \* of the current mutation queue
  pipeline,      \* write_pipeline_
  callbacks,     \* mutation_callbacks_
  stream,        \* the write stream
  written,       \* how many writes were made
  faults,        \* failures and restarts so far
  applied,       \* writes the backend applied at least once
  refused,       \* writes the backend refused at least once
  doc,           \* per user: the write applied last
  acked,         \* writes reported as successful, with their users
  rejected       \* writes reported as failed

clientVars == <<sync_user, queue, next_batch_id, pipeline, callbacks, stream>>
serverVars == <<applied, refused, doc>>
historyVars == <<written, faults, acked, rejected>>
writeVars == <<clientVars, serverVars, historyVars>>
vars == <<authVars, providerVars, writeVars>>

Writes == 1..MaxWrites
Batch(id, w, u) == [kind |-> "batch", id |-> id, w |-> w, user |-> u]
Hello == [kind |-> "hello"]
Reply(kind, w) == [kind |-> kind, w |-> w]

InitialStream ==
  [state |-> "Initial", close |-> 0, idle |-> FALSE, ok |-> TRUE,
   handshake |-> FALSE, uid |-> None, sent |-> <<>>, received |-> <<>>]

Init ==
  /\ AuthInit
  /\ ProviderInit
  /\ sync_user = None
  /\ queue = [u \in UserIds |-> <<>>]
  /\ next_batch_id = 1
  /\ pipeline = <<>>
  /\ callbacks = {}
  /\ stream = InitialStream
  /\ written = 0
  /\ faults = 0
  /\ applied = {}
  /\ refused = {}
  /\ doc = [u \in UserIds |-> 0]
  /\ acked = {}
  /\ rejected = {}

-----------------------------------------------------------------------------
(* The mutation queues.                                                    *)

\* LoadNextBatchIdFromDb: one more than the highest ID pending for any user.  IDs
\* of batches that are gone come back.
LoadNextBatchId(q) ==
  LET ids == {0} \cup UNION {{q[u][i].id : i \in DOMAIN q[u]} : u \in UserIds}
  IN  1 + CHOOSE m \in ids : \A n \in ids : n <= m

\* RemoveMutationBatch asserts that the batch is there.
Holds(q, b) == \E i \in DOMAIN q : q[i].id = b.id

\* Seeded fault (no part of the specification): a finished batch stays on disk.
Remove_Keep(q, b) == q

Remove(q, b) ==
  IF Holds(q, b)
  THEN LET i == CHOOSE i \in DOMAIN q : q[i].id = b.id
       IN  SubSeq(q, 1, i - 1) \o SubSeq(q, i + 1, Len(q))
  ELSE q

-----------------------------------------------------------------------------
(* The write pipeline.                                                     *)

\* Seeded fault (no part of the specification): the look-up starts one too far.
NewlyPiped_OneTooFar(p, q) ==
  LET last == IF p = <<>> THEN 1 ELSE p[Len(p)].id
      skip == Cardinality({i \in DOMAIN q : q[i].id <= last})
      room == MaxPipeline - Len(p)
  IN  SubSeq(q, skip + 1, IF Len(q) < skip + room THEN Len(q) ELSE skip + room)

\* The batches FillWritePipeline adds to pipeline p: those of queue q with IDs
\* beyond the last one in p, as far as there is room.
NewlyPiped(p, q) ==
  LET last == IF p = <<>> THEN 0 ELSE p[Len(p)].id
      skip == Cardinality({i \in DOMAIN q : q[i].id <= last})
      room == MaxPipeline - Len(p)
  IN  SubSeq(q, skip + 1, IF Len(q) < skip + room THEN Len(q) ELSE skip + room)

\* Seeded fault (no part of the specification): writing leaves the idle timer.
Fill_StillIdle(s, p, new) ==
  LET sends == new # <<>> /\ IsOpen(s) /\ s.handshake
      s1 == IF sends THEN [s EXCEPT !.sent = @ \o new] ELSE s
      s2 == IF p \o new = <<>> THEN MarkIdle(s1) ELSE s1
  IN  IF p \o new # <<>> /\ ~IsStarted(s2) THEN Start(s2) ELSE s2

\* What adding `new` to pipeline p does to the stream: the batches are sent if it
\* is ready, an empty pipeline makes it idle, and it is started if needed.
Fill(s, p, new) ==
  LET sends == new # <<>> /\ IsOpen(s) /\ s.handshake
      s1 == IF sends THEN CancelIdleCheck([s EXCEPT !.sent = @ \o new]) ELSE s
      s2 == IF p \o new = <<>> THEN MarkIdle(s1) ELSE s1
  IN  IF p \o new # <<>> /\ ~IsStarted(s2) THEN Start(s2) ELSE s2

\* The gRPC stream is gone.
Drop(s) == [s EXCEPT !.sent = <<>>, !.received = <<>>]

\* A step of the worker queue leaves the stream as s; RequestCredentials is called
\* if it was started.
Becomes(s) ==
  /\ stream' = s
  /\ fetches' = IF s.state = "Starting" /\ (stream.state # "Starting" \/ stream.close # s.close)
                THEN fetches \cup {Request(Unasked, s.close)}
                ELSE fetches

\* FillWritePipeline with stream s, pipeline p and queues q.
FillWritePipeline(s, p, q, u) ==
  LET new == NewlyPiped(p, q[u])
  IN  /\ pipeline' = p \o new
      /\ Becomes(Fill(s, p, new))

\* Seeded fault (no part of the specification): the callback stays registered.
NotifyUser_Keep(b) == callbacks' = callbacks

\* NotifyUser(b.batch_id) calls the callback registered under the batch's ID.
NotifyUser(b) ==
  callbacks' = {c \in callbacks : ~(c.user = sync_user /\ c.id = b.id)}

-----------------------------------------------------------------------------
(* The worker queue: operations enqueued from the main queue.              *)

Take(op) ==
  /\ workQ # <<>>
  /\ Head(workQ).op = op
  /\ workQ' = Tail(workQ)
  /\ UNCHANGED <<authVars, up, current_user, token_counter, events>>

\* FirestoreClient::Initialize, LocalStore::Start and RemoteStore::Start.
Initialize ==
  /\ Take("initialize")
  /\ sync_user' = Head(workQ).uid
  /\ next_batch_id' = LoadNextBatchId(queue)
  /\ FillWritePipeline(stream, <<>>, queue, sync_user')
  /\ UNCHANGED <<queue, callbacks, serverVars, historyVars>>

\* Seeded fault (no part of the specification): a stream still waiting for its
\* handshake is kept.
RestartNetwork_KeepFresh(u) ==
  IF IsOpen(stream) /\ ~stream.handshake
  THEN /\ pipeline' = NewlyPiped(<<>>, queue[u])
       /\ UNCHANGED <<stream, fetches>>
  ELSE LET stopped == [Drop(Close(stream, TRUE)) EXCEPT !.handshake = FALSE]
       IN  FillWritePipeline(InhibitBackoff(stopped), <<>>, queue, u)

\* RestartNetwork: the stream is stopped while the network counts as disabled, and
\* the pipeline is filled anew from the queue of user u.
RestartNetwork(u) ==
  LET stopped == [Drop(Close(stream, TRUE)) EXCEPT !.handshake = FALSE]
  IN  FillWritePipeline(InhibitBackoff(stopped), <<>>, queue, u)

\* SyncEngine::HandleCredentialChange.
HandleCredentialChange ==
  /\ Take("credential")
  /\ sync_user' = Head(workQ).uid
  /\ next_batch_id' = IF sync_user' # sync_user THEN LoadNextBatchId(queue) ELSE next_batch_id
  /\ RestartNetwork(sync_user')
  /\ UNCHANGED <<queue, callbacks, serverVars, historyVars>>

\* Seeded fault (no part of the specification): the stream is not started again.
CloseAndRetry_NoRestart ==
  /\ Becomes([Drop(Close(stream, FALSE)) EXCEPT !.handshake = FALSE])
  /\ UNCHANGED <<sync_user, queue, next_batch_id, pipeline, callbacks>>

\* The stream is closed by an error that says nothing about the writes: they stay
\* in the pipeline and the stream is started again, after a back-off.
CloseAndRetry ==
  /\ LET closed == Drop(Close(stream, FALSE))
         again  == IF pipeline # <<>> /\ ~IsStarted(closed) THEN Start(closed) ELSE closed
     IN  Becomes([again EXCEPT !.handshake = FALSE])
  /\ UNCHANGED <<sync_user, queue, next_batch_id, pipeline, callbacks>>

\* Seeded fault (no part of the specification): a missing token is not noticed.
ResumeStartWithCredentials_NoStatus ==
  /\ Take("resume")
  /\ \/ /\ Head(workQ).close # stream.close
        /\ UNCHANGED <<fetches, clientVars>>
     \/ /\ Head(workQ).close = stream.close
        /\ Becomes([ResumeStart(stream) EXCEPT !.uid = Head(workQ).uid, !.sent = <<Hello>>])
        /\ UNCHANGED <<sync_user, queue, next_batch_id, pipeline, callbacks>>
  /\ UNCHANGED <<serverVars, historyVars>>

\* The stream's token arrives: if the stream was closed meanwhile nothing
\* happens, without a token it fails, else it opens and sends the handshake.
ResumeStartWithCredentials ==
  /\ Take("resume")
  /\ \/ /\ Head(workQ).close # stream.close
        /\ UNCHANGED <<fetches, clientVars>>
     \/ /\ Head(workQ).close = stream.close
        /\ Head(workQ).uid = Failed
        /\ CloseAndRetry
     \/ /\ Head(workQ).close = stream.close
        /\ Head(workQ).uid # Failed
        /\ LET open == ResumeStart(stream)
           IN  Becomes([HardAssert(open, ~open.handshake) EXCEPT
                          !.uid = Head(workQ).uid, !.sent = <<Hello>>])
        /\ UNCHANGED <<sync_user, queue, next_batch_id, pipeline, callbacks>>
  /\ UNCHANGED <<serverVars, historyVars>>

\* SyncEngine::WriteMutations: a new batch goes to the queue of the current user.
\* The map of callbacks keeps an entry that is already there.
WriteMutations ==
  /\ Take("write")
  /\ written' = written + 1
  /\ LET new == Batch(next_batch_id, written + 1, sync_user)
     IN  /\ queue' = [queue EXCEPT ![sync_user] = Append(@, new)]
         /\ callbacks' = IF \E c \in callbacks : c.user = sync_user /\ c.id = new.id THEN callbacks
                         ELSE callbacks \cup {[user |-> sync_user, id |-> new.id, w |-> new.w]}
         /\ FillWritePipeline(stream, pipeline, queue', sync_user)
  /\ next_batch_id' = next_batch_id + 1
  /\ UNCHANGED <<sync_user, serverVars, faults, acked, rejected>>

-----------------------------------------------------------------------------
(* The worker queue: timers.                                               *)

Worker == UNCHANGED <<authVars, up, current_user, token_counter, workQ, events>>

BackoffTimeout ==
  /\ Worker
  /\ stream.state = "Backoff"
  /\ Becomes(BackoffElapsed(stream))
  /\ UNCHANGED <<sync_user, queue, next_batch_id, pipeline, callbacks,
                 serverVars, historyVars>>

\* The idleness timer stops the stream; it must not be needed then.
IdleTimeout ==
  /\ Worker
  /\ stream.idle
  /\ Becomes([HardAssert(Drop(Close(stream, TRUE)), pipeline = <<>>) EXCEPT !.handshake = FALSE])
  /\ UNCHANGED <<sync_user, queue, next_batch_id, pipeline, callbacks,
                 serverVars, historyVars>>

-----------------------------------------------------------------------------
(* The worker queue: what arrives on the stream.                           *)

Receive(kind) ==
  /\ Worker
  /\ stream.received # <<>>
  /\ Head(stream.received).kind = kind

Received == [stream EXCEPT !.received = Tail(@)]

\* OnWriteStreamHandshakeComplete: the pipeline is sent.
OnHandshake ==
  /\ Receive("hello")
  /\ LET s == [HardAssert(Received, ~stream.handshake) EXCEPT
                 !.handshake = TRUE, !.sent = @ \o pipeline]
     IN  Becomes(IF pipeline = <<>> THEN s ELSE CancelIdleCheck(s))
  /\ UNCHANGED <<sync_user, queue, next_batch_id, pipeline, callbacks,
                 serverVars, historyVars>>

\* The batch at the front of the pipeline is done: it leaves the pipeline and its
\* queue, and what is next is sent.
FinishFront(s) ==
  LET front == pipeline[1]
      checked == HardAssert(s, Holds(queue[sync_user], front))
  IN  /\ queue' = [queue EXCEPT ![sync_user] = Remove(@, front)]
      /\ NotifyUser(front)
      /\ FillWritePipeline(checked, Tail(pipeline), queue', sync_user)

\* OnWriteStreamMutationResult: the answer is taken to be about the first batch.
OnMutationResult ==
  /\ Receive("ack")
  /\ \/ /\ pipeline # <<>>
        /\ FinishFront(Received)
        /\ acked' = acked \cup {[user |-> sync_user, w |-> pipeline[1].w]}
     \/ /\ pipeline = <<>>
        /\ Becomes(HardAssert(Received, FALSE))
        /\ UNCHANGED <<queue, pipeline, callbacks, acked>>
  /\ UNCHANGED <<sync_user, next_batch_id, serverVars, written, faults, rejected>>

\* Seeded fault (no part of the specification): the whole pipeline is given up.
RejectFront_All ==
  /\ LET closed == InhibitBackoff(Drop(Close(stream, FALSE)))
     IN  /\ queue' = [queue EXCEPT ![sync_user] = SubSeq(@, Len(pipeline) + 1, Len(@))]
         /\ NotifyUser(pipeline[1])
         /\ FillWritePipeline([closed EXCEPT !.handshake = FALSE], <<>>, queue', sync_user)
  /\ rejected' = rejected \cup {pipeline[1].w}
  /\ UNCHANGED <<sync_user, next_batch_id>>

\* HandleWriteError for a permanent error: the first batch is given up and the
\* stream started again without a back-off.
RejectFront ==
  /\ FinishFront([InhibitBackoff(Drop(Close(stream, FALSE))) EXCEPT !.handshake = FALSE])
  /\ rejected' = rejected \cup {pipeline[1].w}
  /\ UNCHANGED <<sync_user, next_batch_id>>

\* The backend closed the stream with a permanent error; the answers before it
\* have been read.
OnRefused ==
  /\ Receive("refused")
  /\ \/ /\ pipeline # <<>>
        /\ RejectFront
     \/ /\ pipeline = <<>>
        /\ CloseAndRetry
        /\ UNCHANGED rejected
  /\ UNCHANGED <<serverVars, written, faults, acked>>

\* A write that was still under way failed first: answers not yet read are lost.
OnWriteFailed ==
  /\ Worker
  /\ stream.sent # <<>>
  /\ pipeline # <<>>
  /\ \E i \in DOMAIN stream.received : i > 1 /\ stream.received[i].kind = "refused"
  /\ RejectFront
  /\ UNCHANGED <<serverVars, written, faults, acked>>

\* The device is on line again: the callback RemoteStore::Start registers.  In the
\* state Initial nothing waits to be sent, and nothing would change.  Bound: counts
\* as a change of user.
ConnectivityChanged ==
  /\ UNCHANGED <<authVars, up, current_user, token_counter, workQ>>
  /\ stream.state # "Initial"
  /\ events < MaxEvents
  /\ events' = events + 1
  /\ RestartNetwork(sync_user)
  /\ UNCHANGED <<sync_user, queue, next_batch_id, callbacks, serverVars, historyVars>>

\* The stream fails for a reason of its own.
StreamFails ==
  /\ Worker
  /\ faults < MaxFaults
  /\ faults' = faults + 1
  /\ IsOpen(stream)
  /\ CloseAndRetry
  /\ UNCHANGED <<serverVars, written, acked, rejected>>

-----------------------------------------------------------------------------
(* The backend.                                                            *)

Refusing == \E i \in DOMAIN stream.received : stream.received[i].kind = "refused"

ServerHandshake ==
  /\ stream.sent # <<>>
  /\ Head(stream.sent).kind = "hello"
  /\ stream' = [stream EXCEPT !.sent = Tail(@), !.received = Append(@, Hello)]
  /\ UNCHANGED <<authVars, providerVars, sync_user, queue, next_batch_id, pipeline,
                 callbacks, serverVars, historyVars>>

ServerApplies ==
  /\ stream.sent # <<>>
  /\ Head(stream.sent).kind = "batch"
  /\ ~Refusing
  /\ LET w == Head(stream.sent).w
     IN  /\ applied' = applied \cup {w}
         /\ doc' = [doc EXCEPT ![stream.uid] = w]
         /\ stream' = [stream EXCEPT !.sent = Tail(@), !.received = Append(@, Reply("ack", w))]
  /\ UNCHANGED <<authVars, providerVars, sync_user, queue, next_batch_id, pipeline,
                 callbacks, refused, historyVars>>

ServerRefuses ==
  /\ stream.sent # <<>>
  /\ Head(stream.sent).kind = "batch"
  /\ ~Refusing
  /\ LET w == Head(stream.sent).w
     IN  /\ refused' = refused \cup {w}
         /\ stream' = [stream EXCEPT !.sent = Tail(@), !.received = Append(@, Reply("refused", w))]
  /\ UNCHANGED <<authVars, providerVars, sync_user, queue, next_batch_id, pipeline,
                 callbacks, applied, doc, historyVars>>

-----------------------------------------------------------------------------
(* The app.                                                                *)

\* setData enqueues a write.  Bound: at most MaxWrites.
SetData ==
  /\ up
  /\ written + Cardinality({i \in DOMAIN workQ : workQ[i].op = "write"}) < MaxWrites
  /\ workQ' = Append(workQ, Op("write", None, 0))
  /\ UNCHANGED <<authVars, up, current_user, token_counter, fetches, events, writeVars>>

\* The app is killed and launched again; the queues are on disk.
RestartApp ==
  /\ faults < MaxFaults
  /\ faults' = faults + 1
  /\ ProviderRestart
  /\ sync_user' = None
  /\ next_batch_id' = 1
  /\ pipeline' = <<>>
  /\ callbacks' = {}
  /\ stream' = InitialStream
  /\ UNCHANGED <<queue, serverVars, written, acked, rejected>>

\* Bound: failed token fetches count as faults.
FetchToken(f) ==
  \/ /\ BeginFetch(f)
     /\ UNCHANGED writeVars
  \/ /\ EndFetch(f, f.uid)
     /\ UNCHANGED writeVars
  \/ /\ faults < MaxFaults
     /\ faults' = faults + 1
     /\ EndFetch(f, Failed)
     /\ UNCHANGED <<clientVars, serverVars, written, acked, rejected>>

MainQueue == (OnAuthStateDidChange \/ OnToken) /\ UNCHANGED writeVars

WorkerQueue ==
  \/ Initialize
  \/ HandleCredentialChange
  \/ ResumeStartWithCredentials
  \/ WriteMutations

Stream_ == OnHandshake \/ OnMutationResult \/ OnRefused \/ OnWriteFailed

Server == ServerHandshake \/ ServerApplies \/ ServerRefuses

Next ==
  \/ (\E b \in BOOLEAN : LoadSaved(b)) /\ UNCHANGED writeVars
  \/ ChangeUser /\ UNCHANGED writeVars
  \/ CreateClient /\ UNCHANGED writeVars
  \/ \E f \in fetches : FetchToken(f)
  \/ MainQueue
  \/ WorkerQueue
  \/ BackoffTimeout
  \/ IdleTimeout
  \/ Stream_
  \/ StreamFails
  \/ ConnectivityChanged
  \/ Server
  \/ SetData
  \/ RestartApp

Spec == Init /\ [][Next]_vars

\* All three queues and the back-off timer go on, the token service and the
\* backend answer in the end, and failures come to an end (MaxFaults).  Nothing
\* is assumed of the app or the user.
Fairness ==
  /\ WF_vars((\E b \in BOOLEAN : LoadSaved(b)) /\ UNCHANGED writeVars)
  /\ WF_vars(\E f \in fetches : FetchToken(f))
  /\ WF_vars(MainQueue)
  /\ WF_vars(WorkerQueue)
  /\ WF_vars(BackoffTimeout)
  /\ WF_vars(Stream_)
  /\ WF_vars(Server)

FairSpec == Spec /\ Fairness

-----------------------------------------------------------------------------
(* Properties.                                                             *)

Numbers == Nat \ {0}
Batches == [kind : {"batch"}, id : Numbers, w : Numbers, user : UserIds]
Replies == {Hello} \cup [kind : {"ack", "refused"}, w : Numbers]
Streams == [state : States, close : Nat, idle : BOOLEAN, ok : BOOLEAN,
            handshake : BOOLEAN, uid : UserIds,
            sent : Seq(Batches \cup {Hello}), received : Seq(Replies)]

\* The types of the client's and the backend's state.
TypeOK ==
  /\ AuthTypeOK
  /\ up \in BOOLEAN
  /\ current_user \in UserIds
  /\ token_counter \in Nat
  /\ fetches \subseteq Fetches
  /\ workQ \in Seq(Operations)
  /\ sync_user \in UserIds
  /\ queue \in [UserIds -> Seq(Batches)]
  /\ next_batch_id \in Numbers
  /\ pipeline \in Seq(Batches)
  /\ callbacks \subseteq [user : UserIds, id : Numbers, w : Numbers]
  /\ stream \in Streams
  /\ written \in Nat
  /\ applied \subseteq 1..written /\ refused \subseteq 1..written
  /\ acked \subseteq [user : UserIds, w : Numbers] /\ rejected \subseteq 1..written
  /\ doc \in [UserIds -> 0..written]

\* Nobody's writes travel under another user's token: every batch on the stream
\* was made by the user the stream is authenticated as.  This takes the token
\* counter, the close count and the order of all three queues, because the token
\* is fetched while users come and go.
SentAsOwner ==
  \A i \in DOMAIN stream.sent :
    stream.sent[i].kind = "batch" => stream.sent[i].user = stream.uid

\* The user Firestore will act as when the first i operations of its worker queue
\* have run.
UserAfter(i) ==
  LET changes == {j \in 1..i : workQ[j].op \in {"initialize", "credential"}}
  IN  IF changes = {} THEN sync_user
      ELSE workQ[CHOOSE j \in changes : \A k \in changes : k <= j].uid

\* A token on its way to the stream names the user Firestore will act as when it
\* arrives, although it was asked for while users came and went: a token fetched
\* before a notification is never handed on after it.
TokenFitsUser ==
  \A i \in DOMAIN workQ :
    workQ[i].op = "resume" => workQ[i].uid \in {UserAfter(i), Failed}

Queued(w) == \E u \in UserIds : \E i \in DOMAIN queue[u] : queue[u][i].w = w

\* A write stays in its queue, across failures, changes of user and restarts,
\* until the backend has applied or refused that very write.
NoWriteLost == \A w \in 1..written : Queued(w) \/ w \in applied \cup refused

\* The writes as WriteQueue sees them.
Promised == INSTANCE WriteQueue
              WITH acting <- sync_user, made <- written,
                   pending <- [u \in UserIds |-> [i \in DOMAIN queue[u] |-> queue[u][i].w]]

\* Writes are finished one at a time, in the order they were made, and only the
\* acting user's: the front of the pipeline, which an answer is taken to be about,
\* is always the front of the acting user's queue on disk, although the pipeline is
\* filled piecemeal, restarted with the stream and swapped with the user.
KeepsOrder == Promised!Spec

\* What was reported as successful was applied, and no write sent again has
\* overwritten it with an older one of the same user.
AckedSurvives == \A a \in acked : a.w \in applied /\ a.w <= doc[a.user]

\* Every waiting callback belongs to the batch pending under its ID, although
\* batch IDs come back after a restart or a change of user: no caller is told of
\* another write.
CallbackIsOwn ==
  \A c \in callbacks :
    \E i \in DOMAIN queue[c.user] : queue[c.user][i].id = c.id /\ queue[c.user][i].w = c.w

\* No HARD_ASSERT of the stream, the pipeline or the mutation queue fails.
NoAssertFails == stream.ok

\* The comment in HandleWriteError: "If this was a permanent error, the request
\* itself was the problem so it's not going to succeed if we resend it."  So a
\* write reported as failed is one the backend refused.
RejectedWasRefused == rejected \subseteq refused

\* A write of a user who stays signed in is applied or refused in the end,
\* whatever failed before.
WritesFinish ==
  \A w \in Writes :
    (up /\ Queued(w)) ~> (~Queued(w) \/ ~up \/ \A i \in DOMAIN queue[Uid(user)] : queue[Uid(user)][i].w # w)

=============================================================================
