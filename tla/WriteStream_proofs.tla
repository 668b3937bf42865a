------------------------- MODULE WriteStream_proofs -------------------------
(***************************************************************************)
(* Proofs about WriteStream: tokens fit users, writes travel and finish in *)
(* order, and no assertion fails, for any number of users, tokens, writes, *)
(* faults and pipeline places.                                             *)
(***************************************************************************)
EXTENDS WriteStream, FIRAuth_proofs, FiniteSetTheorems,
        WellFoundedInduction, SequenceTheorems

-----------------------------------------------------------------------------
(* The inductive invariant, in parts.                                      *)

(* 1. The way of a token from Auth's work queue to the worker queue.       *)

Answers == [kind : {"token"}, uid : UserIds \cup {Failed}, counter : Nat, close : Nat]
Posts == [kind : {"post"}, uid : UserIds]

ProviderTypes ==
  /\ up \in BOOLEAN
  /\ current_user \in UserIds
  /\ token_counter \in Nat
  /\ fetches \subseteq Fetches
  /\ workQ \in Seq(Operations)
  /\ mainQ \in Seq(Posts \cup Answers)

\* Before the client is created nobody asks for a token.
NobodyAsks ==
  ~up => /\ fetches = {}
         /\ workQ = <<>>
         /\ \A i \in 1..Len(mainQ) : mainQ[i].kind = "post"

\* Counters of requests and answers are counts of the past.
CountersArePast ==
  /\ \A f \in fetches : f.counter <= token_counter
  /\ \A i \in 1..Len(mainQ) : mainQ[i].kind = "token" => mainQ[i].counter <= token_counter

\* The provider knows the user unless a notification waits.
ProviderFollows == up /\ ~PendingPost(mainQ) => current_user = Uid(user)

\* A token being fetched is the provider's user's, if no notification came since.
FetchFits ==
  \A f \in fetches :
    f.uid # Unasked /\ f.counter = token_counter /\ ~PendingPost(mainQ) => f.uid = current_user

\* So is a token that no notification precedes in the main queue.
AnswerFits ==
  \A i \in 1..Len(mainQ) :
    /\ mainQ[i].kind = "token"
    /\ mainQ[i].counter = token_counter
    /\ \A j \in 1..i-1 : mainQ[j].kind # "post"
    => mainQ[i].uid \in {current_user, Failed}

\* The worker queue q changes the user at its j-th place.
ChangesAt(q, j) == q[j].op \in {"initialize", "credential"}

\* Having run i operations of q as user u at first, Firestore acts as uid.
ActsAs(q, u, i, uid) ==
  /\ (\A k \in 1..i : ~ChangesAt(q, k)) => uid = u
  /\ \A j \in 1..i : ChangesAt(q, j) /\ (\A k \in j+1..i : ~ChangesAt(q, k)) => uid = q[j].uid

\* Firestore ends up as the provider's user, and a token in the worker queue is
\* its user's at that place.
WorkFits(q, u, last) ==
  /\ ActsAs(q, u, Len(q), last)
  /\ \A i \in 1..Len(q) :
       q[i].op = "resume" /\ q[i].uid # Failed => ActsAs(q, u, i, q[i].uid)

TokenPart ==
  /\ ProviderTypes
  /\ NobodyAsks
  /\ CountersArePast
  /\ ProviderFollows
  /\ FetchFits
  /\ AnswerFits
  /\ WorkFits(workQ, sync_user, current_user)

(* 2. The queues on disk and the pipeline.                                 *)

\* A queue q of user u: IDs and write numbers rise.
InOrder(q, u) ==
  /\ q \in Seq(Batches)
  /\ \A i \in 1..Len(q) : q[i].user = u
  /\ \A i, j \in 1..Len(q) : i < j => q[i].id < q[j].id /\ q[i].w < q[j].w

\* The pipeline p holds the first batches of queue q.
IsFront(p, q) ==
  /\ p \in Seq(Batches)
  /\ Len(p) <= MaxPipeline
  /\ Len(p) <= Len(q)
  /\ \A i \in 1..Len(p) : p[i] = q[i]

\* The client is between Initialize and the end of the process.
Running == up /\ ~(workQ # <<>> /\ workQ[1].op = "initialize")

\* The queues q on disk, when n writes have been made.
OnDisk(q, n) ==
  /\ q \in [UserIds -> Seq(Batches)]
  /\ \A u \in UserIds : InOrder(q[u], u)
  /\ \A u \in UserIds : \A i \in 1..Len(q[u]) : q[u][i].w <= n
  /\ \E m \in Nat : \A u \in UserIds : \A i \in 1..Len(q[u]) : q[u][i].id <= m

\* Initialize comes first in the worker queue; until it has run nothing is sent.
RunPart ==
  /\ \A i \in 2..Len(workQ) : workQ[i].op # "initialize"
  /\ \A i \in 1..Len(workQ) : ChangesAt(workQ, i) => workQ[i].uid \in UserIds
  /\ ~Running => pipeline = <<>> /\ stream.state = "Initial"

QueuePart ==
  /\ sync_user \in UserIds
  /\ written \in Nat
  /\ next_batch_id \in Numbers
  /\ OnDisk(queue, written)
  /\ IsFront(pipeline, queue[sync_user])
  /\ Running => \A i \in 1..Len(queue[sync_user]) : queue[sync_user][i].id < next_batch_id

(* 3. The stream.                                                          *)

\* The answers r and the batches s on the stream are, in order, those of the
\* whole pipeline p.
InFlight(r, s, p) ==
  /\ Len(p) = Len(r) + Len(s)
  /\ \A i \in 1..Len(r) : r[i].kind \in {"ack", "refused"} /\ r[i].w = p[i].w
  /\ \A j \in 1..Len(s) : s[j] = p[Len(r) + j]

\* The stream s serves the pipeline p.
Serves(s, p) ==
  /\ s \in Streams
  /\ s.ok
  /\ ~IsOpen(s) => s.sent = <<>> /\ s.received = <<>> /\ ~s.handshake /\ ~s.idle
  /\ s.idle => p = <<>>
  /\ IsStarted(s) /\ ~s.handshake => p # <<>>
  /\ IsOpen(s) /\ ~s.handshake => \/ s.sent = <<Hello>> /\ s.received = <<>>
                                  \/ s.sent = <<>> /\ s.received = <<Hello>>
  /\ s.handshake => InFlight(s.received, s.sent, p)

\* The requests, the answers in main queue mq and those in worker queue wq that
\* carry close count c.
FetchesOf(fs, c) == {f \in fs : f.close = c}
AnswersOf(mq, c) == {i \in 1..Len(mq) : mq[i].kind = "token" /\ mq[i].close = c}
ResumesOf(wq, c) == {i \in 1..Len(wq) : wq[i].op = "resume" /\ wq[i].close = c}

OnlyOne(S) == \A x, y \in S : x = y

\* The token for this start of stream s is asked for once, while the stream waits
\* for it.
AsksOnce(fs, mq, wq, s) ==
  /\ OnlyOne(FetchesOf(fs, s.close))
  /\ OnlyOne(AnswersOf(mq, s.close))
  /\ OnlyOne(ResumesOf(wq, s.close))
  /\ FetchesOf(fs, s.close) = {} \/ AnswersOf(mq, s.close) = {}
  /\ FetchesOf(fs, s.close) = {} \/ ResumesOf(wq, s.close) = {}
  /\ AnswersOf(mq, s.close) = {} \/ ResumesOf(wq, s.close) = {}
  /\ s.state # "Starting" => /\ FetchesOf(fs, s.close) = {}
                             /\ AnswersOf(mq, s.close) = {}
                             /\ ResumesOf(wq, s.close) = {}

\* No request or answer is newer than close count c.
NoneNewer(fs, mq, wq, c) ==
  /\ \A f \in fs : f.close <= c
  /\ \A i \in 1..Len(mq) : mq[i].kind = "token" => mq[i].close <= c
  /\ \A i \in 1..Len(wq) : wq[i].op = "resume" => wq[i].close <= c

AsksPart ==
  /\ AsksOnce(fetches, mainQ, workQ, stream)
  /\ NoneNewer(fetches, mainQ, workQ, stream.close)

StreamPart ==
  /\ Serves(stream, pipeline)
  /\ IsOpen(stream) => stream.uid = sync_user

(* 4. The backend and the callers.                                         *)

AnswersAreTrue ==
  \A i \in 1..Len(stream.received) :
    LET r == stream.received[i]
    IN  /\ r.kind = "ack" => r.w \in applied /\ r.w <= doc[stream.uid]
        /\ r.kind = "refused" => r.w \in refused

\* What is finished is older than what is pending.
AckedIsOlder ==
  \A a \in acked : \A i \in 1..Len(queue[a.user]) : a.w < queue[a.user][i].w

BackendTypes ==
  /\ callbacks \subseteq [user : UserIds, id : Numbers, w : Numbers]
  /\ applied \subseteq 1..written
  /\ refused \subseteq 1..written
  /\ acked \subseteq [user : UserIds, w : Numbers]
  /\ rejected \subseteq 1..written
  /\ doc \in [UserIds -> 0..written]

BackendPart ==
  /\ BackendTypes
  /\ AnswersAreTrue
  /\ AckedIsOlder
  /\ AckedSurvives
  /\ NoWriteLost
  /\ CallbackIsOwn

WriteInv ==
  /\ AuthInv
  /\ TokenPart
  /\ RunPart
  /\ QueuePart
  /\ StreamPart
  /\ AsksPart
  /\ BackendPart

-----------------------------------------------------------------------------
(* Numbers.                                                                *)

\* A set of natural numbers has a least element.
LEMMA HasLeast ==
  ASSUME NEW T, T \subseteq Nat, T # {}
  PROVE  \E x \in T : \A y \in T : x <= y
<1>1. PICK x \in T : \A y \in T : ~(<<y, x>> \in OpToRel(<, Nat))
  BY NatLessThanWellFounded, WFMin, Zenon
<1>2. ASSUME NEW y \in T PROVE x <= y
  <2>1. ~(y < x)
    BY <1>1 DEF OpToRel
  <2> QED
    BY <2>1
<1> QED
  BY <1>2

\* A bounded set of natural numbers has a greatest element.
LEMMA HasGreatest ==
  ASSUME NEW T, T \subseteq Nat, T # {}, NEW m \in Nat, \A y \in T : y <= m
  PROVE  \E x \in T : \A y \in T : y <= x
<1> DEFINE D == {d \in Nat : \E y \in T : d = m - y}
<1>1. PICK y0 \in T : y0 \in Nat /\ y0 <= m
  OBVIOUS
<1>2. D # {}
  <2>1. m - y0 \in D
    BY <1>1
  <2> QED
    BY <2>1
<1>3. PICK d \in D : \A e \in D : d <= e
  BY <1>2, HasLeast
<1>4. PICK x \in T : d = m - x
  OBVIOUS
<1>5. ASSUME NEW y \in T PROVE y <= x
  <2>1. y \in Nat /\ x \in Nat /\ y <= m /\ x <= m
    OBVIOUS
  <2>2. m - y \in D
    BY <2>1
  <2>3. m - x <= m - y
    BY <1>3, <1>4, <2>2
  <2> QED
    BY <2>1, <2>3
<1> QED
  BY <1>5

-----------------------------------------------------------------------------
(* The operators on streams.                                               *)

LEMMA AssertFacts ==
  ASSUME NEW s \in Streams, s.ok, NEW p, p
  PROVE  HardAssert(s, p) = s
BY DEF HardAssert, Streams

LEMMA StartFacts ==
  ASSUME NEW s \in Streams, s.ok, ~IsStarted(s)
  PROVE  /\ Start(s) \in Streams
         /\ Start(s).state = IF s.state = "Error" THEN "Backoff" ELSE "Starting"
         /\ Start(s).close = s.close /\ Start(s).idle = s.idle /\ Start(s).ok
         /\ Start(s).handshake = s.handshake /\ Start(s).uid = s.uid
         /\ Start(s).sent = s.sent /\ Start(s).received = s.received
<1>1. CASE s.state = "Error"
  BY <1>1 DEF Start, Streams, States
<1>2. CASE s.state # "Error"
  <2>1. s.state = "Initial"
    BY <1>2 DEF Streams, States, IsStarted
  <2>2. HardAssert(s, s.state = "Initial") = s
    BY <2>1, AssertFacts
  <2>3. Start(s) = [s EXCEPT !.state = "Starting"]
    BY <1>2, <2>2 DEF Start
  <2> QED
    BY <1>2, <2>3 DEF Streams, States
<1> QED
  BY <1>1, <1>2

LEMMA CloseFacts ==
  ASSUME NEW s \in Streams, s.ok, NEW g \in BOOLEAN, IsStarted(s) \/ g
  PROVE  /\ ~IsStarted(s) => Close(s, g) = s
         /\ IsStarted(s) => /\ Close(s, g) \in Streams
                            /\ Close(s, g).state = IF g THEN "Initial" ELSE "Error"
                            /\ Close(s, g).close = s.close + 1
                            /\ Close(s, g).idle = FALSE /\ Close(s, g).ok
                            /\ Close(s, g).uid = s.uid
<1>1. ASSUME ~IsStarted(s) PROVE Close(s, g) = s
  BY <1>1 DEF Close
<1>2. ASSUME IsStarted(s), NEW st \in States, st = IF g THEN "Initial" ELSE "Error"
      PROVE  /\ Close(s, g) \in Streams
             /\ Close(s, g).state = st /\ Close(s, g).close = s.close + 1
             /\ Close(s, g).idle = FALSE /\ Close(s, g).ok /\ Close(s, g).uid = s.uid
  <2>1. HardAssert(s, IsStarted(s)) = s
    BY <1>2, AssertFacts
  <2>2. Close(s, g) = [s EXCEPT !.state = st, !.idle = FALSE, !.close = s.close + 1]
    BY <1>2, <2>1 DEF Close
  <2>3. s.close + 1 \in Nat
    BY DEF Streams
  <2> DEFINE n == s.close + 1
  <2> HIDE DEF n
  <2>4. Close(s, g) = [s EXCEPT !.state = st, !.idle = FALSE, !.close = n] /\ n \in Nat
    BY <2>2, <2>3 DEF n
  <2>5. /\ Close(s, g) \in Streams
        /\ Close(s, g).state = st /\ Close(s, g).close = n
        /\ Close(s, g).idle = FALSE /\ Close(s, g).ok /\ Close(s, g).uid = s.uid
    BY <2>4 DEF Streams
  <2> QED
    BY <2>5 DEF n
<1>3. (IF g THEN "Initial" ELSE "Error") \in States
  BY DEF States
<1> QED
  BY <1>1, <1>2, <1>3

LEMMA DropFacts ==
  ASSUME NEW s \in Streams
  PROVE  /\ Drop(s) \in Streams
         /\ Drop(s).state = s.state /\ Drop(s).close = s.close /\ Drop(s).idle = s.idle
         /\ Drop(s).ok = s.ok /\ Drop(s).handshake = s.handshake /\ Drop(s).uid = s.uid
         /\ Drop(s).sent = <<>> /\ Drop(s).received = <<>>
<1>1. <<>> \in Seq(Batches \cup {Hello}) /\ <<>> \in Seq(Replies)
  OBVIOUS
<1> QED
  BY <1>1 DEF Drop, Streams

LEMMA InhibitFacts ==
  ASSUME NEW s \in Streams, s.ok, ~IsStarted(s)
  PROVE  /\ InhibitBackoff(s) \in Streams
         /\ InhibitBackoff(s).state = "Initial"
         /\ InhibitBackoff(s).close = s.close /\ InhibitBackoff(s).idle = s.idle
         /\ InhibitBackoff(s).ok /\ InhibitBackoff(s).handshake = s.handshake
         /\ InhibitBackoff(s).sent = s.sent /\ InhibitBackoff(s).received = s.received
<1>1. HardAssert(s, ~IsStarted(s)) = s
  BY AssertFacts
<1>2. InhibitBackoff(s) = [s EXCEPT !.state = "Initial"]
  BY <1>1 DEF InhibitBackoff
<1> QED
  BY <1>2 DEF Streams, States

\* Resetting handshake_complete_.
LEMMA UnshakenFacts ==
  ASSUME NEW s \in Streams
  PROVE  LET t == [s EXCEPT !.handshake = FALSE]
         IN  /\ t \in Streams
             /\ t.state = s.state /\ t.close = s.close /\ t.idle = s.idle /\ t.ok = s.ok
             /\ t.handshake = FALSE /\ t.uid = s.uid
             /\ t.sent = s.sent /\ t.received = s.received
BY DEF Streams

-----------------------------------------------------------------------------
(* What the client does to its stream.                                     *)

\* A stream that is not open carries nothing.
Quiet(s) ==
  /\ s \in Streams
  /\ s.ok
  /\ ~IsOpen(s)
  /\ s.sent = <<>> /\ s.received = <<>>
  /\ ~s.handshake
  /\ ~s.idle

LEMMA QuietServes ==
  ASSUME NEW s, Quiet(s), NEW p, IsStarted(s) => p # <<>>
  PROVE  Serves(s, p)
BY DEF Quiet, Serves

LEMMA ServesQuiet ==
  ASSUME NEW s, NEW p, Serves(s, p), ~IsOpen(s)
  PROVE  Quiet(s)
BY DEF Quiet, Serves

\* Drop and the reset of handshake_complete_ after a Close.
LEMMA ClosedFacts ==
  ASSUME NEW s, NEW p, Serves(s, p), NEW g \in BOOLEAN, IsStarted(s) \/ g
  PROVE  LET c == Drop(Close(s, g))
         IN  /\ c \in Streams /\ c.ok /\ ~c.idle /\ c.sent = <<>> /\ c.received = <<>>
             /\ ~IsStarted(c)
             /\ IsStarted(s) => c.state = IF g THEN "Initial" ELSE "Error"
             /\ c.close = IF IsStarted(s) THEN s.close + 1 ELSE s.close
<1>1. s \in Streams /\ s.ok
  BY DEF Serves
<1>2. CASE ~IsStarted(s)
  <2>1. Close(s, g) = s /\ s.idle = FALSE
    BY <1>1, <1>2, CloseFacts DEF Serves, IsOpen, IsStarted, Streams
  <2> QED
    BY <1>1, <1>2, <2>1, DropFacts DEF IsStarted
<1>3. CASE IsStarted(s)
  <2>1. /\ Close(s, g) \in Streams
        /\ Close(s, g).state = IF g THEN "Initial" ELSE "Error"
        /\ Close(s, g).close = s.close + 1
        /\ Close(s, g).idle = FALSE /\ Close(s, g).ok
    BY <1>1, <1>3, CloseFacts
  <2> QED
    BY <1>3, <2>1, DropFacts DEF IsStarted
<1> QED
  BY <1>2, <1>3

LEMMA UnshakenQuiet ==
  ASSUME NEW c \in Streams, c.ok, ~c.idle, c.sent = <<>>, c.received = <<>>, ~IsOpen(c)
  PROVE  LET t == [c EXCEPT !.handshake = FALSE]
         IN  Quiet(t) /\ t.state = c.state /\ t.close = c.close
<1> DEFINE t == [c EXCEPT !.handshake = FALSE]
<1>1. /\ t \in Streams /\ t.state = c.state /\ t.close = c.close /\ t.idle = c.idle /\ t.ok = c.ok
      /\ t.handshake = FALSE /\ t.sent = c.sent /\ t.received = c.received
  BY UnshakenFacts
<1> HIDE DEF t
<1>2. Quiet(t) /\ t.state = c.state /\ t.close = c.close
  BY <1>1 DEF Quiet, IsOpen
<1> QED
  BY <1>2 DEF t

\* RestartNetwork stops the stream.
LEMMA StoppedFacts ==
  ASSUME NEW s, NEW p, Serves(s, p)
  PROVE  LET t == InhibitBackoff([Drop(Close(s, TRUE)) EXCEPT !.handshake = FALSE])
         IN  /\ Quiet(t) /\ t.state = "Initial"
             /\ t.close = IF IsStarted(s) THEN s.close + 1 ELSE s.close
<1> DEFINE c == Drop(Close(s, TRUE))
           d == [c EXCEPT !.handshake = FALSE]
<1>1. /\ c \in Streams /\ c.ok /\ ~c.idle /\ c.sent = <<>> /\ c.received = <<>> /\ ~IsStarted(c)
      /\ c.close = IF IsStarted(s) THEN s.close + 1 ELSE s.close
  BY ClosedFacts
<1> HIDE DEF c
<1>2. Quiet(d) /\ d.state = c.state /\ d.close = c.close
  BY <1>1, UnshakenQuiet DEF IsOpen, IsStarted
<1> HIDE DEF d
<1>3. d \in Streams /\ d.ok /\ ~IsStarted(d)
  BY <1>1, <1>2 DEF Quiet, IsStarted
<1>4. Quiet(InhibitBackoff(d)) /\ InhibitBackoff(d).state = "Initial" /\ InhibitBackoff(d).close = d.close
  BY <1>2, <1>3, InhibitFacts DEF Quiet, IsOpen
<1> QED
  BY <1>1, <1>2, <1>4 DEF c, d

\* A permanent error closes the stream without a back-off.
LEMMA RejectedFacts ==
  ASSUME NEW s, NEW p, Serves(s, p), IsStarted(s)
  PROVE  LET t == [InhibitBackoff(Drop(Close(s, FALSE))) EXCEPT !.handshake = FALSE]
         IN  /\ Quiet(t) /\ t.state = "Initial" /\ t.close = s.close + 1
<1> DEFINE c == Drop(Close(s, FALSE))
           d == InhibitBackoff(c)
<1>1. /\ c \in Streams /\ c.ok /\ ~c.idle /\ c.sent = <<>> /\ c.received = <<>> /\ ~IsStarted(c)
      /\ c.close = s.close + 1
  BY ClosedFacts
<1> HIDE DEF c
<1>2. /\ d \in Streams /\ d.ok /\ ~d.idle /\ d.sent = <<>> /\ d.received = <<>>
      /\ d.state = "Initial" /\ d.close = c.close
  BY <1>1, InhibitFacts
<1> HIDE DEF d
<1>3. LET t == [d EXCEPT !.handshake = FALSE]
      IN  Quiet(t) /\ t.state = d.state /\ t.close = d.close
  BY <1>2, UnshakenQuiet DEF IsOpen
<1> QED
  BY <1>1, <1>2, <1>3 DEF c, d

\* Any other error: the stream waits for its back-off if there is anything to send.
LEMMA RetriedFacts ==
  ASSUME NEW s, NEW p, Serves(s, p), IsStarted(s)
  PROVE  LET closed == Drop(Close(s, FALSE))
             again  == IF p # <<>> /\ ~IsStarted(closed) THEN Start(closed) ELSE closed
             t      == [again EXCEPT !.handshake = FALSE]
         IN  /\ Quiet(t) /\ t.state \in {"Error", "Backoff"}
             /\ t.state = "Backoff" => p # <<>>
             /\ t.close = s.close + 1
<1> DEFINE c == Drop(Close(s, FALSE))
           d == IF p # <<>> /\ ~IsStarted(c) THEN Start(c) ELSE c
<1>1. /\ c \in Streams /\ c.ok /\ ~c.idle /\ c.sent = <<>> /\ c.received = <<>> /\ ~IsStarted(c)
      /\ c.state = "Error" /\ c.close = s.close + 1
  BY ClosedFacts
<1> HIDE DEF c
<1>2. /\ d \in Streams /\ d.ok /\ ~d.idle /\ d.sent = <<>> /\ d.received = <<>>
      /\ d.state = (IF p # <<>> THEN "Backoff" ELSE "Error") /\ d.close = c.close
  <2>1. CASE p = <<>>
    BY <1>1, <2>1
  <2>2. CASE p # <<>>
    BY <1>1, <2>2, StartFacts
  <2> QED
    BY <2>1, <2>2
<1> HIDE DEF d
<1>3. LET t == [d EXCEPT !.handshake = FALSE]
      IN  Quiet(t) /\ t.state = d.state /\ t.close = d.close
  BY <1>2, UnshakenQuiet DEF IsOpen
<1> DEFINE t == [d EXCEPT !.handshake = FALSE]
<1> HIDE DEF t
<1>5. Quiet(t) /\ t.state \in {"Error", "Backoff"} /\ (t.state = "Backoff" => p # <<>>)
      /\ t.close = s.close + 1
  BY <1>1, <1>2, <1>3 DEF t
<1> QED
  BY <1>5 DEF c, d, t

\* The idleness timer.
LEMMA IdleFacts ==
  ASSUME NEW s, NEW p, Serves(s, p), s.idle
  PROVE  LET t == [HardAssert(Drop(Close(s, TRUE)), p = <<>>) EXCEPT !.handshake = FALSE]
         IN  /\ Quiet(t) /\ t.state = "Initial" /\ t.close = s.close + 1
<1> DEFINE c == Drop(Close(s, TRUE))
<1>0. IsStarted(s) /\ p = <<>>
  BY DEF Serves, IsOpen, IsStarted
<1>1. /\ c \in Streams /\ c.ok /\ ~c.idle /\ c.sent = <<>> /\ c.received = <<>> /\ ~IsStarted(c)
      /\ c.state = "Initial" /\ c.close = s.close + 1
  BY <1>0, ClosedFacts
<1> HIDE DEF c
<1>2. HardAssert(c, p = <<>>) = c
  BY <1>0, <1>1, AssertFacts
<1>3. LET t == [c EXCEPT !.handshake = FALSE]
      IN  Quiet(t) /\ t.state = c.state /\ t.close = c.close
  BY <1>1, UnshakenQuiet DEF IsOpen
<1> QED
  BY <1>1, <1>2, <1>3 DEF c

\* The back-off timer.
LEMMA ElapsedFacts ==
  ASSUME NEW s, NEW p, Serves(s, p), s.state = "Backoff"
  PROVE  /\ Quiet(BackoffElapsed(s)) /\ BackoffElapsed(s).state = "Starting"
         /\ BackoffElapsed(s).close = s.close
<1> DEFINE c == [s EXCEPT !.state = "Initial"]
<1>1. Quiet(s) /\ s \in Streams /\ s.ok
  BY ServesQuiet DEF Serves, IsOpen
<1>2. HardAssert(s, s.state = "Backoff") = s
  BY <1>1, AssertFacts
<1>3. BackoffElapsed(s) = Start(c)
  BY <1>2 DEF BackoffElapsed
<1>4. /\ c \in Streams /\ c.state = "Initial" /\ c.ok = s.ok /\ c.close = s.close /\ c.idle = s.idle
      /\ c.handshake = s.handshake /\ c.sent = s.sent /\ c.received = s.received
  BY <1>1 DEF Streams, States
<1> HIDE DEF c
<1>5. ~IsStarted(c)
  BY <1>4 DEF IsStarted
<1>6. /\ c.ok /\ ~c.idle /\ ~c.handshake /\ c.sent = <<>> /\ c.received = <<>>
  BY <1>1, <1>4 DEF Quiet
<1>7. /\ Start(c) \in Streams /\ Start(c).state = "Starting" /\ Start(c).close = s.close
      /\ Start(c).ok /\ ~Start(c).idle /\ ~Start(c).handshake
      /\ Start(c).sent = <<>> /\ Start(c).received = <<>>
  BY <1>4, <1>5, <1>6, StartFacts
<1> QED
  BY <1>3, <1>7 DEF Quiet, IsOpen

\* The token opens the stream and the handshake is sent.
LEMMA OpenedFacts ==
  ASSUME NEW s, NEW p, Serves(s, p), s.state = "Starting", NEW uid \in UserIds
  PROVE  LET open == ResumeStart(s)
             t == [HardAssert(open, ~open.handshake) EXCEPT !.uid = uid, !.sent = <<Hello>>]
         IN  /\ Serves(t, p) /\ t.state = "Open" /\ t.close = s.close
             /\ t.uid = uid /\ t.received = <<>>
<1> DEFINE c == [s EXCEPT !.state = "Open"]
           t == [c EXCEPT !.uid = uid, !.sent = <<Hello>>]
<1>1. Quiet(s) /\ s \in Streams /\ s.ok /\ p # <<>>
  BY ServesQuiet DEF Serves, IsOpen, IsStarted
<1>2. ResumeStart(s) = c
  <2>1. HardAssert(s, s.state = "Starting") = s
    BY <1>1, AssertFacts
  <2> QED
    BY <2>1 DEF ResumeStart
<1>3. /\ c \in Streams /\ c.state = "Open" /\ c.ok /\ c.close = s.close /\ ~c.idle
      /\ ~c.handshake /\ c.received = <<>>
  <2>1. /\ c \in Streams /\ c.state = "Open" /\ c.ok = s.ok /\ c.close = s.close /\ c.idle = s.idle
        /\ c.handshake = s.handshake /\ c.received = s.received
    BY <1>1 DEF Streams, States
  <2> QED
    BY <1>1, <2>1 DEF Quiet
<1> HIDE DEF c
<1>4. HardAssert(c, ~c.handshake) = c
  BY <1>3, AssertFacts
<1>5. /\ t \in Streams /\ t.state = "Open" /\ t.ok /\ t.close = s.close /\ ~t.idle
      /\ ~t.handshake /\ t.received = <<>> /\ t.uid = uid /\ t.sent = <<Hello>>
  <2>1. <<Hello>> \in Seq(Batches \cup {Hello})
    OBVIOUS
  <2>2. /\ t \in Streams /\ t.state = c.state /\ t.ok = c.ok /\ t.close = c.close
        /\ t.idle = c.idle /\ t.handshake = c.handshake /\ t.received = c.received
        /\ t.uid = uid /\ t.sent = <<Hello>>
    BY <1>3, <2>1 DEF Streams
  <2> QED
    BY <1>3, <2>2
<1> HIDE DEF t
<1>6. Serves(t, p)
  BY <1>1, <1>5 DEF Serves, IsOpen
<1> QED
  BY <1>2, <1>4, <1>5, <1>6 DEF t

\* The stream after one answer has been read.
LEMMA ReadFacts ==
  ASSUME NEW s \in Streams, s.received # <<>>
  PROVE  LET t == [s EXCEPT !.received = Tail(@)]
         IN  /\ t \in Streams /\ t.state = s.state /\ t.close = s.close /\ t.idle = s.idle
             /\ t.ok = s.ok /\ t.handshake = s.handshake /\ t.uid = s.uid /\ t.sent = s.sent
             /\ t.received = Tail(s.received)
<1>1. s.received \in Seq(Replies) /\ Tail(s.received) \in Seq(Replies)
  BY DEF Streams
<1> QED
  BY <1>1 DEF Streams

\* What is sent on an open stream waits behind what was sent before.
LEMMA SendFacts ==
  ASSUME NEW s \in Streams, NEW new \in Seq(Batches), NEW h \in BOOLEAN
  PROVE  LET t == CancelIdleCheck([s EXCEPT !.handshake = h, !.sent = @ \o new])
         IN  /\ t \in Streams /\ t.state = s.state /\ t.close = s.close /\ ~t.idle
             /\ t.ok = s.ok /\ t.handshake = h /\ t.uid = s.uid
             /\ t.received = s.received /\ t.sent = s.sent \o new
<1> DEFINE m == s.sent \o new
<1>1. m \in Seq(Batches \cup {Hello})
  <2>1. s.sent \in Seq(Batches \cup {Hello}) /\ new \in Seq(Batches \cup {Hello})
    BY DEF Streams
  <2> QED
    BY <2>1
<1> HIDE DEF m
<1> DEFINE c == [s EXCEPT !.handshake = h, !.sent = m]
<1>2. /\ c \in Streams /\ c.state = s.state /\ c.close = s.close
      /\ c.ok = s.ok /\ c.handshake = h /\ c.uid = s.uid
      /\ c.received = s.received /\ c.sent = m
  BY <1>1 DEF Streams
<1>3. c = [s EXCEPT !.handshake = h, !.sent = @ \o new]
  BY DEF m
<1> HIDE DEF c
<1>4. LET t == CancelIdleCheck(c)
      IN  /\ t \in Streams /\ t.state = c.state /\ t.close = c.close /\ ~t.idle
          /\ t.ok = c.ok /\ t.handshake = c.handshake /\ t.uid = c.uid
          /\ t.received = c.received /\ t.sent = c.sent
  BY <1>2 DEF CancelIdleCheck, Streams
<1> QED
  BY <1>2, <1>3, <1>4 DEF m

\* New batches at the end of the pipeline are the last in flight.
LEMMA MoreInFlight ==
  ASSUME NEW r \in Seq(Replies), NEW s \in Seq(Batches \cup {Hello}), NEW p \in Seq(Batches),
         NEW new \in Seq(Batches), InFlight(r, s, p)
  PROVE  InFlight(r, s \o new, p \o new)
<1> DEFINE s2 == s \o new
           p2 == p \o new
<1>0. Len(p) = Len(r) + Len(s)
  BY DEF InFlight
<1>1. /\ Len(s2) = Len(s) + Len(new) /\ Len(p2) = Len(p) + Len(new)
      /\ Len(s) \in Nat /\ Len(p) \in Nat /\ Len(r) \in Nat /\ Len(new) \in Nat
      /\ Len(p) = Len(r) + Len(s)
  <2>1. new \in Seq(Batches \cup {Hello})
    OBVIOUS
  <2>2. Len(s2) = Len(s) + Len(new)
    BY <2>1, ConcatProperties
  <2>3. Len(p2) = Len(p) + Len(new)
    BY ConcatProperties
  <2>4. Len(s) \in Nat /\ Len(p) \in Nat /\ Len(r) \in Nat /\ Len(new) \in Nat
    OBVIOUS
  <2> QED
    BY <1>0, <2>2, <2>3, <2>4
<1>2. /\ \A i \in 1..Len(p2) : p2[i] = IF i <= Len(p) THEN p[i] ELSE new[i - Len(p)]
      /\ \A i \in 1..Len(s2) : s2[i] = IF i <= Len(s) THEN s[i] ELSE new[i - Len(s)]
  <2>1. new \in Seq(Batches \cup {Hello})
    OBVIOUS
  <2>2. \A i \in 1..Len(s2) : s2[i] = IF i <= Len(s) THEN s[i] ELSE new[i - Len(s)]
    BY <1>1, <2>1, ConcatProperties
  <2>3. \A i \in 1..Len(p2) : p2[i] = IF i <= Len(p) THEN p[i] ELSE new[i - Len(p)]
    BY <1>1, ConcatProperties
  <2> QED
    BY <2>2, <2>3
<1> HIDE DEF s2, p2
<1>3. ASSUME NEW i \in 1..Len(r) PROVE r[i].kind \in {"ack", "refused"} /\ r[i].w = p2[i].w
  <2>1. r[i].kind \in {"ack", "refused"} /\ r[i].w = p[i].w
    BY <1>3 DEF InFlight
  <2>2. p2[i] = p[i]
    BY <1>1, <1>2
  <2> QED
    BY <2>1, <2>2
<1>4. ASSUME NEW j \in 1..Len(s2) PROVE s2[j] = p2[Len(r) + j]
  <2>0. Len(r) + j \in 1..Len(p2)
    BY <1>1
  <2>1. CASE j <= Len(s)
    <3>1. s[j] = p[Len(r) + j]
      BY <1>1, <2>1 DEF InFlight
    <3> QED
      BY <1>1, <1>2, <2>0, <2>1, <3>1
  <2>2. CASE j > Len(s)
    <3>1. (Len(r) + j) - Len(p) = j - Len(s)
      BY <1>1
    <3> QED
      BY <1>1, <1>2, <2>0, <2>2, <3>1
  <2> QED
    BY <1>1, <2>1, <2>2
<1> QED
  BY <1>1, <1>3, <1>4, SMTT(30) DEF InFlight, s2, p2

-----------------------------------------------------------------------------
(* The pipeline.                                                           *)

\* The look-up behind the last batch of the pipeline starts right after it.
LEMMA SkipsPipeline ==
  ASSUME NEW q, NEW u, InOrder(q, u), NEW p, IsFront(p, q)
  PROVE  Cardinality({i \in DOMAIN q : q[i].id <= (IF p = <<>> THEN 0 ELSE p[Len(p)].id)}) = Len(p)
<1>0. /\ q \in Seq(Batches) /\ p \in Seq(Batches) /\ DOMAIN q = 1..Len(q) /\ Len(q) \in Nat
      /\ Len(p) \in Nat /\ Len(p) <= Len(q)
      /\ \A i \in 1..Len(q) : q[i].id \in Numbers
      /\ \A i, j \in 1..Len(q) : i < j => q[i].id < q[j].id
  <2>1. q \in Seq(Batches) /\ p \in Seq(Batches) /\ Len(p) <= Len(q)
    BY DEF InOrder, IsFront
  <2>2. \A i \in 1..Len(q) : q[i] \in Batches
    BY <2>1
  <2>3. \A i \in 1..Len(q) : q[i].id \in Numbers
    BY <2>2 DEF Batches
  <2>4. \A i, j \in 1..Len(q) : i < j => q[i].id < q[j].id
    BY DEF InOrder
  <2> QED
    BY <2>1, <2>3, <2>4
<1>1. CASE p = <<>>
  <2>1. {i \in DOMAIN q : q[i].id <= 0} = {}
    BY <1>0 DEF Numbers
  <2>2. Len(p) = 0
    BY <1>1
  <2> QED
    BY <1>1, <2>1, <2>2, FS_EmptySet
<1>2. CASE p # <<>>
  <2> DEFINE n == Len(p)
  <2>1. n \in 1..Len(q) /\ p[n] = q[n]
    BY <1>0, <1>2 DEF IsFront
  <2> HIDE DEF n
  <2>2. ASSUME NEW i \in 1..Len(q) PROVE q[i].id <= q[n].id <=> i \in 1..n
    <3>1. q[i].id \in Nat /\ q[n].id \in Nat
      BY <1>0, <2>1 DEF Numbers
    <3>2. CASE i < n
      BY <1>0, <2>1, <3>1, <3>2
    <3>3. CASE i = n
      BY <2>1, <3>1, <3>3
    <3>4. CASE i > n
      <4>1. q[n].id < q[i].id
        BY <1>0, <2>1, <3>4
      <4> QED
        BY <2>1, <3>1, <3>4, <4>1
    <3> QED
      BY <2>1, <3>2, <3>3, <3>4
  <2>3. {i \in DOMAIN q : q[i].id <= q[n].id} = 1..n
    BY <1>0, <2>1, <2>2
  <2>4. Cardinality(1..n) = n
    BY <2>1, FS_Interval
  <2> QED
    BY <1>2, <2>1, <2>3, <2>4 DEF n
<1> QED
  BY <1>1, <1>2

\* FillWritePipeline keeps the pipeline the front of the queue.
LEMMA PipedFacts ==
  ASSUME NEW q, NEW u, InOrder(q, u), NEW p, IsFront(p, q)
  PROVE  /\ NewlyPiped(p, q) \in Seq(Batches)
         /\ IsFront(p \o NewlyPiped(p, q), q)
<1> DEFINE n == Len(p)
           m == IF Len(q) < n + (MaxPipeline - n) THEN Len(q) ELSE n + (MaxPipeline - n)
           new == SubSeq(q, n + 1, m)
<1>0. /\ q \in Seq(Batches) /\ p \in Seq(Batches) /\ Len(q) \in Nat /\ MaxPipeline \in Nat
      /\ n \in Nat /\ n <= Len(q) /\ n <= MaxPipeline
      /\ \A i \in 1..n : p[i] = q[i]
  <2>1. q \in Seq(Batches) /\ p \in Seq(Batches) /\ n <= Len(q) /\ n <= MaxPipeline
        /\ \A i \in 1..n : p[i] = q[i]
    BY DEF InOrder, IsFront
  <2> QED
    BY <2>1, MaxPipelineAssumption
<1>1. NewlyPiped(p, q) = new
  BY SkipsPipeline DEF NewlyPiped
<1>2. m \in Nat /\ n <= m /\ m <= Len(q) /\ m <= MaxPipeline
  BY <1>0
<1> HIDE DEF m, n
<1>3. /\ new \in Seq(Batches) /\ Len(new) = m - n
      /\ \A i \in 1..m - n : new[i] = q[n + i]
  <2>2. Len(new) = m - n /\ \A i \in 1..m - n : new[i] = q[n + i]
    BY <1>0, <1>2
  <2>3. new \in Seq(Batches)
    BY <1>0, <1>2
  <2> QED
    BY <2>2, <2>3
<1> HIDE DEF new
<1>4. /\ p \o new \in Seq(Batches) /\ Len(p \o new) = m
      /\ \A i \in 1..m : (p \o new)[i] = IF i <= n THEN p[i] ELSE new[i - n]
  <2>1. /\ p \o new \in Seq(Batches) /\ Len(p \o new) = n + Len(new)
        /\ \A i \in 1..n + Len(new) : (p \o new)[i] = IF i <= n THEN p[i] ELSE new[i - n]
    BY <1>0, <1>3, ConcatProperties DEF n
  <2>2. n + Len(new) = m
    BY <1>0, <1>2, <1>3
  <2> QED
    BY <2>1, <2>2
<1>5. ASSUME NEW i \in 1..m PROVE (p \o new)[i] = q[i]
  <2>1. CASE i <= n
    BY <1>0, <1>4, <2>1
  <2>2. CASE i > n
    <3>1. i - n \in 1..m - n /\ n + (i - n) = i
      BY <1>0, <1>2, <2>2
    <3>2. new[i - n] = q[i]
      BY <1>3, <3>1
    <3>3. ~(i <= n)
      BY <1>0, <2>2
    <3> QED
      BY <1>4, <3>2, <3>3
  <2>3. n \in Nat /\ m \in Nat
    BY <1>0, <1>2
  <2>4. i <= n \/ i > n
    BY <2>3
  <2> QED
    BY <2>1, <2>2, <2>4
<1>6. IsFront(p \o new, q)
  BY <1>2, <1>4, <1>5 DEF IsFront
<1> QED
  BY <1>1, <1>3, <1>6

\* What becomes of a stream s that serves pipeline p when `new` joins it.
LEMMA FillFacts ==
  ASSUME NEW s, NEW p \in Seq(Batches), Serves(s, p), NEW new \in Seq(Batches)
  PROVE  LET t == Fill(s, p, new)
         IN  /\ Serves(t, p \o new)
             /\ t.close = s.close /\ t.uid = s.uid /\ t.received = s.received
             /\ t.state \in {s.state, "Starting", "Backoff"}
             /\ IsStarted(s) => t.state = s.state
             /\ ~IsStarted(t) => p \o new = <<>>
<1> DEFINE sends == new # <<>> /\ IsOpen(s) /\ s.handshake
           s1 == IF sends THEN CancelIdleCheck([s EXCEPT !.sent = @ \o new]) ELSE s
           s2 == IF p \o new = <<>> THEN MarkIdle(s1) ELSE s1
           t == IF p \o new # <<>> /\ ~IsStarted(s2) THEN Start(s2) ELSE s2
           Goal(x) == /\ Serves(x, p \o new)
                      /\ x.close = s.close /\ x.uid = s.uid /\ x.received = s.received
                      /\ x.state \in {s.state, "Starting", "Backoff"}
                      /\ IsStarted(s) => x.state = s.state
                      /\ ~IsStarted(x) => p \o new = <<>>
<1>0. /\ s \in Streams /\ s.ok /\ Fill(s, p, new) = t
      /\ new # <<>> => p \o new # <<>>
      /\ new = <<>> => p \o new = p
  BY DEF Serves, Fill
<1>1. CASE sends
  <2> DEFINE c == CancelIdleCheck([s EXCEPT !.sent = @ \o new])
             d == CancelIdleCheck([s EXCEPT !.handshake = TRUE, !.sent = @ \o new])
  <2>1. c = d
    <3>1. [s EXCEPT !.sent = @ \o new] = [s EXCEPT !.handshake = TRUE, !.sent = @ \o new]
      BY <1>0, <1>1 DEF Streams
    <3> QED
      BY <3>1
  <2>2. /\ c \in Streams /\ c.state = s.state /\ c.close = s.close /\ ~c.idle
        /\ c.ok = s.ok /\ c.handshake = TRUE /\ c.uid = s.uid
        /\ c.received = s.received /\ c.sent = s.sent \o new
    <3>1. /\ d \in Streams /\ d.state = s.state /\ d.close = s.close /\ ~d.idle
          /\ d.ok = s.ok /\ d.handshake = TRUE /\ d.uid = s.uid
          /\ d.received = s.received /\ d.sent = s.sent \o new
      <4> HIDE DEF t, Goal, s1, s2, sends, c
      <4>1. s \in Streams
        BY <1>0
      <4> QED
        BY <4>1, SendFacts
    <3> HIDE DEF c, d
    <3> QED
      BY <2>1, <3>1
  <2>3. IsStarted(c) /\ IsOpen(c)
    BY <1>1, <2>2 DEF IsStarted, IsOpen
  <2>4. t = c
    BY <1>0, <1>1, <2>3
  <2> HIDE DEF c, t
  <2>5. InFlight(c.received, c.sent, p \o new)
    <3>1. InFlight(s.received, s.sent, p) /\ s.received \in Seq(Replies)
          /\ s.sent \in Seq(Batches \cup {Hello})
      BY <1>0, <1>1 DEF Serves, Streams
    <3> QED
      BY <2>2, <3>1, MoreInFlight
  <2>6. Goal(c)
    BY <1>0, <2>2, <2>3, <2>5 DEF Serves
  <2> QED
    BY <1>0, <2>4, <2>6
<1>2. CASE ~sends /\ p \o new # <<>> /\ IsStarted(s)
  <2>1. t = s
    BY <1>2
  <2> HIDE DEF t
  <2>2. s.idle => p = <<>> /\ IsOpen(s)
    BY DEF Serves
  <2>3. s.handshake => IsOpen(s)
    BY DEF Serves
  <2>4. ~s.idle
    <3> SUFFICES ASSUME s.idle PROVE FALSE
      OBVIOUS
    <3>1. p = <<>> /\ IsOpen(s) /\ s.handshake
      BY <1>2, <2>2 DEF Serves
    <3> QED
      BY <1>0, <1>2, <3>1
  <2>5. s.handshake => p \o new = p
    BY <1>0, <1>2, <2>3
  <2>6. Goal(s)
    BY <1>2, <2>4, <2>5 DEF Serves
  <2> QED
    BY <1>0, <2>1, <2>6
<1>3. CASE p \o new # <<>> /\ ~IsStarted(s)
  <2>1. ~sends /\ ~IsOpen(s)
    BY <1>3 DEF IsStarted, IsOpen
  <2>2. t = Start(s)
    BY <1>3, <2>1
  <2> HIDE DEF t
  <2>3. Quiet(s)
    BY <2>1, ServesQuiet
  <2>4. /\ Start(s) \in Streams /\ Start(s).ok
        /\ Start(s).state \in {"Starting", "Backoff"}
        /\ Start(s).close = s.close /\ Start(s).idle = s.idle
        /\ Start(s).handshake = s.handshake /\ Start(s).uid = s.uid
        /\ Start(s).sent = s.sent /\ Start(s).received = s.received
    BY <1>0, <1>3, StartFacts
  <2>5. Quiet(Start(s)) /\ IsStarted(Start(s))
    BY <2>3, <2>4 DEF Quiet, IsOpen, IsStarted
  <2>6. Serves(Start(s), p \o new)
    BY <1>3, <2>5 DEF Quiet, Serves
  <2>7. Goal(Start(s))
    BY <1>3, <2>4, <2>5, <2>6
  <2> QED
    BY <1>0, <2>2, <2>7
<1>4. CASE p \o new = <<>>
  <2>1. p = <<>> /\ new = <<>> /\ ~sends /\ t = MarkIdle(s)
    BY <1>0, <1>4
  <2> HIDE DEF t, sends
  <2>2. CASE IsOpen(s)
    <3> DEFINE c == [s EXCEPT !.idle = TRUE]
    <3>1. t = c
      BY <2>1, <2>2 DEF MarkIdle
    <3>2. /\ c \in Streams /\ c.state = s.state /\ c.close = s.close
          /\ c.ok = s.ok /\ c.handshake = s.handshake /\ c.uid = s.uid
          /\ c.received = s.received /\ c.sent = s.sent
      BY <1>0 DEF Streams
    <3> HIDE DEF c
    <3>3. Serves(c, <<>>)
      BY <2>1, <2>2, <3>2 DEF Serves, IsOpen, IsStarted
    <3>4. Goal(c)
      BY <1>4, <3>2, <3>3
    <3> QED
      BY <1>0, <3>1, <3>4
  <2>3. CASE ~IsOpen(s)
    <3>1. t = s
      BY <2>1, <2>3 DEF MarkIdle
    <3>2. Goal(s)
      BY <1>4, <2>1
    <3> QED
      BY <1>0, <3>1, <3>2
  <2> QED
    BY <2>2, <2>3
<1> QED
  BY <1>0, <1>1, <1>2, <1>3, <1>4

\* Reading the first answer of the pipeline's first batch.
LEMMA LessInFlight ==
  ASSUME NEW r \in Seq(Replies), NEW s \in Seq(Batches \cup {Hello}), NEW p \in Seq(Batches),
         InFlight(r, s, p), r # <<>>
  PROVE  /\ p # <<>> /\ Head(r).w = p[1].w /\ Head(r).kind \in {"ack", "refused"}
         /\ InFlight(Tail(r), s, Tail(p))
<1>1. Len(p) = Len(r) + Len(s) /\ Len(r) \in Nat /\ Len(s) \in Nat /\ Len(r) > 0
  BY DEF InFlight
<1>2. p # <<>> /\ 1 \in 1..Len(r)
  BY <1>1
<1>3. Head(r) = r[1] /\ r[1].w = p[1].w /\ r[1].kind \in {"ack", "refused"}
  BY <1>2 DEF InFlight
<1> DEFINE tr == Tail(r)
           tp == Tail(p)
<1>4. /\ Len(tr) = Len(r) - 1 /\ Len(tp) = Len(p) - 1
      /\ \A i \in 1..Len(r) - 1 : tr[i] = r[i + 1]
      /\ \A i \in 1..Len(p) - 1 : tp[i] = p[i + 1]
  BY <1>1, <1>2
<1> HIDE DEF tr, tp
<1>5. ASSUME NEW i \in 1..Len(tr) PROVE tr[i].kind \in {"ack", "refused"} /\ tr[i].w = tp[i].w
  <2>1. /\ i + 1 \in 1..Len(r) /\ i \in 1..Len(r) - 1 /\ i \in 1..Len(p) - 1
    BY <1>1, <1>4
  <2>2. r[i + 1].kind \in {"ack", "refused"} /\ r[i + 1].w = p[i + 1].w
    BY <2>1 DEF InFlight
  <2> QED
    BY <1>4, <2>1, <2>2
<1>6. ASSUME NEW j \in 1..Len(s) PROVE s[j] = tp[Len(tr) + j]
  <2>1. s[j] = p[Len(r) + j]
    BY <1>6 DEF InFlight
  <2>2. Len(tr) + j \in 1..Len(p) - 1 /\ Len(tr) + j + 1 = Len(r) + j
    BY <1>1, <1>4
  <2>3. tp[Len(tr) + j] = p[Len(tr) + j + 1]
    BY <1>4, <2>2
  <2> QED
    BY <2>1, <2>2, <2>3
<1>7. InFlight(tr, s, tp)
  BY <1>1, <1>4, <1>5, <1>6 DEF InFlight
<1> QED
  BY <1>2, <1>3, <1>7 DEF tr, tp

\* The backend answers the first batch sent.
LEMMA AnswerInFlight ==
  ASSUME NEW r \in Seq(Replies), NEW s \in Seq(Batches \cup {Hello}), NEW p \in Seq(Batches),
         InFlight(r, s, p), s # <<>>, NEW k \in {"ack", "refused"}
  PROVE  /\ Len(r) + 1 \in 1..Len(p) /\ Head(s) = p[Len(r) + 1]
         /\ InFlight(Append(r, Reply(k, Head(s).w)), Tail(s), p)
<1>1. Len(p) = Len(r) + Len(s) /\ Len(r) \in Nat /\ Len(s) \in Nat /\ Len(s) > 0
  BY DEF InFlight
<1>2. Len(r) + 1 \in 1..Len(p) /\ 1 \in 1..Len(s)
  BY <1>1
<1>3. Head(s) = s[1] /\ s[1] = p[Len(r) + 1]
  BY <1>2 DEF InFlight
<1> DEFINE a == Reply(k, Head(s).w)
           ar == Append(r, a)
           ts == Tail(s)
<1>4. a.kind \in {"ack", "refused"} /\ a.w = p[Len(r) + 1].w
  BY <1>3 DEF Reply
<1> HIDE DEF a
<1>5. /\ Len(ar) = Len(r) + 1 /\ Len(ts) = Len(s) - 1
      /\ \A i \in 1..Len(r) : ar[i] = r[i]
      /\ ar[Len(r) + 1] = a
      /\ \A i \in 1..Len(s) - 1 : ts[i] = s[i + 1]
  BY <1>1
<1> HIDE DEF ar, ts
<1>6. ASSUME NEW i \in 1..Len(ar) PROVE ar[i].kind \in {"ack", "refused"} /\ ar[i].w = p[i].w
  <2>1. CASE i = Len(r) + 1
    BY <1>4, <1>5, <2>1
  <2>2. CASE i # Len(r) + 1
    <3>1. i \in 1..Len(r)
      BY <1>1, <1>5, <2>2
    <3>2. r[i].kind \in {"ack", "refused"} /\ r[i].w = p[i].w
      BY <3>1 DEF InFlight
    <3> QED
      BY <1>5, <3>1, <3>2
  <2> QED
    BY <2>1, <2>2
<1>7. ASSUME NEW j \in 1..Len(ts) PROVE ts[j] = p[Len(ar) + j]
  <2>1. j + 1 \in 1..Len(s) /\ j \in 1..Len(s) - 1 /\ Len(r) + (j + 1) = Len(ar) + j
    BY <1>1, <1>5
  <2>2. s[j + 1] = p[Len(r) + (j + 1)]
    BY <2>1 DEF InFlight
  <2> QED
    BY <1>5, <2>1, <2>2
<1>8. Len(p) = Len(ar) + Len(ts)
  BY <1>1, <1>5
<1>9. InFlight(ar, ts, p)
  BY <1>6, <1>7, <1>8 DEF InFlight
<1> QED
  BY <1>2, <1>3, <1>9 DEF ar, ts, a

\* Only a stream that has shaken hands carries answers about batches.
LEMMA ReadServes ==
  ASSUME NEW s, NEW p \in Seq(Batches), Serves(s, p), s.received # <<>>,
         Head(s.received).kind \in {"ack", "refused"}
  PROVE  LET t == [s EXCEPT !.received = Tail(@)]
         IN  /\ IsOpen(s) /\ s.handshake /\ p # <<>>
             /\ s.received \in Seq(Replies) /\ Head(s.received) = s.received[1]
             /\ Head(s.received).w = p[1].w
             /\ Serves(t, Tail(p)) /\ t.state = s.state /\ t.close = s.close /\ t.uid = s.uid
             /\ t.received = Tail(s.received)
<1> DEFINE t == [s EXCEPT !.received = Tail(@)]
<1>0. /\ s \in Streams /\ s.ok /\ s.received \in Seq(Replies)
      /\ s.sent \in Seq(Batches \cup {Hello})
  BY DEF Serves, Streams
<1>1. /\ t \in Streams /\ t.state = s.state /\ t.close = s.close /\ t.idle = s.idle
      /\ t.ok = s.ok /\ t.handshake = s.handshake /\ t.uid = s.uid /\ t.sent = s.sent
      /\ t.received = Tail(s.received)
  BY <1>0, ReadFacts
<1> HIDE DEF t
<1>2. IsOpen(s) /\ s.handshake
  <2>1. IsOpen(s)
    BY DEF Serves
  <2>2. s.received # <<Hello>>
    BY DEF Hello
  <2> QED
    BY <2>1, <2>2 DEF Serves
<1>3. InFlight(s.received, s.sent, p)
  BY <1>2 DEF Serves
<1>4. /\ p # <<>> /\ Head(s.received).w = p[1].w
      /\ InFlight(Tail(s.received), s.sent, Tail(p))
  BY <1>0, <1>3, LessInFlight
<1>5. ~s.idle
  BY <1>4 DEF Serves
<1>6. Serves(t, Tail(p))
  BY <1>0, <1>1, <1>2, <1>4, <1>5 DEF Serves, IsOpen
<1>7. Head(s.received) = s.received[1]
  BY <1>0
<1> QED
  BY <1>0, <1>1, <1>2, <1>4, <1>6, <1>7 DEF t

\* The handshake is answered: the whole pipeline is sent.
LEMMA HandshakeFacts ==
  ASSUME NEW s, NEW p \in Seq(Batches), Serves(s, p), s.received # <<>>,
         Head(s.received).kind = "hello"
  PROVE  LET c == [s EXCEPT !.received = Tail(@)]
             d == [HardAssert(c, ~s.handshake) EXCEPT !.handshake = TRUE, !.sent = @ \o p]
             t == CancelIdleCheck(d)
         IN  /\ IsOpen(s) /\ p # <<>>
             /\ Serves(t, p) /\ t.state = s.state /\ t.close = s.close /\ t.uid = s.uid
             /\ t.received = <<>>
<1> DEFINE c == [s EXCEPT !.received = Tail(@)]
           t == CancelIdleCheck([c EXCEPT !.handshake = TRUE, !.sent = @ \o p])
<1>0. s \in Streams /\ s.ok /\ s.received \in Seq(Replies)
  BY DEF Serves, Streams
<1>1. /\ c \in Streams /\ c.state = s.state /\ c.close = s.close
      /\ c.ok = s.ok /\ c.handshake = s.handshake /\ c.uid = s.uid /\ c.sent = s.sent
      /\ c.received = Tail(s.received)
  BY <1>0, ReadFacts
<1> HIDE DEF c
<1>2. IsOpen(s)
  BY DEF Serves
<1>3. ~s.handshake
  <2> SUFFICES ASSUME s.handshake PROVE FALSE
    OBVIOUS
  <2>1. 1 \in 1..Len(s.received) /\ Head(s.received) = s.received[1]
    BY <1>0
  <2>2. s.received[1].kind \in {"ack", "refused"}
    BY <2>1 DEF Serves, InFlight
  <2> QED
    BY <2>1, <2>2
<1>4. p # <<>> /\ s.sent = <<>> /\ s.received = <<Hello>>
  BY <1>2, <1>3 DEF Serves, IsOpen, IsStarted
<1>5. c.received = <<>> /\ c.sent = <<>>
  BY <1>1, <1>4
<1>6. HardAssert(c, ~s.handshake) = c
  BY <1>0, <1>1, <1>3, AssertFacts
<1>7. /\ t \in Streams /\ t.state = c.state /\ t.close = c.close /\ ~t.idle
      /\ t.ok = c.ok /\ t.handshake = TRUE /\ t.uid = c.uid
      /\ t.received = c.received /\ t.sent = c.sent \o p
  BY <1>1, SendFacts
<1> HIDE DEF t
<1>8. t.received = <<>> /\ t.sent = p
  BY <1>5, <1>7
<1>9. InFlight(<<>>, p, p)
  BY DEF InFlight
<1>10. Serves(t, p)
  BY <1>0, <1>1, <1>2, <1>7, <1>8, <1>9 DEF Serves, IsOpen
<1> QED
  BY <1>1, <1>2, <1>4, <1>6, <1>7, <1>8, <1>10 DEF c, t

-----------------------------------------------------------------------------
(* The backend's end of the stream.                                        *)

LEMMA ServerHelloFacts ==
  ASSUME NEW s, NEW p, Serves(s, p), s.sent # <<>>, Head(s.sent).kind = "hello",
         p \in Seq(Batches)
  PROVE  LET t == [s EXCEPT !.sent = Tail(@), !.received = Append(@, Hello)]
         IN  /\ Serves(t, p) /\ t.state = s.state /\ t.close = s.close /\ t.uid = s.uid
             /\ t.received = <<Hello>>
<1> DEFINE t == [s EXCEPT !.sent = Tail(@), !.received = Append(@, Hello)]
           u == [s EXCEPT !.sent = <<>>, !.received = <<Hello>>]
<1>0. s \in Streams /\ s.ok /\ s.received \in Seq(Replies) /\ s.sent \in Seq(Batches \cup {Hello})
  BY DEF Serves, Streams
<1>1. IsOpen(s)
  BY DEF Serves
<1>2. ~s.handshake
  <2> SUFFICES ASSUME s.handshake PROVE FALSE
    OBVIOUS
  <2>1. InFlight(s.received, s.sent, p)
    BY DEF Serves
  <2>2. Len(s.received) + 1 \in 1..Len(p) /\ Head(s.sent) = p[Len(s.received) + 1]
    BY <1>0, <2>1, AnswerInFlight, SMTT(30)
  <2>3. Head(s.sent) \in Batches
    BY <2>2
  <2> QED
    BY <2>3 DEF Batches
<1>3. s.sent = <<Hello>> /\ s.received = <<>>
  BY <1>1, <1>2 DEF Serves
<1>4. t = u
  <2>1. Tail(s.sent) = <<>> /\ Append(s.received, Hello) = <<Hello>>
    BY <1>3
  <2> QED
    BY <2>1
<1>5. /\ u \in Streams /\ u.state = s.state /\ u.close = s.close /\ u.idle = s.idle
      /\ u.ok = s.ok /\ u.handshake = s.handshake /\ u.uid = s.uid
      /\ u.sent = <<>> /\ u.received = <<Hello>>
  <2>1. <<>> \in Seq(Batches \cup {Hello}) /\ <<Hello>> \in Seq(Replies)
    BY DEF Replies
  <2> QED
    BY <1>0, <2>1 DEF Streams
<1> HIDE DEF u
<1>6. Serves(u, p)
  BY <1>0, <1>1, <1>2, <1>5 DEF Serves, IsOpen, IsStarted
<1> QED
  BY <1>4, <1>5, <1>6 DEF t

\* Batches are sent after the handshake only.
LEMMA SentFacts ==
  ASSUME Serves(stream, pipeline), stream.sent # <<>>, Head(stream.sent).kind = "batch",
         pipeline \in Seq(Batches)
  PROVE  /\ stream \in Streams /\ stream.ok /\ IsOpen(stream) /\ stream.handshake
         /\ stream.received \in Seq(Replies) /\ stream.sent \in Seq(Batches \cup {Hello})
         /\ InFlight(stream.received, stream.sent, pipeline)
<1>0. /\ stream \in Streams /\ stream.ok
      /\ stream.received \in Seq(Replies) /\ stream.sent \in Seq(Batches \cup {Hello})
  BY DEF Serves, Streams
<1>1. IsOpen(stream)
  BY DEF Serves
<1>2. stream.handshake
  <2>1. stream.sent # <<Hello>>
    BY DEF Hello
  <2> QED
    BY <1>1, <2>1 DEF Serves
<1>3. InFlight(stream.received, stream.sent, pipeline)
  BY <1>2 DEF Serves
<1> QED
  BY <1>0, <1>1, <1>2, <1>3

\* The backend answers a batch, with a.
LEMMA ServerReplyFacts ==
  ASSUME Serves(stream, pipeline), stream.sent # <<>>, Head(stream.sent).kind = "batch",
         pipeline \in Seq(Batches), NEW k \in {"ack", "refused"},
         stream' = [stream EXCEPT !.sent = Tail(@),
                                  !.received = Append(@, Reply(k, Head(stream.sent).w))]
  PROVE  /\ Serves(stream', pipeline) /\ stream'.state = stream.state
         /\ stream'.close = stream.close /\ stream'.uid = stream.uid
         /\ stream'.received = Append(stream.received, Reply(k, Head(stream.sent).w))
<1> DEFINE a == Reply(k, Head(stream.sent).w)
           ts == Tail(stream.sent)
           ar == Append(stream.received, a)
<1>0. /\ stream \in Streams /\ stream.ok /\ IsOpen(stream) /\ stream.handshake
      /\ stream.received \in Seq(Replies) /\ stream.sent \in Seq(Batches \cup {Hello})
      /\ InFlight(stream.received, stream.sent, pipeline)
  BY SentFacts
<1>1. /\ Len(stream.received) + 1 \in 1..Len(pipeline)
      /\ Head(stream.sent) = pipeline[Len(stream.received) + 1]
      /\ InFlight(ar, ts, pipeline)
  BY <1>0, AnswerInFlight
<1>2. Head(stream.sent) \in Batches /\ pipeline # <<>>
  BY <1>1
<1>3. a \in Replies
  BY <1>2 DEF Reply, Replies, Batches
<1>4. stream' = [stream EXCEPT !.sent = ts, !.received = ar]
  OBVIOUS
<1> HIDE DEF a
<1>5. ts \in Seq(Batches \cup {Hello}) /\ ar \in Seq(Replies)
  BY <1>0, <1>3
<1> HIDE DEF ts, ar
<1>6. /\ stream' \in Streams /\ stream'.state = stream.state /\ stream'.close = stream.close
      /\ stream'.idle = stream.idle /\ stream'.ok = stream.ok
      /\ stream'.handshake = stream.handshake /\ stream'.uid = stream.uid
      /\ stream'.sent = ts /\ stream'.received = ar
  BY <1>0, <1>4, <1>5 DEF Streams
<1>7. Serves(stream', pipeline)
  BY <1>0, <1>1, <1>2, <1>6 DEF Serves, IsOpen, IsStarted
<1> QED
  BY <1>6, <1>7 DEF ar, a

-----------------------------------------------------------------------------
(* The mutation queues.                                                    *)

\* A number drawn anew is greater than every ID pending for anybody.
LEMMA LoadFacts ==
  ASSUME NEW q \in [UserIds -> Seq(Batches)], NEW m \in Nat,
         \A u \in UserIds : \A i \in 1..Len(q[u]) : q[u][i].id <= m
  PROVE  /\ LoadNextBatchId(q) \in Numbers
         /\ \A u \in UserIds : \A i \in 1..Len(q[u]) : q[u][i].id < LoadNextBatchId(q)
<1> DEFINE ids == {0} \cup UNION {{q[u][i].id : i \in DOMAIN q[u]} : u \in UserIds}
           top == CHOOSE x \in ids : \A n \in ids : n <= x
<1>1. ASSUME NEW u \in UserIds, NEW i \in 1..Len(q[u]) PROVE q[u][i].id \in Nat /\ q[u][i].id \in ids
  <2>1. q[u] \in Seq(Batches) /\ DOMAIN q[u] = 1..Len(q[u])
    OBVIOUS
  <2>2. q[u][i] \in Batches
    BY <2>1
  <2>3. q[u][i].id \in Nat
    BY <2>2 DEF Batches, Numbers
  <2>4. i \in DOMAIN q[u]
    BY <2>1
  <2>5. q[u][i].id \in {q[u][j].id : j \in DOMAIN q[u]}
    BY <2>4
  <2>6. q[u][i].id \in ids
    BY <2>5
  <2> QED
    BY <2>3, <2>6
<1>2. ASSUME NEW x \in ids PROVE x \in Nat /\ x <= m
  <2>1. x = 0 \/ \E u \in UserIds : \E i \in DOMAIN q[u] : x = q[u][i].id
    OBVIOUS
  <2>2. CASE x = 0
    BY <2>2
  <2>3. ASSUME NEW u \in UserIds, NEW i \in DOMAIN q[u], x = q[u][i].id PROVE x \in Nat /\ x <= m
    <3>1. i \in 1..Len(q[u])
      OBVIOUS
    <3> QED
      BY <1>1, <2>3, <3>1
  <2> QED
    BY <2>1, <2>2, <2>3
<1>3. ids # {}
  OBVIOUS
<1> HIDE DEF ids
<1>4. \E x \in ids : \A n \in ids : n <= x
  BY <1>2, <1>3, HasGreatest
<1>5. top \in ids /\ \A n \in ids : n <= top
  BY <1>4
<1>6. LoadNextBatchId(q) = 1 + top
  BY DEF LoadNextBatchId, ids
<1> HIDE DEF top
<1>7. top \in Nat
  BY <1>2, <1>5
<1>8. ASSUME NEW u \in UserIds, NEW i \in 1..Len(q[u]) PROVE q[u][i].id < 1 + top
  <2>1. q[u][i].id \in Nat /\ q[u][i].id <= top
    BY <1>1, <1>5
  <2> QED
    BY <1>7, <2>1
<1> QED
  BY <1>6, <1>7, <1>8 DEF Numbers

\* A finished batch at the front of the pipeline leaves the front of its queue.
LEMMA RemoveFacts ==
  ASSUME NEW q, NEW u, InOrder(q, u), NEW p, IsFront(p, q), p # <<>>
  PROVE  /\ q # <<>> /\ p[1] = q[1] /\ Holds(q, p[1])
         /\ Remove(q, p[1]) = Tail(q)
         /\ InOrder(Tail(q), u)
         /\ IsFront(Tail(p), Tail(q))
<1>0. /\ q \in Seq(Batches) /\ p \in Seq(Batches) /\ Len(q) \in Nat /\ Len(p) \in Nat
      /\ Len(p) <= Len(q) /\ Len(p) <= MaxPipeline /\ MaxPipeline \in Nat
      /\ DOMAIN q = 1..Len(q)
  BY MaxPipelineAssumption DEF InOrder, IsFront
<1>1. q # <<>> /\ Len(p) > 0 /\ 1 \in 1..Len(q)
  BY <1>0
<1>2. p[1] = q[1]
  BY <1>0, <1>1 DEF IsFront
<1>3. ASSUME NEW i \in 1..Len(q), q[i].id = q[1].id PROVE i = 1
  <2>1. q[i] \in Batches /\ q[1] \in Batches
    BY <1>0, <1>1
  <2>2. q[1].id \in Nat
    BY <2>1 DEF Batches, Numbers
  <2>3. i > 1 => q[1].id < q[i].id
    BY <1>1 DEF InOrder
  <2> QED
    BY <1>3, <2>2, <2>3
<1>4. Holds(q, p[1])
  BY <1>0, <1>1, <1>2 DEF Holds
<1>5. Remove(q, p[1]) = Tail(q)
  <2>1. (CHOOSE i \in DOMAIN q : q[i].id = p[1].id) = 1
    BY <1>0, <1>1, <1>2, <1>3
  <2>2. Remove(q, p[1]) = SubSeq(q, 1, 1 - 1) \o SubSeq(q, 1 + 1, Len(q))
    BY <1>4, <2>1 DEF Remove
  <2>3. SubSeq(q, 1, 1 - 1) = <<>>
    BY SubSeqEmpty
  <2>4. SubSeq(q, 1 + 1, Len(q)) = Tail(q)
    BY <1>0, <1>1, TailIsSubSeq
  <2>5. Tail(q) \in Seq(Batches)
    BY <1>0, <1>1
  <2>6. <<>> \o Tail(q) = Tail(q)
    BY <2>5
  <2> QED
    BY <2>2, <2>3, <2>4, <2>6
<1> DEFINE tq == Tail(q)
           tp == Tail(p)
<1>6. /\ tq \in Seq(Batches) /\ Len(tq) = Len(q) - 1 /\ \A i \in 1..Len(q) - 1 : tq[i] = q[i + 1]
      /\ tp \in Seq(Batches) /\ Len(tp) = Len(p) - 1 /\ \A i \in 1..Len(p) - 1 : tp[i] = p[i + 1]
  BY <1>0, <1>1
<1> HIDE DEF tq, tp
<1>7. InOrder(tq, u)
  <2>1. ASSUME NEW i \in 1..Len(tq) PROVE tq[i].user = u /\ i + 1 \in 1..Len(q) /\ tq[i] = q[i + 1]
    <3>1. i + 1 \in 1..Len(q) /\ tq[i] = q[i + 1]
      BY <1>0, <1>6
    <3> QED
      BY <3>1 DEF InOrder
  <2>2. ASSUME NEW i \in 1..Len(tq), NEW j \in 1..Len(tq), i < j
        PROVE  tq[i].id < tq[j].id /\ tq[i].w < tq[j].w
    <3>1. i + 1 < j + 1
      BY <1>0, <1>6, <2>2
    <3>2. q[i + 1].id < q[j + 1].id /\ q[i + 1].w < q[j + 1].w
      BY <2>1, <3>1 DEF InOrder
    <3> QED
      BY <2>1, <3>2
  <2> QED
    BY <1>6, <2>1, <2>2 DEF InOrder
<1>8. IsFront(tp, tq)
  <2>1. ASSUME NEW i \in 1..Len(tp) PROVE tp[i] = tq[i]
    <3>1. i + 1 \in 1..Len(p) /\ i \in 1..Len(p) - 1 /\ i \in 1..Len(q) - 1
      BY <1>0, <1>6
    <3>2. p[i + 1] = q[i + 1]
      BY <3>1 DEF IsFront
    <3> QED
      BY <1>6, <3>1, <3>2
  <2>2. Len(tp) <= MaxPipeline /\ Len(tp) <= Len(tq)
    BY <1>0, <1>6
  <2> QED
    BY <1>6, <2>1, <2>2 DEF IsFront
<1> QED
  BY <1>1, <1>2, <1>4, <1>5, <1>7, <1>8 DEF tq, tp

\* A new batch goes to the end of its queue, behind the pipeline.
LEMMA AppendInOrder ==
  ASSUME NEW q, NEW u, InOrder(q, u), NEW p, IsFront(p, q), NEW b \in Batches, b.user = u,
         \A i \in 1..Len(q) : q[i].id < b.id /\ q[i].w < b.w
  PROVE  InOrder(Append(q, b), u) /\ IsFront(p, Append(q, b))
<1> DEFINE a == Append(q, b)
           n == Len(q)
<1>0. /\ q \in Seq(Batches) /\ p \in Seq(Batches) /\ n \in Nat /\ Len(p) \in Nat
      /\ Len(p) <= n /\ Len(p) <= MaxPipeline
  BY DEF InOrder, IsFront
<1>1. /\ a \in Seq(Batches) /\ Len(a) = n + 1 /\ a[n + 1] = b
      /\ \A i \in 1..n : a[i] = q[i]
  BY <1>0
<1> HIDE DEF a, n
<1>2. ASSUME NEW i \in 1..n + 1 PROVE a[i].user = u
  <2>1. CASE i = n + 1
    BY <1>1, <2>1
  <2>2. CASE i # n + 1
    <3>1. i \in 1..n
      BY <1>0, <2>2
    <3> QED
      BY <1>1, <3>1 DEF InOrder, n
  <2> QED
    BY <2>1, <2>2
<1>3. ASSUME NEW i \in 1..n + 1, NEW j \in 1..n + 1, i < j
      PROVE  a[i].id < a[j].id /\ a[i].w < a[j].w
  <2>0. i \in 1..n /\ a[i] = q[i]
    BY <1>0, <1>1, <1>3
  <2>1. CASE j = n + 1
    BY <1>1, <2>0, <2>1 DEF n
  <2>2. CASE j # n + 1
    <3>1. j \in 1..n /\ a[j] = q[j]
      BY <1>0, <1>1, <2>2
    <3>2. q[i].id < q[j].id /\ q[i].w < q[j].w
      BY <1>3, <2>0, <3>1 DEF InOrder, n
    <3> QED
      BY <2>0, <3>1, <3>2
  <2> QED
    BY <2>1, <2>2
<1>4. InOrder(a, u)
  BY <1>1, <1>2, <1>3 DEF InOrder
<1>5. ASSUME NEW i \in 1..Len(p) PROVE p[i] = a[i]
  <2>1. i \in 1..n /\ p[i] = q[i]
    BY <1>0 DEF IsFront
  <2> QED
    BY <1>1, <2>1
<1>6. Len(p) <= Len(a)
  BY <1>0, <1>1
<1>7. IsFront(p, a)
  BY <1>0, <1>5, <1>6 DEF IsFront
<1> QED
  BY <1>4, <1>7 DEF a

-----------------------------------------------------------------------------
(* The worker queue and the users it leads through.                        *)

\* What joins the queue later changes nothing before it.
LEMMA ActsAsAppend ==
  ASSUME NEW q \in Seq(Operations), NEW o \in Operations, NEW u, NEW uid,
         NEW i \in 0..Len(q), ActsAs(q, u, i, uid)
  PROVE  ActsAs(Append(q, o), u, i, uid)
<1> DEFINE a == Append(q, o)
<1>1. \A k \in 1..i : a[k] = q[k]
  OBVIOUS
<1> HIDE DEF a
<1>2. \A k \in 1..i : (ChangesAt(a, k) <=> ChangesAt(q, k))
  BY <1>1 DEF ChangesAt
<1>3. ASSUME \A k \in 1..i : ~ChangesAt(a, k) PROVE uid = u
  BY <1>2, <1>3 DEF ActsAs
<1>4. ASSUME NEW j \in 1..i, ChangesAt(a, j), \A k \in j+1..i : ~ChangesAt(a, k) PROVE uid = a[j].uid
  <2>1. \A k \in j+1..i : ~ChangesAt(q, k)
    BY <1>2, <1>4
  <2>2. uid = q[j].uid
    BY <1>2, <1>4, <2>1 DEF ActsAs
  <2> QED
    BY <1>1, <2>2
<1> QED
  BY <1>3, <1>4 DEF ActsAs, a

\* A token or a write at the end of the queue leaves the last user.
LEMMA WorkAppend ==
  ASSUME NEW q \in Seq(Operations), NEW o \in Operations, NEW u, NEW last, WorkFits(q, u, last),
         o.op \in {"resume", "write"}, o.op = "resume" => o.uid \in {last, Failed}
  PROVE  WorkFits(Append(q, o), u, last)
<1> DEFINE a == Append(q, o)
           n == Len(q)
<1>0. n \in Nat /\ Len(a) = n + 1 /\ a[n + 1] = o /\ \A i \in 1..n : a[i] = q[i]
  OBVIOUS
<1>1. ActsAs(a, u, n, last)
  BY <1>0, ActsAsAppend DEF WorkFits
<1>2. ASSUME NEW i \in 1..n, a[i].op = "resume", a[i].uid # Failed PROVE ActsAs(a, u, i, a[i].uid)
  <2>1. ActsAs(q, u, i, q[i].uid)
    BY <1>0, <1>2 DEF WorkFits
  <2> QED
    BY <1>0, <2>1, ActsAsAppend
<1> HIDE DEF a, n
<1>3. ~ChangesAt(a, n + 1)
  BY <1>0 DEF ChangesAt
<1>4. ActsAs(a, u, n + 1, last)
  <2>1. ASSUME \A k \in 1..n + 1 : ~ChangesAt(a, k) PROVE last = u
    <3>1. \A k \in 1..n : ~ChangesAt(a, k)
      BY <1>0, <2>1
    <3> QED
      BY <1>1, <3>1 DEF ActsAs
  <2>2. ASSUME NEW j \in 1..n + 1, ChangesAt(a, j), \A k \in j+1..n+1 : ~ChangesAt(a, k)
        PROVE  last = a[j].uid
    <3>1. j # n + 1
      BY <1>3, <2>2
    <3>2. j \in 1..n /\ \A k \in j+1..n : ~ChangesAt(a, k)
      BY <1>0, <2>2, <3>1
    <3> QED
      BY <1>1, <2>2, <3>2 DEF ActsAs
  <2> QED
    BY <2>1, <2>2 DEF ActsAs
<1>5. ASSUME NEW i \in 1..n + 1, a[i].op = "resume", a[i].uid # Failed PROVE ActsAs(a, u, i, a[i].uid)
  <2>1. CASE i = n + 1
    <3>1. a[i].uid = last
      BY <1>0, <1>5, <2>1
    <3> QED
      BY <1>4, <2>1, <3>1
  <2>2. CASE i # n + 1
    <3>1. i \in 1..n
      BY <1>0, <2>2
    <3> QED
      BY <1>2, <1>5, <3>1
  <2> QED
    BY <2>1, <2>2
<1> QED
  BY <1>0, <1>4, <1>5 DEF WorkFits, a

\* A notification at the end of the queue sets the last user.
LEMMA WorkAppendChange ==
  ASSUME NEW q \in Seq(Operations), NEW o \in Operations, NEW u, NEW last, WorkFits(q, u, last),
         o.op = "credential"
  PROVE  WorkFits(Append(q, o), u, o.uid)
<1> DEFINE a == Append(q, o)
           n == Len(q)
<1>0. n \in Nat /\ Len(a) = n + 1 /\ a[n + 1] = o /\ \A i \in 1..n : a[i] = q[i]
  OBVIOUS
<1>2. ASSUME NEW i \in 1..n, a[i].op = "resume", a[i].uid # Failed PROVE ActsAs(a, u, i, a[i].uid)
  <2>1. ActsAs(q, u, i, q[i].uid)
    BY <1>0, <1>2 DEF WorkFits
  <2> QED
    BY <1>0, <2>1, ActsAsAppend
<1> HIDE DEF a, n
<1>3. ChangesAt(a, n + 1)
  BY <1>0 DEF ChangesAt
<1>4. ActsAs(a, u, n + 1, o.uid)
  <2>1. ~(\A k \in 1..n + 1 : ~ChangesAt(a, k))
    BY <1>0, <1>3
  <2>2. ASSUME NEW j \in 1..n + 1, ChangesAt(a, j), \A k \in j+1..n+1 : ~ChangesAt(a, k)
        PROVE  o.uid = a[j].uid
    <3>1. j = n + 1
      BY <1>0, <1>3, <2>2
    <3> QED
      BY <1>0, <3>1
  <2> QED
    BY <2>1, <2>2 DEF ActsAs
<1>5. ASSUME NEW i \in 1..n + 1, a[i].op = "resume", a[i].uid # Failed PROVE ActsAs(a, u, i, a[i].uid)
  <2>1. i # n + 1
    BY <1>0, <1>5
  <2>2. i \in 1..n
    BY <1>0, <2>1
  <2> QED
    BY <1>2, <1>5, <2>2
<1> QED
  BY <1>0, <1>4, <1>5 DEF WorkFits, a

\* The first operation has run: if it was a change of user, that user acts now.
LEMMA WorkTail ==
  ASSUME NEW q \in Seq(Operations), q # <<>>, NEW u, NEW last, WorkFits(q, u, last),
         NEW v, v = IF Head(q).op \in {"initialize", "credential"} THEN Head(q).uid ELSE u
  PROVE  WorkFits(Tail(q), v, last)
<1> DEFINE t == Tail(q)
           n == Len(q)
<1>0. /\ n \in Nat /\ n > 0 /\ Len(t) = n - 1 /\ Head(q) = q[1]
      /\ \A i \in 1..n - 1 : t[i] = q[i + 1]
  OBVIOUS
<1> HIDE DEF t
<1>1. \A i \in 1..n - 1 : (ChangesAt(t, i) <=> ChangesAt(q, i + 1))
  BY <1>0 DEF ChangesAt
<1> HIDE DEF n
<1>2. ASSUME NEW i \in 0..n - 1, NEW uid, ActsAs(q, u, i + 1, uid) PROVE ActsAs(t, v, i, uid)
  <2>1. ASSUME \A k \in 1..i : ~ChangesAt(t, k) PROVE uid = v
    <3>1. \A k \in 2..i + 1 : ~ChangesAt(q, k)
      <4> SUFFICES ASSUME NEW k \in 2..i + 1 PROVE ~ChangesAt(q, k)
        OBVIOUS
      <4>1. k - 1 \in 1..i /\ k - 1 \in 1..n - 1 /\ (k - 1) + 1 = k
        BY <1>0
      <4> QED
        BY <1>1, <2>1, <4>1
    <3>2. CASE ChangesAt(q, 1)
      <4>1. uid = q[1].uid
        <5>1. 1 \in 1..i + 1 /\ \A k \in 1 + 1..i + 1 : ~ChangesAt(q, k)
          BY <1>0, <3>1
        <5> QED
          BY <1>2, <3>2, <5>1 DEF ActsAs
      <4> QED
        BY <1>0, <3>2, <4>1 DEF ChangesAt
    <3>3. CASE ~ChangesAt(q, 1)
      <4>1. \A k \in 1..i + 1 : ~ChangesAt(q, k)
        BY <1>0, <3>1, <3>3
      <4>2. uid = u
        BY <1>2, <4>1 DEF ActsAs
      <4> QED
        BY <1>0, <3>3, <4>2 DEF ChangesAt
    <3> QED
      BY <3>2, <3>3
  <2>2. ASSUME NEW j \in 1..i, ChangesAt(t, j), \A k \in j+1..i : ~ChangesAt(t, k) PROVE uid = t[j].uid
    <3>0. j \in 1..n - 1 /\ j + 1 \in 1..i + 1
      BY <1>0
    <3>1. ChangesAt(q, j + 1)
      BY <1>1, <2>2, <3>0
    <3>2. ASSUME NEW k \in (j + 1) + 1..i + 1 PROVE ~ChangesAt(q, k)
      <4>1. k - 1 \in j+1..i /\ k - 1 \in 1..n - 1 /\ (k - 1) + 1 = k
        BY <1>0, <3>0
      <4> QED
        BY <1>1, <2>2, <4>1
    <3>3. uid = q[j + 1].uid
      BY <1>2, <3>0, <3>1, <3>2 DEF ActsAs
    <3> QED
      BY <1>0, <3>0, <3>3
  <2> QED
    BY <2>1, <2>2 DEF ActsAs
<1>3. ActsAs(t, v, n - 1, last)
  <2>1. n - 1 \in 0..n - 1 /\ (n - 1) + 1 = n
    BY <1>0
  <2>2. ActsAs(q, u, n, last)
    BY DEF WorkFits, n
  <2> QED
    BY <1>2, <2>1, <2>2
<1>4. ASSUME NEW i \in 1..n - 1, t[i].op = "resume", t[i].uid # Failed PROVE ActsAs(t, v, i, t[i].uid)
  <2>1. i + 1 \in 1..n /\ i \in 0..n - 1 /\ t[i] = q[i + 1]
    BY <1>0
  <2>2. ActsAs(q, u, i + 1, q[i + 1].uid)
    BY <1>4, <2>1 DEF WorkFits, n
  <2> QED
    BY <1>2, <2>1, <2>2
<1> QED
  BY <1>0, <1>3, <1>4 DEF WorkFits, t

\* A token in the worker queue names the user who acts when it arrives.
LEMMA WorkFitsTokens ==
  ASSUME workQ \in Seq(Operations), WorkFits(workQ, sync_user, current_user)
  PROVE  TokenFitsUser
<1> SUFFICES ASSUME NEW i \in DOMAIN workQ, workQ[i].op = "resume", workQ[i].uid # Failed
             PROVE  workQ[i].uid = UserAfter(i)
  BY DEF TokenFitsUser
<1> DEFINE changes == {j \in 1..i : workQ[j].op \in {"initialize", "credential"}}
<1>0. i \in 1..Len(workQ) /\ i \in Nat
  OBVIOUS
<1>1. ActsAs(workQ, sync_user, i, workQ[i].uid)
  BY <1>0 DEF WorkFits
<1>2. CASE changes = {}
  <2>1. \A k \in 1..i : ~ChangesAt(workQ, k)
    BY <1>2 DEF ChangesAt
  <2>2. workQ[i].uid = sync_user
    BY <1>1, <2>1 DEF ActsAs
  <2> QED
    BY <1>2, <2>2 DEF UserAfter
<1>3. CASE changes # {}
  <2> DEFINE j == CHOOSE j \in changes : \A k \in changes : k <= j
  <2>1. changes \subseteq Nat /\ \A k \in changes : k <= i
    BY <1>0
  <2>2. \E x \in changes : \A k \in changes : k <= x
    BY <1>0, <1>3, <2>1, HasGreatest
  <2>3. j \in changes /\ \A k \in changes : k <= j
    BY <2>2
  <2>4. UserAfter(i) = workQ[j].uid
    BY <1>3 DEF UserAfter
  <2> HIDE DEF j
  <2>5. j \in 1..i /\ ChangesAt(workQ, j)
    BY <2>3 DEF ChangesAt
  <2>6. ASSUME NEW k \in j+1..i PROVE ~ChangesAt(workQ, k)
    <3>1. k \in 1..i /\ ~(k <= j)
      BY <1>0, <2>5
    <3>2. k \notin changes
      BY <2>3, <3>1
    <3> QED
      BY <3>1, <3>2 DEF ChangesAt
  <2> QED
    BY <1>1, <2>4, <2>5, <2>6 DEF ActsAs
<1> QED
  BY <1>2, <1>3

-----------------------------------------------------------------------------
(* The main queue.                                                         *)

LEMMA KindFacts ==
  ASSUME NEW b \in Posts \cup Answers
  PROVE  /\ b.kind \in {"post", "token"}
         /\ b.kind = "post" => b.uid \in UserIds
         /\ b.kind = "token" => b.uid \in UserIds \cup {Failed} /\ b.counter \in Nat /\ b.close \in Nat
BY DEF Posts, Answers

\* A step of Auth's work queue announces the new user, or leaves the user ID.
LEMMA PostedOrSame ==
  ASSUME AuthInv, NEW u \in Users, user' = u, PossiblyPost(u, <<>>)
  PROVE  \/ mainQ' = Append(mainQ, Post(user'))
         \/ mainQ' = mainQ /\ Uid(user') = Uid(user)
<1>0. mainQ \in Seq(Blocks) /\ Post(u) \in Blocks
  BY UidType DEF AuthInv, AuthTypeOK
<1>1. CASE notified = u
  <2>1. Uid(user') = Uid(user)
    BY <1>1 DEF AuthInv, AnnouncedIsCurrent
  <2>2. mainQ' = mainQ
    BY <1>0, <1>1 DEF PossiblyPost
  <2> QED
    BY <2>1, <2>2
<1>2. CASE notified # u
  <2>1. mainQ' = Append(mainQ, Post(u)) \o <<>>
    BY <1>2 DEF PossiblyPost
  <2>2. Append(mainQ, Post(u)) \in Seq(Blocks)
    BY <1>0
  <2>3. Append(mainQ, Post(u)) \o <<>> = Append(mainQ, Post(u))
    BY <2>2, ConcatEmptySeq
  <2> QED
    BY <2>1, <2>3
<1> QED
  BY <1>1, <1>2

LEMMA WorkEffect ==
  ASSUME AuthInv, (\E b \in BOOLEAN : LoadSaved(b)) \/ ChangeUser
  PROVE  /\ \/ mainQ' = Append(mainQ, Post(user')) /\ user' \in Users
            \/ mainQ' = mainQ /\ Uid(user') = Uid(user)
         /\ UNCHANGED <<up, current_user, token_counter, fetches, workQ>>
<1>0. stored \in Users /\ None \in Users /\ Tokens \subseteq Users
  BY DEF AuthInv, AuthTypeOK, Users
<1>1. CASE \E b \in BOOLEAN : LoadSaved(b)
  <2>1. UNCHANGED <<up, current_user, token_counter, fetches, workQ>>
    BY <1>1 DEF LoadSaved, providerVars
  <2>2. \/ user' = stored /\ PossiblyPost(stored, <<>>)
        \/ user' = user /\ mainQ' = mainQ
    BY <1>1 DEF LoadSaved, LoadUser
  <2> QED
    BY <1>0, <2>1, <2>2, PostedOrSame
<1>2. CASE ChangeUser
  <2>1. UNCHANGED <<up, current_user, token_counter, fetches, workQ>>
    BY <1>2 DEF ChangeUser
  <2>2. \/ \E t \in Tokens : user' = t /\ PossiblyPost(t, <<>>)
        \/ user' = None /\ PossiblyPost(None, <<>>)
    BY <1>2 DEF ChangeUser, CompleteSignIn, SignOut, UpdateKeychain, UpdateCurrentUser
  <2> QED
    BY <1>0, <2>1, <2>2, PostedOrSame
<1> QED
  BY <1>1, <1>2

\* Answers in a queue that grows, or whose first block has run.
LEMMA AnswersAppend ==
  ASSUME NEW q \in Seq(Posts \cup Answers), NEW b \in Posts \cup Answers, NEW c
  PROVE  AnswersOf(Append(q, b), c) =
           AnswersOf(q, c) \cup (IF b.kind = "token" /\ b.close = c THEN {Len(q) + 1} ELSE {})
<1> DEFINE a == Append(q, b)
<1>1. /\ Len(q) \in Nat /\ Len(a) = Len(q) + 1 /\ a[Len(q) + 1] = b
      /\ \A i \in 1..Len(q) : a[i] = q[i]
  OBVIOUS
<1> HIDE DEF a
<1>2. 1..Len(a) = (1..Len(q)) \cup {Len(q) + 1}
  BY <1>1
<1>3. AnswersOf(a, c) = AnswersOf(q, c) \cup (IF b.kind = "token" /\ b.close = c THEN {Len(q) + 1} ELSE {})
  BY <1>1, <1>2 DEF AnswersOf
<1> QED
  BY <1>3 DEF a

LEMMA AnswersTail ==
  ASSUME NEW q \in Seq(Posts \cup Answers), q # <<>>, NEW c, OnlyOne(AnswersOf(q, c))
  PROVE  /\ OnlyOne(AnswersOf(Tail(q), c))
         /\ AnswersOf(q, c) = {} => AnswersOf(Tail(q), c) = {}
         /\ Head(q).kind = "token" /\ Head(q).close = c => AnswersOf(q, c) # {} /\ AnswersOf(Tail(q), c) = {}
<1> DEFINE t == Tail(q)
<1>1. /\ Len(q) \in Nat /\ Len(q) > 0 /\ Len(t) = Len(q) - 1 /\ Head(q) = q[1]
      /\ \A i \in 1..Len(q) - 1 : t[i] = q[i + 1]
  OBVIOUS
<1> HIDE DEF t
<1>2. ASSUME NEW i \in AnswersOf(t, c) PROVE i \in Nat /\ i > 0 /\ i + 1 \in AnswersOf(q, c)
  <2>1. i \in 1..Len(q) - 1 /\ t[i].kind = "token" /\ t[i].close = c
    BY <1>1 DEF AnswersOf
  <2>2. i + 1 \in 1..Len(q) /\ q[i + 1].kind = "token" /\ q[i + 1].close = c
    BY <1>1, <2>1
  <2> QED
    BY <1>1, <2>1, <2>2 DEF AnswersOf
<1>3. ASSUME NEW i \in AnswersOf(t, c), NEW j \in AnswersOf(t, c) PROVE i = j
  <2>1. i \in Nat /\ j \in Nat /\ i + 1 = j + 1
    BY <1>2 DEF OnlyOne
  <2> QED
    BY <2>1
<1>4. ASSUME AnswersOf(q, c) = {} PROVE AnswersOf(t, c) = {}
  BY <1>2, <1>4
<1>5. ASSUME Head(q).kind = "token" /\ Head(q).close = c
      PROVE  AnswersOf(q, c) # {} /\ AnswersOf(t, c) = {}
  <2>1. 1 \in AnswersOf(q, c)
    BY <1>1, <1>5 DEF AnswersOf
  <2>2. ASSUME NEW i \in AnswersOf(t, c) PROVE FALSE
    <3>1. i \in Nat /\ i > 0 /\ i + 1 = 1
      BY <1>2, <2>1 DEF OnlyOne
    <3> QED
      BY <3>1
  <2> QED
    BY <2>1, <2>2
<1> QED
  BY <1>3, <1>4, <1>5 DEF OnlyOne, t

\* The same of the worker queue.
LEMMA ResumesAppend ==
  ASSUME NEW q \in Seq(Operations), NEW b \in Operations, NEW c
  PROVE  ResumesOf(Append(q, b), c) =
           ResumesOf(q, c) \cup (IF b.op = "resume" /\ b.close = c THEN {Len(q) + 1} ELSE {})
<1> DEFINE a == Append(q, b)
<1>1. /\ Len(q) \in Nat /\ Len(a) = Len(q) + 1 /\ a[Len(q) + 1] = b
      /\ \A i \in 1..Len(q) : a[i] = q[i]
  OBVIOUS
<1> HIDE DEF a
<1>2. 1..Len(a) = (1..Len(q)) \cup {Len(q) + 1}
  BY <1>1
<1>3. ResumesOf(a, c) = ResumesOf(q, c) \cup (IF b.op = "resume" /\ b.close = c THEN {Len(q) + 1} ELSE {})
  BY <1>1, <1>2 DEF ResumesOf
<1> QED
  BY <1>3 DEF a

LEMMA ResumesTail ==
  ASSUME NEW q \in Seq(Operations), q # <<>>, NEW c, OnlyOne(ResumesOf(q, c))
  PROVE  /\ OnlyOne(ResumesOf(Tail(q), c))
         /\ ResumesOf(q, c) = {} => ResumesOf(Tail(q), c) = {}
         /\ Head(q).op = "resume" /\ Head(q).close = c => ResumesOf(q, c) # {} /\ ResumesOf(Tail(q), c) = {}
<1> DEFINE t == Tail(q)
<1>1. /\ Len(q) \in Nat /\ Len(q) > 0 /\ Len(t) = Len(q) - 1 /\ Head(q) = q[1]
      /\ \A i \in 1..Len(q) - 1 : t[i] = q[i + 1]
  OBVIOUS
<1> HIDE DEF t
<1>2. ASSUME NEW i \in ResumesOf(t, c) PROVE i \in Nat /\ i > 0 /\ i + 1 \in ResumesOf(q, c)
  <2>1. i \in 1..Len(q) - 1 /\ t[i].op = "resume" /\ t[i].close = c
    BY <1>1 DEF ResumesOf
  <2>2. i + 1 \in 1..Len(q) /\ q[i + 1].op = "resume" /\ q[i + 1].close = c
    BY <1>1, <2>1
  <2> QED
    BY <1>1, <2>1, <2>2 DEF ResumesOf
<1>3. ASSUME NEW i \in ResumesOf(t, c), NEW j \in ResumesOf(t, c) PROVE i = j
  <2>1. i \in Nat /\ j \in Nat /\ i + 1 = j + 1
    BY <1>2 DEF OnlyOne
  <2> QED
    BY <2>1
<1>4. ASSUME ResumesOf(q, c) = {} PROVE ResumesOf(t, c) = {}
  BY <1>2, <1>4
<1>5. ASSUME Head(q).op = "resume" /\ Head(q).close = c
      PROVE  ResumesOf(q, c) # {} /\ ResumesOf(t, c) = {}
  <2>1. 1 \in ResumesOf(q, c)
    BY <1>1, <1>5 DEF ResumesOf
  <2>2. ASSUME NEW i \in ResumesOf(t, c) PROVE FALSE
    <3>1. i \in Nat /\ i > 0 /\ i + 1 = 1
      BY <1>2, <2>1 DEF OnlyOne
    <3> QED
      BY <3>1
  <2> QED
    BY <2>1, <2>2
<1> QED
  BY <1>3, <1>4, <1>5 DEF OnlyOne, t

-----------------------------------------------------------------------------
(* Steps of the three queues keep tokens and users together.               *)

\* What a block at the end of the main queue changes.
LEMMA MainAppend ==
  ASSUME NEW q \in Seq(Posts \cup Answers), NEW b \in Posts \cup Answers
  PROVE  /\ Append(q, b) \in Seq(Posts \cup Answers)
         /\ Len(q) \in Nat /\ Len(Append(q, b)) = Len(q) + 1
         /\ \A i \in 1..Len(q) : Append(q, b)[i] = q[i]
         /\ Append(q, b)[Len(q) + 1] = b
         /\ PendingPost(Append(q, b)) <=> (PendingPost(q) \/ b.kind = "post")
<1> DEFINE a == Append(q, b)
<1>1. /\ a \in Seq(Posts \cup Answers) /\ Len(q) \in Nat /\ Len(a) = Len(q) + 1
      /\ \A i \in 1..Len(q) : a[i] = q[i]
      /\ a[Len(q) + 1] = b
  OBVIOUS
<1> HIDE DEF a
<1>2. 1..Len(a) = (1..Len(q)) \cup {Len(q) + 1}
  BY <1>1
<1>3. PendingPost(a) <=> (PendingPost(q) \/ b.kind = "post")
  BY <1>1, <1>2 DEF PendingPost
<1> QED
  BY <1>1, <1>3 DEF a

LEMMA MainTail ==
  ASSUME NEW q \in Seq(Posts \cup Answers), q # <<>>
  PROVE  /\ Tail(q) \in Seq(Posts \cup Answers) /\ Head(q) \in Posts \cup Answers
         /\ Len(q) \in Nat /\ Len(q) > 0 /\ Len(Tail(q)) = Len(q) - 1 /\ Head(q) = q[1]
         /\ \A i \in 1..Len(q) - 1 : Tail(q)[i] = q[i + 1] /\ i + 1 \in 1..Len(q)
         /\ PendingPost(Tail(q)) => PendingPost(q)
         /\ PendingPost(q) /\ Head(q).kind # "post" => PendingPost(Tail(q))
<1> DEFINE t == Tail(q)
<1>1. /\ t \in Seq(Posts \cup Answers) /\ Head(q) \in Posts \cup Answers
      /\ Len(q) \in Nat /\ Len(q) > 0 /\ Len(t) = Len(q) - 1 /\ Head(q) = q[1]
      /\ \A i \in 1..Len(q) - 1 : t[i] = q[i + 1] /\ i + 1 \in 1..Len(q)
  OBVIOUS
<1> HIDE DEF t
<1>2. PendingPost(t) => PendingPost(q)
  BY <1>1 DEF PendingPost
<1>3. ASSUME PendingPost(q), Head(q).kind # "post" PROVE PendingPost(t)
  <2>1. PICK i \in 1..Len(q) : q[i].kind = "post"
    BY <1>3 DEF PendingPost
  <2>2. i # 1
    BY <1>1, <1>3, <2>1
  <2>3. i - 1 \in 1..Len(q) - 1 /\ (i - 1) + 1 = i
    BY <1>1, <2>2
  <2>4. t[i - 1].kind = "post"
    BY <1>1, <2>1, <2>3
  <2> QED
    BY <1>1, <2>3, <2>4 DEF PendingPost
<1> QED
  BY <1>1, <1>2, <1>3 DEF t

\* Auth's work queue changes the user.
LEMMA WorkKeepsTokens ==
  ASSUME AuthInv, TokenPart, AsksPart, (\E b \in BOOLEAN : LoadSaved(b)) \/ ChangeUser,
         UNCHANGED <<sync_user, stream>>
  PROVE  TokenPart' /\ AsksPart'
<1>0. UNCHANGED <<up, current_user, token_counter, fetches, workQ>>
  BY WorkEffect
<1>1. CASE mainQ' = mainQ /\ Uid(user') = Uid(user)
  <2>1. TokenPart'
    BY <1>0, <1>1 DEF TokenPart, ProviderTypes, NobodyAsks, CountersArePast, ProviderFollows,
       FetchFits, AnswerFits
  <2>2. AsksPart'
    BY <1>0, <1>1 DEF AsksPart
  <2> QED
    BY <2>1, <2>2
<1>2. CASE mainQ' = Append(mainQ, Post(user')) /\ user' \in Users
  <2> DEFINE b == Post(user')
  <2>1. b \in Posts \cup Answers /\ b.kind = "post"
    BY <1>2, UidType DEF Post, Posts
  <2> HIDE DEF b
  <2>2. mainQ \in Seq(Posts \cup Answers) /\ mainQ' = Append(mainQ, b)
    BY <1>2 DEF TokenPart, ProviderTypes, b
  <2>3. /\ mainQ' \in Seq(Posts \cup Answers) /\ Len(mainQ) \in Nat /\ Len(mainQ') = Len(mainQ) + 1
        /\ \A i \in 1..Len(mainQ) : mainQ'[i] = mainQ[i]
        /\ mainQ'[Len(mainQ) + 1] = b
        /\ PendingPost(mainQ')
    BY <2>1, <2>2, MainAppend
  <2>4. \A i \in 1..Len(mainQ') : mainQ'[i].kind = "token" => i \in 1..Len(mainQ)
    BY <2>1, <2>3
  <2>5. ProviderTypes' /\ NobodyAsks' /\ CountersArePast'
    <3>1. ProviderTypes'
      BY <1>0, <2>3 DEF TokenPart, ProviderTypes
    <3>2. NobodyAsks'
      BY <1>0, <2>1, <2>3 DEF TokenPart, NobodyAsks
    <3>3. CountersArePast'
      BY <1>0, <2>3, <2>4 DEF TokenPart, CountersArePast
    <3> QED
      BY <3>1, <3>2, <3>3
  <2>6. ProviderFollows' /\ FetchFits'
    BY <2>3 DEF ProviderFollows, FetchFits
  <2>7. AnswerFits'
    <3> SUFFICES ASSUME NEW i \in 1..Len(mainQ'), mainQ'[i].kind = "token",
                        mainQ'[i].counter = token_counter',
                        \A j \in 1..i-1 : mainQ'[j].kind # "post"
                 PROVE  mainQ'[i].uid \in {current_user', Failed}
      BY DEF AnswerFits
    <3>1. i \in 1..Len(mainQ) /\ mainQ'[i] = mainQ[i]
      BY <2>3, <2>4
    <3>2. \A j \in 1..i-1 : mainQ[j].kind # "post"
      BY <2>3, <3>1
    <3> QED
      BY <1>0, <3>1, <3>2 DEF TokenPart, AnswerFits
  <2>8. WorkFits(workQ, sync_user, current_user)'
    BY <1>0 DEF TokenPart
  <2>9. AsksPart'
    <3>1. AnswersOf(mainQ', stream.close) = AnswersOf(mainQ, stream.close)
      <4>1. AnswersOf(mainQ', stream.close) = AnswersOf(mainQ, stream.close) \cup
              (IF b.kind = "token" /\ b.close = stream.close THEN {Len(mainQ) + 1} ELSE {})
        BY <2>1, <2>2, AnswersAppend
      <4>2. ~(b.kind = "token" /\ b.close = stream.close)
        BY <2>1
      <4> QED
        BY <4>1, <4>2
    <3>2. AsksOnce(fetches, mainQ, workQ, stream)'
      BY <1>0, <3>1 DEF AsksPart, AsksOnce
    <3>3. NoneNewer(fetches, mainQ, workQ, stream.close)'
      BY <1>0, <2>3, <2>4 DEF AsksPart, NoneNewer
    <3> QED
      BY <3>2, <3>3 DEF AsksPart
  <2> QED
    BY <2>5, <2>6, <2>7, <2>8, <2>9 DEF TokenPart
<1> QED
  BY <1>1, <1>2, WorkEffect

\* The fetch f looks up the signed-in user.
LEMMA BeginKeepsTokens ==
  ASSUME AuthInv, TokenPart, AsksPart, NEW f \in fetches, BeginFetch(f), user # None,
         UNCHANGED <<sync_user, stream>>
  PROVE  TokenPart' /\ AsksPart'
<1> DEFINE g == [f EXCEPT !.uid = Uid(user)]
<1>0. /\ UNCHANGED <<user, mainQ, up, current_user, token_counter, workQ>>
      /\ fetches' = (fetches \ {f}) \cup {g}
  BY DEF BeginFetch, authVars
<1>1. f \in Fetches /\ Uid(user) \in UserIds
  BY UidType DEF TokenPart, ProviderTypes, AuthInv, AuthTypeOK
<1>2. g \in Fetches /\ g.uid = Uid(user) /\ g.counter = f.counter /\ g.close = f.close
  BY <1>1 DEF Fetches
<1> HIDE DEF g
<1>3. up
  BY DEF TokenPart, NobodyAsks
<1>4. ProviderTypes' /\ NobodyAsks' /\ CountersArePast'
  BY <1>0, <1>2, <1>3 DEF TokenPart, ProviderTypes, NobodyAsks, CountersArePast
<1>5. ProviderFollows' /\ AnswerFits' /\ WorkFits(workQ, sync_user, current_user)'
  BY <1>0 DEF TokenPart, ProviderFollows, AnswerFits
<1>6. FetchFits'
  BY <1>0, <1>2, <1>3 DEF TokenPart, FetchFits, ProviderFollows
<1>7. AsksPart'
  <2>1. \A c : f.close # c => FetchesOf(fetches', c) = FetchesOf(fetches, c)
    BY <1>0, <1>2 DEF FetchesOf
  <2>2. ASSUME f.close = stream.close
        PROVE  /\ FetchesOf(fetches, stream.close) # {}
               /\ OnlyOne(FetchesOf(fetches', stream.close))
    BY <1>0, <1>2, <2>2 DEF AsksPart, AsksOnce, FetchesOf, OnlyOne
  <2>3. AsksOnce(fetches, mainQ, workQ, stream)'
    <3>1. CASE f.close = stream.close
      BY <1>0, <2>2, <3>1 DEF AsksPart, AsksOnce
    <3>2. CASE f.close # stream.close
      BY <1>0, <2>1, <3>2 DEF AsksPart, AsksOnce
    <3> QED
      BY <3>1, <3>2
  <2>4. NoneNewer(fetches, mainQ, workQ, stream.close)'
    BY <1>0, <1>2 DEF AsksPart, NoneNewer
  <2> QED
    BY <2>3, <2>4 DEF AsksPart
<1> QED
  BY <1>4, <1>5, <1>6, <1>7 DEF TokenPart

\* The answer to fetch f is dispatched to the main queue.
LEMMA DeliverKeepsTokens ==
  ASSUME AuthInv, TokenPart, AsksPart, NEW f \in fetches, NEW uid, Deliver(f, uid),
         UNCHANGED <<up, current_user, token_counter, workQ, sync_user, stream>>,
         \/ f.uid = Unasked /\ uid = Uid(user)
         \/ f.uid # Unasked /\ uid \in {f.uid, Failed}
  PROVE  TokenPart' /\ AsksPart'
<1> DEFINE b == Answered(f, uid)
<1>0. /\ UNCHANGED <<user>> /\ mainQ' = Append(mainQ, b) /\ fetches' = fetches \ {f}
  BY DEF Deliver, Dispatch
<1>1. f \in Fetches /\ uid \in UserIds \cup {Failed}
  <2>1. f \in Fetches /\ Uid(user) \in UserIds
    BY UidType DEF TokenPart, ProviderTypes, AuthInv, AuthTypeOK
  <2> QED
    BY <2>1 DEF Fetches
<1>2. /\ b \in Posts \cup Answers /\ b.kind = "token" /\ b.uid = uid /\ b.counter = f.counter
      /\ b.close = f.close
  BY <1>1 DEF Answered, Answers, Fetches
<1> HIDE DEF b
<1>3. mainQ \in Seq(Posts \cup Answers)
  BY DEF TokenPart, ProviderTypes
<1>4. /\ mainQ' \in Seq(Posts \cup Answers) /\ Len(mainQ) \in Nat /\ Len(mainQ') = Len(mainQ) + 1
      /\ \A i \in 1..Len(mainQ) : mainQ'[i] = mainQ[i]
      /\ mainQ'[Len(mainQ) + 1] = b
      /\ PendingPost(mainQ') <=> PendingPost(mainQ)
  BY <1>0, <1>2, <1>3, MainAppend
<1>5. up
  BY DEF TokenPart, NobodyAsks
<1>6. 1..Len(mainQ') = (1..Len(mainQ)) \cup {Len(mainQ) + 1}
  BY <1>4
<1>7. ProviderTypes' /\ NobodyAsks'
  BY <1>0, <1>4, <1>5 DEF TokenPart, ProviderTypes, NobodyAsks
<1>8. CountersArePast'
  BY <1>0, <1>2, <1>4, <1>6 DEF TokenPart, CountersArePast
<1>9. ProviderFollows' /\ FetchFits' /\ WorkFits(workQ, sync_user, current_user)'
  BY <1>0, <1>4 DEF TokenPart, ProviderFollows, FetchFits
<1>10. AnswerFits'
  <2> SUFFICES ASSUME NEW i \in 1..Len(mainQ'), mainQ'[i].kind = "token",
                      mainQ'[i].counter = token_counter',
                      \A j \in 1..i-1 : mainQ'[j].kind # "post"
               PROVE  mainQ'[i].uid \in {current_user', Failed}
    BY DEF AnswerFits
  <2>1. CASE i \in 1..Len(mainQ)
    <3>1. \A j \in 1..i-1 : mainQ[j].kind # "post"
      BY <1>4, <2>1
    <3>2. mainQ'[i] = mainQ[i]
      BY <1>4, <2>1
    <3> QED
      BY <2>1, <3>1, <3>2 DEF TokenPart, AnswerFits
  <2>2. CASE i = Len(mainQ) + 1
    <3>1. ~PendingPost(mainQ)
      BY <1>4, <2>2 DEF PendingPost
    <3>2. mainQ'[i].uid = uid /\ f.counter = token_counter
      BY <1>2, <1>4, <2>2
    <3>3. CASE f.uid = Unasked /\ uid = Uid(user)
      BY <1>5, <3>1, <3>2, <3>3 DEF TokenPart, ProviderFollows
    <3>4. CASE f.uid # Unasked /\ uid \in {f.uid, Failed}
      BY <3>1, <3>2, <3>4 DEF TokenPart, FetchFits
    <3> QED
      BY <3>3, <3>4
  <2> QED
    BY <1>6, <2>1, <2>2
<1>11. AsksPart'
  <2>1. /\ AnswersOf(mainQ', stream.close) = AnswersOf(mainQ, stream.close) \cup
             (IF f.close = stream.close THEN {Len(mainQ) + 1} ELSE {})
    BY <1>0, <1>2, <1>3, AnswersAppend
  <2>2. FetchesOf(fetches', stream.close) = FetchesOf(fetches, stream.close) \ {f}
    BY <1>0 DEF FetchesOf
  <2>3. AsksOnce(fetches, mainQ, workQ, stream)'
    <3>1. CASE f.close = stream.close
      <4>1. f \in FetchesOf(fetches, stream.close)
        BY <3>1 DEF FetchesOf
      <4>2. /\ FetchesOf(fetches', stream.close) = {}
            /\ AnswersOf(mainQ, stream.close) = {} /\ ResumesOf(workQ, stream.close) = {}
            /\ stream.state = "Starting"
        BY <2>2, <4>1 DEF AsksPart, AsksOnce, OnlyOne
      <4>3. AnswersOf(mainQ', stream.close) = {Len(mainQ) + 1}
        BY <2>1, <3>1, <4>2
      <4> QED
        BY <4>2, <4>3 DEF AsksOnce, OnlyOne
    <3>2. CASE f.close # stream.close
      <4>1. f \notin FetchesOf(fetches, stream.close)
        BY <3>2 DEF FetchesOf
      <4> QED
        BY <2>1, <2>2, <3>2, <4>1 DEF AsksPart, AsksOnce
    <3> QED
      BY <3>1, <3>2
  <2>4. NoneNewer(fetches, mainQ, workQ, stream.close)'
    BY <1>0, <1>2, <1>4, <1>6 DEF AsksPart, NoneNewer
  <2> QED
    BY <2>3, <2>4 DEF AsksPart
<1> QED
  BY <1>7, <1>8, <1>9, <1>10, <1>11 DEF TokenPart

\* Operations at the end of the worker queue.
LEMMA WorkQueueAppend ==
  ASSUME NEW q \in Seq(Operations), NEW o \in Operations
  PROVE  /\ Append(q, o) \in Seq(Operations)
         /\ Len(q) \in Nat /\ Len(Append(q, o)) = Len(q) + 1
         /\ \A i \in 1..Len(q) : Append(q, o)[i] = q[i]
         /\ Append(q, o)[Len(q) + 1] = o
         /\ 1..Len(Append(q, o)) = (1..Len(q)) \cup {Len(q) + 1}
<1> DEFINE a == Append(q, o)
<1>1. /\ a \in Seq(Operations) /\ Len(q) \in Nat /\ Len(a) = Len(q) + 1
      /\ \A i \in 1..Len(q) : a[i] = q[i]
      /\ a[Len(q) + 1] = o
  OBVIOUS
<1> HIDE DEF a
<1>2. 1..Len(a) = (1..Len(q)) \cup {Len(q) + 1}
  BY <1>1
<1> QED
  BY <1>1, <1>2 DEF a

\* The block at the head of the main queue has run; nothing was asked.
LEMMA TailAsks ==
  ASSUME TokenPart, AsksPart, mainQ # <<>>, mainQ' = Tail(mainQ)
  PROVE  /\ OnlyOne(AnswersOf(mainQ', stream.close))
         /\ AnswersOf(mainQ, stream.close) = {} => AnswersOf(mainQ', stream.close) = {}
         /\ \A i \in 1..Len(mainQ') : mainQ'[i].kind = "token" => mainQ'[i].close <= stream.close
<1>0. mainQ \in Seq(Posts \cup Answers)
  BY DEF TokenPart, ProviderTypes
<1>1. OnlyOne(AnswersOf(mainQ, stream.close))
  BY DEF AsksPart, AsksOnce
<1>2. /\ OnlyOne(AnswersOf(mainQ', stream.close))
      /\ AnswersOf(mainQ, stream.close) = {} => AnswersOf(mainQ', stream.close) = {}
  BY <1>0, <1>1, AnswersTail
<1>3. /\ Len(mainQ) \in Nat /\ Len(mainQ') = Len(mainQ) - 1
      /\ \A i \in 1..Len(mainQ) - 1 : mainQ'[i] = mainQ[i + 1] /\ i + 1 \in 1..Len(mainQ)
  BY <1>0, MainTail
<1>4. \A i \in 1..Len(mainQ') : mainQ'[i].kind = "token" => mainQ'[i].close <= stream.close
  BY <1>3 DEF AsksPart, NoneNewer
<1> QED
  BY <1>2, <1>4

\* The provider's observer.
LEMMA NotifyKeepsTokens ==
  ASSUME AuthInv, TokenPart, AsksPart, OnAuthStateDidChange, UNCHANGED <<sync_user, stream>>
  PROVE  TokenPart' /\ AsksPart'
<1> DEFINE h == Head(mainQ)
           o == Op("credential", h.uid, 0)
<1>0. /\ mainQ # <<>> /\ mainQ' = Tail(mainQ) /\ h.kind \in {"post", "init"}
      /\ UNCHANGED <<up, fetches, user>>
      /\ \/ up /\ current_user' = h.uid /\ token_counter' = token_counter + 1
            /\ workQ' = Append(workQ, o)
         \/ ~up /\ UNCHANGED <<current_user, token_counter, workQ>>
  BY DEF OnAuthStateDidChange, RunAuthBlock
<1>1. mainQ \in Seq(Posts \cup Answers) /\ workQ \in Seq(Operations) /\ token_counter \in Nat
  BY DEF TokenPart, ProviderTypes
<1>2. /\ mainQ' \in Seq(Posts \cup Answers) /\ h \in Posts \cup Answers
      /\ Len(mainQ) \in Nat /\ Len(mainQ) > 0 /\ Len(mainQ') = Len(mainQ) - 1 /\ h = mainQ[1]
      /\ \A i \in 1..Len(mainQ) - 1 : mainQ'[i] = mainQ[i + 1] /\ i + 1 \in 1..Len(mainQ)
  BY <1>0, <1>1, MainTail
<1>3. h.kind = "post" /\ h.uid \in UserIds
  BY <1>0, <1>2, KindFacts
<1>4. o \in Operations /\ o.op = "credential" /\ o.uid = h.uid
  BY <1>3 DEF Op, Operations
<1> HIDE DEF h, o
<1>5. CASE ~up
  <2>1. fetches = {} /\ workQ = <<>> /\ \A i \in 1..Len(mainQ) : mainQ[i].kind = "post"
    BY <1>5 DEF TokenPart, NobodyAsks
  <2>2. fetches' = {} /\ workQ' = <<>> /\ \A i \in 1..Len(mainQ') : mainQ'[i].kind = "post"
    BY <1>0, <1>2, <1>5, <2>1
  <2>3. ProviderTypes'
    BY <1>0, <1>2, <1>5 DEF TokenPart, ProviderTypes
  <2>4. NobodyAsks' /\ CountersArePast'
    BY <2>2 DEF NobodyAsks, CountersArePast
  <2>5. ProviderFollows' /\ FetchFits' /\ AnswerFits'
    BY <1>0, <1>5, <2>2 DEF ProviderFollows, FetchFits, AnswerFits
  <2>6. WorkFits(workQ, sync_user, current_user)'
    BY <1>0, <1>5 DEF TokenPart
  <2>7. AsksPart'
    BY <1>0, <1>5, TailAsks DEF AsksPart, AsksOnce, NoneNewer
  <2> QED
    BY <2>3, <2>4, <2>5, <2>6, <2>7 DEF TokenPart
<1>6. CASE up
  <2>0. /\ current_user' = h.uid /\ token_counter' = token_counter + 1 /\ workQ' = Append(workQ, o)
        /\ up'
    BY <1>0, <1>6
  <2>1. /\ workQ' \in Seq(Operations) /\ Len(workQ) \in Nat
        /\ \A i \in 1..Len(workQ) : workQ'[i] = workQ[i]
        /\ workQ'[Len(workQ) + 1] = o
        /\ 1..Len(workQ') = (1..Len(workQ)) \cup {Len(workQ) + 1}
    BY <1>1, <1>4, <2>0, WorkQueueAppend
  <2>2. ProviderTypes' /\ NobodyAsks'
    BY <1>0, <1>1, <1>2, <1>3, <2>0, <2>1 DEF TokenPart, ProviderTypes, NobodyAsks
  <2>3. /\ \A f \in fetches' : f.counter <= token_counter
        /\ \A i \in 1..Len(mainQ') : mainQ'[i].kind = "token" => mainQ'[i].counter <= token_counter
    BY <1>0, <1>2 DEF TokenPart, CountersArePast
  <2>4. /\ \A f \in fetches' : f.counter \in Nat
        /\ \A i \in 1..Len(mainQ') : mainQ'[i].kind = "token" => mainQ'[i].counter \in Nat
    <3>1. \A f \in fetches' : f \in Fetches
      BY <2>2 DEF ProviderTypes
    <3>2. \A i \in 1..Len(mainQ') : mainQ'[i] \in Posts \cup Answers
      BY <1>2
    <3> QED
      BY <3>1, <3>2, KindFacts DEF Fetches
  <2>5. CountersArePast'
    BY <1>1, <2>0, <2>3, <2>4 DEF CountersArePast
  <2>6. FetchFits' /\ AnswerFits'
    BY <1>1, <2>0, <2>3, <2>4 DEF FetchFits, AnswerFits
  <2>7. ProviderFollows'
    <3> SUFFICES ASSUME ~PendingPost(mainQ') PROVE h.uid = Uid(user)
      BY <1>0, <2>0 DEF ProviderFollows
    <3>1. ASSUME NEW j \in 1+1..Len(mainQ) PROVE mainQ[j].kind # "post"
      <4>1. j - 1 \in 1..Len(mainQ) - 1 /\ (j - 1) + 1 = j
        BY <1>2
      <4>2. mainQ'[j - 1] = mainQ[j] /\ j - 1 \in 1..Len(mainQ')
        BY <1>2, <4>1
      <4> QED
        BY <4>2 DEF PendingPost
    <3>2. 1 \in 1..Len(mainQ) /\ mainQ[1].kind = "post"
      BY <1>2, <1>3
    <3>3. mainQ[1].uid = Uid(user)
      BY <3>1, <3>2 DEF AuthInv, LastPostIsCurrent, PostsEndWith
    <3> QED
      BY <1>2, <3>3
  <2>8. WorkFits(workQ, sync_user, current_user)'
    <3>1. WorkFits(Append(workQ, o), sync_user, o.uid)
      BY <1>1, <1>4, WorkAppendChange DEF TokenPart
    <3> QED
      BY <1>4, <2>0, <3>1
  <2>9. AsksPart'
    <3>1. ResumesOf(workQ', stream.close) = ResumesOf(workQ, stream.close)
      <4>1. ResumesOf(workQ', stream.close) = ResumesOf(workQ, stream.close) \cup
              (IF o.op = "resume" /\ o.close = stream.close THEN {Len(workQ) + 1} ELSE {})
        BY <1>1, <1>4, <2>0, ResumesAppend, ZenonT(30)
      <4>2. ~(o.op = "resume" /\ o.close = stream.close)
        BY <1>4
      <4> QED
        BY <4>1, <4>2
    <3>2. AsksOnce(fetches, mainQ, workQ, stream)'
      BY <1>0, <3>1, TailAsks DEF AsksPart, AsksOnce
    <3>3. \A i \in 1..Len(workQ') : workQ'[i].op = "resume" => workQ'[i].close <= stream.close
      BY <1>4, <2>1 DEF AsksPart, NoneNewer
    <3>4. NoneNewer(fetches, mainQ, workQ, stream.close)'
      BY <1>0, <3>3, TailAsks DEF AsksPart, NoneNewer
    <3> QED
      BY <3>2, <3>4 DEF AsksPart
  <2> QED
    BY <2>2, <2>5, <2>6, <2>7, <2>8, <2>9 DEF TokenPart
<1> QED
  BY <1>5, <1>6

\* get_token_callback.
LEMMA OnTokenKeepsTokens ==
  ASSUME TokenPart, AsksPart, OnToken, UNCHANGED <<sync_user, stream>>
  PROVE  TokenPart' /\ AsksPart'
<1> DEFINE h == Head(mainQ)
           o == Op("resume", h.uid, h.close)
           r == Request(Unasked, h.close)
           c == stream.close
<1>0. /\ mainQ # <<>> /\ mainQ' = Tail(mainQ) /\ h.kind = "token"
      /\ UNCHANGED <<up, user, current_user, token_counter>>
      /\ \/ h.counter # token_counter /\ fetches' = fetches \cup {r} /\ workQ' = workQ
         \/ h.counter = token_counter /\ workQ' = Append(workQ, o) /\ fetches' = fetches
  BY DEF OnToken
<1>1. /\ mainQ \in Seq(Posts \cup Answers) /\ workQ \in Seq(Operations) /\ token_counter \in Nat
      /\ fetches \subseteq Fetches
  BY DEF TokenPart, ProviderTypes
<1>2. /\ mainQ' \in Seq(Posts \cup Answers) /\ h \in Posts \cup Answers
      /\ Len(mainQ) \in Nat /\ Len(mainQ) > 0 /\ Len(mainQ') = Len(mainQ) - 1 /\ h = mainQ[1]
      /\ \A i \in 1..Len(mainQ) - 1 : mainQ'[i] = mainQ[i + 1] /\ i + 1 \in 1..Len(mainQ)
      /\ PendingPost(mainQ') <=> PendingPost(mainQ)
  BY <1>0, <1>1, MainTail
<1>3. h.uid \in UserIds \cup {Failed} /\ h.counter \in Nat /\ h.close \in Nat
  BY <1>0, <1>2, KindFacts
<1>4. o \in Operations /\ o.op = "resume" /\ o.uid = h.uid /\ o.close = h.close
  BY <1>3 DEF Op, Operations
<1>5. r \in Fetches /\ r.uid = Unasked /\ r.counter = token_counter /\ r.close = h.close
  BY <1>1, <1>3 DEF Request, Fetches
<1> HIDE DEF h, o, r
<1>6. up /\ h.close <= c
  <2>1. 1 \in 1..Len(mainQ) /\ mainQ[1].kind = "token"
    BY <1>0, <1>2
  <2>2. up
    <3>1. ~up => mainQ[1].kind = "post"
      BY <2>1 DEF TokenPart, NobodyAsks
    <3> QED
      BY <2>1, <3>1
  <2>3. mainQ[1].close <= stream.close
    BY <2>1 DEF AsksPart, NoneNewer
  <2> QED
    BY <1>2, <2>2, <2>3
<1>7. AnswerFits'
  <2> SUFFICES ASSUME NEW i \in 1..Len(mainQ'), mainQ'[i].kind = "token",
                      mainQ'[i].counter = token_counter',
                      \A j \in 1..i-1 : mainQ'[j].kind # "post"
               PROVE  mainQ'[i].uid \in {current_user', Failed}
    BY DEF AnswerFits
  <2>1. i \in 1..Len(mainQ) - 1 /\ mainQ'[i] = mainQ[i + 1] /\ i + 1 \in 1..Len(mainQ)
    BY <1>2
  <2>2. ASSUME NEW j \in 1..(i + 1) - 1 PROVE mainQ[j].kind # "post"
    <3>1. CASE j = 1
      BY <1>0, <1>2, <3>1
    <3>2. CASE j # 1
      <4>1. j - 1 \in 1..i-1 /\ j - 1 \in 1..Len(mainQ) - 1 /\ (j - 1) + 1 = j
        BY <1>2, <2>1, <3>2
      <4> QED
        BY <1>2, <4>1
    <3> QED
      BY <3>1, <3>2
  <2> QED
    BY <1>0, <2>1, <2>2 DEF TokenPart, AnswerFits
<1>8. \A i \in 1..Len(mainQ') : mainQ'[i].kind = "token" => mainQ'[i].counter <= token_counter
  BY <1>2 DEF TokenPart, CountersArePast
<1>9. /\ AnswersOf(mainQ', c) = {} \/ h.close # c
      /\ h.close = c => /\ FetchesOf(fetches, c) = {} /\ ResumesOf(workQ, c) = {}
                        /\ stream.state = "Starting"
  <2> SUFFICES ASSUME h.close = c
               PROVE  /\ AnswersOf(mainQ', c) = {} /\ FetchesOf(fetches, c) = {}
                      /\ ResumesOf(workQ, c) = {} /\ stream.state = "Starting"
    OBVIOUS
  <2>1. OnlyOne(AnswersOf(mainQ, c))
    BY DEF AsksPart, AsksOnce
  <2>2. AnswersOf(mainQ, c) # {} /\ AnswersOf(mainQ', c) = {}
    BY <1>0, <1>1, <2>1, AnswersTail DEF h
  <2> QED
    BY <2>2 DEF AsksPart, AsksOnce
<1>10. CASE h.counter # token_counter /\ fetches' = fetches \cup {r} /\ workQ' = workQ
  <2>1. ProviderTypes' /\ NobodyAsks' /\ CountersArePast'
    BY <1>0, <1>1, <1>2, <1>5, <1>6, <1>8, <1>10
       DEF TokenPart, ProviderTypes, NobodyAsks, CountersArePast
  <2>2. ProviderFollows' /\ FetchFits'
    BY <1>0, <1>2, <1>5, <1>10 DEF TokenPart, ProviderFollows, FetchFits
  <2>3. WorkFits(workQ, sync_user, current_user)'
    BY <1>0, <1>10 DEF TokenPart
  <2>4. FetchesOf(fetches', c) = FetchesOf(fetches, c) \cup (IF h.close = c THEN {r} ELSE {})
    BY <1>5, <1>10 DEF FetchesOf
  <2>5. AsksOnce(fetches, mainQ, workQ, stream)'
    <3>1. CASE h.close = c
      <4>1. FetchesOf(fetches', c) = {r}
        BY <1>9, <2>4, <3>1
      <4> QED
        BY <1>9, <1>10, <3>1, <4>1 DEF AsksOnce, OnlyOne
    <3>2. CASE h.close # c
      <4>1. FetchesOf(fetches', c) = FetchesOf(fetches, c)
        BY <2>4, <3>2
      <4> QED
        BY <1>0, <1>10, <4>1, TailAsks DEF AsksPart, AsksOnce
    <3> QED
      BY <3>1, <3>2
  <2>6. NoneNewer(fetches, mainQ, workQ, stream.close)'
    BY <1>0, <1>5, <1>6, <1>10, TailAsks DEF AsksPart, NoneNewer
  <2> QED
    BY <1>7, <2>1, <2>2, <2>3, <2>5, <2>6 DEF TokenPart, AsksPart
<1>11. CASE h.counter = token_counter /\ workQ' = Append(workQ, o) /\ fetches' = fetches
  <2>0. /\ workQ' \in Seq(Operations) /\ Len(workQ) \in Nat
        /\ \A i \in 1..Len(workQ) : workQ'[i] = workQ[i]
        /\ workQ'[Len(workQ) + 1] = o
        /\ 1..Len(workQ') = (1..Len(workQ)) \cup {Len(workQ) + 1}
    BY <1>1, <1>4, <1>11, WorkQueueAppend
  <2>1. ProviderTypes' /\ NobodyAsks' /\ CountersArePast'
    BY <1>0, <1>1, <1>2, <1>6, <1>8, <1>11, <2>0
       DEF TokenPart, ProviderTypes, NobodyAsks, CountersArePast
  <2>2. ProviderFollows' /\ FetchFits'
    BY <1>0, <1>2, <1>11 DEF TokenPart, ProviderFollows, FetchFits
  <2>3. WorkFits(workQ, sync_user, current_user)'
    <3>1. h.uid \in {current_user, Failed}
      <4>1. 1 \in 1..Len(mainQ) /\ \A j \in 1..1-1 : mainQ[j].kind # "post"
        BY <1>2
      <4> QED
        BY <1>0, <1>2, <1>11, <4>1 DEF TokenPart, AnswerFits
    <3>2. WorkFits(Append(workQ, o), sync_user, current_user)
      BY <1>1, <1>4, <3>1, WorkAppend DEF TokenPart
    <3> QED
      BY <1>0, <1>11, <3>2
  <2>4. ResumesOf(workQ', c) = ResumesOf(workQ, c) \cup (IF h.close = c THEN {Len(workQ) + 1} ELSE {})
    BY <1>1, <1>4, <1>11, ResumesAppend
  <2>5. AsksOnce(fetches, mainQ, workQ, stream)'
    <3>1. CASE h.close = c
      <4>1. ResumesOf(workQ', c) = {Len(workQ) + 1}
        BY <1>9, <2>4, <3>1
      <4> QED
        BY <1>9, <1>11, <3>1, <4>1 DEF AsksOnce, OnlyOne
    <3>2. CASE h.close # c
      <4>1. ResumesOf(workQ', c) = ResumesOf(workQ, c)
        BY <2>4, <3>2
      <4> QED
        BY <1>0, <1>11, <4>1, TailAsks DEF AsksPart, AsksOnce
    <3> QED
      BY <3>1, <3>2
  <2>6. \A i \in 1..Len(workQ') : workQ'[i].op = "resume" => workQ'[i].close <= stream.close
    BY <1>4, <1>6, <2>0 DEF AsksPart, NoneNewer
  <2>7. NoneNewer(fetches, mainQ, workQ, stream.close)'
    BY <1>0, <1>11, <2>6, TailAsks DEF AsksPart, NoneNewer
  <2> QED
    BY <1>7, <2>1, <2>2, <2>3, <2>5, <2>7 DEF TokenPart, AsksPart
<1> QED
  BY <1>0, <1>10, <1>11

\* A step of the worker queue, or of the backend, after which the stream is s.
LEMMA WorkerKeepsTokens ==
  ASSUME TokenPart, AsksPart, up, NEW s, Becomes(s), s.close \in Nat, stream.close \in Nat,
         s.close >= stream.close,
         UNCHANGED <<up, user, current_user, token_counter, mainQ>>,
         \/ workQ' = workQ /\ sync_user' = sync_user
         \/ /\ workQ # <<>> /\ workQ' = Tail(workQ)
            /\ sync_user' = IF Head(workQ).op \in {"initialize", "credential"} THEN Head(workQ).uid
                            ELSE sync_user,
         s.close = stream.close /\ stream.state = "Starting" =>
           \/ s.state = "Starting"
           \/ /\ workQ # <<>> /\ workQ' = Tail(workQ)
              /\ Head(workQ).op = "resume" /\ Head(workQ).close = stream.close
  PROVE  TokenPart' /\ AsksPart'
<1> DEFINE r == Request(Unasked, s.close)
           asks == s.state = "Starting" /\ (stream.state # "Starting" \/ stream.close # s.close)
           c == s.close
<1>0. /\ stream' = s
      /\ fetches' = IF asks THEN fetches \cup {r} ELSE fetches
  BY DEF Becomes
<1>1. /\ mainQ \in Seq(Posts \cup Answers) /\ workQ \in Seq(Operations) /\ token_counter \in Nat
      /\ fetches \subseteq Fetches
  BY DEF TokenPart, ProviderTypes
<1>2. r \in Fetches /\ r.uid = Unasked /\ r.counter = token_counter /\ r.close = s.close
  BY <1>1 DEF Request, Fetches
<1> HIDE DEF r, asks
<1>3. /\ workQ' \in Seq(Operations)
      /\ WorkFits(workQ', sync_user', current_user)
      /\ \A i \in 1..Len(workQ') : workQ'[i].op = "resume" => workQ'[i].close <= stream.close
      /\ OnlyOne(ResumesOf(workQ', stream.close))
      /\ ResumesOf(workQ, stream.close) = {} => ResumesOf(workQ', stream.close) = {}
  <2>0. /\ WorkFits(workQ, sync_user, current_user)
        /\ \A i \in 1..Len(workQ) : workQ[i].op = "resume" => workQ[i].close <= stream.close
        /\ OnlyOne(ResumesOf(workQ, stream.close))
    BY DEF TokenPart, AsksPart, AsksOnce, NoneNewer
  <2>1. CASE workQ' = workQ /\ sync_user' = sync_user
    BY <1>1, <2>0, <2>1
  <2>2. CASE /\ workQ # <<>> /\ workQ' = Tail(workQ)
             /\ sync_user' = IF Head(workQ).op \in {"initialize", "credential"} THEN Head(workQ).uid
                             ELSE sync_user
    <3>1. /\ workQ' \in Seq(Operations) /\ Len(workQ) \in Nat /\ Len(workQ') = Len(workQ) - 1
          /\ \A i \in 1..Len(workQ) - 1 : workQ'[i] = workQ[i + 1]
      BY <1>1, <2>2
    <3>2. \A i \in 1..Len(workQ') : i + 1 \in 1..Len(workQ) /\ workQ'[i] = workQ[i + 1]
      BY <3>1
    <3>3. \A i \in 1..Len(workQ') : workQ'[i].op = "resume" => workQ'[i].close <= stream.close
      BY <2>0, <3>2
    <3>4. /\ OnlyOne(ResumesOf(workQ', stream.close))
          /\ ResumesOf(workQ, stream.close) = {} => ResumesOf(workQ', stream.close) = {}
      BY <1>1, <2>0, <2>2, ResumesTail
    <3>5. WorkFits(workQ', sync_user', current_user)
      BY <1>1, <2>0, <2>2, WorkTail
    <3> QED
      BY <3>1, <3>3, <3>4, <3>5
  <2> QED
    BY <2>1, <2>2
<1>4. ProviderTypes' /\ NobodyAsks' /\ CountersArePast' /\ ProviderFollows'
  <2>1. ProviderTypes'
    BY <1>0, <1>1, <1>2, <1>3 DEF TokenPart, ProviderTypes
  <2>2. CountersArePast'
    BY <1>0, <1>1, <1>2 DEF TokenPart, CountersArePast
  <2> QED
    BY <2>1, <2>2 DEF TokenPart, NobodyAsks, ProviderFollows
<1>5. FetchFits' /\ AnswerFits'
  BY <1>0, <1>2 DEF TokenPart, FetchFits, AnswerFits
<1>6. TokenPart'
  BY <1>3, <1>4, <1>5 DEF TokenPart
<1>7. NoneNewer(fetches, mainQ, workQ, stream.close)'
  <2>1. \A f \in fetches : f.close \in Nat /\ f.close <= stream.close
    BY <1>1 DEF AsksPart, NoneNewer, Fetches
  <2>2. \A f \in fetches' : f.close <= c
    BY <1>0, <1>2, <2>1
  <2>3. ASSUME NEW i \in 1..Len(mainQ), mainQ[i].kind = "token" PROVE mainQ[i].close <= c
    <3>1. mainQ[i].close \in Nat /\ mainQ[i].close <= stream.close
      BY <1>1, <2>3, KindFacts DEF AsksPart, NoneNewer
    <3> QED
      BY <3>1
  <2>4. ASSUME NEW i \in 1..Len(workQ'), workQ'[i].op = "resume" PROVE workQ'[i].close <= c
    <3>1. workQ'[i] \in Operations
      BY <1>3
    <3>2. workQ'[i].close \in Nat /\ workQ'[i].close <= stream.close
      BY <1>3, <2>4, <3>1 DEF Operations
    <3> QED
      BY <3>2
  <2> QED
    BY <1>0, <2>2, <2>3, <2>4 DEF NoneNewer
<1>8. ASSUME c # stream.close \/ stream.state # "Starting"
      PROVE  FetchesOf(fetches, c) = {} /\ AnswersOf(mainQ, c) = {} /\ ResumesOf(workQ', c) = {}
  <2>1. CASE c # stream.close
    <3>0. \A n \in Nat : n <= stream.close => n # c
      BY <2>1
    <3>1. FetchesOf(fetches, c) = {}
      BY <1>1, <3>0 DEF FetchesOf, AsksPart, NoneNewer, Fetches
    <3>2. AnswersOf(mainQ, c) = {}
      <4>1. ASSUME NEW i \in 1..Len(mainQ), mainQ[i].kind = "token" PROVE mainQ[i].close # c
        <5>1. mainQ[i].close \in Nat /\ mainQ[i].close <= stream.close
          BY <1>1, <4>1, KindFacts DEF AsksPart, NoneNewer
        <5> QED
          BY <3>0, <5>1
      <4> QED
        BY <4>1 DEF AnswersOf
    <3>3. ResumesOf(workQ', c) = {}
      <4>1. ASSUME NEW i \in 1..Len(workQ'), workQ'[i].op = "resume" PROVE workQ'[i].close # c
        <5>1. workQ'[i] \in Operations
          BY <1>3
        <5>2. workQ'[i].close \in Nat /\ workQ'[i].close <= stream.close
          BY <1>3, <4>1, <5>1 DEF Operations
        <5> QED
          BY <3>0, <5>2
      <4> QED
        BY <4>1 DEF ResumesOf
    <3> QED
      BY <3>1, <3>2, <3>3
  <2>2. CASE c = stream.close /\ stream.state # "Starting"
    BY <1>3, <2>2 DEF AsksPart, AsksOnce
  <2> QED
    BY <1>8, <2>1, <2>2
<1>9. AsksOnce(fetches, mainQ, workQ, stream)'
  <2>1. CASE asks
    <3>1. FetchesOf(fetches, c) = {} /\ AnswersOf(mainQ, c) = {} /\ ResumesOf(workQ', c) = {}
      BY <1>8, <2>1 DEF asks
    <3>2. FetchesOf(fetches', c) = {r}
      BY <1>0, <1>2, <2>1, <3>1 DEF FetchesOf
    <3>3. s.state = "Starting"
      BY <2>1 DEF asks
    <3> QED
      BY <1>0, <3>1, <3>2, <3>3 DEF AsksOnce, OnlyOne
  <2>2. CASE ~asks /\ (c # stream.close \/ stream.state # "Starting")
    <3>1. FetchesOf(fetches', c) = {} /\ AnswersOf(mainQ, c) = {} /\ ResumesOf(workQ', c) = {}
      BY <1>0, <1>8, <2>2
    <3> QED
      BY <1>0, <3>1 DEF AsksOnce, OnlyOne
  <2>3. CASE ~asks /\ c = stream.close /\ stream.state = "Starting"
    <3>1. CASE s.state = "Starting"
      <4>1. ResumesOf(workQ, c) = {} => ResumesOf(workQ', c) = {}
        BY <1>3, <2>3
      <4> QED
        BY <1>0, <1>3, <2>3, <3>1, <4>1 DEF AsksPart, AsksOnce
    <3>2. CASE /\ workQ # <<>> /\ workQ' = Tail(workQ)
               /\ Head(workQ).op = "resume" /\ Head(workQ).close = stream.close
      <4>1. ResumesOf(workQ, c) # {} /\ ResumesOf(workQ', c) = {}
        BY <1>1, <2>3, <3>2, ResumesTail DEF AsksPart, AsksOnce
      <4>2. FetchesOf(fetches, c) = {} /\ AnswersOf(mainQ, c) = {}
        BY <2>3, <4>1 DEF AsksPart, AsksOnce
      <4> QED
        BY <1>0, <2>3, <4>1, <4>2 DEF AsksOnce, OnlyOne
    <3> QED
      BY <2>3, <3>1, <3>2
  <2> QED
    BY <2>1, <2>2, <2>3
<1> QED
  BY <1>6, <1>7, <1>9 DEF AsksPart

\* The Firestore client is created.
LEMMA CreateKeepsTokens ==
  ASSUME AuthInv, TokenPart, AsksPart, CreateClient, UNCHANGED <<sync_user, stream>>
  PROVE  TokenPart' /\ AsksPart'
<1> DEFINE o == Op("initialize", Uid(user), 0)
<1>0. /\ ~up /\ up' /\ up' \in BOOLEAN /\ current_user' = Uid(user) /\ workQ' = <<o>>
      /\ UNCHANGED <<user, mainQ, token_counter, fetches>>
  BY DEF CreateClient, authVars
<1>1. fetches = {} /\ workQ = <<>> /\ \A i \in 1..Len(mainQ) : mainQ[i].kind = "post"
  BY <1>0 DEF TokenPart, NobodyAsks
<1>2. Uid(user) \in UserIds
  BY UidType DEF AuthInv, AuthTypeOK
<1>3. o \in Operations /\ o.op = "initialize" /\ o.uid = Uid(user)
  BY <1>2 DEF Op, Operations
<1> HIDE DEF o
<1>4. workQ' \in Seq(Operations) /\ Len(workQ') = 1 /\ workQ'[1] = o
  BY <1>0, <1>3
<1>5. ProviderTypes' /\ NobodyAsks'
  BY <1>0, <1>2, <1>4 DEF TokenPart, ProviderTypes, NobodyAsks
<1>6. CountersArePast' /\ ProviderFollows' /\ FetchFits' /\ AnswerFits'
  BY <1>0, <1>1 DEF CountersArePast, ProviderFollows, FetchFits, AnswerFits
<1>7. WorkFits(workQ', sync_user', current_user')
  <2>1. \A i \in 1..Len(workQ') : i = 1 /\ workQ'[i].op # "resume"
    BY <1>3, <1>4
  <2>2. ChangesAt(workQ', 1) /\ 1 \in 1..Len(workQ')
    BY <1>3, <1>4 DEF ChangesAt
  <2>3. ActsAs(workQ', sync_user', Len(workQ'), current_user')
    BY <1>0, <1>3, <1>4, <2>1, <2>2 DEF ActsAs
  <2> QED
    BY <2>1, <2>3 DEF WorkFits
<1>8. AsksPart'
  <2>1. \A i \in 1..Len(workQ') : workQ'[i].op # "resume"
    BY <1>3, <1>4
  <2>2. ResumesOf(workQ', stream.close) = {}
    BY <2>1 DEF ResumesOf
  <2>3. AnswersOf(mainQ', stream.close) = {} /\ FetchesOf(fetches', stream.close) = {}
    BY <1>0, <1>1 DEF AnswersOf, FetchesOf
  <2> QED
    BY <1>0, <1>1, <2>1, <2>2, <2>3 DEF AsksPart, AsksOnce, NoneNewer, OnlyOne
<1> QED
  BY <1>5, <1>6, <1>7, <1>8 DEF TokenPart

\* setData.
LEMMA SetDataKeepsTokens ==
  ASSUME TokenPart, AsksPart, SetData
  PROVE  TokenPart' /\ AsksPart'
<1> DEFINE o == Op("write", None, 0)
<1>0. /\ up /\ workQ' = Append(workQ, o)
      /\ UNCHANGED <<user, mainQ, up, current_user, token_counter, fetches, sync_user, stream>>
  BY DEF SetData, authVars, writeVars, clientVars
<1>1. workQ \in Seq(Operations)
  BY DEF TokenPart, ProviderTypes
<1>2. o \in Operations /\ o.op = "write"
  BY DEF Op, Operations, UserIds
<1> HIDE DEF o
<1>3. /\ workQ' \in Seq(Operations) /\ Len(workQ) \in Nat
      /\ \A i \in 1..Len(workQ) : workQ'[i] = workQ[i]
      /\ workQ'[Len(workQ) + 1] = o
      /\ 1..Len(workQ') = (1..Len(workQ)) \cup {Len(workQ) + 1}
  BY <1>0, <1>1, <1>2, WorkQueueAppend
<1>4. ProviderTypes' /\ NobodyAsks' /\ CountersArePast'
  BY <1>0, <1>3 DEF TokenPart, ProviderTypes, NobodyAsks, CountersArePast
<1>5. ProviderFollows' /\ FetchFits' /\ AnswerFits'
  BY <1>0 DEF TokenPart, ProviderFollows, FetchFits, AnswerFits
<1>6. WorkFits(workQ', sync_user', current_user')
  <2>1. WorkFits(Append(workQ, o), sync_user, current_user)
    BY <1>1, <1>2, WorkAppend DEF TokenPart
  <2> QED
    BY <1>0, <2>1
<1>7. ResumesOf(workQ', stream.close) = ResumesOf(workQ, stream.close)
  <2>1. ResumesOf(workQ', stream.close) = ResumesOf(workQ, stream.close) \cup
          (IF o.op = "resume" /\ o.close = stream.close THEN {Len(workQ) + 1} ELSE {})
    BY <1>0, <1>1, <1>2, ResumesAppend
  <2>2. ~(o.op = "resume" /\ o.close = stream.close)
    BY <1>2
  <2> QED
    BY <2>1, <2>2
<1>8. AsksPart'
  <2>1. AsksOnce(fetches, mainQ, workQ, stream)'
    BY <1>0, <1>7 DEF AsksPart, AsksOnce
  <2>2. NoneNewer(fetches, mainQ, workQ, stream.close)'
    BY <1>0, <1>2, <1>3 DEF AsksPart, NoneNewer
  <2> QED
    BY <2>1, <2>2 DEF AsksPart
<1> QED
  BY <1>4, <1>5, <1>6, <1>8 DEF TokenPart

\* A process that has just been launched.
LEMMA LaunchedTokens ==
  ASSUME up = FALSE, current_user = None, token_counter = 0, fetches = {}, workQ = <<>>,
         mainQ = <<>>, sync_user = None, stream = InitialStream
  PROVE  TokenPart /\ AsksPart
<1>0. <<>> \in Seq(Operations) /\ <<>> \in Seq(Posts \cup Answers)
  OBVIOUS
<1>1. ProviderTypes
  BY <1>0 DEF ProviderTypes, UserIds
<1>2. Len(workQ) = 0 /\ Len(mainQ) = 0 /\ 1..0 = {}
  OBVIOUS
<1>3. NobodyAsks /\ CountersArePast /\ ProviderFollows /\ FetchFits /\ AnswerFits
  BY <1>2 DEF NobodyAsks, CountersArePast, ProviderFollows, FetchFits, AnswerFits
<1>4. WorkFits(workQ, sync_user, current_user)
  BY <1>2 DEF WorkFits, ActsAs
<1>5. FetchesOf(fetches, stream.close) = {} /\ AnswersOf(mainQ, stream.close) = {}
      /\ ResumesOf(workQ, stream.close) = {}
  BY <1>2 DEF FetchesOf, AnswersOf, ResumesOf
<1>6. AsksPart
  BY <1>2, <1>5 DEF AsksPart, AsksOnce, NoneNewer, OnlyOne
<1> QED
  BY <1>1, <1>3, <1>4, <1>6 DEF TokenPart

\* The same after a restart.
LEMMA RelaunchedTokens ==
  ASSUME up' = FALSE, current_user' = None, token_counter' = 0, fetches' = {}, workQ' = <<>>,
         mainQ' = <<>>, sync_user' = None, stream' = InitialStream
  PROVE  TokenPart' /\ AsksPart'
<1>0. <<>> \in Seq(Operations) /\ <<>> \in Seq(Posts \cup Answers)
  OBVIOUS
<1>1. ProviderTypes'
  BY <1>0 DEF ProviderTypes, UserIds
<1>2. Len(workQ') = 0 /\ Len(mainQ') = 0 /\ 1..0 = {}
  OBVIOUS
<1>3. NobodyAsks' /\ CountersArePast' /\ ProviderFollows' /\ FetchFits' /\ AnswerFits'
  BY <1>2 DEF NobodyAsks, CountersArePast, ProviderFollows, FetchFits, AnswerFits
<1>4. WorkFits(workQ, sync_user, current_user)'
  BY <1>2 DEF WorkFits, ActsAs
<1>5. FetchesOf(fetches', stream'.close) = {} /\ AnswersOf(mainQ', stream'.close) = {}
      /\ ResumesOf(workQ', stream'.close) = {}
  BY <1>2 DEF FetchesOf, AnswersOf, ResumesOf
<1>6. AsksPart'
  BY <1>2, <1>5 DEF AsksPart, AsksOnce, NoneNewer, OnlyOne
<1> QED
  BY <1>1, <1>3, <1>4, <1>6 DEF TokenPart

-----------------------------------------------------------------------------
(* The queues on disk, the pipeline and the stream, step by step.          *)

\* FillWritePipeline keeps the pipeline the front of its queue and the stream in
\* step with it.
LEMMA FillKeeps ==
  ASSUME NEW s, NEW p, NEW q, NEW u, InOrder(q[u], u), IsFront(p, q[u]), Serves(s, p),
         FillWritePipeline(s, p, q, u)
  PROVE  /\ Serves(stream', pipeline') /\ IsFront(pipeline', q[u])
         /\ Becomes(stream')
         /\ stream'.close = s.close /\ stream'.uid = s.uid /\ stream'.received = s.received
         /\ stream'.state \in {s.state, "Starting", "Backoff"}
         /\ IsStarted(s) => stream'.state = s.state
<1> DEFINE new == NewlyPiped(p, q[u])
<1>1. pipeline' = p \o new /\ stream' = Fill(s, p, new) /\ Becomes(stream')
  BY DEF FillWritePipeline, Becomes
<1>2. new \in Seq(Batches) /\ IsFront(p \o new, q[u]) /\ p \in Seq(Batches)
  BY PipedFacts DEF IsFront
<1> HIDE DEF new
<1>3. /\ Serves(Fill(s, p, new), p \o new)
      /\ Fill(s, p, new).close = s.close /\ Fill(s, p, new).uid = s.uid
      /\ Fill(s, p, new).received = s.received
      /\ Fill(s, p, new).state \in {s.state, "Starting", "Backoff"}
      /\ IsStarted(s) => Fill(s, p, new).state = s.state
  BY <1>2, FillFacts
<1> QED
  BY <1>1, <1>2, <1>3

LEMMA EmptyFront ==
  ASSUME NEW q, NEW u, InOrder(q, u)
  PROVE  IsFront(<<>>, q)
<1>1. q \in Seq(Batches) /\ Len(q) \in Nat
  BY DEF InOrder
<1>2. <<>> \in Seq(Batches) /\ Len(<<>>) = 0
  OBVIOUS
<1> QED
  BY <1>1, <1>2, MaxPipelineAssumption DEF IsFront

\* The first batch of a queue is removed.
LEMMA RemoveQueue ==
  ASSUME OnDisk(queue, written), sync_user \in UserIds, IsFront(pipeline, queue[sync_user]),
         pipeline # <<>>, queue' = [queue EXCEPT ![sync_user] = Remove(@, pipeline[1])]
  PROVE  /\ OnDisk(queue', written) /\ queue'[sync_user] = Tail(queue[sync_user])
         /\ IsFront(Tail(pipeline), queue'[sync_user])
         /\ \A v \in UserIds : v # sync_user => queue'[v] = queue[v]
         /\ queue[sync_user] # <<>> /\ pipeline[1] = queue[sync_user][1]
         /\ Holds(queue[sync_user], pipeline[1])
<1> DEFINE u == sync_user
<1>1. queue \in [UserIds -> Seq(Batches)] /\ \A v \in UserIds : InOrder(queue[v], v)
  BY DEF OnDisk
<1>2. /\ queue[u] # <<>> /\ pipeline[1] = queue[u][1] /\ Holds(queue[u], pipeline[1])
      /\ Remove(queue[u], pipeline[1]) = Tail(queue[u])
      /\ InOrder(Tail(queue[u]), u) /\ IsFront(Tail(pipeline), Tail(queue[u]))
  BY <1>1, RemoveFacts
<1>3. /\ queue' \in [UserIds -> Seq(Batches)] /\ queue'[u] = Tail(queue[u])
      /\ \A v \in UserIds : v # u => queue'[v] = queue[v]
  <2>1. Tail(queue[u]) \in Seq(Batches)
    BY <1>2 DEF InOrder
  <2> QED
    BY <1>1, <1>2, <2>1
<1>4. ASSUME NEW v \in UserIds, NEW i \in 1..Len(queue'[v]) PROVE \E j \in 1..Len(queue[v]) : queue'[v][i] = queue[v][j]
  <2>1. CASE v # u
    BY <1>3, <2>1
  <2>2. CASE v = u
    <3>1. queue[u] \in Seq(Batches)
      BY <1>1
    <3>2. Len(queue[u]) \in Nat /\ Len(Tail(queue[u])) = Len(queue[u]) - 1
          /\ \A k \in 1..Len(queue[u]) - 1 : Tail(queue[u])[k] = queue[u][k + 1]
      BY <1>2, <3>1
    <3>3. i \in 1..Len(queue[u]) - 1
      BY <1>3, <2>2, <3>2
    <3>4. i + 1 \in 1..Len(queue[u])
      BY <3>2, <3>3
    <3>5. Tail(queue[u])[i] = queue[u][i + 1]
      BY <3>2, <3>3
    <3>6. queue'[v] = Tail(queue[u])
      BY <1>3, <2>2
    <3> QED
      BY <2>2, <3>4, <3>5, <3>6
  <2> QED
    BY <2>1, <2>2
<1>5. \A v \in UserIds : InOrder(queue'[v], v)
  BY <1>1, <1>2, <1>3
<1>6. \A v \in UserIds : \A i \in 1..Len(queue'[v]) : queue'[v][i].w <= written
  <2>1. \A v \in UserIds : \A i \in 1..Len(queue[v]) : queue[v][i].w <= written
    BY DEF OnDisk
  <2> QED
    BY <1>4, <2>1, ZenonT(30)
<1>7. \E m \in Nat : \A v \in UserIds : \A i \in 1..Len(queue'[v]) : queue'[v][i].id <= m
  <2>1. PICK m \in Nat : \A v \in UserIds : \A i \in 1..Len(queue[v]) : queue[v][i].id <= m
    BY DEF OnDisk
  <2> QED
    BY <1>4, <2>1, ZenonT(30)
<1> QED
  BY <1>2, <1>3, <1>5, <1>6, <1>7 DEF OnDisk

\* A new batch joins a queue.
LEMMA AppendQueue ==
  ASSUME OnDisk(queue, written), written \in Nat, sync_user \in UserIds,
         IsFront(pipeline, queue[sync_user]), NEW b \in Batches, b.user = sync_user,
         b.w = written + 1, \A i \in 1..Len(queue[sync_user]) : queue[sync_user][i].id < b.id,
         queue' = [queue EXCEPT ![sync_user] = Append(@, b)]
  PROVE  /\ OnDisk(queue', written + 1) /\ queue'[sync_user] = Append(queue[sync_user], b)
         /\ IsFront(pipeline, queue'[sync_user])
         /\ \A v \in UserIds : v # sync_user => queue'[v] = queue[v]
<1> DEFINE u == sync_user
<1>1. /\ queue \in [UserIds -> Seq(Batches)] /\ \A v \in UserIds : InOrder(queue[v], v)
      /\ \A v \in UserIds : \A i \in 1..Len(queue[v]) : queue[v][i].w <= written
  BY DEF OnDisk
<1>2. /\ queue' \in [UserIds -> Seq(Batches)] /\ queue'[u] = Append(queue[u], b)
      /\ \A v \in UserIds : v # u => queue'[v] = queue[v]
  BY <1>1
<1>3. \A v \in UserIds : \A i \in 1..Len(queue[v]) : queue[v][i].w \in Nat /\ queue[v][i].id \in Nat
  <2>1. \A v \in UserIds : \A i \in 1..Len(queue[v]) : queue[v][i] \in Batches
    BY <1>1
  <2> QED
    BY <2>1 DEF Batches, Numbers
<1>4. InOrder(queue'[u], u) /\ IsFront(pipeline, queue'[u])
  <2>1. \A i \in 1..Len(queue[u]) : queue[u][i].w < b.w
    BY <1>1, <1>3
  <2> QED
    BY <1>1, <1>2, <2>1, AppendInOrder
<1>5. ASSUME NEW v \in UserIds, NEW i \in 1..Len(queue'[v])
      PROVE  \/ queue'[v][i] = b
             \/ \E j \in 1..Len(queue[v]) : queue'[v][i] = queue[v][j]
  <2>1. CASE v # u
    BY <1>2, <2>1
  <2>2. CASE v = u
    <3>1. queue[u] \in Seq(Batches)
      BY <1>1
    <3>2. /\ Len(queue[u]) \in Nat /\ Len(queue'[u]) = Len(queue[u]) + 1 /\ queue'[u][Len(queue[u]) + 1] = b
          /\ \A k \in 1..Len(queue[u]) : queue'[u][k] = queue[u][k]
      BY <1>2, <3>1
    <3>3. i \in 1..Len(queue[u]) \/ i = Len(queue[u]) + 1
      BY <2>2, <3>2
    <3> QED
      BY <2>2, <3>2, <3>3
  <2> QED
    BY <2>1, <2>2
<1>6. \A v \in UserIds : \A i \in 1..Len(queue'[v]) : queue'[v][i].w <= written + 1
  <2> SUFFICES ASSUME NEW v \in UserIds, NEW i \in 1..Len(queue'[v]) PROVE queue'[v][i].w <= written + 1
    OBVIOUS
  <2>1. CASE queue'[v][i] = b
    BY <2>1
  <2>2. ASSUME NEW j \in 1..Len(queue[v]), queue'[v][i] = queue[v][j] PROVE queue'[v][i].w <= written + 1
    <3>1. queue[v][j].w \in Nat /\ queue[v][j].w <= written
      BY <1>1, <1>3
    <3> QED
      BY <2>2, <3>1
  <2> QED
    BY <1>5, <2>1, <2>2
<1>7. \E m \in Nat : \A v \in UserIds : \A i \in 1..Len(queue'[v]) : queue'[v][i].id <= m
  <2>1. PICK m \in Nat : \A v \in UserIds : \A i \in 1..Len(queue[v]) : queue[v][i].id <= m
    BY DEF OnDisk
  <2>2. b.id \in Nat /\ m + b.id \in Nat
    BY DEF Batches, Numbers
  <2>3. ASSUME NEW v \in UserIds, NEW i \in 1..Len(queue'[v]) PROVE queue'[v][i].id <= m + b.id
    <3>1. CASE queue'[v][i] = b
      BY <2>2, <3>1
    <3>2. ASSUME NEW j \in 1..Len(queue[v]), queue'[v][i] = queue[v][j] PROVE queue'[v][i].id <= m + b.id
      <4>1. queue[v][j].id \in Nat /\ queue[v][j].id <= m
        BY <1>3, <2>1
      <4> QED
        BY <2>2, <3>2, <4>1, SMTT(30)
    <3> QED
      BY <1>5, <3>1, <3>2
  <2> QED
    BY <2>2, <2>3
<1>8. \A v \in UserIds : InOrder(queue'[v], v)
  BY <1>1, <1>2, <1>4
<1> QED
  BY <1>2, <1>4, <1>6, <1>7, <1>8 DEF OnDisk

\* An operation of the worker queue is taken: from then on Initialize has run.
LEMMA TakeRuns ==
  ASSUME TokenPart, RunPart, workQ # <<>>, workQ' = Tail(workQ), UNCHANGED up
  PROVE  /\ up /\ Running' /\ RunPart'
         /\ Running <=> Head(workQ).op # "initialize"
         /\ Head(workQ) \in Operations
         /\ Head(workQ).op \in {"initialize", "credential"} => Head(workQ).uid \in UserIds
<1>1. workQ \in Seq(Operations)
  BY DEF TokenPart, ProviderTypes
<1>2. /\ Len(workQ) \in Nat /\ Len(workQ) > 0 /\ Len(workQ') = Len(workQ) - 1
      /\ Head(workQ) = workQ[1] /\ Head(workQ) \in Operations
      /\ \A i \in 1..Len(workQ) - 1 : workQ'[i] = workQ[i + 1]
  BY <1>1
<1>3. up
  BY DEF TokenPart, NobodyAsks
<1>4. Running <=> Head(workQ).op # "initialize"
  BY <1>2, <1>3 DEF Running
<1>5. \A i \in 1..Len(workQ') : i + 1 \in 2..Len(workQ) /\ i + 1 \in 1..Len(workQ) /\ workQ'[i] = workQ[i + 1]
  BY <1>2
<1>6. \A i \in 1..Len(workQ') : workQ'[i].op # "initialize" /\ (ChangesAt(workQ', i) => workQ'[i].uid \in UserIds)
  BY <1>5 DEF RunPart, ChangesAt
<1>7. Running'
  <2>1. workQ' # <<>> => 1 \in 1..Len(workQ')
    <3>1. workQ' \in Seq(Operations)
      BY <1>1
    <3> QED
      BY <3>1
  <2> QED
    BY <1>3, <1>6, <2>1 DEF Running
<1>8. RunPart'
  <2>1. \A i \in 2..Len(workQ') : i \in 1..Len(workQ')
    BY <1>2
  <2> QED
    BY <1>6, <1>7, <2>1 DEF RunPart
<1>9. Head(workQ).op \in {"initialize", "credential"} => Head(workQ).uid \in UserIds
  <2>1. 1 \in 1..Len(workQ)
    BY <1>2
  <2> QED
    BY <1>2, <2>1 DEF RunPart, ChangesAt
<1> QED
  BY <1>2, <1>3, <1>4, <1>7, <1>8, <1>9

\* An operation other than Initialize joins the worker queue.
LEMMA AppendRuns ==
  ASSUME TokenPart, RunPart, up, NEW o \in Operations, o.op # "initialize",
         o.op = "credential" => o.uid \in UserIds, workQ' = Append(workQ, o),
         UNCHANGED <<up, pipeline, stream>>
  PROVE  RunPart' /\ (Running' <=> Running)
<1>1. workQ \in Seq(Operations)
  BY DEF TokenPart, ProviderTypes
<1>2. /\ workQ' \in Seq(Operations) /\ Len(workQ) \in Nat /\ Len(workQ') = Len(workQ) + 1
      /\ \A i \in 1..Len(workQ) : workQ'[i] = workQ[i]
      /\ workQ'[Len(workQ) + 1] = o
      /\ 1..Len(workQ') = (1..Len(workQ)) \cup {Len(workQ) + 1}
  BY <1>1, WorkQueueAppend
<1>3. workQ' # <<>> /\ (workQ = <<>> => workQ'[1] = o) /\ (workQ # <<>> => workQ'[1] = workQ[1])
  <2>1. workQ = <<>> => Len(workQ) = 0
    OBVIOUS
  <2>2. workQ # <<>> => 1 \in 1..Len(workQ)
    BY <1>1
  <2>3. workQ' # <<>>
    BY <1>2
  <2> QED
    BY <1>2, <2>1, <2>2, <2>3
<1>4. Running' <=> Running
  BY <1>3 DEF Running
<1>5. ASSUME NEW i \in 1..Len(workQ')
      PROVE  /\ i >= 2 => workQ'[i].op # "initialize"
             /\ ChangesAt(workQ', i) => workQ'[i].uid \in UserIds
  <2>1. CASE i \in 1..Len(workQ)
    <3>1. i >= 2 => i \in 2..Len(workQ)
      BY <2>1
    <3> QED
      BY <1>2, <2>1, <3>1 DEF RunPart, ChangesAt
  <2>2. CASE i = Len(workQ) + 1
    BY <1>2, <2>2 DEF ChangesAt
  <2> QED
    BY <1>2, <2>1, <2>2
<1>6. \A i \in 2..Len(workQ') : i \in 1..Len(workQ') /\ i >= 2
  BY <1>2
<1> QED
  BY <1>4, <1>5, <1>6 DEF RunPart

LEMMA AuthSame ==
  ASSUME AuthInv, UNCHANGED authVars
  PROVE  AuthInv'
BY NextInv

\* A step that leaves the queues, the backend and the callers alone.
LEMMA BackendSame ==
  ASSUME BackendPart, UNCHANGED <<queue, callbacks, applied, refused, doc, acked, rejected, written>>,
         AnswersAreTrue'
  PROVE  BackendPart'
<1>1. BackendTypes'
  BY DEF BackendPart, BackendTypes
<1>2. AckedIsOlder' /\ AckedSurvives'
  BY DEF BackendPart, AckedIsOlder, AckedSurvives
<1>3. NoWriteLost' /\ CallbackIsOwn'
  BY DEF BackendPart, NoWriteLost, Queued, CallbackIsOwn
<1> QED
  BY <1>1, <1>2, <1>3 DEF BackendPart

LEMMA AnswersSame ==
  ASSUME BackendPart, UNCHANGED <<applied, refused, doc>>,
         \/ stream'.received = <<>>
         \/ stream'.received = stream.received /\ stream'.uid = stream.uid
  PROVE  AnswersAreTrue'
<1>1. CASE stream'.received = <<>>
  <2>1. 1..Len(stream'.received) = {}
    BY <1>1
  <2> QED
    BY <2>1 DEF AnswersAreTrue
<1>2. CASE stream'.received = stream.received /\ stream'.uid = stream.uid
  BY <1>2 DEF BackendPart, AnswersAreTrue
<1> QED
  BY <1>1, <1>2

\* A step of the worker queue, or of the backend, that leaves the queues on disk,
\* the backend's state and the callers alone.
LEMMA ClientStep ==
  ASSUME WriteInv, Becomes(stream'),
         UNCHANGED <<authVars, up, current_user, token_counter, queue, callbacks, serverVars,
                     written, acked, rejected>>,
         \/ workQ' = workQ /\ sync_user' = sync_user /\ next_batch_id' = next_batch_id /\ Running
         \/ /\ workQ # <<>> /\ workQ' = Tail(workQ)
            /\ sync_user' = IF Head(workQ).op \in {"initialize", "credential"} THEN Head(workQ).uid
                            ELSE sync_user
            /\ next_batch_id' \in Numbers
            /\ \A i \in 1..Len(queue[sync_user']) : queue[sync_user'][i].id < next_batch_id',
         Serves(stream', pipeline'), IsFront(pipeline', queue[sync_user']),
         IsOpen(stream') => stream'.uid = sync_user',
         stream'.close >= stream.close,
         stream'.close = stream.close /\ stream.state = "Starting" =>
           \/ stream'.state = "Starting"
           \/ /\ workQ # <<>> /\ workQ' = Tail(workQ)
              /\ Head(workQ).op = "resume" /\ Head(workQ).close = stream.close,
         AnswersAreTrue'
  PROVE  WriteInv'
<1> USE DEF WriteInv
<1>1. up /\ Running' /\ RunPart' /\ sync_user' \in UserIds /\ next_batch_id' \in Numbers
      /\ \A i \in 1..Len(queue[sync_user']) : queue[sync_user'][i].id < next_batch_id'
  <2>1. CASE workQ' = workQ /\ sync_user' = sync_user /\ next_batch_id' = next_batch_id /\ Running
    <3>1. up /\ Running'
      BY <2>1 DEF Running
    <3>2. RunPart'
      BY <2>1, <3>1 DEF RunPart, ChangesAt
    <3> QED
      BY <2>1, <3>1, <3>2 DEF QueuePart
  <2>2. CASE /\ workQ # <<>> /\ workQ' = Tail(workQ)
             /\ sync_user' = IF Head(workQ).op \in {"initialize", "credential"} THEN Head(workQ).uid
                             ELSE sync_user
             /\ next_batch_id' \in Numbers
             /\ \A i \in 1..Len(queue[sync_user']) : queue[sync_user'][i].id < next_batch_id'
    BY <2>2, TakeRuns DEF QueuePart
  <2> QED
    BY <2>1, <2>2
<1>2. stream.close \in Nat /\ stream'.close \in Nat
  BY DEF StreamPart, Serves, Streams
<1>3. UNCHANGED <<user, mainQ>>
  BY DEF authVars
<1>4. TokenPart' /\ AsksPart'
  BY <1>1, <1>2, <1>3, WorkerKeepsTokens
<1>5. QueuePart'
  BY <1>1 DEF QueuePart
<1>6. StreamPart'
  BY DEF StreamPart
<1>7. BackendPart'
  BY BackendSame DEF serverVars
<1>8. AuthInv'
  BY AuthSame
<1> QED
  BY <1>1, <1>4, <1>5, <1>6, <1>7, <1>8

\* What the parts of the invariant say about the client's state.
LEMMA ClientFacts ==
  ASSUME WriteInv
  PROVE  /\ Serves(stream, pipeline) /\ stream \in Streams /\ stream.close \in Nat
         /\ sync_user \in UserIds /\ written \in Nat /\ next_batch_id \in Numbers
         /\ OnDisk(queue, written) /\ \A u \in UserIds : InOrder(queue[u], u)
         /\ IsFront(pipeline, queue[sync_user]) /\ pipeline \in Seq(Batches)
         /\ LoadNextBatchId(queue) \in Numbers
         /\ \A u \in UserIds : \A i \in 1..Len(queue[u]) : queue[u][i].id < LoadNextBatchId(queue)
         /\ Running => \A i \in 1..Len(queue[sync_user]) : queue[sync_user][i].id < next_batch_id
<1>1. /\ Serves(stream, pipeline) /\ stream \in Streams /\ stream.close \in Nat
  BY DEF WriteInv, StreamPart, Serves, Streams
<1>2. /\ sync_user \in UserIds /\ written \in Nat /\ next_batch_id \in Numbers
      /\ OnDisk(queue, written) /\ IsFront(pipeline, queue[sync_user])
      /\ Running => \A i \in 1..Len(queue[sync_user]) : queue[sync_user][i].id < next_batch_id
  BY DEF WriteInv, QueuePart
<1>3. PICK m \in Nat : \A u \in UserIds : \A i \in 1..Len(queue[u]) : queue[u][i].id <= m
  BY <1>2 DEF OnDisk
<1>4. queue \in [UserIds -> Seq(Batches)] /\ \A u \in UserIds : InOrder(queue[u], u)
  BY <1>2 DEF OnDisk
<1>5. /\ LoadNextBatchId(queue) \in Numbers
      /\ \A u \in UserIds : \A i \in 1..Len(queue[u]) : queue[u][i].id < LoadNextBatchId(queue)
  BY <1>3, <1>4, LoadFacts
<1> QED
  BY <1>1, <1>2, <1>4, <1>5 DEF IsFront

\* The state of a stream that does anything.
LEMMA StartedRuns ==
  ASSUME WriteInv, stream.state # "Initial"
  PROVE  Running
BY DEF WriteInv, RunPart

\* RestartNetwork.
LEMMA RestartKeeps ==
  ASSUME WriteInv, NEW u \in UserIds, RestartNetwork(u)
  PROVE  /\ Serves(stream', pipeline') /\ IsFront(pipeline', queue[u])
         /\ Becomes(stream') /\ ~IsOpen(stream') /\ stream'.received = <<>>
         /\ stream'.close >= stream.close
         /\ ~(stream'.close = stream.close /\ stream.state = "Starting")
<1> DEFINE s == InhibitBackoff([Drop(Close(stream, TRUE)) EXCEPT !.handshake = FALSE])
<1>1. FillWritePipeline(s, <<>>, queue, u)
  BY DEF RestartNetwork
<1>2. /\ Quiet(s) /\ s.state = "Initial"
      /\ s.close = IF IsStarted(stream) THEN stream.close + 1 ELSE stream.close
  BY ClientFacts, StoppedFacts
<1> HIDE DEF s
<1>3. IsFront(<<>>, queue[u]) /\ InOrder(queue[u], u)
  BY ClientFacts, EmptyFront
<1>4. Serves(s, <<>>)
  BY <1>2, QuietServes DEF IsStarted
<1>5. /\ Serves(stream', pipeline') /\ IsFront(pipeline', queue[u]) /\ Becomes(stream')
      /\ stream'.close = s.close /\ stream'.received = s.received
      /\ stream'.state \in {s.state, "Starting", "Backoff"}
  BY <1>1, <1>3, <1>4, FillKeeps
<1>6. ~IsOpen(stream') /\ stream'.received = <<>>
  BY <1>2, <1>5 DEF IsOpen, Quiet
<1>7. /\ stream'.close >= stream.close
      /\ ~(stream'.close = stream.close /\ stream.state = "Starting")
  BY <1>2, <1>5, ClientFacts DEF IsStarted
<1> QED
  BY <1>5, <1>6, <1>7

\* Initialize.
LEMMA InitializeKeeps ==
  ASSUME WriteInv, Initialize
  PROVE  WriteInv'
<1>0. /\ workQ # <<>> /\ Head(workQ).op = "initialize" /\ workQ' = Tail(workQ)
      /\ UNCHANGED <<authVars, up, current_user, token_counter, queue, callbacks, serverVars,
                     written, acked, rejected>>
      /\ sync_user' = Head(workQ).uid /\ next_batch_id' = LoadNextBatchId(queue)
      /\ FillWritePipeline(stream, <<>>, queue, sync_user')
  BY DEF Initialize, Take, historyVars
<1>1. ~Running /\ sync_user' \in UserIds
  BY <1>0, TakeRuns DEF WriteInv
<1>2. pipeline = <<>> /\ stream.state = "Initial"
  BY <1>1 DEF WriteInv, RunPart
<1>3. IsFront(<<>>, queue[sync_user']) /\ InOrder(queue[sync_user'], sync_user')
  BY <1>1, ClientFacts, EmptyFront
<1>4. /\ Serves(stream', pipeline') /\ IsFront(pipeline', queue[sync_user']) /\ Becomes(stream')
      /\ stream'.close = stream.close /\ stream'.uid = stream.uid
      /\ stream'.received = stream.received
      /\ stream'.state \in {stream.state, "Starting", "Backoff"}
  BY <1>0, <1>2, <1>3, ClientFacts, FillKeeps
<1>5. ~IsOpen(stream') /\ stream'.close >= stream.close
  BY <1>2, <1>4, ClientFacts DEF IsOpen
<1>6. AnswersAreTrue'
  BY <1>0, <1>4, AnswersSame DEF WriteInv, serverVars
<1> QED
  BY <1>0, <1>1, <1>2, <1>4, <1>5, <1>6, ClientFacts, ClientStep

\* SyncEngine::HandleCredentialChange.
LEMMA CredentialKeeps ==
  ASSUME WriteInv, HandleCredentialChange
  PROVE  WriteInv'
<1>0. /\ workQ # <<>> /\ Head(workQ).op = "credential" /\ workQ' = Tail(workQ)
      /\ UNCHANGED <<authVars, up, current_user, token_counter, queue, callbacks, serverVars,
                     written, acked, rejected>>
      /\ sync_user' = Head(workQ).uid
      /\ next_batch_id' = IF sync_user' # sync_user THEN LoadNextBatchId(queue) ELSE next_batch_id
      /\ RestartNetwork(sync_user')
  BY DEF HandleCredentialChange, Take, historyVars
<1>1. Running /\ sync_user' \in UserIds
  BY <1>0, TakeRuns DEF WriteInv
<1>2. /\ Serves(stream', pipeline') /\ IsFront(pipeline', queue[sync_user'])
      /\ Becomes(stream') /\ ~IsOpen(stream') /\ stream'.received = <<>>
      /\ stream'.close >= stream.close
      /\ ~(stream'.close = stream.close /\ stream.state = "Starting")
  BY <1>0, <1>1, RestartKeeps
<1>3. /\ next_batch_id' \in Numbers
      /\ \A i \in 1..Len(queue[sync_user']) : queue[sync_user'][i].id < next_batch_id'
  BY <1>0, <1>1, ClientFacts
<1>4. AnswersAreTrue'
  BY <1>0, <1>2, AnswersSame DEF WriteInv, serverVars
<1> QED
  BY <1>0, <1>2, <1>3, <1>4, ClientStep

\* The callback of the connectivity monitor.
LEMMA ConnectivityKeeps ==
  ASSUME WriteInv, ConnectivityChanged
  PROVE  WriteInv'
<1>0. /\ UNCHANGED <<authVars, up, current_user, token_counter, workQ, sync_user, queue,
                     next_batch_id, callbacks, serverVars, written, acked, rejected>>
      /\ stream.state # "Initial" /\ RestartNetwork(sync_user)
  BY DEF ConnectivityChanged, historyVars
<1>1. Running
  BY <1>0, StartedRuns
<1>2. /\ Serves(stream', pipeline') /\ IsFront(pipeline', queue[sync_user])
      /\ Becomes(stream') /\ ~IsOpen(stream') /\ stream'.received = <<>>
      /\ stream'.close >= stream.close
      /\ ~(stream'.close = stream.close /\ stream.state = "Starting")
  BY <1>0, ClientFacts, RestartKeeps
<1>3. AnswersAreTrue'
  BY <1>0, <1>2, AnswersSame DEF WriteInv, serverVars
<1> QED
  BY <1>0, <1>1, <1>2, <1>3, ClientStep

\* The stream closes with an error and may wait to be started again.
LEMMA RetryKeeps ==
  ASSUME WriteInv, CloseAndRetry, IsStarted(stream)
  PROVE  /\ Becomes(stream') /\ Serves(stream', pipeline') /\ IsFront(pipeline', queue[sync_user'])
         /\ ~IsOpen(stream') /\ stream'.received = <<>> /\ stream'.close = stream.close + 1
         /\ UNCHANGED <<sync_user, queue, next_batch_id, pipeline, callbacks>>
<1> DEFINE closed == Drop(Close(stream, FALSE))
           again  == IF pipeline # <<>> /\ ~IsStarted(closed) THEN Start(closed) ELSE closed
           t == [again EXCEPT !.handshake = FALSE]
<1>1. Becomes(t) /\ UNCHANGED <<sync_user, queue, next_batch_id, pipeline, callbacks>>
  BY DEF CloseAndRetry
<1>2. /\ Quiet(t) /\ t.state \in {"Error", "Backoff"}
      /\ t.state = "Backoff" => pipeline # <<>>
      /\ t.close = stream.close + 1
  BY ClientFacts, RetriedFacts
<1> HIDE DEF t
<1>3. stream' = t
  BY <1>1 DEF Becomes
<1>4. Serves(t, pipeline)
  BY <1>2, QuietServes DEF IsStarted
<1> QED
  BY <1>1, <1>2, <1>3, <1>4, ClientFacts DEF Quiet

\* The stream fails.
LEMMA FailKeeps ==
  ASSUME WriteInv, StreamFails
  PROVE  WriteInv'
<1>0. /\ UNCHANGED <<authVars, up, current_user, token_counter, workQ, serverVars,
                     written, acked, rejected>>
      /\ IsOpen(stream) /\ CloseAndRetry
  BY DEF StreamFails, Worker
<1>1. Running /\ IsStarted(stream)
  BY <1>0, StartedRuns DEF IsOpen, IsStarted
<1>2. /\ Becomes(stream') /\ Serves(stream', pipeline') /\ IsFront(pipeline', queue[sync_user'])
      /\ ~IsOpen(stream') /\ stream'.received = <<>> /\ stream'.close = stream.close + 1
      /\ UNCHANGED <<sync_user, queue, next_batch_id, pipeline, callbacks>>
  BY <1>0, <1>1, RetryKeeps
<1>3. AnswersAreTrue'
  BY <1>0, <1>2, AnswersSame DEF WriteInv, serverVars
<1>4. stream'.close >= stream.close /\ stream'.close # stream.close
  BY <1>2, ClientFacts
<1> QED
  BY <1>0, <1>1, <1>2, <1>3, <1>4, ClientStep

\* A step that leaves the stream alone asks for no token.
LEMMA SameBecomes ==
  ASSUME stream'.state = stream.state, stream'.close = stream.close, UNCHANGED fetches
  PROVE  Becomes(stream')
BY DEF Becomes

\* A token at the head of the worker queue for the stream as it is: the stream
\* waits for it, and it is the acting user's.
LEMMA TokenArrives ==
  ASSUME WriteInv, workQ # <<>>, Head(workQ).op = "resume", Head(workQ).close = stream.close
  PROVE  /\ stream.state = "Starting"
         /\ Head(workQ).uid \in {sync_user, Failed}
<1>1. workQ \in Seq(Operations) /\ WorkFits(workQ, sync_user, current_user)
  BY DEF WriteInv, TokenPart, ProviderTypes
<1>2. 1 \in 1..Len(workQ) /\ Head(workQ) = workQ[1]
  BY <1>1
<1>3. 1 \in ResumesOf(workQ, stream.close)
  BY <1>2 DEF ResumesOf
<1>4. stream.state = "Starting"
  BY <1>3 DEF WriteInv, AsksPart, AsksOnce
<1>5. ASSUME workQ[1].uid # Failed PROVE workQ[1].uid = sync_user
  <2>1. ActsAs(workQ, sync_user, 1, workQ[1].uid)
    BY <1>1, <1>2, <1>5 DEF WorkFits
  <2>2. \A k \in 1..1 : ~ChangesAt(workQ, k)
    BY <1>2 DEF ChangesAt
  <2> QED
    BY <2>1, <2>2 DEF ActsAs
<1> QED
  BY <1>2, <1>4, <1>5

\* ResumeStartWithCredentials.
LEMMA ResumeKeeps ==
  ASSUME WriteInv, ResumeStartWithCredentials
  PROVE  WriteInv'
<1> DEFINE h == Head(workQ)
<1>0. /\ workQ # <<>> /\ h.op = "resume" /\ workQ' = Tail(workQ)
      /\ UNCHANGED <<authVars, up, current_user, token_counter, serverVars,
                     written, acked, rejected>>
  BY DEF ResumeStartWithCredentials, Take, historyVars
<1>1. Running
  BY <1>0, TakeRuns DEF WriteInv
<1>2. CASE h.close # stream.close /\ UNCHANGED <<fetches, clientVars>>
  <2>1. UNCHANGED <<sync_user, queue, next_batch_id, pipeline, callbacks, stream, fetches>>
    BY <1>2 DEF clientVars
  <2>2. Becomes(stream')
    BY <2>1, SameBecomes
  <2>3. AnswersAreTrue'
    BY <1>0, <2>1, AnswersSame DEF WriteInv, serverVars
  <2>4. /\ Serves(stream', pipeline') /\ IsFront(pipeline', queue[sync_user'])
        /\ stream'.close >= stream.close
        /\ IsOpen(stream') => stream'.uid = sync_user'
    BY <2>1, ClientFacts DEF WriteInv, StreamPart
  <2>5. /\ next_batch_id' \in Numbers
        /\ \A i \in 1..Len(queue[sync_user']) : queue[sync_user'][i].id < next_batch_id'
    BY <1>1, <2>1, ClientFacts
  <2> QED
    BY <1>0, <1>1, <2>1, <2>2, <2>3, <2>4, <2>5, ClientStep
<1>3. CASE h.close = stream.close /\ h.uid = Failed /\ CloseAndRetry
  <2>0. IsStarted(stream)
    BY <1>0, <1>3, TokenArrives DEF IsStarted
  <2>1. /\ Becomes(stream') /\ Serves(stream', pipeline') /\ IsFront(pipeline', queue[sync_user'])
        /\ ~IsOpen(stream') /\ stream'.received = <<>> /\ stream'.close = stream.close + 1
        /\ UNCHANGED <<sync_user, queue, next_batch_id, pipeline, callbacks>>
    BY <1>3, <2>0, RetryKeeps
  <2>2. AnswersAreTrue'
    BY <1>0, <2>1, AnswersSame DEF WriteInv, serverVars
  <2>3. stream'.close >= stream.close /\ stream'.close # stream.close
    BY <2>1, ClientFacts
  <2>4. /\ next_batch_id' \in Numbers
        /\ \A i \in 1..Len(queue[sync_user']) : queue[sync_user'][i].id < next_batch_id'
    BY <1>1, <2>1, ClientFacts
  <2> QED
    BY <1>0, <1>1, <2>1, <2>2, <2>3, <2>4, ClientStep
<1>4. CASE /\ h.close = stream.close /\ h.uid # Failed
           /\ LET open == ResumeStart(stream)
              IN  Becomes([HardAssert(open, ~open.handshake) EXCEPT !.uid = h.uid, !.sent = <<Hello>>])
           /\ UNCHANGED <<sync_user, queue, next_batch_id, pipeline, callbacks>>
  <2> DEFINE open == ResumeStart(stream)
             t == [HardAssert(open, ~open.handshake) EXCEPT !.uid = h.uid, !.sent = <<Hello>>]
  <2>1. Becomes(t)
    BY <1>4
  <2>2. stream.state = "Starting" /\ h.uid = sync_user /\ h.uid \in UserIds
    BY <1>0, <1>4, ClientFacts, TokenArrives
  <2>3. Serves(t, pipeline) /\ t.close = stream.close /\ t.uid = h.uid /\ t.received = <<>>
    <3>1. Serves(stream, pipeline)
      BY ClientFacts
    <3>2. ASSUME NEW v \in UserIds
          PROVE  LET r == [HardAssert(open, ~open.handshake) EXCEPT !.uid = v, !.sent = <<Hello>>]
                 IN  Serves(r, pipeline) /\ r.close = stream.close /\ r.uid = v /\ r.received = <<>>
      BY <2>2, <3>1, OpenedFacts, ZenonT(30)
    <3> QED
      BY <2>2, <3>2
  <2> HIDE DEF t
  <2>4. stream' = t
    BY <2>1 DEF Becomes
  <2>5. AnswersAreTrue'
    BY <1>0, <2>3, <2>4, AnswersSame DEF WriteInv, serverVars
  <2>6. stream'.close >= stream.close
    BY <2>3, <2>4, ClientFacts
  <2>7. /\ next_batch_id' \in Numbers /\ IsFront(pipeline', queue[sync_user'])
        /\ \A i \in 1..Len(queue[sync_user']) : queue[sync_user'][i].id < next_batch_id'
    BY <1>1, <1>4, ClientFacts
  <2>8. Becomes(stream') /\ Serves(stream', pipeline') /\ stream'.uid = sync_user'
    BY <1>4, <2>1, <2>2, <2>3, <2>4
  <2> QED
    BY <1>0, <1>1, <1>4, <2>5, <2>6, <2>7, <2>8, ClientStep
<1> QED
  BY <1>2, <1>3, <1>4 DEF ResumeStartWithCredentials

\* The back-off timer.
LEMMA BackoffKeeps ==
  ASSUME WriteInv, BackoffTimeout
  PROVE  WriteInv'
<1>0. /\ UNCHANGED <<authVars, up, current_user, token_counter, workQ, sync_user, queue,
                     next_batch_id, pipeline, callbacks, serverVars, written, acked, rejected>>
      /\ stream.state = "Backoff" /\ Becomes(BackoffElapsed(stream))
  BY DEF BackoffTimeout, Worker, historyVars
<1>1. Running
  BY <1>0, StartedRuns
<1>2. stream' = BackoffElapsed(stream) /\ Becomes(stream')
  BY <1>0 DEF Becomes
<1>3. Quiet(stream') /\ stream'.state = "Starting" /\ stream'.close = stream.close
  BY <1>0, <1>2, ClientFacts, ElapsedFacts
<1>4. pipeline # <<>>
  BY <1>0, ClientFacts DEF Serves, IsStarted, IsOpen
<1>5. Serves(stream', pipeline)
  BY <1>3, <1>4, QuietServes
<1>6. AnswersAreTrue'
  BY <1>0, <1>3, AnswersSame DEF WriteInv, serverVars, Quiet
<1>7. IsFront(pipeline', queue[sync_user']) /\ stream'.close >= stream.close /\ ~IsOpen(stream')
  BY <1>0, <1>3, ClientFacts DEF Quiet
<1> QED
  BY <1>0, <1>1, <1>2, <1>5, <1>6, <1>7, ClientStep

\* The idleness timer.
LEMMA IdleKeeps ==
  ASSUME WriteInv, IdleTimeout
  PROVE  WriteInv'
<1> DEFINE t == [HardAssert(Drop(Close(stream, TRUE)), pipeline = <<>>) EXCEPT !.handshake = FALSE]
<1>0. /\ UNCHANGED <<authVars, up, current_user, token_counter, workQ, sync_user, queue,
                     next_batch_id, pipeline, callbacks, serverVars, written, acked, rejected>>
      /\ stream.idle /\ Becomes(t)
  BY DEF IdleTimeout, Worker, historyVars
<1>1. Quiet(t) /\ t.state = "Initial" /\ t.close = stream.close + 1
  BY <1>0, ClientFacts, IdleFacts
<1> HIDE DEF t
<1>2. stream' = t
  BY <1>0 DEF Becomes
<1>3. Running
  <2>1. IsOpen(stream)
    BY <1>0, ClientFacts DEF Serves
  <2> QED
    BY <2>1, StartedRuns DEF IsOpen
<1>4. Serves(stream', pipeline)
  BY <1>1, <1>2, QuietServes DEF IsStarted
<1>5. AnswersAreTrue'
  BY <1>0, <1>1, <1>2, AnswersSame DEF WriteInv, serverVars, Quiet
<1>6. /\ IsFront(pipeline', queue[sync_user']) /\ stream'.close >= stream.close
      /\ stream'.close # stream.close /\ ~IsOpen(stream')
  BY <1>0, <1>1, <1>2, ClientFacts DEF Quiet
<1> QED
  BY <1>0, <1>2, <1>3, <1>4, <1>5, <1>6, ClientStep

\* OnWriteStreamHandshakeComplete.
LEMMA HandshakeKeeps ==
  ASSUME WriteInv, OnHandshake
  PROVE  WriteInv'
<1> DEFINE c == [stream EXCEPT !.received = Tail(@)]
           d == [HardAssert(c, ~stream.handshake) EXCEPT !.handshake = TRUE, !.sent = @ \o pipeline]
           t == CancelIdleCheck(d)
<1>0. /\ UNCHANGED <<authVars, up, current_user, token_counter, workQ, sync_user, queue,
                     next_batch_id, pipeline, callbacks, serverVars, written, acked, rejected>>
      /\ stream.received # <<>> /\ Head(stream.received).kind = "hello"
      /\ Becomes(IF pipeline = <<>> THEN d ELSE CancelIdleCheck(d))
  BY DEF OnHandshake, Receive, Received, Worker, historyVars
<1>1. /\ IsOpen(stream) /\ pipeline # <<>>
      /\ Serves(t, pipeline) /\ t.state = stream.state /\ t.close = stream.close
      /\ t.uid = stream.uid /\ t.received = <<>>
  BY <1>0, ClientFacts, HandshakeFacts, ZenonT(30)
<1>2. Becomes(t)
  BY <1>0, <1>1
<1> HIDE DEF t
<1>3. stream' = t
  BY <1>2 DEF Becomes
<1>4. Running
  BY <1>1, StartedRuns DEF IsOpen
<1>5. AnswersAreTrue'
  BY <1>0, <1>1, <1>3, AnswersSame DEF WriteInv, serverVars
<1>6. /\ IsFront(pipeline', queue[sync_user']) /\ stream'.close >= stream.close
      /\ stream'.uid = sync_user'
  BY <1>0, <1>1, <1>3, ClientFacts DEF WriteInv, StreamPart
<1>7. stream.state # "Starting"
  BY <1>1 DEF IsOpen
<1>8. Becomes(stream') /\ Serves(stream', pipeline')
  BY <1>0, <1>1, <1>2, <1>3
<1> QED
  BY <1>0, <1>4, <1>5, <1>6, <1>7, <1>8, ClientStep

\* The backend answers the handshake.
LEMMA ServerHandshakeKeeps ==
  ASSUME WriteInv, ServerHandshake
  PROVE  WriteInv'
<1> DEFINE t == [stream EXCEPT !.sent = Tail(@), !.received = Append(@, Hello)]
<1>0. /\ UNCHANGED <<authVars, up, current_user, token_counter, fetches, workQ, sync_user, queue,
                     next_batch_id, pipeline, callbacks, serverVars, written, acked, rejected>>
      /\ stream.sent # <<>> /\ Head(stream.sent).kind = "hello" /\ stream' = t
  BY DEF ServerHandshake, providerVars, historyVars
<1>1. /\ Serves(t, pipeline) /\ t.state = stream.state /\ t.close = stream.close
      /\ t.uid = stream.uid /\ t.received = <<Hello>>
  BY <1>0, ClientFacts, ServerHelloFacts
<1> HIDE DEF t
<1>2. IsOpen(stream)
  BY <1>0, ClientFacts DEF Serves
<1>3. Running /\ stream.state # "Starting"
  BY <1>2, StartedRuns DEF IsOpen
<1>4. Becomes(stream')
  BY <1>0, <1>1, SameBecomes
<1>5. AnswersAreTrue'
  <2>1. \A i \in 1..Len(stream'.received) : stream'.received[i].kind = "hello"
    BY <1>0, <1>1 DEF Hello
  <2> QED
    BY <2>1 DEF AnswersAreTrue
<1>6. /\ IsFront(pipeline', queue[sync_user']) /\ stream'.close >= stream.close
      /\ stream'.uid = sync_user'
  BY <1>0, <1>1, <1>2, ClientFacts DEF WriteInv, StreamPart
<1> QED
  BY <1>0, <1>1, <1>3, <1>4, <1>5, <1>6, ClientStep

\* The batches before and after the first one of user u has been removed.
LEMMA RemovedFirst ==
  ASSUME NEW u \in UserIds, queue \in [UserIds -> Seq(Batches)], queue[u] # <<>>,
         queue'[u] = Tail(queue[u]), \A v \in UserIds : v # u => queue'[v] = queue[v]
  PROVE  /\ \A v \in UserIds : \A i \in 1..Len(queue[v]) :
              (v = u /\ i = 1) \/ \E k \in 1..Len(queue'[v]) : queue'[v][k] = queue[v][i]
         /\ \A v \in UserIds : \A k \in 1..Len(queue'[v]) :
              \E i \in 1..Len(queue[v]) : queue'[v][k] = queue[v][i] /\ (v = u => i > 1)
<1>1. /\ Len(queue[u]) \in Nat /\ Len(queue[u]) > 0 /\ Len(queue'[u]) = Len(queue[u]) - 1
      /\ \A i \in 1..Len(queue[u]) - 1 : queue'[u][i] = queue[u][i + 1]
  <2>1. queue[u] \in Seq(Batches)
    OBVIOUS
  <2> QED
    BY <2>1
<1>2. ASSUME NEW i \in 1..Len(queue[u]), i # 1 PROVE \E k \in 1..Len(queue'[u]) : queue'[u][k] = queue[u][i]
  <2>1. i - 1 \in 1..Len(queue[u]) - 1 /\ i - 1 \in 1..Len(queue'[u]) /\ (i - 1) + 1 = i
    BY <1>1, <1>2
  <2>2. queue'[u][i - 1] = queue[u][i]
    BY <1>1, <2>1
  <2> QED
    BY <2>1, <2>2
<1>3. ASSUME NEW k \in 1..Len(queue'[u]) PROVE \E i \in 1..Len(queue[u]) : queue'[u][k] = queue[u][i] /\ i > 1
  <2>1. k + 1 \in 1..Len(queue[u]) /\ k + 1 > 1 /\ k \in 1..Len(queue[u]) - 1
    BY <1>1
  <2>2. queue'[u][k] = queue[u][k + 1]
    BY <1>1, <2>1
  <2> QED
    BY <2>1, <2>2
<1>4. ASSUME NEW v \in UserIds, NEW i \in 1..Len(queue[v])
      PROVE  (v = u /\ i = 1) \/ \E k \in 1..Len(queue'[v]) : queue'[v][k] = queue[v][i]
  <2>1. CASE v = u
    BY <1>2, <2>1
  <2>2. CASE v # u
    BY <2>2
  <2> QED
    BY <2>1, <2>2
<1>5. ASSUME NEW v \in UserIds, NEW k \in 1..Len(queue'[v])
      PROVE  \E i \in 1..Len(queue[v]) : queue'[v][k] = queue[v][i] /\ (v = u => i > 1)
  <2>1. CASE v = u
    BY <1>3, <2>1
  <2>2. CASE v # u
    BY <2>2
  <2> QED
    BY <2>1, <2>2
<1> QED
  BY <1>4, <1>5

\* The first batch of the pipeline is finished, and nobody is misled: the backend
\* has decided on it, and the callback told of it was its own.
LEMMA FinishBackend ==
  ASSUME WriteInv, pipeline # <<>>,
         queue' = [queue EXCEPT ![sync_user] = Remove(@, pipeline[1])],
         NotifyUser(pipeline[1]), UNCHANGED <<applied, refused, doc, written>>,
         pipeline[1].w \in applied \cup refused,
         \/ acked' = acked
         \/ /\ acked' = acked \cup {[user |-> sync_user, w |-> pipeline[1].w]}
            /\ pipeline[1].w \in applied /\ pipeline[1].w <= doc[sync_user],
         rejected' \subseteq rejected \cup {pipeline[1].w},
         AnswersAreTrue'
  PROVE  BackendPart'
<1> DEFINE u == sync_user
           b == pipeline[1]
<1>0. /\ u \in UserIds /\ OnDisk(queue, written) /\ IsFront(pipeline, queue[u]) /\ written \in Nat
      /\ queue \in [UserIds -> Seq(Batches)] /\ InOrder(queue[u], u)
  BY ClientFacts DEF OnDisk
<1>1. /\ queue'[u] = Tail(queue[u])
      /\ \A v \in UserIds : v # u => queue'[v] = queue[v]
      /\ queue[u] # <<>> /\ b = queue[u][1]
  BY <1>0, RemoveQueue
<1>2. /\ \A v \in UserIds : \A i \in 1..Len(queue[v]) :
           (v = u /\ i = 1) \/ \E k \in 1..Len(queue'[v]) : queue'[v][k] = queue[v][i]
      /\ \A v \in UserIds : \A k \in 1..Len(queue'[v]) :
           \E i \in 1..Len(queue[v]) : queue'[v][k] = queue[v][i] /\ (v = u => i > 1)
  BY <1>0, <1>1, RemovedFirst
<1>3. /\ \A v \in UserIds : DOMAIN queue[v] = 1..Len(queue[v]) /\ DOMAIN queue'[v] = 1..Len(queue'[v])
      /\ 1 \in 1..Len(queue[u]) /\ b \in Batches
  <2>1. \A v \in UserIds : queue[v] \in Seq(Batches)
    BY <1>0
  <2>2. queue'[u] \in Seq(Batches)
    BY <1>0, <1>1, <2>1
  <2>3. \A v \in UserIds : queue'[v] \in Seq(Batches)
    BY <1>1, <2>1, <2>2
  <2>4. 1 \in 1..Len(queue[u])
    BY <1>0, <1>1, <2>1
  <2>5. queue[u][1] \in Batches
    BY <1>0, <2>1, <2>4
  <2> QED
    BY <1>1, <2>1, <2>3, <2>4, <2>5
<1>4. b.w \in Numbers
  BY <1>3 DEF Batches
<1>5. BackendTypes'
  <2>1. callbacks' \subseteq callbacks
    BY DEF NotifyUser
  <2>2. b.w \in 1..written
    BY DEF WriteInv, BackendPart, BackendTypes
  <2>3. [user |-> sync_user, w |-> b.w] \in [user : UserIds, w : Numbers]
    BY <1>0, <1>4
  <2>4. acked' \subseteq [user : UserIds, w : Numbers]
    BY <2>3 DEF WriteInv, BackendPart, BackendTypes
  <2> QED
    BY <2>1, <2>2, <2>4 DEF WriteInv, BackendPart, BackendTypes
<1>6. AckedSurvives'
  BY DEF WriteInv, BackendPart, AckedSurvives
<1>7. AckedIsOlder'
  <2>1. ASSUME NEW a \in acked, NEW k \in 1..Len(queue'[a.user]) PROVE a.w < queue'[a.user][k].w
    <3>1. a.user \in UserIds
      BY DEF WriteInv, BackendPart, BackendTypes
    <3>2. PICK i \in 1..Len(queue[a.user]) : queue'[a.user][k] = queue[a.user][i]
      BY <1>2, <2>1, <3>1
    <3> QED
      BY <3>2 DEF WriteInv, BackendPart, AckedIsOlder
  <2>2. ASSUME NEW k \in 1..Len(queue'[u]) PROVE b.w < queue'[u][k].w
    <3>1. PICK i \in 1..Len(queue[u]) : queue'[u][k] = queue[u][i] /\ i > 1
      BY <1>0, <1>2, <2>2
    <3>2. queue[u][1].w < queue[u][i].w
      BY <1>0, <1>3, <3>1 DEF InOrder
    <3> QED
      BY <1>1, <3>1, <3>2
  <2>3. CASE acked' = acked
    BY <2>1, <2>3 DEF AckedIsOlder
  <2>4. CASE acked' = acked \cup {[user |-> sync_user, w |-> pipeline[1].w]}
    BY <2>1, <2>2, <2>4 DEF AckedIsOlder
  <2> QED
    BY <2>3, <2>4
<1>8. NoWriteLost'
  <2> SUFFICES ASSUME NEW w \in 1..written PROVE Queued(w)' \/ w \in applied \cup refused
    BY DEF NoWriteLost
  <2>1. CASE Queued(w)
    <3>0. PICK v \in UserIds : \E i \in DOMAIN queue[v] : queue[v][i].w = w
      BY <2>1 DEF Queued
    <3>1. PICK i \in 1..Len(queue[v]) : queue[v][i].w = w
      BY <1>3, <3>0
    <3>2. CASE v = u /\ i = 1
      BY <1>1, <3>1, <3>2
    <3>3. ASSUME NEW k \in 1..Len(queue'[v]), queue'[v][k] = queue[v][i] PROVE Queued(w)'
      BY <1>3, <3>1, <3>3 DEF Queued
    <3> QED
      BY <1>2, <3>1, <3>2, <3>3
  <2>2. CASE w \in applied \cup refused
    BY <2>2
  <2> QED
    BY <2>1, <2>2 DEF WriteInv, BackendPart, NoWriteLost
<1>9. CallbackIsOwn'
  <2> SUFFICES ASSUME NEW c \in callbacks'
               PROVE  \E k \in DOMAIN queue'[c.user] :
                        queue'[c.user][k].id = c.id /\ queue'[c.user][k].w = c.w
    BY DEF CallbackIsOwn
  <2>1. c \in callbacks /\ ~(c.user = u /\ c.id = b.id)
    BY DEF NotifyUser
  <2>2. c.user \in UserIds
    BY <2>1 DEF WriteInv, BackendPart, BackendTypes
  <2>3. PICK i \in 1..Len(queue[c.user]) : queue[c.user][i].id = c.id /\ queue[c.user][i].w = c.w
    BY <1>3, <2>1, <2>2 DEF WriteInv, BackendPart, CallbackIsOwn
  <2>4. ~(c.user = u /\ i = 1)
    BY <1>1, <2>1, <2>3
  <2>5. PICK k \in 1..Len(queue'[c.user]) : queue'[c.user][k] = queue[c.user][i]
    BY <1>2, <2>2, <2>4
  <2> QED
    BY <1>3, <2>2, <2>3, <2>5
<1> QED
  BY <1>5, <1>6, <1>7, <1>8, <1>9 DEF BackendPart

\* FinishFront, with the stream left as s before the pipeline is filled again.
LEMMA FinishKeeps ==
  ASSUME WriteInv, Running, pipeline # <<>>, NEW s, FinishFront(s),
         UNCHANGED <<authVars, up, current_user, token_counter, workQ, sync_user, next_batch_id,
                     serverVars, written>>,
         Serves(s, Tail(pipeline)), IsOpen(s) => s.uid = sync_user,
         s.close >= stream.close, s.close = stream.close => stream.state # "Starting",
         \/ s.received = <<>>
         \/ /\ s.received = Tail(stream.received) /\ s.uid = stream.uid
            /\ stream.received # <<>> /\ stream.received \in Seq(Replies),
         pipeline[1].w \in applied \cup refused,
         \/ acked' = acked
         \/ /\ acked' = acked \cup {[user |-> sync_user, w |-> pipeline[1].w]}
            /\ pipeline[1].w \in applied /\ pipeline[1].w <= doc[sync_user],
         rejected' \subseteq rejected \cup {pipeline[1].w}
  PROVE  WriteInv'
<1> DEFINE checked == HardAssert(s, Holds(queue[sync_user], pipeline[1]))
<1>0. /\ queue' = [queue EXCEPT ![sync_user] = Remove(@, pipeline[1])]
      /\ NotifyUser(pipeline[1])
      /\ FillWritePipeline(checked, Tail(pipeline), queue', sync_user)
  BY DEF FinishFront
<1>1. /\ OnDisk(queue', written) /\ IsFront(Tail(pipeline), queue'[sync_user])
      /\ Holds(queue[sync_user], pipeline[1])
      /\ queue'[sync_user] = Tail(queue[sync_user]) /\ queue[sync_user] # <<>>
      /\ \A v \in UserIds : v # sync_user => queue'[v] = queue[v]
  BY <1>0, ClientFacts, RemoveQueue
<1>2. checked = s
  <2>1. s \in Streams /\ s.ok
    BY DEF Serves
  <2> QED
    BY <1>1, <2>1, AssertFacts
<1> HIDE DEF checked
<1>3. InOrder(queue'[sync_user], sync_user)
  BY <1>1, ClientFacts DEF OnDisk
<1>4. FillWritePipeline(s, Tail(pipeline), queue', sync_user)
  BY <1>0, <1>2
<1>5. /\ Serves(stream', pipeline') /\ IsFront(pipeline', queue'[sync_user])
      /\ Becomes(stream')
      /\ stream'.close = s.close /\ stream'.uid = s.uid /\ stream'.received = s.received
      /\ stream'.state \in {s.state, "Starting", "Backoff"}
      /\ IsStarted(s) => stream'.state = s.state
  BY <1>1, <1>3, <1>4, FillKeeps
<1>6. Running' /\ RunPart'
  <2>1. Running' /\ up
    BY DEF Running
  <2> QED
    BY <2>1 DEF WriteInv, RunPart, ChangesAt
<1>7. TokenPart' /\ AsksPart'
  <2>1. up /\ stream.close \in Nat /\ stream'.close \in Nat
    <3>1. stream' \in Streams
      BY <1>5 DEF Serves
    <3> QED
      BY <3>1, ClientFacts DEF Running, Streams
  <2>2. UNCHANGED <<user, mainQ>>
    BY DEF authVars
  <2> QED
    BY <1>5, <2>1, <2>2, WorkerKeepsTokens DEF WriteInv
<1>8. QueuePart'
  <2>1. ASSUME NEW k \in 1..Len(queue'[sync_user]) PROVE queue'[sync_user][k].id < next_batch_id
    <3>1. queue \in [UserIds -> Seq(Batches)] /\ sync_user \in UserIds
      BY ClientFacts DEF OnDisk
    <3>2. PICK i \in 1..Len(queue[sync_user]) : queue'[sync_user][k] = queue[sync_user][i]
      BY <1>1, <3>1, RemovedFirst
    <3> QED
      BY <3>2, ClientFacts
  <2> QED
    BY <1>1, <1>5, <2>1, ClientFacts DEF QueuePart
<1>9. StreamPart'
  <2>1. IsOpen(stream') => IsOpen(s)
    BY <1>5 DEF IsOpen, IsStarted
  <2> QED
    BY <1>5, <2>1 DEF StreamPart
<1>10. AnswersAreTrue'
  <2>0. UNCHANGED <<applied, refused, doc>>
    BY DEF serverVars
  <2>1. CASE s.received = <<>>
    BY <1>5, <2>0, <2>1, AnswersSame DEF WriteInv
  <2>2. CASE /\ s.received = Tail(stream.received) /\ s.uid = stream.uid
             /\ stream.received # <<>> /\ stream.received \in Seq(Replies)
    <3> DEFINE r == stream.received
    <3>1. /\ Len(r) \in Nat /\ Len(Tail(r)) = Len(r) - 1
          /\ \A i \in 1..Len(r) - 1 : Tail(r)[i] = r[i + 1]
      BY <2>2
    <3>2. stream'.received = Tail(r) /\ stream'.uid = stream.uid
      BY <1>5, <2>2
    <3> HIDE DEF r
    <3>3. \A i \in 1..Len(Tail(r)) : i + 1 \in 1..Len(r) /\ Tail(r)[i] = r[i + 1]
      BY <3>1
    <3>4. \A i \in 1..Len(r) :
            /\ r[i].kind = "ack" => r[i].w \in applied /\ r[i].w <= doc[stream.uid]
            /\ r[i].kind = "refused" => r[i].w \in refused
      BY DEF WriteInv, BackendPart, AnswersAreTrue, r
    <3>5. \A i \in 1..Len(Tail(r)) :
            /\ Tail(r)[i].kind = "ack" => Tail(r)[i].w \in applied /\ Tail(r)[i].w <= doc[stream.uid]
            /\ Tail(r)[i].kind = "refused" => Tail(r)[i].w \in refused
      BY <3>3, <3>4
    <3> QED
      BY <2>0, <3>2, <3>5 DEF AnswersAreTrue
  <2> QED
    BY <2>1, <2>2
<1>11. BackendPart'
  BY <1>0, <1>10, FinishBackend DEF serverVars
<1>12. AuthInv'
  BY AuthSame DEF WriteInv
<1> QED
  BY <1>6, <1>7, <1>8, <1>9, <1>11, <1>12 DEF WriteInv

\* An answer about a batch that was read is what the backend decided.
LEMMA AnswerIsTrue ==
  ASSUME WriteInv, NEW i \in 1..Len(stream.received)
  PROVE  LET r == stream.received[i]
         IN  /\ r.kind = "ack" => r.w \in applied /\ r.w <= doc[stream.uid]
             /\ r.kind = "refused" => r.w \in refused
BY DEF WriteInv, BackendPart, AnswersAreTrue

\* OnWriteStreamMutationResult.
LEMMA AckKeeps ==
  ASSUME WriteInv, OnMutationResult
  PROVE  WriteInv'
<1> DEFINE r == stream.received
           t == [stream EXCEPT !.received = Tail(@)]
           w == pipeline[1].w
<1>0. /\ UNCHANGED <<authVars, up, current_user, token_counter, workQ, sync_user, next_batch_id,
                     serverVars, written, rejected>>
      /\ r # <<>> /\ Head(r).kind = "ack"
      /\ pipeline # <<>> => /\ FinishFront(t)
                            /\ acked' = acked \cup {[user |-> sync_user, w |-> w]}
  BY DEF OnMutationResult, Receive, Received, Worker
<1>1. /\ IsOpen(stream) /\ pipeline # <<>> /\ r \in Seq(Replies) /\ Head(r) = r[1]
      /\ Head(r).w = w /\ Serves(t, Tail(pipeline)) /\ t.close = stream.close
      /\ t.uid = stream.uid /\ t.received = Tail(r)
  BY <1>0, ClientFacts, ReadServes
<1> HIDE DEF t
<1>2. Running /\ stream.state # "Starting"
  BY <1>1, StartedRuns DEF IsOpen
<1>3. stream.uid = sync_user
  BY <1>1 DEF WriteInv, StreamPart
<1>4. w \in applied /\ w <= doc[sync_user]
  <2>1. 1 \in 1..Len(r)
    BY <1>0, <1>1
  <2> QED
    BY <1>0, <1>1, <1>3, <2>1, AnswerIsTrue
<1>5. t.close >= stream.close
  BY <1>1, ClientFacts
<1>6. rejected' \subseteq rejected \cup {w}
  BY <1>0
<1> HIDE DEF w, r
<1> QED
  BY <1>0, <1>1, <1>2, <1>3, <1>4, <1>5, <1>6, FinishKeeps DEF w, r

\* HandleWriteError for a permanent error, when the backend has decided on the
\* first batch of the pipeline.
LEMMA RejectKeeps ==
  ASSUME WriteInv, IsOpen(stream), pipeline # <<>>, RejectFront,
         UNCHANGED <<authVars, up, current_user, token_counter, workQ, serverVars, written, acked>>,
         pipeline[1].w \in applied \cup refused
  PROVE  WriteInv'
<1> DEFINE s == [InhibitBackoff(Drop(Close(stream, FALSE))) EXCEPT !.handshake = FALSE]
<1>0. /\ FinishFront(s) /\ rejected' = rejected \cup {pipeline[1].w}
      /\ UNCHANGED <<sync_user, next_batch_id>>
  BY DEF RejectFront
<1>1. Running /\ IsStarted(stream)
  BY StartedRuns DEF IsOpen, IsStarted
<1>2. Quiet(s) /\ s.state = "Initial" /\ s.close = stream.close + 1
  BY <1>1, ClientFacts, RejectedFacts
<1> HIDE DEF s
<1>3. Serves(s, Tail(pipeline))
  BY <1>2, QuietServes DEF IsStarted
<1>4. s.close >= stream.close /\ s.close # stream.close /\ s.received = <<>> /\ ~IsOpen(s)
  BY <1>2, ClientFacts DEF Quiet
<1> QED
  BY <1>0, <1>1, <1>3, <1>4, FinishKeeps

\* The status of the closed stream.
LEMMA RefusedKeeps ==
  ASSUME WriteInv, OnRefused
  PROVE  WriteInv'
<1> DEFINE r == stream.received
<1>0. /\ UNCHANGED <<authVars, up, current_user, token_counter, workQ, serverVars, written, acked>>
      /\ r # <<>> /\ Head(r).kind = "refused"
      /\ pipeline # <<>> => RejectFront
  BY DEF OnRefused, Receive, Worker
<1>1. /\ IsOpen(stream) /\ pipeline # <<>> /\ r \in Seq(Replies) /\ Head(r) = r[1]
      /\ Head(r).w = pipeline[1].w
  BY <1>0, ClientFacts, ReadServes
<1>2. pipeline[1].w \in refused
  <2>1. 1 \in 1..Len(r)
    BY <1>0, <1>1
  <2> QED
    BY <1>0, <1>1, <2>1, AnswerIsTrue
<1> HIDE DEF r
<1> QED
  BY <1>0, <1>1, <1>2, RejectKeeps

\* The status overtakes answers: they are lost, but not what they say.
LEMMA WriteFailedKeeps ==
  ASSUME WriteInv, OnWriteFailed
  PROVE  WriteInv'
<1> DEFINE r == stream.received
<1>0. /\ UNCHANGED <<authVars, up, current_user, token_counter, workQ, serverVars, written, acked>>
      /\ pipeline # <<>> /\ RejectFront
      /\ \E i \in DOMAIN r : i > 1 /\ r[i].kind = "refused"
  BY DEF OnWriteFailed, Worker
<1>1. r \in Seq(Replies)
  BY ClientFacts DEF Streams
<1>2. Len(r) \in Nat /\ Len(r) > 1 /\ 1 \in 1..Len(r)
  BY <1>0, <1>1
<1>3. IsOpen(stream)
  BY <1>2, ClientFacts DEF Serves
<1>4. stream.handshake
  <2>1. Len(<<>>) = 0 /\ Len(<<Hello>>) = 1
    OBVIOUS
  <2>2. Len(r) # 0 /\ Len(r) # 1
    <3>1. \A n \in Nat : n > 1 => n # 0 /\ n # 1
      OBVIOUS
    <3> HIDE DEF r
    <3> QED
      BY <1>2, <3>1, Zenon
  <2>3. r # <<>> /\ r # <<Hello>>
    BY <2>1, <2>2, Zenon
  <2> QED
    BY <1>3, <2>3, ClientFacts DEF Serves
<1>5. r[1].kind \in {"ack", "refused"} /\ r[1].w = pipeline[1].w
  BY <1>2, <1>4, ClientFacts DEF Serves, InFlight
<1>6. pipeline[1].w \in applied \cup refused
  BY <1>2, <1>5, AnswerIsTrue
<1> HIDE DEF r
<1> QED
  BY <1>0, <1>3, <1>6, RejectKeeps

\* The queues and the callers when a new batch has joined the queue.
LEMMA WriteBackend ==
  ASSUME WriteInv, Running, NEW b, b = Batch(next_batch_id, written + 1, sync_user),
         queue' = [queue EXCEPT ![sync_user] = Append(@, b)],
         \/ callbacks' = callbacks
         \/ callbacks' = callbacks \cup {[user |-> sync_user, id |-> b.id, w |-> b.w]},
         written' = written + 1, UNCHANGED <<applied, refused, doc, acked, rejected>>,
         AnswersAreTrue'
  PROVE  BackendPart'
<1> DEFINE u == sync_user
<1>0. /\ u \in UserIds /\ written \in Nat /\ next_batch_id \in Numbers
      /\ queue \in [UserIds -> Seq(Batches)]
  BY ClientFacts DEF OnDisk
<1>1. /\ b \in Batches /\ b.id = next_batch_id /\ b.w = written + 1 /\ b.user = u
      /\ b.id \in Numbers /\ b.w \in Numbers
  BY <1>0 DEF Batch, Batches, Numbers
<1>2. /\ queue'[u] = Append(queue[u], b) /\ \A v \in UserIds : v # u => queue'[v] = queue[v]
      /\ queue' \in [UserIds -> Seq(Batches)]
  BY <1>0, <1>1
<1>3. /\ Len(queue[u]) \in Nat /\ Len(queue'[u]) = Len(queue[u]) + 1
      /\ queue'[u][Len(queue[u]) + 1] = b
      /\ \A i \in 1..Len(queue[u]) : queue'[u][i] = queue[u][i]
  <2>1. queue[u] \in Seq(Batches)
    BY <1>0
  <2> QED
    BY <1>1, <1>2, <2>1
<1>4. Len(queue[u]) + 1 \in 1..Len(queue'[u])
      /\ 1..Len(queue'[u]) = (1..Len(queue[u])) \cup {Len(queue[u]) + 1}
  BY <1>3
<1>5. \A v \in UserIds : DOMAIN queue[v] = 1..Len(queue[v]) /\ DOMAIN queue'[v] = 1..Len(queue'[v])
  <2>1. \A v \in UserIds : queue[v] \in Seq(Batches) /\ queue'[v] \in Seq(Batches)
    BY <1>0, <1>2
  <2> QED
    BY <2>1
<1>6. \A v \in UserIds : \A i \in 1..Len(queue[v]) :
        i \in 1..Len(queue'[v]) /\ queue'[v][i] = queue[v][i]
  BY <1>2, <1>3, <1>4
<1>7. BackendTypes'
  <2>1. 1..written \subseteq 1..(written + 1) /\ 0..written \subseteq 0..(written + 1)
    BY <1>0
  <2>2. applied' \subseteq 1..written' /\ refused' \subseteq 1..written' /\ rejected' \subseteq 1..written'
    BY <2>1 DEF WriteInv, BackendPart, BackendTypes
  <2>3. doc' \in [UserIds -> 0..written']
    <3>1. doc \in [UserIds -> 0..written]
      BY DEF WriteInv, BackendPart, BackendTypes
    <3>2. \A v \in UserIds : doc[v] \in 0..(written + 1)
      BY <2>1, <3>1
    <3>3. doc \in [UserIds -> 0..(written + 1)]
      BY <3>1, <3>2
    <3> QED
      BY <3>3
  <2>4. [user |-> sync_user, id |-> b.id, w |-> b.w] \in [user : UserIds, id : Numbers, w : Numbers]
    BY <1>0, <1>1
  <2>5. callbacks' \subseteq [user : UserIds, id : Numbers, w : Numbers]
    BY <2>4 DEF WriteInv, BackendPart, BackendTypes
  <2>6. acked' \subseteq [user : UserIds, w : Numbers]
    BY DEF WriteInv, BackendPart, BackendTypes
  <2> QED
    BY <2>2, <2>3, <2>5, <2>6 DEF BackendTypes
<1>8. AckedSurvives'
  BY DEF WriteInv, BackendPart, AckedSurvives
<1>9. AckedIsOlder'
  <2> SUFFICES ASSUME NEW a \in acked, NEW i \in 1..Len(queue'[a.user]) PROVE a.w < queue'[a.user][i].w
    BY DEF AckedIsOlder
  <2>1. a.user \in UserIds /\ a.w \in 1..written
    BY DEF WriteInv, BackendPart, BackendTypes, AckedSurvives
  <2>2. CASE i \in 1..Len(queue[a.user])
    <3>1. a.w < queue[a.user][i].w
      BY <2>2 DEF WriteInv, BackendPart, AckedIsOlder
    <3> QED
      BY <1>6, <2>1, <2>2, <3>1
  <2>3. CASE a.user = u /\ i = Len(queue[u]) + 1
    <3>1. queue'[a.user][i].w = written + 1
      BY <1>1, <1>3, <2>3
    <3> QED
      BY <1>0, <2>1, <3>1
  <2>4. a.user # u => i \in 1..Len(queue[a.user])
    BY <1>2, <2>1
  <2> QED
    BY <1>4, <2>2, <2>3, <2>4
<1>10. NoWriteLost'
  <2> SUFFICES ASSUME NEW w \in 1..written + 1 PROVE Queued(w)' \/ w \in applied \cup refused
    BY DEF NoWriteLost
  <2>1. CASE w = written + 1
    BY <1>0, <1>1, <1>3, <1>4, <1>5, <2>1 DEF Queued
  <2>2. CASE w \in 1..written
    <3>1. Queued(w) => Queued(w)'
      BY <1>5, <1>6 DEF Queued
    <3> QED
      BY <2>2, <3>1 DEF WriteInv, BackendPart, NoWriteLost
  <2>3. w = written + 1 \/ w \in 1..written
    BY <1>0
  <2> QED
    BY <2>1, <2>2, <2>3
<1>11. CallbackIsOwn'
  <2>1. ASSUME NEW c \in callbacks
        PROVE  \E k \in DOMAIN queue'[c.user] : queue'[c.user][k].id = c.id /\ queue'[c.user][k].w = c.w
    <3>1. c.user \in UserIds
      BY <2>1 DEF WriteInv, BackendPart, BackendTypes
    <3>2. PICK i \in 1..Len(queue[c.user]) : queue[c.user][i].id = c.id /\ queue[c.user][i].w = c.w
      BY <1>5, <2>1, <3>1 DEF WriteInv, BackendPart, CallbackIsOwn
    <3> QED
      BY <1>5, <1>6, <3>1, <3>2
  <2>2. \E k \in DOMAIN queue'[u] : queue'[u][k].id = b.id /\ queue'[u][k].w = b.w
    BY <1>0, <1>3, <1>4, <1>5
  <2>3. CASE callbacks' = callbacks
    BY <2>1, <2>3 DEF CallbackIsOwn
  <2>4. CASE callbacks' = callbacks \cup {[user |-> sync_user, id |-> b.id, w |-> b.w]}
    BY <2>1, <2>2, <2>4 DEF CallbackIsOwn
  <2> QED
    BY <2>3, <2>4
<1> QED
  BY <1>7, <1>8, <1>9, <1>10, <1>11 DEF BackendPart

\* SyncEngine::WriteMutations.
LEMMA WriteKeeps ==
  ASSUME WriteInv, WriteMutations
  PROVE  WriteInv'
<1> DEFINE b == Batch(next_batch_id, written + 1, sync_user)
<1>0. /\ workQ # <<>> /\ Head(workQ).op = "write" /\ workQ' = Tail(workQ)
      /\ UNCHANGED <<authVars, up, current_user, token_counter, sync_user, applied, refused, doc,
                     acked, rejected>>
      /\ written' = written + 1 /\ next_batch_id' = next_batch_id + 1
      /\ queue' = [queue EXCEPT ![sync_user] = Append(@, b)]
      /\ \/ callbacks' = callbacks
         \/ callbacks' = callbacks \cup {[user |-> sync_user, id |-> b.id, w |-> b.w]}
      /\ FillWritePipeline(stream, pipeline, queue', sync_user)
  BY DEF WriteMutations, Take, serverVars
<1>1. Running /\ Running' /\ RunPart' /\ up
  BY <1>0, TakeRuns DEF WriteInv
<1>2. b \in Batches /\ b.user = sync_user /\ b.w = written + 1 /\ b.id = next_batch_id
  BY ClientFacts DEF Batch, Batches, Numbers
<1>3. /\ OnDisk(queue', written + 1) /\ queue'[sync_user] = Append(queue[sync_user], b)
      /\ IsFront(pipeline, queue'[sync_user])
  BY <1>0, <1>1, <1>2, ClientFacts, AppendQueue
<1>4. InOrder(queue'[sync_user], sync_user)
  BY <1>3, ClientFacts DEF OnDisk
<1>5. /\ Serves(stream', pipeline') /\ IsFront(pipeline', queue'[sync_user])
      /\ Becomes(stream')
      /\ stream'.close = stream.close /\ stream'.uid = stream.uid
      /\ stream'.received = stream.received
      /\ stream'.state \in {stream.state, "Starting", "Backoff"}
      /\ IsStarted(stream) => stream'.state = stream.state
  BY <1>0, <1>3, <1>4, ClientFacts, FillKeeps
<1>6. TokenPart' /\ AsksPart'
  <2>1. UNCHANGED <<user, mainQ>>
    BY <1>0 DEF authVars
  <2>2. stream'.close \in Nat /\ stream.close \in Nat /\ stream'.close >= stream.close
    BY <1>5, ClientFacts
  <2>3. stream.state = "Starting" => stream'.state = "Starting"
    BY <1>5 DEF IsStarted
  <2> QED
    BY <1>0, <1>1, <1>5, <2>1, <2>2, <2>3, WorkerKeepsTokens DEF WriteInv
<1>7. QueuePart'
  <2>1. next_batch_id \in Nat /\ next_batch_id' \in Numbers /\ written' \in Nat
    BY <1>0, ClientFacts DEF Numbers
  <2>2. ASSUME NEW i \in 1..Len(queue'[sync_user]) PROVE queue'[sync_user][i].id < next_batch_id + 1
    <3> DEFINE q == queue[sync_user]
    <3>1. q \in Seq(Batches)
      BY ClientFacts DEF InOrder
    <3>2. \A k \in 1..Len(q) : q[k].id < next_batch_id
      BY <1>1, ClientFacts
    <3> HIDE DEF q, b
    <3>3. queue'[sync_user] = Append(q, b) /\ b \in Batches
      BY <1>2, <1>3 DEF q
    <3>4. CASE i \in 1..Len(q)
      <4>1. Append(q, b)[i] = q[i] /\ q[i] \in Batches
        BY <3>1, <3>3, <3>4
      <4>2. q[i].id \in Nat /\ q[i].id < next_batch_id
        BY <3>2, <3>4, <4>1 DEF Batches, Numbers
      <4> QED
        BY <2>1, <3>3, <4>1, <4>2
    <3>5. CASE i = Len(q) + 1
      <4>1. Append(q, b)[i] = b
        BY <3>1, <3>3, <3>5
      <4> QED
        BY <1>2, <2>1, <3>3, <4>1
    <3> QED
      BY <3>1, <3>3, <3>4, <3>5
  <2> QED
    BY <1>0, <1>3, <1>5, <2>1, <2>2, ClientFacts DEF QueuePart
<1>8. StreamPart'
  <2>1. IsOpen(stream') => IsOpen(stream)
    BY <1>5 DEF IsOpen
  <2> QED
    BY <1>0, <1>5, <2>1 DEF WriteInv, StreamPart
<1>9. AnswersAreTrue'
  BY <1>0, <1>5, AnswersSame DEF WriteInv
<1>10. BackendPart'
  BY <1>0, <1>1, <1>9, WriteBackend
<1>11. AuthInv'
  BY <1>0, AuthSame DEF WriteInv
<1> QED
  BY <1>1, <1>6, <1>7, <1>8, <1>10, <1>11 DEF WriteInv

\* The batch the backend handles next: it is pending, later than every batch that
\* was answered on this stream or reported before, and the stream's user's.
LEMMA NextBatch ==
  ASSUME WriteInv, stream.sent # <<>>, Head(stream.sent).kind = "batch"
  PROVE  LET w == Head(stream.sent).w
         IN  /\ IsOpen(stream) /\ Running /\ stream.uid = sync_user /\ stream.uid \in UserIds
             /\ w \in 1..written
             /\ stream.received \in Seq(Replies)
             /\ \A i \in 1..Len(stream.received) :
                  stream.received[i].kind = "ack" => stream.received[i].w <= w
             /\ \A a \in acked : a.user = stream.uid => a.w <= w
<1> DEFINE w == Head(stream.sent).w
           r == stream.received
           k == Len(r) + 1
           q == queue[sync_user]
<1>1. /\ IsOpen(stream) /\ InFlight(r, stream.sent, pipeline) /\ r \in Seq(Replies)
      /\ k \in 1..Len(pipeline) /\ Head(stream.sent) = pipeline[k]
  <2>1. Serves(stream, pipeline) /\ pipeline \in Seq(Batches)
    BY ClientFacts
  <2>2. /\ IsOpen(stream) /\ InFlight(r, stream.sent, pipeline) /\ r \in Seq(Replies)
        /\ stream.sent \in Seq(Batches \cup {Hello})
    BY <2>1, SentFacts
  <2>3. "ack" \in {"ack", "refused"}
    OBVIOUS
  <2>4. k \in 1..Len(pipeline) /\ Head(stream.sent) = pipeline[k]
    BY <2>1, <2>2, <2>3, AnswerInFlight
  <2> QED
    BY <2>2, <2>4
<1>2. stream.uid = sync_user /\ sync_user \in UserIds /\ Running
  BY <1>1, ClientFacts, StartedRuns DEF WriteInv, StreamPart, IsOpen
<1>3. /\ q \in Seq(Batches) /\ pipeline \in Seq(Batches) /\ Len(pipeline) <= Len(q)
      /\ \A i \in 1..Len(pipeline) : pipeline[i] = q[i]
      /\ \A i, j \in 1..Len(q) : i < j => q[i].w < q[j].w
      /\ \A i \in 1..Len(q) : q[i].w <= written
  BY ClientFacts DEF IsFront, InOrder, OnDisk
<1>4. written \in Nat /\ Len(r) \in Nat /\ Len(q) \in Nat /\ Len(pipeline) \in Nat
  BY <1>1, <1>3, ClientFacts
<1>5. k \in 1..Len(q) /\ w = q[k].w /\ \A i \in 1..Len(r) : i \in 1..Len(q) /\ i \in 1..Len(pipeline) /\ i < k
  <2>1. k \in 1..Len(q)
    BY <1>1, <1>3, <1>4
  <2>2. \A i \in 1..Len(r) : i \in 1..Len(q) /\ i \in 1..Len(pipeline) /\ i < k
    BY <1>1, <1>3, <1>4
  <2>3. w = q[k].w
    BY <1>1, <1>3
  <2> QED
    BY <2>1, <2>2, <2>3
<1>6. \A i \in 1..Len(q) : q[i].w \in Nat /\ q[i].w > 0
  <2>1. \A i \in 1..Len(q) : q[i] \in Batches
    BY <1>3
  <2> QED
    BY <2>1 DEF Batches, Numbers
<1> HIDE DEF k
<1>7. w \in 1..written
  <2>1. q[k].w \in Nat /\ q[k].w > 0 /\ q[k].w <= written
    BY <1>3, <1>5, <1>6
  <2> QED
    BY <1>4, <1>5, <2>1
<1>8. ASSUME NEW i \in 1..Len(r) PROVE r[i].w <= w
  <2>1. r[i].w = q[i].w
    BY <1>1, <1>3, <1>5 DEF InFlight
  <2>2. q[i].w < q[k].w /\ q[i].w \in Nat /\ q[k].w \in Nat
    BY <1>3, <1>5, <1>6
  <2> QED
    BY <1>5, <2>1, <2>2
<1>9. ASSUME NEW a \in acked, a.user = sync_user PROVE a.w <= w
  <2>1. a.w < q[k].w /\ a.w \in Nat
    BY <1>5, <1>9 DEF WriteInv, BackendPart, AckedIsOlder, BackendTypes, Numbers
  <2> QED
    BY <1>5, <1>6, <2>1
<1> QED
  BY <1>1, <1>2, <1>7, <1>8, <1>9

\* The backend has handled a batch, but for what it then knows.
LEMMA ServerKeeps ==
  ASSUME WriteInv, stream.sent # <<>>, Head(stream.sent).kind = "batch",
         NEW k \in {"ack", "refused"},
         stream' = [stream EXCEPT !.sent = Tail(@),
                                  !.received = Append(@, Reply(k, Head(stream.sent).w))],
         UNCHANGED <<authVars, providerVars, sync_user, queue, next_batch_id, pipeline, callbacks,
                     historyVars>>
  PROVE  /\ AuthInv' /\ TokenPart' /\ RunPart' /\ QueuePart' /\ StreamPart' /\ AsksPart'
         /\ stream'.uid = stream.uid
         /\ Len(stream.received) \in Nat /\ Len(stream'.received) = Len(stream.received) + 1
         /\ \A i \in 1..Len(stream.received) : stream'.received[i] = stream.received[i]
         /\ stream'.received[Len(stream.received) + 1].kind = k
         /\ stream'.received[Len(stream.received) + 1].w = Head(stream.sent).w
<1> DEFINE a == Reply(k, Head(stream.sent).w)
<1>1. /\ Serves(stream', pipeline) /\ stream'.state = stream.state
      /\ stream'.close = stream.close /\ stream'.uid = stream.uid
      /\ stream'.received = Append(stream.received, a)
      /\ stream.received \in Seq(Replies)
  BY ClientFacts, SentFacts, ServerReplyFacts
<1>2. a.kind = k /\ a.w = Head(stream.sent).w
  BY DEF Reply
<1> HIDE DEF a
<1>3. /\ Len(stream.received) \in Nat /\ Len(stream'.received) = Len(stream.received) + 1
      /\ \A i \in 1..Len(stream.received) : stream'.received[i] = stream.received[i]
      /\ stream'.received[Len(stream.received) + 1] = a
  <2> DEFINE r == stream.received
  <2>1. r \in Seq(Replies) /\ stream'.received = Append(r, a)
    BY <1>1, <1>2
  <2> HIDE DEF r
  <2>2. /\ Len(r) \in Nat /\ Len(Append(r, a)) = Len(r) + 1
        /\ \A i \in 1..Len(r) : Append(r, a)[i] = r[i]
        /\ Append(r, a)[Len(r) + 1] = a
    BY <2>1
  <2> QED
    BY <2>1, <2>2 DEF r
<1>4. IsOpen(stream) /\ Running
  BY NextBatch
<1>5. UNCHANGED <<up, current_user, token_counter, fetches, workQ, written>>
  BY DEF providerVars, historyVars
<1>6. TokenPart' /\ AsksPart'
  <2>1. Becomes(stream')
    BY <1>1, <1>2, <1>5, SameBecomes
  <2>2. UNCHANGED <<user, mainQ>> /\ up
    BY <1>4 DEF authVars, Running
  <2>3. stream.close \in Nat /\ stream'.close = stream.close /\ stream'.state = stream.state
        /\ stream'.close >= stream.close
    BY <1>1, <1>2, ClientFacts
  <2> QED
    BY <1>5, <2>1, <2>2, <2>3, WorkerKeepsTokens DEF WriteInv
<1>7. RunPart' /\ QueuePart'
  <2>1. Running'
    BY <1>4, <1>5 DEF Running
  <2>2. RunPart'
    BY <1>5, <2>1 DEF WriteInv, RunPart, ChangesAt
  <2> QED
    BY <1>4, <1>5, <2>1, <2>2 DEF WriteInv, QueuePart
<1>8. StreamPart'
  BY <1>1, <1>2 DEF WriteInv, StreamPart, IsOpen
<1>9. AuthInv'
  BY AuthSame DEF WriteInv
<1> QED
  BY <1>1, <1>2, <1>3, <1>6, <1>7, <1>8, <1>9

\* The backend applies a batch.
LEMMA AppliesKeeps ==
  ASSUME WriteInv, ServerApplies
  PROVE  WriteInv'
<1> DEFINE w == Head(stream.sent).w
           n == Len(stream.received)
<1>0. /\ stream.sent # <<>> /\ Head(stream.sent).kind = "batch"
      /\ applied' = applied \cup {w} /\ doc' = [doc EXCEPT ![stream.uid] = w]
      /\ stream' = [stream EXCEPT !.sent = Tail(@), !.received = Append(@, Reply("ack", w))]
      /\ UNCHANGED <<authVars, providerVars, sync_user, queue, next_batch_id, pipeline,
                     callbacks, refused, historyVars>>
  BY DEF ServerApplies
<1>1. /\ stream.uid \in UserIds /\ w \in 1..written
      /\ \A i \in 1..n : stream.received[i].kind = "ack" => stream.received[i].w <= w
      /\ \A a \in acked : a.user = stream.uid => a.w <= w
  BY <1>0, NextBatch
<1>2. /\ AuthInv' /\ TokenPart' /\ RunPart' /\ QueuePart' /\ StreamPart' /\ AsksPart'
      /\ stream'.uid = stream.uid
      /\ n \in Nat /\ Len(stream'.received) = n + 1
      /\ \A i \in 1..n : stream'.received[i] = stream.received[i]
      /\ stream'.received[n + 1].kind = "ack" /\ stream'.received[n + 1].w = w
  BY <1>0, ServerKeeps
<1>3. doc \in [UserIds -> 0..written] /\ written \in Nat
  BY ClientFacts DEF WriteInv, BackendPart, BackendTypes
<1>4. /\ doc'[stream.uid] = w /\ doc' \in [UserIds -> 0..written]
      /\ \A v \in UserIds : v # stream.uid => doc'[v] = doc[v]
  <2>1. w \in 0..written
    BY <1>1, <1>3
  <2> HIDE DEF w
  <2> QED
    BY <1>0, <1>1, <1>3, <2>1
<1> HIDE DEF w, n
<1>5. UNCHANGED <<written, acked, rejected>>
  BY <1>0 DEF historyVars
<1>6. BackendTypes'
  BY <1>0, <1>1, <1>4, <1>5 DEF WriteInv, BackendPart, BackendTypes
<1>7. AnswersAreTrue'
  <2> SUFFICES ASSUME NEW i \in 1..Len(stream'.received)
               PROVE  LET r == stream'.received[i]
                      IN  /\ r.kind = "ack" => r.w \in applied' /\ r.w <= doc'[stream'.uid]
                          /\ r.kind = "refused" => r.w \in refused'
    BY DEF AnswersAreTrue
  <2>1. CASE i \in 1..n
    <3>1. stream'.received[i] = stream.received[i]
      BY <1>2, <2>1
    <3>2. /\ stream.received[i].kind = "ack" => stream.received[i].w \in applied
          /\ stream.received[i].kind = "refused" => stream.received[i].w \in refused
      BY <2>1 DEF WriteInv, BackendPart, AnswersAreTrue, n
    <3>3. stream.received[i].kind = "ack" => stream.received[i].w <= w
      BY <1>1, <2>1
    <3> QED
      BY <1>0, <1>2, <1>4, <3>1, <3>2, <3>3
  <2>2. CASE i = n + 1
    <3>1. w <= w
      BY <1>1
    <3> QED
      BY <1>0, <1>2, <1>4, <2>2, <3>1
  <2>3. i \in 1..n \/ i = n + 1
    BY <1>2
  <2> QED
    BY <2>1, <2>2, <2>3
<1>8. AckedSurvives'
  <2> SUFFICES ASSUME NEW a \in acked PROVE a.w \in applied' /\ a.w <= doc'[a.user]
    BY <1>5 DEF AckedSurvives
  <2>1. a.user \in UserIds /\ a.w \in applied /\ a.w <= doc[a.user]
    BY DEF WriteInv, BackendPart, BackendTypes, AckedSurvives
  <2>2. CASE a.user = stream.uid
    BY <1>0, <1>1, <1>4, <2>1, <2>2
  <2>3. CASE a.user # stream.uid
    BY <1>0, <1>4, <2>1, <2>3
  <2> QED
    BY <2>2, <2>3
<1>9. AckedIsOlder' /\ CallbackIsOwn'
  BY <1>0, <1>5 DEF WriteInv, BackendPart, AckedIsOlder, CallbackIsOwn
<1>10. NoWriteLost'
  BY <1>0, <1>5 DEF WriteInv, BackendPart, NoWriteLost, Queued
<1> QED
  BY <1>2, <1>6, <1>7, <1>8, <1>9, <1>10 DEF WriteInv, BackendPart

\* The backend refuses a batch.
LEMMA RefusesKeeps ==
  ASSUME WriteInv, ServerRefuses
  PROVE  WriteInv'
<1> DEFINE w == Head(stream.sent).w
           n == Len(stream.received)
<1>0. /\ stream.sent # <<>> /\ Head(stream.sent).kind = "batch"
      /\ refused' = refused \cup {w}
      /\ stream' = [stream EXCEPT !.sent = Tail(@), !.received = Append(@, Reply("refused", w))]
      /\ UNCHANGED <<authVars, providerVars, sync_user, queue, next_batch_id, pipeline,
                     callbacks, applied, doc, historyVars>>
  BY DEF ServerRefuses
<1>1. w \in 1..written
  BY <1>0, NextBatch
<1>2. /\ AuthInv' /\ TokenPart' /\ RunPart' /\ QueuePart' /\ StreamPart' /\ AsksPart'
      /\ stream'.uid = stream.uid
      /\ n \in Nat /\ Len(stream'.received) = n + 1
      /\ \A i \in 1..n : stream'.received[i] = stream.received[i]
      /\ stream'.received[n + 1].kind = "refused" /\ stream'.received[n + 1].w = w
  BY <1>0, ServerKeeps
<1> HIDE DEF w, n
<1>3. UNCHANGED <<written, acked, rejected>>
  BY <1>0 DEF historyVars
<1>4. BackendTypes'
  BY <1>0, <1>1, <1>3 DEF WriteInv, BackendPart, BackendTypes
<1>5. AnswersAreTrue'
  <2> SUFFICES ASSUME NEW i \in 1..Len(stream'.received)
               PROVE  LET r == stream'.received[i]
                      IN  /\ r.kind = "ack" => r.w \in applied' /\ r.w <= doc'[stream'.uid]
                          /\ r.kind = "refused" => r.w \in refused'
    BY DEF AnswersAreTrue
  <2>1. CASE i \in 1..n
    <3>1. stream'.received[i] = stream.received[i]
      BY <1>2, <2>1
    <3>2. /\ stream.received[i].kind = "ack" =>
               stream.received[i].w \in applied /\ stream.received[i].w <= doc[stream.uid]
          /\ stream.received[i].kind = "refused" => stream.received[i].w \in refused
      BY <2>1 DEF WriteInv, BackendPart, AnswersAreTrue, n
    <3> QED
      BY <1>0, <1>2, <3>1, <3>2
  <2>2. CASE i = n + 1
    BY <1>0, <1>2, <2>2
  <2>3. i \in 1..n \/ i = n + 1
    BY <1>2
  <2> QED
    BY <2>1, <2>2, <2>3
<1>6. AckedSurvives' /\ AckedIsOlder' /\ CallbackIsOwn'
  BY <1>0, <1>3 DEF WriteInv, BackendPart, AckedSurvives, AckedIsOlder, CallbackIsOwn
<1>7. NoWriteLost'
  BY <1>0, <1>3 DEF WriteInv, BackendPart, NoWriteLost, Queued
<1> QED
  BY <1>2, <1>4, <1>5, <1>6, <1>7 DEF WriteInv, BackendPart

-----------------------------------------------------------------------------
(* The steps outside the worker queue, and the invariant.                  *)

\* A step of another queue leaves the client's and the backend's state alone.
LEMMA OutsideStep ==
  ASSUME WriteInv, UNCHANGED <<clientVars, serverVars, written, acked, rejected>>,
         AuthInv', TokenPart', AsksPart', RunPart', Running' => Running
  PROVE  WriteInv'
<1>0. UNCHANGED <<sync_user, queue, next_batch_id, pipeline, callbacks, stream,
                  applied, refused, doc, acked, rejected, written>>
  BY DEF clientVars, serverVars
<1>1. QueuePart'
  BY <1>0 DEF WriteInv, QueuePart
<1>2. StreamPart'
  BY <1>0 DEF WriteInv, StreamPart
<1>3. BackendPart'
  BY <1>0, AnswersSame, BackendSame DEF WriteInv
<1> QED
  BY <1>1, <1>2, <1>3 DEF WriteInv

LEMMA RunSame ==
  ASSUME WriteInv, UNCHANGED <<up, workQ, pipeline, stream>>
  PROVE  RunPart' /\ (Running' <=> Running)
BY DEF WriteInv, RunPart, Running, ChangesAt

\* Auth's work queue loads or changes the user.
LEMMA AuthWorkKeeps ==
  ASSUME WriteInv, (\E b \in BOOLEAN : LoadSaved(b)) \/ ChangeUser, UNCHANGED writeVars
  PROVE  WriteInv'
<1>0. /\ UNCHANGED <<clientVars, serverVars, written, acked, rejected>>
      /\ UNCHANGED <<sync_user, stream, pipeline>>
  BY DEF writeVars, historyVars, clientVars
<1>1. UNCHANGED <<up, current_user, token_counter, fetches, workQ>>
  BY WorkEffect DEF WriteInv
<1>2. TokenPart' /\ AsksPart'
  BY <1>0, WorkKeepsTokens DEF WriteInv
<1>3. AuthInv'
  <2>1. WorkStep
    <3>1. CASE \E b \in BOOLEAN : LoadSaved(b)
      BY <3>1 DEF LoadSaved, WorkStep
    <3>2. CASE ChangeUser
      BY <3>2 DEF ChangeUser, WorkStep
    <3> QED
      BY <3>1, <3>2
  <2> QED
    BY <2>1, WorkStepInv DEF WriteInv
<1> QED
  BY <1>0, <1>1, <1>2, <1>3, RunSame, OutsideStep

\* The answer to a token request.
LEMMA DeliverKeeps ==
  ASSUME WriteInv, NEW f \in fetches, NEW uid, Deliver(f, uid),
         UNCHANGED <<up, current_user, token_counter, workQ, clientVars, serverVars,
                     written, acked, rejected>>,
         \/ f.uid = Unasked /\ uid = Uid(user)
         \/ f.uid # Unasked /\ uid \in {f.uid, Failed}
  PROVE  WriteInv'
<1>0. UNCHANGED <<sync_user, stream, pipeline>>
  BY DEF clientVars
<1>1. TokenPart' /\ AsksPart'
  BY <1>0, DeliverKeepsTokens DEF WriteInv
<1>2. AuthInv'
  BY DispatchInv DEF WriteInv, Deliver
<1> QED
  BY <1>0, <1>1, <1>2, RunSame, OutsideStep

\* A token is fetched.
LEMMA FetchKeeps ==
  ASSUME WriteInv, NEW f \in fetches, FetchToken(f)
  PROVE  WriteInv'
<1>0. UNCHANGED <<clientVars, serverVars, written, acked, rejected>>
  BY DEF FetchToken, writeVars, historyVars
<1>1. CASE BeginFetch(f)
  <2>0. f.uid = Unasked /\ UNCHANGED <<up, current_user, token_counter, workQ>>
    BY <1>1 DEF BeginFetch
  <2>1. CASE user # None
    <3>0. UNCHANGED <<sync_user, stream, pipeline>>
      BY <1>0 DEF clientVars
    <3>1. UNCHANGED authVars
      BY <1>1, <2>1 DEF BeginFetch
    <3>2. TokenPart' /\ AsksPart'
      BY <1>1, <2>1, <3>0, BeginKeepsTokens DEF WriteInv
    <3>3. AuthInv'
      BY <3>1, AuthSame DEF WriteInv
    <3> QED
      BY <1>0, <2>0, <3>0, <3>2, <3>3, RunSame, OutsideStep
  <2>2. CASE user = None
    <3>1. Deliver(f, None) /\ None = Uid(user)
      BY <1>1, <2>2 DEF BeginFetch, Uid
    <3> QED
      BY <1>0, <2>0, <3>1, DeliverKeeps
  <2> QED
    BY <2>1, <2>2
<1>2. ASSUME NEW uid \in {f.uid, Failed}, EndFetch(f, uid) PROVE WriteInv'
  BY <1>0, <1>2, DeliverKeeps DEF EndFetch
<1> QED
  BY <1>1, <1>2 DEF FetchToken

\* The main queue.
LEMMA MainQueueKeeps ==
  ASSUME WriteInv, MainQueue
  PROVE  WriteInv'
<1>0. /\ UNCHANGED <<clientVars, serverVars, written, acked, rejected>>
      /\ UNCHANGED <<sync_user, stream, pipeline>>
  BY DEF MainQueue, writeVars, historyVars, clientVars
<1>1. mainQ \in Seq(Posts \cup Answers)
  BY DEF WriteInv, TokenPart, ProviderTypes
<1>2. CASE OnAuthStateDidChange
  <2>0. /\ RunAuthBlock /\ mainQ # <<>> /\ Head(mainQ).kind \in {"post", "init"} /\ UNCHANGED up
        /\ \/ up /\ workQ' = Append(workQ, Op("credential", Head(mainQ).uid, 0))
           \/ ~up /\ UNCHANGED workQ
    BY <1>2 DEF OnAuthStateDidChange, RunAuthBlock
  <2>1. TokenPart' /\ AsksPart'
    BY <1>0, <1>2, NotifyKeepsTokens DEF WriteInv
  <2>2. AuthInv'
    BY <2>0, MainStepInv DEF WriteInv, MainStep
  <2>3. RunPart' /\ (Running' <=> Running)
    <3>1. CASE up /\ workQ' = Append(workQ, Op("credential", Head(mainQ).uid, 0))
      <4> DEFINE o == Op("credential", Head(mainQ).uid, 0)
      <4>1. Head(mainQ).uid \in UserIds
        BY <1>1, <2>0, KindFacts, MainTail
      <4>2. o \in Operations /\ o.op = "credential" /\ o.uid \in UserIds
        BY <4>1 DEF Op, Operations
      <4> HIDE DEF o
      <4>3. workQ' = Append(workQ, o)
        BY <3>1 DEF o
      <4> QED
        BY <1>0, <2>0, <3>1, <4>2, <4>3, AppendRuns DEF WriteInv
    <3>2. CASE ~up /\ UNCHANGED workQ
      BY <1>0, <2>0, <3>2, RunSame
    <3> QED
      BY <2>0, <3>1, <3>2
  <2> QED
    BY <1>0, <2>1, <2>2, <2>3, OutsideStep
<1>3. CASE OnToken
  <2>0. /\ mainQ # <<>> /\ Head(mainQ).kind = "token" /\ UNCHANGED up
        /\ \/ workQ' = Append(workQ, Op("resume", Head(mainQ).uid, Head(mainQ).close))
           \/ UNCHANGED workQ
    BY <1>3 DEF OnToken
  <2>1. TokenPart' /\ AsksPart'
    BY <1>0, <1>3, OnTokenKeepsTokens DEF WriteInv
  <2>2. AuthInv'
    <3>1. FinishCall
      BY <1>3 DEF OnToken, FinishCall
    <3> QED
      BY <3>1, MainStepInv DEF WriteInv, MainStep, RunCall
  <2>3. RunPart' /\ (Running' <=> Running)
    <3>1. CASE workQ' = Append(workQ, Op("resume", Head(mainQ).uid, Head(mainQ).close))
      <4> DEFINE o == Op("resume", Head(mainQ).uid, Head(mainQ).close)
      <4>1. Head(mainQ).uid \in UserIds \cup {Failed} /\ Head(mainQ).close \in Nat
        BY <1>1, <2>0, KindFacts, MainTail
      <4>2. o \in Operations /\ o.op = "resume"
        BY <4>1 DEF Op, Operations
      <4> HIDE DEF o
      <4>3. up
        <5>1. 1 \in 1..Len(mainQ) /\ Head(mainQ) = mainQ[1]
          BY <1>1, <2>0
        <5>2. ~up => mainQ[1].kind = "post"
          BY <5>1 DEF WriteInv, TokenPart, NobodyAsks
        <5> QED
          BY <2>0, <5>1, <5>2
      <4>4. workQ' = Append(workQ, o)
        BY <3>1 DEF o
      <4> QED
        BY <1>0, <2>0, <4>2, <4>3, <4>4, AppendRuns DEF WriteInv
    <3>2. CASE UNCHANGED workQ
      BY <1>0, <2>0, <3>2, RunSame
    <3> QED
      BY <2>0, <3>1, <3>2
  <2> QED
    BY <1>0, <2>1, <2>2, <2>3, OutsideStep
<1> QED
  BY <1>2, <1>3 DEF MainQueue

\* The client is created.
LEMMA CreateKeeps ==
  ASSUME WriteInv, CreateClient, UNCHANGED writeVars
  PROVE  WriteInv'
<1> DEFINE o == Op("initialize", Uid(user), 0)
<1>0. /\ UNCHANGED <<clientVars, serverVars, written, acked, rejected>>
      /\ UNCHANGED <<sync_user, stream, pipeline, authVars>>
      /\ ~up /\ up' /\ workQ' = <<o>>
  BY DEF writeVars, historyVars, clientVars, CreateClient
<1>1. TokenPart' /\ AsksPart'
  BY <1>0, CreateKeepsTokens DEF WriteInv
<1>2. AuthInv'
  BY <1>0, AuthSame DEF WriteInv
<1>3. o.op = "initialize" /\ o.uid = Uid(user) /\ Uid(user) \in UserIds
  BY UidType DEF Op, WriteInv, AuthInv, AuthTypeOK
<1> HIDE DEF o
<1>4. Len(workQ') = 1 /\ workQ'[1] = o /\ workQ' # <<>> /\ 2..1 = {} /\ 1..1 = {1}
  BY <1>0
<1>5. ~Running'
  BY <1>3, <1>4 DEF Running
<1>6. pipeline = <<>> /\ stream.state = "Initial"
  BY <1>0 DEF WriteInv, RunPart, Running
<1>7. RunPart'
  BY <1>0, <1>3, <1>4, <1>6 DEF RunPart
<1> QED
  BY <1>0, <1>1, <1>2, <1>5, <1>7, OutsideStep

\* setData.
LEMMA SetDataKeeps ==
  ASSUME WriteInv, SetData
  PROVE  WriteInv'
<1> DEFINE o == Op("write", None, 0)
<1>0. /\ UNCHANGED <<clientVars, serverVars, written, acked, rejected>>
      /\ UNCHANGED <<stream, pipeline, up, authVars>> /\ up /\ workQ' = Append(workQ, o)
  BY DEF SetData, writeVars, historyVars, clientVars
<1>1. TokenPart' /\ AsksPart'
  BY SetDataKeepsTokens DEF WriteInv
<1>2. AuthInv'
  BY <1>0, AuthSame DEF WriteInv
<1>3. o \in Operations /\ o.op = "write"
  BY DEF Op, Operations, UserIds
<1> HIDE DEF o
<1>4. RunPart' /\ (Running' <=> Running)
  BY <1>0, <1>3, AppendRuns DEF WriteInv
<1> QED
  BY <1>0, <1>1, <1>2, <1>4, OutsideStep

LEMMA QuietInitial == Quiet(InitialStream)
<1>1. <<>> \in Seq(Batches \cup {Hello}) /\ <<>> \in Seq(Replies) /\ None \in UserIds
  BY DEF UserIds
<1>2. InitialStream \in Streams
  BY <1>1 DEF InitialStream, Streams, States
<1> QED
  BY <1>2 DEF InitialStream, Quiet, IsOpen

\* The app is killed and launched again: the queues on disk are all that is left of
\* the client.
LEMMA RelaunchKeeps ==
  ASSUME WriteInv, RestartApp
  PROVE  WriteInv'
<1>0. /\ ProviderRestart /\ sync_user' = None /\ next_batch_id' = 1 /\ pipeline' = <<>>
      /\ callbacks' = {} /\ stream' = InitialStream
      /\ UNCHANGED <<queue, applied, refused, doc, written, acked, rejected>>
  BY DEF RestartApp, serverVars
<1>1. AuthInv' /\ mainQ' = <<>>
  BY <1>0, RestartInv DEF WriteInv, ProviderRestart, Restart
<1>2. up' = FALSE /\ workQ' = <<>>
  BY <1>0 DEF ProviderRestart
<1>3. TokenPart' /\ AsksPart'
  BY <1>0, <1>1, RelaunchedTokens DEF ProviderRestart
<1>4. InitialStream.state = "Initial" /\ InitialStream.received = <<>> /\ Quiet(InitialStream)
  BY QuietInitial DEF InitialStream
<1>5. ~Running' /\ RunPart'
  <2>1. ~Running'
    BY <1>2 DEF Running
  <2>2. Len(workQ') = 0 /\ 1..0 = {} /\ 2..0 = {}
    BY <1>2
  <2> QED
    BY <1>0, <1>4, <2>1, <2>2 DEF RunPart
<1>6. QueuePart'
  <2>1. None \in UserIds /\ 1 \in Numbers
    BY DEF UserIds, Numbers
  <2>2. OnDisk(queue, written) /\ written \in Nat /\ InOrder(queue[None], None)
    BY <2>1, ClientFacts
  <2>3. IsFront(<<>>, queue[None])
    BY <2>2, EmptyFront
  <2> QED
    BY <1>0, <1>5, <2>1, <2>2, <2>3 DEF QueuePart
<1>7. StreamPart'
  <2>1. Serves(InitialStream, <<>>)
    BY <1>4, QuietServes DEF IsStarted
  <2> QED
    BY <1>0, <1>4, <2>1 DEF StreamPart, IsOpen
<1>8. BackendPart'
  <2>1. AnswersAreTrue'
    BY <1>0, <1>4, AnswersSame DEF WriteInv
  <2>2. BackendTypes'
    BY <1>0 DEF WriteInv, BackendPart, BackendTypes
  <2>3. AckedIsOlder' /\ AckedSurvives'
    BY <1>0 DEF WriteInv, BackendPart, AckedIsOlder, AckedSurvives
  <2>4. NoWriteLost'
    BY <1>0 DEF WriteInv, BackendPart, NoWriteLost, Queued
  <2>5. CallbackIsOwn'
    BY <1>0 DEF CallbackIsOwn
  <2> QED
    BY <2>1, <2>2, <2>3, <2>4, <2>5 DEF BackendPart
<1> QED
  BY <1>1, <1>3, <1>5, <1>6, <1>7, <1>8 DEF WriteInv

\* A first launch, with nothing on disk.
LEMMA InitKeeps ==
  ASSUME Init
  PROVE  WriteInv
<1>1. AuthInv /\ mainQ = <<>>
  BY InitInv DEF Init, AuthInit
<1>2. up = FALSE /\ workQ = <<>>
  BY DEF Init, ProviderInit
<1>3. TokenPart /\ AsksPart
  BY <1>1, LaunchedTokens DEF Init, ProviderInit
<1>4. InitialStream.state = "Initial" /\ InitialStream.received = <<>> /\ Quiet(InitialStream)
  BY QuietInitial DEF InitialStream
<1>5. ~Running /\ RunPart
  <2>1. ~Running
    BY <1>2 DEF Running
  <2>2. Len(workQ) = 0 /\ 1..0 = {} /\ 2..0 = {}
    BY <1>2
  <2> QED
    BY <1>4, <2>1, <2>2 DEF RunPart, Init
<1>6. /\ None \in UserIds /\ 1 \in Numbers /\ 0 \in Nat /\ <<>> \in Seq(Batches) /\ Len(<<>>) = 0
      /\ 1..0 = {}
  BY DEF UserIds, Numbers
<1>7. queue \in [UserIds -> Seq(Batches)] /\ \A u \in UserIds : queue[u] = <<>>
  BY <1>6 DEF Init
<1>8. QueuePart
  <2>1. \A u \in UserIds : InOrder(queue[u], u)
    BY <1>6, <1>7 DEF InOrder
  <2>2. OnDisk(queue, written)
    BY <1>6, <1>7, <2>1 DEF OnDisk
  <2>3. IsFront(<<>>, queue[None])
    BY <1>6, <2>1, EmptyFront
  <2> QED
    BY <1>5, <1>6, <2>2, <2>3 DEF QueuePart, Init
<1>9. StreamPart
  <2>1. Serves(InitialStream, <<>>)
    BY <1>4, QuietServes DEF IsStarted
  <2> QED
    BY <1>4, <2>1 DEF StreamPart, IsOpen, Init
<1>10. BackendPart
  <2>1. AnswersAreTrue
    BY <1>4, <1>6 DEF AnswersAreTrue, Init
  <2>2. BackendTypes
    BY DEF BackendTypes, Init
  <2>3. AckedIsOlder /\ AckedSurvives /\ NoWriteLost /\ CallbackIsOwn
    BY <1>6 DEF AckedIsOlder, AckedSurvives, NoWriteLost, CallbackIsOwn, Init
  <2> QED
    BY <2>1, <2>2, <2>3 DEF BackendPart
<1> QED
  BY <1>1, <1>3, <1>5, <1>8, <1>9, <1>10 DEF WriteInv

\* Every step keeps the invariant.
LEMMA StepKeeps ==
  ASSUME WriteInv, [Next]_vars
  PROVE  WriteInv'
<1>1. CASE (\E b \in BOOLEAN : LoadSaved(b)) /\ UNCHANGED writeVars
  BY <1>1, AuthWorkKeeps
<1>2. CASE ChangeUser /\ UNCHANGED writeVars
  BY <1>2, AuthWorkKeeps
<1>3. CASE CreateClient /\ UNCHANGED writeVars
  BY <1>3, CreateKeeps
<1>4. CASE \E f \in fetches : FetchToken(f)
  BY <1>4, FetchKeeps
<1>5. CASE MainQueue
  BY <1>5, MainQueueKeeps
<1>6. CASE WorkerQueue
  BY <1>6, InitializeKeeps, CredentialKeeps, ResumeKeeps, WriteKeeps DEF WorkerQueue
<1>7. CASE BackoffTimeout \/ IdleTimeout
  BY <1>7, BackoffKeeps, IdleKeeps
<1>8. CASE Stream_
  BY <1>8, HandshakeKeeps, AckKeeps, RefusedKeeps, WriteFailedKeeps DEF Stream_
<1>9. CASE StreamFails \/ ConnectivityChanged
  BY <1>9, FailKeeps, ConnectivityKeeps
<1>10. CASE Server
  BY <1>10, ServerHandshakeKeeps, AppliesKeeps, RefusesKeeps DEF Server
<1>11. CASE SetData
  BY <1>11, SetDataKeeps
<1>12. CASE RestartApp
  BY <1>12, RelaunchKeeps
<1>13. CASE UNCHANGED vars
  <2>0. UNCHANGED <<authVars, up, current_user, token_counter, fetches, workQ, mainQ, user,
                    clientVars, serverVars, written, acked, rejected>>
    BY <1>13 DEF vars, writeVars, historyVars, providerVars, authVars
  <2>1. UNCHANGED <<sync_user, stream, pipeline>>
    BY <2>0 DEF clientVars
  <2>2. AuthInv'
    BY <2>0, AuthSame DEF WriteInv
  <2>3. TokenPart'
    <3>1. ProviderTypes' /\ NobodyAsks' /\ CountersArePast'
      BY <2>0 DEF WriteInv, TokenPart, ProviderTypes, NobodyAsks, CountersArePast
    <3>2. ProviderFollows' /\ FetchFits'
      BY <2>0 DEF WriteInv, TokenPart, ProviderFollows, FetchFits
    <3>3. AnswerFits'
      BY <2>0 DEF WriteInv, TokenPart, AnswerFits
    <3>4. WorkFits(workQ, sync_user, current_user)'
      BY <2>0, <2>1 DEF WriteInv, TokenPart
    <3> QED
      BY <3>1, <3>2, <3>3, <3>4 DEF TokenPart
  <2>4. AsksPart'
    BY <2>0, <2>1 DEF WriteInv, AsksPart
  <2>5. RunPart' /\ (Running' <=> Running)
    BY <2>0, <2>1, RunSame
  <2> QED
    BY <2>0, <2>2, <2>3, <2>4, <2>5, OutsideStep
<1> QED
  BY <1>1, <1>2, <1>3, <1>4, <1>5, <1>6, <1>7, <1>8, <1>9, <1>10, <1>11, <1>12, <1>13 DEF Next

-----------------------------------------------------------------------------
(* The theorems.                                                           *)

\* The inductive invariant holds throughout.
THEOREM WriteInvariance == Spec => []WriteInv
<1>1. Init => WriteInv
  BY InitKeeps
<1>2. WriteInv /\ [Next]_vars => WriteInv'
  BY StepKeeps
<1> QED
  BY <1>1, <1>2, PTL DEF Spec

\* The client, the queues on disk and the backend have their types
\* (RemoteStore, WriteStream, SyncEngine and the mutation queue).
THEOREM WriteTypeCorrect == Spec => []TypeOK
<1>1. ASSUME WriteInv PROVE TypeOK
  <2>1. AuthTypeOK /\ ProviderTypes
    BY <1>1 DEF WriteInv, AuthInv, TokenPart
  <2>2. /\ sync_user \in UserIds /\ queue \in [UserIds -> Seq(Batches)]
        /\ next_batch_id \in Numbers /\ pipeline \in Seq(Batches) /\ written \in Nat
        /\ stream \in Streams
    BY <1>1, ClientFacts DEF OnDisk
  <2>3. BackendTypes
    BY <1>1 DEF WriteInv, BackendPart
  <2> QED
    BY <2>1, <2>2, <2>3 DEF TypeOK, ProviderTypes, BackendTypes
<1> QED
  BY <1>1, WriteInvariance, PTL

\* A token that a stream is opened with names the user Firestore acts as when it
\* arrives: get_token_callback compares its token counter with the provider's.
THEOREM TokenFitsUserHolds == Spec => []TokenFitsUser
<1>1. ASSUME WriteInv PROVE TokenFitsUser
  BY <1>1, WorkFitsTokens DEF WriteInv, TokenPart, ProviderTypes
<1> QED
  BY <1>1, WriteInvariance, PTL

\* No batch travels under the token of another user than its own: RestartNetwork
\* stops the stream at every change of user, and ResumeStartWithCredentials gives
\* it a token that fits.
THEOREM SentAsOwnerHolds == Spec => []SentAsOwner
<1>1. ASSUME WriteInv, NEW i \in DOMAIN stream.sent, stream.sent[i].kind = "batch"
      PROVE  stream.sent[i].user = stream.uid
  <2>1. Serves(stream, pipeline) /\ stream \in Streams /\ stream.uid \in UserIds
    BY <1>1, ClientFacts DEF Streams
  <2>2. /\ stream.sent \in Seq(Batches \cup {Hello}) /\ stream.received \in Seq(Replies)
        /\ i \in 1..Len(stream.sent) /\ Len(stream.received) \in Nat /\ Len(stream.sent) \in Nat
    BY <1>1, <2>1 DEF Streams
  <2>3. stream.handshake
    <3>1. stream.sent # <<>> /\ stream.sent # <<Hello>>
      <4>1. 1..0 = {} /\ Len(<<>>) = 0 /\ Len(<<Hello>>) = 1 /\ 1..1 = {1} /\ <<Hello>>[1] = Hello
        OBVIOUS
      <4>2. Hello.kind = "hello"
        BY DEF Hello
      <4>3. ASSUME stream.sent = <<Hello>> PROVE FALSE
        <5>1. i = 1
          BY <2>2, <4>1, <4>3
        <5>2. stream.sent[1] = Hello
          BY <4>1, <4>3
        <5> QED
          BY <1>1, <4>2, <5>1, <5>2
      <4>4. stream.sent # <<>>
        BY <2>2, <4>1
      <4> QED
        BY <4>3, <4>4
    <3> QED
      BY <2>1, <3>1 DEF Serves
  <2>4. IsOpen(stream)
    BY <2>1, <2>3 DEF Serves
  <2>5. /\ stream.uid = sync_user /\ sync_user \in UserIds
        /\ IsFront(pipeline, queue[sync_user]) /\ InOrder(queue[sync_user], sync_user)
    BY <1>1, <2>4, ClientFacts DEF WriteInv, StreamPart
  <2>6. InFlight(stream.received, stream.sent, pipeline)
    BY <2>1, <2>3 DEF Serves
  <2> DEFINE k == Len(stream.received) + i
  <2>7. stream.sent[i] = pipeline[k] /\ k \in 1..Len(pipeline)
    <3>1. stream.sent[i] = pipeline[k] /\ Len(pipeline) = Len(stream.received) + Len(stream.sent)
      BY <2>2, <2>6 DEF InFlight
    <3>2. \A m, n \in Nat : i \in 1..n => m + i \in 1..(m + n)
      OBVIOUS
    <3> QED
      BY <2>2, <3>1, <3>2, Zenon
  <2> HIDE DEF k
  <2>8. pipeline[k] = queue[sync_user][k] /\ k \in 1..Len(queue[sync_user])
    <3>1. Len(pipeline) \in Nat /\ Len(queue[sync_user]) \in Nat
      BY <2>5 DEF IsFront, InOrder
    <3> QED
      BY <2>5, <2>7, <3>1 DEF IsFront
  <2>9. queue[sync_user][k].user = sync_user
    BY <2>5, <2>8 DEF InOrder
  <2> QED
    BY <2>5, <2>7, <2>8, <2>9
<1>2. WriteInv => SentAsOwner
  BY <1>1 DEF SentAsOwner
<1> QED
  BY <1>2, WriteInvariance, PTL

\* No HARD_ASSERT of the stream, the pipeline or the mutation queue fails.
THEOREM NoAssertFailsHolds == Spec => []NoAssertFails
<1>1. WriteInv => NoAssertFails
  BY DEF WriteInv, StreamPart, Serves, NoAssertFails
<1> QED
  BY <1>1, WriteInvariance, PTL

\* A write leaves its queue on disk (RemoveMutationBatch) only when the backend has
\* applied or refused that very write.
THEOREM NoWriteLostHolds == Spec => []NoWriteLost
<1>1. WriteInv => NoWriteLost
  BY DEF WriteInv, BackendPart
<1> QED
  BY <1>1, WriteInvariance, PTL

\* What HandleSuccessfulWrite reports was applied, and no batch sent again after a
\* failure overwrites it with an older one.
THEOREM AckedSurvivesHolds == Spec => []AckedSurvives
<1>1. WriteInv => AckedSurvives
  BY DEF WriteInv, BackendPart
<1> QED
  BY <1>1, WriteInvariance, PTL

\* NotifyUser calls the callback of the batch that is done, although batch IDs come
\* back (LoadNextBatchIdFromDb).
THEOREM CallbackIsOwnHolds == Spec => []CallbackIsOwn
<1>1. WriteInv => CallbackIsOwn
  BY DEF WriteInv, BackendPart
<1> QED
  BY <1>1, WriteInvariance, PTL

-----------------------------------------------------------------------------
(* The refinement of WriteQueue.                                           *)

\* The abstract queues that the queues on disk stand for: the write numbers alone.
NumbersIn(q) == [u \in UserIds |-> [i \in DOMAIN q[u] |-> q[u][i].w]]

\* Which steps touch the queues on disk, and how.
LEMMA QueueSteps ==
  ASSUME WriteInv, [Next]_vars
  PROVE  \/ UNCHANGED <<queue, written>>
         \/ /\ pipeline # <<>>
            /\ queue' = [queue EXCEPT ![sync_user] = Remove(@, pipeline[1])]
            /\ UNCHANGED <<sync_user, written>>
         \/ /\ queue' = [queue EXCEPT ![sync_user] =
                           Append(@, Batch(next_batch_id, written + 1, sync_user))]
            /\ written' = written + 1
            /\ UNCHANGED sync_user
<1> USE DEF clientVars, historyVars, writeVars
<1>1. CASE WriteMutations
  BY <1>1 DEF WriteMutations
<1>2. CASE OnMutationResult
  BY <1>2 DEF OnMutationResult, FinishFront
<1>3. CASE OnRefused
  BY <1>3 DEF OnRefused, RejectFront, FinishFront, CloseAndRetry
<1>4. CASE OnWriteFailed
  BY <1>4 DEF OnWriteFailed, RejectFront, FinishFront
<1>5. CASE Initialize \/ HandleCredentialChange
  BY <1>5 DEF Initialize, HandleCredentialChange
<1>6. CASE ResumeStartWithCredentials
  BY <1>6 DEF ResumeStartWithCredentials, CloseAndRetry
<1>7. CASE OnHandshake \/ BackoffTimeout \/ IdleTimeout \/ ConnectivityChanged
  BY <1>7 DEF OnHandshake, BackoffTimeout, IdleTimeout, ConnectivityChanged
<1>8. CASE StreamFails
  BY <1>8 DEF StreamFails, CloseAndRetry
<1>9. CASE Server
  BY <1>9 DEF Server, ServerHandshake, ServerApplies, ServerRefuses
<1>10. CASE \E f \in fetches : FetchToken(f)
  BY <1>10 DEF FetchToken
<1>11. CASE SetData \/ RestartApp \/ MainQueue
  BY <1>11 DEF SetData, RestartApp, MainQueue
<1>12. CASE UNCHANGED writeVars
  BY <1>12
<1>13. CASE UNCHANGED vars
  BY <1>13 DEF vars
<1> QED
  BY <1>1, <1>2, <1>3, <1>4, <1>5, <1>6, <1>7, <1>8, <1>9, <1>10, <1>11, <1>12, <1>13
  DEF Next, WorkerQueue, Stream_

\* The numbers of a queue's writes, without its first and with one more.
LEMMA NumbersOfTail ==
  ASSUME NEW q \in Seq(Batches), q # <<>>
  PROVE  /\ [i \in DOMAIN q |-> q[i].w] # <<>>
         /\ [i \in DOMAIN Tail(q) |-> Tail(q)[i].w] = Tail([i \in DOMAIN q |-> q[i].w])
<1> DEFINE n == [i \in DOMAIN q |-> q[i].w]
           t == Tail(q)
<1>0. \A b \in Batches : b.w \in Numbers
  BY DEF Batches
<1>1. Len(q) \in Nat /\ Len(q) > 0 /\ DOMAIN q = 1..Len(q) /\ \A i \in 1..Len(q) : q[i].w \in Numbers
  <2>1. Len(q) \in Nat /\ Len(q) > 0 /\ DOMAIN q = 1..Len(q) /\ \A i \in 1..Len(q) : q[i] \in Batches
    OBVIOUS
  <2> QED
    BY <1>0, <2>1
<1>2. n \in Seq(Numbers) /\ Len(n) = Len(q)
  BY <1>1
<1>3. /\ t \in Seq(Batches) /\ Len(t) = Len(q) - 1 /\ DOMAIN t = 1..Len(t)
      /\ \A i \in 1..Len(t) : t[i] = q[i + 1]
  BY <1>1
<1>4. n # <<>>
  BY <1>1, <1>2
<1>5. /\ Tail(n) \in Seq(Numbers) /\ Len(Tail(n)) = Len(q) - 1
      /\ \A i \in 1..Len(q) - 1 : Tail(n)[i] = n[i + 1]
  <2> HIDE DEF n
  <2> QED
    BY <1>1, <1>2, <1>4
<1>6. \A i \in 1..Len(q) - 1 : n[i + 1] = q[i + 1].w
  BY <1>1
<1>7. DOMAIN Tail(n) = 1..Len(q) - 1 /\ Tail(n) = [i \in DOMAIN Tail(n) |-> Tail(n)[i]]
  <2> HIDE DEF n
  <2>1. DOMAIN Tail(n) = 1..Len(Tail(n))
    BY <1>5
  <2>2. \A S : \A m \in Seq(S) : m = [i \in DOMAIN m |-> m[i]]
    OBVIOUS
  <2>3. Tail(n) = [i \in DOMAIN Tail(n) |-> Tail(n)[i]]
    BY <1>5, <2>2, Zenon
  <2> QED
    BY <1>5, <2>1, <2>3
<1> HIDE DEF n, t
<1>8. [i \in DOMAIN t |-> t[i].w] = Tail(n)
  <2>1. \A i \in 1..Len(q) - 1 : t[i].w = Tail(n)[i]
    BY <1>3, <1>5, <1>6
  <2> QED
    BY <1>1, <1>3, <1>7, <2>1
<1> QED
  BY <1>4, <1>8 DEF n, t

LEMMA NumbersOfAppend ==
  ASSUME NEW q \in Seq(Batches), NEW b \in Batches
  PROVE  [i \in DOMAIN Append(q, b) |-> Append(q, b)[i].w] = Append([i \in DOMAIN q |-> q[i].w], b.w)
<1> DEFINE n == [i \in DOMAIN q |-> q[i].w]
           a == Append(q, b)
<1>0. \A c \in Batches : c.w \in Numbers
  BY DEF Batches
<1>1. /\ Len(q) \in Nat /\ DOMAIN q = 1..Len(q) /\ \A i \in 1..Len(q) : q[i].w \in Numbers
      /\ b.w \in Numbers
  <2>1. Len(q) \in Nat /\ DOMAIN q = 1..Len(q) /\ \A i \in 1..Len(q) : q[i] \in Batches
    OBVIOUS
  <2> QED
    BY <1>0, <2>1
<1>2. n \in Seq(Numbers) /\ Len(n) = Len(q) /\ \A i \in 1..Len(q) : n[i] = q[i].w
  BY <1>1
<1>3. /\ a \in Seq(Batches) /\ Len(a) = Len(q) + 1 /\ DOMAIN a = 1..Len(q) + 1
      /\ \A i \in 1..Len(q) : a[i] = q[i]
      /\ a[Len(q) + 1] = b
  BY <1>1
<1> HIDE DEF n, a
<1>4. /\ Append(n, b.w) \in Seq(Numbers) /\ Len(Append(n, b.w)) = Len(q) + 1
      /\ DOMAIN Append(n, b.w) = 1..Len(q) + 1
      /\ \A i \in 1..Len(q) : Append(n, b.w)[i] = n[i]
      /\ Append(n, b.w)[Len(q) + 1] = b.w
      /\ Append(n, b.w) = [i \in 1..Len(q) + 1 |-> Append(n, b.w)[i]]
  BY <1>1, <1>2
<1>5. \A i \in 1..Len(q) + 1 : i \in 1..Len(q) \/ i = Len(q) + 1
  BY <1>1
<1>6. \A i \in 1..Len(q) + 1 : a[i].w = Append(n, b.w)[i]
  BY <1>2, <1>3, <1>4, <1>5
<1>7. [i \in DOMAIN a |-> a[i].w] = Append(n, b.w)
  BY <1>3, <1>4, <1>6
<1> QED
  BY <1>7 DEF n, a

\* A step seen from WriteQueue.
LEMMA PromisedStep ==
  ASSUME WriteInv, WriteInv', [Next]_vars
  PROVE  [Promised!Next]_(Promised!vars)
<1> DEFINE u == sync_user
           old == NumbersIn(queue)
           new == NumbersIn(queue')
<1>0. /\ u \in UserIds /\ sync_user' \in UserIds /\ written \in Nat /\ OnDisk(queue, written)
      /\ IsFront(pipeline, queue[u]) /\ next_batch_id \in Numbers
  BY DEF WriteInv, QueuePart
<1>1. queue \in [UserIds -> Seq(Batches)] /\ queue' \in [UserIds -> Seq(Batches)]
  BY DEF WriteInv, QueuePart, OnDisk
<1>2. \A v \in UserIds : /\ old[v] = [i \in DOMAIN queue[v] |-> queue[v][i].w]
                         /\ new[v] = [i \in DOMAIN queue'[v] |-> queue'[v][i].w]
  BY DEF NumbersIn
<1>3. DOMAIN old = UserIds /\ DOMAIN new = UserIds /\ old = [v \in UserIds |-> old[v]]
      /\ new = [v \in UserIds |-> new[v]]
  BY DEF NumbersIn
<1>4. /\ Promised!Next <=> Promised!Write \/ Promised!Finish \/ \E v \in UserIds : Promised!ActAs(v)
      /\ Promised!Write <=> /\ written' = written + 1
                            /\ new = [old EXCEPT ![u] = Append(@, written + 1)]
                            /\ UNCHANGED sync_user
      /\ Promised!Finish <=> /\ old[u] # <<>>
                             /\ new = [old EXCEPT ![u] = Tail(@)]
                             /\ UNCHANGED <<sync_user, written>>
      /\ \A v \in UserIds : Promised!ActAs(v) <=> /\ sync_user' = v
                                                  /\ new = old /\ written' = written
  BY DEF Promised!Next, Promised!Write, Promised!Finish, Promised!ActAs, NumbersIn
<1>5. CASE UNCHANGED <<queue, written>>
  <2>1. new = old
    BY <1>5
  <2> QED
    BY <1>0, <1>4, <1>5, <2>1
<1>6. CASE /\ pipeline # <<>>
           /\ queue' = [queue EXCEPT ![sync_user] = Remove(@, pipeline[1])]
           /\ UNCHANGED <<sync_user, written>>
  <2>1. /\ queue'[u] = Tail(queue[u]) /\ queue[u] # <<>> /\ queue[u] \in Seq(Batches)
        /\ \A v \in UserIds : v # u => queue'[v] = queue[v]
    BY <1>0, <1>1, <1>6, RemoveQueue
  <2>2. old[u] # <<>> /\ new[u] = Tail(old[u])
    <3>1. /\ [i \in DOMAIN queue[u] |-> queue[u][i].w] # <<>>
          /\ [i \in DOMAIN Tail(queue[u]) |-> Tail(queue[u])[i].w]
               = Tail([i \in DOMAIN queue[u] |-> queue[u][i].w])
      BY <2>1, NumbersOfTail, Zenon
    <3>2. new[u] = [i \in DOMAIN Tail(queue[u]) |-> Tail(queue[u])[i].w]
      BY <1>0, <1>2, <2>1, Zenon
    <3>3. old[u] = [i \in DOMAIN queue[u] |-> queue[u][i].w]
      BY <1>0, <1>2, Zenon
    <3> HIDE DEF old, new
    <3> QED
      BY <3>1, <3>2, <3>3, Zenon
  <2>3. ASSUME NEW v \in UserIds, v # u PROVE new[v] = old[v]
    <3>1. queue'[v] = queue[v]
      BY <2>1, <2>3
    <3>2. /\ new[v] = [i \in DOMAIN queue'[v] |-> queue'[v][i].w]
          /\ old[v] = [i \in DOMAIN queue[v] |-> queue[v][i].w]
      BY <1>2, Zenon
    <3> HIDE DEF old, new
    <3> QED
      BY <3>1, <3>2, Zenon
  <2> HIDE DEF old, new
  <2>4. new = [old EXCEPT ![u] = Tail(@)]
    BY <1>0, <1>3, <2>2, <2>3
  <2> QED
    BY <1>4, <1>6, <2>2, <2>4
<1>7. CASE /\ queue' = [queue EXCEPT ![sync_user] =
                          Append(@, Batch(next_batch_id, written + 1, sync_user))]
           /\ written' = written + 1
           /\ UNCHANGED sync_user
  <2> DEFINE b == Batch(next_batch_id, written + 1, sync_user)
  <2>1. b \in Batches /\ b.w = written + 1
    BY <1>0 DEF Batch, Batches, Numbers
  <2>2. queue' = [queue EXCEPT ![u] = Append(@, b)]
    BY <1>7
  <2> HIDE DEF b
  <2>3. /\ queue'[u] = Append(queue[u], b) /\ queue[u] \in Seq(Batches)
        /\ \A v \in UserIds : v # u => queue'[v] = queue[v]
    BY <1>0, <1>1, <2>2
  <2>4. new[u] = Append(old[u], written + 1)
    <3>1. [i \in DOMAIN Append(queue[u], b) |-> Append(queue[u], b)[i].w]
            = Append([i \in DOMAIN queue[u] |-> queue[u][i].w], b.w)
      BY <2>1, <2>3, NumbersOfAppend, Zenon
    <3>2. new[u] = [i \in DOMAIN Append(queue[u], b) |-> Append(queue[u], b)[i].w]
      BY <1>0, <1>2, <2>3, Zenon
    <3>3. old[u] = [i \in DOMAIN queue[u] |-> queue[u][i].w]
      BY <1>0, <1>2, Zenon
    <3> HIDE DEF old, new
    <3> QED
      BY <2>1, <3>1, <3>2, <3>3, Zenon
  <2>5. ASSUME NEW v \in UserIds, v # u PROVE new[v] = old[v]
    <3>1. queue'[v] = queue[v]
      BY <2>3, <2>5
    <3>2. /\ new[v] = [i \in DOMAIN queue'[v] |-> queue'[v][i].w]
          /\ old[v] = [i \in DOMAIN queue[v] |-> queue[v][i].w]
      BY <1>2, Zenon
    <3> HIDE DEF old, new
    <3> QED
      BY <3>1, <3>2, Zenon
  <2> HIDE DEF old, new
  <2>6. new = [old EXCEPT ![u] = Append(@, written + 1)]
    BY <1>0, <1>3, <2>4, <2>5
  <2> QED
    BY <1>4, <1>7, <2>6
<1> QED
  BY <1>5, <1>6, <1>7, QueueSteps

\* Firestore's writes implement WriteQueue: they finish one at a time, in the order
\* they were made, and only those of the user SyncEngine acts as.
THEOREM KeepsOrderHolds == Spec => KeepsOrder
<1>1. Init => Promised!Init
  <2> SUFFICES ASSUME Init PROVE Promised!Init
    OBVIOUS
  <2>1. sync_user = None /\ written = 0 /\ \A u \in UserIds : queue[u] = <<>>
    BY DEF Init
  <2>2. [i \in DOMAIN <<>> |-> <<>>[i].w] = <<>>
    OBVIOUS
  <2> QED
    BY <2>1, <2>2 DEF Promised!Init
<1>2. WriteInv /\ WriteInv' /\ [Next]_vars => [Promised!Next]_(Promised!vars)
  BY PromisedStep
<1> QED
  BY <1>1, <1>2, WriteInvariance, PTL DEF Spec, KeepsOrder, Promised!Spec

=============================================================================
