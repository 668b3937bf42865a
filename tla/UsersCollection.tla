--------------------------- MODULE UsersCollection ---------------------------
(***************************************************************************)
(* The Firestore client as the app uses it: getDocument and setData on     *)
(* Users/<uid> documents (document_reference.cc, query_listener.cc,        *)
(* sync_engine.cc, local_store.cc).                                        *)
(*                                                                         *)
(* A document is absent, or holds a User the app can decode, or something  *)
(* it cannot.  setData is queued per signed-in user in a mutation queue on *)
(* disk, is visible to that user's reads at once, and is acknowledged or   *)
(* rejected by the backend later.  getDocument calls back once.  Documents *)
(* are named by FIRAuth's user IDs.                                        *)
(***************************************************************************)
EXTENDS FIRAuth

VARIABLES
  docs,        \* the backend's documents
  fsUser,      \* the user the client's mutation queue belongs to
  writes,      \* mutation batches not acknowledged, over all users; on disk
  reads        \* getDocument calls in flight, in the order they were issued

storeVars == <<docs, fsUser, writes, reads>>

Contents == {"missing", "user", "undecodable"}

StoreInit ==
  /\ docs \in [Uids -> Contents]
  /\ fsUser = Unused
  /\ writes = <<>>
  /\ reads = <<>>

\* The credentials provider starts with the user ID current when the instance
\* is created, i.e. when the app first asks for a document.
Instance(uid) == IF fsUser = Unused THEN uid ELSE fsUser

\* Seeded fault (no part of the specification): signing out keeps the queue.
HandleCredentialChange_KeepOnNil(uid) == IF uid = None THEN fsUser ELSE uid

\* An auth notification carries the user ID it was posted for; the sync engine
\* then swaps in that user's mutation queue.
HandleCredentialChange(uid) == IF fsUser = Unused THEN Unused ELSE uid

\* The document as reads see it: a pending write of the current user, else the
\* backend's.
HasWrite(owner, doc) == \E i \in 1..Len(writes) : writes[i] = [owner |-> owner, doc |-> doc]
View(doc) == IF HasWrite(fsUser, doc) THEN "user" ELSE docs[doc]

\* getDocument on doc, once for each element of askers.
GetDocument(doc, askers) ==
  reads' = reads \o [i \in 1..Len(askers) |-> [doc |-> doc, asker |-> askers[i]]]

\* setData(User) on doc while the instance belongs to owner.
SetData(owner, doc) == writes' = Append(writes, [owner |-> owner, doc |-> doc])

RemoveAt(s, i) == SubSeq(s, 1, i - 1) \o SubSeq(s, i + 1, Len(s))

\* Seeded fault (no part of the specification): reads complete in any order.
NextRead_AnyOrder(i) == i \in 1..Len(reads)

\* Listeners of one query are served in the order they were added: a read may
\* complete when no earlier read of its document is left.
NextRead(i) == i \in 1..Len(reads) /\ \A j \in 1..i-1 : reads[j].doc # reads[i].doc

\* The i-th read calls back: with what the document holds, or with an error
\* (offline, denied by the backend).
ReadDone(i, res) ==
  /\ NextRead(i)
  /\ res \in {View(reads[i].doc), "error"}
  /\ reads' = RemoveAt(reads, i)
  /\ UNCHANGED <<docs, fsUser, writes>>

\* The write pipeline sends the current user's batches in order.
NextWrite(i) ==
  /\ i \in 1..Len(writes)
  /\ writes[i].owner = fsUser
  /\ \A j \in 1..i-1 : writes[j].owner # fsUser

AckWrite(i) ==
  /\ NextWrite(i)
  /\ docs' = [docs EXCEPT ![writes[i].doc] = "user"]
  /\ writes' = RemoveAt(writes, i)
  /\ UNCHANGED <<fsUser, reads>>

RejectWrite(i) ==
  /\ NextWrite(i)
  /\ writes' = RemoveAt(writes, i)
  /\ UNCHANGED <<docs, fsUser, reads>>

\* A new process has no instance and no reads; the mutation queues are on disk.
StoreRestart ==
  /\ fsUser' = Unused
  /\ reads' = <<>>
  /\ UNCHANGED <<docs, writes>>

\* The types of the store's state.
StoreTypeOK ==
  /\ docs \in [Uids -> Contents]
  /\ fsUser \in Uids \cup {None, Unused}
  /\ writes \in Seq([owner : Uids \cup {None}, doc : Uids])

=============================================================================
