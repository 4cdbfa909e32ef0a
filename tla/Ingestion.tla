----------------------------- MODULE Ingestion -----------------------------
(***************************************************************************)
(* Knowledge bases and the ingestion of their documents                    *)
(* (knowledge_bases.py, ingestion/, storage/local.py and the writing half  *)
(* of rag/store.py), with the Redis dispatcher.                            *)
(*                                                                         *)
(* An upload checks for the same content, stores the object, commits the   *)
(* document row and only then pushes a job.  A worker pops a job, reads    *)
(* the row, works on the object outside any lock, and replaces the index   *)
(* in a transaction that begins by updating the row.  Statuses between     *)
(* pending and ready are never committed, so they are places in a run      *)
(* here, not values of status.                                             *)
(***************************************************************************)
EXTENDS Sequences

CONSTANTS Bases,      \* knowledge bases
          Documents,  \* document rows, one for each upload or registration
          Contents,   \* what files contain, up to their hash
          Parseable,  \* contents that turn into text
          Workers,    \* worker processes
          None        \* no base, document, content, worker or reason

ASSUME ParseableAssumption == Parseable \subseteq Contents
Reasons == {"unparseable", "internal"}

ASSUME NoneAssumption ==
  None \notin Bases \cup Documents \cup Contents \cup Workers \cup Reasons

VARIABLES
  base,    \* base -> absent, present or deleted
  upload,  \* document -> where the request that creates it stands
  home,    \* document -> its base
  content, \* document -> its content
  object,  \* documents whose object is in quarantine
  status,  \* document -> committed status of its row
  reason,  \* document -> failure_reason of its row
  chunks,  \* document -> the runs whose chunks are in the index
  queue,   \* jobs in Redis, named by their documents
  again,   \* documents whose job was dispatched a second time
  pc,      \* worker -> where its run stands
  job,     \* worker -> the document of its run
  why,     \* worker -> the failure it is about to record
  old,     \* worker -> the runs whose chunks its delete took
  lost     \* documents whose run ended with its worker

request == <<upload, home, content, object>>
row == <<status, reason, chunks>>
run == <<pc, job, why, old>>
vars == <<base, request, row, queue, again, run, lost>>

Uploading == {"checked", "stored", "committed", "rejected", "registering"}
Rows == {"pending", "ready", "failed"}
Running == {"popped", "working", "indexing", "holding", "failing", "refusing"}

TypeOK ==
  /\ base \in [Bases -> {"absent", "present", "deleted"}]
  /\ upload \in [Documents -> {"none", "end"} \cup Uploading]
  /\ home \in [Documents -> Bases \cup {None}]
  /\ content \in [Documents -> Contents \cup {None}]
  /\ object \in SUBSET Documents
  /\ status \in [Documents -> {"absent", "deleted"} \cup Rows]
  /\ reason \in [Documents -> Reasons \cup {None}]
  /\ chunks \in [Documents -> SUBSET Workers]
  /\ queue \in Seq(Documents)
  /\ again \in SUBSET Documents
  /\ pc \in [Workers -> {"idle", "dead"} \cup Running]
  /\ job \in [Workers -> Documents \cup {None}]
  /\ why \in [Workers -> Reasons \cup {None}]
  /\ old \in [Workers -> SUBSET Workers]
  /\ lost \in SUBSET Documents

Init ==
  /\ base = [b \in Bases |-> "absent"]
  /\ upload = [d \in Documents |-> "none"]
  /\ home = [d \in Documents |-> None]
  /\ content = [d \in Documents |-> None]
  /\ object = {}
  /\ status = [d \in Documents |-> "absent"]
  /\ reason = [d \in Documents |-> None]
  /\ chunks = [d \in Documents |-> {}]
  /\ queue = <<>>
  /\ again = {}
  /\ pc = [w \in Workers |-> "idle"]
  /\ job = [w \in Workers |-> None]
  /\ why = [w \in Workers |-> None]
  /\ old = [w \in Workers |-> {}]
  /\ lost = {}

(* Registered content: what UNIQUE (knowledge_base_id, content_hash) sees. *)
Taken(b, c) == \E e \in Documents : status[e] \in Rows /\ home[e] = b /\ content[e] = c

(* Fault: a lock outlives the worker that took it.                         *)
RowFreeUnlessOrphaned(d) ==
  \A w \in Workers : pc[w] \in {"holding", "dead"} => job[w] # d

(* The uncommitted update of a run locks the row of its document.          *)
RowFree(d) == \A w \in Workers : pc[w] = "holding" => job[w] # d

-----------------------------------------------------------------------------
(* Knowledge bases                                                         *)

CreateBase(b) ==
  /\ base[b] = "absent"
  /\ base' = [base EXCEPT ![b] = "present"]
  /\ UNCHANGED <<request, row, queue, again, run, lost>>

(* Fault: the cascade does not wait for a run that holds a row.            *)
DeleteBaseAtOnce(b) ==
  /\ base[b] = "present"
  /\ base' = [base EXCEPT ![b] = "deleted"]
  /\ status' = [d \in Documents |-> IF home[d] = b /\ status[d] \in Rows
                                    THEN "deleted" ELSE status[d]]
  /\ chunks' = [d \in Documents |-> IF home[d] = b THEN {} ELSE chunks[d]]
  /\ UNCHANGED <<request, reason, queue, again, run, lost>>

(* Rows and chunks go by cascade, once no run holds one of the rows;       *)
(* objects and queued jobs stay.                                           *)
DeleteBase(b) ==
  /\ base[b] = "present"
  /\ \A d \in Documents : home[d] = b => RowFree(d)
  /\ base' = [base EXCEPT ![b] = "deleted"]
  /\ status' = [d \in Documents |-> IF home[d] = b /\ status[d] \in Rows
                                    THEN "deleted" ELSE status[d]]
  /\ chunks' = [d \in Documents |-> IF home[d] = b THEN {} ELSE chunks[d]]
  /\ UNCHANGED <<request, reason, queue, again, run, lost>>

-----------------------------------------------------------------------------
(* Uploads and registrations                                               *)

(* The request finds its base and no document with its content.            *)
Check(d, b, c, where) ==
  /\ upload[d] = "none" /\ base[b] = "present" /\ ~Taken(b, c)
  /\ home' = [home EXCEPT ![d] = b]
  /\ content' = [content EXCEPT ![d] = c]
  /\ upload' = [upload EXCEPT ![d] = where]
  /\ UNCHANGED <<base, object, row, queue, again, run, lost>>

Upload(d, b, c) == Check(d, b, c, "checked")
RegisterDocument(d, b, c) == Check(d, b, c, "registering")

StoreObject(d) ==
  /\ upload[d] = "checked"
  /\ object' = object \cup {d}
  /\ upload' = [upload EXCEPT ![d] = "stored"]
  /\ UNCHANGED <<base, home, content, row, queue, again, run, lost>>

(* Fault: the unique constraint is not there.                              *)
CommitDocumentUnchecked(d, from, stored, refused) ==
  /\ upload[d] = from
  /\ upload' = [upload EXCEPT ![d] = stored]
  /\ status' = [status EXCEPT ![d] = "pending"]
  /\ UNCHANGED <<base, home, content, object, reason, chunks, queue, again, run, lost>>

(* The commit of the row is refused when its content has been taken, or    *)
(* its base deleted, since the check.                                      *)
CommitDocument(d, from, stored, refused) ==
  /\ upload[d] = from
  /\ LET ok == base[home[d]] = "present" /\ ~Taken(home[d], content[d])
     IN  /\ upload' = [upload EXCEPT ![d] = IF ok THEN stored ELSE refused]
         /\ status' = [status EXCEPT ![d] = IF ok THEN "pending" ELSE @]
  /\ UNCHANGED <<base, home, content, object, reason, chunks, queue, again, run, lost>>

CommitUpload(d) == CommitDocument(d, "stored", "committed", "rejected")
CommitRegistration(d) == CommitDocument(d, "registering", "end", "end")

RemoveObject(d) ==
  /\ upload[d] = "rejected"
  /\ object' = object \ {d}
  /\ upload' = [upload EXCEPT ![d] = "end"]
  /\ UNCHANGED <<base, home, content, row, queue, again, run, lost>>

(* Fault: the job is pushed before the row is committed.                   *)
DispatchEarly(d) ==
  /\ upload[d] = "stored"
  /\ queue' = Append(queue, d)
  /\ upload' = [upload EXCEPT ![d] = "end"]
  /\ UNCHANGED <<base, home, content, object, row, again, run, lost>>

Dispatch(d) ==
  /\ upload[d] = "committed"
  /\ queue' = Append(queue, d)
  /\ upload' = [upload EXCEPT ![d] = "end"]
  /\ UNCHANGED <<base, home, content, object, row, again, run, lost>>

(* The request fails, or its process dies: storage, PostgreSQL or Redis is *)
(* unavailable.                                                            *)
UploadFails(d) ==
  /\ upload[d] \in Uploading
  /\ upload' = [upload EXCEPT ![d] = "end"]
  /\ UNCHANGED <<base, home, content, object, row, queue, again, run, lost>>

(* An operator dispatches the job of a document again, once at most.       *)
Redispatch(d) ==
  /\ status[d] \in Rows /\ d \in object \ again
  /\ queue' = Append(queue, d)
  /\ again' = again \cup {d}
  /\ UNCHANGED <<base, request, row, run, lost>>

-----------------------------------------------------------------------------
(* Workers                                                                 *)

Goes(w, to) == pc' = [pc EXCEPT ![w] = to]

(* Fault: the job is read, not popped, and acknowledged by nobody.         *)
PopLeavingJob(w) ==
  /\ pc[w] = "idle" /\ queue # <<>>
  /\ job' = [job EXCEPT ![w] = Head(queue)]
  /\ Goes(w, "popped")
  /\ UNCHANGED <<base, request, row, queue, again, why, old, lost>>

(* BLPOP: the job is gone from Redis before the run begins.                *)
Pop(w) ==
  /\ pc[w] = "idle" /\ queue # <<>>
  /\ job' = [job EXCEPT ![w] = Head(queue)]
  /\ queue' = Tail(queue)
  /\ Goes(w, "popped")
  /\ UNCHANGED <<base, request, row, again, why, old, lost>>

Refused(d) == status[d] = "failed" /\ reason[d] # "internal"

(* The row decides what becomes of the run: a document that is gone or     *)
(* ready has nothing to do; failed -> validating is not a transition, and  *)
(* that is an internal error, which is written if it is not there already. *)
Load(w) ==
  /\ pc[w] = "popped"
  /\ \/ status[job[w]] = "pending" /\ Goes(w, "working")
     \/ Refused(job[w]) /\ Goes(w, "refusing")
     \/ status[job[w]] # "pending" /\ ~Refused(job[w]) /\ Goes(w, "idle")
  /\ UNCHANGED <<base, request, row, queue, again, job, why, old, lost>>

(* Before the row is locked: validation, extraction or chunking, or else   *)
(* embedding, fails ...                                                    *)
WorkFails(w) ==
  /\ pc[w] = "working"
  /\ \E r \in Reasons :
       /\ r = "unparseable" => job[w] \notin object \/ content[job[w]] \notin Parseable
       /\ r = "internal" => job[w] \in object /\ content[job[w]] \in Parseable
       /\ why' = [why EXCEPT ![w] = r]
  /\ Goes(w, "failing")
  /\ UNCHANGED <<base, request, row, queue, again, job, old, lost>>

(* ... or there are vectors for every chunk.                               *)
WorkSucceeds(w) ==
  /\ pc[w] = "working"
  /\ job[w] \in object /\ content[job[w]] \in Parseable
  /\ Goes(w, "indexing")
  /\ UNCHANGED <<base, request, row, queue, again, job, why, old, lost>>

(* An update that finds its row gone raises StaleDataError, the handler    *)
(* commits a session that was rolled back, and the exception ends the      *)
(* worker.                                                                 *)
RowGone(w) ==
  /\ pc[w] \in {"indexing", "failing", "refusing"} /\ status[job[w]] = "deleted"
  /\ Goes(w, "dead")
  /\ UNCHANGED <<base, request, row, queue, again, job, why, old, lost>>

(* Fault: the delete waits for nobody.                                     *)
LockRowAtOnce(w) ==
  /\ pc[w] = "indexing" /\ status[job[w]] \in Rows
  /\ old' = [old EXCEPT ![w] = chunks[job[w]]]
  /\ Goes(w, "holding")
  /\ UNCHANGED <<base, request, row, queue, again, job, why, lost>>

(* The flush before the delete of the old chunks, UPDATE documents, waits  *)
(* for the row; the delete then finds the chunks that were committed.      *)
LockRow(w) ==
  /\ pc[w] = "indexing" /\ status[job[w]] \in Rows /\ RowFree(job[w])
  /\ old' = [old EXCEPT ![w] = chunks[job[w]]]
  /\ Goes(w, "holding")
  /\ UNCHANGED <<base, request, row, queue, again, job, why, lost>>

(* The run read failure_reason as NULL, so setting it to NULL writes       *)
(* nothing.                                                                *)
CommitIndex(w) ==
  /\ pc[w] = "holding"
  /\ chunks' = [chunks EXCEPT ![job[w]] = (@ \ old[w]) \cup {w}]
  /\ status' = [status EXCEPT ![job[w]] = "ready"]
  /\ Goes(w, "idle")
  /\ UNCHANGED <<base, request, reason, queue, again, job, why, old, lost>>

(* The embedder returned more or fewer vectors than there are chunks: zip  *)
(* raises after the delete, and the handler commits the failure with it.   *)
CommitEmptied(w) ==
  /\ pc[w] = "holding"
  /\ chunks' = [chunks EXCEPT ![job[w]] = @ \ old[w]]
  /\ status' = [status EXCEPT ![job[w]] = "failed"]
  /\ reason' = [reason EXCEPT ![job[w]] = "internal"]
  /\ Goes(w, "idle")
  /\ UNCHANGED <<base, request, queue, again, job, why, old, lost>>

(* The database refuses the chunks: the commit of the handler raises as    *)
(* well, all of it rolls back, and the exception ends the worker.          *)
FlushFails(w) ==
  /\ pc[w] = "holding"
  /\ Goes(w, "dead")
  /\ lost' = lost \cup {job[w]}
  /\ UNCHANGED <<base, request, row, queue, again, job, why, old>>

(* Fault: the failure gets a status that no query knows.                   *)
CommitFailureAsError(w) ==
  /\ pc[w] = "failing" /\ status[job[w]] \in Rows /\ RowFree(job[w])
  /\ status' = [status EXCEPT ![job[w]] = "error"]
  /\ reason' = [reason EXCEPT ![job[w]] = why[w]]
  /\ Goes(w, "idle")
  /\ UNCHANGED <<base, request, chunks, queue, again, job, why, old, lost>>

(* Fault: the failure is recorded without its reason.                      *)
CommitFailureSilently(w) ==
  /\ pc[w] = "failing" /\ status[job[w]] \in Rows /\ RowFree(job[w])
  /\ status' = [status EXCEPT ![job[w]] = "failed"]
  /\ Goes(w, "idle")
  /\ UNCHANGED <<base, request, reason, chunks, queue, again, job, why, old, lost>>

(* A run that started from a pending row writes failed and the reason.     *)
CommitFailure(w) ==
  /\ pc[w] = "failing" /\ status[job[w]] \in Rows /\ RowFree(job[w])
  /\ status' = [status EXCEPT ![job[w]] = "failed"]
  /\ reason' = [reason EXCEPT ![job[w]] = why[w]]
  /\ Goes(w, "idle")
  /\ UNCHANGED <<base, request, chunks, queue, again, job, why, old, lost>>

(* A run that started from a failed row writes what it changed of it: the  *)
(* reason.                                                                 *)
CommitRefusal(w) ==
  /\ pc[w] = "refusing" /\ status[job[w]] \in Rows /\ RowFree(job[w])
  /\ reason' = [reason EXCEPT ![job[w]] = "internal"]
  /\ Goes(w, "idle")
  /\ UNCHANGED <<base, request, status, chunks, queue, again, job, why, old, lost>>

(* The worker is killed: its transaction rolls back, its job is gone.      *)
WorkerDies(w) ==
  /\ pc[w] \in Running
  /\ Goes(w, "dead")
  /\ lost' = lost \cup {job[w]}
  /\ UNCHANGED <<base, request, row, queue, again, job, why, old>>

StartWorker(w) ==
  /\ pc[w] = "dead"
  /\ Goes(w, "idle")
  /\ UNCHANGED <<base, request, row, queue, again, job, why, old, lost>>

-----------------------------------------------------------------------------
Request(d) ==
  \/ \E b \in Bases, c \in Contents : Upload(d, b, c) \/ RegisterDocument(d, b, c)
  \/ StoreObject(d) \/ CommitUpload(d) \/ CommitRegistration(d)
  \/ RemoveObject(d) \/ Dispatch(d) \/ UploadFails(d) \/ Redispatch(d)

Run(w) ==
  \/ Pop(w) \/ Load(w) \/ WorkFails(w) \/ WorkSucceeds(w)
  \/ RowGone(w) \/ LockRow(w) \/ CommitIndex(w) \/ CommitEmptied(w) \/ FlushFails(w)
  \/ CommitFailure(w) \/ CommitRefusal(w)

Next ==
  \/ \E b \in Bases : CreateBase(b) \/ DeleteBase(b)
  \/ \E d \in Documents : Request(d)
  \/ \E w \in Workers : Run(w) \/ WorkerDies(w) \/ StartWorker(w)

Spec == Init /\ [][Next]_vars

(* The loop of a living worker goes on; nobody has to start a dead one.    *)
Fairness == \A w \in Workers : WF_vars(Run(w))
FairSpec == Spec /\ Fairness

-----------------------------------------------------------------------------
(* Properties                                                              *)

(* What is searched is the index of one run, entire: a ready document has  *)
(* the chunks of exactly one run, even when two runs of its job overlapped *)
(* (the update before the delete serialises them), and a document that was *)
(* never indexed, or was deleted, has none.  A failed one has the index of *)
(* an earlier run at most, and none if it was dispatched once.             *)
IndexIsOfOneRun ==
  \A d \in Documents :
    /\ status[d] = "ready" => \E w \in Workers : chunks[d] = {w}
    /\ status[d] = "failed" => \A v, w \in chunks[d] : v = w /\ d \in again
    /\ status[d] \in {"absent", "pending", "deleted"} => chunks[d] = {}

(* No two documents of a base have the same content, though uploads and    *)
(* registrations check for it long before they commit.                     *)
ContentIsRegisteredOnce ==
  \A d, e \in Documents :
    status[d] \in Rows /\ status[e] \in Rows /\ home[d] = home[e] /\ content[d] = content[e]
      => d = e

Jobs == {queue[i] : i \in DOMAIN queue} \cup {job[w] : w \in {v \in Workers : pc[v] \in Running}}

(* A worker always sees the committed registration its job is about, with  *)
(* its object, or that the document was deleted since: never a job ahead   *)
(* of its commit, never an object removed under a row that was committed.  *)
JobsSeeRegistration ==
  \A d \in Jobs : status[d] # "absent" /\ d \in object

(* A failed document tells why, and one that was dispatched once has a     *)
(* reason only if it failed.                                               *)
FailureIsExplained ==
  \A d \in Documents :
    /\ status[d] = "failed" => reason[d] # None
    /\ reason[d] # None /\ d \notin again => status[d] \in {"failed", "deleted"}

(* transitions.py gives ready and failed no way out: a document that was   *)
(* dispatched once leaves them only with its base, its reason and index    *)
(* kept until then.                                                        *)
TerminalIsFinal ==
  [][\A d \in Documents \ again :
       status[d] \in {"ready", "failed"} /\ status'[d] # "deleted" =>
         UNCHANGED <<status[d], reason[d], chunks[d]>>]_vars

(* What the users of a knowledge base see of all this is a Library: a run  *)
(* settles its document in one step or not at all, a document that was     *)
(* dispatched once has one such step, and no commit of a request or a run  *)
(* puts anything into a base that was deleted under it.                    *)
Promise == INSTANCE Library WITH
  place <- [d \in Documents |-> IF status[d] = "absent" THEN None ELSE <<home[d], content[d]>>],
  index <- chunks, Indexes <- Workers
KeepsPromise == Promise!Spec

Settled(d) == status[d] \in {"ready", "failed", "deleted"}
InQueue(d) == \E i \in DOMAIN queue : queue[i] = d

(* A job in the queue brings its document to a terminal state, unless the  *)
(* worker that popped it was killed or ended by a database error, or no    *)
(* worker is left: the row locks never hold up a run for ever.             *)
QueuedSettles ==
  \A d \in Documents :
    InQueue(d) ~> Settled(d) \/ d \in lost \/ \A w \in Workers : pc[w] = "dead"
=============================================================================
