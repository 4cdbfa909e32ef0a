-------------------------- MODULE Ingestion_proofs --------------------------
(***************************************************************************)
(* Theorems about Ingestion, for any sets of bases, documents, contents    *)
(* and workers.  The invariant follows a document from its request to its  *)
(* row, and its job from the queue to a worker: the row is committed       *)
(* before there is a job, a document that was dispatched once has one job  *)
(* at most, and none once its row is terminal, and a run that holds a row  *)
(* holds it alone, so that its delete took all the chunks there are.       *)
(***************************************************************************)
EXTENDS Ingestion, Naturals, TLAPS

(* What a request has done so far.                                         *)
RequestAt(d) ==
  /\ upload[d] # "none" => home[d] \in Bases /\ content[d] \in Contents
  /\ upload[d] \notin {"committed", "end"} => status[d] = "absent"
  /\ upload[d] \in {"stored", "committed"} => d \in object
  /\ upload[d] = "committed" =>
       status[d] # "absent" /\ (d \notin again => status[d] \in {"pending", "deleted"})
  /\ status[d] = "absent" => reason[d] = None /\ d \notin again

(* What a run knows.                                                       *)
RunAt(w) ==
  /\ pc[w] \in Running =>
       job[w] \in Documents /\ status[job[w]] # "absent" /\ job[w] \in object
  /\ pc[w] = "failing" => why[w] \in Reasons
  /\ pc[w] = "holding" => status[job[w]] \in Rows
  /\ pc[w] = "refusing" =>
       job[w] \in again /\ status[job[w]] \in {"ready", "failed", "deleted"}

(* The lock of a row.                                                      *)
RowIsHeldOnce ==
  /\ \A v, w \in Workers : pc[v] = "holding" /\ pc[w] = "holding" /\ job[v] = job[w] => v = w
  /\ \A w \in Workers : pc[w] = "holding" => old[w] = chunks[job[w]]

JobsInQueue == \A i \in 1..Len(queue) : status[queue[i]] # "absent" /\ queue[i] \in object

Runs(d) == {w \in Workers : pc[w] \in Running /\ job[w] = d}
Waits(d) == {i \in 1..Len(queue) : queue[i] = d}

(* One dispatch, one job.                                                  *)
OneJob(d) ==
  d \notin again =>
    /\ upload[d] # "end" \/ status[d] \in {"ready", "failed"} => Runs(d) = {} /\ Waits(d) = {}
    /\ Waits(d) # {} => Runs(d) = {}
    /\ \A i, j \in Waits(d) : i = j
    /\ \A v, w \in Runs(d) : v = w

IInv ==
  /\ TypeOK
  /\ \A d \in Documents : RequestAt(d)
  /\ \A w \in Workers : RunAt(w)
  /\ RowIsHeldOnce
  /\ JobsInQueue
  /\ \A d \in Documents : OneJob(d)
  /\ IndexIsOfOneRun
  /\ ContentIsRegisteredOnce
  /\ FailureIsExplained

-----------------------------------------------------------------------------
(* Lemmas                                                                  *)

LEMMA TypeInductive == TypeOK /\ (\A w \in Workers : RunAt(w)) /\ [Next]_vars => TypeOK'
<1> USE DEF TypeOK, request, row, run, Rows, Reasons, Running, Uploading
<1> SUFFICES ASSUME TypeOK, \A w \in Workers : RunAt(w), [Next]_vars PROVE TypeOK'
  OBVIOUS
<1>1. ASSUME NEW b \in Bases, CreateBase(b) \/ DeleteBase(b) PROVE TypeOK'
  BY <1>1 DEF CreateBase, DeleteBase
<1>2. ASSUME NEW d \in Documents, Request(d) PROVE TypeOK'
  <2>1. ASSUME NEW b \in Bases, NEW c \in Contents, Upload(d, b, c) \/ RegisterDocument(d, b, c)
        PROVE  TypeOK'
    <3>1. \E where \in Uploading : Check(d, b, c, where)
      BY <2>1 DEF Upload, RegisterDocument
    <3>2. PICK where \in Uploading : Check(d, b, c, where)
      BY <3>1
    <3>3. b \in Bases \cup {None} /\ c \in Contents \cup {None}
          /\ where \in {"none", "end"} \cup Uploading
      OBVIOUS
    <3> QED
      BY <3>2, <3>3 DEF Check
  <2>2. CASE StoreObject(d)
    BY <2>2 DEF StoreObject
  <2>3. CASE CommitUpload(d) \/ CommitRegistration(d)
    BY <2>3 DEF CommitUpload, CommitRegistration, CommitDocument
  <2>4. CASE RemoveObject(d)
    BY <2>4 DEF RemoveObject
  <2>5. CASE Dispatch(d)
    BY <2>5 DEF Dispatch
  <2>6. CASE UploadFails(d)
    BY <2>6 DEF UploadFails
  <2>7. CASE Redispatch(d)
    BY <2>7 DEF Redispatch
  <2> QED
    BY <1>2, <2>1, <2>2, <2>3, <2>4, <2>5, <2>6, <2>7 DEF Request
<1>3. ASSUME NEW w \in Workers, Run(w) PROVE TypeOK'
  <2>1. CASE Pop(w)
    <3>1. Head(queue) \in Documents /\ Tail(queue) \in Seq(Documents)
      BY <2>1 DEF Pop
    <3> QED
      BY <2>1, <3>1 DEF Pop, Goes
  <2>2. CASE Load(w)
    BY <2>2 DEF Load, Goes
  <2>3. CASE WorkFails(w)
    BY <2>3 DEF WorkFails, Goes
  <2>4. CASE WorkSucceeds(w) \/ RowGone(w)
    <3>1. ASSUME NEW p \in {"indexing", "dead"}, Goes(w, p),
                 UNCHANGED <<base, request, row, queue, again, job, why, old, lost>>
          PROVE  TypeOK'
      BY <3>1 DEF Goes
    <3> HIDE DEF TypeOK, request, row, run, Rows, Reasons, Running, Uploading
    <3> QED
      BY <2>4, <3>1 DEF WorkSucceeds, RowGone
  <2>5. CASE LockRow(w)
    <3>1. job[w] \in Documents
      BY <2>5 DEF LockRow, RunAt
    <3> QED
      BY <2>5, <3>1 DEF LockRow, Goes
  <2>6. CASE CommitFailure(w)
    <3>1. RunAt(w)
      OBVIOUS
    <3> QED
      BY <2>6, <3>1 DEF CommitFailure, Goes, RunAt
  <2>7. CASE CommitRefusal(w)
    BY <2>7 DEF CommitRefusal, Goes
  <2>8. CASE CommitIndex(w)
    BY <2>8 DEF CommitIndex, Goes
  <2>9. CASE CommitEmptied(w)
    BY <2>9 DEF CommitEmptied, Goes
  <2>10. CASE FlushFails(w)
    <3>1. RunAt(w)
      OBVIOUS
    <3> QED
      BY <2>10, <3>1 DEF FlushFails, Goes, RunAt
  <2> QED
    BY <1>3, <2>1, <2>2, <2>3, <2>4, <2>5, <2>6, <2>7, <2>8, <2>9, <2>10 DEF Run
<1>4. ASSUME NEW w \in Workers, WorkerDies(w) \/ StartWorker(w) PROVE TypeOK'
  <2>1. RunAt(w)
    OBVIOUS
  <2> QED
    BY <1>4, <2>1 DEF WorkerDies, StartWorker, Goes, RunAt
<1>5. CASE UNCHANGED vars
  BY <1>5 DEF vars
<1> QED
  BY <1>1, <1>2, <1>3, <1>4, <1>5 DEF Next

(* What a worker may do to a row, and to the jobs.                         *)
LEMMA WorkerEffect ==
  ASSUME IInv, NEW w \in Workers, Run(w) \/ WorkerDies(w) \/ StartWorker(w)
  PROVE  /\ UNCHANGED <<base, upload, home, content, object, again>>
         /\ \A d \in Documents :
              \/ status'[d] = status[d] /\ reason'[d] = reason[d] /\ chunks'[d] = chunks[d]
              \/ w \in Runs(d) /\ status[d] \in Rows /\ status'[d] \in {"ready", "failed"}
         /\ \A v \in Workers \ {w} : pc'[v] = pc[v] /\ job'[v] = job[v] /\ why'[v] = why[v]
<1> USE DEF IInv, TypeOK, request, row, run, Rows, Goes
<1>0. RunAt(w)
  OBVIOUS
<1>1. CASE Pop(w)
  BY <1>1 DEF Pop
<1>2. CASE Load(w) \/ WorkFails(w) \/ WorkSucceeds(w) \/ RowGone(w) \/ LockRow(w) \/ FlushFails(w)
  BY <1>2 DEF Load, WorkFails, WorkSucceeds, RowGone, LockRow, FlushFails
<1>3. CASE CommitIndex(w) \/ CommitEmptied(w)
  BY <1>0, <1>3 DEF CommitIndex, CommitEmptied, RunAt, Running, Runs
<1>4. CASE CommitFailure(w)
  BY <1>0, <1>4 DEF CommitFailure, RunAt, Running, Runs
<1>5. CASE CommitRefusal(w)
  <2>1. RunAt(w)
    OBVIOUS
  <2>2. w \in Runs(job[w]) /\ job[w] \in Documents
    BY <1>5, <2>1 DEF CommitRefusal, RunAt, Running, Runs
  <2>3. status[job[w]] \in {"ready", "failed"}
    BY <1>5, <2>1 DEF CommitRefusal, RunAt
  <2> QED
    BY <1>5, <2>2, <2>3 DEF CommitRefusal
<1>6. CASE WorkerDies(w) \/ StartWorker(w)
  BY <1>6 DEF WorkerDies, StartWorker
<1> QED
  BY <1>1, <1>2, <1>3, <1>4, <1>5, <1>6 DEF Run

LEMMA RequestInductive ==
  ASSUME IInv, [Next]_vars, NEW d \in Documents
  PROVE  RequestAt(d)'
<1> USE DEF IInv, TypeOK, request, row, run, Rows, Uploading
<1>0. RequestAt(d) /\ OneJob(d)
  OBVIOUS
<1>1. ASSUME NEW b \in Bases, CreateBase(b) \/ DeleteBase(b) PROVE RequestAt(d)'
  BY <1>0, <1>1 DEF CreateBase, DeleteBase, RequestAt
<1>2. ASSUME NEW e \in Documents, Request(e) PROVE RequestAt(d)'
  <2>1. ASSUME NEW b \in Bases, NEW c \in Contents, NEW where \in {"checked", "registering"},
               Check(e, b, c, where)
        PROVE  RequestAt(d)'
    BY <1>0, <2>1 DEF Check, RequestAt
  <2>2. CASE StoreObject(e)
    BY <1>0, <2>2 DEF StoreObject, RequestAt
  <2>3. CASE CommitUpload(e)
    BY <1>0, <2>3 DEF CommitUpload, CommitDocument, RequestAt
  <2>4. CASE CommitRegistration(e)
    BY <1>0, <2>4 DEF CommitRegistration, CommitDocument, RequestAt
  <2>5. CASE RemoveObject(e)
    BY <1>0, <2>5 DEF RemoveObject, RequestAt
  <2>6. CASE Dispatch(e) \/ UploadFails(e)
    BY <1>0, <2>6 DEF Dispatch, UploadFails, RequestAt
  <2>7. CASE Redispatch(e)
    BY <1>0, <2>7 DEF Redispatch, RequestAt
  <2> QED
    BY <1>2, <2>1, <2>2, <2>3, <2>4, <2>5, <2>6, <2>7 DEF Request, Upload, RegisterDocument
<1>3. ASSUME NEW w \in Workers, Run(w) \/ WorkerDies(w) \/ StartWorker(w)
      PROVE  RequestAt(d)'
  <2>1. /\ UNCHANGED <<base, upload, home, content, object, again>>
        /\ \/ status'[d] = status[d] /\ reason'[d] = reason[d]
           \/ w \in Runs(d) /\ status[d] \in Rows /\ status'[d] \in {"ready", "failed"}
    BY <1>3, WorkerEffect
  <2> QED
    BY <1>0, <2>1 DEF RequestAt, OneJob
<1>4. CASE UNCHANGED vars
  BY <1>0, <1>4 DEF vars, RequestAt
<1> QED
  BY <1>1, <1>2, <1>3, <1>4 DEF Next

(* What a request may do to rows and objects, and to the queue.            *)
LEMMA RequestEffect ==
  ASSUME IInv, NEW d \in Documents, Request(d)
  PROVE  /\ UNCHANGED <<base, reason, chunks, pc, job, why, old>> /\ again \subseteq again'
         /\ \A e \in Documents : status'[e] = status[e] \/ (status[e] = "absent" /\ status'[e] = "pending")
         /\ \A e \in object : e \in object' \/ status'[e] = "absent"
         /\ queue' # queue => queue' = Append(queue, d) /\ status[d] # "absent" /\ d \in object'
<1> USE DEF IInv, TypeOK, request, row, run, Rows, Uploading
<1>0. RequestAt(d)
  OBVIOUS
<1>1. CASE \E b \in Bases, c \in Contents : Upload(d, b, c) \/ RegisterDocument(d, b, c)
  BY <1>1 DEF Upload, RegisterDocument, Check
<1>2. CASE StoreObject(d)
  BY <1>2 DEF StoreObject
<1>3. CASE CommitUpload(d) \/ CommitRegistration(d)
  BY <1>0, <1>3 DEF CommitUpload, CommitRegistration, CommitDocument, RequestAt
<1>4. CASE RemoveObject(d)
  BY <1>0, <1>4 DEF RemoveObject, RequestAt
<1>5. CASE Dispatch(d)
  BY <1>0, <1>5 DEF Dispatch, RequestAt
<1>6. CASE UploadFails(d)
  BY <1>6 DEF UploadFails
<1>7. CASE Redispatch(d)
  BY <1>7 DEF Redispatch
<1> QED
  BY <1>1, <1>2, <1>3, <1>4, <1>5, <1>6, <1>7 DEF Request

LEMMA BaseEffect ==
  ASSUME IInv, NEW b \in Bases, CreateBase(b) \/ DeleteBase(b)
  PROVE  /\ UNCHANGED <<upload, home, content, object, reason, queue, again, pc, job, why, old>>
         /\ \A d \in Documents :
              \/ status'[d] = status[d] /\ chunks'[d] = chunks[d]
              \/ status'[d] = status[d] /\ status[d] \notin Rows /\ chunks'[d] = {}
              \/ /\ status[d] \in Rows /\ status'[d] = "deleted" /\ chunks'[d] = {}
                 /\ RowFree(d)
  BY DEF IInv, TypeOK, CreateBase, DeleteBase, request, row, run

LEMMA RunInductive ==
  ASSUME IInv, [Next]_vars, NEW v \in Workers
  PROVE  RunAt(v)'
<1> USE DEF IInv, TypeOK, Rows, Reasons, Running
<1>0. RunAt(v)
  OBVIOUS
<1>1. ASSUME NEW b \in Bases, CreateBase(b) \/ DeleteBase(b) PROVE RunAt(v)'
  BY <1>0, <1>1, BaseEffect DEF RunAt, RowFree
<1>2. ASSUME NEW d \in Documents, Request(d) PROVE RunAt(v)'
  BY <1>0, <1>2, RequestEffect DEF RunAt
<1>3. ASSUME NEW w \in Workers, w # v, Run(w) \/ WorkerDies(w) \/ StartWorker(w)
      PROVE  RunAt(v)'
  BY <1>0, <1>3, WorkerEffect DEF RunAt
<1>4. CASE Run(v)
  <2> USE DEF Goes, request, row
  <2>1. CASE Pop(v)
    <3>1. Len(queue) \in Nat /\ Len(queue) >= 1 /\ Head(queue) = queue[1] /\ Head(queue) \in Documents
      BY <2>1 DEF Pop
    <3>2. status[Head(queue)] # "absent" /\ Head(queue) \in object
      BY <3>1 DEF JobsInQueue
    <3> QED
      BY <2>1, <3>1, <3>2 DEF Pop, RunAt
  <2>2. CASE Load(v)
    <3>1. RequestAt(job[v]) /\ OneJob(job[v]) /\ v \in Runs(job[v])
      BY <1>0, <2>2 DEF Load, RunAt, Runs
    <3> QED
      BY <1>0, <2>2, <3>1 DEF Load, RunAt, Refused, OneJob
  <2>3. CASE WorkFails(v)
    BY <1>0, <2>3 DEF WorkFails, RunAt
  <2>4. CASE WorkSucceeds(v) \/ RowGone(v) \/ LockRow(v) \/ FlushFails(v)
    BY <1>0, <2>4 DEF WorkSucceeds, RowGone, LockRow, FlushFails, RunAt
  <2>5. CASE CommitIndex(v) \/ CommitEmptied(v)
    BY <1>0, <2>5 DEF CommitIndex, CommitEmptied, RunAt
  <2>6. CASE CommitFailure(v) \/ CommitRefusal(v)
    BY <1>0, <2>6 DEF CommitFailure, CommitRefusal, RunAt
  <2> QED
    BY <1>4, <2>1, <2>2, <2>3, <2>4, <2>5, <2>6 DEF Run
<1>5. CASE WorkerDies(v) \/ StartWorker(v)
  BY <1>0, <1>5 DEF WorkerDies, StartWorker, Goes, request, row, RunAt
<1>6. CASE UNCHANGED vars
  BY <1>0, <1>6 DEF vars, request, row, run, RunAt
<1> QED
  BY <1>1, <1>2, <1>3, <1>4, <1>5, <1>6 DEF Next

(* What a worker may do to the queue.                                      *)
LEMMA WorkerQueue ==
  ASSUME IInv, NEW w \in Workers, Run(w) \/ WorkerDies(w) \/ StartWorker(w)
  PROVE  \/ /\ queue' = queue /\ job' = job
            /\ pc'[w] \in Running => pc[w] \in Running /\ status' = status
         \/ Pop(w)
<1> USE DEF Goes, run, row, IInv, TypeOK, Running
<1>1. CASE Load(w) \/ WorkFails(w) \/ WorkSucceeds(w) \/ RowGone(w) \/ LockRow(w) \/ FlushFails(w)
  BY <1>1 DEF Load, WorkFails, WorkSucceeds, RowGone, LockRow, FlushFails
<1>2. CASE CommitIndex(w) \/ CommitEmptied(w) \/ CommitFailure(w) \/ CommitRefusal(w)
           \/ WorkerDies(w) \/ StartWorker(w)
  BY <1>2 DEF CommitIndex, CommitEmptied, CommitFailure, CommitRefusal, WorkerDies, StartWorker
<1>3. CASE Pop(w)
  BY <1>3
<1> QED
  BY <1>1, <1>2, <1>3 DEF Run

LEMMA QueueInductive ==
  ASSUME IInv, [Next]_vars
  PROVE  JobsInQueue'
<1> DEFINE Good(e) == e \in Documents /\ status[e] # "absent" /\ e \in object
<1>0. /\ queue \in Seq(Documents) /\ Len(queue) \in Nat
      /\ \A i \in 1..Len(queue) : Good(queue[i])
  BY DEF IInv, TypeOK, JobsInQueue
<1>1. ASSUME queue' = queue, \A e \in Documents : Good(e) => status'[e] # "absent" /\ e \in object'
      PROVE  JobsInQueue'
  BY <1>0, <1>1 DEF JobsInQueue
<1>2. ASSUME NEW b \in Bases, CreateBase(b) \/ DeleteBase(b) PROVE JobsInQueue'
  BY <1>1, <1>2, BaseEffect DEF Rows
<1>3. ASSUME NEW d \in Documents, Request(d) PROVE JobsInQueue'
  <2>1. \A e \in Documents : Good(e) => status'[e] # "absent" /\ e \in object'
    BY <1>3, RequestEffect
  <2>2. CASE queue' = Append(queue, d) /\ status[d] # "absent" /\ d \in object'
    <3>1. Len(queue') = Len(queue) + 1 /\ queue'[Len(queue) + 1] = d
          /\ \A i \in 1..Len(queue) : queue'[i] = queue[i]
      BY <1>0, <2>2
    <3>2. status'[d] # "absent"
      BY <1>3, <2>2, RequestEffect
    <3>3. ASSUME NEW i \in 1..Len(queue') PROVE status'[queue'[i]] # "absent" /\ queue'[i] \in object'
      <4>1. i \in 1..Len(queue) \/ i = Len(queue) + 1
        BY <1>0, <3>1
      <4> QED
        BY <1>0, <2>1, <2>2, <3>1, <3>2, <4>1
    <3> QED
      BY <3>3 DEF JobsInQueue
  <2> QED
    BY <1>1, <1>3, <2>1, <2>2, RequestEffect
<1>4. ASSUME NEW w \in Workers, Run(w) \/ WorkerDies(w) \/ StartWorker(w)
      PROVE  JobsInQueue'
  <2>1. \A e \in Documents : Good(e) => status'[e] # "absent" /\ e \in object'
    BY <1>4, WorkerEffect DEF Rows
  <2>2. CASE Pop(w)
    <3>1. ASSUME NEW i \in 1..Len(queue')
          PROVE  i + 1 \in 1..Len(queue) /\ queue'[i] = queue[i + 1]
      BY <1>0, <2>2 DEF Pop
    <3> QED
      BY <1>0, <2>1, <3>1 DEF JobsInQueue
  <2> QED
    BY <1>1, <1>4, <2>1, <2>2, WorkerQueue
<1>5. CASE UNCHANGED vars
  BY <1>1, <1>5 DEF vars, request, row
<1> QED
  BY <1>2, <1>3, <1>4, <1>5 DEF Next

(* A request touches the row and the job of its own document only.         *)
LEMMA RequestLocal ==
  ASSUME IInv, NEW d \in Documents, Request(d), NEW e \in Documents, e # d
  PROVE  upload'[e] = upload[e] /\ status'[e] = status[e] /\ (e \in again' => e \in again)
<1> USE DEF IInv, TypeOK, request, row, run
<1>1. CASE \E b \in Bases, c \in Contents : Upload(d, b, c) \/ RegisterDocument(d, b, c)
  BY <1>1 DEF Upload, RegisterDocument, Check
<1>2. CASE CommitUpload(d) \/ CommitRegistration(d)
  BY <1>2 DEF CommitUpload, CommitRegistration, CommitDocument
<1>3. CASE StoreObject(d) \/ RemoveObject(d) \/ Dispatch(d) \/ UploadFails(d) \/ Redispatch(d)
  BY <1>3 DEF StoreObject, RemoveObject, Dispatch, UploadFails, Redispatch
<1> QED
  BY <1>1, <1>2, <1>3 DEF Request

(* How the waiting jobs of a document change with the queue.               *)
LEMMA WaitsAppend ==
  ASSUME queue \in Seq(Documents), NEW d \in Documents, NEW e \in Documents,
         queue' = Append(queue, e)
  PROVE  Waits(d)' = IF e = d THEN Waits(d) \cup {Len(queue) + 1} ELSE Waits(d)
<1>1. /\ Len(queue) \in Nat /\ Len(queue') = Len(queue) + 1 /\ queue'[Len(queue) + 1] = e
      /\ \A i \in 1..Len(queue) : queue'[i] = queue[i]
  OBVIOUS
<1>2. \A i : i \in 1..Len(queue') <=> i \in 1..Len(queue) \/ i = Len(queue) + 1
  BY <1>1
<1>3. Len(queue) + 1 \notin 1..Len(queue)
  BY <1>1
<1> QED
  BY <1>1, <1>2, <1>3 DEF Waits

LEMMA WaitsTail ==
  ASSUME queue \in Seq(Documents), queue # <<>>, NEW d \in Documents, queue' = Tail(queue)
  PROVE  /\ \A i \in Waits(d)' : i + 1 \in Waits(d) /\ i \in Nat /\ i # 0
         /\ Head(queue) = d => 1 \in Waits(d)
<1>1. /\ Len(queue) \in Nat /\ Len(queue) >= 1 /\ Len(queue') = Len(queue) - 1
      /\ Head(queue) = queue[1]
  OBVIOUS
<1>2. ASSUME NEW i \in 1..Len(queue')
      PROVE  i + 1 \in 1..Len(queue) /\ queue'[i] = queue[i + 1] /\ i \in Nat /\ i # 0
  BY <1>1
<1> QED
  BY <1>1, <1>2 DEF Waits

LEMMA OneJobInductive ==
  ASSUME IInv, [Next]_vars, NEW d \in Documents
  PROVE  OneJob(d)'
<1> USE DEF IInv, TypeOK
<1>0. OneJob(d) /\ RequestAt(d)
  OBVIOUS
<1>1. Runs(d)' = {w \in Workers : pc'[w] \in Running /\ job'[w] = d}
      /\ (queue' = queue => Waits(d)' = Waits(d))
  BY DEF Runs, Waits
<1>2. Runs(d)' = {} /\ Waits(d)' = {} => OneJob(d)'
  BY DEF OneJob
<1>3. ASSUME NEW b \in Bases, CreateBase(b) \/ DeleteBase(b) PROVE OneJob(d)'
  BY <1>0, <1>1, <1>3, BaseEffect DEF OneJob, Runs, Rows
<1>4. ASSUME NEW e \in Documents, e # d, Request(e) PROVE OneJob(d)'
  <2>1. UNCHANGED <<pc, job>> /\ upload'[d] = upload[d] /\ status'[d] = status[d]
        /\ (d \in again => d \in again')
    BY <1>4, RequestEffect, RequestLocal
  <2>2. Waits(d)' = Waits(d)
    BY <1>1, <1>4, RequestEffect, WaitsAppend
  <2> QED
    BY <1>0, <1>1, <2>1, <2>2 DEF OneJob, Runs
<1>5. CASE Request(d)
  <2> SUFFICES ASSUME d \notin again' PROVE OneJob(d)'
    BY DEF OneJob
  <2>1. UNCHANGED <<pc, job>> /\ d \notin again /\ Runs(d)' = Runs(d)
    BY <1>1, <1>5, RequestEffect DEF Runs
  <2>2. upload[d] # "end"
    BY <1>5, <2>1 DEF Request, Upload, RegisterDocument, Check, StoreObject, CommitUpload,
      CommitRegistration, CommitDocument, RemoveObject, Dispatch, UploadFails, Redispatch, Uploading
  <2>3. Runs(d) = {} /\ Waits(d) = {}
    BY <1>0, <2>1, <2>2 DEF OneJob
  <2>4. CASE queue' = queue
    BY <1>1, <1>2, <2>1, <2>3, <2>4
  <2>5. CASE Dispatch(d)
    <3>1. upload' [d] = "end" /\ status'[d] \in {"pending", "deleted"}
      BY <1>0, <2>1, <2>5 DEF Dispatch, RequestAt, row
    <3>2. Waits(d)' = {Len(queue) + 1}
      BY <2>3, <2>5, WaitsAppend DEF Dispatch
    <3> QED
      BY <2>1, <2>3, <3>1, <3>2 DEF OneJob
  <2>6. queue' = queue \/ Dispatch(d)
    BY <1>5, <2>1 DEF Request, Upload, RegisterDocument, Check, StoreObject, CommitUpload,
      CommitRegistration, CommitDocument, RemoveObject, UploadFails, Redispatch
  <2> QED
    BY <2>4, <2>5, <2>6
<1>6. ASSUME NEW w \in Workers, Run(w) \/ WorkerDies(w) \/ StartWorker(w)
      PROVE  OneJob(d)'
  <2>1. /\ upload' = upload /\ again' = again
        /\ \A v \in Workers \ {w} : pc'[v] = pc[v] /\ job'[v] = job[v]
    BY <1>6, WorkerEffect
  <2>2. CASE Pop(w)
    <3>1. /\ queue # <<>> /\ queue' = Tail(queue) /\ pc[w] = "idle" /\ status' = status
          /\ job'[w] = Head(queue)
      BY <2>2 DEF Pop, row
    <3>2. \A v \in Workers \ {w} : v \in Runs(d)' <=> v \in Runs(d)
      BY <1>1, <2>1 DEF Runs
    <3>3. w \notin Runs(d) /\ (w \in Runs(d)' => Head(queue) = d)
      BY <1>1, <3>1 DEF Runs, Running
    <3>4. CASE Head(queue) = d
      <4>1. 1 \in Waits(d) /\ \A i \in Waits(d)' : i + 1 \in Waits(d) /\ i \in Nat /\ i # 0
        BY <3>1, <3>4, WaitsTail
      <4>2. d \notin again => Waits(d)' = {}
        <5> SUFFICES ASSUME d \notin again, NEW i \in Waits(d)' PROVE FALSE
          OBVIOUS
        <5>1. i + 1 = 1
          BY <1>0, <4>1 DEF OneJob
        <5> QED
          BY <4>1, <5>1
      <4>3. d \notin again => Runs(d) = {} /\ ~(upload[d] # "end" \/ status[d] \in {"ready", "failed"})
        BY <1>0, <4>1 DEF OneJob
      <4>4. d \notin again => Runs(d)' \subseteq {w}
        BY <3>2, <4>3 DEF Runs
      <4> QED
        BY <2>1, <3>1, <4>2, <4>3, <4>4 DEF OneJob
    <3>5. CASE Head(queue) # d
      <4>1. Runs(d)' = Runs(d)
        BY <3>2, <3>3, <3>5 DEF Runs
      <4>2. \A i \in Waits(d)' : i + 1 \in Waits(d) /\ i \in Nat
        BY <3>1, WaitsTail
      <4>3. d \notin again => \A i, j \in Waits(d)' : i = j
        <5> SUFFICES ASSUME d \notin again, NEW i \in Waits(d)', NEW j \in Waits(d)' PROVE i = j
          OBVIOUS
        <5>1. i + 1 = j + 1
          BY <1>0, <4>2 DEF OneJob
        <5> QED
          BY <4>2, <5>1
      <4>4. Waits(d) = {} => Waits(d)' = {}
        BY <4>2
      <4> QED
        BY <1>0, <2>1, <3>1, <4>1, <4>2, <4>3, <4>4 DEF OneJob
    <3> QED
      BY <3>4, <3>5
  <2>3. CASE /\ queue' = queue /\ job' = job
             /\ pc'[w] \in Running => pc[w] \in Running /\ status' = status
    <3>1. Waits(d)' = Waits(d) /\ Runs(d)' \subseteq Runs(d)
      BY <1>1, <2>1, <2>3 DEF Runs
    <3>2. CASE status'[d] = status[d]
      BY <1>0, <2>1, <3>1, <3>2 DEF OneJob
    <3>3. CASE status'[d] # status[d]
      <4>1. w \in Runs(d) /\ w \notin Runs(d)'
        BY <1>1, <1>6, <2>3, <3>3, WorkerEffect
      <4>2. d \notin again => Runs(d)' = {} /\ Waits(d)' = {}
        BY <1>0, <3>1, <4>1 DEF OneJob
      <4> QED
        BY <2>1, <4>2 DEF OneJob
    <3> QED
      BY <3>2, <3>3
  <2> QED
    BY <1>6, <2>2, <2>3, WorkerQueue
<1>7. CASE UNCHANGED vars
  BY <1>0, <1>1, <1>7 DEF vars, request, row, run, OneJob, Runs
<1> QED
  BY <1>3, <1>4, <1>5, <1>6, <1>7 DEF Next

LEMMA WorkerIndex ==
  ASSUME IInv, NEW w \in Workers, Run(w) \/ WorkerDies(w) \/ StartWorker(w)
  PROVE  \/ status' = status /\ chunks' = chunks /\ reason' = reason
         \/ CommitIndex(w) \/ CommitEmptied(w) \/ CommitFailure(w) \/ CommitRefusal(w)
<1> USE DEF row
<1>1. CASE Pop(w) \/ Load(w) \/ WorkFails(w) \/ WorkSucceeds(w) \/ RowGone(w) \/ LockRow(w)
           \/ FlushFails(w)
  BY <1>1 DEF Pop, Load, WorkFails, WorkSucceeds, RowGone, LockRow, FlushFails
<1>2. CASE WorkerDies(w) \/ StartWorker(w)
  BY <1>2 DEF WorkerDies, StartWorker
<1> QED
  BY <1>1, <1>2 DEF Run

(* A row is locked by one run at a time, and nobody else writes to the     *)
(* index of its document meanwhile.                                        *)
LEMMA HeldInductive == IInv /\ [Next]_vars => RowIsHeldOnce'
<1> SUFFICES ASSUME IInv, [Next]_vars PROVE RowIsHeldOnce'
  OBVIOUS
<1> USE DEF IInv, TypeOK, RowIsHeldOnce, RowFree
<1>0. \A v \in Workers : pc[v] = "holding" => job[v] \in Documents /\ status[job[v]] \in Rows
  BY DEF RunAt, Running
<1>1. ASSUME NEW b \in Bases, CreateBase(b) \/ DeleteBase(b) PROVE RowIsHeldOnce'
  BY <1>0, <1>1, BaseEffect
<1>2. ASSUME NEW d \in Documents, Request(d) PROVE RowIsHeldOnce'
  BY <1>2, RequestEffect
<1>3. ASSUME NEW w \in Workers, Run(w) \/ WorkerDies(w) \/ StartWorker(w) PROVE RowIsHeldOnce'
  <2> USE DEF Goes, row
  <2>1. CASE LockRow(w)
    BY <2>1 DEF LockRow
  <2>2. CASE CommitIndex(w) \/ CommitEmptied(w)
    <3>1. pc[w] = "holding" /\ pc'[w] = "idle" /\ UNCHANGED <<job, old>>
          /\ \A v \in Workers \ {w} : pc'[v] = pc[v]
          /\ \A d \in Documents \ {job[w]} : chunks'[d] = chunks[d]
      BY <1>0, <2>2 DEF CommitIndex, CommitEmptied
    <3> QED
      BY <1>0, <3>1
  <2>3. CASE Pop(w)
    BY <2>3 DEF Pop
  <2>4. CASE Load(w) \/ WorkFails(w) \/ WorkSucceeds(w) \/ RowGone(w)
    <3>1. pc'[w] # "holding" /\ UNCHANGED <<job, old, chunks>>
          /\ \A v \in Workers \ {w} : pc'[v] = pc[v]
      BY <2>4 DEF Load, WorkFails, WorkSucceeds, RowGone
    <3> QED
      BY <3>1
  <2>5. CASE CommitFailure(w) \/ CommitRefusal(w)
    <3>1. pc'[w] # "holding" /\ UNCHANGED <<job, old, chunks>>
          /\ \A v \in Workers \ {w} : pc'[v] = pc[v]
      BY <2>5 DEF CommitFailure, CommitRefusal
    <3> QED
      BY <3>1
  <2>6. CASE FlushFails(w) \/ WorkerDies(w) \/ StartWorker(w)
    <3>1. pc'[w] # "holding" /\ UNCHANGED <<job, old, chunks>>
          /\ \A v \in Workers \ {w} : pc'[v] = pc[v]
      BY <2>6 DEF FlushFails, WorkerDies, StartWorker
    <3> QED
      BY <3>1
  <2> QED
    BY <1>3, <2>1, <2>2, <2>3, <2>4, <2>5, <2>6 DEF Run
<1>4. CASE UNCHANGED vars
  BY <1>4 DEF vars, row, run
<1> QED
  BY <1>1, <1>2, <1>3, <1>4 DEF Next

LEMMA IndexInductive ==
  ASSUME IInv, [Next]_vars, NEW d \in Documents
  PROVE  /\ status'[d] = "ready" => \E w \in Workers : chunks'[d] = {w}
         /\ status'[d] = "failed" => \A v, w \in chunks'[d] : v = w /\ d \in again'
         /\ status'[d] \in {"absent", "pending", "deleted"} => chunks'[d] = {}
<1> USE DEF IInv, TypeOK, Rows
<1>0. /\ status[d] = "ready" => \E w \in Workers : chunks[d] = {w}
      /\ status[d] = "failed" => \A v, w \in chunks[d] : v = w /\ d \in again
      /\ status[d] \in {"absent", "pending", "deleted"} => chunks[d] = {}
  BY DEF IndexIsOfOneRun
<1>1. ASSUME NEW b \in Bases, CreateBase(b) \/ DeleteBase(b)
      PROVE  /\ again' = again
             /\ \/ status'[d] = status[d] /\ chunks'[d] = chunks[d]
                \/ status'[d] # "ready" /\ chunks'[d] = {}
  BY <1>1, BaseEffect
<1>2. ASSUME NEW e \in Documents, Request(e)
      PROVE  /\ chunks'[d] = chunks[d] /\ again \subseteq again'
             /\ status'[d] = status[d] \/ (status[d] = "absent" /\ status'[d] = "pending")
  BY <1>2, RequestEffect
<1>3. ASSUME NEW w \in Workers, Run(w) \/ WorkerDies(w) \/ StartWorker(w)
      PROVE  /\ again' = again
             /\ \/ status'[d] = status[d] /\ chunks'[d] = chunks[d]
                \/ status'[d] = "ready" /\ chunks'[d] = {w}
                \/ status'[d] = "failed" /\ chunks'[d] = {}
                \/ /\ status[d] \in Rows /\ status'[d] = "failed" /\ chunks'[d] = chunks[d]
                   /\ (d \notin again => status[d] = "pending")
  <2>0. RunAt(w) /\ OneJob(d) /\ again' = again
    BY <1>3, WorkerEffect
  <2>1. CASE CommitIndex(w) \/ CommitEmptied(w)
    <3>1. pc[w] = "holding" /\ job[w] \in Documents /\ old[w] = chunks[job[w]]
      BY <2>0, <2>1 DEF CommitIndex, CommitEmptied, RunAt, Running, RowIsHeldOnce
    <3> QED
      BY <2>0, <2>1, <3>1 DEF CommitIndex, CommitEmptied
  <2>2. CASE CommitFailure(w)
    BY <2>0, <2>2 DEF CommitFailure, OneJob, Runs, Running
  <2>3. CASE CommitRefusal(w)
    BY <2>0, <2>3 DEF CommitRefusal
  <2> QED
    BY <1>3, <2>0, <2>1, <2>2, <2>3, WorkerIndex
<1>4. ASSUME UNCHANGED vars
      PROVE  status'[d] = status[d] /\ chunks'[d] = chunks[d] /\ again' = again
  BY <1>4 DEF vars, row
<1> QED
  BY <1>0, <1>1, <1>2, <1>3, <1>4 DEF Next

LEMMA ContentInductive == IInv /\ [Next]_vars => ContentIsRegisteredOnce'
<1> SUFFICES ASSUME IInv, [Next]_vars, NEW d \in Documents, NEW e \in Documents, d # e,
                    status'[d] \in Rows, status'[e] \in Rows,
                    home'[d] = home'[e], content'[d] = content'[e]
             PROVE  FALSE
  BY DEF ContentIsRegisteredOnce
<1> USE DEF IInv, TypeOK, Rows, request, row, run
<1>0. RequestAt(d) /\ RequestAt(e)
      /\ ~(status[d] \in Rows /\ status[e] \in Rows /\ home[d] = home[e] /\ content[d] = content[e])
  BY DEF ContentIsRegisteredOnce
<1>1. ASSUME NEW b \in Bases, CreateBase(b) \/ DeleteBase(b) PROVE FALSE
  BY <1>0, <1>1, BaseEffect
<1>2. ASSUME NEW f \in Documents, Request(f) PROVE FALSE
  <2>1. CASE CommitUpload(f) \/ CommitRegistration(f)
    BY <1>0, <2>1 DEF CommitUpload, CommitRegistration, CommitDocument, Taken
  <2>2. CASE \E b \in Bases, c \in Contents : Upload(f, b, c) \/ RegisterDocument(f, b, c)
    BY <1>0, <2>2 DEF Upload, RegisterDocument, Check, RequestAt
  <2>3. CASE StoreObject(f) \/ RemoveObject(f) \/ Dispatch(f) \/ UploadFails(f) \/ Redispatch(f)
    BY <1>0, <2>3 DEF StoreObject, RemoveObject, Dispatch, UploadFails, Redispatch
  <2> QED
    BY <1>2, <2>1, <2>2, <2>3 DEF Request
<1>3. ASSUME NEW w \in Workers, Run(w) \/ WorkerDies(w) \/ StartWorker(w) PROVE FALSE
  BY <1>0, <1>3, WorkerEffect
<1>4. CASE UNCHANGED vars
  BY <1>0, <1>4 DEF vars
<1> QED
  BY <1>1, <1>2, <1>3, <1>4 DEF Next

LEMMA FailureInductive ==
  ASSUME IInv, [Next]_vars, NEW d \in Documents
  PROVE  /\ status'[d] = "failed" => reason'[d] # None
         /\ reason'[d] # None /\ d \notin again' => status'[d] \in {"failed", "deleted"}
<1> USE DEF IInv, TypeOK, Rows
<1>0. /\ status[d] = "failed" => reason[d] # None
      /\ reason[d] # None /\ d \notin again => status[d] \in {"failed", "deleted"}
      /\ RequestAt(d) /\ OneJob(d)
  BY DEF FailureIsExplained
<1>1. ASSUME NEW b \in Bases, CreateBase(b) \/ DeleteBase(b)
      PROVE  reason' = reason /\ again' = again /\ (status'[d] = status[d] \/ status'[d] = "deleted")
  BY <1>1, BaseEffect
<1>2. ASSUME NEW e \in Documents, Request(e)
      PROVE  /\ reason' = reason /\ again \subseteq again'
             /\ status'[d] = status[d] \/ (status'[d] = "pending" /\ reason[d] = None)
  BY <1>0, <1>2, RequestEffect DEF RequestAt
<1>3. ASSUME NEW w \in Workers, Run(w) \/ WorkerDies(w) \/ StartWorker(w)
      PROVE  /\ again' = again
             /\ \/ status'[d] = status[d] /\ reason'[d] = reason[d]
                \/ status'[d] = "failed" /\ reason'[d] # None
                \/ status'[d] = "ready" /\ (d \in again \/ reason'[d] = None)
  <2>0. RunAt(w) /\ again' = again /\ (w \in Runs(d) /\ d \notin again => status[d] \notin {"ready", "failed"})
    BY <1>0, <1>3, WorkerEffect DEF OneJob
  <2>1. CASE CommitIndex(w)
    BY <1>0, <2>0, <2>1 DEF CommitIndex, RunAt, Runs, Running
  <2>2. CASE CommitFailure(w)
    BY <2>0, <2>2, NoneAssumption DEF CommitFailure, RunAt
  <2>3. CASE CommitRefusal(w)
    BY <2>0, <2>3, NoneAssumption DEF CommitRefusal, RunAt, Running, Reasons
  <2>4. CASE CommitEmptied(w)
    BY <2>0, <2>4, NoneAssumption DEF CommitEmptied, RunAt, Running, Reasons
  <2> QED
    BY <1>3, <2>0, <2>1, <2>2, <2>3, <2>4, WorkerIndex
<1>4. CASE UNCHANGED vars
  BY <1>0, <1>4 DEF vars, row
<1> QED
  BY <1>0, <1>1, <1>2, <1>3, <1>4 DEF Next

LEMMA InitEstablishes == Init => IInv
<1> SUFFICES ASSUME Init PROVE IInv
  OBVIOUS
<1>1. TypeOK
  BY DEF Init, TypeOK
<1>2. JobsInQueue /\ \A d \in Documents : Waits(d) = {}
  BY DEF Init, JobsInQueue, Waits
<1>3. \A d \in Documents : RequestAt(d)
  BY DEF Init, RequestAt
<1>4. \A w \in Workers : RunAt(w)
  BY DEF Init, RunAt, Running
<1>5. \A d \in Documents : OneJob(d)
  BY <1>2 DEF Init, OneJob, Runs, Running
<1>6. IndexIsOfOneRun /\ ContentIsRegisteredOnce /\ FailureIsExplained /\ RowIsHeldOnce
  BY DEF Init, IndexIsOfOneRun, ContentIsRegisteredOnce, FailureIsExplained, Rows, RowIsHeldOnce
<1> QED
  BY <1>1, <1>2, <1>3, <1>4, <1>5, <1>6 DEF IInv

LEMMA Inductive == IInv /\ [Next]_vars => IInv'
<1> SUFFICES ASSUME IInv, [Next]_vars PROVE IInv'
  OBVIOUS
<1>1. TypeOK'
  BY TypeInductive DEF IInv
<1>2. IndexIsOfOneRun'
  BY IndexInductive DEF IndexIsOfOneRun
<1>3. FailureIsExplained'
  BY FailureInductive DEF FailureIsExplained
<1>4. (\A d \in Documents : RequestAt(d))' /\ (\A w \in Workers : RunAt(w))'
      /\ (\A d \in Documents : OneJob(d))'
  BY RequestInductive, RunInductive, OneJobInductive
<1> QED
  BY <1>1, <1>2, <1>3, <1>4, QueueInductive, HeldInductive, ContentInductive DEF IInv

LEMMA Invariant == Spec => []IInv
  BY InitEstablishes, Inductive, PTL DEF Spec

-----------------------------------------------------------------------------
(* Theorems                                                                *)

(* Bases, requests, rows, queue and workers stay of their types, for any   *)
(* numbers of them.                                                        *)
THEOREM TypeCorrect == Spec => []TypeOK
<1>1. IInv => TypeOK
  BY DEF IInv
<1> QED
  BY Invariant, <1>1, PTL

(* A ready document is searched through the chunks of exactly one run, and *)
(* one that was not indexed or was deleted through none: the run that      *)
(* holds the row deletes all there is, and its commit replaces the index   *)
(* together with the status.                                               *)
THEOREM OneIndexEach == Spec => []IndexIsOfOneRun
<1>1. IInv => IndexIsOfOneRun
  BY DEF IInv
<1> QED
  BY Invariant, <1>1, PTL

(* The unique constraint keeps two documents of one content out of a base, *)
(* whatever their requests checked and when.                               *)
THEOREM NoDuplicates == Spec => []ContentIsRegisteredOnce
<1>1. IInv => ContentIsRegisteredOnce
  BY DEF IInv
<1> QED
  BY Invariant, <1>1, PTL

(* The row is committed, and the object stored, before the job is pushed,  *)
(* and neither is taken back while there is a job.                         *)
THEOREM RegisteredFirst == Spec => []JobsSeeRegistration
<1>1. IInv => JobsSeeRegistration
  <2> SUFFICES ASSUME IInv, NEW d \in Jobs PROVE status[d] # "absent" /\ d \in object
    BY DEF JobsSeeRegistration
  <2>1. CASE \E i \in DOMAIN queue : d = queue[i]
    <3>1. DOMAIN queue = 1..Len(queue)
      BY DEF IInv, TypeOK
    <3> QED
      BY <2>1, <3>1 DEF IInv, JobsInQueue
  <2>2. CASE \E w \in Workers : pc[w] \in Running /\ d = job[w]
    BY <2>2 DEF IInv, RunAt
  <2> QED
    BY <2>1, <2>2 DEF Jobs
<1> QED
  BY Invariant, <1>1, PTL

(* A failed document has a reason, and, dispatched once, a reason only if  *)
(* it failed: status and reason are written by one commit of one run.      *)
THEOREM FailuresExplained == Spec => []FailureIsExplained
<1>1. IInv => FailureIsExplained
  BY DEF IInv
<1> QED
  BY Invariant, <1>1, PTL

(* A document that was dispatched once leaves ready and failed only with   *)
(* its base: its one job has been used up.                                 *)
THEOREM TerminalStays == Spec => TerminalIsFinal
<1>1. ASSUME IInv, [Next]_vars, NEW d \in Documents \ again,
             status[d] \in {"ready", "failed"}, status'[d] # "deleted"
      PROVE  UNCHANGED <<status[d], reason[d], chunks[d]>>
  <2> USE DEF IInv, TypeOK, Rows
  <2>0. OneJob(d)
    BY <1>1
  <2>1. ASSUME NEW b \in Bases, CreateBase(b) \/ DeleteBase(b)
        PROVE  UNCHANGED <<status[d], reason[d], chunks[d]>>
    BY <1>1, <2>1, BaseEffect
  <2>2. ASSUME NEW e \in Documents, Request(e)
        PROVE  UNCHANGED <<status[d], reason[d], chunks[d]>>
    BY <1>1, <2>2, RequestEffect
  <2>3. ASSUME NEW w \in Workers, Run(w) \/ WorkerDies(w) \/ StartWorker(w)
        PROVE  UNCHANGED <<status[d], reason[d], chunks[d]>>
    BY <1>1, <2>0, <2>3, WorkerEffect DEF OneJob
  <2>4. CASE UNCHANGED vars
    BY <2>4 DEF vars, row
  <2> QED
    BY <1>1, <2>1, <2>2, <2>3, <2>4 DEF Next
<1>2. IInv /\ [Next]_vars =>
        [\A d \in Documents \ again :
           status[d] \in {"ready", "failed"} /\ status'[d] # "deleted" =>
             UNCHANGED <<status[d], reason[d], chunks[d]>>]_vars
  BY <1>1
<1> QED
  BY Invariant, <1>2, PTL DEF Spec, TerminalIsFinal

-----------------------------------------------------------------------------
(* The refinement of Library                                               *)

(* Where a registered document is; the name of the expression that         *)
(* Promise puts for place.                                                 *)
Place == [d \in Documents |-> IF status[d] = "absent" THEN None ELSE <<home[d], content[d]>>]

(* Places stay when registered documents keep base and content and no      *)
(* document is registered.                                                 *)
LEMMA PlaceKept ==
  ASSUME \A d \in Documents : /\ status'[d] = "absent" <=> status[d] = "absent"
                              /\ status[d] # "absent" => home'[d] = home[d] /\ content'[d] = content[d]
  PROVE  Place' = Place
  BY DEF Place

(* A step that Library does not see.                                       *)
LEMMA PromiseStutter ==
  ASSUME UNCHANGED <<base, status, chunks, again>>,
         \A d \in Documents : status[d] # "absent" => home'[d] = home[d] /\ content'[d] = content[d]
  PROVE  UNCHANGED Promise!vars
<1>1. Place' = Place
  BY PlaceKept
<1> QED
  BY <1>1 DEF Promise!vars, Place

LEMMA PromiseInit == Init => Promise!Init
  BY DEF Init, Promise!Init

(* Bases are created and deleted as Library has it: the cascade takes the  *)
(* rows of the base, and only those have an index.                         *)
LEMMA BasePromise ==
  ASSUME IInv, NEW b \in Bases, CreateBase(b) \/ DeleteBase(b)
  PROVE  Promise!Create(b) \/ Promise!Erase(b)
<1> USE DEF IInv, TypeOK, request, row
<1>1. CASE CreateBase(b)
  <2>1. Place' = Place
    BY <1>1, PlaceKept DEF CreateBase
  <2> QED
    BY <1>1, <2>1 DEF CreateBase, Promise!Create, Place
<1>2. CASE DeleteBase(b)
  <2>1. Place' = Place
    BY <1>2, PlaceKept DEF DeleteBase, Rows
  <2> DEFINE gone == {d \in Documents : status[d] \in Promise!Rows /\ Place[d][1] = b}
  <2>2. \A d \in Documents : d \in gone <=> home[d] = b /\ status[d] \in Rows
    BY DEF Promise!Rows, Rows, Place
  <2>3. status' = [d \in Documents |-> IF d \in gone THEN "deleted" ELSE status[d]]
    <3> HIDE DEF gone
    <3> QED BY <1>2, <2>2 DEF DeleteBase
  <2>4. \A d \in Documents : status[d] \notin Rows => chunks[d] = {}
    BY DEF IndexIsOfOneRun, Rows
  <2>5. chunks' = [d \in Documents |-> IF d \in gone THEN {} ELSE chunks[d]]
    <3> HIDE DEF gone
    <3> QED BY <1>2, <2>2, <2>4 DEF DeleteBase
  <2> QED
    BY <1>2, <2>1, <2>3, <2>5 DEF DeleteBase, Promise!Erase, Place
<1> QED
  BY <1>1, <1>2

(* A request registers its document when the constraint lets its row in,   *)
(* and else shows nothing.                                                 *)
LEMMA RequestPromise ==
  ASSUME IInv, NEW d \in Documents, Request(d)
  PROVE  \/ \E b \in Bases, c \in Contents : Promise!Register(d, b, c)
         \/ Promise!Repeat(d)
         \/ UNCHANGED Promise!vars
<1> USE DEF IInv, TypeOK, request, row
<1>0. RequestAt(d)
  OBVIOUS
<1>1. CASE \E b \in Bases, c \in Contents : Upload(d, b, c) \/ RegisterDocument(d, b, c)
  BY <1>0, <1>1, PromiseStutter DEF Upload, RegisterDocument, Check, RequestAt
<1>2. CASE CommitUpload(d) \/ CommitRegistration(d)
  <2>1. /\ UNCHANGED <<base, home, content, chunks, again>>
        /\ status[d] = "absent" /\ home[d] \in Bases /\ content[d] \in Contents
        /\ \/ status' = status
           \/ /\ base[home[d]] = "present" /\ ~Taken(home[d], content[d])
              /\ status' = [status EXCEPT ![d] = "pending"]
    BY <1>0, <1>2 DEF CommitUpload, CommitRegistration, CommitDocument, RequestAt
  <2>2. CASE status' = status
    BY <2>1, <2>2, PromiseStutter
  <2>3. CASE /\ base[home[d]] = "present" /\ ~Taken(home[d], content[d])
             /\ status' = [status EXCEPT ![d] = "pending"]
    <3>1. PICK b \in Bases, c \in Contents : b = home[d] /\ c = content[d]
      BY <2>1
    <3>2. \A e \in Documents : status[e] \in Promise!Rows => Place[e] # <<b, c>>
      BY <2>3, <3>1 DEF Taken, Promise!Rows, Rows, Place
    <3>3. Place' = [Place EXCEPT ![d] = <<b, c>>]
      BY <2>1, <2>3, <3>1 DEF Place
    <3>4. Promise!Register(d, b, c)
      BY <2>1, <2>3, <3>1, <3>2, <3>3 DEF Promise!Register, Place
    <3> QED
      BY <3>4
  <2> QED
    BY <2>1, <2>2, <2>3
<1>3. CASE StoreObject(d) \/ RemoveObject(d) \/ Dispatch(d) \/ UploadFails(d)
  BY <1>3, PromiseStutter DEF StoreObject, RemoveObject, Dispatch, UploadFails
<1>4. CASE Redispatch(d)
  <2>1. Place' = Place
    BY <1>4, PlaceKept DEF Redispatch
  <2> QED
    BY <1>4, <2>1 DEF Redispatch, Promise!Repeat, Promise!Rows, Rows, Place
<1> QED
  BY <1>1, <1>2, <1>3, <1>4 DEF Request

(* A run settles its document, and only one that is pending or was         *)
(* dispatched again (OneJob), or shows nothing.                            *)
LEMMA RunPromise ==
  ASSUME IInv, NEW w \in Workers, Run(w) \/ WorkerDies(w) \/ StartWorker(w)
  PROVE  (\E d \in Documents : Promise!Settle(d)) \/ UNCHANGED Promise!vars
<1> USE DEF IInv, TypeOK, request, row
<1>0. UNCHANGED <<base, home, content, again>>
  BY WorkerEffect
<1>1. CASE status' = status /\ chunks' = chunks
  BY <1>0, <1>1, PromiseStutter
<1>2. ASSUME pc[w] \in {"holding", "failing"}, status[job[w]] \in Rows,
             \/ /\ status' = [status EXCEPT ![job[w]] = "ready"]
                /\ chunks' = [chunks EXCEPT ![job[w]] = {w}]
             \/ /\ status' = [status EXCEPT ![job[w]] = "failed"]
                /\ chunks' \in {chunks, [chunks EXCEPT ![job[w]] = {}]}
      PROVE  \E d \in Documents : Promise!Settle(d)
  <2>1. job[w] \in Documents /\ w \in Runs(job[w])
    BY <1>2 DEF RunAt, Runs, Running
  <2>2. status[job[w]] = "pending" \/ (status[job[w]] \in Promise!Rows /\ job[w] \in again)
    BY <1>2, <2>1 DEF OneJob, Rows, Promise!Rows
  <2>3. Place' = Place
    BY <1>0, <1>2, <2>1, PlaceKept DEF Rows
  <2>4. Promise!Settle(job[w])
    BY <1>0, <1>2, <2>2, <2>3 DEF Promise!Settle, Place
  <2> QED
    BY <2>1, <2>4
<1>3. CASE CommitIndex(w) \/ CommitEmptied(w)
  <2>1. /\ pc[w] = "holding" /\ job[w] \in Documents /\ status[job[w]] \in Rows
        /\ old[w] = chunks[job[w]]
    BY <1>3 DEF CommitIndex, CommitEmptied, RunAt, Running, RowIsHeldOnce
  <2>2. (chunks[job[w]] \ old[w]) \cup {w} = {w} /\ chunks[job[w]] \ old[w] = {}
    BY <2>1
  <2> QED
    BY <1>2, <1>3, <2>1, <2>2 DEF CommitIndex, CommitEmptied
<1>4. CASE CommitFailure(w)
  BY <1>2, <1>4 DEF CommitFailure
<1>5. CASE CommitRefusal(w)
  BY <1>1, <1>5 DEF CommitRefusal
<1> QED
  BY <1>1, <1>3, <1>4, <1>5, WorkerIndex

(* Every step is one of Library, or shows nothing.                         *)
LEMMA PromiseStep == IInv /\ [Next]_vars => [Promise!Next]_(Promise!vars)
<1> SUFFICES ASSUME IInv, [Next]_vars PROVE Promise!Next \/ UNCHANGED Promise!vars
  OBVIOUS
<1>1. ASSUME NEW b \in Bases, CreateBase(b) \/ DeleteBase(b) PROVE Promise!Next
  BY <1>1, BasePromise DEF Promise!Next
<1>2. ASSUME NEW d \in Documents, Request(d) PROVE Promise!Next \/ UNCHANGED Promise!vars
  BY <1>2, RequestPromise DEF Promise!Next
<1>3. ASSUME NEW w \in Workers, Run(w) \/ WorkerDies(w) \/ StartWorker(w)
      PROVE  Promise!Next \/ UNCHANGED Promise!vars
  BY <1>3, RunPromise DEF Promise!Next
<1>4. CASE UNCHANGED vars
  BY <1>4, PromiseStutter DEF vars, request, row
<1> QED
  BY <1>1, <1>2, <1>3, <1>4 DEF Next

(* knowledge_bases.py, the queue and the workers of ingestion/ give the    *)
(* users of a base the library that Library describes.                     *)
THEOREM Implements == Spec => KeepsPromise
  BY PromiseInit, PromiseStep, Invariant, PTL DEF Spec, KeepsPromise, Promise!Spec

(* What is in a base is in a base that is there.                           *)
RowsAreInBases == \A d \in Documents : status[d] \in Rows => base[home[d]] = "present"

(* No upload, registration or run leaves a row in a base that was deleted  *)
(* while it was on its way (the foreign key, and the lock of the cascade). *)
THEOREM NothingOutlivesItsBase == Spec => []RowsAreInBases
<1>1. Init => RowsAreInBases
  BY DEF Init, RowsAreInBases, Rows
<1>2. ASSUME IInv, RowsAreInBases, [Next]_vars PROVE RowsAreInBases'
  <2> SUFFICES ASSUME NEW d \in Documents, status'[d] \in Rows PROVE base'[home'[d]] = "present"
    BY DEF RowsAreInBases
  <2> USE <1>2 DEF IInv, TypeOK, RowsAreInBases, request, row
  <2>0. RequestAt(d)
    OBVIOUS
  <2>1. ASSUME NEW b \in Bases, CreateBase(b) \/ DeleteBase(b) PROVE base'[home'[d]] = "present"
    BY <2>0, <2>1 DEF CreateBase, DeleteBase, RequestAt, Rows
  <2>2. ASSUME NEW e \in Documents, Request(e) PROVE base'[home'[d]] = "present"
    <3>1. CASE \E b \in Bases, c \in Contents : Upload(e, b, c) \/ RegisterDocument(e, b, c)
      BY <2>0, <3>1 DEF Upload, RegisterDocument, Check, RequestAt, Rows
    <3>2. CASE CommitUpload(e) \/ CommitRegistration(e)
      BY <2>0, <3>2 DEF CommitUpload, CommitRegistration, CommitDocument, Rows
    <3>3. CASE StoreObject(e) \/ RemoveObject(e) \/ Dispatch(e) \/ UploadFails(e) \/ Redispatch(e)
      BY <3>3 DEF StoreObject, RemoveObject, Dispatch, UploadFails, Redispatch
    <3> QED
      BY <2>2, <3>1, <3>2, <3>3 DEF Request
  <2>3. ASSUME NEW w \in Workers, Run(w) \/ WorkerDies(w) \/ StartWorker(w)
        PROVE  base'[home'[d]] = "present"
    BY <2>3, WorkerEffect
  <2>4. CASE UNCHANGED vars
    BY <2>4 DEF vars
  <2> QED
    BY <1>2, <2>1, <2>2, <2>3, <2>4 DEF Next
<1>3. IInv /\ RowsAreInBases /\ [Next]_vars => RowsAreInBases'
  BY <1>2
<1> QED
  BY <1>1, <1>3, Invariant, PTL DEF Spec
=============================================================================
