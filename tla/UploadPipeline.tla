--------------------------- MODULE UploadPipeline ---------------------------
(* The path of an upload through the server: the HTTP handler goroutine in     *)
(* fileService.Upload, the bounded job channel and the goroutines of           *)
(* worker.Pool, the encrypting goroutine that feeds storage.Upload through an  *)
(* io.Pipe, the result channel errCh, the object store, the files table, the   *)
(* publication of file.uploaded, and the shutdown sequence of main().          *)
(*                                                                             *)
(* An upload is a model value; its bytes are a count of chunks still to read.  *)
(* MinIO, PostgreSQL and Kafka answer every call they are given, with success  *)
(* or with one of the failures that Disturbances allows.                       *)
EXTENDS Naturals, Sequences

CONSTANTS Uploads,       \* requests POST /api/files
          Workers,       \* goroutines of the pool (config WORKER_COUNT)
          QueueCap,      \* capacity of Pool.jobs: size*10 in NewPool
          Chunks,        \* plaintext chunks of a file, at least one
          NoJob,         \* what an idle worker holds
          Disturbances   \* the failures the environment may cause

\* "invalid"      Validate refuses some inputs
\* "disconnect"   a client may leave before it is answered
\* "source"       reading the uploaded body may fail
\* "storage"      PutObject may fail and leave no object
\* "storageAck"   PutObject may fail although the object was stored
\* "metadata"     INSERT INTO files may fail and leave no row
\* "metadataAck"  INSERT may fail although the row was committed
\* "broker"       Kafka may refuse an event after its retries
\* "shutdown"     SIGTERM may arrive;  "drainTimeout"  and 30 s may not suffice
\* "crash"        the process may die and be started again
DisturbanceKinds ==
  {"invalid", "disconnect", "source", "storage", "storageAck", "metadata",
   "metadataAck", "broker", "shutdown", "drainTimeout", "crash"}

ASSUME QueueCapAssumption == QueueCap \in Nat \ {0}
ASSUME ChunksAssumption == Chunks \in Nat \ {0}
ASSUME WorkersAssumption == Workers # {}
ASSUME NoJobAssumption == NoJob \notin Uploads
ASSUME DisturbancesAssumption == Disturbances \subseteq DisturbanceKinds

VARIABLES
  handler,     \* where the request's goroutine is, or how it ended
  gone,        \* requests whose context is done
  errCh,       \* the one slot of the result channel of each Upload call
  jobs,        \* Pool.jobs, a buffered channel of jobs
  pool,        \* how far main() has come with stopping the pool
  wpc,         \* what each worker goroutine is about to do
  job,         \* the job each worker goroutine runs
  epc,         \* the encrypting goroutine of each job
  left,        \* plaintext chunks it has still to read
  objects,     \* uploads whose object is in MinIO
  rows,        \* uploads whose row is in the files table
  publishing,  \* publish goroutines that have not called Kafka yet
  published    \* file.uploaded events handed to Kafka

requestVars == <<handler, gone>>
poolVars    == <<jobs, pool, wpc, job>>
pipeVars    == <<epc, left>>
storeVars   == <<objects, rows>>
eventVars   == <<publishing, published>>
vars == <<requestVars, errCh, poolVars, pipeVars, storeVars, eventVars>>

InFlight  == {"submitting", "waiting"}
Endings   == {"created", "failed", "rejected", "cancelled", "panicked", "aborted"}
Reporting == {"reportNil", "reportErr", "onError"}
Encrypting == {"writing", "reading"}

Queued == {jobs[i] : i \in 1..Len(jobs)}
Running(u) == \E w \in Workers : job[w] = u

Init ==
  /\ handler = [u \in Uploads |-> "new"]
  /\ gone = {}
  /\ errCh = [u \in Uploads |-> "empty"]
  /\ jobs = <<>>
  /\ pool = "running"
  /\ wpc = [w \in Workers |-> "idle"]
  /\ job = [w \in Workers |-> NoJob]
  /\ epc = [u \in Uploads |-> "off"]
  /\ left = [u \in Uploads |-> Chunks]
  /\ objects = {}
  /\ rows = {}
  /\ publishing = {}
  /\ published = {}

-----------------------------------------------------------------------------
(* The request goroutine.                                                      *)

\* A request whose input is valid reaches pool.Submit.
StartUpload(u) ==
  /\ handler[u] = "new"
  /\ pool = "running"
  /\ handler' = [handler EXCEPT ![u] = "submitting"]
  /\ UNCHANGED <<gone, errCh, poolVars, pipeVars, storeVars, eventVars>>

RejectUpload(u) ==
  /\ "invalid" \in Disturbances
  /\ handler[u] = "new"
  /\ pool = "running"
  /\ handler' = [handler EXCEPT ![u] = "rejected"]
  /\ UNCHANGED <<gone, errCh, poolVars, pipeVars, storeVars, eventVars>>

\* The client leaves: only the request's context notices.
Disconnect(u) ==
  /\ "disconnect" \in Disturbances
  /\ handler[u] \in InFlight
  /\ gone' = gone \cup {u}
  /\ UNCHANGED <<handler, errCh, poolVars, pipeVars, storeVars, eventVars>>

\* mutant: a channel that never pushes back
SubmitUnbounded(u) ==
  /\ handler[u] = "submitting"
  /\ pool \in {"running", "draining"}
  /\ Len(jobs) <= QueueCap
  /\ jobs' = Append(jobs, u)
  /\ handler' = [handler EXCEPT ![u] = "waiting"]
  /\ UNCHANGED <<gone, errCh, pool, wpc, job, pipeVars, storeVars, eventVars>>

\* p.jobs <- job blocks while the buffer is full; it does not look at the context.
Submit(u) ==
  /\ handler[u] = "submitting"
  /\ pool \in {"running", "draining"}
  /\ Len(jobs) < QueueCap
  /\ jobs' = Append(jobs, u)
  /\ handler' = [handler EXCEPT ![u] = "waiting"]
  /\ UNCHANGED <<gone, errCh, pool, wpc, job, pipeVars, storeVars, eventVars>>

\* Sending on the closed channel, or being blocked in the send when it is closed.
SubmitPanics(u) ==
  /\ handler[u] = "submitting"
  /\ pool \in {"stopping", "stopped"}
  /\ handler' = [handler EXCEPT ![u] = "panicked"]
  /\ UNCHANGED <<gone, errCh, poolVars, pipeVars, storeVars, eventVars>>

\* mutant: the answer does not look at the error received
ReceiveAnything(u) ==
  /\ handler[u] = "waiting"
  /\ errCh[u] # "empty"
  /\ errCh' = [errCh EXCEPT ![u] = "empty"]
  /\ handler' = [handler EXCEPT ![u] = "created"]
  /\ publishing' = publishing \cup {u}
  /\ UNCHANGED <<gone, poolVars, pipeVars, storeVars, published>>

\* case err := <-errCh: success starts the publish goroutine.
ReceiveResult(u) ==
  /\ handler[u] = "waiting"
  /\ errCh[u] # "empty"
  /\ errCh' = [errCh EXCEPT ![u] = "empty"]
  /\ IF errCh[u] = "nil"
     THEN /\ handler' = [handler EXCEPT ![u] = "created"]
          /\ publishing' = publishing \cup {u}
     ELSE /\ handler' = [handler EXCEPT ![u] = "failed"]
          /\ UNCHANGED publishing
  /\ UNCHANGED <<gone, poolVars, pipeVars, storeVars, published>>

\* mutant: leaving is answered like a failure
AbandonAsFailed(u) ==
  /\ handler[u] = "waiting"
  /\ u \in gone
  /\ handler' = [handler EXCEPT ![u] = "failed"]
  /\ UNCHANGED <<gone, errCh, poolVars, pipeVars, storeVars, eventVars>>

\* case <-ctx.Done(): the job goes on without anybody to read its result.
AbandonWait(u) ==
  /\ handler[u] = "waiting"
  /\ u \in gone
  /\ handler' = [handler EXCEPT ![u] = "cancelled"]
  /\ UNCHANGED <<gone, errCh, poolVars, pipeVars, storeVars, eventVars>>

Publish(u) ==
  /\ u \in publishing
  /\ publishing' = publishing \ {u}
  /\ published' = published \cup {u}
  /\ UNCHANGED <<requestVars, errCh, poolVars, pipeVars, storeVars>>

\* mutant: publishing with the request's context, done once the handler returned
DropEventAfterReturn(u) ==
  /\ u \in publishing
  /\ "broker" \in Disturbances \/ pool = "stopped" \/ handler[u] \in Endings
  /\ publishing' = publishing \ {u}
  /\ UNCHANGED <<requestVars, errCh, poolVars, pipeVars, storeVars, published>>

\* The writer gives up after its attempts, or main() has closed it.
DropEvent(u) ==
  /\ u \in publishing
  /\ "broker" \in Disturbances \/ pool = "stopped"
  /\ publishing' = publishing \ {u}
  /\ UNCHANGED <<requestVars, errCh, poolVars, pipeVars, storeVars, published>>

-----------------------------------------------------------------------------
(* The worker goroutine.                                                       *)

\* for job := range p.jobs, and Fn starts the encrypting goroutine, whose first
\* write is the nonce.
TakeJob(w) ==
  /\ wpc[w] = "idle"
  /\ jobs # <<>>
  /\ jobs' = Tail(jobs)
  /\ wpc' = [wpc EXCEPT ![w] = "uploading"]
  /\ job' = [job EXCEPT ![w] = Head(jobs)]
  /\ epc' = [epc EXCEPT ![Head(jobs)] = "writing"]
  /\ UNCHANGED <<requestVars, errCh, pool, left, storeVars, eventVars>>

\* mutant: storage.Upload does not wait for the end of the stream
PutObjectOkEarly(w) ==
  /\ wpc[w] = "uploading"
  /\ epc[job[w]] # "error"
  /\ objects' = objects \cup {job[w]}
  /\ wpc' = [wpc EXCEPT ![w] = "creating"]
  /\ UNCHANGED <<requestVars, errCh, jobs, pool, job, pipeVars, rows, eventVars>>

\* storage.Upload has read the whole pipe and stored the object.
PutObjectOk(w) ==
  /\ wpc[w] = "uploading"
  /\ epc[job[w]] = "eof"
  /\ objects' = objects \cup {job[w]}
  /\ wpc' = [wpc EXCEPT ![w] = "creating"]
  /\ UNCHANGED <<requestVars, errCh, jobs, pool, job, pipeVars, rows, eventVars>>

\* mutant: the error of storage.Upload is logged and the job ends
PutObjectFailsSilently(w) ==
  /\ wpc[w] = "uploading"
  /\ epc[job[w]] = "error" \/ "storage" \in Disturbances
  /\ wpc' = [wpc EXCEPT ![w] = "idle"]
  /\ job' = [job EXCEPT ![w] = NoJob]
  /\ UNCHANGED <<requestVars, errCh, jobs, pool, pipeVars, storeVars, eventVars>>

\* mutant: the error of storage.Upload is not checked
PutObjectFailsUnchecked(w) ==
  /\ wpc[w] = "uploading"
  /\ epc[job[w]] = "error" \/ "storage" \in Disturbances
  /\ wpc' = [wpc EXCEPT ![w] = "creating"]
  /\ UNCHANGED <<requestVars, errCh, jobs, pool, job, pipeVars, storeVars, eventVars>>

\* mutant: the failed upload is reported by two callbacks
PutObjectFailsTwice(w) ==
  /\ wpc[w] = "uploading"
  /\ epc[job[w]] = "error" \/ "storage" \in Disturbances
  /\ wpc' = [wpc EXCEPT ![w] = "reportErr"]
  /\ UNCHANGED <<requestVars, errCh, jobs, pool, job, pipeVars, storeVars, eventVars>>

\* The pipe was closed with an error, the store failed, or its reply was lost.
\* Nothing closes the read end of the pipe.
PutObjectFails(w) ==
  /\ wpc[w] = "uploading"
  /\ \/ /\ epc[job[w]] = "error" \/ "storage" \in Disturbances
        /\ UNCHANGED objects
     \/ /\ epc[job[w]] = "eof" /\ "storageAck" \in Disturbances
        /\ objects' = objects \cup {job[w]}
  /\ wpc' = [wpc EXCEPT ![w] = "onError"]
  /\ UNCHANGED <<requestVars, errCh, jobs, pool, job, pipeVars, rows, eventVars>>

\* onSuccess: files.Create, then errCh <- err.
CreateOk(w) ==
  /\ wpc[w] = "creating"
  /\ rows' = rows \cup {job[w]}
  /\ wpc' = [wpc EXCEPT ![w] = "reportNil"]
  /\ UNCHANGED <<requestVars, errCh, jobs, pool, job, pipeVars, objects, eventVars>>

\* mutant: an error after the row was committed
CreateFailsAfterCommit(w) ==
  /\ wpc[w] = "creating"
  /\ "metadata" \in Disturbances
  /\ rows' = rows \cup {job[w]}
  /\ wpc' = [wpc EXCEPT ![w] = "reportErr"]
  /\ UNCHANGED <<requestVars, errCh, jobs, pool, job, pipeVars, objects, eventVars>>

\* mutant: the insert uses the request's context
CreateFailsWhenGone(w) ==
  /\ wpc[w] = "creating"
  /\ job[w] \in gone
  /\ wpc' = [wpc EXCEPT ![w] = "reportErr"]
  /\ UNCHANGED <<requestVars, errCh, jobs, pool, job, pipeVars, storeVars, eventVars>>

CreateFails(w) ==
  /\ wpc[w] = "creating"
  /\ \/ /\ "metadata" \in Disturbances
        /\ UNCHANGED rows
     \/ /\ "metadataAck" \in Disturbances
        /\ rows' = rows \cup {job[w]}
  /\ wpc' = [wpc EXCEPT ![w] = "reportErr"]
  /\ UNCHANGED <<requestVars, errCh, jobs, pool, job, pipeVars, objects, eventVars>>

\* mutant: the closure drops the success
ReportNilLost(w) ==
  /\ wpc[w] = "reportNil"
  /\ wpc' = [wpc EXCEPT ![w] = "idle"]
  /\ job' = [job EXCEPT ![w] = NoJob]
  /\ UNCHANGED <<requestVars, errCh, jobs, pool, pipeVars, storeVars, eventVars>>

ReportNil(w) ==
  /\ wpc[w] = "reportNil"
  /\ errCh[job[w]] = "empty"
  /\ errCh' = [errCh EXCEPT ![job[w]] = "nil"]
  /\ wpc' = [wpc EXCEPT ![w] = "idle"]
  /\ job' = [job EXCEPT ![w] = NoJob]
  /\ UNCHANGED <<requestVars, jobs, pool, pipeVars, storeVars, eventVars>>

\* onSuccess sends the error itself ...
ReportErr(w) ==
  /\ wpc[w] = "reportErr"
  /\ errCh[job[w]] = "empty"
  /\ errCh' = [errCh EXCEPT ![job[w]] = "err"]
  /\ wpc' = [wpc EXCEPT ![w] = "onError"]
  /\ UNCHANGED <<requestVars, jobs, pool, job, pipeVars, storeVars, eventVars>>

\* ... and the job then calls onError, which sends it on the same channel.
OnError(w) ==
  /\ wpc[w] = "onError"
  /\ errCh[job[w]] = "empty"
  /\ errCh' = [errCh EXCEPT ![job[w]] = "err"]
  /\ wpc' = [wpc EXCEPT ![w] = "idle"]
  /\ job' = [job EXCEPT ![w] = NoJob]
  /\ UNCHANGED <<requestVars, jobs, pool, pipeVars, storeVars, eventVars>>

\* mutant: the worker stops without draining the channel
WorkerExitsEarly(w) ==
  /\ wpc[w] = "idle"
  /\ pool = "stopping"
  /\ wpc' = [wpc EXCEPT ![w] = "exited"]
  /\ UNCHANGED <<requestVars, errCh, jobs, pool, job, pipeVars, storeVars, eventVars>>

\* The channel is closed and empty: range ends.
WorkerExit(w) ==
  /\ wpc[w] = "idle"
  /\ jobs = <<>>
  /\ pool = "stopping"
  /\ wpc' = [wpc EXCEPT ![w] = "exited"]
  /\ UNCHANGED <<requestVars, errCh, jobs, pool, job, pipeVars, storeVars, eventVars>>

-----------------------------------------------------------------------------
(* The encrypting goroutine and its pipe.                                      *)

\* A write returns when storage.Upload has read it from the other end.
PipeTransfer(u) ==
  /\ epc[u] = "writing"
  /\ \E w \in Workers : job[w] = u /\ wpc[w] = "uploading"
  /\ epc' = [epc EXCEPT ![u] = "reading"]
  /\ UNCHANGED <<requestVars, errCh, poolVars, left, storeVars, eventVars>>

ReadChunk(u) ==
  /\ epc[u] = "reading"
  /\ left[u] > 0
  /\ left' = [left EXCEPT ![u] = @ - 1]
  /\ epc' = [epc EXCEPT ![u] = "writing"]
  /\ UNCHANGED <<requestVars, errCh, poolVars, storeVars, eventVars>>

\* mutant: end of file is taken one chunk early
ReadEndEarly(u) ==
  /\ epc[u] = "reading"
  /\ left[u] <= 1
  /\ epc' = [epc EXCEPT ![u] = "eof"]
  /\ UNCHANGED <<requestVars, errCh, poolVars, left, storeVars, eventVars>>

ReadEnd(u) ==
  /\ epc[u] = "reading"
  /\ left[u] = 0
  /\ epc' = [epc EXCEPT ![u] = "eof"]
  /\ UNCHANGED <<requestVars, errCh, poolVars, left, storeVars, eventVars>>

\* The body cannot be read, or the handler has returned and closed the file.
ReadFails(u) ==
  /\ epc[u] = "reading"
  /\ "source" \in Disturbances \/ handler[u] \in Endings
  /\ epc' = [epc EXCEPT ![u] = "error"]
  /\ UNCHANGED <<requestVars, errCh, poolVars, left, storeVars, eventVars>>

-----------------------------------------------------------------------------
(* main(): shutdown, and the process as a whole.                               *)

\* srv.Shutdown closes the listener.
BeginShutdown ==
  /\ "shutdown" \in Disturbances
  /\ pool = "running"
  /\ pool' = "draining"
  /\ UNCHANGED <<requestVars, errCh, jobs, wpc, job, pipeVars, storeVars, eventVars>>

\* mutant: the pool is stopped without waiting for the requests
CloseJobsAtOnce ==
  /\ pool = "draining"
  /\ pool' = "stopping"
  /\ UNCHANGED <<requestVars, errCh, jobs, wpc, job, pipeVars, storeVars, eventVars>>

\* mutant: Stop waits for the workers before it closes the channel
CloseJobsAfterWait ==
  /\ pool = "draining"
  /\ \A w \in Workers : wpc[w] = "exited"
  /\ pool' = "stopping"
  /\ UNCHANGED <<requestVars, errCh, jobs, wpc, job, pipeVars, storeVars, eventVars>>

\* srv.Shutdown returned: every request is answered, or its 30 seconds are over.
CloseJobs ==
  /\ pool = "draining"
  /\ "drainTimeout" \in Disturbances \/ \A u \in Uploads : handler[u] \notin InFlight
  /\ pool' = "stopping"
  /\ UNCHANGED <<requestVars, errCh, jobs, wpc, job, pipeVars, storeVars, eventVars>>

\* wg.Wait() returned.
FinishStop ==
  /\ pool = "stopping"
  /\ \A w \in Workers : wpc[w] = "exited"
  /\ pool' = "stopped"
  /\ UNCHANGED <<requestVars, errCh, jobs, wpc, job, pipeVars, storeVars, eventVars>>

\* Everything in memory is lost; MinIO, PostgreSQL and Kafka keep what they have.
Crash ==
  /\ "crash" \in Disturbances
  /\ pool # "stopped"
  /\ handler' = [u \in Uploads |-> IF handler[u] \in InFlight THEN "aborted" ELSE handler[u]]
  /\ errCh' = [u \in Uploads |-> "empty"]
  /\ jobs' = <<>>
  /\ pool' = "running"
  /\ wpc' = [w \in Workers |-> "idle"]
  /\ job' = [w \in Workers |-> NoJob]
  /\ epc' = [u \in Uploads |-> "off"]
  /\ left' = [u \in Uploads |-> Chunks]
  /\ publishing' = {}
  /\ UNCHANGED <<gone, storeVars, published>>

-----------------------------------------------------------------------------
HandlerStep(u) ==
  \/ Submit(u) \/ SubmitPanics(u) \/ ReceiveResult(u) \/ AbandonWait(u)

EncryptStep(u) ==
  \/ PipeTransfer(u) \/ ReadChunk(u) \/ ReadEnd(u) \/ ReadFails(u)

WorkerStep(w) ==
  \/ TakeJob(w) \/ PutObjectOk(w) \/ PutObjectFails(w)
  \/ CreateOk(w) \/ CreateFails(w)
  \/ ReportNil(w) \/ ReportErr(w) \/ OnError(w) \/ WorkerExit(w)

ProcessStep == BeginShutdown \/ CloseJobs \/ FinishStop \/ Crash

Next ==
  \/ \E u \in Uploads :
       \/ StartUpload(u) \/ RejectUpload(u) \/ Disconnect(u)
       \/ HandlerStep(u) \/ EncryptStep(u)
       \/ Publish(u) \/ DropEvent(u)
  \/ \E w \in Workers : WorkerStep(w)
  \/ ProcessStep

Spec == Init /\ [][Next]_vars

\* Goroutines are scheduled, external calls return, and a sender blocked on the
\* channel is served in its turn (the runtime keeps blocked senders in a FIFO),
\* hence the strong fairness of Submit. Nothing is assumed of clients, failures,
\* signals or the store's choice between success and failure.
Fairness ==
  /\ \A u \in Uploads :
       /\ SF_vars(Submit(u))
       /\ WF_vars(SubmitPanics(u))
       /\ WF_vars(ReceiveResult(u) \/ AbandonWait(u))
       /\ WF_vars(EncryptStep(u))
       /\ WF_vars(Publish(u) \/ DropEvent(u))
  /\ \A w \in Workers : WF_vars(WorkerStep(w))
  /\ WF_vars(CloseJobs)
  /\ WF_vars(FinishStop)

FairSpec == Spec /\ Fairness

-----------------------------------------------------------------------------
(* Safety.                                                                     *)

\* Types, and the channels' capacities: jobs holds size*10 jobs, errCh one error.
TypeOK ==
  /\ handler \in [Uploads -> {"new"} \cup InFlight \cup Endings]
  /\ gone \subseteq Uploads
  /\ errCh \in [Uploads -> {"empty", "nil", "err"}]
  /\ jobs \in Seq(Uploads) /\ Len(jobs) <= QueueCap
  /\ pool \in {"running", "draining", "stopping", "stopped"}
  /\ wpc \in [Workers -> {"idle", "uploading", "creating", "exited"} \cup Reporting]
  /\ job \in [Workers -> Uploads \cup {NoJob}]
  /\ epc \in [Uploads -> {"off", "eof", "error"} \cup Encrypting]
  /\ left \in [Uploads -> 0..Chunks]
  /\ objects \subseteq Uploads
  /\ rows \subseteq Uploads
  /\ publishing \subseteq Uploads
  /\ published \subseteq Uploads

\* The files table never names an object that MinIO does not hold, whatever
\* fails and whenever the process dies (file_processor.go stores, then inserts).
RowImpliesObject == rows \subseteq objects

\* A client that was told 201 has its file: row and object, encrypted to the last
\* chunk; and file.uploaded is only ever published for such a file.
CreatedMeansStored ==
  /\ \A u \in Uploads : handler[u] = "created" => u \in rows \cap objects
  /\ \A u \in publishing \cup published : handler[u] = "created"

\* An object goes to the table only complete: the encrypting goroutine had read every chunk.
ObjectsComplete ==
  \A w \in Workers : wpc[w] = "creating" => left[job[w]] = 0

\* A row names a whole object, whatever fails: neither the one nor the other is
\* repaired by anything later.
RowsAreWhole == RowImpliesObject /\ ObjectsComplete

\* A request that waits on errCh will find an answer: its job is queued, is
\* running, or has answered.
NoLostAnswer ==
  \A u \in Uploads :
    handler[u] = "waiting" => u \in Queued \/ Running(u) \/ errCh[u] # "empty"

\* One job per upload: it is in one place of the queue or on one worker, and a
\* job that may still run is never one whose client has a final answer.
JobHeldOnce ==
  /\ \A i, j \in 1..Len(jobs) : jobs[i] = jobs[j] => i = j
  /\ \A v, w \in Workers : job[v] = job[w] /\ job[v] # NoJob => v = w
  /\ \A w \in Workers : job[w] \notin Queued
  /\ \A u \in Queued : handler[u] \in {"waiting", "cancelled"} /\ u \notin objects

\* An error answered by the service leaves no row behind: a rejected or panicked
\* request never does, and a failed one only if PostgreSQL's reply was lost.
FailedMeansNotStored ==
  \A u \in rows :
    \/ handler[u] \in {"waiting", "created", "cancelled", "aborted"}
    \/ handler[u] = "failed" /\ "metadataAck" \in Disturbances

\* What a client was told of its file, in either way, is what is there.
AnswersTellRows == CreatedMeansStored /\ FailedMeansNotStored

\* Pool.Stop returns only when every job handed to the pool has run: nothing is
\* queued, no worker is in a job, and a request still waiting has its answer.
StopDrains ==
  pool = "stopped" =>
    /\ jobs = <<>>
    /\ \A w \in Workers : job[w] = NoJob
    /\ \A u \in Uploads : handler[u] = "waiting" => errCh[u] # "empty"

\* ARCHITECTURE.md on errCh: a worker is not blocked by sending a result when the
\* service has already returned.
ResultSendNeverBlocks ==
  \A w \in Workers :
    wpc[w] \in Reporting /\ handler[job[w]] \in Endings => errCh[job[w]] = "empty"

\* srv.Shutdown waits for the requests, so that none sends on the closed channel.
NoSendOnClosedQueue == \A u \in Uploads : handler[u] # "panicked"

\* A client that leaves, or a shutdown, orphans no object: an object without a
\* row belongs to a worker that is about to insert it.
ObjectsAccounted ==
  \A u \in objects \ rows : \E w \in Workers : job[w] = u /\ wpc[w] = "creating"

-----------------------------------------------------------------------------
(* The inductive invariant behind the safety properties: what each place an    *)
(* upload can be in says about the other places.                               *)

InJob == {"uploading", "creating"} \cup Reporting

\* A worker holds a job exactly while it is in one, and no job is held twice.
JobsDistinct ==
  /\ \A w \in Workers : job[w] # NoJob <=> wpc[w] \in InJob
  /\ \A v, w \in Workers : job[v] = job[w] /\ job[v] # NoJob => v = w
  /\ \A i, j \in 1..Len(jobs) : jobs[i] = jobs[j] => i = j
  /\ \A i \in 1..Len(jobs) : \A w \in Workers : jobs[i] # job[w]

\* Nothing has happened yet for an upload that is not on a worker's way.
Untouched(u) == errCh[u] = "empty" /\ u \notin objects /\ u \notin rows

QueueFresh ==
  \A i \in 1..Len(jobs) :
    handler[jobs[i]] \in {"waiting", "cancelled"} /\ Untouched(jobs[i])

UnstartedFresh ==
  \A u \in Uploads :
    handler[u] \in {"new", "submitting", "rejected", "panicked"} => Untouched(u)

\* How far each worker's job has come.
WorkerProgress ==
  \A w \in Workers :
    /\ wpc[w] \in {"uploading", "creating", "reportNil", "reportErr"} =>
         handler[job[w]] \in {"waiting", "cancelled"} /\ errCh[job[w]] = "empty"
    /\ wpc[w] = "uploading" => job[w] \notin rows
    /\ wpc[w] = "creating" =>
         job[w] \in objects /\ job[w] \notin rows /\ left[job[w]] = 0
    /\ wpc[w] = "reportNil" => job[w] \in rows
    /\ wpc[w] = "onError" =>
         handler[job[w]] \in {"waiting", "cancelled", "failed"} /\ errCh[job[w]] # "nil"

\* A pipe closed without error carried the whole file.
StreamsWhole == \A u \in Uploads : epc[u] = "eof" => left[u] = 0

\* What errCh holds is true, and an error with a row means a lost reply.
AnswersTrue ==
  /\ \A u \in Uploads : errCh[u] = "nil" => u \in rows
  /\ \A u \in Uploads :
       errCh[u] = "err" /\ u \in rows => "metadataAck" \in Disturbances
  /\ \A w \in Workers :
       wpc[w] \in {"reportErr", "onError"} /\ job[w] \in rows =>
         "metadataAck" \in Disturbances

\* A request waits only while its job is queued, on a worker, or answered.
AnswerOnTheWay ==
  \A u \in Uploads :
    handler[u] = "waiting" =>
      \/ \E i \in 1..Len(jobs) : jobs[i] = u
      \/ \E w \in Workers : job[w] = u
      \/ errCh[u] # "empty"

\* Workers leave when the channel is closed and empty; Stop returns after them.
ExitOrder ==
  /\ \A w \in Workers :
       wpc[w] = "exited" => jobs = <<>> /\ pool \in {"stopping", "stopped"}
  /\ pool = "stopped" => \A w \in Workers : wpc[w] = "exited"

IInv ==
  /\ TypeOK
  /\ JobsDistinct
  /\ QueueFresh
  /\ UnstartedFresh
  /\ WorkerProgress
  /\ StreamsWhole
  /\ AnswersTrue
  /\ AnswerOnTheWay
  /\ ExitOrder
  /\ RowImpliesObject
  /\ CreatedMeansStored
  /\ FailedMeansNotStored

-----------------------------------------------------------------------------
(* Liveness.                                                                   *)

\* A request that reached the pool is answered, unless the process stops first.
EveryRequestAnswered ==
  \A u \in Uploads :
    handler[u] \in InFlight ~> handler[u] \in Endings \/ pool = "stopped"

\* main() gets through Pool.Stop once it has closed the channel.
StopCompletes == pool = "draining" ~> pool = "stopped"

\* No upload's goroutines outlive it: every encrypting goroutine ends.
EncryptorsEnd == \A u \in Uploads : epc[u] = "writing" ~> epc[u] \in {"eof", "error"}

\* file.uploaded follows a 201, while the process and the broker live.
CreatedLeadsToEvent ==
  \A u \in Uploads :
    handler[u] = "created" ~> u \in published \/ pool = "stopped"

-----------------------------------------------------------------------------
(* The pipeline implements the contract of FileService.Upload.                 *)

VerdictOf(h) ==
  CASE h = "created"                   -> "created"
    [] h = "failed"                    -> "failed"
    [] h \in {"rejected", "panicked"}  -> "refused"
    [] h = "cancelled"                 -> "unknown"
    [] h = "aborted"                   -> "aborted"
    [] OTHER                           -> "pending"

Contract == INSTANCE UploadContract
              WITH answer    <- [u \in Uploads |-> VerdictOf(handler[u])],
                   stored    <- rows,
                   announced <- published

ImplementsContract == Contract!Spec
=============================================================================
