--------------------------- MODULE ServerLifecycle ---------------------------
(* The process around the requests: main() from serving to the last deferred    *)
(* call, the publishing goroutines and the buffered Kafka writer, the consumer  *)
(* goroutines with their offsets, and what an exit or a crash at any point does *)
(* to all of them.                                                              *)
(*                                                                              *)
(* Uploads and deletions are here what keeps a handler, a worker, a connection  *)
(* or an event busy; UploadPipeline and FileCatalog hold their details. The     *)
(* consumed topic is file.deleted, of one partition; nothing publishes to       *)
(* audit.log, whose consumer only waits.                                        *)
EXTENDS Naturals, Sequences, FiniteSets

CONSTANTS Uploads,      \* requests whose work is a job of the pool
          WorkerCount,  \* goroutines of the pool
          Deletes,      \* requests that publish to file.deleted
          Consumers,    \* goroutines of StartConsumers, one per topic
          Reaper,       \* the one of file.deleted
          Faults,       \* what may happen besides
          MaxOutages,   \* bound on calls of Kafka that fail
          MaxRestarts   \* bound on starts after the first

\* "disconnect"    a client leaves while its upload is in the pool
\* "failure"       PutObject or the INSERT of a job fails
\* "drainTimeout"  30 seconds do not suffice for the running requests
\* "crash"         the process is killed, or ListenAndServe fails: os.Exit(1)
FaultKinds == {"disconnect", "failure", "drainTimeout", "crash"}

ASSUME RequestsAssumption == Uploads \cap Deletes = {}
ASSUME WorkersAssumption == WorkerCount \in Nat \ {0}
ASSUME ReaperAssumption == Reaper \in Consumers
ASSUME FaultsAssumption == Faults \subseteq FaultKinds
ASSUME BoundsAssumption == MaxOutages \in Nat /\ MaxRestarts \in Nat

Requests == Uploads \cup Deletes

VARIABLES
  kafkaEnabled,  \* cfg.KafkaEnabled
  main,          \* what main() waits for or does next
  closed,        \* resources that deferred calls have closed
  timedOut,      \* history: srv.Shutdown once gave up waiting
  restarts,      \* starts after the first
  req,           \* the handler of each request
  job,           \* the pool's job of each upload
  event,         \* the event of each request
  con,           \* the consumer goroutines
  log,           \* the partition of file.deleted
  fetched,       \* messages the reader has taken from it
  committed,     \* the consumer group's offset
  missed,        \* history: deletions committed, or skipped, and never handled
  handled,       \* how often each of its messages was handled
  outages        \* calls of Kafka that failed

processVars == <<kafkaEnabled, main, closed, timedOut, restarts>>
requestVars == <<req, job>>
topicVars   == <<log, fetched, committed, missed, handled>>
vars == <<processVars, requestVars, event, con, topicVars, outages>>

\* strconv.ParseBool of KAFKA_ENABLED; unset or unreadable means true.
getEnvBool(raw) == raw # "false"
RawValues == {"unset", "unreadable", "true", "false"}

\* mutant: the consumers run whatever KAFKA_ENABLED says
StartedAlways(enabled) == [c \in Consumers |-> "reading"]

StartConsumers(enabled) == [c \in Consumers |-> IF enabled THEN "reading" ELSE "off"]

Init ==
  /\ kafkaEnabled \in {getEnvBool(raw) : raw \in RawValues}
  /\ main = "serving"
  /\ closed = {}
  /\ timedOut = FALSE
  /\ restarts = 0
  /\ req = [r \in Requests |-> "new"]
  /\ job = [u \in Uploads |-> "none"]
  /\ event = [r \in Requests |-> "none"]
  /\ con = StartConsumers(kafkaEnabled)
  /\ log = <<>>
  /\ fetched = 0
  /\ committed = 0
  /\ missed = {}
  /\ handled = <<>>
  /\ outages = 0

Ended == {"exited", "died"}
Alive == main \notin Ended

Outage == outages < MaxOutages /\ outages' = outages + 1

-----------------------------------------------------------------------------
(* Requests and workers.                                                       *)

StartRequest(r) ==
  /\ main = "serving"
  /\ req[r] = "new"
  /\ req' = [req EXCEPT ![r] = "running"]
  /\ job' = IF r \in Uploads THEN [job EXCEPT ![r] = "queued"] ELSE job
  /\ UNCHANGED <<processVars, event, con, topicVars, outages>>

\* A job of which a worker still holds the error.
Reporting == {u \in Uploads : job[u] = "reporting"}

\* A worker that is free runs the job to its INSERT and reports; Stop lets it finish. The
\* error of PutObject is sent to the request once, that of the INSERT twice, and errCh
\* has one slot.
RunJob(u) ==
  /\ Alive
  /\ job[u] = "queued"
  /\ Cardinality(Reporting) < WorkerCount
  /\ \E result \in {"done", "failed", "reporting"} :
       /\ result # "done" => "failure" \in Faults
       /\ job' = [job EXCEPT ![u] = result]
  /\ UNCHANGED <<processVars, req, event, con, topicVars, outages>>

\* mutant: without a buffer, the second report needs a request that still waits
ReportToWaiting(u) ==
  /\ Alive
  /\ job[u] = "reporting"
  /\ req[u] = "running"
  /\ job' = [job EXCEPT ![u] = "failed"]
  /\ UNCHANGED <<processVars, req, event, con, topicVars, outages>>

\* The slot is free for the second report once the request has taken the first.
ReportAgain(u) ==
  /\ Alive
  /\ job[u] = "reporting"
  /\ req[u] = "failed"
  /\ job' = [job EXCEPT ![u] = "failed"]
  /\ UNCHANGED <<processVars, req, event, con, topicVars, outages>>

\* Success is answered and announced by a goroutine of its own; without the
\* connection pool a deletion fails.
Answer(r) ==
  /\ Alive
  /\ req[r] = "running"
  /\ r \in Uploads => job[r] \in {"done", "failed", "reporting"}
  /\ IF IF r \in Uploads THEN job[r] # "done" ELSE "pg" \in closed
     THEN req' = [req EXCEPT ![r] = "failed"] /\ UNCHANGED event
     ELSE /\ req' = [req EXCEPT ![r] = "answered"]
          /\ event' = [event EXCEPT ![r] = "pending"]
  /\ UNCHANGED <<processVars, job, con, topicVars, outages>>

\* case <-ctx.Done() of Upload: the job stays behind, nothing is announced.
Leave(u) ==
  /\ Alive
  /\ "disconnect" \in Faults
  /\ req[u] = "running"
  /\ req' = [req EXCEPT ![u] = "left"]
  /\ UNCHANGED <<processVars, job, event, con, topicVars, outages>>

-----------------------------------------------------------------------------
(* The writer: WriteMessages puts the message into a batch and returns.        *)

Publish(r) ==
  /\ Alive
  /\ event[r] = "pending"
  /\ \/ /\ "producer" \notin closed
        /\ event' = [event EXCEPT ![r] = "buffered"]
        /\ UNCHANGED outages
     \/ /\ \/ "producer" \in closed /\ UNCHANGED outages
           \/ Outage
        /\ event' = [event EXCEPT ![r] = "dropped"]
  /\ UNCHANGED <<processVars, requestVars, con, topicVars>>

\* Every delivery makes a message of its own.
Enqueue(r) ==
  IF r \in Deletes THEN log' = Append(log, r) /\ handled' = Append(handled, 0)
  ELSE UNCHANGED <<log, handled>>

Deliver(r) ==
  /\ Alive
  /\ event[r] = "buffered"
  /\ event' = [event EXCEPT ![r] = "delivered"]
  /\ Enqueue(r)
  /\ UNCHANGED <<processVars, requestVars, con, fetched, committed, missed, outages>>

\* The broker has the batch and its acknowledgement is lost: the writer tries again.
Duplicate(r) ==
  /\ Alive
  /\ event[r] = "buffered"
  /\ Outage
  /\ Enqueue(r)
  /\ UNCHANGED <<processVars, requestVars, event, con, fetched, committed, missed>>

\* MaxAttempts are used up.
GiveUp(r) ==
  /\ Alive
  /\ event[r] = "buffered"
  /\ Outage
  /\ event' = [event EXCEPT ![r] = "dropped"]
  /\ UNCHANGED <<processVars, requestVars, con, topicVars>>

-----------------------------------------------------------------------------
(* Consumer.Run. ReadMessage fetches a message, commits its offset and only     *)
(* then returns it. Its context is Background(): no error it returns is         *)
(* context.Canceled, io.EOF of a closed reader included, and every error is     *)
(* followed by a pause and another attempt.                                     *)

Goto(c, step) == con' = [con EXCEPT ![c] = step]

\* mutant: the reader does not wait for a message
FetchBlindly ==
  /\ con[Reaper] = "reading"
  /\ "readers" \notin closed
  /\ fetched' = fetched + 1
  /\ Goto(Reaper, "committing")
  /\ UNCHANGED <<processVars, requestVars, event, log, committed, missed, handled, outages>>

\* mutant: the reader takes the newest message
FetchNewest ==
  /\ con[Reaper] = "reading"
  /\ "readers" \notin closed
  /\ fetched < Len(log)
  /\ fetched' = Len(log)
  /\ Goto(Reaper, "committing")
  /\ UNCHANGED <<processVars, requestVars, event, log, committed, missed, handled, outages>>

Fetch ==
  /\ con[Reaper] = "reading"
  /\ "readers" \notin closed
  /\ fetched < Len(log)
  /\ fetched' = fetched + 1
  /\ Goto(Reaper, "committing")
  /\ UNCHANGED <<processVars, requestVars, event, log, committed, missed, handled, outages>>

Commit ==
  /\ con[Reaper] = "committing"
  /\ "readers" \notin closed
  /\ committed' = fetched
  /\ Goto(Reaper, "handling")
  /\ UNCHANGED <<processVars, requestVars, event, log, fetched, missed, handled, outages>>

\* ReadMessage returns the error and not the message; the broker may have the
\* offset all the same.
CommitFails ==
  /\ con[Reaper] = "committing"
  /\ \/ "readers" \in closed /\ UNCHANGED <<committed, outages>>
     \/ Outage /\ committed' \in {committed, fetched}
  /\ missed' = missed \cup {log[fetched]}
  /\ Goto(Reaper, "pausing")
  /\ UNCHANGED <<processVars, requestVars, event, log, fetched, handled>>

\* mutant: a message whose handling failed is handled again
HandleUntilDone ==
  /\ con[Reaper] = "handling"
  /\ handled' = [handled EXCEPT ![fetched] = @ + 1]
  /\ Goto(Reaper, "reading") \/ UNCHANGED con
  /\ UNCHANGED <<processVars, requestVars, event, log, fetched, committed, missed, outages>>

\* handleFileDeleted logs the key it would remove.
Handle ==
  /\ con[Reaper] = "handling"
  /\ handled' = [handled EXCEPT ![fetched] = @ + 1]
  /\ Goto(Reaper, "reading")
  /\ UNCHANGED <<processVars, requestVars, event, log, fetched, committed, missed, outages>>

\* mutant: an error ends the consumer
ReadFailsForGood(c) ==
  /\ con[c] = "reading"
  /\ \/ "readers" \in closed /\ UNCHANGED outages
     \/ Outage
  /\ Goto(c, "off")
  /\ UNCHANGED <<processVars, requestVars, event, topicVars>>

ReadFails(c) ==
  /\ con[c] = "reading"
  /\ \/ "readers" \in closed /\ UNCHANGED outages
     \/ Outage
  /\ Goto(c, "pausing")
  /\ UNCHANGED <<processVars, requestVars, event, topicVars>>

Retry(c) ==
  /\ con[c] = "pausing"
  /\ Goto(c, "reading")
  /\ UNCHANGED <<processVars, requestVars, event, topicVars, outages>>

-----------------------------------------------------------------------------
(* main(): srv.Shutdown, then the deferred calls, last one first.              *)

Proceed(from, to, resources) ==
  /\ main = from
  /\ main' = to
  /\ closed' = closed \cup resources
  /\ UNCHANGED <<kafkaEnabled, restarts, requestVars, event, con, topicVars, outages>>

Signal == Proceed("serving", "draining", {}) /\ UNCHANGED timedOut

Drained ==
  /\ Proceed("draining", "waiting", {"readers"})
  /\ \/ (\A r \in Requests : req[r] # "running") /\ UNCHANGED timedOut
     \/ "drainTimeout" \in Faults /\ timedOut' = TRUE

\* wg.Wait() of the consumers, then close(p.jobs).
ConsumersGone ==
  /\ \A c \in Consumers : con[c] = "off"
  /\ Proceed("waiting", "stopping", {"queue"})
  /\ UNCHANGED timedOut

\* mutant: Stop closes the channel and does not wait
WorkersLeft == Proceed("stopping", "flushing", {"producer"}) /\ UNCHANGED timedOut

\* wg.Wait() of the pool, then producer.Close(), which takes no more messages.
WorkersGone ==
  /\ \A u \in Uploads : job[u] \notin {"queued", "reporting"}
  /\ Proceed("stopping", "flushing", {"producer"})
  /\ UNCHANGED timedOut

\* mutant: Close drops the batches
FlushedAtOnce == Proceed("flushing", "closingRedis", {}) /\ UNCHANGED timedOut

Flushed ==
  /\ \A r \in Requests : event[r] # "buffered"
  /\ Proceed("flushing", "closingRedis", {})
  /\ UNCHANGED timedOut

CloseRedis == Proceed("closingRedis", "closingPg", {"redis"}) /\ UNCHANGED timedOut
ClosePg == Proceed("closingPg", "returning", {"pg"}) /\ UNCHANGED timedOut

\* Whatever still runs goes with the process, and what only its memory held.
EndProcess(how) ==
  /\ main' = how
  /\ req' = [r \in Requests |-> IF req[r] = "running" THEN "aborted" ELSE req[r]]
  /\ job' = [u \in Uploads |-> IF job[u] \in {"queued", "reporting"} THEN "lost" ELSE job[u]]
  /\ event' = [r \in Requests |->
                 CASE event[r] = "pending" -> "dropped"
                   [] event[r] = "buffered" -> IF how = "died" THEN "died" ELSE "lost"
                   [] OTHER -> event[r]]
  /\ missed' = IF con[Reaper] = "handling" THEN missed \cup {log[fetched]} ELSE missed
  /\ con' = [c \in Consumers |-> "off"]
  /\ UNCHANGED <<kafkaEnabled, closed, timedOut, restarts, log, fetched, committed,
                 handled, outages>>

Exit == main = "returning" /\ EndProcess("exited")
Die == "crash" \in Faults /\ Alive /\ EndProcess("died")

\* Another process takes over from the committed offset.
Restart ==
  /\ ~Alive
  /\ restarts < MaxRestarts
  /\ restarts' = restarts + 1
  /\ main' = "serving"
  /\ closed' = {}
  /\ con' = StartConsumers(kafkaEnabled)
  /\ fetched' = committed
  /\ UNCHANGED <<kafkaEnabled, timedOut, requestVars, event, log, committed, missed,
                 handled, outages>>

-----------------------------------------------------------------------------
RequestStep(r) ==
  StartRequest(r) \/ Answer(r) \/ Publish(r) \/ Deliver(r) \/ Duplicate(r) \/ GiveUp(r)
ReaperStep == Fetch \/ Commit \/ CommitFails \/ Handle
MainStep ==
  \/ Drained \/ ConsumersGone \/ WorkersGone \/ Flushed
  \/ CloseRedis \/ ClosePg \/ Exit

Next ==
  \/ \E r \in Requests : RequestStep(r)
  \/ \E u \in Uploads : RunJob(u) \/ ReportAgain(u) \/ Leave(u)
  \/ ReaperStep
  \/ \E c \in Consumers : ReadFails(c) \/ Retry(c)
  \/ MainStep \/ Signal \/ Die \/ Restart

Spec == Init /\ [][Next]_vars

\* Goroutines are scheduled, calls return, a batch is sent within BatchTimeout and
\* a pause ends. Clients, signals, failures and restarts are not promised.
Fairness ==
  /\ \A r \in Requests :
       WF_vars(Answer(r)) /\ WF_vars(Publish(r)) /\ WF_vars(Deliver(r) \/ GiveUp(r))
  /\ \A u \in Uploads : WF_vars(RunJob(u)) /\ WF_vars(ReportAgain(u))
  /\ WF_vars(ReaperStep)
  /\ \A c \in Consumers : WF_vars(Retry(c))
  /\ WF_vars(MainStep)

FairSpec == Spec /\ Fairness

-----------------------------------------------------------------------------
(* Safety.                                                                     *)

AfterPool  == {"flushing", "closingRedis", "closingPg", "returning"}
AfterFlush == {"closingRedis", "closingPg", "returning"}
AfterWait  == {"stopping"} \cup AfterPool \cup {"exited"}
MainStates == {"serving", "draining", "waiting"} \cup AfterWait \cup {"died"}

\* Types; no message is fetched or committed that is not in the topic.
TypeOK ==
  /\ kafkaEnabled \in BOOLEAN /\ timedOut \in BOOLEAN
  /\ main \in MainStates
  /\ closed \subseteq {"readers", "queue", "producer", "redis", "pg"}
  /\ restarts \in Nat /\ outages \in Nat
  /\ req \in [Requests -> {"new", "running", "answered", "left", "failed", "aborted"}]
  /\ job \in [Uploads -> {"none", "queued", "done", "failed", "reporting", "lost"}]
  /\ event \in [Requests ->
       {"none", "pending", "buffered", "delivered", "dropped", "died", "lost"}]
  /\ con \in [Consumers -> {"off", "reading", "committing", "handling", "pausing"}]
  /\ log \in Seq(Deletes)
  /\ fetched \in 0..Len(log) /\ committed \in 0..Len(log)
  /\ missed \subseteq Deletes
  /\ handled \in Seq(Nat) /\ Len(handled) = Len(log)

\* ARCHITECTURE.md on defer: resources are closed in the right order. The pool of
\* connections outlives every job, and every request that srv.Shutdown waited for;
\* no handler meets it closed unless the 30 seconds ran out.
ResourcesOutliveUsers ==
  /\ "pg" \in closed =>
       /\ \A u \in Uploads : job[u] \notin {"queued", "reporting"}
       /\ timedOut \/ \A r \in Requests : req[r] # "running"
  /\ \A d \in Deletes : req[d] = "failed" => timedOut

\* producer.go: Close flushes. An event in the buffer goes down only with a process that
\* is killed, never with one that exits through its deferred calls.
BufferFlushed ==
  \A r \in Requests :
    /\ main \in AfterFlush => event[r] # "buffered"
    /\ event[r] # "lost"

\* No message is handled twice, over crashes, restarts, failed commits and lost
\* replies: the offset is committed first. Only the writer makes two of one event.
HandledAtMostOnce == \A i \in 1..Len(handled) : handled[i] <= 1

\* Messages are lost to the consumer in two ways only: their commit fails, or the
\* process ends while it handles them. The offset passes no other message, by however
\* many failures, pauses and restarts, before that message is at hand.
NothingSkipped ==
  \A i \in 1..(IF Alive THEN fetched ELSE committed) :
    \/ handled[i] = 1
    \/ log[i] \in missed
    \/ i = fetched /\ con[Reaper] \in {"committing", "handling"}

-----------------------------------------------------------------------------
(* Liveness.                                                                   *)

Handled(d) == \E i \in 1..Len(log) : log[i] = d /\ handled[i] = 1

\* A deletion that was answered reaches the consumer, in this process or after a
\* restart that serves, unless Kafka or a crash lost its message on the way. No
\* outage ends the consumer.
DeletionReachesConsumer ==
  \A d \in Deletes :
    kafkaEnabled /\ req[d] = "answered" ~>
      Handled(d) \/ d \in missed \/ event[d] \in {"dropped", "died"} \/ main # "serving"

\* The INSERT failed and the client has left: nobody takes the first report.
WorkerStuck == \E u \in Uploads : job[u] = "reporting" /\ req[u] = "left"

\* Without consumers, SIGTERM leads through every deferred call to the exit, over
\* failing jobs, clients that leave and a drain that takes too long, unless a worker
\* is stuck with its second report: Pool.Stop waits for it.
ShutdownCompletes == ~kafkaEnabled /\ main = "draining" ~> ~Alive \/ WorkerStuck

\* main.go and ARCHITECTURE.md on graceful shutdown: so it does with them.
GracefulShutdownCompletes == main = "draining" ~> ~Alive
=============================================================================
