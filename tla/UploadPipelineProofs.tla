------------------------ MODULE UploadPipelineProofs ------------------------
(* Proofs about UploadPipeline, for every number of uploads, workers and       *)
(* chunks, every capacity of the queue and every choice of Disturbances.       *)
(*                                                                             *)
(* The argument: IInv says what each place an upload can be in (the queue, a   *)
(* worker at one of its steps, errCh, the caller) implies about the others; it *)
(* is inductive, and the safety properties and the refinement of               *)
(* UploadContract follow from it.                                              *)
EXTENDS UploadPipeline, TLAPS

USE DEF InFlight, Endings, Reporting, Encrypting, InJob, Untouched, requestVars,
        poolVars, pipeVars, storeVars, eventVars

-----------------------------------------------------------------------------
(* Pool.jobs as a sequence.                                                    *)

\* Sending on the channel adds the job at the end and moves no other
\* (Pool.Submit).
LEMMA AppendQueue ==
  ASSUME NEW S, NEW q \in Seq(S), NEW x \in S
  PROVE  /\ Append(q, x) \in Seq(S)
         /\ Len(Append(q, x)) = Len(q) + 1
         /\ \A i \in 1..Len(q) : Append(q, x)[i] = q[i]
         /\ Append(q, x)[Len(q) + 1] = x
         /\ Append(q, x) # <<>>
OBVIOUS

\* Receiving from the channel takes the first job and shifts the others
\* (Pool.worker).
LEMMA TailQueue ==
  ASSUME NEW S, NEW q \in Seq(S), q # <<>>
  PROVE  /\ Head(q) \in S /\ Head(q) = q[1]
         /\ Len(q) \in Nat \ {0}
         /\ Tail(q) \in Seq(S)
         /\ Len(Tail(q)) = Len(q) - 1
         /\ \A i \in 1..Len(Tail(q)) : Tail(q)[i] = q[i + 1]
OBVIOUS

-----------------------------------------------------------------------------
(* IInv is inductive.                                                          *)

\* The server starts with nothing queued, running or stored.
LEMMA InitIInv == Init => IInv
<1> SUFFICES ASSUME Init PROVE IInv
  OBVIOUS
<1>1. TypeOK
  BY QueueCapAssumption, ChunksAssumption DEF Init, TypeOK
<1>2. JobsDistinct /\ QueueFresh /\ UnstartedFresh /\ WorkerProgress
  BY DEF Init, JobsDistinct, QueueFresh, UnstartedFresh, WorkerProgress
<1>3. StreamsWhole /\ AnswersTrue /\ AnswerOnTheWay /\ ExitOrder
  BY DEF Init, StreamsWhole, AnswersTrue, AnswerOnTheWay, ExitOrder
<1>4. RowImpliesObject /\ CreatedMeansStored /\ FailedMeansNotStored
  BY DEF Init, RowImpliesObject, CreatedMeansStored, FailedMeansNotStored
<1> QED
  BY <1>1, <1>2, <1>3, <1>4 DEF IInv

\* Every step of a request, an encrypting goroutine, a worker or main() keeps
\* IInv: first the parts the step leaves as they were or keeps by themselves,
\* then each part that it disturbs.
LEMMA StepIInv == IInv /\ [Next]_vars => IInv'
<1> SUFFICES ASSUME IInv, [Next]_vars PROVE IInv'
  OBVIOUS
<1>1. ASSUME NEW u \in Uploads, StartUpload(u) PROVE IInv'
  <2>1. /\ JobsDistinct' /\ StreamsWhole' /\ AnswersTrue' /\ ExitOrder'
        /\ RowImpliesObject'
    BY <1>1
    DEF IInv, JobsDistinct, StreamsWhole, AnswersTrue, ExitOrder,
        RowImpliesObject, StartUpload
  <2>2. TypeOK'
    BY <1>1 DEF IInv, TypeOK, StartUpload
  <2>3. QueueFresh'
    BY <1>1 DEF IInv, QueueFresh, StartUpload
  <2>4. UnstartedFresh'
    BY <1>1 DEF IInv, UnstartedFresh, StartUpload
  <2>5. WorkerProgress'
    BY <1>1 DEF IInv, WorkerProgress, StartUpload
  <2>6. AnswerOnTheWay'
    BY <1>1 DEF IInv, AnswerOnTheWay, StartUpload
  <2>7. CreatedMeansStored'
    BY <1>1 DEF IInv, CreatedMeansStored, StartUpload
  <2>8. FailedMeansNotStored'
    BY <1>1 DEF IInv, FailedMeansNotStored, StartUpload
  <2> QED BY <2>1, <2>2, <2>3, <2>4, <2>5, <2>6, <2>7, <2>8 DEF IInv
<1>2. ASSUME NEW u \in Uploads, RejectUpload(u) PROVE IInv'
  <2>1. /\ TypeOK' /\ JobsDistinct' /\ QueueFresh' /\ UnstartedFresh'
        /\ WorkerProgress' /\ StreamsWhole' /\ AnswersTrue' /\ AnswerOnTheWay'
        /\ ExitOrder' /\ RowImpliesObject' /\ CreatedMeansStored'
        /\ FailedMeansNotStored'
    BY <1>2
    DEF IInv, TypeOK, JobsDistinct, QueueFresh, UnstartedFresh,
        WorkerProgress, StreamsWhole, AnswersTrue, AnswerOnTheWay, ExitOrder,
        RowImpliesObject, CreatedMeansStored, FailedMeansNotStored,
        RejectUpload
  <2> QED BY <2>1 DEF IInv
<1>3. ASSUME NEW u \in Uploads, Disconnect(u) PROVE IInv'
  <2>1. /\ TypeOK' /\ JobsDistinct' /\ QueueFresh' /\ UnstartedFresh'
        /\ WorkerProgress' /\ StreamsWhole' /\ AnswersTrue' /\ AnswerOnTheWay'
        /\ ExitOrder' /\ RowImpliesObject' /\ CreatedMeansStored'
        /\ FailedMeansNotStored'
    BY <1>3
    DEF IInv, TypeOK, JobsDistinct, QueueFresh, UnstartedFresh,
        WorkerProgress, StreamsWhole, AnswersTrue, AnswerOnTheWay, ExitOrder,
        RowImpliesObject, CreatedMeansStored, FailedMeansNotStored, Disconnect
  <2> QED BY <2>1 DEF IInv
<1>4. ASSUME NEW u \in Uploads, Submit(u) PROVE IInv'
  <2>1. /\ UnstartedFresh' /\ WorkerProgress' /\ StreamsWhole' /\ AnswersTrue'
        /\ ExitOrder' /\ RowImpliesObject' /\ CreatedMeansStored'
        /\ FailedMeansNotStored'
    BY <1>4
    DEF IInv, TypeOK, UnstartedFresh, WorkerProgress, StreamsWhole,
        AnswersTrue, ExitOrder, RowImpliesObject, CreatedMeansStored,
        FailedMeansNotStored, Submit
  <2>2. TypeOK'
    BY <1>4, QueueCapAssumption DEF IInv, TypeOK, Submit
  <2>3. JobsDistinct'
    <3>1. \A i \in 1..Len(jobs) : jobs[i] # u
      BY <1>4 DEF IInv, QueueFresh, Submit
    <3>2. \A v \in Workers : job[v] # u
      BY <1>4, NoJobAssumption
      DEF IInv, TypeOK, JobsDistinct, WorkerProgress, Submit
    <3>3. /\ jobs' = Append(jobs, u) /\ jobs \in Seq(Uploads)
          /\ UNCHANGED <<wpc, job>>
      BY <1>4 DEF IInv, TypeOK, Submit
    <3>4. /\ Len(jobs') = Len(jobs) + 1
          /\ \A i \in 1..Len(jobs) : jobs'[i] = jobs[i]
          /\ jobs'[Len(jobs) + 1] = u
      BY <3>3, AppendQueue
    <3>5. \A i, j \in 1..Len(jobs') : jobs'[i] = jobs'[j] => i = j
      BY <3>1, <3>3, <3>4 DEF IInv, JobsDistinct
    <3>6. \A i \in 1..Len(jobs') : \A v \in Workers : jobs'[i] # job'[v]
      BY <3>2, <3>3, <3>4 DEF IInv, JobsDistinct
    <3> QED
      BY <3>3, <3>5, <3>6 DEF IInv, JobsDistinct
  <2>4. QueueFresh'
    BY <1>4 DEF IInv, TypeOK, QueueFresh, UnstartedFresh, Submit
  <2>5. AnswerOnTheWay'
    BY <1>4, AppendQueue DEF IInv, AnswerOnTheWay, Submit
  <2> QED BY <2>1, <2>2, <2>3, <2>4, <2>5 DEF IInv
<1>5. ASSUME NEW u \in Uploads, SubmitPanics(u) PROVE IInv'
  <2>1. /\ JobsDistinct' /\ StreamsWhole' /\ AnswersTrue' /\ ExitOrder'
        /\ RowImpliesObject'
    BY <1>5
    DEF IInv, JobsDistinct, StreamsWhole, AnswersTrue, ExitOrder,
        RowImpliesObject, SubmitPanics
  <2>2. TypeOK'
    BY <1>5 DEF IInv, TypeOK, SubmitPanics
  <2>3. QueueFresh'
    BY <1>5 DEF IInv, QueueFresh, SubmitPanics
  <2>4. UnstartedFresh'
    BY <1>5 DEF IInv, UnstartedFresh, SubmitPanics
  <2>5. WorkerProgress'
    BY <1>5 DEF IInv, WorkerProgress, SubmitPanics
  <2>6. AnswerOnTheWay'
    BY <1>5 DEF IInv, AnswerOnTheWay, SubmitPanics
  <2>7. CreatedMeansStored'
    BY <1>5 DEF IInv, CreatedMeansStored, SubmitPanics
  <2>8. FailedMeansNotStored'
    BY <1>5 DEF IInv, FailedMeansNotStored, SubmitPanics
  <2> QED BY <2>1, <2>2, <2>3, <2>4, <2>5, <2>6, <2>7, <2>8 DEF IInv
<1>6. ASSUME NEW u \in Uploads, ReceiveResult(u) PROVE IInv'
  <2>1. /\ JobsDistinct' /\ StreamsWhole' /\ ExitOrder' /\ RowImpliesObject'
    BY <1>6
    DEF IInv, JobsDistinct, StreamsWhole, ExitOrder, RowImpliesObject,
        ReceiveResult
  <2>2. TypeOK'
    BY <1>6 DEF IInv, TypeOK, ReceiveResult
  <2>3. QueueFresh'
    BY <1>6 DEF IInv, TypeOK, QueueFresh, ReceiveResult
  <2>4. UnstartedFresh'
    BY <1>6 DEF IInv, TypeOK, UnstartedFresh, ReceiveResult
  <2>5. WorkerProgress'
    <3>1. /\ errCh[u] # "empty" /\ errCh'[u] = "empty"
          /\ errCh[u] # "nil" => handler'[u] = "failed"
          /\ \A x \in Uploads \ {u} :
               handler'[x] = handler[x] /\ errCh'[x] = errCh[x]
          /\ UNCHANGED <<wpc, job, rows, objects, left>>
      BY <1>6 DEF IInv, TypeOK, ReceiveResult
    <3>2. \A w \in Workers : job[w] = u => wpc[w] \notin InJob \/ wpc[w] = "onError"
      BY <3>1 DEF IInv, WorkerProgress
    <3>3. \A w \in Workers : wpc[w] \in InJob => job[w] \in Uploads
      BY DEF IInv, TypeOK, JobsDistinct
    <3> QED
      BY <3>1, <3>2, <3>3 DEF IInv, WorkerProgress
  <2>6. AnswersTrue'
    BY <1>6 DEF IInv, AnswersTrue, ReceiveResult
  <2>7. AnswerOnTheWay'
    BY <1>6 DEF IInv, TypeOK, AnswerOnTheWay, ReceiveResult
  <2>8. CreatedMeansStored'
    BY <1>6
    DEF IInv, TypeOK, AnswersTrue, RowImpliesObject, CreatedMeansStored,
        ReceiveResult
  <2>9. FailedMeansNotStored'
    BY <1>6 DEF IInv, TypeOK, AnswersTrue, FailedMeansNotStored, ReceiveResult
  <2> QED BY <2>1, <2>2, <2>3, <2>4, <2>5, <2>6, <2>7, <2>8, <2>9 DEF IInv
<1>7. ASSUME NEW u \in Uploads, AbandonWait(u) PROVE IInv'
  <2>1. /\ JobsDistinct' /\ StreamsWhole' /\ AnswersTrue' /\ ExitOrder'
        /\ RowImpliesObject'
    BY <1>7
    DEF IInv, JobsDistinct, StreamsWhole, AnswersTrue, ExitOrder,
        RowImpliesObject, AbandonWait
  <2>2. TypeOK'
    BY <1>7 DEF IInv, TypeOK, AbandonWait
  <2>3. QueueFresh'
    BY <1>7 DEF IInv, QueueFresh, AbandonWait
  <2>4. UnstartedFresh'
    BY <1>7 DEF IInv, UnstartedFresh, AbandonWait
  <2>5. WorkerProgress'
    BY <1>7 DEF IInv, WorkerProgress, AbandonWait
  <2>6. AnswerOnTheWay'
    BY <1>7 DEF IInv, AnswerOnTheWay, AbandonWait
  <2>7. CreatedMeansStored'
    BY <1>7 DEF IInv, CreatedMeansStored, AbandonWait
  <2>8. FailedMeansNotStored'
    BY <1>7 DEF IInv, FailedMeansNotStored, AbandonWait
  <2> QED BY <2>1, <2>2, <2>3, <2>4, <2>5, <2>6, <2>7, <2>8 DEF IInv
<1>8. ASSUME NEW u \in Uploads, PipeTransfer(u) PROVE IInv'
  <2>1. /\ JobsDistinct' /\ QueueFresh' /\ UnstartedFresh' /\ WorkerProgress'
        /\ AnswersTrue' /\ AnswerOnTheWay' /\ ExitOrder' /\ RowImpliesObject'
        /\ CreatedMeansStored' /\ FailedMeansNotStored'
    BY <1>8
    DEF IInv, JobsDistinct, QueueFresh, UnstartedFresh, WorkerProgress,
        AnswersTrue, AnswerOnTheWay, ExitOrder, RowImpliesObject,
        CreatedMeansStored, FailedMeansNotStored, PipeTransfer
  <2>2. TypeOK'
    BY <1>8 DEF IInv, TypeOK, PipeTransfer
  <2>3. StreamsWhole'
    BY <1>8 DEF IInv, StreamsWhole, PipeTransfer
  <2> QED BY <2>1, <2>2, <2>3 DEF IInv
<1>9. ASSUME NEW u \in Uploads, ReadChunk(u) PROVE IInv'
  <2>1. /\ JobsDistinct' /\ QueueFresh' /\ UnstartedFresh' /\ AnswersTrue'
        /\ AnswerOnTheWay' /\ ExitOrder' /\ RowImpliesObject'
        /\ CreatedMeansStored' /\ FailedMeansNotStored'
    BY <1>9
    DEF IInv, JobsDistinct, QueueFresh, UnstartedFresh, AnswersTrue,
        AnswerOnTheWay, ExitOrder, RowImpliesObject, CreatedMeansStored,
        FailedMeansNotStored, ReadChunk
  <2>2. TypeOK'
    BY <1>9, ChunksAssumption DEF IInv, TypeOK, ReadChunk
  <2>3. WorkerProgress'
    BY <1>9 DEF IInv, WorkerProgress, ReadChunk
  <2>4. StreamsWhole'
    BY <1>9 DEF IInv, StreamsWhole, ReadChunk
  <2> QED BY <2>1, <2>2, <2>3, <2>4 DEF IInv
<1>10. ASSUME NEW u \in Uploads, ReadEnd(u) PROVE IInv'
  <2>1. /\ JobsDistinct' /\ QueueFresh' /\ UnstartedFresh' /\ WorkerProgress'
        /\ AnswersTrue' /\ AnswerOnTheWay' /\ ExitOrder' /\ RowImpliesObject'
        /\ CreatedMeansStored' /\ FailedMeansNotStored'
    BY <1>10
    DEF IInv, JobsDistinct, QueueFresh, UnstartedFresh, WorkerProgress,
        AnswersTrue, AnswerOnTheWay, ExitOrder, RowImpliesObject,
        CreatedMeansStored, FailedMeansNotStored, ReadEnd
  <2>2. TypeOK'
    BY <1>10 DEF IInv, TypeOK, ReadEnd
  <2>3. StreamsWhole'
    BY <1>10 DEF IInv, StreamsWhole, ReadEnd
  <2> QED BY <2>1, <2>2, <2>3 DEF IInv
<1>11. ASSUME NEW u \in Uploads, ReadFails(u) PROVE IInv'
  <2>1. /\ JobsDistinct' /\ QueueFresh' /\ UnstartedFresh' /\ WorkerProgress'
        /\ AnswersTrue' /\ AnswerOnTheWay' /\ ExitOrder' /\ RowImpliesObject'
        /\ CreatedMeansStored' /\ FailedMeansNotStored'
    BY <1>11
    DEF IInv, JobsDistinct, QueueFresh, UnstartedFresh, WorkerProgress,
        AnswersTrue, AnswerOnTheWay, ExitOrder, RowImpliesObject,
        CreatedMeansStored, FailedMeansNotStored, ReadFails
  <2>2. TypeOK'
    BY <1>11 DEF IInv, TypeOK, ReadFails
  <2>3. StreamsWhole'
    BY <1>11 DEF IInv, StreamsWhole, ReadFails
  <2> QED BY <2>1, <2>2, <2>3 DEF IInv
<1>12. ASSUME NEW u \in Uploads, Publish(u) PROVE IInv'
  <2>1. /\ TypeOK' /\ JobsDistinct' /\ QueueFresh' /\ UnstartedFresh'
        /\ WorkerProgress' /\ StreamsWhole' /\ AnswersTrue' /\ AnswerOnTheWay'
        /\ ExitOrder' /\ RowImpliesObject' /\ CreatedMeansStored'
        /\ FailedMeansNotStored'
    BY <1>12
    DEF IInv, TypeOK, JobsDistinct, QueueFresh, UnstartedFresh,
        WorkerProgress, StreamsWhole, AnswersTrue, AnswerOnTheWay, ExitOrder,
        RowImpliesObject, CreatedMeansStored, FailedMeansNotStored, Publish
  <2> QED BY <2>1 DEF IInv
<1>13. ASSUME NEW u \in Uploads, DropEvent(u) PROVE IInv'
  <2>1. /\ TypeOK' /\ JobsDistinct' /\ QueueFresh' /\ UnstartedFresh'
        /\ WorkerProgress' /\ StreamsWhole' /\ AnswersTrue' /\ AnswerOnTheWay'
        /\ ExitOrder' /\ RowImpliesObject' /\ CreatedMeansStored'
        /\ FailedMeansNotStored'
    BY <1>13
    DEF IInv, TypeOK, JobsDistinct, QueueFresh, UnstartedFresh,
        WorkerProgress, StreamsWhole, AnswersTrue, AnswerOnTheWay, ExitOrder,
        RowImpliesObject, CreatedMeansStored, FailedMeansNotStored, DropEvent
  <2> QED BY <2>1 DEF IInv
<1>14. ASSUME NEW w \in Workers, TakeJob(w) PROVE IInv'
  <2>1. /\ QueueFresh' /\ UnstartedFresh' /\ StreamsWhole' /\ AnswersTrue'
        /\ ExitOrder' /\ RowImpliesObject' /\ CreatedMeansStored'
        /\ FailedMeansNotStored'
    BY <1>14
    DEF IInv, TypeOK, QueueFresh, UnstartedFresh, StreamsWhole, AnswersTrue,
        ExitOrder, RowImpliesObject, CreatedMeansStored, FailedMeansNotStored,
        TakeJob
  <2>2. TypeOK'
    BY <1>14, QueueCapAssumption DEF IInv, TypeOK, TakeJob
  <2>3. JobsDistinct'
    <3>1. /\ jobs \in Seq(Uploads) /\ jobs # <<>> /\ jobs' = Tail(jobs)
          /\ job' = [job EXCEPT ![w] = Head(jobs)]
          /\ wpc' = [wpc EXCEPT ![w] = "uploading"]
          /\ job[w] = NoJob
      BY <1>14 DEF IInv, TypeOK, JobsDistinct, TakeJob
    <3>2. /\ Head(jobs) \in Uploads /\ Head(jobs) = jobs[1]
          /\ Len(jobs) \in Nat \ {0}
          /\ Len(jobs') = Len(jobs) - 1
          /\ \A i \in 1..Len(jobs') : jobs'[i] = jobs[i + 1]
      BY <3>1, TailQueue
    <3>3. \A v \in Workers : job'[v] # NoJob <=> wpc'[v] \in InJob
      BY <3>1, <3>2, NoJobAssumption DEF IInv, TypeOK, JobsDistinct
    <3>4. \A v, x \in Workers : job'[v] = job'[x] /\ job'[v] # NoJob => v = x
      BY <3>1, <3>2 DEF IInv, TypeOK, JobsDistinct
    <3>5. \A i, j \in 1..Len(jobs') : jobs'[i] = jobs'[j] => i = j
      BY <3>1, <3>2 DEF IInv, JobsDistinct
    <3>6. \A i \in 1..Len(jobs') : \A v \in Workers : jobs'[i] # job'[v]
      BY <3>1, <3>2 DEF IInv, TypeOK, JobsDistinct
    <3> QED
      BY <3>3, <3>4, <3>5, <3>6 DEF JobsDistinct
  <2>4. WorkerProgress'
    BY <1>14 DEF IInv, TypeOK, QueueFresh, WorkerProgress, TakeJob
  <2>5. AnswerOnTheWay'
    <3>1. /\ jobs \in Seq(Uploads) /\ jobs # <<>> /\ jobs' = Tail(jobs)
          /\ job' = [job EXCEPT ![w] = Head(jobs)]
          /\ job \in [Workers -> Uploads \cup {NoJob}]
          /\ job[w] = NoJob
          /\ UNCHANGED <<handler, errCh>>
      BY <1>14 DEF IInv, TypeOK, JobsDistinct, TakeJob
    <3>2. SUFFICES ASSUME NEW x \in Uploads, handler[x] = "waiting",
                          errCh[x] = "empty"
                   PROVE  \/ \E i \in 1..Len(jobs') : jobs'[i] = x
                          \/ \E v \in Workers : job'[v] = x
      BY <3>1 DEF AnswerOnTheWay
    <3>3. CASE \E v \in Workers : job[v] = x
      BY <3>1, <3>3, NoJobAssumption
    <3>4. ASSUME NEW i \in 1..Len(jobs), jobs[i] = x
          PROVE  \/ \E k \in 1..Len(jobs') : jobs'[k] = x
                 \/ \E v \in Workers : job'[v] = x
      <4>1. CASE i = 1
        BY <3>1, <3>4, <4>1, TailQueue
      <4>2. CASE i # 1
        <5>1. i - 1 \in 1..Len(jobs') /\ jobs'[i - 1] = jobs[i]
          BY <3>1, <4>2, TailQueue
        <5> QED
          BY <3>4, <5>1
      <4> QED
        BY <4>1, <4>2
    <3> QED
      BY <3>2, <3>3, <3>4 DEF IInv, AnswerOnTheWay
  <2> QED BY <2>1, <2>2, <2>3, <2>4, <2>5 DEF IInv
<1>15. ASSUME NEW w \in Workers, PutObjectOk(w) PROVE IInv'
  <2>1. /\ StreamsWhole' /\ AnswerOnTheWay' /\ FailedMeansNotStored'
    BY <1>15
    DEF IInv, StreamsWhole, AnswerOnTheWay, FailedMeansNotStored, PutObjectOk
  <2>2. TypeOK'
    BY <1>15 DEF IInv, TypeOK, JobsDistinct, PutObjectOk
  <2>3. JobsDistinct'
    BY <1>15 DEF IInv, JobsDistinct, PutObjectOk
  <2>4. QueueFresh'
    BY <1>15 DEF IInv, JobsDistinct, QueueFresh, PutObjectOk
  <2>5. UnstartedFresh'
    BY <1>15 DEF IInv, UnstartedFresh, WorkerProgress, PutObjectOk
  <2>6. WorkerProgress'
    BY <1>15
    DEF IInv, TypeOK, JobsDistinct, WorkerProgress, StreamsWhole, PutObjectOk
  <2>7. AnswersTrue'
    BY <1>15 DEF IInv, AnswersTrue, PutObjectOk
  <2>8. ExitOrder'
    BY <1>15 DEF IInv, ExitOrder, PutObjectOk
  <2>9. RowImpliesObject'
    BY <1>15 DEF IInv, RowImpliesObject, PutObjectOk
  <2>10. CreatedMeansStored'
    BY <1>15 DEF IInv, CreatedMeansStored, PutObjectOk
  <2> QED BY <2>1, <2>2, <2>3, <2>4, <2>5, <2>6, <2>7, <2>8, <2>9, <2>10 DEF IInv
<1>16. ASSUME NEW w \in Workers, PutObjectFails(w) PROVE IInv'
  <2>1. /\ StreamsWhole' /\ AnswerOnTheWay' /\ FailedMeansNotStored'
    BY <1>16
    DEF IInv, StreamsWhole, AnswerOnTheWay, FailedMeansNotStored,
        PutObjectFails
  <2>2. TypeOK'
    BY <1>16 DEF IInv, TypeOK, JobsDistinct, PutObjectFails
  <2>3. JobsDistinct'
    BY <1>16 DEF IInv, JobsDistinct, PutObjectFails
  <2>4. QueueFresh'
    BY <1>16 DEF IInv, JobsDistinct, QueueFresh, PutObjectFails
  <2>5. UnstartedFresh'
    BY <1>16 DEF IInv, UnstartedFresh, WorkerProgress, PutObjectFails
  <2>6. WorkerProgress'
    BY <1>16 DEF IInv, WorkerProgress, PutObjectFails
  <2>7. AnswersTrue'
    BY <1>16 DEF IInv, WorkerProgress, AnswersTrue, PutObjectFails
  <2>8. ExitOrder'
    BY <1>16 DEF IInv, ExitOrder, PutObjectFails
  <2>9. RowImpliesObject'
    BY <1>16 DEF IInv, RowImpliesObject, PutObjectFails
  <2>10. CreatedMeansStored'
    BY <1>16 DEF IInv, CreatedMeansStored, PutObjectFails
  <2> QED BY <2>1, <2>2, <2>3, <2>4, <2>5, <2>6, <2>7, <2>8, <2>9, <2>10 DEF IInv
<1>17. ASSUME NEW w \in Workers, CreateOk(w) PROVE IInv'
  <2>1. /\ StreamsWhole' /\ AnswerOnTheWay'
    BY <1>17 DEF IInv, StreamsWhole, AnswerOnTheWay, CreateOk
  <2>2. TypeOK'
    BY <1>17 DEF IInv, TypeOK, WorkerProgress, CreateOk
  <2>3. JobsDistinct'
    BY <1>17 DEF IInv, JobsDistinct, CreateOk
  <2>4. QueueFresh'
    BY <1>17 DEF IInv, QueueFresh, WorkerProgress, CreateOk
  <2>5. UnstartedFresh'
    BY <1>17 DEF IInv, UnstartedFresh, WorkerProgress, CreateOk
  <2>6. WorkerProgress'
    BY <1>17 DEF IInv, TypeOK, JobsDistinct, WorkerProgress, CreateOk
  <2>7. AnswersTrue'
    BY <1>17 DEF IInv, JobsDistinct, WorkerProgress, AnswersTrue, CreateOk
  <2>8. ExitOrder'
    BY <1>17 DEF IInv, ExitOrder, CreateOk
  <2>9. RowImpliesObject'
    BY <1>17 DEF IInv, WorkerProgress, RowImpliesObject, CreateOk
  <2>10. CreatedMeansStored'
    BY <1>17 DEF IInv, CreatedMeansStored, CreateOk
  <2>11. FailedMeansNotStored'
    BY <1>17 DEF IInv, WorkerProgress, FailedMeansNotStored, CreateOk
  <2> QED BY <2>1, <2>2, <2>3, <2>4, <2>5, <2>6, <2>7, <2>8, <2>9, <2>10,
          <2>11 DEF IInv
<1>18. ASSUME NEW w \in Workers, CreateFails(w) PROVE IInv'
  <2>1. /\ StreamsWhole' /\ AnswerOnTheWay'
    BY <1>18 DEF IInv, StreamsWhole, AnswerOnTheWay, CreateFails
  <2>2. TypeOK'
    BY <1>18 DEF IInv, TypeOK, WorkerProgress, CreateFails
  <2>3. JobsDistinct'
    BY <1>18 DEF IInv, JobsDistinct, CreateFails
  <2>4. QueueFresh'
    BY <1>18 DEF IInv, QueueFresh, WorkerProgress, CreateFails
  <2>5. UnstartedFresh'
    BY <1>18 DEF IInv, UnstartedFresh, WorkerProgress, CreateFails
  <2>6. WorkerProgress'
    BY <1>18 DEF IInv, TypeOK, JobsDistinct, WorkerProgress, CreateFails
  <2>7. AnswersTrue'
    BY <1>18 DEF IInv, WorkerProgress, AnswersTrue, CreateFails
  <2>8. ExitOrder'
    BY <1>18 DEF IInv, ExitOrder, CreateFails
  <2>9. RowImpliesObject'
    BY <1>18 DEF IInv, WorkerProgress, RowImpliesObject, CreateFails
  <2>10. CreatedMeansStored'
    BY <1>18 DEF IInv, CreatedMeansStored, CreateFails
  <2>11. FailedMeansNotStored'
    BY <1>18 DEF IInv, WorkerProgress, FailedMeansNotStored, CreateFails
  <2> QED BY <2>1, <2>2, <2>3, <2>4, <2>5, <2>6, <2>7, <2>8, <2>9, <2>10,
          <2>11 DEF IInv
<1>19. ASSUME NEW w \in Workers, ReportNil(w) PROVE IInv'
  <2>1. /\ StreamsWhole' /\ RowImpliesObject' /\ CreatedMeansStored'
        /\ FailedMeansNotStored'
    BY <1>19
    DEF IInv, StreamsWhole, RowImpliesObject, CreatedMeansStored,
        FailedMeansNotStored, ReportNil
  <2>2. TypeOK'
    BY <1>19 DEF IInv, TypeOK, ReportNil
  <2>3. JobsDistinct'
    BY <1>19, NoJobAssumption DEF IInv, TypeOK, JobsDistinct, ReportNil
  <2>4. QueueFresh'
    BY <1>19 DEF IInv, QueueFresh, WorkerProgress, ReportNil
  <2>5. UnstartedFresh'
    BY <1>19 DEF IInv, UnstartedFresh, WorkerProgress, ReportNil
  <2>6. WorkerProgress'
    BY <1>19 DEF IInv, TypeOK, JobsDistinct, WorkerProgress, ReportNil
  <2>7. AnswersTrue'
    BY <1>19 DEF IInv, WorkerProgress, AnswersTrue, ReportNil
  <2>8. AnswerOnTheWay'
    BY <1>19 DEF IInv, TypeOK, AnswerOnTheWay, ReportNil
  <2>9. ExitOrder'
    BY <1>19 DEF IInv, ExitOrder, ReportNil
  <2> QED BY <2>1, <2>2, <2>3, <2>4, <2>5, <2>6, <2>7, <2>8, <2>9 DEF IInv
<1>20. ASSUME NEW w \in Workers, ReportErr(w) PROVE IInv'
  <2>1. /\ StreamsWhole' /\ RowImpliesObject' /\ CreatedMeansStored'
        /\ FailedMeansNotStored'
    BY <1>20
    DEF IInv, StreamsWhole, RowImpliesObject, CreatedMeansStored,
        FailedMeansNotStored, ReportErr
  <2>2. TypeOK'
    BY <1>20 DEF IInv, TypeOK, ReportErr
  <2>3. JobsDistinct'
    BY <1>20 DEF IInv, JobsDistinct, ReportErr
  <2>4. QueueFresh'
    BY <1>20 DEF IInv, JobsDistinct, QueueFresh, ReportErr
  <2>5. UnstartedFresh'
    BY <1>20 DEF IInv, UnstartedFresh, WorkerProgress, ReportErr
  <2>6. WorkerProgress'
    BY <1>20 DEF IInv, TypeOK, JobsDistinct, WorkerProgress, ReportErr
  <2>7. AnswersTrue'
    BY <1>20 DEF IInv, AnswersTrue, ReportErr
  <2>8. AnswerOnTheWay'
    BY <1>20 DEF IInv, AnswerOnTheWay, ReportErr
  <2>9. ExitOrder'
    BY <1>20 DEF IInv, ExitOrder, ReportErr
  <2> QED BY <2>1, <2>2, <2>3, <2>4, <2>5, <2>6, <2>7, <2>8, <2>9 DEF IInv
<1>21. ASSUME NEW w \in Workers, OnError(w) PROVE IInv'
  <2>1. /\ StreamsWhole' /\ RowImpliesObject' /\ CreatedMeansStored'
        /\ FailedMeansNotStored'
    BY <1>21
    DEF IInv, StreamsWhole, RowImpliesObject, CreatedMeansStored,
        FailedMeansNotStored, OnError
  <2>2. TypeOK'
    BY <1>21 DEF IInv, TypeOK, OnError
  <2>3. JobsDistinct'
    BY <1>21, NoJobAssumption DEF IInv, TypeOK, JobsDistinct, OnError
  <2>4. QueueFresh'
    BY <1>21 DEF IInv, JobsDistinct, QueueFresh, OnError
  <2>5. UnstartedFresh'
    BY <1>21 DEF IInv, UnstartedFresh, WorkerProgress, OnError
  <2>6. WorkerProgress'
    BY <1>21 DEF IInv, TypeOK, JobsDistinct, WorkerProgress, OnError
  <2>7. AnswersTrue'
    BY <1>21 DEF IInv, TypeOK, AnswersTrue, OnError
  <2>8. AnswerOnTheWay'
    BY <1>21 DEF IInv, TypeOK, AnswerOnTheWay, OnError
  <2>9. ExitOrder'
    BY <1>21 DEF IInv, ExitOrder, OnError
  <2> QED BY <2>1, <2>2, <2>3, <2>4, <2>5, <2>6, <2>7, <2>8, <2>9 DEF IInv
<1>22. ASSUME NEW w \in Workers, WorkerExit(w) PROVE IInv'
  <2>1. /\ TypeOK' /\ JobsDistinct' /\ QueueFresh' /\ UnstartedFresh'
        /\ WorkerProgress' /\ StreamsWhole' /\ AnswersTrue' /\ AnswerOnTheWay'
        /\ ExitOrder' /\ RowImpliesObject' /\ CreatedMeansStored'
        /\ FailedMeansNotStored'
    BY <1>22
    DEF IInv, TypeOK, JobsDistinct, QueueFresh, UnstartedFresh,
        WorkerProgress, StreamsWhole, AnswersTrue, AnswerOnTheWay, ExitOrder,
        RowImpliesObject, CreatedMeansStored, FailedMeansNotStored, WorkerExit
  <2> QED BY <2>1 DEF IInv
<1>23. ASSUME BeginShutdown PROVE IInv'
  <2>1. /\ TypeOK' /\ JobsDistinct' /\ QueueFresh' /\ UnstartedFresh'
        /\ WorkerProgress' /\ StreamsWhole' /\ AnswersTrue' /\ AnswerOnTheWay'
        /\ ExitOrder' /\ RowImpliesObject' /\ CreatedMeansStored'
        /\ FailedMeansNotStored'
    BY <1>23
    DEF IInv, TypeOK, JobsDistinct, QueueFresh, UnstartedFresh,
        WorkerProgress, StreamsWhole, AnswersTrue, AnswerOnTheWay, ExitOrder,
        RowImpliesObject, CreatedMeansStored, FailedMeansNotStored,
        BeginShutdown
  <2> QED BY <2>1 DEF IInv
<1>24. ASSUME CloseJobs PROVE IInv'
  <2>1. /\ TypeOK' /\ JobsDistinct' /\ QueueFresh' /\ UnstartedFresh'
        /\ WorkerProgress' /\ StreamsWhole' /\ AnswersTrue' /\ AnswerOnTheWay'
        /\ ExitOrder' /\ RowImpliesObject' /\ CreatedMeansStored'
        /\ FailedMeansNotStored'
    BY <1>24
    DEF IInv, TypeOK, JobsDistinct, QueueFresh, UnstartedFresh,
        WorkerProgress, StreamsWhole, AnswersTrue, AnswerOnTheWay, ExitOrder,
        RowImpliesObject, CreatedMeansStored, FailedMeansNotStored, CloseJobs
  <2> QED BY <2>1 DEF IInv
<1>25. ASSUME FinishStop PROVE IInv'
  <2>1. /\ TypeOK' /\ JobsDistinct' /\ QueueFresh' /\ UnstartedFresh'
        /\ WorkerProgress' /\ StreamsWhole' /\ AnswersTrue' /\ AnswerOnTheWay'
        /\ ExitOrder' /\ RowImpliesObject' /\ CreatedMeansStored'
        /\ FailedMeansNotStored'
    BY <1>25
    DEF IInv, TypeOK, JobsDistinct, QueueFresh, UnstartedFresh,
        WorkerProgress, StreamsWhole, AnswersTrue, AnswerOnTheWay, ExitOrder,
        RowImpliesObject, CreatedMeansStored, FailedMeansNotStored, FinishStop
  <2> QED BY <2>1 DEF IInv
<1>26. ASSUME Crash PROVE IInv'
  <2>1. /\ JobsDistinct' /\ QueueFresh' /\ UnstartedFresh' /\ WorkerProgress'
        /\ StreamsWhole' /\ AnswersTrue' /\ AnswerOnTheWay' /\ ExitOrder'
        /\ RowImpliesObject' /\ CreatedMeansStored' /\ FailedMeansNotStored'
    BY <1>26
    DEF IInv, TypeOK, JobsDistinct, QueueFresh, UnstartedFresh,
        WorkerProgress, StreamsWhole, AnswersTrue, AnswerOnTheWay, ExitOrder,
        RowImpliesObject, CreatedMeansStored, FailedMeansNotStored, Crash
  <2>2. TypeOK'
    BY <1>26, QueueCapAssumption, ChunksAssumption DEF IInv, TypeOK, Crash
  <2> QED BY <2>1, <2>2 DEF IInv
<1>27. CASE UNCHANGED vars
  BY <1>27 DEF IInv, TypeOK, JobsDistinct, QueueFresh, UnstartedFresh,
    WorkerProgress, StreamsWhole, AnswersTrue, AnswerOnTheWay, ExitOrder,
    RowImpliesObject, CreatedMeansStored, FailedMeansNotStored, vars
<1> QED BY <1>1, <1>2, <1>3, <1>4, <1>5, <1>6, <1>7, <1>8, <1>9, <1>10, <1>11,
    <1>12, <1>13, <1>14, <1>15, <1>16, <1>17, <1>18, <1>19, <1>20, <1>21,
    <1>22, <1>23, <1>24, <1>25, <1>26, <1>27
  DEF Next, HandlerStep, EncryptStep, WorkerStep, ProcessStep

-----------------------------------------------------------------------------
(* What follows from it.                                                       *)

\* IInv holds in every reachable state.
LEMMA Inductive == Spec => []IInv
<1> QED
  BY InitIInv, StepIInv, PTL DEF Spec

\* The pipeline's variables keep their types and its channels their capacities.
THEOREM TypeCorrect == Spec => []TypeOK
<1>1. IInv => TypeOK
  BY DEF IInv
<1> QED
  BY <1>1, Inductive, PTL

\* No row without its object, through every failure and crash (files.Create runs
\* after storage.Upload).
THEOREM RowsHaveObjects == Spec => []RowImpliesObject
<1>1. IInv => RowImpliesObject
  BY DEF IInv
<1> QED
  BY <1>1, Inductive, PTL

\* A 201, and the event that follows it, mean that the row and the object exist.
THEOREM CreatedIsStored == Spec => []CreatedMeansStored
<1>1. IInv => CreatedMeansStored
  BY DEF IInv
<1> QED
  BY <1>1, Inductive, PTL

\* The insert is reached only with the whole file in the store.
THEOREM StoredIsComplete == Spec => []ObjectsComplete
<1>1. IInv => ObjectsComplete
  BY DEF IInv, WorkerProgress, ObjectsComplete
<1> QED
  BY <1>1, Inductive, PTL

\* An answered error means no row, unless PostgreSQL's reply was lost.
THEOREM FailedIsNotStored == Spec => []FailedMeansNotStored
<1>1. IInv => FailedMeansNotStored
  BY DEF IInv
<1> QED
  BY <1>1, Inductive, PTL

\* A row names an object that is there and whole (file_processor.go).
THEOREM RowsHaveWholeObjects == Spec => []RowsAreWhole
<1>1. RowImpliesObject /\ ObjectsComplete => RowsAreWhole
  BY DEF RowsAreWhole
<1> QED
  BY <1>1, RowsHaveObjects, StoredIsComplete, PTL

\* The answer of an upload tells whether there is a row (service/file.go).
THEOREM AnswersAreTold == Spec => []AnswersTellRows
<1>1. CreatedMeansStored /\ FailedMeansNotStored => AnswersTellRows
  BY DEF AnswersTellRows
<1> QED
  BY <1>1, CreatedIsStored, FailedIsNotStored, PTL

\* A request that waits on errCh is never forgotten by the pool.
THEOREM AnswerNeverLost == Spec => []NoLostAnswer
<1>1. IInv => NoLostAnswer
  BY DEF IInv, AnswerOnTheWay, NoLostAnswer, Queued, Running
<1> QED
  BY <1>1, Inductive, PTL

\* A job runs once: it is never queued twice, nor queued and running.
THEOREM JobsHeldOnce == Spec => []JobHeldOnce
<1>1. IInv => JobHeldOnce
  BY NoJobAssumption DEF IInv, TypeOK, JobsDistinct, QueueFresh, JobHeldOnce, Queued
<1> QED
  BY <1>1, Inductive, PTL

\* Pool.Stop returns only after every accepted job has run.
THEOREM StopHasDrained == Spec => []StopDrains
<1>1. IInv => StopDrains
  <2> SUFFICES ASSUME IInv, pool = "stopped" PROVE StopDrains
    BY DEF StopDrains
  <2>1. PICK w \in Workers : TRUE
    BY WorkersAssumption
  <2>2. jobs = <<>>
    BY <2>1 DEF IInv, ExitOrder
  <2>3. \A v \in Workers : job[v] = NoJob
    BY DEF IInv, ExitOrder, JobsDistinct
  <2>4. \A u \in Uploads : handler[u] = "waiting" => errCh[u] # "empty"
    BY <2>2, <2>3, NoJobAssumption DEF IInv, AnswerOnTheWay
  <2> QED
    BY <2>2, <2>3, <2>4 DEF StopDrains
<1> QED
  BY <1>1, Inductive, PTL

-----------------------------------------------------------------------------
(* The pipeline implements UploadContract.                                     *)

\* The verdict that the contract gives to each step of a request's goroutine.
LEMMA Verdict ==
  /\ \A h \in {"new", "submitting", "waiting"} : VerdictOf(h) = "pending"
  /\ VerdictOf("created") = "created"
  /\ VerdictOf("failed") = "failed"
  /\ VerdictOf("rejected") = "refused"
  /\ VerdictOf("panicked") = "refused"
  /\ VerdictOf("cancelled") = "unknown"
  /\ VerdictOf("aborted") = "aborted"
BY DEF VerdictOf

\* An answer that the pipeline gives is an answer of the contract: what is asked
\* of "created" and "refused" is asked here of the request's new state.
LEMMA AnswerStep ==
  ASSUME IInv, NEW u \in Uploads, NEW h, NEW v \in Contract!Verdicts,
         handler[u] \in {"new", "submitting", "waiting"},
         handler' = [handler EXCEPT ![u] = h],
         UNCHANGED <<rows, published>>,
         VerdictOf(h) = v,
         v = "created" => u \in rows,
         v = "refused" => u \notin rows
  PROVE  Contract!Next
<1>1. handler \in [Uploads -> {"new"} \cup InFlight \cup Endings]
  BY DEF IInv, TypeOK
<1>2. [x \in Uploads |-> VerdictOf(handler[x])][u] = "pending"
  BY Verdict
<1>3. [x \in Uploads |-> VerdictOf(handler'[x])]
        = [[x \in Uploads |-> VerdictOf(handler[x])] EXCEPT ![u] = v]
  BY <1>1
<1>4. Contract!Answer(u, v)
  BY <1>2, <1>3 DEF Contract!Answer
<1> QED
  BY <1>4 DEF Contract!Next

\* A row that appears belongs to a request that waits or has left.
LEMMA StoreStep ==
  ASSUME IInv, NEW w \in Workers, wpc[w] = "creating",
         rows' = rows \cup {job[w]}, UNCHANGED <<handler, published>>
  PROVE  Contract!Store(job[w])
<1>1. job[w] \in Uploads /\ handler[job[w]] \in {"waiting", "cancelled"}
  BY DEF IInv, TypeOK, JobsDistinct, WorkerProgress
<1>2. VerdictOf(handler[job[w]]) \in {"pending", "unknown"}
  BY <1>1, Verdict
<1> QED
  BY <1>1, <1>2 DEF Contract!Store

\* A crash answers the requests in flight and no other.
LEMMA CrashStep ==
  ASSUME IInv, Crash
  PROVE  Contract!Abort({u \in Uploads : handler[u] \in InFlight})
<1> DEFINE S == {u \in Uploads : handler[u] \in InFlight}
<1>1. /\ handler' = [u \in Uploads |-> IF u \in S THEN "aborted" ELSE handler[u]]
      /\ UNCHANGED <<rows, published>>
  BY DEF Crash
<1>2. \A u \in S : VerdictOf(handler[u]) = "pending"
  BY Verdict
<1>3. \A u \in Uploads : VerdictOf(handler'[u]) =
                           IF u \in S THEN "aborted" ELSE VerdictOf(handler[u])
  BY <1>1, Verdict
<1> QED
  BY <1>1, <1>2, <1>3 DEF Contract!Abort

\* Every step of the pipeline is a step of the contract or leaves it unchanged.
LEMMA StepContract == IInv /\ [Next]_vars => [Contract!Next]_(Contract!vars)
<1> SUFFICES ASSUME IInv, [Next]_vars
             PROVE  Contract!Next \/ UNCHANGED Contract!vars
  OBVIOUS
<1>1. ASSUME UNCHANGED <<handler, rows, published>>
      PROVE  UNCHANGED Contract!vars
  BY <1>1 DEF Contract!vars
<1>2. {"created", "failed", "refused", "unknown"} \subseteq Contract!Verdicts
  BY DEF Contract!Verdicts
<1>3. ASSUME NEW u \in Uploads, Contract!Store(u) \/ Contract!Announce(u)
      PROVE  Contract!Next
  BY <1>3 DEF Contract!Next
<1>4. handler \in [Uploads -> {"new"} \cup InFlight \cup Endings]
  BY DEF IInv, TypeOK
<1>5. ASSUME NEW u \in Uploads, StartUpload(u) \/ Submit(u)
      PROVE  UNCHANGED Contract!vars
  <2>1. /\ UNCHANGED <<rows, published>>
        /\ \A x \in Uploads : handler'[x] = handler[x]
                              \/ {handler[x], handler'[x]} \subseteq {"new", "submitting", "waiting"}
    BY <1>4, <1>5 DEF StartUpload, Submit
  <2>2. \A x \in Uploads : VerdictOf(handler'[x]) = VerdictOf(handler[x])
    BY <2>1, Verdict
  <2> QED
    BY <2>1, <2>2 DEF Contract!vars
<1>6. ASSUME NEW u \in Uploads, RejectUpload(u) \/ SubmitPanics(u)
      PROVE  Contract!Next
  <2>1. u \notin rows
    BY <1>6 DEF IInv, UnstartedFresh, RejectUpload, SubmitPanics
  <2>2. PICK h \in {"rejected", "panicked"} : handler' = [handler EXCEPT ![u] = h]
    BY <1>6 DEF RejectUpload, SubmitPanics
  <2>3. handler[u] \in {"new", "submitting", "waiting"} /\ UNCHANGED <<rows, published>>
    BY <1>6 DEF RejectUpload, SubmitPanics
  <2>4. VerdictOf(h) = "refused"
    BY <2>2, Verdict
  <2> QED
    BY <2>1, <2>2, <2>3, <2>4, <1>2, AnswerStep
<1>7. ASSUME NEW u \in Uploads, ReceiveResult(u)
      PROVE  Contract!Next
  <2>1. handler[u] = "waiting" /\ UNCHANGED <<rows, published>>
    BY <1>7 DEF ReceiveResult
  <2>2. CASE errCh[u] = "nil"
    <3>1. u \in rows /\ handler' = [handler EXCEPT ![u] = "created"]
      BY <1>7, <2>2 DEF IInv, AnswersTrue, ReceiveResult
    <3>2. VerdictOf("created") = "created"
      BY Verdict
    <3> QED
      BY <2>1, <3>1, <3>2, <1>2, AnswerStep
  <2>3. CASE errCh[u] # "nil"
    <3>1. handler' = [handler EXCEPT ![u] = "failed"]
      BY <1>7, <2>3 DEF ReceiveResult
    <3>2. VerdictOf("failed") = "failed"
      BY Verdict
    <3> QED
      BY <2>1, <3>1, <3>2, <1>2, AnswerStep
  <2> QED
    BY <2>2, <2>3
<1>8. ASSUME NEW u \in Uploads, AbandonWait(u)
      PROVE  Contract!Next
  <2>1. /\ handler[u] = "waiting" /\ UNCHANGED <<rows, published>>
        /\ handler' = [handler EXCEPT ![u] = "cancelled"]
    BY <1>8 DEF AbandonWait
  <2>2. VerdictOf("cancelled") = "unknown"
    BY Verdict
  <2> QED
    BY <2>1, <2>2, <1>2, AnswerStep
<1>9. ASSUME NEW u \in Uploads, Publish(u)
       PROVE  Contract!Next
  <2>1. /\ handler[u] = "created" /\ published' = published \cup {u}
        /\ UNCHANGED <<handler, rows>>
    BY <1>9 DEF IInv, CreatedMeansStored, Publish
  <2>2. Contract!Announce(u)
    BY <2>1, Verdict DEF Contract!Announce
  <2> QED
    BY <2>2, <1>3
<1>10. ASSUME NEW w \in Workers, CreateOk(w) \/ CreateFails(w)
       PROVE  Contract!Next \/ UNCHANGED Contract!vars
  <2>1. /\ wpc[w] = "creating" /\ UNCHANGED <<handler, published>>
        /\ rows' = rows \cup {job[w]} \/ UNCHANGED rows
    BY <1>10 DEF CreateOk, CreateFails
  <2>2. job[w] \in Uploads
    BY <2>1 DEF IInv, TypeOK, JobsDistinct
  <2> QED
    BY <2>1, <2>2, <1>1, <1>3, StoreStep
<1>11. CASE Crash
  BY <1>11, CrashStep DEF Contract!Next
<1>12. ASSUME NEW u \in Uploads, Disconnect(u) \/ EncryptStep(u) \/ DropEvent(u)
       PROVE  UNCHANGED Contract!vars
  BY <1>1, <1>12 DEF Disconnect, EncryptStep, PipeTransfer, ReadChunk, ReadEnd,
    ReadFails, DropEvent
<1>13. ASSUME NEW w \in Workers,
              \/ TakeJob(w) \/ PutObjectOk(w) \/ PutObjectFails(w)
              \/ ReportNil(w) \/ ReportErr(w) \/ OnError(w) \/ WorkerExit(w)
       PROVE  UNCHANGED Contract!vars
  BY <1>1, <1>13 DEF TakeJob, PutObjectOk, PutObjectFails, ReportNil, ReportErr,
    OnError, WorkerExit
<1>14. CASE BeginShutdown \/ CloseJobs \/ FinishStop \/ UNCHANGED vars
  BY <1>1, <1>14 DEF BeginShutdown, CloseJobs, FinishStop, vars
<1> QED
  BY <1>5, <1>6, <1>7, <1>8, <1>9, <1>10, <1>11, <1>12, <1>13, <1>14
  DEF Next, HandlerStep, WorkerStep, ProcessStep

\* The upload path keeps the contract of FileService.Upload: answers are final and
\* true, nothing is stored behind a final answer, and only created files are
\* announced.
THEOREM PipelineImplementsContract == Spec => ImplementsContract
<1>1. Init => Contract!Init
  BY Verdict DEF Init, Contract!Init
<1> QED
  BY <1>1, Inductive, StepContract, PTL DEF Spec, ImplementsContract, Contract!Spec
=============================================================================
