------------------------- MODULE UploadFaultProofs -------------------------
(* What the upload path keeps as long as certain things do not go wrong, for    *)
(* any number of uploads and workers. Each property is false without its        *)
(* assumption on Disturbances.                                                  *)
(*                                                                              *)
(* The argument, on top of IInv of UploadPipelineProofs: as long as main() has  *)
(* waited for the requests, none is in flight once the channel is closed; as    *)
(* long as the INSERT succeeds, a job reports once and finds the slot empty; as *)
(* long as nothing fails once the object is stored, its worker goes on to the   *)
(* INSERT.                                                                      *)
EXTENDS UploadPipelineProofs

MetadataFaults == {"metadata", "metadataAck"}
OrphaningFaults == MetadataFaults \cup {"storageAck", "crash"}

\* srv.Shutdown has waited: nobody is in flight once the channel is closed.
RequestsDrained ==
  "drainTimeout" \notin Disturbances =>
    \A u \in Uploads :
      /\ handler[u] # "panicked"
      /\ pool \in {"stopping", "stopped"} => handler[u] \notin InFlight

\* One error is sent for each job.
ResultSlotFree ==
  Disturbances \cap MetadataFaults = {} =>
    \A w \in Workers :
      /\ wpc[w] # "reportErr"
      /\ wpc[w] = "onError" => errCh[job[w]] = "empty"

ObjectsHeld == Disturbances \cap OrphaningFaults = {} => ObjectsAccounted

FaultInv == /\ RequestsDrained /\ ResultSlotFree /\ ObjectsHeld

USE DEF InFlight, Endings, Reporting, Encrypting, InJob, requestVars, poolVars,
        pipeVars, storeVars, eventVars, MetadataFaults, OrphaningFaults

\* Nothing has begun.
LEMMA FaultInit == Init => FaultInv
BY DEF Init, FaultInv, RequestsDrained, ResultSlotFree, ObjectsHeld, ObjectsAccounted

\* Every step of the handlers, the workers and main() keeps FaultInv.
LEMMA FaultStep == IInv /\ FaultInv /\ [Next]_vars => FaultInv'
<1> SUFFICES ASSUME IInv, FaultInv, [Next]_vars PROVE FaultInv'
  OBVIOUS
<1>1. ASSUME NEW u \in Uploads, StartUpload(u) PROVE FaultInv'
  <2>1. /\ RequestsDrained' /\ ResultSlotFree' /\ ObjectsHeld'
    BY <1>1
    DEF FaultInv, RequestsDrained, ResultSlotFree, ObjectsHeld,
        ObjectsAccounted, StartUpload
  <2> QED BY <2>1 DEF FaultInv
<1>2. ASSUME NEW u \in Uploads, RejectUpload(u) PROVE FaultInv'
  <2>1. /\ RequestsDrained' /\ ResultSlotFree' /\ ObjectsHeld'
    BY <1>2
    DEF FaultInv, RequestsDrained, ResultSlotFree, ObjectsHeld,
        ObjectsAccounted, RejectUpload
  <2> QED BY <2>1 DEF FaultInv
<1>3. ASSUME NEW u \in Uploads, Disconnect(u) PROVE FaultInv'
  <2>1. /\ RequestsDrained' /\ ResultSlotFree' /\ ObjectsHeld'
    BY <1>3
    DEF FaultInv, RequestsDrained, ResultSlotFree, ObjectsHeld,
        ObjectsAccounted, Disconnect
  <2> QED BY <2>1 DEF FaultInv
<1>4. ASSUME NEW u \in Uploads, Submit(u) PROVE FaultInv'
  <2>1. /\ RequestsDrained' /\ ResultSlotFree' /\ ObjectsHeld'
    BY <1>4
    DEF FaultInv, RequestsDrained, ResultSlotFree, ObjectsHeld,
        ObjectsAccounted, Submit
  <2> QED BY <2>1 DEF FaultInv
<1>5. ASSUME NEW u \in Uploads, SubmitPanics(u) PROVE FaultInv'
  <2>1. /\ RequestsDrained' /\ ResultSlotFree' /\ ObjectsHeld'
    BY <1>5
    DEF FaultInv, RequestsDrained, ResultSlotFree, ObjectsHeld,
        ObjectsAccounted, SubmitPanics
  <2> QED BY <2>1 DEF FaultInv
<1>6. ASSUME NEW u \in Uploads, ReceiveResult(u) PROVE FaultInv'
  <2>1. /\ ResultSlotFree' /\ ObjectsHeld'
    BY <1>6
    DEF FaultInv, RequestsDrained, ResultSlotFree, ObjectsHeld,
        ObjectsAccounted, ReceiveResult
  <2>2. RequestsDrained'
    BY <1>6 DEF IInv, TypeOK, FaultInv, RequestsDrained, ReceiveResult
  <2> QED BY <2>1, <2>2 DEF FaultInv
<1>7. ASSUME NEW u \in Uploads, AbandonWait(u) PROVE FaultInv'
  <2>1. /\ RequestsDrained' /\ ResultSlotFree' /\ ObjectsHeld'
    BY <1>7
    DEF FaultInv, RequestsDrained, ResultSlotFree, ObjectsHeld,
        ObjectsAccounted, AbandonWait
  <2> QED BY <2>1 DEF FaultInv
<1>8. ASSUME NEW u \in Uploads, PipeTransfer(u) PROVE FaultInv'
  <2>1. /\ RequestsDrained' /\ ResultSlotFree' /\ ObjectsHeld'
    BY <1>8
    DEF FaultInv, RequestsDrained, ResultSlotFree, ObjectsHeld,
        ObjectsAccounted, PipeTransfer
  <2> QED BY <2>1 DEF FaultInv
<1>9. ASSUME NEW u \in Uploads, ReadChunk(u) PROVE FaultInv'
  <2>1. /\ RequestsDrained' /\ ResultSlotFree' /\ ObjectsHeld'
    BY <1>9
    DEF FaultInv, RequestsDrained, ResultSlotFree, ObjectsHeld,
        ObjectsAccounted, ReadChunk
  <2> QED BY <2>1 DEF FaultInv
<1>10. ASSUME NEW u \in Uploads, ReadEnd(u) PROVE FaultInv'
  <2>1. /\ RequestsDrained' /\ ResultSlotFree' /\ ObjectsHeld'
    BY <1>10
    DEF FaultInv, RequestsDrained, ResultSlotFree, ObjectsHeld,
        ObjectsAccounted, ReadEnd
  <2> QED BY <2>1 DEF FaultInv
<1>11. ASSUME NEW u \in Uploads, ReadFails(u) PROVE FaultInv'
  <2>1. /\ RequestsDrained' /\ ResultSlotFree' /\ ObjectsHeld'
    BY <1>11
    DEF FaultInv, RequestsDrained, ResultSlotFree, ObjectsHeld,
        ObjectsAccounted, ReadFails
  <2> QED BY <2>1 DEF FaultInv
<1>12. ASSUME NEW u \in Uploads, Publish(u) PROVE FaultInv'
  <2>1. /\ RequestsDrained' /\ ResultSlotFree' /\ ObjectsHeld'
    BY <1>12
    DEF FaultInv, RequestsDrained, ResultSlotFree, ObjectsHeld,
        ObjectsAccounted, Publish
  <2> QED BY <2>1 DEF FaultInv
<1>13. ASSUME NEW u \in Uploads, DropEvent(u) PROVE FaultInv'
  <2>1. /\ RequestsDrained' /\ ResultSlotFree' /\ ObjectsHeld'
    BY <1>13
    DEF FaultInv, RequestsDrained, ResultSlotFree, ObjectsHeld,
        ObjectsAccounted, DropEvent
  <2> QED BY <2>1 DEF FaultInv
<1>14. ASSUME NEW w \in Workers, TakeJob(w) PROVE FaultInv'
  <2>1. /\ RequestsDrained' /\ ResultSlotFree' /\ ObjectsHeld'
    BY <1>14
    DEF FaultInv, RequestsDrained, ResultSlotFree, ObjectsHeld,
        ObjectsAccounted, TakeJob
  <2> QED BY <2>1 DEF FaultInv
<1>15. ASSUME NEW w \in Workers, PutObjectOk(w) PROVE FaultInv'
  <2>1. /\ RequestsDrained' /\ ResultSlotFree'
    BY <1>15 DEF FaultInv, RequestsDrained, ResultSlotFree, PutObjectOk
  <2>2. ObjectsHeld'
    BY <1>15
    DEF IInv, TypeOK, FaultInv, ObjectsHeld, ObjectsAccounted, PutObjectOk
  <2> QED BY <2>1, <2>2 DEF FaultInv
<1>16. ASSUME NEW w \in Workers, PutObjectFails(w) PROVE FaultInv'
  <2>1. /\ RequestsDrained' /\ ObjectsHeld'
    BY <1>16
    DEF FaultInv, RequestsDrained, ObjectsHeld, ObjectsAccounted,
        PutObjectFails
  <2>2. ResultSlotFree'
    BY <1>16
    DEF IInv, JobsDistinct, WorkerProgress, FaultInv, ResultSlotFree,
        PutObjectFails
  <2> QED BY <2>1, <2>2 DEF FaultInv
<1>17. ASSUME NEW w \in Workers, CreateOk(w) PROVE FaultInv'
  <2>1. /\ RequestsDrained' /\ ResultSlotFree' /\ ObjectsHeld'
    BY <1>17
    DEF FaultInv, RequestsDrained, ResultSlotFree, ObjectsHeld,
        ObjectsAccounted, CreateOk
  <2> QED BY <2>1 DEF FaultInv
<1>18. ASSUME NEW w \in Workers, CreateFails(w) PROVE FaultInv'
  <2>1. /\ RequestsDrained' /\ ResultSlotFree' /\ ObjectsHeld'
    BY <1>18
    DEF FaultInv, RequestsDrained, ResultSlotFree, ObjectsHeld,
        ObjectsAccounted, CreateFails
  <2> QED BY <2>1 DEF FaultInv
<1>19. ASSUME NEW w \in Workers, ReportNil(w) PROVE FaultInv'
  <2>1. /\ RequestsDrained' /\ ObjectsHeld'
    BY <1>19
    DEF FaultInv, RequestsDrained, ObjectsHeld, ObjectsAccounted, ReportNil
  <2>2. ResultSlotFree'
    BY <1>19
    DEF IInv, JobsDistinct, WorkerProgress, FaultInv, ResultSlotFree,
        ReportNil
  <2> QED BY <2>1, <2>2 DEF FaultInv
<1>20. ASSUME NEW w \in Workers, ReportErr(w) PROVE FaultInv'
  <2>1. /\ RequestsDrained' /\ ResultSlotFree' /\ ObjectsHeld'
    BY <1>20
    DEF FaultInv, RequestsDrained, ResultSlotFree, ObjectsHeld,
        ObjectsAccounted, ReportErr
  <2> QED BY <2>1 DEF FaultInv
<1>21. ASSUME NEW w \in Workers, OnError(w) PROVE FaultInv'
  <2>1. /\ RequestsDrained' /\ ObjectsHeld'
    BY <1>21
    DEF FaultInv, RequestsDrained, ObjectsHeld, ObjectsAccounted, OnError
  <2>2. ResultSlotFree'
    BY <1>21
    DEF IInv, TypeOK, JobsDistinct, WorkerProgress, FaultInv, ResultSlotFree,
        OnError
  <2> QED BY <2>1, <2>2 DEF FaultInv
<1>22. ASSUME NEW w \in Workers, WorkerExit(w) PROVE FaultInv'
  <2>1. /\ RequestsDrained' /\ ResultSlotFree' /\ ObjectsHeld'
    BY <1>22
    DEF FaultInv, RequestsDrained, ResultSlotFree, ObjectsHeld,
        ObjectsAccounted, WorkerExit
  <2> QED BY <2>1 DEF FaultInv
<1>23. ASSUME BeginShutdown PROVE FaultInv'
  <2>1. /\ RequestsDrained' /\ ResultSlotFree' /\ ObjectsHeld'
    BY <1>23
    DEF FaultInv, RequestsDrained, ResultSlotFree, ObjectsHeld,
        ObjectsAccounted, BeginShutdown
  <2> QED BY <2>1 DEF FaultInv
<1>24. ASSUME CloseJobs PROVE FaultInv'
  <2>1. /\ RequestsDrained' /\ ResultSlotFree' /\ ObjectsHeld'
    BY <1>24
    DEF FaultInv, RequestsDrained, ResultSlotFree, ObjectsHeld,
        ObjectsAccounted, CloseJobs
  <2> QED BY <2>1 DEF FaultInv
<1>25. ASSUME FinishStop PROVE FaultInv'
  <2>1. /\ RequestsDrained' /\ ResultSlotFree' /\ ObjectsHeld'
    BY <1>25
    DEF FaultInv, RequestsDrained, ResultSlotFree, ObjectsHeld,
        ObjectsAccounted, FinishStop
  <2> QED BY <2>1 DEF FaultInv
<1>26. ASSUME Crash PROVE FaultInv'
  <2>1. /\ RequestsDrained' /\ ResultSlotFree' /\ ObjectsHeld'
    BY <1>26
    DEF FaultInv, RequestsDrained, ResultSlotFree, ObjectsHeld,
        ObjectsAccounted, Crash
  <2> QED BY <2>1 DEF FaultInv
<1>27. CASE UNCHANGED vars
  BY <1>27
  DEF FaultInv, RequestsDrained, ResultSlotFree, ObjectsHeld,
      ObjectsAccounted, vars
<1> QED BY <1>1, <1>2, <1>3, <1>4, <1>5, <1>6, <1>7, <1>8, <1>9, <1>10, <1>11,
    <1>12, <1>13, <1>14, <1>15, <1>16, <1>17, <1>18, <1>19, <1>20, <1>21,
    <1>22, <1>23, <1>24, <1>25, <1>26, <1>27
  DEF Next, HandlerStep, EncryptStep, WorkerStep, ProcessStep

\* FaultInv holds in every reachable state.
LEMMA FaultInductive == Spec => []FaultInv
<1> QED
  BY FaultInit, FaultStep, Inductive, PTL DEF Spec

\* Pool.Submit never meets the channel that Pool.Stop closes, as long as srv.Shutdown
\* has the time to wait for the requests.
THEOREM NoSendAfterClose ==
  ASSUME "drainTimeout" \notin Disturbances
  PROVE  Spec => []NoSendOnClosedQueue
<1>1. IInv /\ FaultInv => NoSendOnClosedQueue
  BY DEF FaultInv, RequestsDrained, NoSendOnClosedQueue
<1> QED
  BY <1>1, Inductive, FaultInductive, PTL

\* A worker never blocks on the result channel of a request that has returned, as long
\* as files.Create succeeds: what wedges a worker is its failure and nothing else.
THEOREM OneReportNeverBlocks ==
  ASSUME Disturbances \cap MetadataFaults = {}
  PROVE  Spec => []ResultSendNeverBlocks
<1>1. IInv /\ FaultInv => ResultSendNeverBlocks
  BY DEF FaultInv, ResultSlotFree, IInv, WorkerProgress, ResultSendNeverBlocks
<1> QED
  BY <1>1, Inductive, FaultInductive, PTL

\* An object without a row is about to get one, whoever leaves and whenever the server
\* is stopped: only a failed INSERT, a lost reply of MinIO or a crash orphans it.
THEOREM NoObjectOrphaned ==
  ASSUME Disturbances \cap OrphaningFaults = {}
  PROVE  Spec => []ObjectsAccounted
<1>1. IInv /\ FaultInv => ObjectsAccounted
  BY DEF FaultInv, ObjectsHeld
<1> QED
  BY <1>1, Inductive, FaultInductive, PTL
=============================================================================
