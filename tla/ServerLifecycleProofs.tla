------------------------ MODULE ServerLifecycleProofs ------------------------
(* Proofs about ServerLifecycle, for any requests, consumers, faults and bounds. *)
(*                                                                              *)
(* The argument: the order of the shutdown is a matter of main alone, and each  *)
(* stage remembers what main waited for and closed before it. That no message   *)
(* is handled twice is a matter of the topic: what has been handled lies below  *)
(* the committed offset, which a restart goes on from; and that none is passed  *)
(* over, since a new process meets no consumer of the old one.                  *)
EXTENDS ServerLifecycle, TLAPS

\* What the reader holds is a message of the log.
HeldIsLogged ==
  con[Reaper] \in {"committing", "handling"} => fetched \in 1..Len(log)

\* What main has waited for ...
DrainedBefore ==
  /\ main \in {"waiting"} \cup AfterWait => timedOut \/ \A r \in Requests : req[r] # "running"
  /\ main = "died" => \A r \in Requests : req[r] # "running"
StoppedBefore == main \in AfterPool \cup Ended =>
  \A u \in Uploads : job[u] \notin {"queued", "reporting"}

\* ... and what it has closed.
ClosedBefore ==
  /\ "pg" \in closed => main \in {"returning"} \cup Ended
  /\ main \in AfterPool => "producer" \in closed

\* The reader is at the committed offset or, before Commit, one message ahead of it.
OffsetBehind ==
  /\ committed <= fetched
  /\ con[Reaper] = "committing" => committed < fetched

\* What was handled lies below the offset, and is not at hand again.
HandledIsCommitted ==
  \A i \in 1..Len(log) : handled[i] # 0 =>
    i <= committed /\ ~(con[Reaper] = "handling" /\ i = fetched)

HoldsCommitted == con[Reaper] = "handling" => fetched <= committed

\* No consumer ends before the process does, so that wg.Wait() never returns.
ConsumersStay ==
  kafkaEnabled => main \notin AfterWait /\ (Alive => \A c \in Consumers : con[c] # "off")

\* With the process its consumers are gone.
ConsumersEnd == ~Alive => con[Reaper] = "off"

IInv ==
  /\ TypeOK /\ HeldIsLogged
  /\ DrainedBefore /\ StoppedBefore /\ ClosedBefore
  /\ ResourcesOutliveUsers /\ BufferFlushed
  /\ OffsetBehind /\ HoldsCommitted /\ HandledIsCommitted /\ HandledAtMostOnce
  /\ NothingSkipped /\ ConsumersStay /\ ConsumersEnd

USE RequestsAssumption, ReaperAssumption, BoundsAssumption
USE DEF Requests, Ended, Alive, AfterPool, AfterFlush, AfterWait, MainStates,
  processVars, requestVars, topicVars

\* A process that has just started, with an empty topic.
LEMMA InitIInv == Init => IInv
<1> SUFFICES ASSUME Init PROVE IInv
  OBVIOUS
<1>1. TypeOK
  <2>1. PICK raw \in RawValues : kafkaEnabled = (raw # "false")
    BY DEF Init, getEnvBool
  <2>2. kafkaEnabled \in BOOLEAN
    BY <2>1
  <2>3. log = <<>> /\ log \in Seq(Deletes) /\ Len(log) = 0
    BY DEF Init
  <2>4. con \in [Consumers -> {"off", "reading", "committing", "handling", "pausing"}]
    BY DEF Init, StartConsumers
  <2>5. main \in MainStates /\ timedOut \in BOOLEAN
    BY DEF Init
  <2>6. closed \subseteq {"readers", "queue", "producer", "redis", "pg"}
    BY DEF Init
  <2>7. restarts \in Nat /\ outages \in Nat /\ missed \subseteq Deletes
    BY DEF Init
  <2>8. /\ req \in [Requests -> {"new", "running", "answered", "left", "failed", "aborted"}]
        /\ job \in [Uploads -> {"none", "queued", "done", "failed", "reporting", "lost"}]
        /\ event \in [Requests ->
              {"none", "pending", "buffered", "delivered", "dropped", "died", "lost"}]
        /\ handled \in Seq(Nat) /\ Len(handled) = 0
    BY DEF Init
  <2>9. fetched \in 0..Len(log) /\ committed \in 0..Len(log)
    BY <2>3 DEF Init
  <2> QED
    BY <2>2, <2>3, <2>4, <2>5, <2>6, <2>7, <2>8, <2>9, Zenon DEF TypeOK
<1>2. ConsumersStay
  BY DEF Init, ConsumersStay, StartConsumers
<1>3. Len(log) = 0
  BY DEF Init
<1> QED
  BY <1>1, <1>2, <1>3
  DEF Init, IInv, HeldIsLogged, DrainedBefore, StoppedBefore, ClosedBefore,
      ResourcesOutliveUsers, BufferFlushed,
      OffsetBehind, HoldsCommitted, HandledIsCommitted, HandledAtMostOnce,
      NothingSkipped, ConsumersEnd, StartConsumers

\* The topic with or without one more message, which has not been handled.
LEMMA Enqueued ==
  ASSUME IInv, NEW r \in Requests, Enqueue(r),
         UNCHANGED <<main, con, fetched, committed, missed>>
  PROVE  /\ log' \in Seq(Deletes) /\ handled' \in Seq(Nat) /\ Len(handled') = Len(log')
         /\ fetched \in 0..Len(log') /\ committed \in 0..Len(log')
         /\ HeldIsLogged' /\ OffsetBehind' /\ HoldsCommitted'
         /\ HandledIsCommitted' /\ HandledAtMostOnce' /\ NothingSkipped'
<1>1. /\ log \in Seq(Deletes) /\ handled \in Seq(Nat) /\ Len(handled) = Len(log)
      /\ fetched \in 0..Len(log) /\ committed \in 0..Len(log)
  BY DEF IInv, TypeOK
<1>2. /\ log' \in Seq(Deletes) /\ handled' \in Seq(Nat) /\ Len(handled') = Len(log')
      /\ Len(log) <= Len(log')
      /\ \A i \in 1..Len(log') : handled'[i] = IF i \in 1..Len(log) THEN handled[i] ELSE 0
  <2>1. CASE r \in Deletes
    <3>1. log' = Append(log, r) /\ handled' = Append(handled, 0)
      BY <2>1 DEF Enqueue
    <3> QED BY <1>1, <2>1, <3>1
  <2>2. CASE r \notin Deletes
    BY <1>1, <2>2 DEF Enqueue
  <2> QED BY <2>1, <2>2
<1>3. /\ HeldIsLogged' /\ OffsetBehind' /\ HoldsCommitted'
  BY <1>1, <1>2 DEF IInv, HeldIsLogged, OffsetBehind, HoldsCommitted
<1>4. /\ HandledIsCommitted' /\ HandledAtMostOnce'
  BY <1>1, <1>2 DEF IInv, HandledIsCommitted, HandledAtMostOnce
<1>5. NothingSkipped'
  <2>1. \A i \in 1..Len(log) : log'[i] = log[i]
    <3>1. CASE r \in Deletes
      <4>1. log' = Append(log, r)
        BY <3>1 DEF Enqueue
      <4> QED BY <1>1, <3>1, <4>1
    <3>2. CASE r \notin Deletes
      BY <3>2 DEF Enqueue
    <3> QED BY <3>1, <3>2
  <2> QED
    BY <1>1, <1>2, <2>1 DEF IInv, NothingSkipped, OffsetBehind
<1> QED BY <1>1, <1>2, <1>3, <1>4, <1>5

\* Every step of a request, of a worker, of a consumer and of main keeps IInv: first
\* the parts the step leaves as they were or keeps by themselves, then the others.
LEMMA StepIInv == IInv /\ [Next]_vars => IInv'
<1> SUFFICES ASSUME IInv, [Next]_vars PROVE IInv'
  OBVIOUS
<1>1. ASSUME NEW r \in Requests, StartRequest(r) PROVE IInv'
  <2>1. /\ TypeOK' /\ HeldIsLogged' /\ DrainedBefore' /\ StoppedBefore'
       /\ ClosedBefore' /\ BufferFlushed'
       /\ OffsetBehind' /\ HoldsCommitted' /\ HandledIsCommitted'
       /\ HandledAtMostOnce' /\ ConsumersStay' /\ ConsumersEnd'
    BY <1>1
    DEF IInv, TypeOK, HeldIsLogged, DrainedBefore, StoppedBefore,
        ClosedBefore, BufferFlushed, OffsetBehind,
        HoldsCommitted, HandledIsCommitted, HandledAtMostOnce, ConsumersStay, ConsumersEnd,
        StartRequest
  <2>2. ResourcesOutliveUsers'
    BY <1>1 DEF IInv, ClosedBefore, ResourcesOutliveUsers, StartRequest
  <2>3. NothingSkipped'
    BY <1>1
    DEF IInv, TypeOK, HeldIsLogged, OffsetBehind, HoldsCommitted, NothingSkipped,
        StartRequest
  <2> QED BY <2>1, <2>2, <2>3 DEF IInv
<1>2. ASSUME NEW r \in Requests, Answer(r) PROVE IInv'
  <2>1. /\ HeldIsLogged' /\ StoppedBefore' /\ ClosedBefore' /\ OffsetBehind'
       /\ HoldsCommitted' /\ HandledIsCommitted' /\ HandledAtMostOnce'
       /\ ConsumersStay' /\ ConsumersEnd'
    BY <1>2
    DEF IInv, TypeOK, HeldIsLogged, StoppedBefore, ClosedBefore, OffsetBehind,
        HoldsCommitted, HandledIsCommitted, HandledAtMostOnce, ConsumersStay, ConsumersEnd,
        Answer
  <2>2. TypeOK'
    BY <1>2 DEF IInv, TypeOK, Answer
  <2>3. DrainedBefore'
    BY <1>2 DEF IInv, DrainedBefore, Answer
  <2>4. ResourcesOutliveUsers'
    BY <1>2 DEF IInv, TypeOK, ResourcesOutliveUsers, Answer
  <2>5. BufferFlushed'
    BY <1>2 DEF IInv, TypeOK, BufferFlushed, Answer
  <2>6. NothingSkipped'
    BY <1>2
    DEF IInv, TypeOK, HeldIsLogged, OffsetBehind, HoldsCommitted, NothingSkipped,
        Answer
  <2> QED BY <2>1, <2>2, <2>3, <2>4, <2>5, <2>6 DEF IInv
<1>3. ASSUME NEW r \in Requests, Publish(r) PROVE IInv'
  <2>1. /\ HeldIsLogged' /\ DrainedBefore' /\ StoppedBefore' /\ ClosedBefore'
       /\ ResourcesOutliveUsers' /\ OffsetBehind' /\ HoldsCommitted'
       /\ HandledIsCommitted' /\ HandledAtMostOnce' /\ ConsumersStay' /\ ConsumersEnd'
    BY <1>3
    DEF IInv, TypeOK, HeldIsLogged, DrainedBefore, StoppedBefore,
        ClosedBefore, ResourcesOutliveUsers, OffsetBehind, HoldsCommitted,
        HandledIsCommitted, HandledAtMostOnce, ConsumersStay, ConsumersEnd, Publish, Outage
  <2>2. TypeOK'
    <3>1. event' \in [Requests ->
             {"none", "pending", "buffered", "delivered", "dropped", "died", "lost"}]
      BY <1>3 DEF IInv, TypeOK, Publish
    <3>2. outages' \in Nat
      BY <1>3 DEF IInv, TypeOK, Publish, Outage
    <3> QED BY <1>3, <3>1, <3>2 DEF IInv, TypeOK, Publish
  <2>3. BufferFlushed'
    BY <1>3 DEF IInv, TypeOK, ClosedBefore, BufferFlushed, Publish, Outage
  <2>4. NothingSkipped'
    BY <1>3
    DEF IInv, TypeOK, HeldIsLogged, OffsetBehind, HoldsCommitted, NothingSkipped,
        Publish, Outage
  <2> QED BY <2>1, <2>2, <2>3, <2>4 DEF IInv
<1>4. ASSUME NEW r \in Requests, Deliver(r) PROVE IInv'
  <2>1. /\ DrainedBefore' /\ StoppedBefore' /\ ClosedBefore' /\ BufferFlushed'
        /\ ResourcesOutliveUsers' /\ ConsumersStay' /\ ConsumersEnd'
    BY <1>4
    DEF IInv, TypeOK, DrainedBefore, StoppedBefore, ClosedBefore,
        ResourcesOutliveUsers, BufferFlushed, ConsumersStay, ConsumersEnd, Deliver
  <2>2. /\ log' \in Seq(Deletes) /\ handled' \in Seq(Nat) /\ Len(handled') = Len(log')
        /\ fetched \in 0..Len(log') /\ committed \in 0..Len(log')
        /\ HeldIsLogged' /\ OffsetBehind' /\ HoldsCommitted'
        /\ HandledIsCommitted' /\ HandledAtMostOnce' /\ NothingSkipped'
    BY <1>4, Enqueued DEF Deliver
  <2>3. TypeOK'
    BY <1>4, <2>2 DEF IInv, TypeOK, Deliver
  <2> QED BY <2>1, <2>2, <2>3 DEF IInv
<1>5. ASSUME NEW r \in Requests, Duplicate(r) PROVE IInv'
  <2>1. /\ DrainedBefore' /\ StoppedBefore' /\ ClosedBefore' /\ BufferFlushed'
        /\ ResourcesOutliveUsers' /\ ConsumersStay' /\ ConsumersEnd'
    BY <1>5
    DEF IInv, TypeOK, DrainedBefore, StoppedBefore, ClosedBefore,
        ResourcesOutliveUsers, BufferFlushed, ConsumersStay, ConsumersEnd, Duplicate, Outage
  <2>2. /\ log' \in Seq(Deletes) /\ handled' \in Seq(Nat) /\ Len(handled') = Len(log')
        /\ fetched \in 0..Len(log') /\ committed \in 0..Len(log')
        /\ HeldIsLogged' /\ OffsetBehind' /\ HoldsCommitted'
        /\ HandledIsCommitted' /\ HandledAtMostOnce' /\ NothingSkipped'
    BY <1>5, Enqueued DEF Duplicate, Outage
  <2>3. TypeOK'
    BY <1>5, <2>2 DEF IInv, TypeOK, Duplicate, Outage
  <2> QED BY <2>1, <2>2, <2>3 DEF IInv
<1>6. ASSUME NEW r \in Requests, GiveUp(r) PROVE IInv'
  <2>1. /\ TypeOK' /\ HeldIsLogged' /\ DrainedBefore' /\ StoppedBefore'
       /\ ClosedBefore' /\ ResourcesOutliveUsers' /\ BufferFlushed'
       /\ OffsetBehind' /\ HoldsCommitted'
       /\ HandledIsCommitted' /\ HandledAtMostOnce' /\ ConsumersStay' /\ ConsumersEnd'
    BY <1>6
    DEF IInv, TypeOK, HeldIsLogged, DrainedBefore, StoppedBefore,
        ClosedBefore, ResourcesOutliveUsers, BufferFlushed,
        OffsetBehind, HoldsCommitted, HandledIsCommitted,
        HandledAtMostOnce, ConsumersStay, ConsumersEnd, GiveUp, Outage
  <2>2. NothingSkipped'
    BY <1>6
    DEF IInv, TypeOK, HeldIsLogged, OffsetBehind, HoldsCommitted, NothingSkipped,
        GiveUp, Outage
  <2> QED BY <2>1, <2>2 DEF IInv
<1>7. ASSUME NEW u \in Uploads, RunJob(u) PROVE IInv'
  <2>1. /\ TypeOK' /\ HeldIsLogged' /\ DrainedBefore' /\ StoppedBefore'
       /\ ClosedBefore' /\ ResourcesOutliveUsers' /\ BufferFlushed'
       /\ OffsetBehind' /\ HoldsCommitted'
       /\ HandledIsCommitted' /\ HandledAtMostOnce' /\ ConsumersStay' /\ ConsumersEnd'
    BY <1>7
    DEF IInv, TypeOK, HeldIsLogged, DrainedBefore, StoppedBefore,
        ClosedBefore, ResourcesOutliveUsers, BufferFlushed,
        OffsetBehind, HoldsCommitted, HandledIsCommitted,
        HandledAtMostOnce, ConsumersStay, ConsumersEnd, RunJob
  <2>2. NothingSkipped'
    BY <1>7
    DEF IInv, TypeOK, HeldIsLogged, OffsetBehind, HoldsCommitted, NothingSkipped,
        RunJob
  <2> QED BY <2>1, <2>2 DEF IInv
<1>8. ASSUME NEW u \in Uploads, ReportAgain(u) PROVE IInv'
  <2>1. /\ TypeOK' /\ HeldIsLogged' /\ DrainedBefore' /\ StoppedBefore'
       /\ ClosedBefore' /\ ResourcesOutliveUsers' /\ BufferFlushed'
       /\ OffsetBehind' /\ HoldsCommitted'
       /\ HandledIsCommitted' /\ HandledAtMostOnce' /\ ConsumersStay' /\ ConsumersEnd'
    BY <1>8
    DEF IInv, TypeOK, HeldIsLogged, DrainedBefore, StoppedBefore,
        ClosedBefore, ResourcesOutliveUsers, BufferFlushed,
        OffsetBehind, HoldsCommitted, HandledIsCommitted,
        HandledAtMostOnce, ConsumersStay, ConsumersEnd, ReportAgain
  <2>2. NothingSkipped'
    BY <1>8
    DEF IInv, TypeOK, HeldIsLogged, OffsetBehind, HoldsCommitted, NothingSkipped,
        ReportAgain
  <2> QED BY <2>1, <2>2 DEF IInv
<1>9. ASSUME NEW u \in Uploads, Leave(u) PROVE IInv'
  <2>1. /\ TypeOK' /\ HeldIsLogged' /\ DrainedBefore' /\ StoppedBefore'
       /\ ClosedBefore' /\ ResourcesOutliveUsers' /\ BufferFlushed'
       /\ OffsetBehind' /\ HoldsCommitted'
       /\ HandledIsCommitted' /\ HandledAtMostOnce' /\ ConsumersStay' /\ ConsumersEnd'
    BY <1>9
    DEF IInv, TypeOK, HeldIsLogged, DrainedBefore, StoppedBefore,
        ClosedBefore, ResourcesOutliveUsers, BufferFlushed,
        OffsetBehind, HoldsCommitted, HandledIsCommitted,
        HandledAtMostOnce, ConsumersStay, ConsumersEnd, Leave
  <2>2. NothingSkipped'
    BY <1>9
    DEF IInv, TypeOK, HeldIsLogged, OffsetBehind, HoldsCommitted, NothingSkipped,
        Leave
  <2> QED BY <2>1, <2>2 DEF IInv
<1>10. ASSUME Fetch PROVE IInv'
  <2>1. /\ TypeOK' /\ HeldIsLogged' /\ DrainedBefore' /\ StoppedBefore'
       /\ ClosedBefore' /\ ResourcesOutliveUsers' /\ BufferFlushed'
       /\ OffsetBehind' /\ HoldsCommitted'
       /\ HandledIsCommitted' /\ HandledAtMostOnce' /\ ConsumersStay' /\ ConsumersEnd'
    BY <1>10
    DEF IInv, TypeOK, HeldIsLogged, DrainedBefore, StoppedBefore,
        ClosedBefore, ResourcesOutliveUsers, BufferFlushed,
        OffsetBehind, HoldsCommitted, HandledIsCommitted,
        HandledAtMostOnce, ConsumersStay, ConsumersEnd, Fetch, Goto
  <2>2. NothingSkipped'
    BY <1>10
    DEF IInv, TypeOK, HeldIsLogged, OffsetBehind, HoldsCommitted, NothingSkipped,
        Fetch, Goto
  <2> QED BY <2>1, <2>2 DEF IInv
<1>11. ASSUME Commit PROVE IInv'
  <2>1. /\ TypeOK' /\ HeldIsLogged' /\ DrainedBefore' /\ StoppedBefore'
       /\ ClosedBefore' /\ ResourcesOutliveUsers' /\ BufferFlushed'
       /\ OffsetBehind' /\ HoldsCommitted'
       /\ HandledAtMostOnce' /\ ConsumersStay' /\ ConsumersEnd'
    BY <1>11
    DEF IInv, TypeOK, HeldIsLogged, DrainedBefore, StoppedBefore,
        ClosedBefore, ResourcesOutliveUsers, BufferFlushed,
        OffsetBehind, HoldsCommitted, HandledAtMostOnce,
        ConsumersStay, ConsumersEnd, Commit, Goto
  <2>2. HandledIsCommitted'
    BY <1>11 DEF IInv, TypeOK, OffsetBehind, HandledIsCommitted, Commit, Goto
  <2>3. NothingSkipped'
    <3>1. Alive /\ Alive'
      BY <1>11 DEF IInv, ConsumersEnd, Commit
    <3> QED
      BY <1>11, <3>1 DEF IInv, TypeOK, NothingSkipped, Commit, Goto
  <2> QED BY <2>1, <2>2, <2>3 DEF IInv
<1>12. ASSUME CommitFails PROVE IInv'
  <2>1. /\ HeldIsLogged' /\ DrainedBefore' /\ StoppedBefore' /\ ClosedBefore'
       /\ ResourcesOutliveUsers' /\ BufferFlushed'
       /\ OffsetBehind' /\ HoldsCommitted'
       /\ HandledAtMostOnce' /\ ConsumersStay' /\ ConsumersEnd'
    BY <1>12
    DEF IInv, TypeOK, HeldIsLogged, DrainedBefore, StoppedBefore,
        ClosedBefore, ResourcesOutliveUsers, BufferFlushed,
        OffsetBehind, HoldsCommitted, HandledAtMostOnce,
        ConsumersStay, ConsumersEnd,
        CommitFails, Goto, Outage
  <2>2. TypeOK'
    BY <1>12 DEF IInv, TypeOK, HeldIsLogged, CommitFails, Goto, Outage
  <2>3. HandledIsCommitted'
    BY <1>12
    DEF IInv, TypeOK, OffsetBehind, HandledIsCommitted, CommitFails, Goto,
        Outage
  <2>4. NothingSkipped'
    <3>1. Alive /\ Alive'
      BY <1>12 DEF IInv, ConsumersEnd, CommitFails
    <3>2. log[fetched] \in missed' /\ missed \subseteq missed'
      BY <1>12 DEF CommitFails
    <3> QED
      BY <1>12, <3>1, <3>2 DEF IInv, TypeOK, NothingSkipped, CommitFails, Goto
  <2> QED BY <2>1, <2>2, <2>3, <2>4 DEF IInv
<1>13. ASSUME Handle PROVE IInv'
  <2>1. /\ HeldIsLogged' /\ DrainedBefore' /\ StoppedBefore' /\ ClosedBefore'
       /\ ResourcesOutliveUsers' /\ BufferFlushed'
       /\ OffsetBehind' /\ HoldsCommitted' /\ ConsumersStay' /\ ConsumersEnd'
    BY <1>13
    DEF IInv, TypeOK, HeldIsLogged, DrainedBefore, StoppedBefore,
        ClosedBefore, ResourcesOutliveUsers, BufferFlushed,
        OffsetBehind, HoldsCommitted, ConsumersStay, ConsumersEnd, Handle, Goto
  <2>2. TypeOK'
    BY <1>13 DEF IInv, TypeOK, HeldIsLogged, Handle, Goto
  <2>3. HandledIsCommitted'
    BY <1>13
    DEF IInv, TypeOK, HeldIsLogged, HoldsCommitted, HandledIsCommitted,
        Handle, Goto
  <2>4. HandledAtMostOnce'
    BY <1>13
    DEF IInv, HeldIsLogged, HandledIsCommitted, HandledAtMostOnce,
        Handle, Goto
  <2>5. NothingSkipped'
    <3>1. Alive /\ Alive'
      BY <1>13 DEF IInv, ConsumersEnd, Handle
    <3>2. handled'[fetched] = 1 /\ \A i \in 1..Len(log) : i # fetched => handled'[i] = handled[i]
      BY <1>13 DEF IInv, TypeOK, HeldIsLogged, HandledIsCommitted, Handle
    <3> QED
      BY <1>13, <3>1, <3>2 DEF IInv, TypeOK, NothingSkipped, Handle, Goto
  <2> QED BY <2>1, <2>2, <2>3, <2>4, <2>5 DEF IInv
<1>14. ASSUME NEW c \in Consumers, ReadFails(c) PROVE IInv'
  <2>1. /\ TypeOK' /\ HeldIsLogged' /\ DrainedBefore' /\ StoppedBefore'
       /\ ClosedBefore' /\ ResourcesOutliveUsers' /\ BufferFlushed'
       /\ OffsetBehind' /\ HoldsCommitted'
       /\ HandledIsCommitted' /\ HandledAtMostOnce' /\ ConsumersStay' /\ ConsumersEnd'
    BY <1>14
    DEF IInv, TypeOK, HeldIsLogged, DrainedBefore, StoppedBefore,
        ClosedBefore, ResourcesOutliveUsers, BufferFlushed,
        OffsetBehind, HoldsCommitted, HandledIsCommitted,
        HandledAtMostOnce, ConsumersStay, ConsumersEnd, ReadFails, Goto, Outage
  <2>2. NothingSkipped'
    BY <1>14
    DEF IInv, TypeOK, HeldIsLogged, OffsetBehind, HoldsCommitted, NothingSkipped,
        ReadFails, Goto, Outage
  <2> QED BY <2>1, <2>2 DEF IInv
<1>15. ASSUME NEW c \in Consumers, Retry(c) PROVE IInv'
  <2>1. /\ TypeOK' /\ HeldIsLogged' /\ DrainedBefore' /\ StoppedBefore'
       /\ ClosedBefore' /\ ResourcesOutliveUsers' /\ BufferFlushed'
       /\ OffsetBehind' /\ HoldsCommitted'
       /\ HandledIsCommitted' /\ HandledAtMostOnce' /\ ConsumersStay' /\ ConsumersEnd'
    BY <1>15
    DEF IInv, TypeOK, HeldIsLogged, DrainedBefore, StoppedBefore,
        ClosedBefore, ResourcesOutliveUsers, BufferFlushed,
        OffsetBehind, HoldsCommitted, HandledIsCommitted,
        HandledAtMostOnce, ConsumersStay, ConsumersEnd, Retry, Goto
  <2>2. NothingSkipped'
    BY <1>15
    DEF IInv, TypeOK, HeldIsLogged, OffsetBehind, HoldsCommitted, NothingSkipped,
        Retry, Goto
  <2> QED BY <2>1, <2>2 DEF IInv
<1>16. ASSUME Drained PROVE IInv'
  <2>1. /\ HeldIsLogged' /\ OffsetBehind'
       /\ HoldsCommitted' /\ HandledIsCommitted' /\ HandledAtMostOnce'
    BY <1>16
    DEF IInv, TypeOK, HeldIsLogged, OffsetBehind,
        HoldsCommitted, HandledIsCommitted, HandledAtMostOnce, Drained,
        Proceed
  <2>2. TypeOK'
    BY <1>16 DEF IInv, TypeOK, Drained, Proceed
  <2>3. DrainedBefore'
    BY <1>16 DEF IInv, DrainedBefore, Drained, Proceed
  <2>4. StoppedBefore'
    BY <1>16 DEF IInv, StoppedBefore, Drained, Proceed
  <2>5. ClosedBefore'
    BY <1>16 DEF IInv, ClosedBefore, Drained, Proceed
  <2>6. ResourcesOutliveUsers'
    BY <1>16 DEF IInv, ResourcesOutliveUsers, Drained, Proceed
  <2>7. BufferFlushed'
    BY <1>16 DEF IInv, BufferFlushed, Drained, Proceed
  <2>8. ConsumersStay' /\ ConsumersEnd'
    BY <1>16 DEF IInv, ConsumersStay, ConsumersEnd, Drained, Proceed
  <2>9. NothingSkipped'
    BY <1>16
    DEF IInv, TypeOK, HeldIsLogged, OffsetBehind, HoldsCommitted, NothingSkipped,
        Drained, Proceed
  <2> QED BY <2>1, <2>2, <2>3, <2>4, <2>5, <2>6, <2>7, <2>8, <2>9 DEF IInv
<1>17. ASSUME ConsumersGone PROVE IInv'
  <2>1. /\ TypeOK' /\ HeldIsLogged' /\ DrainedBefore' /\ StoppedBefore'
       /\ ClosedBefore' /\ ResourcesOutliveUsers' /\ BufferFlushed'
       /\ OffsetBehind' /\ HoldsCommitted'
       /\ HandledIsCommitted' /\ HandledAtMostOnce' /\ ConsumersStay' /\ ConsumersEnd'
    BY <1>17
    DEF IInv, TypeOK, HeldIsLogged, DrainedBefore, StoppedBefore,
        ClosedBefore, ResourcesOutliveUsers, BufferFlushed,
        OffsetBehind, HoldsCommitted, HandledIsCommitted,
        HandledAtMostOnce, ConsumersStay, ConsumersEnd, ConsumersGone, Proceed
  <2>2. NothingSkipped'
    BY <1>17
    DEF IInv, TypeOK, HeldIsLogged, OffsetBehind, HoldsCommitted, NothingSkipped,
        ConsumersGone, Proceed
  <2> QED BY <2>1, <2>2 DEF IInv
<1>18. ASSUME WorkersGone PROVE IInv'
  <2>1. /\ TypeOK' /\ HeldIsLogged' /\ DrainedBefore' /\ StoppedBefore'
       /\ ClosedBefore' /\ ResourcesOutliveUsers' /\ BufferFlushed'
       /\ OffsetBehind' /\ HoldsCommitted'
       /\ HandledIsCommitted' /\ HandledAtMostOnce' /\ ConsumersStay' /\ ConsumersEnd'
    BY <1>18
    DEF IInv, TypeOK, HeldIsLogged, DrainedBefore, StoppedBefore,
        ClosedBefore, ResourcesOutliveUsers, BufferFlushed,
        OffsetBehind, HoldsCommitted, HandledIsCommitted,
        HandledAtMostOnce, ConsumersStay, ConsumersEnd, WorkersGone, Proceed
  <2>2. NothingSkipped'
    BY <1>18
    DEF IInv, TypeOK, HeldIsLogged, OffsetBehind, HoldsCommitted, NothingSkipped,
        WorkersGone, Proceed
  <2> QED BY <2>1, <2>2 DEF IInv
<1>19. ASSUME Flushed PROVE IInv'
  <2>1. /\ TypeOK' /\ HeldIsLogged' /\ DrainedBefore' /\ StoppedBefore'
       /\ ClosedBefore' /\ ResourcesOutliveUsers' /\ BufferFlushed'
       /\ OffsetBehind' /\ HoldsCommitted'
       /\ HandledIsCommitted' /\ HandledAtMostOnce' /\ ConsumersStay' /\ ConsumersEnd'
    BY <1>19
    DEF IInv, TypeOK, HeldIsLogged, DrainedBefore, StoppedBefore,
        ClosedBefore, ResourcesOutliveUsers, BufferFlushed,
        OffsetBehind, HoldsCommitted, HandledIsCommitted,
        HandledAtMostOnce, ConsumersStay, ConsumersEnd, Flushed, Proceed
  <2>2. NothingSkipped'
    BY <1>19
    DEF IInv, TypeOK, HeldIsLogged, OffsetBehind, HoldsCommitted, NothingSkipped,
        Flushed, Proceed
  <2> QED BY <2>1, <2>2 DEF IInv
<1>20. ASSUME CloseRedis PROVE IInv'
  <2>1. /\ TypeOK' /\ HeldIsLogged' /\ DrainedBefore' /\ StoppedBefore'
       /\ ClosedBefore' /\ ResourcesOutliveUsers' /\ BufferFlushed'
       /\ OffsetBehind' /\ HoldsCommitted'
       /\ HandledIsCommitted' /\ HandledAtMostOnce' /\ ConsumersStay' /\ ConsumersEnd'
    BY <1>20
    DEF IInv, TypeOK, HeldIsLogged, DrainedBefore, StoppedBefore,
        ClosedBefore, ResourcesOutliveUsers, BufferFlushed,
        OffsetBehind, HoldsCommitted, HandledIsCommitted,
        HandledAtMostOnce, ConsumersStay, ConsumersEnd, CloseRedis, Proceed
  <2>2. NothingSkipped'
    BY <1>20
    DEF IInv, TypeOK, HeldIsLogged, OffsetBehind, HoldsCommitted, NothingSkipped,
        CloseRedis, Proceed
  <2> QED BY <2>1, <2>2 DEF IInv
<1>21. ASSUME ClosePg PROVE IInv'
  <2>1. /\ TypeOK' /\ HeldIsLogged' /\ DrainedBefore' /\ StoppedBefore'
       /\ ClosedBefore' /\ BufferFlushed'
       /\ OffsetBehind' /\ HoldsCommitted' /\ HandledIsCommitted'
       /\ HandledAtMostOnce' /\ ConsumersStay' /\ ConsumersEnd'
    BY <1>21
    DEF IInv, TypeOK, HeldIsLogged, DrainedBefore, StoppedBefore,
        ClosedBefore, BufferFlushed, OffsetBehind,
        HoldsCommitted, HandledIsCommitted, HandledAtMostOnce, ConsumersStay, ConsumersEnd,
        ClosePg, Proceed
  <2>2. ResourcesOutliveUsers'
    BY <1>21
    DEF IInv, DrainedBefore, StoppedBefore, ResourcesOutliveUsers, ClosePg,
        Proceed
  <2>3. NothingSkipped'
    BY <1>21
    DEF IInv, TypeOK, HeldIsLogged, OffsetBehind, HoldsCommitted, NothingSkipped,
        ClosePg, Proceed
  <2> QED BY <2>1, <2>2, <2>3 DEF IInv
<1>22. ASSUME Exit PROVE IInv'
  <2>1. /\ HeldIsLogged' /\ DrainedBefore' /\ StoppedBefore' /\ ClosedBefore'
       /\ ResourcesOutliveUsers' /\ BufferFlushed'
       /\ OffsetBehind' /\ HoldsCommitted'
       /\ HandledIsCommitted' /\ HandledAtMostOnce' /\ ConsumersStay' /\ ConsumersEnd'
    BY <1>22
    DEF IInv, TypeOK, HeldIsLogged, DrainedBefore, StoppedBefore,
        ClosedBefore, ResourcesOutliveUsers, BufferFlushed,
        OffsetBehind, HoldsCommitted, HandledIsCommitted,
        HandledAtMostOnce, ConsumersStay, ConsumersEnd, Exit, EndProcess
  <2>2. TypeOK'
    BY <1>22 DEF IInv, TypeOK, HeldIsLogged, Exit, EndProcess
  <2>3. NothingSkipped'
    BY <1>22
    DEF IInv, TypeOK, HeldIsLogged, OffsetBehind, HoldsCommitted, NothingSkipped,
        Exit, EndProcess
  <2> QED BY <2>1, <2>2, <2>3 DEF IInv
<1>23. ASSUME Signal PROVE IInv'
  <2>1. /\ TypeOK' /\ HeldIsLogged' /\ DrainedBefore' /\ StoppedBefore'
       /\ ClosedBefore' /\ ResourcesOutliveUsers' /\ BufferFlushed'
       /\ OffsetBehind' /\ HoldsCommitted'
       /\ HandledIsCommitted' /\ HandledAtMostOnce' /\ ConsumersStay' /\ ConsumersEnd'
    BY <1>23
    DEF IInv, TypeOK, HeldIsLogged, DrainedBefore, StoppedBefore,
        ClosedBefore, ResourcesOutliveUsers, BufferFlushed,
        OffsetBehind, HoldsCommitted, HandledIsCommitted,
        HandledAtMostOnce, ConsumersStay, ConsumersEnd, Signal, Proceed
  <2>2. NothingSkipped'
    BY <1>23
    DEF IInv, TypeOK, HeldIsLogged, OffsetBehind, HoldsCommitted, NothingSkipped,
        Signal, Proceed
  <2> QED BY <2>1, <2>2 DEF IInv
<1>24. ASSUME Die PROVE IInv'
  <2>1. /\ HeldIsLogged' /\ DrainedBefore' /\ StoppedBefore' /\ ClosedBefore'
       /\ ResourcesOutliveUsers' /\ BufferFlushed'
       /\ OffsetBehind' /\ HoldsCommitted'
       /\ HandledIsCommitted' /\ HandledAtMostOnce' /\ ConsumersStay' /\ ConsumersEnd'
    BY <1>24
    DEF IInv, TypeOK, HeldIsLogged, DrainedBefore, StoppedBefore,
        ClosedBefore, ResourcesOutliveUsers, BufferFlushed,
        OffsetBehind, HoldsCommitted, HandledIsCommitted,
        HandledAtMostOnce, ConsumersStay, ConsumersEnd, Die, EndProcess
  <2>2. TypeOK'
    BY <1>24 DEF IInv, TypeOK, HeldIsLogged, Die, EndProcess
  <2>3. NothingSkipped'
    BY <1>24
    DEF IInv, TypeOK, HeldIsLogged, OffsetBehind, HoldsCommitted, NothingSkipped,
        Die, EndProcess
  <2> QED BY <2>1, <2>2, <2>3 DEF IInv
<1>25. ASSUME Restart PROVE IInv'
  <2>1. /\ TypeOK' /\ HeldIsLogged' /\ DrainedBefore' /\ StoppedBefore'
       /\ ClosedBefore' /\ ResourcesOutliveUsers' /\ BufferFlushed'
       /\ OffsetBehind' /\ HoldsCommitted'
       /\ HandledIsCommitted' /\ HandledAtMostOnce' /\ ConsumersStay' /\ ConsumersEnd'
    BY <1>25
    DEF IInv, TypeOK, HeldIsLogged, DrainedBefore, StoppedBefore,
        ClosedBefore, ResourcesOutliveUsers, BufferFlushed,
        OffsetBehind, HoldsCommitted, HandledIsCommitted,
        HandledAtMostOnce, ConsumersStay, ConsumersEnd, Restart, StartConsumers
  <2>2. NothingSkipped'
    <3>1. ~Alive /\ Alive' /\ con[Reaper] = "off" /\ fetched' = committed
      BY <1>25 DEF IInv, ConsumersEnd, Restart
    <3> QED
      BY <1>25, <3>1 DEF IInv, TypeOK, NothingSkipped, Restart
  <2> QED BY <2>1, <2>2 DEF IInv
<1>26. CASE UNCHANGED vars
  BY <1>26
  DEF IInv, TypeOK, HeldIsLogged, DrainedBefore, StoppedBefore, ClosedBefore,
      ResourcesOutliveUsers, BufferFlushed,
      OffsetBehind, HoldsCommitted, HandledIsCommitted, HandledAtMostOnce,
      NothingSkipped, ConsumersStay, ConsumersEnd, vars
<1> QED BY <1>1, <1>2, <1>3, <1>4, <1>5, <1>6, <1>7, <1>8, <1>9, <1>10, <1>11,
    <1>12, <1>13, <1>14, <1>15, <1>16, <1>17, <1>18, <1>19, <1>20, <1>21, <1>22,
    <1>23, <1>24, <1>25, <1>26
  DEF Next, RequestStep, ReaperStep, MainStep

\* IInv holds in every reachable state.
LEMMA Inductive == Spec => []IInv
<1> QED
  BY InitIInv, StepIInv, PTL DEF Spec

\* The variables keep their types, and offsets stay within the topic.
THEOREM TypeCorrect == Spec => []TypeOK
<1>1. IInv => TypeOK
  BY DEF IInv
<1> QED
  BY <1>1, Inductive, PTL

\* The deferred calls of main: the connection pool is closed after every job and
\* after every request that srv.Shutdown waited for.
THEOREM ShutdownOrder == Spec => []ResourcesOutliveUsers
<1>1. IInv => ResourcesOutliveUsers
  BY DEF IInv
<1> QED
  BY <1>1, Inductive, PTL

\* producer.Close(): no event stays in the buffer of a process that ends in order.
THEOREM EventsFlushed == Spec => []BufferFlushed
<1>1. IInv => BufferFlushed
  BY DEF IInv
<1> QED
  BY <1>1, Inductive, PTL

\* Consumer.Run: whatever fails and restarts, no message is handled twice.
THEOREM DeletionHandledOnce == Spec => []HandledAtMostOnce
<1>1. IInv => HandledAtMostOnce
  BY DEF IInv
<1> QED
  BY <1>1, Inductive, PTL

\* Consumer.Run: the offset passes no message that is not at hand, handled, or lost to
\* the failure of its commit or the end of the process.
THEOREM NoMessageSkipped == Spec => []NothingSkipped
<1>1. IInv => NothingSkipped
  BY DEF IInv
<1> QED
  BY <1>1, Inductive, PTL

\* Consumer.Run and main: with Kafka enabled no consumer ends before the process is
\* killed, so main never gets past wg.Wait(), and closes nothing behind it.
THEOREM ConsumersNeverEnd == Spec => []ConsumersStay
<1>1. IInv => ConsumersStay
  BY DEF IInv
<1> QED
  BY <1>1, Inductive, PTL
=============================================================================
