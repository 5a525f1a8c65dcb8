--------------------------- MODULE UploadContract ---------------------------
(* What FileService.Upload (src/internal/service/file.go) promises to its      *)
(* callers, with no queue, worker, pipe or channel in sight.                   *)
(*   - an answer is given once and is final;                                   *)
(*   - "created" is answered only for a file whose metadata row exists;        *)
(*   - a row may still appear after the answer in one case only: the client    *)
(*     left while the job was running ("unknown");                             *)
(*   - file.uploaded is announced only for a file that was answered "created". *)
CONSTANT Uploads

VARIABLES answer,     \* what the caller of Upload was told
          stored,     \* uploads whose row was inserted into the files table
          announced   \* uploads whose file.uploaded event was handed to Kafka

vars == <<answer, stored, announced>>

Verdicts == {"created", "failed", "refused", "unknown", "aborted"}

Init ==
  /\ answer = [u \in Uploads |-> "pending"]
  /\ stored = {}
  /\ announced = {}

Store(u) ==
  /\ answer[u] \in {"pending", "unknown"}
  /\ stored' = stored \cup {u}
  /\ UNCHANGED <<answer, announced>>

Answer(u, verdict) ==
  /\ answer[u] = "pending"
  /\ verdict = "created" => u \in stored
  /\ verdict = "refused" => u \notin stored
  /\ answer' = [answer EXCEPT ![u] = verdict]
  /\ UNCHANGED <<stored, announced>>

\* The process dies: the requests in flight are answered by a closed connection.
Abort(S) ==
  /\ \A u \in S : answer[u] \in {"pending", "unknown"}
  /\ answer' = [u \in Uploads |-> IF u \in S THEN "aborted" ELSE answer[u]]
  /\ UNCHANGED <<stored, announced>>

Announce(u) ==
  /\ answer[u] = "created"
  /\ announced' = announced \cup {u}
  /\ UNCHANGED <<answer, stored>>

Next ==
  \/ \E u \in Uploads : Store(u) \/ Announce(u)
  \/ \E u \in Uploads, verdict \in Verdicts : Answer(u, verdict)
  \/ \E S \in SUBSET Uploads : Abort(S)

Spec == Init /\ [][Next]_vars
=============================================================================
