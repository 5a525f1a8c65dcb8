# Verification of fileStorage (managerFiles)

TLA+ models of the file storage server in `src/`: a Go HTTP service that keeps
encrypted files in MinIO, their metadata and a tree of directories in PostgreSQL,
revoked JWTs in Redis, and announces what happens through Kafka. The models are
checked with TLC on small instances; what matters most is proved with TLAPS for
every instance.

## 1. The system

| part | state it keeps | operations | talks to |
|---|---|---|---|
| HTTP handlers, router, `middleware.JWTAuth` | the request's context | one goroutine per request | services; Redis (blacklist) |
| `service.fileService` | per call: `errCh` (one slot) | Upload, Download, GetMeta, Delete, List | pool, MinIO, `files`, Kafka |
| `worker.Pool`, `EncryptAndUploadJob` | channel `jobs` (size\*10), worker goroutines, per job an `io.Pipe` and an encrypting goroutine | Submit, Stop, run a job | MinIO, callbacks of Upload |
| `pkg/encrypt` | none (a key) | EncryptStream, DecryptStream: nonce, then chunks of 32 KB with a tag each | the pipe, MinIO |
| `service.directoryService` | none | Create, Get, GetRoot, Delete | `directories`, `files` |
| `repository` (PostgreSQL) | tables users, directories, files with their keys, unique indexes and cascades | single statements, no transactions | |
| `service.authService`, `pkg/jwt` | none (tokens are stateless) | Register, Login, Refresh, Logout | users, Redis |
| `repository/redis.TokenStore` | keys `blacklist:<jti>`, cache keys, counters, each with a TTL | Blacklist, IsBlacklisted, Cache\*, IncrCounter | Redis; silently off if Redis was down at start |
| `kafka.Producer` | buffered asynchronous writer | PublishFileUploaded, PublishFileDeleted, Close | Kafka, from goroutines started after the answer |
| `kafka.Consumer` | reader of one topic, its offset in Kafka | Run: file.deleted, audit.log | only logs |
| `cmd/server/main` | the deferred calls, the consumers' WaitGroup | start, graceful shutdown | everything |

How they interact: a request runs in its own goroutine and may be cancelled by its
client at any moment. `Upload` hands a closure to the pool and waits on `errCh` or its
context; the worker goroutine stores the object, inserts the row through the callback
and sends the result; the event is published by yet another goroutine after the answer.
All other operations are sequences of single SQL or Redis calls between which any other
request may run. Nothing in the process is shared beyond the channels; the tables, the
bucket and the keys are.

What makes each part correct:

* **upload**: 201 means stored, and completely; a row never names a missing object; each
  waiting request is answered; the pool drains at shutdown; no worker and no goroutine is
  lost on the way.
* **catalogue**: the tables stay trees with one owner and no orphan; a deletion is announced
  exactly once; a download that found its row finds its object, a listing shows its user's things; removed objects are reclaimed.
* **tokens**: a revoked token stays revoked as long as it lives; a refresh token works once.
* **streams**: decryption of an encryption is the file; damage and truncation are noticed, as
  far as the format can.
* **shutdown and events**: every deferred call returns, in an order in which jobs and requests
  keep PostgreSQL; no buffered event is lost on an orderly way out; an announced deletion is
  handled, and no message twice, over outages and restarts.
* **accounts**: of two registrations with one name or e-mail one succeeds at most, and its
  owner can log in.
* **counter, cache**: each caller gets a number of its own; a sweep leaves nothing it should
  have removed.

The hazards are listed line by line in `PROJECT.json`.

## 2. The plan

In order of importance. Done, each with its runs and proofs:

1. `UploadContract`, `UploadPipeline`: the upload path, its contract, and the pool's shutdown.
2. `AuthTokens`: JWT pairs and the blacklist.
3. `CatalogContract`, `FileCatalog`: tables, objects and events under concurrent requests, and
   the abstract catalogue they implement.
4. `ServerLifecycle`: the deferred calls of `main`, the producer's buffer, the consumers, crash
   and restart.
5. `FileContent`: the chunk format there and back, what it notices of damaged and exchanged
   objects and what it does not, and the flag `encrypt=false`.
6. `Accounts`: overlapping registrations against the unique indexes, validation, login.
7. `RedisStore`: `IncrCounter`, whose EXPIRE runs outside the pipeline and before INCR, and the
   sweep by pattern.

Left:

8. Abstract specifications of the token service (a set of live tokens, each refresh used in
   turn), which the unconditional part of `AuthTokens` implements, and of the consumer (a log
   and what was handled of it), which `ServerLifecycle` implements.
9. What the upload path guarantees when INSERT fails (`UploadFaultProofs` assumes it does not).

## 3. The models and the code

### UploadContract, UploadPipeline

`UploadPipeline` has one action per step of each goroutine; a definition's source lines are in
`PROJECT.json` under `map`.

| variable | code |
|---|---|
| `handler[u]` | where the goroutine of request u is: before `Upload`, blocked in `pool.Submit` (`submitting`), in the `select` (`waiting`), or how it ended |
| `gone` | requests whose `ctx.Done()` is closed |
| `errCh[u]` | the slot of `make(chan error, 1)` |
| `jobs`, `pool` | `Pool.jobs`; how far `main` has come: running, `srv.Shutdown` (draining), channel closed (stopping), `Stop` returned (stopped) |
| `wpc[w]`, `job[w]` | program counter and job of worker goroutine w |
| `epc[u]`, `left[u]` | the goroutine in `EncryptStream` and the chunks it has not read; `writing` is a blocked `pipeW.Write` |
| `objects`, `rows` | MinIO and the files table |
| `publishing`, `published` | goroutines about to call the producer; events handed to Kafka |

Choices worth knowing:

* The pipe is synchronous: a write returns when `PutObject` has read it (`PipeTransfer`), so a
  worker that left `PutObject` leaves the encrypting goroutine blocked for ever. That is what
  the code does, nothing closes `pipeR`.
* An error of `Create` is sent by `onSuccess` (`ReportErr`) and then again by `onError`.
* `ReadFails` is possible when the source fails, or once the handler has returned, because
  `defer file.Close()` then closes the uploaded file under the job. For a file kept in memory
  the close has no effect, so the failure is possible and never certain.
* `PutObject`, `INSERT` and the broker may fail with or without effect: `Disturbances` names
  which failures a run allows, so that a run can show a failure with its minimal cause.
* `Crash` forgets everything in memory and starts again with the same tables.

`UploadContract` is what a caller may rely on: one final answer; "created" only for a stored
file; an event only after "created"; a row after the answer only if the client left. It has
no queue, worker or channel. `ImplementsContract` maps `handler` to the answer, `rows` to
`stored` and `published` to `announced`.

### AuthTokens

Each call of Redis or PostgreSQL is one step; validation of the token and the start of the
call are one (they share no state with others). Tokens carry their kind and expiry, `entry`
is the expiry of the Redis key, 0 for none, and time is a counter. `connected` is fixed at the
start as in `NewClient`: without a client every operation is a silent no-op. `late` and
`revoked` are history variables: whether the revocation of a call's token had been answered
before the call began. `LogoutKinds` says which tokens clients present to `/auth/logout`:
only access tokens, as documented, or refresh tokens too.

### FileCatalog

Each SQL statement is one step. An id stands for the request that draws it, so user and name
are constants of the id, while `parent` and `folder` are chosen when the request runs.
`Subtree` gives what the recursive query and the cascades reach, as the intersection of all
closed sets of directories, which both TLC and the provers can handle. The upload is cut to
the steps other requests can come between, `PutObject`, `InsertFile` and the two arms of the
handler's `select`: `AnswerUpload` (201 or an error) and `LeaveUpload`, at any moment; in
`abandoned` the job runs on for a client that has left, and its row may still come. How the
pipeline takes these steps is the subject of its own module. `directoryService.Get` is here
with its two concurrent queries; GetRoot, GetMeta and List are single reads and have no action, nor have requests that are
refused (not found, not the owner). The consumer's handler logs and
does nothing else, and so does `HandleDeleted`.

`CatalogContract` is the same catalogue without requests and statements: a tree, the rows in
it, what has been announced. A directory is added under an existing one of its owner with a
name that is free, a whole tree goes at once with the rows in it, a file is deleted once and
announced once at most. `ImplementsCatalog` maps the rows of `directories` to the tree, those
of `files` to the rows, and counts an id as spent from the moment its INSERT was decided, in
whichever way: an INSERT whose reply is lost takes effect, and its error is a stutter.

### FileContent

A plaintext is a sequence of chunks, a stored object a base nonce and a sequence of sealed
chunks. A sealed chunk remembers the nonce it was sealed under, which is all of GCM that the
properties need: with one key for every file and no associated data, `Opens` holds under that
nonce and asks nothing else; altered bytes (`Broken`) open under none. A nonce `<<f, k>>` is
the random base of file f XOR k, so that `chunkNonce(<<f, k>>, n)` is `<<f, xor(k, n)>>`: the
chunks of one file, and its base changed to base XOR k, meet as they do in the code. That the
random bases of two files never differ by a counter only is the usual assumption on 96 random
bits. `xor` and the set `Counters` are constants, with the assumption that XOR stays among the
counters and undoes itself; `MCFileContent` gives them the bitwise operator and two bits. Each
turn of the loops in `EncryptStream` and `DecryptStream` is one step. `DamageObject` is what
a store might do: a chunk lost, altered, or replaced by any chunk of any object; the nonce
replaced by any other, that of another file or the base XOR k included; the object gone, or
replaced by another file's. Two such events may follow each other, so that for example the base becomes
base XOR 1 and the first chunk goes.

What the format notices of that is less than `aes.go:16` says (section 4). `BodyFromOneFile`
holds whatever happens: what is written are parts of one file, each once at most. That it is
the right file and the right order (`BodyIsBeginning`), and that an answer that looks complete
is the file (`CompleteIsExact`), holds as long as the object has the nonce it was written with
(`HasItsNonce`), whatever becomes of its chunks.

`minio` is fixed at the start, as in `NewMinio`, whose `unavailableStorage` fails every
call. The response has the length that the handler declared from the row (`Declared`), and
net/http refuses to write beyond it; `Complete` says when a client can take the body for
whole. `src` is the object as it was when it was opened; nothing overwrites an object.

### ServerLifecycle

`main` says what `main()` waits for: serving, draining (`srv.Shutdown`), waiting (`wg.Wait` of
the consumers), stopping (`Pool.Stop`), flushing (`producer.Close`), then Redis, PostgreSQL and
the return. The deferred calls run last one first, so each is one action (`Proceed`) that closes its
resource or waits. Handlers and jobs are cut to what keeps a resource busy. A job ends in one
step (`RunJob`) unless its INSERT fails: then its worker has sent the error once and must send
it again (`reporting`), which it can when the request has taken the first (`ReportAgain`). If
the client has left, it never can (`WorkerStuck`); the worker is then lost to the other jobs,
of which only `WorkerCount` can be under way, and `WorkersGone` (`Pool.Stop`) is never enabled.
An event goes from `pending` (its goroutine has not run) over `buffered` (in the asynchronous writer) to
`delivered`, or is `dropped` (Kafka, a closed writer, or a process that ended before the
goroutine ran), `died` (in the buffer of a process that was killed) or `lost` (in the buffer of
one that exited through its deferred calls, which BufferFlushed says never happens). When an acknowledgement
is lost the writer sends again, and the topic holds the event twice (`Duplicate`). The reader commits the offset before it returns the message: `Fetch`, `Commit`,
`Handle`. Its calls of Kafka fail at most `MaxOutages` times, with or without effect. `Die` is a
kill, or the `os.Exit(1)` of the serving goroutine, at any moment; `Restart` starts from the
committed offset. `kafkaEnabled` is read with `getEnvBool`.

`UploadPipeline` has `main` too, cut to HTTP and pool (`CloseJobs`, `FinishStop`): the shutdown
of `KAFKA_ENABLED=false`. With Kafka, `main` never comes as far as `Pool.Stop` (section 4).

### Accounts, RedisStore, MCStores

`Accounts` has one step per SQL statement of Register and Login. A text of a form is a value
with or without blanks around it, so that `TrimSpace` has something to do; validation says
which values are good. `RedisStore` has one step per Redis command. The counter's key may expire
at any moment after an EXPIRE has reached it, keys of the cache at any moment. SCAN is what Redis
promises: the keys that are there from its beginning to its end, any others or none, and a
cursor of 0 only then. `MCStores` checks both modules in one run. They share no variable,
nor do counter and cache, so interleaving them shows nothing that each alone does not: the
constraint `OneAtATime` cuts off states in which two of the three are under way.

### Beside the originals

Definitions commented `mutant:` are plausible mistakes in the definition that follows them.
Each is put in the place of its original to see that the property named for it in
`PROJECT.json` notices; no specification uses them.

## 4. What TLC checks

All runs say `CHECK_DEADLOCK FALSE`: uploads, ids and time are finite and the server may be
stopped, so a run may come to rest; that it does not rest too early is the subject of the
liveness properties.

| run | instance | shows |
|---|---|---|
| `upload_safety` | 3 uploads, 2 workers, queue 1, everything may fail | types and capacities; RowsAreWhole (RowImpliesObject, ObjectsComplete), NoLostAnswer, StopDrains |
| `upload_faults` | 3 uploads, 1 worker; invalid input, failures of source, storage and insert, shutdown | AnswersTellRows (CreatedMeansStored; no row after a failed answer); no send on a closed channel; every request answered; the shutdown completes |
| `upload_leavers` | 3 uploads, 1 worker; clients leave, shutdown with its deadline passing | no orphan object, no blocked worker, no leaked goroutine, an event for every 201; the pipeline implements UploadContract |
| `auth_tokens` | 2 pairs, 2 calls, clock to 4; access tokens presented to `/auth/logout` | EntryCoversToken, LogoutTakesEffect, LateRefreshRefused |
| `catalog_safety` | 4 directories, 2 users, 1 file, 2 calls, every fault | TablesSound (TreesOfOneUser, NoCycles, RowsHaveDirectory), OneDeletionEvent, ObjectForStream, ContentsAreOwn; the tables implement CatalogContract |
| `content_safety` | 3 files of 2 chunks, one of them encrypt=false, 1 download, 2 damages, counters of 2 bits | BodyFromOneFile; BodyIsBeginning and CompleteIsExact for objects with their nonce; GoodObjectIsServed |
| `lifecycle` | 1 upload, 1 worker, 2 deletions, 2 consumers, 1 outage, 1 restart, every fault, KAFKA_ENABLED either way | ResourcesOutliveUsers, BufferFlushed, HandledAtMostOnce, NothingSkipped; DeletionReachesConsumer, ShutdownCompletes (without consumers, and unless a worker is stuck) |
| `stores` | 2 registrations and a login; 3 counts, 2 expiries; a sweep of 3 keys in 4 batches | CreatedCanLogIn, AnswersAreTrue; RanksDistinct; SweepIsComplete |

Where a document or comment of the repository says what the code does not do:

| run | the text | what happens |
|---|---|---|
| `upload_wedge` | ARCHITECTURE.md:980 | two sends on a channel with one slot: a worker is blocked for ever |
| `auth_refresh_race` | service/auth.go:84 | a refresh token used twice, concurrently |
| `lifecycle_kafka` | consumer.go:25, ARCHITECTURE.md:1355 | the consumers never return, so the shutdown hangs in `wg.Wait()`: neither pool nor producer, Redis and PostgreSQL are closed, and the process must be killed |
| `content_plain` | ARCHITECTURE.md:236 | a file uploaded with encrypt=false is encrypted all the same and comes back as ciphertext |

Other divergences, visible in the actions themselves and given no run:

* A `PutObject` that fails before it has read the pipe leaves the encrypting goroutine blocked
  (`PutObjectFails` against `PipeTransfer`), so more than WorkerCount may encrypt
  (ARCHITECTURE.md:892); EncryptorsEnd is checked where storage does not fail.
* An object whose nonce has become base XOR k, or that of another file, decrypts without an
  error to parts in another order, or to the other file: swapped chunks under base XOR 1 come as
  a complete answer (`DamageObject` against `Opens`). aes.go:16 and ARCHITECTURE.md:779 say that
  GCM notices what was changed; the nonce is not authenticated, and nothing ties a chunk to its
  file.
* The shutdown hangs in `Pool.Stop` when a worker is stuck with its second report (`WorkerStuck`,
  the exception in ShutdownCompletes; the trace is `upload_wedge`'s).
* Events may reach the producer when it is closed, and are gone (`Publish`; main.go has nothing
  that waits for these goroutines).
* A client that leaves while its file is stored leaves a file that is never announced
  (`AbandonWait` against `Publish`; model/event.go:9).
* Logout with a refresh token lists it for 20 minutes only (`RevokeLogout` in `lRevokeFixed`;
  service/auth.go:94), and logout with a dead token writes a key that outlives it
  (token_store.go:69).
* Root directories may share a name (`NameTaken`; ARCHITECTURE.md:396).
* The files that go with a directory are logged and not announced (`DeleteDir`; directory.go:149).
* The consumer of file.deleted removes no object (`HandleDeleted`, `Handle`; consumer.go:95).
* Both events of a file are published by goroutines of their own, and the later may run first
  (`PublishDeleted` against `PublishUploaded`; ARCHITECTURE.md:1022).
* A file inserted between `ListAllRecursive` and DELETE goes with its directory and is in
  nobody's list (`ListFiles` against `DeleteDir`; ARCHITECTURE.md:547).
* `IncrCounter` sends EXPIRE by itself and before INCR, so the first call sets no window and
  each later one starts it anew (`CountExpire`; token_store.go:189, ARCHITECTURE.md:593).
* A name that is taken is answered as an e-mail that is (`InsertRefused`; user.go:34).
* A message whose commit failed, or that a dying process held, is skipped (`CommitFails`,
  `EndProcess`, the variable `missed`): what the consumer is promised is at most once.

Why the bounds are enough. Three uploads with a queue of one are the least that has one job
running, one queued and one sender blocked; the second worker adds the interleavings of two
jobs, and nothing relates more than two. One chunk gives the stream its nonce, data
and end; for more chunks the proofs speak. For tokens, one pair and its successor and two overlapping
calls make every race there is between check and set; lifetimes 2 and 3 put the access
token's end before, at and after the refresh token's and the fixed 20 minutes. Four
directories hold a path of three with a sibling and another user's; two calls delete a
parent and its child, or one file, at the same time. The constraint
`FewOverlaps` of `MCFileCatalog` lets two requests besides the upload be under way at a time,
and bob's directory, which is there for alice's requests to name, be made first and stay; the
proofs know no such limits. For contents, two chunks are a first and
a last one; two files of the same kind can exchange chunks, nonces and objects, and two damages
can shift a nonce and cut the object to match, or cut it and replace what is left; with two
bits a shifted nonce meets the right, the wrong or no part; downloads read and write nothing in common, so one suffices. For the
life cycle, the one worker may be the stuck one; two deletions put one message before and one after the offset, one outage
meets every call of Kafka once, and one restart shows what survives a process. For the
stores, one registration commits while the other is between validation and insert, the login
begins before, between or after them; three counts over two expiries put two calls
into one life of the key and one into another; four batches can be empty, hold a key twice and
end. Symmetry is used only in runs without liveness properties.

Fairness (in `FairSpec` only). Goroutines are scheduled and external calls return, with success
or failure: weak fairness of each goroutine. `Submit` has strong fairness, because the
runtime serves goroutines blocked on a channel in the order they came, while weak fairness
would let others overtake one for ever. In
`ServerLifecycle` the steps of `main`, of each consumer, of the workers and of the writer are
fair, since a batch is sent within BatchTimeout and a pause of a consumer ends; so is a worker's
second report, once the slot is free. Nothing is
assumed of clients, signals, failures, restarts, the clock, or that a request ever begins.

## 5. What is proved

For every number of uploads, workers, tokens, users, directories, files, chunks, consumers and
calls, and every capacity, lifetime and bound on failures.

* `UploadPipelineProofs`: TypeOK, RowImpliesObject, CreatedMeansStored, ObjectsComplete,
  FailedMeansNotStored, NoLostAnswer, JobHeldOnce, StopDrains, and that `Spec` implements
  `UploadContract`. `IInv` says of each place an upload can be in (queued, on a worker and at
  which line, answered, not started) what holds in the others. None of the properties is
  inductive alone: that a worker about to insert has a complete object needs `StreamsWhole`,
  that "nil" in `errCh` is true needs `AnswersTrue`, that a worker's report reaches the right
  request needs `JobsDistinct`, and that Stop has drained needs `ExitOrder`. The refinement
  takes each action to a step of the contract or a stutter, with `Verdict` for the mapped
  answer.
* `AuthTokensProofs`: TypeOK and LogoutTakesEffect, whatever clients present to `/auth/logout`;
  and EntryCoversToken and LateRefreshRefused if they present no refresh token there
  (`"refresh" \notin LogoutKinds`; with one, both are false: section 4). The invariant speaks
  of the tokens whose revocation lasts (`LastingKinds`): access tokens always, refresh tokens
  under that assumption. Such a token is covered by its key from the moment it is revoked until
  it expires (`RevokedIsCovered`), which needs that no jti in use is issued again (`Issued`),
  that a call marked late carries a revoked token, that each handler holds tokens of its own
  kind (`KindsMatch`), that the token is covered between SET and the new pair (`IssueCovered`),
  and that the fixed time is used for dead tokens (`FixedOnlyExpired`).
* `FileCatalogProofs`: TypeOK, TreesOfOneUser, NoCycles, RowsHaveDirectory, SubdirNamesUnique,
  OneDeletionEvent, ObjectForStream, ContentsAreOwn, and that `Spec` implements
  `CatalogContract`. `DirsChecked` and `FilesStored` say what was true
  before each INSERT and stays true; `ReadsSettled` that what was read cannot move any more; `SubtreeClosed` that a cascade leaves
  no reference behind. NoCycles says that every set of directories has a member whose parent
  is outside: a new row is nobody's parent, since every parent has a row (TreesOfOneUser), and
  what is left after a cascade is a subset of what was there. The refinement rests on
  `SubtreeIsBelow`, that a cascade removes exactly one tree of one owner, and on `OneOrNone`,
  that the counters of a file's events are flags.
* `UploadFaultProofs`, on top of the first: what holds as long as certain things do not
  fail, each condition written into the theorem as an assumption on `Disturbances`:
  NoSendOnClosedQueue (the drain deadline holds), ResultSendNeverBlocks (no INSERT fails) and
  ObjectsAccounted (neither INSERT nor the reply of PutObject fails, no crash). The invariant
  follows the one report of a job to the empty slot it will find.
* `ServerLifecycleProofs`: TypeOK, ResourcesOutliveUsers, BufferFlushed, HandledAtMostOnce,
  NothingSkipped, and `ConsumersNeverEnd`, the general form of `lifecycle_kafka`: with Kafka
  enabled no consumer ends while the process lives and `main` never passes `wg.Wait()`. The
  invariant ties what is closed to how far `main` has come, and each handled message to an
  offset already committed. That the offset passes nothing but what is in `missed` needs
  `ConsumersEnd`: a process that has ended has no consumer left to commit for it, so the next
  one goes on where the offset is.
* `FileContentProofs`: TypeOK, BodyFromOneFile, BodyIsBeginning, CompleteIsExact,
  GoodObjectIsServed. Every sealed chunk anywhere, in whatever object, carries the nonce of its
  own file and place, so what opens under the base `<<f, k>>` at counter n is part `xor(k, n) + 1`
  of f (`Opened`), and a body is, part by part, what its base and the position say
  (`WrittenUnderNonce`). XOR with k hits no part twice (`XorInjective`), and with k = 0 each in
  its place. An object that was never damaged is as `SealChunk` made it (`ObjectsAsSealed`).
* `AccountsProofs`: TypeOK, CreatedCanLogIn, AnswersAreTrue. `RedisStoreProofs`: RedisTypeOK,
  RanksDistinct, SweepIsComplete; a key that the sweep must still remove is unseen or in its
  batch.

Assumptions on the constants are the named ASSUMEs of the modules: a queue of at least one, at
least one worker (`WORKER_COUNT=0` makes a channel nobody reads), positive lifetimes,
placeholders distinct from real values, and of XOR that it stays among the counters, is undone
by itself and leaves a counter alone at 0. TLC evaluates them in every run.

Every invariant that a passing run checks is a theorem, some under the assumptions named above,
and so are the two refinements.
The runs check some of them together, as TablesSound, RowsAreWhole and AnswersTellRows; these are
theorems of their own. JobHeldOnce, SubdirNamesUnique, RedisTypeOK and ConsumersStay are theorems
that no run checks. Only model-checked: the liveness properties of `upload_faults`,
`upload_leavers` and `lifecycle` (reasoning under fairness is out of the provers' reach), and the
violation runs, which are counterexamples.

## 6. What is not modelled, and why

* `DecryptAndDownloadJob`, `PublishAuditLog`, presigned URLs, `storage.Delete` and `Exists`,
  `GenerateKey`, `audit.go`: no caller, or stubs. `CacheGet`, GetRoot, GetMeta and List read and
  change nothing.
* Messages in Kafka that do not decode: the only writers are the modelled ones.
* Several instances of the server in one consumer group; rebalancing.
* The rate limiter and metrics middleware are stubs; configuration (but for KAFKA_ENABLED),
  logging, Prometheus, health endpoints, the web page, the connection pool's settings, Docker
  files and down migrations have no state a later step depends on.
* Bytes of files, names, MIME types, passwords, signatures: abstracted to what the properties
  distinguish.
* External calls that never return: `PutObject` has no deadline in the code; the models assume
  an answer.
