----------------------------- MODULE FileContent -----------------------------
(* The bytes of a file: EncryptStream on the way to MinIO, what MinIO may make  *)
(* of the object, and DecryptStream (or a plain copy) on the way back into an   *)
(* HTTP response of declared length.                                            *)
(*                                                                              *)
(* A plaintext is a sequence of chunks <<file, index>>; a sealed chunk carries  *)
(* the nonce it was sealed under, and gcm.Open, with one key for all files and  *)
(* no associated data, succeeds under that nonce and asks nothing else. A nonce *)
(* <<f, k>> stands for the random base of file f XOR k.                         *)
(* When objects and rows are written, and what may fail there, is the subject   *)
(* of UploadPipeline; here an upload ends with both or with neither.            *)
EXTENDS Naturals, Sequences

CONSTANTS Files,       \* uploads, each of its own storage key
          PlainFiles,  \* those whose form said encrypt=false
          Chunks,      \* chunks of 32 KB in a file; Validate refuses empty files
          Downloads,   \* requests GET /api/files/{id}
          Nobody,      \* no file: of a request that has not begun, or of altered bytes
          Counters,    \* the values of the 64 bits that enter a nonce: 0 .. 2^64 - 1
          xor(_, _),   \* their exclusive or
          MaxDamage    \* bound on what goes wrong with stored objects

ASSUME ChunksAssumption == Chunks \in Nat \ {0}
ASSUME MaxDamageAssumption == MaxDamage \in Nat
ASSUME NobodyAssumption == Nobody \notin Files
ASSUME CountersAssumption == Counters \subseteq Nat /\ 0..(Chunks - 1) \subseteq Counters
ASSUME XorAssumption ==
  \A k, n \in Counters :
    xor(k, n) \in Counters /\ xor(0, n) = n /\ xor(k, xor(k, n)) = n
ASSUME PlainAssumption == PlainFiles \subseteq Files

VARIABLES
  minio,    \* NewMinio reached the store; otherwise every call of it fails
  up,       \* how far each upload is
  object,   \* the bytes in MinIO; until PutObject has returned, those written to it
  row,      \* is_encrypted in the files table, "none" without a row
  damage,   \* how often something has gone wrong in MinIO
  damaged,  \* history: the files it happened to
  pc,       \* how far each download is, or how it ended
  file,     \* the file it is for
  src,      \* the object it reads, as it was when it was opened
  body      \* what it has written to the response

uploadVars   == <<up, object, row>>
storeVars    == <<minio, damage, damaged>>
downloadVars == <<pc, file, src, body>>
vars == <<storeVars, uploadVars, downloadVars>>

Plaintext(f) == [i \in 1..Chunks |-> <<f, i>>]

\* mutant: the counter does not enter the nonce
chunkNonceConstant(base, counter) == base

\* base XOR counter. The bases of two files, 96 random bits each, do not differ in a
\* counter only; but one base differs from another nonce of its file in just that.
chunkNonce(base, counter) == <<base[1], xor(base[2], counter)>>

Sealed(base, counter, p) == [nonce |-> chunkNonce(base, counter), plain |-> p]
Ciphertext == <<Nobody, 0>>  \* bytes that are no part of any file
Broken == [nonce |-> <<Nobody, 0>>, plain |-> Ciphertext]
Opens(chunk, base, counter) == chunk # Broken /\ chunk.nonce = chunkNonce(base, counter)
NoBase == <<Nobody, 0>>      \* no nonce to read
Bases == (Files \cup {Nobody}) \X Counters
EmptyObject == [base |-> NoBase, chunks |-> <<>>]

Init ==
  /\ minio \in BOOLEAN
  /\ up = [f \in Files |-> "new"]
  /\ object = [f \in Files |-> EmptyObject]
  /\ row = [f \in Files |-> "none"]
  /\ damage = 0
  /\ damaged = {}
  /\ pc = [d \in Downloads |-> "new"]
  /\ file = [d \in Downloads |-> Nobody]
  /\ src = [d \in Downloads |-> EmptyObject]
  /\ body = [d \in Downloads |-> <<>>]

-----------------------------------------------------------------------------
(* Upload: the job encrypts whatever the form said.                            *)

WriteNonce(f) ==
  /\ up[f] = "new"
  /\ up' = [up EXCEPT ![f] = "sealing"]
  /\ object' = [object EXCEPT ![f].base = <<f, 0>>]
  /\ UNCHANGED <<storeVars, row, downloadVars>>

\* mutant: the counter starts anew for every chunk
SealChunkFromZero(f) ==
  /\ up[f] = "sealing"
  /\ LET n == Len(object[f].chunks)
     IN  /\ n < Chunks
         /\ object' = [object EXCEPT ![f].chunks =
              Append(@, Sealed(object[f].base, 0, <<f, n + 1>>))]
  /\ UNCHANGED <<storeVars, up, row, downloadVars>>

SealChunk(f) ==
  /\ up[f] = "sealing"
  /\ LET n == Len(object[f].chunks)
     IN  /\ n < Chunks
         /\ object' = [object EXCEPT ![f].chunks =
              Append(@, Sealed(object[f].base, n, <<f, n + 1>>))]
  /\ UNCHANGED <<storeVars, up, row, downloadVars>>

\* End of file: PutObject returns, and the row takes the flag from the form.
StoreFile(f) ==
  /\ up[f] = "sealing"
  /\ minio
  /\ Len(object[f].chunks) = Chunks
  /\ up' = [up EXCEPT ![f] = "stored"]
  /\ row' = [row EXCEPT ![f] = IF f \in PlainFiles THEN "plain" ELSE "encrypted"]
  /\ UNCHANGED <<storeVars, object, downloadVars>>

\* The source, the store or the database fails, or there is no store at all.
UploadFails(f) ==
  /\ up[f] = "sealing"
  /\ up' = [up EXCEPT ![f] = "failed"]
  /\ object' = [object EXCEPT ![f] = EmptyObject]
  /\ UNCHANGED <<storeVars, row, downloadVars>>

-----------------------------------------------------------------------------
(* MinIO: a chunk is lost, altered or cut, or replaced by one from elsewhere;   *)
(* the nonce becomes any other, of this file, of another or of none; the object *)
(* is gone, or is another file's.                                               *)

Without(s, i) == [k \in 1..(Len(s) - 1) |-> IF k < i THEN s[k] ELSE s[k + 1]]

DamageObject(f) ==
  /\ up[f] = "stored"
  /\ damage < MaxDamage
  /\ \/ \E i \in DOMAIN object[f].chunks :
          \/ object' = [object EXCEPT ![f].chunks = Without(@, i)]
          \/ object' = [object EXCEPT ![f].chunks[i] = Broken]
          \/ \E g \in Files : up[g] = "stored" /\ \E j \in DOMAIN object[g].chunks :
               object' = [object EXCEPT ![f].chunks[i] = object[g].chunks[j]]
     \/ \E base \in Bases \ {NoBase} : object' = [object EXCEPT ![f].base = base]
     \/ object' = [object EXCEPT ![f] = EmptyObject]
     \/ \E g \in Files : up[g] = "stored" /\ object' = [object EXCEPT ![f] = object[g]]
  /\ damage' = damage + 1
  /\ damaged' = damaged \cup {f}
  /\ UNCHANGED <<minio, up, row, downloadVars>>

-----------------------------------------------------------------------------
(* Download.                                                                   *)

\* mutant: the length is that of the full chunks
DeclaredFull(f) == Chunks - 1

Declared(f) == Chunks  \* size_bytes, the length of the plaintext

\* GetMeta found the row: the headers declare its length.
BeginDownload(d, f) ==
  /\ pc[d] = "new"
  /\ row[f] # "none"
  /\ pc' = [pc EXCEPT ![d] = "opening"]
  /\ file' = [file EXCEPT ![d] = f]
  /\ UNCHANGED <<storeVars, uploadVars, src, body>>

\* GetByID once more, then GetObject; the flag of the row chooses the way.
OpenObject(d) ==
  /\ pc[d] = "opening"
  /\ minio
  /\ src' = [src EXCEPT ![d] = object[file[d]]]
  /\ pc' = [pc EXCEPT ![d] = IF row[file[d]] = "encrypted" THEN "decrypting" ELSE "copying"]
  /\ UNCHANGED <<storeVars, uploadVars, file, body>>

End(d, how) ==
  /\ pc' = [pc EXCEPT ![d] = how]
  /\ UNCHANGED <<storeVars, uploadVars, file, src>>

\* The row or the store is gone, a read fails half way, or the client leaves.
Interrupted(d) ==
  /\ pc[d] \in {"opening", "decrypting", "copying"}
  /\ End(d, "interrupted")
  /\ UNCHANGED body

\* The counter of DecryptStream is the number of chunks written.
NextOpens(d) ==
  /\ Len(body[d]) < Len(src[d].chunks)
  /\ Opens(src[d].chunks[Len(body[d]) + 1], src[d].base, Len(body[d]))

\* gcm.Open, then dst.Write, which the declared length limits.
DecryptChunk(d) ==
  /\ pc[d] = "decrypting"
  /\ NextOpens(d)
  /\ Len(body[d]) < Declared(file[d])
  /\ body' = [body EXCEPT ![d] = Append(@, src[d].chunks[Len(@) + 1].plain)]
  /\ UNCHANGED <<storeVars, uploadVars, pc, file, src>>

\* mutant: the short read of the last chunk is taken for the end of the stream
DecryptEndEarly(d) ==
  /\ pc[d] = "decrypting"
  /\ src[d] # EmptyObject
  /\ Len(body[d]) + 1 >= Len(src[d].chunks)
  /\ End(d, "sent")
  /\ UNCHANGED body

\* The stream ends where the object ends, whatever its length should have been.
DecryptEnd(d) ==
  /\ pc[d] = "decrypting"
  /\ src[d] # EmptyObject
  /\ Len(body[d]) = Len(src[d].chunks)
  /\ End(d, "sent")
  /\ UNCHANGED body

\* No nonce to read, or a chunk that gcm.Open refuses.
DecryptRefuses(d) ==
  /\ pc[d] = "decrypting"
  /\ \/ src[d] = EmptyObject
     \/ Len(body[d]) < Len(src[d].chunks) /\ ~NextOpens(d)
  /\ End(d, "refused")
  /\ UNCHANGED body

\* io.Copy of an object that was not to be decrypted: blocks of 32 KB ...
CopyBlock(d) ==
  /\ pc[d] = "copying"
  /\ Len(body[d]) < Len(src[d].chunks)
  /\ Len(body[d]) < Declared(file[d])
  /\ body' = [body EXCEPT ![d] = Append(@, Ciphertext)]
  /\ UNCHANGED <<storeVars, uploadVars, pc, file, src>>

\* ... and nonce and tags besides: the block that would pass the declared length
\* is dropped, which is the last full one unless the file is a multiple of 32 KB.
CopyEnd(d) ==
  /\ pc[d] = "copying"
  /\ \/ Len(body[d]) >= Len(src[d].chunks)
     \/ Len(body[d]) + 1 >= Declared(file[d])
  /\ End(d, "overrun")
  /\ UNCHANGED body

Ended == {"sent", "refused", "interrupted", "overrun"}

\* net/http drops the connection unless as much was written as was declared: the
\* client takes an answer for complete exactly then.
Complete(d) == pc[d] \in Ended /\ Len(body[d]) = Declared(file[d])

-----------------------------------------------------------------------------
Next ==
  \/ \E f \in Files :
       \/ WriteNonce(f) \/ SealChunk(f) \/ StoreFile(f) \/ UploadFails(f)
       \/ DamageObject(f)
       \/ \E d \in Downloads : BeginDownload(d, f)
  \/ \E d \in Downloads :
       \/ OpenObject(d) \/ Interrupted(d)
       \/ DecryptChunk(d) \/ DecryptEnd(d) \/ DecryptRefuses(d)
       \/ CopyBlock(d) \/ CopyEnd(d)

Spec == Init /\ [][Next]_vars

-----------------------------------------------------------------------------
(* Safety.                                                                     *)

SealedChunks ==
  {Sealed(<<f, 0>>, i - 1, <<f, i>>) : f \in Files, i \in 1..Chunks} \cup {Broken}
Objects == [base : Bases, chunks : Seq(SealedChunks)]

UploadTypes ==
  /\ minio \in BOOLEAN
  /\ up \in [Files -> {"new", "sealing", "stored", "failed"}]
  /\ row \in [Files -> {"none", "encrypted", "plain"}]
  /\ damage \in Nat
  /\ damaged \subseteq Files
ObjectTypes ==
  /\ object \in [Files -> Objects]
  /\ \A f \in Files : Len(object[f].chunks) <= Chunks
DownloadTypes ==
  /\ pc \in [Downloads -> {"new", "opening", "decrypting", "copying"} \cup Ended]
  /\ file \in [Downloads -> Files \cup {Nobody}]
  /\ src \in [Downloads -> Objects]
  /\ \A d \in Downloads : pc[d] # "new" => file[d] \in Files
BodyTypes ==
  /\ body \in [Downloads -> Seq((Files \X (1..Chunks)) \cup {Ciphertext})]
  /\ \A d \in Downloads : Len(body[d]) <= Chunks

\* Types; an object and a response have at most the chunks of their file.
TypeOK == UploadTypes /\ ObjectTypes /\ DownloadTypes /\ BodyTypes

IsEncrypted(d) == file[d] \in Files /\ row[file[d]] = "encrypted"

\* aes.go on AES-GCM: no forged data. Whatever became of the object, a decrypting
\* download writes parts of one file, every one of them at most once, and nothing that
\* is no file's. Which file, and which of its parts, is up to the stored nonce.
BodyFromOneFile ==
  \A d \in Downloads : IsEncrypted(d) =>
    /\ \E f \in Files : \A i \in 1..Len(body[d]) : body[d][i] \in {f} \X (1..Chunks)
    /\ \A i, j \in 1..Len(body[d]) : body[d][i] = body[d][j] => i = j

\* The object has the nonce that EncryptStream wrote; its chunks may be anything.
HasItsNonce(d) == src[d].base = <<file[d], 0>>

\* As long as MinIO keeps the nonce, whatever becomes of the chunks, what a decrypting
\* download has written at any moment is a beginning of the file that was uploaded.
BodyIsBeginning ==
  \A d \in Downloads : IsEncrypted(d) /\ HasItsNonce(d) =>
    \A i \in 1..Len(body[d]) : body[d][i] = <<file[d], i>>

\* As long as MinIO keeps the nonce, an answer that looks complete to the client is the
\* file. DecryptStream takes an object cut between two chunks for a whole one: only the
\* declared length shows it.
CompleteIsExact ==
  \A d \in Downloads :
    IsEncrypted(d) /\ HasItsNonce(d) /\ Complete(d) => body[d] = Plaintext(file[d])

Undisturbed(d) ==
  pc[d] \in Ended \ {"interrupted"} /\ file[d] \notin damaged

\* A download that was not interrupted, of an object MinIO kept as it was, gives
\* the whole file: what EncryptStream seals, DecryptStream opens.
GoodObjectIsServed ==
  \A d \in Downloads : IsEncrypted(d) /\ Undisturbed(d) => body[d] = Plaintext(file[d])

\* README.md and ARCHITECTURE.md on is_encrypted: the same for every file.
EveryFileReadable ==
  \A d \in Downloads : Undisturbed(d) => body[d] = Plaintext(file[d])
=============================================================================
