-------------------------- MODULE FileContentProofs --------------------------
(* Proofs about FileContent, for any files, sizes, downloads and damage.        *)
(*                                                                              *)
(* The argument: a chunk opens under the nonce of one file and one counter      *)
(* only. So each chunk a download writes is the one that was sealed under the   *)
(* nonce at the head of its object XOR the position: of one file, no part of it *)
(* twice, whatever the object has become, and the next part of the right file   *)
(* when the nonce is the one EncryptStream wrote. An undamaged object is what   *)
(* EncryptStream wrote, every chunk of it opens, and a download that ends by    *)
(* itself has written all of them.                                              *)
EXTENDS FileContent, SequenceTheorems, TLAPS

SealedAs(f, chunks) == \A i \in 1..Len(chunks) : chunks[i] = Sealed(<<f, 0>>, i - 1, <<f, i>>)

\* A row is of an upload that has ended well.
RowsAreStored == \A f \in Files : row[f] # "none" => up[f] = "stored"

\* Undamaged objects are what EncryptStream has written so far.
ObjectsAsSealed ==
  \A f \in Files :
    /\ up[f] = "new" => object[f] = EmptyObject
    /\ up[f] = "sealing" => object[f].base = <<f, 0>> /\ SealedAs(f, object[f].chunks)
    /\ up[f] = "stored" /\ f \notin damaged =>
         /\ object[f].base = <<f, 0>> /\ SealedAs(f, object[f].chunks)
         /\ Len(object[f].chunks) = Chunks

\* What a decrypting download has written was sealed under the nonce at the head of
\* its object XOR the position.
Part(base, n) == <<base[1], xor(base[2], n) + 1>>

WrittenUnderNonce ==
  \A d \in Downloads : IsEncrypted(d) => \A i \in 1..Len(body[d]) :
    /\ src[d].base[1] \in Files
    /\ xor(src[d].base[2], i - 1) + 1 \in 1..Chunks
    /\ body[d][i] = Part(src[d].base, i - 1)

DownloadsHaveRows ==
  \A d \in Downloads :
    /\ file[d] \in Files => row[file[d]] # "none"
    /\ pc[d] \in {"new", "opening"} => body[d] = <<>> /\ src[d] = EmptyObject

CopiesArePlain ==
  \A d \in Downloads : pc[d] \in {"copying", "overrun"} => row[file[d]] = "plain"

SourcesAsSealed ==
  \A d \in Downloads : pc[d] \in {"decrypting", "sent"} /\ file[d] \notin damaged =>
    /\ src[d].base = <<file[d], 0>> /\ SealedAs(file[d], src[d].chunks)
    /\ Len(src[d].chunks) = Chunks

SentToTheEnd ==
  \A d \in Downloads : pc[d] = "sent" => Len(body[d]) = Len(src[d].chunks)

RefusedWasDamaged ==
  \A d \in Downloads : pc[d] = "refused" => file[d] \in damaged

IInv ==
  /\ UploadTypes /\ ObjectTypes /\ DownloadTypes /\ BodyTypes
  /\ RowsAreStored /\ ObjectsAsSealed
  /\ DownloadsHaveRows /\ CopiesArePlain /\ SourcesAsSealed
  /\ SentToTheEnd /\ RefusedWasDamaged /\ WrittenUnderNonce

USE ChunksAssumption, MaxDamageAssumption, NobodyAssumption, PlainAssumption
USE DEF uploadVars, storeVars, downloadVars, Ended, EmptyObject

\* What a change of one part of an object makes of it.
LEMMA NewNonce ==
  ASSUME NEW o \in Objects, NEW x \in Bases
  PROVE  [o EXCEPT !.base = x] \in Objects /\ [o EXCEPT !.base = x].chunks = o.chunks
BY DEF Objects

LEMMA NewChunks ==
  ASSUME NEW o \in Objects, NEW s \in Seq(SealedChunks)
  PROVE  /\ [o EXCEPT !.chunks = s] \in Objects
         /\ [o EXCEPT !.chunks = s].chunks = s /\ [o EXCEPT !.chunks = s].base = o.base
BY DEF Objects

LEMMA EmptyIsObject ==
  /\ EmptyObject \in Objects /\ EmptyObject.chunks = <<>>
  /\ EmptyObject.base = <<Nobody, 0>>
<1>1. 0 \in Counters
  BY CountersAssumption
<1>2. NoBase \in Bases
  BY <1>1 DEF NoBase, Bases
<1>3. <<>> \in Seq(SealedChunks)
  OBVIOUS
<1> QED
  BY <1>2, <1>3 DEF Objects, NoBase

\* A shorter object, or one with another chunk, is an object.
LEMMA Shorter ==
  ASSUME NEW s \in Seq(SealedChunks), NEW i \in 1..Len(s)
  PROVE  Without(s, i) \in Seq(SealedChunks) /\ Len(Without(s, i)) = Len(s) - 1
BY DEF Without

LEMMA Swapped ==
  ASSUME NEW s \in Seq(SealedChunks), NEW i \in 1..Len(s), NEW x \in SealedChunks
  PROVE  [s EXCEPT ![i] = x] \in Seq(SealedChunks) /\ Len([s EXCEPT ![i] = x]) = Len(s)
OBVIOUS

\* Whatever happens to an object in MinIO, it does not grow, and what is in it was
\* sealed some day or is broken.
LEMMA DamagedObject ==
  ASSUME IInv, NEW f \in Files, DamageObject(f)
  PROVE  \E o \in Objects :
           /\ object' = [object EXCEPT ![f] = o]
           /\ Len(o.chunks) <= Chunks
<1> DEFINE s == object[f].chunks
<1>1. /\ object[f] \in Objects /\ s \in Seq(SealedChunks)
      /\ Len(s) \in Nat /\ Len(s) <= Chunks /\ DOMAIN s = 1..Len(s)
  BY DEF IInv, ObjectTypes, Objects
<1>2. ASSUME NEW t \in Seq(SealedChunks), Len(t) <= Chunks,
             object' = [object EXCEPT ![f].chunks = t]
      PROVE  \E o \in Objects :
               /\ object' = [object EXCEPT ![f] = o]
               /\ Len(o.chunks) <= Chunks
  <2> DEFINE o == [object[f] EXCEPT !.chunks = t]
  <2>1. object' = [object EXCEPT ![f] = o]
    BY <1>2
  <2>2. o \in Objects /\ o.chunks = t /\ o.base = object[f].base
    BY <1>1, NewChunks
  <2> HIDE DEF o
  <2> QED
    BY <1>2, <2>1, <2>2
<1>3. CASE \E i \in DOMAIN s : object' = [object EXCEPT ![f].chunks = Without(@, i)]
  <2>1. PICK i \in DOMAIN s : object' = [object EXCEPT ![f].chunks = Without(s, i)]
    BY <1>3
  <2>2. Without(s, i) \in Seq(SealedChunks) /\ Len(Without(s, i)) = Len(s) - 1
    BY <1>1, Shorter
  <2>3. Len(Without(s, i)) <= Chunks
    BY <1>1, <2>2
  <2> QED
    BY <1>2, <2>1, <2>2, <2>3, Zenon
<1>4. CASE \E i \in DOMAIN s, x \in SealedChunks : object' = [object EXCEPT ![f].chunks[i] = x]
  <2>1. PICK i \in DOMAIN s, x \in SealedChunks : object' = [object EXCEPT ![f].chunks[i] = x]
    BY <1>4
  <2>2. object' = [object EXCEPT ![f].chunks = [s EXCEPT ![i] = x]]
    BY <2>1
  <2>3. [s EXCEPT ![i] = x] \in Seq(SealedChunks) /\ Len([s EXCEPT ![i] = x]) = Len(s)
    BY <1>1, Swapped
  <2> QED
    BY <1>1, <1>2, <2>2, <2>3
<1>5. CASE \E base \in Bases : object' = [object EXCEPT ![f].base = base]
  <2>1. PICK base \in Bases : object' = [object EXCEPT ![f].base = base]
    BY <1>5
  <2> DEFINE o == [object[f] EXCEPT !.base = base]
  <2>2. object' = [object EXCEPT ![f] = o]
    BY <2>1
  <2>3. o \in Objects /\ o.chunks = s
    BY <1>1, NewNonce
  <2> HIDE DEF o
  <2> QED
    BY <1>1, <2>2, <2>3
<1>6. CASE object' = [object EXCEPT ![f] = EmptyObject]
  <2>1. Len(EmptyObject.chunks) <= Chunks
    BY EmptyIsObject
  <2> QED
    BY <1>6, <2>1, EmptyIsObject, Zenon
<1>7. CASE \E g \in Files : object' = [object EXCEPT ![f] = object[g]]
  BY <1>7 DEF IInv, ObjectTypes
<1>8. Broken \in SealedChunks
  BY DEF SealedChunks
<1>9. \A g \in Files : \A j \in DOMAIN object[g].chunks : object[g].chunks[j] \in SealedChunks
  BY DEF IInv, ObjectTypes, Objects
<1> QED
  BY <1>3, <1>4, <1>5, <1>6, <1>7, <1>8, <1>9 DEF DamageObject

\* XOR with 0 changes nothing, and with anything else gives different nonces for
\* different counters.
LEMMA XorZero == ASSUME NEW n \in Counters PROVE xor(0, n) = n
BY CountersAssumption, XorAssumption

LEMMA XorInjective ==
  ASSUME NEW k \in Counters, NEW m \in Counters, NEW n \in Counters, xor(k, m) = xor(k, n)
  PROVE  m = n
BY XorAssumption

\* What SealChunk appends: part n + 1 of a file, under the nonce for n.
LEMMA SealedUnder ==
  ASSUME NEW f \in Files, NEW n \in 0..(Chunks - 1)
  PROVE  Sealed(<<f, 0>>, n, <<f, n + 1>>) = [nonce |-> <<f, n>>, plain |-> <<f, n + 1>>]
<1>1. xor(0, n) = n
  BY CountersAssumption, XorZero
<1> QED
  BY <1>1 DEF Sealed, chunkNonce

\* gcm.Open under the nonce at hand gives the part that was sealed under it or nothing.
LEMMA Opened ==
  ASSUME NEW c \in SealedChunks, NEW base \in Bases, NEW n \in Nat, Opens(c, base, n)
  PROVE  /\ base[1] \in Files /\ xor(base[2], n) + 1 \in 1..Chunks
         /\ c.plain = Part(base, n)
<1>1. PICK f \in Files, i \in 1..Chunks : c = Sealed(<<f, 0>>, i - 1, <<f, i>>)
  BY DEF SealedChunks, Opens
<1>2. i - 1 \in 0..(Chunks - 1) /\ (i - 1) + 1 = i
  OBVIOUS
<1>3. c = [nonce |-> <<f, i - 1>>, plain |-> <<f, i>>]
  BY <1>1, <1>2, SealedUnder
<1>4. c.nonce = <<base[1], xor(base[2], n)>>
  BY DEF Opens, chunkNonce
<1>5. base[1] = f /\ xor(base[2], n) = i - 1
  BY <1>3, <1>4
<1> QED
  BY <1>2, <1>3, <1>5 DEF Part

\* The next chunk that DecryptStream writes.
LEMMA NextChunk ==
  ASSUME IInv, NEW d \in Downloads, DecryptChunk(d)
  PROVE  /\ src[d].base[1] \in Files
         /\ xor(src[d].base[2], Len(body[d])) + 1 \in 1..Chunks
         /\ body' = [body EXCEPT ![d] = Append(@, Part(src[d].base, Len(body[d])))]
<1>1. /\ src[d].base \in Bases /\ Len(body[d]) \in Nat
      /\ src[d].chunks[Len(body[d]) + 1] \in SealedChunks
  BY DEF IInv, DownloadTypes, BodyTypes, DecryptChunk, NextOpens, Objects
<1>2. Opens(src[d].chunks[Len(body[d]) + 1], src[d].base, Len(body[d]))
  BY DEF DecryptChunk, NextOpens
<1>3. /\ src[d].base[1] \in Files /\ xor(src[d].base[2], Len(body[d])) + 1 \in 1..Chunks
      /\ src[d].chunks[Len(body[d]) + 1].plain = Part(src[d].base, Len(body[d]))
  BY <1>1, <1>2, Opened
<1> QED
  BY <1>3 DEF DecryptChunk

\* Nothing is uploaded or downloaded yet.
LEMMA InitIInv == Init => IInv
<1> SUFFICES ASSUME Init PROVE IInv
  OBVIOUS
<1>1. UploadTypes /\ ObjectTypes /\ DownloadTypes
  BY EmptyIsObject DEF Init, UploadTypes, ObjectTypes, DownloadTypes
<1>2. BodyTypes
  BY DEF Init, BodyTypes
<1>3. \A d \in Downloads : file[d] = Nobody /\ pc[d] = "new"
  BY DEF Init
<1> QED
  BY <1>1, <1>2, <1>3, EmptyIsObject
  DEF Init, IInv, RowsAreStored, ObjectsAsSealed,
      DownloadsHaveRows, CopiesArePlain, SourcesAsSealed, SentToTheEnd,
      RefusedWasDamaged, WrittenUnderNonce, IsEncrypted

\* Every step of an upload, of MinIO and of a download keeps IInv: first the parts
\* the step leaves as they were or keeps by themselves, then the others.
LEMMA StepIInv == IInv /\ [Next]_vars => IInv'
<1> SUFFICES ASSUME IInv, [Next]_vars PROVE IInv'
  OBVIOUS
<1>1. ASSUME NEW f \in Files, WriteNonce(f) PROVE IInv'
  <2>1. /\ UploadTypes' /\ DownloadTypes' /\ BodyTypes' /\ RowsAreStored'
       /\ DownloadsHaveRows' /\ CopiesArePlain'
       /\ SourcesAsSealed' /\ SentToTheEnd' /\ RefusedWasDamaged'
       /\ WrittenUnderNonce'
    BY <1>1
    DEF IInv, UploadTypes, DownloadTypes, BodyTypes, RowsAreStored,
        DownloadsHaveRows, CopiesArePlain, SourcesAsSealed, SentToTheEnd,
        RefusedWasDamaged, WrittenUnderNonce, IsEncrypted, SealedAs, WriteNonce
  <2>2. ObjectTypes'
    <3>1. object[f] \in Objects
      BY DEF IInv, ObjectTypes
    <3>2. /\ [object[f] EXCEPT !.base = <<f, 0>>] \in Objects
          /\ [object[f] EXCEPT !.base = <<f, 0>>].chunks = object[f].chunks
      <4>1. <<f, 0>> \in Bases
        BY CountersAssumption DEF Bases
      <4> QED
        BY <3>1, <4>1, NewNonce
    <3>3. object' = [object EXCEPT ![f] = [object[f] EXCEPT !.base = <<f, 0>>]]
      BY <1>1 DEF WriteNonce
    <3> QED
      BY <3>2, <3>3 DEF IInv, ObjectTypes
  <2>3. ObjectsAsSealed'
    BY <1>1
    DEF IInv, UploadTypes, ObjectTypes, DownloadTypes, BodyTypes,
        ObjectsAsSealed, SealedAs, WriteNonce
  <2> QED BY <2>1, <2>2, <2>3 DEF IInv
<1>2. ASSUME NEW f \in Files, SealChunk(f) PROVE IInv'
  <2>1. /\ UploadTypes' /\ DownloadTypes' /\ BodyTypes' /\ RowsAreStored'
       /\ DownloadsHaveRows' /\ CopiesArePlain'
       /\ SourcesAsSealed' /\ SentToTheEnd' /\ RefusedWasDamaged'
       /\ WrittenUnderNonce'
    BY <1>2
    DEF IInv, UploadTypes, DownloadTypes, BodyTypes, RowsAreStored,
        DownloadsHaveRows, CopiesArePlain, SourcesAsSealed, SentToTheEnd,
        RefusedWasDamaged, WrittenUnderNonce, IsEncrypted, SealedAs, SealChunk
  <2>2. ObjectTypes'
    <3> DEFINE n == Len(object[f].chunks)
               c == Sealed(<<f, 0>>, n, <<f, n + 1>>)
               s == Append(object[f].chunks, c)
    <3>1. object[f] \in Objects /\ n \in Nat /\ n < Chunks
      BY <1>2 DEF IInv, ObjectTypes, Objects, SealChunk
    <3>2. c \in SealedChunks
      <4>1. n + 1 \in 1..Chunks /\ n = (n + 1) - 1
        BY <3>1
      <4> HIDE DEF n
      <4> QED
        BY <4>1 DEF SealedChunks
    <3>3. s \in Seq(SealedChunks) /\ Len(s) = n + 1
      BY <3>1, <3>2 DEF Objects
    <3>4. object' = [object EXCEPT ![f] = [object[f] EXCEPT !.chunks = s]]
      BY <1>2 DEF IInv, ObjectsAsSealed, SealChunk
    <3>5. /\ [object[f] EXCEPT !.chunks = s] \in Objects
          /\ [object[f] EXCEPT !.chunks = s].chunks = s
      BY <3>1, <3>3, NewChunks
    <3> HIDE DEF n, c, s
    <3> QED
      BY <3>1, <3>3, <3>4, <3>5 DEF IInv, ObjectTypes
  <2>3. ObjectsAsSealed'
    BY <1>2 DEF IInv, RowsAreStored, ObjectsAsSealed, SealedAs, SealChunk
  <2> QED BY <2>1, <2>2, <2>3 DEF IInv
<1>3. ASSUME NEW f \in Files, StoreFile(f) PROVE IInv'
  <2>1. /\ UploadTypes' /\ ObjectTypes' /\ DownloadTypes' /\ BodyTypes'
       /\ ObjectsAsSealed' /\ DownloadsHaveRows'
       /\ SourcesAsSealed' /\ SentToTheEnd' /\ RefusedWasDamaged'
    BY <1>3
    DEF IInv, UploadTypes, ObjectTypes, DownloadTypes, BodyTypes,
        ObjectsAsSealed, DownloadsHaveRows, SourcesAsSealed,
        SentToTheEnd, RefusedWasDamaged, SealedAs, StoreFile
  <2>2. RowsAreStored'
    BY <1>3
    DEF IInv, UploadTypes, ObjectTypes, DownloadTypes, BodyTypes,
        RowsAreStored, StoreFile
  <2>3. CopiesArePlain'
    BY <1>3
    DEF IInv, UploadTypes, ObjectTypes, DownloadTypes, BodyTypes,
        RowsAreStored, DownloadsHaveRows, CopiesArePlain, StoreFile
  <2>4. WrittenUnderNonce'
    BY <1>3
    DEF IInv, UploadTypes, ObjectTypes, DownloadTypes, BodyTypes,
        RowsAreStored, DownloadsHaveRows, CopiesArePlain, WrittenUnderNonce,
        IsEncrypted, StoreFile
  <2> QED BY <2>1, <2>2, <2>3, <2>4 DEF IInv
<1>4. ASSUME NEW f \in Files, UploadFails(f) PROVE IInv'
  <2>1. /\ UploadTypes' /\ DownloadTypes' /\ BodyTypes' /\ RowsAreStored'
       /\ DownloadsHaveRows' /\ CopiesArePlain'
       /\ SourcesAsSealed' /\ SentToTheEnd' /\ RefusedWasDamaged'
       /\ WrittenUnderNonce'
    BY <1>4
    DEF IInv, UploadTypes, DownloadTypes, BodyTypes, RowsAreStored,
        DownloadsHaveRows, CopiesArePlain, SourcesAsSealed, SentToTheEnd,
        RefusedWasDamaged, WrittenUnderNonce, IsEncrypted, SealedAs, UploadFails
  <2>2. ObjectTypes'
    BY <1>4, EmptyIsObject DEF IInv, ObjectTypes, UploadFails
  <2>3. ObjectsAsSealed'
    BY <1>4
    DEF IInv, UploadTypes, ObjectTypes, DownloadTypes, BodyTypes,
        ObjectsAsSealed, SealedAs, UploadFails
  <2> QED BY <2>1, <2>2, <2>3 DEF IInv
<1>5. ASSUME NEW f \in Files, DamageObject(f) PROVE IInv'
  <2>1. /\ UploadTypes' /\ DownloadTypes' /\ BodyTypes' /\ RowsAreStored'
       /\ DownloadsHaveRows' /\ CopiesArePlain' /\ SourcesAsSealed'
       /\ SentToTheEnd' /\ RefusedWasDamaged' /\ WrittenUnderNonce'
    BY <1>5
    DEF IInv, UploadTypes, DownloadTypes, BodyTypes, RowsAreStored,
        DownloadsHaveRows, CopiesArePlain, SourcesAsSealed, SentToTheEnd,
        RefusedWasDamaged, WrittenUnderNonce, IsEncrypted, SealedAs,
        DamageObject
  <2>2. ObjectTypes'
    BY <1>5, DamagedObject DEF IInv, ObjectTypes
  <2>3. ObjectsAsSealed'
    BY <1>5
    DEF IInv, UploadTypes, ObjectTypes, DownloadTypes, BodyTypes,
        ObjectsAsSealed, SealedAs, DamageObject
  <2> QED BY <2>1, <2>2, <2>3 DEF IInv
<1>6. ASSUME NEW d \in Downloads, NEW f \in Files, BeginDownload(d, f) PROVE IInv'
  <2>1. /\ UploadTypes' /\ ObjectTypes' /\ DownloadTypes' /\ BodyTypes'
       /\ RowsAreStored' /\ ObjectsAsSealed' /\ DownloadsHaveRows'
       /\ CopiesArePlain' /\ SourcesAsSealed' /\ SentToTheEnd'
       /\ RefusedWasDamaged'
    BY <1>6
    DEF IInv, UploadTypes, ObjectTypes, DownloadTypes, BodyTypes,
        RowsAreStored, ObjectsAsSealed, DownloadsHaveRows, CopiesArePlain,
        SourcesAsSealed, SentToTheEnd, RefusedWasDamaged, SealedAs,
        BeginDownload
  <2>2. WrittenUnderNonce'
    BY <1>6
    DEF IInv, UploadTypes, ObjectTypes, DownloadTypes, BodyTypes,
        RowsAreStored, DownloadsHaveRows, CopiesArePlain, WrittenUnderNonce,
        IsEncrypted, BeginDownload
  <2> QED BY <2>1, <2>2 DEF IInv
<1>7. ASSUME NEW d \in Downloads, OpenObject(d) PROVE IInv'
  <2>1. /\ UploadTypes' /\ ObjectTypes' /\ BodyTypes' /\ RowsAreStored'
       /\ ObjectsAsSealed' /\ SentToTheEnd' /\ RefusedWasDamaged'
    BY <1>7
    DEF IInv, UploadTypes, ObjectTypes, BodyTypes, RowsAreStored,
        ObjectsAsSealed, SentToTheEnd, RefusedWasDamaged, SealedAs, OpenObject
  <2>2. DownloadTypes'
    BY <1>7
    DEF IInv, UploadTypes, ObjectTypes, DownloadTypes, BodyTypes, OpenObject
  <2>3. DownloadsHaveRows'
    BY <1>7
    DEF IInv, UploadTypes, ObjectTypes, DownloadTypes, BodyTypes,
        DownloadsHaveRows, OpenObject
  <2>4. CopiesArePlain'
    BY <1>7
    DEF IInv, UploadTypes, ObjectTypes, DownloadTypes, BodyTypes,
        RowsAreStored, DownloadsHaveRows, CopiesArePlain, OpenObject
  <2>5. SourcesAsSealed'
    BY <1>7
    DEF IInv, UploadTypes, ObjectTypes, DownloadTypes, BodyTypes,
        RowsAreStored, ObjectsAsSealed, DownloadsHaveRows, CopiesArePlain,
        SourcesAsSealed, SealedAs, OpenObject
  <2>6. WrittenUnderNonce'
    <3>1. Len(body[d]) = 0
      BY <1>7 DEF IInv, DownloadsHaveRows, OpenObject
    <3>2. /\ UNCHANGED <<body, row, file>>
          /\ \A e \in Downloads : e # d => src'[e] = src[e]
      BY <1>7 DEF IInv, DownloadTypes, OpenObject
    <3> QED
      BY <3>1, <3>2 DEF IInv, WrittenUnderNonce, IsEncrypted
  <2> QED BY <2>1, <2>2, <2>3, <2>4, <2>5, <2>6 DEF IInv
<1>8. ASSUME NEW d \in Downloads, Interrupted(d) PROVE IInv'
  <2>1. /\ UploadTypes' /\ ObjectTypes' /\ DownloadTypes' /\ BodyTypes'
       /\ RowsAreStored' /\ ObjectsAsSealed'
       /\ DownloadsHaveRows' /\ CopiesArePlain' /\ SourcesAsSealed'
       /\ SentToTheEnd' /\ RefusedWasDamaged' /\ WrittenUnderNonce'
    BY <1>8
    DEF IInv, UploadTypes, ObjectTypes, DownloadTypes, BodyTypes,
        RowsAreStored, ObjectsAsSealed, DownloadsHaveRows,
        CopiesArePlain, SourcesAsSealed, SentToTheEnd, RefusedWasDamaged,
        WrittenUnderNonce, IsEncrypted, SealedAs, Interrupted, End
  <2> QED BY <2>1 DEF IInv
<1>9. ASSUME NEW d \in Downloads, DecryptChunk(d) PROVE IInv'
  <2>1. /\ UploadTypes' /\ ObjectTypes' /\ DownloadTypes' /\ RowsAreStored'
       /\ ObjectsAsSealed' /\ DownloadsHaveRows'
       /\ CopiesArePlain' /\ SourcesAsSealed' /\ SentToTheEnd'
       /\ RefusedWasDamaged'
    BY <1>9
    DEF IInv, UploadTypes, ObjectTypes, DownloadTypes, RowsAreStored,
        ObjectsAsSealed, DownloadsHaveRows, CopiesArePlain,
        SourcesAsSealed, SentToTheEnd, RefusedWasDamaged, SealedAs,
        DecryptChunk, Declared
  <2> DEFINE n == Len(body[d])
             part == Part(src[d].base, n)
  <2>2. /\ body[d] \in Seq((Files \X (1..Chunks)) \cup {Ciphertext})
        /\ n \in Nat /\ n < Chunks
    BY <1>9 DEF IInv, BodyTypes, DecryptChunk, Declared
  <2>3. /\ src[d].base[1] \in Files /\ xor(src[d].base[2], n) + 1 \in 1..Chunks
        /\ body' = [body EXCEPT ![d] = Append(@, part)]
    BY <1>9, NextChunk
  <2>4. part \in Files \X (1..Chunks)
    BY <2>3 DEF Part
  <2>5. /\ body'[d] = Append(body[d], part)
        /\ \A e \in Downloads : e # d => body'[e] = body[e]
    BY <2>3 DEF IInv, BodyTypes
  <2>6. UNCHANGED <<row, file, src>>
    BY <1>9 DEF DecryptChunk
  <2> HIDE DEF part
  <2>7. BodyTypes'
    BY <2>2, <2>3, <2>4, <2>5 DEF IInv, BodyTypes
  <2>8. WrittenUnderNonce'
    <3>1. ASSUME IsEncrypted(d), NEW i \in 1..Len(body'[d])
          PROVE  /\ src[d].base[1] \in Files
                 /\ xor(src[d].base[2], i - 1) + 1 \in 1..Chunks
                 /\ body'[d][i] = Part(src[d].base, i - 1)
      <4>1. CASE i = n + 1
        <5>1. i - 1 = n /\ body'[d][i] = part
          BY <2>2, <2>4, <2>5, <4>1
        <5> QED
          BY <2>3, <5>1 DEF part
      <4>2. CASE i # n + 1
        <5>1. i \in 1..n /\ body'[d][i] = body[d][i]
          BY <2>2, <2>4, <2>5, <4>2
        <5> QED
          BY <3>1, <5>1 DEF IInv, WrittenUnderNonce
      <4> QED
        BY <4>1, <4>2
    <3> QED
      BY <2>5, <2>6, <3>1 DEF IInv, WrittenUnderNonce, IsEncrypted
  <2> QED BY <2>1, <2>7, <2>8 DEF IInv
<1>10. ASSUME NEW d \in Downloads, DecryptEnd(d) PROVE IInv'
  <2>1. /\ UploadTypes' /\ ObjectTypes' /\ DownloadTypes' /\ BodyTypes'
       /\ RowsAreStored' /\ ObjectsAsSealed'
       /\ DownloadsHaveRows' /\ CopiesArePlain' /\ SourcesAsSealed'
       /\ SentToTheEnd' /\ RefusedWasDamaged' /\ WrittenUnderNonce'
    BY <1>10
    DEF IInv, UploadTypes, ObjectTypes, DownloadTypes, BodyTypes,
        RowsAreStored, ObjectsAsSealed, DownloadsHaveRows,
        CopiesArePlain, SourcesAsSealed, SentToTheEnd, RefusedWasDamaged,
        WrittenUnderNonce, IsEncrypted, SealedAs, DecryptEnd, End
  <2> QED BY <2>1 DEF IInv
<1>11. ASSUME NEW d \in Downloads, DecryptRefuses(d) PROVE IInv'
  <2>1. /\ UploadTypes' /\ ObjectTypes' /\ DownloadTypes' /\ BodyTypes'
       /\ RowsAreStored' /\ ObjectsAsSealed'
       /\ DownloadsHaveRows' /\ CopiesArePlain' /\ SourcesAsSealed'
       /\ SentToTheEnd' /\ WrittenUnderNonce'
    BY <1>11
    DEF IInv, UploadTypes, ObjectTypes, DownloadTypes, BodyTypes,
        RowsAreStored, ObjectsAsSealed, DownloadsHaveRows,
        CopiesArePlain, SourcesAsSealed, SentToTheEnd, WrittenUnderNonce,
        IsEncrypted, SealedAs, DecryptRefuses, End, NextOpens, Opens
  <2>2. RefusedWasDamaged'
    <3>1. ASSUME file[d] \notin damaged PROVE FALSE
      <4> DEFINE n == Len(body[d])
      <4>1. /\ pc[d] = "decrypting" /\ src[d].base = <<file[d], 0>>
            /\ SealedAs(file[d], src[d].chunks) /\ Len(src[d].chunks) = Chunks
            /\ file[d] \in Files
        BY <1>11, <3>1 DEF IInv, DownloadTypes, SourcesAsSealed, DecryptRefuses
      <4>2. src[d] # EmptyObject
        BY <4>1, EmptyIsObject
      <4>3. n \in Nat /\ n < Chunks /\ ~NextOpens(d)
        BY <1>11, <4>1, <4>2 DEF IInv, BodyTypes, DecryptRefuses
      <4>4. src[d].chunks[n + 1] = Sealed(<<file[d], 0>>, n, <<file[d], n + 1>>)
        <5>1. n + 1 \in 1..Len(src[d].chunks) /\ (n + 1) - 1 = n
          BY <4>1, <4>3
        <5> QED
          BY <4>1, <5>1 DEF SealedAs
      <4>5. src[d].chunks[n + 1] # Broken
        BY <4>1, <4>4 DEF Sealed, Broken, Ciphertext
      <4>6. Opens(src[d].chunks[n + 1], src[d].base, n)
        BY <4>1, <4>4, <4>5 DEF Opens, Sealed
      <4> QED
        BY <4>1, <4>3, <4>6 DEF NextOpens
    <3>2. \A e \in Downloads : e # d => pc'[e] = pc[e]
      BY <1>11 DEF IInv, DownloadTypes, DecryptRefuses, End
    <3>3. UNCHANGED <<file, damaged>>
      BY <1>11 DEF DecryptRefuses, End
    <3> QED
      BY <3>1, <3>2, <3>3 DEF IInv, RefusedWasDamaged
  <2> QED BY <2>1, <2>2 DEF IInv
<1>12. ASSUME NEW d \in Downloads, CopyBlock(d) PROVE IInv'
  <2>1. /\ UploadTypes' /\ ObjectTypes' /\ DownloadTypes' /\ BodyTypes'
       /\ RowsAreStored' /\ ObjectsAsSealed'
       /\ DownloadsHaveRows' /\ CopiesArePlain' /\ SourcesAsSealed'
       /\ SentToTheEnd' /\ RefusedWasDamaged'
    BY <1>12
    DEF IInv, UploadTypes, ObjectTypes, DownloadTypes, BodyTypes,
        RowsAreStored, ObjectsAsSealed, DownloadsHaveRows,
        CopiesArePlain, SourcesAsSealed, SentToTheEnd, RefusedWasDamaged,
        SealedAs, CopyBlock, Declared
  <2>2. WrittenUnderNonce'
    BY <1>12
    DEF IInv, UploadTypes, ObjectTypes, DownloadTypes, BodyTypes,
        RowsAreStored, DownloadsHaveRows, CopiesArePlain, WrittenUnderNonce,
        IsEncrypted, CopyBlock, Declared
  <2> QED BY <2>1, <2>2 DEF IInv
<1>13. ASSUME NEW d \in Downloads, CopyEnd(d) PROVE IInv'
  <2>1. /\ UploadTypes' /\ ObjectTypes' /\ DownloadTypes' /\ BodyTypes'
       /\ RowsAreStored' /\ ObjectsAsSealed'
       /\ DownloadsHaveRows' /\ CopiesArePlain' /\ SourcesAsSealed'
       /\ SentToTheEnd' /\ RefusedWasDamaged' /\ WrittenUnderNonce'
    BY <1>13
    DEF IInv, UploadTypes, ObjectTypes, DownloadTypes, BodyTypes,
        RowsAreStored, ObjectsAsSealed, DownloadsHaveRows,
        CopiesArePlain, SourcesAsSealed, SentToTheEnd, RefusedWasDamaged,
        WrittenUnderNonce, IsEncrypted, SealedAs, CopyEnd, Declared, End
  <2> QED BY <2>1 DEF IInv
<1>14. CASE UNCHANGED vars
  BY <1>14
  DEF IInv, UploadTypes, ObjectTypes, DownloadTypes, BodyTypes, RowsAreStored,
      ObjectsAsSealed, DownloadsHaveRows, CopiesArePlain,
      SourcesAsSealed, SentToTheEnd, RefusedWasDamaged, WrittenUnderNonce,
      IsEncrypted, SealedAs, vars
<1> QED BY <1>1, <1>2, <1>3, <1>4, <1>5, <1>6, <1>7, <1>8, <1>9, <1>10, <1>11,
    <1>12, <1>13, <1>14
  DEF Next

\* IInv holds in every reachable state.
LEMMA Inductive == Spec => []IInv
<1> QED
  BY InitIInv, StepIInv, PTL DEF Spec

\* The variables keep their types, and no object or response outgrows its file.
THEOREM TypeCorrect == Spec => []TypeOK
<1>1. IInv => TypeOK
  BY DEF IInv, TypeOK
<1> QED
  BY <1>1, Inductive, PTL

\* AES.DecryptStream: whatever MinIO makes of its objects, nonces included, a download
\* writes parts of one file, each at most once.
THEOREM DecryptedIsOneFile == Spec => []BodyFromOneFile
<1>1. IInv => BodyFromOneFile
  <2> SUFFICES ASSUME IInv, NEW d \in Downloads, IsEncrypted(d)
               PROVE  /\ \E f \in Files : \A i \in 1..Len(body[d]) :
                           body[d][i] \in {f} \X (1..Chunks)
                      /\ \A i, j \in 1..Len(body[d]) : body[d][i] = body[d][j] => i = j
    BY DEF BodyFromOneFile
  <2> DEFINE base == src[d].base
  <2>1. /\ \A i \in 1..Len(body[d]) :
             /\ base[1] \in Files
             /\ xor(base[2], i - 1) + 1 \in 1..Chunks
             /\ body[d][i] = Part(base, i - 1)
        /\ file[d] \in Files
    BY DEF IInv, WrittenUnderNonce, IsEncrypted
  <2>2. \E f \in Files : \A i \in 1..Len(body[d]) : body[d][i] \in {f} \X (1..Chunks)
    <3>1. CASE Len(body[d]) = 0
      BY <2>1, <3>1
    <3>2. CASE Len(body[d]) # 0
      <4>1. 1 \in 1..Len(body[d])
        BY <3>2 DEF IInv, BodyTypes
      <4>2. base[1] \in Files
        BY <2>1, <4>1
      <4>3. \A i \in 1..Len(body[d]) : body[d][i] \in {base[1]} \X (1..Chunks)
        <5> SUFFICES ASSUME NEW i \in 1..Len(body[d])
                     PROVE  body[d][i] \in {base[1]} \X (1..Chunks)
          OBVIOUS
        <5>1. /\ body[d][i] = <<base[1], xor(base[2], i - 1) + 1>>
              /\ xor(base[2], i - 1) + 1 \in 1..Chunks
          BY <2>1 DEF Part
        <5> HIDE DEF base
        <5> QED
          BY <5>1
      <4> QED
        BY <4>2, <4>3
    <3> QED
      BY <3>1, <3>2
  <2>3. ASSUME NEW i \in 1..Len(body[d]), NEW j \in 1..Len(body[d]), body[d][i] = body[d][j]
        PROVE  i = j
    <3>1. base[2] \in Counters
      BY DEF IInv, DownloadTypes, Objects, Bases
    <3>2. i - 1 \in Counters /\ j - 1 \in Counters
      BY CountersAssumption DEF IInv, BodyTypes
    <3>3. xor(base[2], i - 1) + 1 = xor(base[2], j - 1) + 1
      BY <2>1, <2>3 DEF Part
    <3>4. xor(base[2], i - 1) \in Nat /\ xor(base[2], j - 1) \in Nat
      BY <3>1, <3>2, CountersAssumption, XorAssumption
    <3>5. i - 1 = j - 1
      BY <3>1, <3>2, <3>3, <3>4, XorInjective
    <3> QED
      BY <3>5
  <2> QED
    BY <2>2, <2>3
<1> QED
  BY <1>1, Inductive, PTL

\* The parts that are sealed under the base of a file itself come in their order.
LEMMA Beginning == IInv => BodyIsBeginning
<1> SUFFICES ASSUME IInv, NEW d \in Downloads, IsEncrypted(d), HasItsNonce(d),
                    NEW i \in 1..Len(body[d])
             PROVE  body[d][i] = <<file[d], i>>
  BY DEF BodyIsBeginning
<1>1. body[d][i] = <<file[d], xor(0, i - 1) + 1>>
  BY DEF IInv, WrittenUnderNonce, HasItsNonce, Part
<1>2. i - 1 \in Counters
  BY CountersAssumption DEF IInv, BodyTypes
<1>3. xor(0, i - 1) = i - 1
  BY <1>2, XorZero
<1> QED
  BY <1>1, <1>3

\* AES.DecryptStream: under the nonce EncryptStream wrote, what a download has written
\* is a beginning of the file, whatever was lost, altered, moved or cut in MinIO.
THEOREM DecryptedIsGenuine == Spec => []BodyIsBeginning
<1> QED
  BY Beginning, Inductive, PTL

\* FileHandler.Download: under that nonce an answer of the declared length is the file.
THEOREM CompleteAnswersAreExact == Spec => []CompleteIsExact
<1>1. IInv => CompleteIsExact
  <2> SUFFICES ASSUME IInv, NEW d \in Downloads,
                      IsEncrypted(d), HasItsNonce(d), Complete(d)
               PROVE  body[d] = Plaintext(file[d])
    BY DEF CompleteIsExact
  <2>1. body[d] \in Seq((Files \X (1..Chunks)) \cup {Ciphertext})
    BY DEF IInv, BodyTypes
  <2>2. \A i \in 1..Len(body[d]) : body[d][i] = <<file[d], i>>
    BY Beginning DEF BodyIsBeginning
  <2>3. Len(body[d]) = Chunks
    BY DEF Complete, Declared
  <2>4. body[d] \in [1..Chunks -> (Files \X (1..Chunks)) \cup {Ciphertext}]
    BY <2>1, <2>3, LenProperties
  <2> QED
    BY <2>2, <2>3, <2>4 DEF Plaintext
<1> QED
  BY <1>1, Inductive, PTL

\* AES.EncryptStream and DecryptStream: the round trip gives the whole file.
THEOREM UndamagedIsServed == Spec => []GoodObjectIsServed
<1>1. IInv => GoodObjectIsServed
  <2> SUFFICES ASSUME IInv, NEW d \in Downloads, IsEncrypted(d), Undisturbed(d)
               PROVE  body[d] = Plaintext(file[d])
    BY DEF GoodObjectIsServed
  <2>1. body[d] \in Seq((Files \X (1..Chunks)) \cup {Ciphertext})
    BY DEF IInv, BodyTypes
  <2>2. pc[d] = "sent" /\ file[d] \notin damaged
    <3>1. pc[d] \in {"sent", "refused", "overrun"} /\ file[d] \notin damaged
      BY DEF Undisturbed
    <3> QED
      BY <3>1 DEF IInv, RefusedWasDamaged, CopiesArePlain, IsEncrypted
  <2>3. Len(body[d]) = Chunks /\ HasItsNonce(d)
    BY <2>2 DEF IInv, SentToTheEnd, SourcesAsSealed, HasItsNonce
  <2>4. \A i \in 1..Len(body[d]) : body[d][i] = <<file[d], i>>
    BY <2>3, Beginning DEF BodyIsBeginning
  <2>5. body[d] \in [1..Chunks -> (Files \X (1..Chunks)) \cup {Ciphertext}]
    BY <2>1, <2>3, LenProperties
  <2> QED
    BY <2>3, <2>5, <2>4 DEF Plaintext
<1> QED
  BY <1>1, Inductive, PTL
=============================================================================
