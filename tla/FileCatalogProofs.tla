-------------------------- MODULE FileCatalogProofs --------------------------
(* Proofs about FileCatalog, for every number of users, directories, files and *)
(* concurrent calls, and whatever fails.                                       *)
(*                                                                             *)
(* The argument: ids are drawn once, so what was checked of a parent before    *)
(* the INSERT still holds of its owner, and the foreign key covers the rest; a *)
(* cascade takes away a set of directories that is closed under parent_id, so  *)
(* that nothing left behind points into it; and the row of a file goes from    *)
(* live to deleted in one conditional statement, once.                         *)
EXTENDS FileCatalog, TLAPS

USE DEF Live, dirVars, fileVars, upVars, delVars, callVars,
  FileSteps, DirSteps, GetSteps, BeforeInsert, Uploading, Answers,
  InsertBegins, InsertEnds

\* Empty tables satisfy everything.
LEMMA InitIInv == Init => IInv
BY DEF Init, IInv, TypeOK, DirsChecked, FilesStored, TreesOfOneUser,
  NoCycles, RowsHaveDirectory, SubdirNamesUnique,
  OneDeletionEvent, ObjectForStream, ReadsSettled, ContentsAreOwn

\* What a cascade removes is closed: a directory whose parent goes, goes too.
LEMMA SubtreeClosed ==
  ASSUME NEW d, NEW e \in dirs, parent[e] \in Subtree(d)
  PROVE  e \in Subtree(d)
BY DEF Subtree

\* Every step of a request, of a publishing goroutine, of the consumer and of the
\* process keeps IInv: first the parts the step does not touch, then the others.
LEMMA StepIInv == IInv /\ [Next]_vars => IInv'
<1> SUFFICES ASSUME IInv, [Next]_vars PROVE IInv'
  OBVIOUS
<1>1. ASSUME NEW d \in Dirs, NEW p \in Dirs \cup {Root}, BeginCreateDir(d, p) PROVE IInv'
  <2>1. /\ FilesStored' /\ RowsHaveDirectory' /\ OneDeletionEvent'
       /\ ObjectForStream'
    BY <1>1 DEF IInv, FilesStored, RowsHaveDirectory, OneDeletionEvent,
        ObjectForStream, BeginCreateDir
  <2>2. TypeOK'
    BY <1>1 DEF IInv, TypeOK, BeginCreateDir
  <2>3. DirsChecked'
    BY <1>1 DEF IInv, TypeOK, DirsChecked, BeginCreateDir
  <2>4. TreesOfOneUser'
    BY <1>1 DEF IInv, TypeOK, TreesOfOneUser, DirsChecked, BeginCreateDir
  <2>5. SubdirNamesUnique'
    BY <1>1 DEF IInv, TypeOK, SubdirNamesUnique, DirsChecked, BeginCreateDir
  <2>6. ReadsSettled'
    BY <1>1 DEF IInv, TypeOK, ReadsSettled, BeginCreateDir
  <2>7. ContentsAreOwn'
    BY <1>1 DEF IInv, TypeOK, ContentsAreOwn, ReadsSettled, BeginCreateDir
  <2>8. NoCycles'
    <3> SUFFICES ASSUME NEW S \in SUBSET dirs, S # {} PROVE \E e \in S : parent'[e] \notin S
      BY <1>1 DEF NoCycles, BeginCreateDir
    <3>1. PICK e \in S : parent[e] \notin S
      BY DEF IInv, NoCycles
    <3>2. parent'[e] = parent[e]
      BY <1>1 DEF IInv, TypeOK, DirsChecked, BeginCreateDir
    <3> QED BY <3>1, <3>2
  <2> QED BY <2>1, <2>2, <2>3, <2>4, <2>5, <2>6, <2>7, <2>8 DEF IInv
<1>2. ASSUME NEW d \in Dirs, InsertDir(d) PROVE IInv'
  <2>1. /\ FilesStored' /\ OneDeletionEvent' /\ ObjectForStream'
       /\ ContentsAreOwn'
    BY <1>2 DEF IInv, FilesStored, OneDeletionEvent, ObjectForStream,
        ContentsAreOwn, InsertDir
  <2>2. TypeOK'
    BY <1>2 DEF IInv, TypeOK, InsertDir, NameTaken
  <2>3. DirsChecked'
    BY <1>2 DEF IInv, TypeOK, DirsChecked, InsertDir, NameTaken
  <2>4. TreesOfOneUser'
    BY <1>2 DEF IInv, TypeOK, TreesOfOneUser, DirsChecked, InsertDir,
        NameTaken
  <2>5. RowsHaveDirectory'
    BY <1>2 DEF IInv, TypeOK, RowsHaveDirectory, InsertDir, NameTaken
  <2>6. SubdirNamesUnique'
    BY <1>2 DEF IInv, TypeOK, SubdirNamesUnique, DirsChecked, InsertDir,
        NameTaken
  <2>7. ReadsSettled'
    BY <1>2 DEF IInv, TypeOK, ReadsSettled, InsertDir, NameTaken
  <2>8. NoCycles'
    <3> SUFFICES ASSUME NEW S \in SUBSET dirs', S # {} PROVE \E e \in S : parent[e] \notin S
      BY <1>2 DEF NoCycles, InsertDir
    <3>1. S \ {d} \subseteq dirs /\ d \notin dirs
      BY <1>2 DEF IInv, DirsChecked, InsertDir
    <3>2. CASE S \ {d} = {}
      <4>1. d \in S /\ d \in dirs'
        BY <3>2
      <4>2. parent[d] = Root \/ parent[d] \in dirs
        BY <1>2, <3>1, <4>1 DEF InsertDir
      <4> QED BY <3>1, <3>2, <4>1, <4>2, RootAssumption
    <3>3. CASE S \ {d} # {}
      <4>1. PICK e \in S \ {d} : parent[e] \notin S \ {d}
        BY <3>1, <3>3 DEF IInv, NoCycles
      <4>2. parent[e] = Root \/ parent[e] \in dirs
        BY <3>1 DEF IInv, TreesOfOneUser
      <4> QED BY <3>1, <4>1, <4>2, RootAssumption
    <3> QED BY <3>2, <3>3
  <2> QED BY <2>1, <2>2, <2>3, <2>4, <2>5, <2>6, <2>7, <2>8 DEF IInv
<1>3. ASSUME NEW d \in Dirs, InsertDirFails(d) PROVE IInv'
  <2>1. /\ FilesStored' /\ TreesOfOneUser' /\ RowsHaveDirectory'
       /\ SubdirNamesUnique' /\ OneDeletionEvent' /\ ObjectForStream' /\ ContentsAreOwn' /\ NoCycles'
    BY <1>3 DEF IInv, FilesStored, TreesOfOneUser, RowsHaveDirectory,
        SubdirNamesUnique, OneDeletionEvent, ObjectForStream, ContentsAreOwn,
        NoCycles, InsertDirFails
  <2>2. TypeOK'
    BY <1>3 DEF IInv, TypeOK, InsertDirFails
  <2>3. DirsChecked'
    BY <1>3 DEF IInv, TypeOK, DirsChecked, InsertDirFails
  <2>4. ReadsSettled'
    BY <1>3 DEF IInv, TypeOK, ReadsSettled, InsertDirFails
  <2> QED BY <2>1, <2>2, <2>3, <2>4 DEF IInv
<1>4. ASSUME NEW f \in Files, NEW d \in Dirs, PutObject(f, d) PROVE IInv'
  <2>1. /\ DirsChecked' /\ TreesOfOneUser' /\ SubdirNamesUnique'
       /\ OneDeletionEvent' /\ NoCycles'
    BY <1>4 DEF IInv, DirsChecked, TreesOfOneUser, SubdirNamesUnique,
        OneDeletionEvent, NoCycles, PutObject
  <2>2. TypeOK'
    BY <1>4 DEF IInv, TypeOK, PutObject
  <2>3. FilesStored'
    BY <1>4 DEF IInv, TypeOK, FilesStored, PutObject
  <2>4. RowsHaveDirectory'
    BY <1>4 DEF IInv, TypeOK, RowsHaveDirectory, FilesStored, PutObject
  <2>5. ObjectForStream'
    BY <1>4 DEF IInv, TypeOK, ObjectForStream, PutObject
  <2>6. ReadsSettled'
    BY <1>4 DEF IInv, TypeOK, ReadsSettled, PutObject
  <2>7. ContentsAreOwn'
    BY <1>4 DEF IInv, TypeOK, ContentsAreOwn, ReadsSettled, PutObject
  <2> QED BY <2>1, <2>2, <2>3, <2>4, <2>5, <2>6, <2>7 DEF IInv
<1>5. ASSUME NEW f \in Files, InsertFile(f) PROVE IInv'
  <2>1. /\ DirsChecked' /\ TreesOfOneUser' /\ SubdirNamesUnique'
       /\ ContentsAreOwn' /\ NoCycles'
    BY <1>5 DEF IInv, DirsChecked, TreesOfOneUser, SubdirNamesUnique,
        ContentsAreOwn, NoCycles, InsertFile
  <2>2. TypeOK'
    BY <1>5 DEF IInv, TypeOK, InsertFile
  <2>3. FilesStored'
    BY <1>5 DEF IInv, TypeOK, FilesStored, InsertFile
  <2>4. RowsHaveDirectory'
    BY <1>5 DEF IInv, TypeOK, RowsHaveDirectory, InsertFile
  <2>5. OneDeletionEvent'
    BY <1>5 DEF IInv, TypeOK, OneDeletionEvent, FilesStored, InsertFile
  <2>6. ObjectForStream'
    BY <1>5 DEF IInv, TypeOK, ObjectForStream, FilesStored, InsertFile
  <2>7. ReadsSettled'
    BY <1>5 DEF IInv, TypeOK, ReadsSettled, InsertFile
  <2> QED BY <2>1, <2>2, <2>3, <2>4, <2>5, <2>6, <2>7 DEF IInv
<1>6. ASSUME NEW f \in Files, InsertFileFails(f) PROVE IInv'
  <2>1. /\ DirsChecked' /\ TreesOfOneUser' /\ SubdirNamesUnique'
       /\ ContentsAreOwn' /\ NoCycles'
    BY <1>6 DEF IInv, DirsChecked, TreesOfOneUser, SubdirNamesUnique,
        ContentsAreOwn, NoCycles, InsertFileFails
  <2>2. TypeOK'
    BY <1>6 DEF IInv, TypeOK, InsertFileFails
  <2>3. FilesStored'
    BY <1>6 DEF IInv, TypeOK, FilesStored, InsertFileFails
  <2>4. RowsHaveDirectory'
    BY <1>6 DEF IInv, TypeOK, RowsHaveDirectory, InsertFileFails
  <2>5. OneDeletionEvent'
    BY <1>6 DEF IInv, TypeOK, OneDeletionEvent, FilesStored, InsertFileFails
  <2>6. ObjectForStream'
    BY <1>6 DEF IInv, TypeOK, ObjectForStream, FilesStored, InsertFileFails
  <2>7. ReadsSettled'
    BY <1>6 DEF IInv, TypeOK, ReadsSettled, InsertFileFails
  <2> QED BY <2>1, <2>2, <2>3, <2>4, <2>5, <2>6, <2>7 DEF IInv
<1>7. ASSUME NEW f \in Files, AnswerUpload(f) \/ LeaveUpload(f) PROVE IInv'
  <2>1. /\ DirsChecked' /\ TreesOfOneUser' /\ RowsHaveDirectory'
       /\ SubdirNamesUnique' /\ OneDeletionEvent' /\ ObjectForStream' /\ ContentsAreOwn' /\ NoCycles'
    BY <1>7 DEF IInv, DirsChecked, TreesOfOneUser, RowsHaveDirectory,
        SubdirNamesUnique, OneDeletionEvent, ObjectForStream, ContentsAreOwn,
        NoCycles, AnswerUpload, LeaveUpload
  <2>2. TypeOK'
    BY <1>7 DEF IInv, TypeOK, AnswerUpload, LeaveUpload
  <2>3. FilesStored'
    BY <1>7 DEF IInv, TypeOK, FilesStored, AnswerUpload, LeaveUpload
  <2>4. ReadsSettled'
    BY <1>7 DEF IInv, TypeOK, ReadsSettled, AnswerUpload, LeaveUpload
  <2> QED BY <2>1, <2>2, <2>3, <2>4 DEF IInv
<1>8. ASSUME NEW c \in Calls, NEW u \in Users, NEW f \in Files, BeginDeleteFile(c, u, f) PROVE IInv'
  <2>1. /\ DirsChecked' /\ FilesStored' /\ TreesOfOneUser'
       /\ RowsHaveDirectory' /\ SubdirNamesUnique' /\ OneDeletionEvent' /\ NoCycles'
    BY <1>8 DEF IInv, DirsChecked, FilesStored, TreesOfOneUser,
        RowsHaveDirectory, SubdirNamesUnique, OneDeletionEvent, NoCycles,
        BeginDeleteFile, Begin
  <2>2. TypeOK'
    BY <1>8 DEF IInv, TypeOK, BeginDeleteFile, Begin
  <2>3. ObjectForStream'
    BY <1>8 DEF IInv, TypeOK, ObjectForStream, BeginDeleteFile, Begin
  <2>4. ReadsSettled'
    BY <1>8 DEF IInv, TypeOK, ReadsSettled, BeginDeleteFile, Begin
  <2>5. ContentsAreOwn'
    BY <1>8 DEF IInv, TypeOK, ContentsAreOwn, ReadsSettled, BeginDeleteFile,
        Begin
  <2> QED BY <2>1, <2>2, <2>3, <2>4, <2>5 DEF IInv
<1>9. ASSUME NEW c \in Calls, NEW u \in Users, NEW f \in Files, BeginDownload(c, u, f) PROVE IInv'
  <2>1. /\ DirsChecked' /\ FilesStored' /\ TreesOfOneUser'
       /\ RowsHaveDirectory' /\ SubdirNamesUnique' /\ OneDeletionEvent' /\ NoCycles'
    BY <1>9 DEF IInv, DirsChecked, FilesStored, TreesOfOneUser,
        RowsHaveDirectory, SubdirNamesUnique, OneDeletionEvent, NoCycles,
        BeginDownload, Begin
  <2>2. TypeOK'
    BY <1>9 DEF IInv, TypeOK, BeginDownload, Begin
  <2>3. ObjectForStream'
    BY <1>9 DEF IInv, TypeOK, ObjectForStream, BeginDownload, Begin
  <2>4. ReadsSettled'
    BY <1>9 DEF IInv, TypeOK, ReadsSettled, BeginDownload, Begin
  <2>5. ContentsAreOwn'
    BY <1>9 DEF IInv, TypeOK, ContentsAreOwn, ReadsSettled, BeginDownload,
        Begin
  <2> QED BY <2>1, <2>2, <2>3, <2>4, <2>5 DEF IInv
<1>10. ASSUME NEW c \in Calls, NEW u \in Users, NEW d \in Dirs, BeginGetDir(c, u, d) PROVE IInv'
  <2>1. /\ DirsChecked' /\ FilesStored' /\ TreesOfOneUser'
       /\ RowsHaveDirectory' /\ SubdirNamesUnique' /\ OneDeletionEvent' /\ NoCycles'
    BY <1>10 DEF IInv, DirsChecked, FilesStored, TreesOfOneUser,
        RowsHaveDirectory, SubdirNamesUnique, OneDeletionEvent, NoCycles,
        BeginGetDir, Begin
  <2>2. TypeOK'
    BY <1>10 DEF IInv, TypeOK, BeginGetDir, Begin
  <2>3. ObjectForStream'
    BY <1>10 DEF IInv, TypeOK, ObjectForStream, BeginGetDir, Begin
  <2>4. ReadsSettled'
    BY <1>10 DEF IInv, TypeOK, ReadsSettled, BeginGetDir, Begin
  <2>5. ContentsAreOwn'
    BY <1>10 DEF IInv, TypeOK, ContentsAreOwn, ReadsSettled, BeginGetDir,
        Begin
  <2> QED BY <2>1, <2>2, <2>3, <2>4, <2>5 DEF IInv
<1>11. ASSUME NEW c \in Calls, NEW u \in Users, NEW d \in Dirs, BeginDeleteDir(c, u, d) PROVE IInv'
  <2>1. /\ DirsChecked' /\ FilesStored' /\ TreesOfOneUser'
       /\ RowsHaveDirectory' /\ SubdirNamesUnique' /\ OneDeletionEvent' /\ NoCycles'
    BY <1>11 DEF IInv, DirsChecked, FilesStored, TreesOfOneUser,
        RowsHaveDirectory, SubdirNamesUnique, OneDeletionEvent, NoCycles,
        BeginDeleteDir, Begin
  <2>2. TypeOK'
    BY <1>11 DEF IInv, TypeOK, BeginDeleteDir, Begin
  <2>3. ObjectForStream'
    BY <1>11 DEF IInv, TypeOK, ObjectForStream, BeginDeleteDir, Begin
  <2>4. ReadsSettled'
    BY <1>11 DEF IInv, TypeOK, ReadsSettled, BeginDeleteDir, Begin
  <2>5. ContentsAreOwn'
    BY <1>11 DEF IInv, TypeOK, ContentsAreOwn, ReadsSettled, BeginDeleteDir,
        Begin
  <2> QED BY <2>1, <2>2, <2>3, <2>4, <2>5 DEF IInv
<1>12. ASSUME NEW c \in Calls, SoftDelete(c) PROVE IInv'
  <2>1. /\ DirsChecked' /\ TreesOfOneUser' /\ SubdirNamesUnique'
       /\ NoCycles'
    BY <1>12 DEF IInv, DirsChecked, TreesOfOneUser, SubdirNamesUnique,
        NoCycles, SoftDelete, Return
  <2>2. TypeOK'
    BY <1>12 DEF IInv, TypeOK, SoftDelete, Return
  <2>3. FilesStored'
    BY <1>12 DEF IInv, TypeOK, FilesStored, SoftDelete, Return
  <2>4. RowsHaveDirectory'
    BY <1>12 DEF IInv, TypeOK, RowsHaveDirectory, SoftDelete, Return
  <2>5. OneDeletionEvent'
    <3>1. /\ target[c] \in Files
          /\ delPending \in [Files -> Nat] /\ delSent \in [Files -> Nat]
          /\ files \in [Files -> {"none", "live", "deleted", "gone"}]
      BY <1>12 DEF IInv, TypeOK, SoftDelete
    <3> QED BY <1>12, <3>1 DEF IInv, OneDeletionEvent, SoftDelete
  <2>6. ObjectForStream'
    BY <1>12 DEF IInv, TypeOK, ObjectForStream, SoftDelete, Return
  <2>7. ReadsSettled'
    BY <1>12 DEF IInv, TypeOK, ReadsSettled, SoftDelete, Return
  <2>8. ContentsAreOwn'
    BY <1>12 DEF IInv, TypeOK, ContentsAreOwn, SoftDelete, Return
  <2> QED BY <2>1, <2>2, <2>3, <2>4, <2>5, <2>6, <2>7, <2>8 DEF IInv
<1>13. ASSUME NEW c \in Calls, SoftDeleteFails(c) PROVE IInv'
  <2>1. /\ DirsChecked' /\ TreesOfOneUser' /\ SubdirNamesUnique'
       /\ NoCycles'
    BY <1>13 DEF IInv, DirsChecked, TreesOfOneUser, SubdirNamesUnique,
        NoCycles, SoftDeleteFails, Return
  <2>2. TypeOK'
    BY <1>13 DEF IInv, TypeOK, SoftDeleteFails, Return
  <2>3. FilesStored'
    BY <1>13 DEF IInv, TypeOK, FilesStored, SoftDeleteFails, Return
  <2>4. RowsHaveDirectory'
    BY <1>13 DEF IInv, TypeOK, RowsHaveDirectory, SoftDeleteFails, Return
  <2>5. OneDeletionEvent'
    BY <1>13 DEF IInv, TypeOK, OneDeletionEvent, SoftDeleteFails, Return
  <2>6. ObjectForStream'
    BY <1>13 DEF IInv, TypeOK, ObjectForStream, SoftDeleteFails, Return
  <2>7. ReadsSettled'
    BY <1>13 DEF IInv, TypeOK, ReadsSettled, SoftDeleteFails, Return
  <2>8. ContentsAreOwn'
    BY <1>13 DEF IInv, TypeOK, ContentsAreOwn, SoftDeleteFails, Return
  <2> QED BY <2>1, <2>2, <2>3, <2>4, <2>5, <2>6, <2>7, <2>8 DEF IInv
<1>14. ASSUME NEW c \in Calls, ListFiles(c) PROVE IInv'
  <2>1. /\ DirsChecked' /\ FilesStored' /\ TreesOfOneUser'
       /\ RowsHaveDirectory' /\ SubdirNamesUnique' /\ OneDeletionEvent' /\ NoCycles'
    BY <1>14 DEF IInv, DirsChecked, FilesStored, TreesOfOneUser,
        RowsHaveDirectory, SubdirNamesUnique, OneDeletionEvent, NoCycles,
        ListFiles, Goto
  <2>2. TypeOK'
    BY <1>14 DEF IInv, TypeOK, ListFiles, Goto
  <2>3. ObjectForStream'
    BY <1>14 DEF IInv, TypeOK, ObjectForStream, ListFiles, Goto
  <2>4. ReadsSettled'
    BY <1>14 DEF IInv, TypeOK, ReadsSettled, FilesStored, ListFiles, Goto
  <2>5. ContentsAreOwn'
    BY <1>14 DEF IInv, TypeOK, ContentsAreOwn, ListFiles, Goto
  <2> QED BY <2>1, <2>2, <2>3, <2>4, <2>5 DEF IInv
<1>15. ASSUME NEW c \in Calls, ReadSubDirs(c) PROVE IInv'
  <2>1. /\ DirsChecked' /\ FilesStored' /\ TreesOfOneUser'
       /\ RowsHaveDirectory' /\ SubdirNamesUnique' /\ OneDeletionEvent' /\ NoCycles'
    BY <1>15 DEF IInv, DirsChecked, FilesStored, TreesOfOneUser,
        RowsHaveDirectory, SubdirNamesUnique, OneDeletionEvent, NoCycles,
        ReadSubDirs, Goto
  <2>2. TypeOK'
    BY <1>15 DEF IInv, TypeOK, ReadSubDirs, Goto
  <2>3. ObjectForStream'
    BY <1>15 DEF IInv, TypeOK, ObjectForStream, ReadSubDirs, Goto
  <2>4. ReadsSettled'
    BY <1>15 DEF IInv, TypeOK, ReadsSettled, DirsChecked, ReadSubDirs, Goto
  <2>5. ContentsAreOwn'
    BY <1>15 DEF IInv, TypeOK, ContentsAreOwn, ReadSubDirs, Goto
  <2> QED BY <2>1, <2>2, <2>3, <2>4, <2>5 DEF IInv
<1>16. ASSUME NEW c \in Calls, ReadFiles(c) PROVE IInv'
  <2>1. /\ DirsChecked' /\ FilesStored' /\ TreesOfOneUser'
       /\ RowsHaveDirectory' /\ SubdirNamesUnique' /\ OneDeletionEvent' /\ NoCycles'
    BY <1>16 DEF IInv, DirsChecked, FilesStored, TreesOfOneUser,
        RowsHaveDirectory, SubdirNamesUnique, OneDeletionEvent, NoCycles,
        ReadFiles, Goto
  <2>2. TypeOK'
    BY <1>16 DEF IInv, TypeOK, ReadFiles, Goto
  <2>3. ObjectForStream'
    BY <1>16 DEF IInv, TypeOK, ObjectForStream, ReadFiles, Goto
  <2>4. ReadsSettled'
    BY <1>16 DEF IInv, TypeOK, ReadsSettled, FilesStored, ReadFiles, Goto
  <2>5. ContentsAreOwn'
    BY <1>16 DEF IInv, TypeOK, ContentsAreOwn, ReadFiles, Goto
  <2> QED BY <2>1, <2>2, <2>3, <2>4, <2>5 DEF IInv
<1>17. ASSUME NEW c \in Calls, Respond(c) PROVE IInv'
  <2>1. /\ DirsChecked' /\ FilesStored' /\ TreesOfOneUser'
       /\ RowsHaveDirectory' /\ SubdirNamesUnique' /\ OneDeletionEvent' /\ NoCycles'
    BY <1>17 DEF IInv, DirsChecked, FilesStored, TreesOfOneUser,
        RowsHaveDirectory, SubdirNamesUnique, OneDeletionEvent, NoCycles,
        Respond, Return
  <2>2. TypeOK'
    BY <1>17 DEF IInv, TypeOK, Respond, Return
  <2>3. ObjectForStream'
    BY <1>17 DEF IInv, TypeOK, ObjectForStream, Respond, Return
  <2>4. ReadsSettled'
    BY <1>17 DEF IInv, TypeOK, ReadsSettled, Respond, Return
  <2>5. ContentsAreOwn'
    BY <1>17 DEF IInv, TypeOK, ContentsAreOwn, Respond, Return
  <2> QED BY <2>1, <2>2, <2>3, <2>4, <2>5 DEF IInv
<1>18. ASSUME NEW c \in Calls, GetDirFails(c) PROVE IInv'
  <2>1. /\ DirsChecked' /\ FilesStored' /\ TreesOfOneUser'
       /\ RowsHaveDirectory' /\ SubdirNamesUnique' /\ OneDeletionEvent' /\ NoCycles'
    BY <1>18 DEF IInv, DirsChecked, FilesStored, TreesOfOneUser,
        RowsHaveDirectory, SubdirNamesUnique, OneDeletionEvent, NoCycles,
        GetDirFails, Return
  <2>2. TypeOK'
    BY <1>18 DEF IInv, TypeOK, GetDirFails, Return
  <2>3. ObjectForStream'
    BY <1>18 DEF IInv, TypeOK, ObjectForStream, GetDirFails, Return
  <2>4. ReadsSettled'
    BY <1>18 DEF IInv, TypeOK, ReadsSettled, GetDirFails, Return
  <2>5. ContentsAreOwn'
    BY <1>18 DEF IInv, TypeOK, ContentsAreOwn, GetDirFails, Return
  <2> QED BY <2>1, <2>2, <2>3, <2>4, <2>5 DEF IInv
<1>19. ASSUME NEW c \in Calls, DeleteDir(c) PROVE IInv'
  <2>1. TypeOK'
    BY <1>19 DEF IInv, TypeOK, DeleteDir, Return
  <2>2. DirsChecked'
    BY <1>19 DEF IInv, TypeOK, DirsChecked, DeleteDir, Return
  <2>3. FilesStored'
    BY <1>19 DEF IInv, TypeOK, FilesStored, DeleteDir, Return
  <2>4. TreesOfOneUser'
    BY <1>19, SubtreeClosed DEF IInv, TypeOK, TreesOfOneUser, DeleteDir,
        Return
  <2>5. RowsHaveDirectory'
    BY <1>19 DEF IInv, TypeOK, RowsHaveDirectory, DeleteDir, Return
  <2>6. SubdirNamesUnique'
    BY <1>19 DEF IInv, TypeOK, SubdirNamesUnique, DeleteDir, Return, Subtree
  <2>7. OneDeletionEvent'
    BY <1>19 DEF IInv, TypeOK, OneDeletionEvent, DeleteDir, Return
  <2>8. ObjectForStream'
    BY <1>19 DEF IInv, TypeOK, ObjectForStream, DeleteDir, Return
  <2>9. ReadsSettled'
    BY <1>19 DEF IInv, TypeOK, ReadsSettled, DeleteDir, Return
  <2>10. ContentsAreOwn'
    BY <1>19 DEF IInv, TypeOK, ContentsAreOwn, DeleteDir, Return
  <2>11. NoCycles'
    <3>1. dirs' \subseteq dirs /\ parent' = parent
      BY <1>19 DEF DeleteDir
    <3> QED BY <3>1 DEF IInv, NoCycles
  <2> QED BY <2>1, <2>2, <2>3, <2>4, <2>5, <2>6, <2>7, <2>8, <2>9, <2>10,
        <2>11 DEF IInv
<1>20. ASSUME NEW c \in Calls, DeleteDirFails(c) PROVE IInv'
  <2>1. /\ DirsChecked' /\ FilesStored' /\ TreesOfOneUser'
       /\ RowsHaveDirectory' /\ SubdirNamesUnique' /\ OneDeletionEvent' /\ NoCycles'
    BY <1>20 DEF IInv, DirsChecked, FilesStored, TreesOfOneUser,
        RowsHaveDirectory, SubdirNamesUnique, OneDeletionEvent, NoCycles,
        DeleteDirFails, Return
  <2>2. TypeOK'
    BY <1>20 DEF IInv, TypeOK, DeleteDirFails, Return
  <2>3. ObjectForStream'
    BY <1>20 DEF IInv, TypeOK, ObjectForStream, DeleteDirFails, Return
  <2>4. ReadsSettled'
    BY <1>20 DEF IInv, TypeOK, ReadsSettled, DeleteDirFails, Return
  <2>5. ContentsAreOwn'
    BY <1>20 DEF IInv, TypeOK, ContentsAreOwn, DeleteDirFails, Return
  <2> QED BY <2>1, <2>2, <2>3, <2>4, <2>5 DEF IInv
<1>21. ASSUME NEW c \in Calls, ReadRow(c) PROVE IInv'
  <2>1. /\ DirsChecked' /\ FilesStored' /\ TreesOfOneUser'
       /\ RowsHaveDirectory' /\ SubdirNamesUnique' /\ OneDeletionEvent' /\ NoCycles'
    BY <1>21 DEF IInv, DirsChecked, FilesStored, TreesOfOneUser,
        RowsHaveDirectory, SubdirNamesUnique, OneDeletionEvent, NoCycles,
        ReadRow, Goto, Return
  <2>2. TypeOK'
    BY <1>21 DEF IInv, TypeOK, ReadRow, Goto, Return
  <2>3. ObjectForStream'
    BY <1>21 DEF IInv, TypeOK, ObjectForStream, ReadRow, Goto, Return
  <2>4. ReadsSettled'
    BY <1>21 DEF IInv, TypeOK, ReadsSettled, ReadRow, Goto, Return
  <2>5. ContentsAreOwn'
    BY <1>21 DEF IInv, TypeOK, ContentsAreOwn, ReadRow, Goto, Return
  <2> QED BY <2>1, <2>2, <2>3, <2>4, <2>5 DEF IInv
<1>22. ASSUME NEW c \in Calls, StreamObject(c) PROVE IInv'
  <2>1. /\ DirsChecked' /\ FilesStored' /\ TreesOfOneUser'
       /\ RowsHaveDirectory' /\ SubdirNamesUnique' /\ OneDeletionEvent' /\ NoCycles'
    BY <1>22 DEF IInv, DirsChecked, FilesStored, TreesOfOneUser,
        RowsHaveDirectory, SubdirNamesUnique, OneDeletionEvent, NoCycles,
        StreamObject, Return
  <2>2. TypeOK'
    BY <1>22 DEF IInv, TypeOK, StreamObject, Return
  <2>3. ObjectForStream'
    BY <1>22 DEF IInv, TypeOK, ObjectForStream, StreamObject, Return
  <2>4. ReadsSettled'
    BY <1>22 DEF IInv, TypeOK, ReadsSettled, StreamObject, Return
  <2>5. ContentsAreOwn'
    BY <1>22 DEF IInv, TypeOK, ContentsAreOwn, StreamObject, Return
  <2> QED BY <2>1, <2>2, <2>3, <2>4, <2>5 DEF IInv
<1>23. ASSUME NEW c \in Calls, DownloadFails(c) PROVE IInv'
  <2>1. /\ DirsChecked' /\ FilesStored' /\ TreesOfOneUser'
       /\ RowsHaveDirectory' /\ SubdirNamesUnique' /\ OneDeletionEvent' /\ NoCycles'
    BY <1>23 DEF IInv, DirsChecked, FilesStored, TreesOfOneUser,
        RowsHaveDirectory, SubdirNamesUnique, OneDeletionEvent, NoCycles,
        DownloadFails, Return
  <2>2. TypeOK'
    BY <1>23 DEF IInv, TypeOK, DownloadFails, Return
  <2>3. ObjectForStream'
    BY <1>23 DEF IInv, TypeOK, ObjectForStream, DownloadFails, Return
  <2>4. ReadsSettled'
    BY <1>23 DEF IInv, TypeOK, ReadsSettled, DownloadFails, Return
  <2>5. ContentsAreOwn'
    BY <1>23 DEF IInv, TypeOK, ContentsAreOwn, DownloadFails, Return
  <2> QED BY <2>1, <2>2, <2>3, <2>4, <2>5 DEF IInv
<1>24. ASSUME NEW f \in Files, PublishUploaded(f) PROVE IInv'
  <2>1. /\ DirsChecked' /\ FilesStored' /\ TreesOfOneUser'
       /\ RowsHaveDirectory' /\ SubdirNamesUnique' /\ OneDeletionEvent' /\ ObjectForStream' /\ ReadsSettled' /\ ContentsAreOwn' /\ NoCycles'
    BY <1>24 DEF IInv, DirsChecked, FilesStored, TreesOfOneUser,
        RowsHaveDirectory, SubdirNamesUnique, OneDeletionEvent,
        ObjectForStream, ReadsSettled, ContentsAreOwn, NoCycles,
        PublishUploaded
  <2>2. TypeOK'
    BY <1>24 DEF IInv, TypeOK, PublishUploaded
  <2> QED BY <2>1, <2>2 DEF IInv
<1>25. ASSUME NEW f \in Files, LoseUploaded(f) PROVE IInv'
  <2>1. /\ DirsChecked' /\ FilesStored' /\ TreesOfOneUser'
       /\ RowsHaveDirectory' /\ SubdirNamesUnique' /\ OneDeletionEvent' /\ ObjectForStream' /\ ReadsSettled' /\ ContentsAreOwn' /\ NoCycles'
    BY <1>25 DEF IInv, DirsChecked, FilesStored, TreesOfOneUser,
        RowsHaveDirectory, SubdirNamesUnique, OneDeletionEvent,
        ObjectForStream, ReadsSettled, ContentsAreOwn, NoCycles, LoseUploaded
  <2>2. TypeOK'
    BY <1>25 DEF IInv, TypeOK, LoseUploaded
  <2> QED BY <2>1, <2>2 DEF IInv
<1>26. ASSUME NEW f \in Files, PublishDeleted(f) PROVE IInv'
  <2>1. /\ DirsChecked' /\ FilesStored' /\ TreesOfOneUser'
       /\ RowsHaveDirectory' /\ SubdirNamesUnique' /\ ObjectForStream' /\ ReadsSettled' /\ ContentsAreOwn' /\ NoCycles'
    BY <1>26 DEF IInv, DirsChecked, FilesStored, TreesOfOneUser,
        RowsHaveDirectory, SubdirNamesUnique, ObjectForStream, ReadsSettled,
        ContentsAreOwn, NoCycles, PublishDeleted
  <2>2. TypeOK'
    BY <1>26 DEF IInv, TypeOK, PublishDeleted
  <2>3. OneDeletionEvent'
    BY <1>26 DEF IInv, TypeOK, OneDeletionEvent, PublishDeleted
  <2> QED BY <2>1, <2>2, <2>3 DEF IInv
<1>27. ASSUME NEW f \in Files, LoseDeleted(f) PROVE IInv'
  <2>1. /\ DirsChecked' /\ FilesStored' /\ TreesOfOneUser'
       /\ RowsHaveDirectory' /\ SubdirNamesUnique' /\ ObjectForStream' /\ ReadsSettled' /\ ContentsAreOwn' /\ NoCycles'
    BY <1>27 DEF IInv, DirsChecked, FilesStored, TreesOfOneUser,
        RowsHaveDirectory, SubdirNamesUnique, ObjectForStream, ReadsSettled,
        ContentsAreOwn, NoCycles, LoseDeleted
  <2>2. TypeOK'
    BY <1>27 DEF IInv, TypeOK, LoseDeleted
  <2>3. OneDeletionEvent'
    BY <1>27 DEF IInv, TypeOK, OneDeletionEvent, LoseDeleted
  <2> QED BY <2>1, <2>2, <2>3 DEF IInv
<1>28. ASSUME NEW f \in Files, HandleDeleted(f) PROVE IInv'
  <2>1. /\ DirsChecked' /\ FilesStored' /\ TreesOfOneUser'
       /\ RowsHaveDirectory' /\ SubdirNamesUnique' /\ OneDeletionEvent' /\ ObjectForStream' /\ ReadsSettled' /\ ContentsAreOwn' /\ NoCycles'
    BY <1>28 DEF IInv, DirsChecked, FilesStored, TreesOfOneUser,
        RowsHaveDirectory, SubdirNamesUnique, OneDeletionEvent,
        ObjectForStream, ReadsSettled, ContentsAreOwn, NoCycles,
        HandleDeleted
  <2>2. TypeOK'
    BY <1>28 DEF IInv, TypeOK, HandleDeleted
  <2> QED BY <2>1, <2>2 DEF IInv
<1>29. ASSUME Crash PROVE IInv'
  <2>1. /\ TreesOfOneUser' /\ RowsHaveDirectory' /\ SubdirNamesUnique'
       /\ NoCycles'
    BY <1>29 DEF IInv, TreesOfOneUser, RowsHaveDirectory, SubdirNamesUnique,
        NoCycles, Crash
  <2>2. TypeOK'
    BY <1>29 DEF IInv, TypeOK, Crash
  <2>3. DirsChecked'
    BY <1>29 DEF IInv, TypeOK, DirsChecked, Crash
  <2>4. FilesStored'
    BY <1>29 DEF IInv, TypeOK, FilesStored, Crash
  <2>5. OneDeletionEvent'
    BY <1>29 DEF IInv, TypeOK, OneDeletionEvent, Crash
  <2>6. ObjectForStream'
    BY <1>29 DEF IInv, TypeOK, ObjectForStream, Crash
  <2>7. ReadsSettled'
    BY <1>29 DEF IInv, TypeOK, ReadsSettled, Crash
  <2>8. ContentsAreOwn'
    BY <1>29 DEF IInv, TypeOK, ContentsAreOwn, Crash
  <2> QED BY <2>1, <2>2, <2>3, <2>4, <2>5, <2>6, <2>7, <2>8 DEF IInv
<1>30. CASE UNCHANGED vars
  BY <1>30 DEF IInv, TypeOK, DirsChecked, FilesStored, TreesOfOneUser,
        RowsHaveDirectory, SubdirNamesUnique, OneDeletionEvent,
        ObjectForStream, ReadsSettled, ContentsAreOwn, NoCycles,
        vars
<1> QED BY <1>1, <1>2, <1>3, <1>4, <1>5, <1>6, <1>7, <1>8, <1>9, <1>10,
        <1>11, <1>12, <1>13, <1>14, <1>15, <1>16, <1>17, <1>18, <1>19, <1>20,
        <1>21, <1>22, <1>23, <1>24, <1>25, <1>26, <1>27, <1>28, <1>29, <1>30
  DEF Next, CallBegins, CallStep, DirStep, FileStep, EventStep

\* IInv holds in every reachable state.
LEMMA Inductive == Spec => []IInv
BY InitIInv, StepIInv, PTL DEF Spec

\* The variables keep their types, and a running call its target.
THEOREM TypeCorrect == Spec => []TypeOK
<1>1. IInv => TypeOK
  BY DEF IInv
<1> QED
  BY <1>1, Inductive, PTL

\* The directories are trees of one user each (directoryService.Create, and the
\* cascade of directories.parent_id).
THEOREM TreesHaveOneOwner == Spec => []TreesOfOneUser
<1>1. IInv => TreesOfOneUser
  BY DEF IInv
<1> QED
  BY <1>1, Inductive, PTL

\* No row of files is in a directory that is gone (files.directory_id).
THEOREM FilesHaveDirectory == Spec => []RowsHaveDirectory
<1>1. IInv => RowsHaveDirectory
  BY DEF IInv
<1> QED
  BY <1>1, Inductive, PTL

\* Two subdirectories of one directory have different names.
THEOREM SubdirNamesDiffer == Spec => []SubdirNamesUnique
<1>1. IInv => SubdirNamesUnique
  BY DEF IInv
<1> QED
  BY <1>1, Inductive, PTL

\* A file is announced as deleted at most once, and only when it is
\* (FileRepository.SoftDelete, fileService.Delete).
THEOREM DeletedOnce == Spec => []OneDeletionEvent
<1>1. IInv => OneDeletionEvent
  BY DEF IInv
<1> QED
  BY <1>1, Inductive, PTL

\* A download that found the row finds the object (fileService.Download).
THEOREM DownloadFindsObject == Spec => []ObjectForStream
<1>1. IInv => ObjectForStream
  BY DEF IInv
<1> QED
  BY <1>1, Inductive, PTL

\* The answer of directoryService.Get shows its user's things from that directory only.
THEOREM ContentsBelong == Spec => []ContentsAreOwn
<1>1. IInv => ContentsAreOwn
  BY DEF IInv
<1> QED
  BY <1>1, Inductive, PTL

\* No directory is ever below itself: the parent of a new one is older than it is, and
\* nothing moves (directoryService.Create; the recursion of ListAllRecursive ends).
THEOREM NeverBelowItself == Spec => []NoCycles
<1>1. IInv => NoCycles
  BY DEF IInv
<1> QED
  BY <1>1, Inductive, PTL

\* Whatever overlaps, the tables directories and files refer to each other soundly.
THEOREM TablesStaySound == Spec => []TablesSound
<1>1. TreesOfOneUser /\ NoCycles /\ RowsHaveDirectory => TablesSound
  BY DEF TablesSound
<1> QED
  BY <1>1, TreesHaveOneOwner, NeverBelowItself, FilesHaveDirectory, PTL

-----------------------------------------------------------------------------
(* The catalogue implements CatalogContract.                                   *)

\* What the recursive query and the cascades reach from a directory that is there is
\* that directory and all below it, nothing else, and all of one owner.
LEMMA SubtreeIsBelow ==
  ASSUME TypeOK, TreesOfOneUser, NEW d \in dirs
  PROVE  Subtree(d) \in SUBSET dirs /\ Catalog!Below(d, Subtree(d))
<1>1. Subtree(d) \subseteq dirs /\ d \in Subtree(d)
  BY DEF Subtree
<1>2. ASSUME NEW e \in dirs, parent[e] \in Subtree(d) PROVE e \in Subtree(d)
  BY <1>2, SubtreeClosed
<1>3. ASSUME NEW e \in Subtree(d) \ {d} PROVE parent[e] \in Subtree(d)
  <2> SUFFICES ASSUME parent[e] \notin Subtree(d) PROVE FALSE
    OBVIOUS
  <2> DEFINE S == Subtree(d) \ {e}
  <2>1. S \in SUBSET dirs /\ d \in S
    BY <1>1
  <2>2. \A x \in dirs : parent[x] \in S => x \in S
    BY <1>2
  <2>3. e \in S
    BY <2>1, <2>2 DEF Subtree
  <2> QED
    BY <2>3
<1>4. ASSUME NEW e \in Subtree(d) PROVE UserOf[e] = UserOf[d]
  <2> DEFINE S == {x \in dirs : UserOf[x] = UserOf[d]}
  <2>1. S \in SUBSET dirs /\ d \in S
    OBVIOUS
  <2>2. \A x \in dirs : parent[x] \in S => x \in S
    BY RootAssumption DEF TypeOK, TreesOfOneUser
  <2>3. e \in S
    BY <2>1, <2>2 DEF Subtree
  <2> QED
    BY <2>3
<1> QED
  BY <1>1, <1>2, <1>3, <1>4 DEF Catalog!Below, Tree

\* A directory that is gone has nothing below it: a second deletion removes nothing.
LEMMA SubtreeOfNone == ASSUME NEW d, d \notin dirs PROVE Subtree(d) = {}
BY DEF Subtree

\* What a step does not touch looks the same from outside.
LEMMA SameView ==
  ASSUME UNCHANGED <<dirs, files, delPending, delSent>>, Spent' = Spent,
         \A d \in dirs : parent'[d] = parent[d],
         \A f \in Files : HasRow(f) => folder'[f] = folder[f]
  PROVE  UNCHANGED Catalog!vars
<1>1. Tree' = Tree
  BY DEF Tree
<1>2. Rows' = Rows
  BY DEF Rows, HasRow
<1>3. Due' = Due /\ Told' = Told
  BY DEF Due, Told
<1> QED
  BY <1>1, <1>2, <1>3 DEF Catalog!vars

\* A publishing goroutine is the only one of its file, and the first.
LEMMA OneOrNone ==
  ASSUME TypeOK, OneDeletionEvent, NEW f \in Files, delPending[f] > 0
  PROVE  delPending[f] = 1 /\ delSent[f] = 0
<1>1. delPending[f] \in Nat /\ delSent[f] \in Nat
  BY DEF TypeOK
<1>2. delPending[f] + delSent[f] <= 1
  BY DEF OneDeletionEvent
<1> QED
  BY <1>1, <1>2

\* Every step is one of the contract, or changes nothing that it speaks of.
LEMMA StepCatalog == IInv /\ [Next]_vars => [Catalog!Next]_(Catalog!vars)
<1> SUFFICES ASSUME IInv, [Next]_vars PROVE Catalog!Next \/ UNCHANGED Catalog!vars
  OBVIOUS
<1> USE DEF IInv
<1>1. ASSUME NEW d \in Dirs, NEW p \in Dirs \cup {Root}, BeginCreateDir(d, p)
      PROVE  UNCHANGED Catalog!vars
  BY <1>1, SameView DEF TypeOK, DirsChecked, BeginCreateDir, Spent
<1>2. ASSUME NEW d \in Dirs, InsertDir(d) PROVE Catalog!Next
  <2>1. /\ Spent' = Spent \cup {d} /\ d \notin Spent
        /\ Rows' = Rows /\ Due' = Due /\ Told' = Told
    BY <1>2, IdsAssumption DEF TypeOK, InsertDir, Spent, Rows, HasRow, Due, Told
  <2>2. CASE dirs' = dirs
    <3>1. Tree' = Tree
      BY <1>2, <2>2 DEF InsertDir, Tree
    <3>2. Catalog!Fail({d}, {})
      BY <2>1, <3>1 DEF Catalog!Fail
    <3> QED
      BY <3>2 DEF Catalog!Next
  <2>3. CASE dirs' # dirs
    <3> DEFINE p == parent[d]
    <3>1. dirs' = dirs \cup {d} /\ (p = Root \/ p \in dirs) /\ ~NameTaken(d)
      BY <1>2, <2>3 DEF InsertDir
    <3>2. p # Root => UserOf[p] = UserOf[d]
      BY <1>2 DEF InsertDir, DirsChecked
    <3>3. p # Root => Catalog!FreeName(d, p)
      BY <3>1 DEF NameTaken, Catalog!FreeName, Tree
    <3>4. Tree' = Catalog!Extension(Tree, d, p)
      BY <1>2, <3>1 DEF InsertDir, Tree, Catalog!Extension
    <3>5. Catalog!AddDir(d, p)
      BY <2>1, <3>1, <3>2, <3>3, <3>4 DEF Catalog!AddDir, Tree
    <3> QED
      BY <3>1, <3>5 DEF Catalog!Next, TypeOK
  <2> QED
    BY <2>2, <2>3
<1>3. ASSUME NEW d \in Dirs, InsertDirFails(d) PROVE Catalog!Next
  <2>1. /\ Spent' = Spent \cup {d}
        /\ Tree' = Tree /\ Rows' = Rows /\ Due' = Due /\ Told' = Told
    BY <1>3, IdsAssumption DEF TypeOK, InsertDirFails, Spent, Tree, Rows, HasRow, Due, Told
  <2>2. Catalog!Fail({d}, {})
    BY <2>1 DEF Catalog!Fail
  <2> QED
    BY <2>2 DEF Catalog!Next
<1>4. ASSUME NEW f \in Files, NEW d \in Dirs, PutObject(f, d) PROVE UNCHANGED Catalog!vars
  BY <1>4, SameView DEF TypeOK, FilesStored, PutObject, Spent, HasRow
<1>5. ASSUME NEW f \in Files, InsertFile(f) \/ InsertFileFails(f) PROVE Catalog!Next
  <2>1. /\ Spent' = Spent \cup {f} /\ f \notin Spent
        /\ Tree' = Tree /\ Due' = Due /\ Told' = Told
    BY <1>5, IdsAssumption DEF TypeOK, InsertFile, InsertFileFails, Spent, Tree, Due, Told
  <2>2. CASE files' = files
    <3>1. Rows' = Rows
      BY <1>5, <2>2 DEF InsertFile, InsertFileFails, Rows, HasRow
    <3>2. Catalog!Fail({f}, {})
      BY <2>1, <3>1 DEF Catalog!Fail
    <3> QED
      BY <3>2 DEF Catalog!Next
  <2>3. CASE files' # files
    <3>1. folder[f] \in dirs /\ files' = [files EXCEPT ![f] = "live"] /\ folder' = folder
      BY <1>5, <2>3 DEF InsertFile, InsertFileFails
    <3> DEFINE row == [dir |-> folder[f], live |-> TRUE]
    <3>2. Rows' = Catalog!Extension(Rows, f, row)
      <4>1. {g \in Files : HasRow(g)}' = {g \in Files : HasRow(g)} \cup {f}
        BY <3>1 DEF TypeOK, HasRow
      <4>2. \A g \in Files \ {f} : Rows'[g] = Rows[g] \/ ~HasRow(g)
        BY <3>1 DEF TypeOK, Rows, HasRow
      <4>3. Rows'[f] = row
        BY <3>1 DEF TypeOK, Rows, HasRow
      <4>4. Rows' = [g \in {g \in Files : HasRow(g)} \cup {f} |-> Rows'[g]]
        BY <4>1 DEF Rows
      <4> HIDE DEF row
      <4> QED
        BY <4>2, <4>3, <4>4 DEF Rows, Catalog!Extension
    <3>3. Catalog!AddFile(f, folder[f])
      BY <2>1, <3>1, <3>2 DEF Catalog!AddFile, Tree
    <3> QED
      BY <3>1, <3>3 DEF Catalog!Next, TypeOK
  <2> QED
    BY <2>2, <2>3
<1>6. ASSUME NEW f \in Files, AnswerUpload(f) \/ LeaveUpload(f) PROVE UNCHANGED Catalog!vars
  BY <1>6, SameView DEF TypeOK, AnswerUpload, LeaveUpload, Spent
<1>7. ASSUME NEW c \in Calls, SoftDelete(c) \/ SoftDeleteFails(c)
      PROVE  Catalog!Next \/ UNCHANGED Catalog!vars
  <2> DEFINE f == target[c]
  <2>1. /\ f \in Files
        /\ UNCHANGED <<dirs, parent, folder, dpc, fpc, delSent>>
    BY <1>7 DEF TypeOK, SoftDelete, SoftDeleteFails
  <2>2. Tree' = Tree /\ Spent' = Spent /\ Told' = Told
    BY <2>1 DEF Tree, Spent, Told
  <2>3. CASE files' = files
    <3>1. delPending' = delPending
      BY <1>7, <2>1, <2>3 DEF TypeOK, SoftDelete, SoftDeleteFails
    <3> QED
      BY <2>1, <2>2, <2>3, <3>1, SameView
  <2>4. CASE files' # files
    <3>1. Live(f) /\ files' = [files EXCEPT ![f] = "deleted"]
      BY <1>7, <2>4 DEF SoftDelete, SoftDeleteFails
    <3>2. f \in DOMAIN Rows /\ Rows[f].live
      BY <2>1, <3>1 DEF Rows, HasRow
    <3>3. Rows' = [Rows EXCEPT ![f].live = FALSE]
      BY <2>1, <3>1 DEF TypeOK, Rows, HasRow
    <3>4. Due' \in {Due, Due \cup {f}}
      BY <1>7, <2>1 DEF TypeOK, SoftDelete, SoftDeleteFails, Due
    <3>5. Catalog!DeleteFile(f)
      BY <2>2, <3>2, <3>3, <3>4 DEF Catalog!DeleteFile
    <3> QED
      BY <2>1, <3>5 DEF Catalog!Next
  <2> QED
    BY <2>3, <2>4
<1>8. ASSUME NEW c \in Calls, DeleteDir(c) PROVE Catalog!Next \/ UNCHANGED Catalog!vars
  <2> DEFINE d == target[c]
             D == Subtree(d)
  <2>1. /\ dirs' = dirs \ D
        /\ files' = [f \in Files |->
                       IF files[f] # "none" /\ folder[f] \in D THEN "gone" ELSE files[f]]
        /\ UNCHANGED <<parent, folder, dpc, fpc, delPending, delSent>>
    BY <1>8 DEF DeleteDir
  <2>2. Spent' = Spent /\ Due' = Due /\ Told' = Told
    BY <2>1 DEF Spent, Due, Told
  <2>3. CASE d \notin dirs
    <3>1. UNCHANGED <<dirs, files>>
      BY <2>1, <2>3, SubtreeOfNone DEF TypeOK
    <3> QED
      BY <2>1, <2>2, <3>1, SameView
  <2>4. CASE d \in dirs
    <3>1. D \in SUBSET dirs /\ Catalog!Below(d, D)
      BY <2>4, SubtreeIsBelow
    <3>2. Tree' = Catalog!Restriction(Tree, D)
      BY <2>1 DEF Tree, Catalog!Restriction
    <3>3. Rows' = Catalog!Restriction(Rows, {f \in DOMAIN Rows : Rows[f].dir \in D})
      BY <2>1 DEF TypeOK, Rows, HasRow, Catalog!Restriction
    <3>4. Catalog!DeleteDir(d, D)
      BY <2>2, <3>1, <3>2, <3>3 DEF Catalog!DeleteDir
    <3>5. DOMAIN Tree = dirs
      BY DEF Tree
    <3> HIDE DEF d, D
    <3> QED
      BY <2>4, <3>1, <3>4, <3>5 DEF Catalog!Next
  <2> QED
    BY <2>3, <2>4
<1>9. ASSUME NEW f \in Files, PublishDeleted(f) PROVE Catalog!Next
  <2>1. /\ delPending[f] = 1 /\ delSent[f] = 0
        /\ delPending' = [delPending EXCEPT ![f] = 0] /\ delSent' = [delSent EXCEPT ![f] = 1]
        /\ UNCHANGED <<dirs, parent, files, folder, dpc, fpc>>
    <3>1. delPending[f] = 1 /\ delSent[f] = 0
      BY <1>9, OneOrNone DEF PublishDeleted
    <3> QED
      BY <1>9, <3>1 DEF PublishDeleted, dirVars, fileVars
  <2>2. Due' = Due \ {f} /\ Told' = Told \cup {f} /\ f \in Due /\ f \notin Told
    BY <2>1 DEF TypeOK, Due, Told
  <2>3. Tree' = Tree /\ Rows' = Rows /\ Spent' = Spent
    BY <2>1 DEF Tree, Rows, HasRow, Spent
  <2>4. Catalog!Announce(f)
    BY <2>2, <2>3 DEF Catalog!Announce
  <2> QED
    BY <2>4 DEF Catalog!Next
<1>10. ASSUME NEW f \in Files, LoseDeleted(f) PROVE Catalog!Next
  <2>1. /\ delPending[f] = 1 /\ delPending' = [delPending EXCEPT ![f] = 0]
        /\ UNCHANGED <<dirs, parent, files, folder, dpc, fpc, delSent>>
    <3>1. delPending[f] = 1
      BY <1>10, OneOrNone DEF LoseDeleted
    <3> QED
      BY <1>10, <3>1 DEF LoseDeleted, dirVars, fileVars
  <2>2. Due' = Due \ {f} /\ Told' = Told
    BY <2>1 DEF TypeOK, Due, Told
  <2>3. Tree' = Tree /\ Rows' = Rows /\ Spent' = Spent
    BY <2>1 DEF Tree, Rows, HasRow, Spent
  <2>4. Catalog!Fail({}, {f})
    BY <2>2, <2>3 DEF Catalog!Fail
  <2> QED
    BY <2>4 DEF Catalog!Next
<1>11. ASSUME Crash PROVE Catalog!Next
  <2> DEFINE ids == {d \in Dirs : dpc[d] = "inserting"} \cup {f \in Files : fpc[f] \in {"inserting", "abandoned"}}
  <2>1. Spent' = Spent \cup ids
    BY <1>11 DEF TypeOK, Crash, Spent
  <2>2. Due' = Due \ Due /\ Told' = Told /\ Due \subseteq Files
    BY <1>11 DEF Crash, Due, Told
  <2>3. Tree' = Tree /\ Rows' = Rows
    BY <1>11 DEF Crash, Tree, Rows, HasRow
  <2>4. Catalog!Fail(ids, Due)
    BY <2>1, <2>2, <2>3 DEF Catalog!Fail
  <2> QED
    BY <2>2, <2>4 DEF Catalog!Next
<1>12. ASSUME NEW c \in Calls,
              CallBegins(c) \/ ListFiles(c) \/ DeleteDirFails(c) \/ ReadSubDirs(c)
                \/ ReadFiles(c) \/ Respond(c) \/ GetDirFails(c) \/ ReadRow(c)
                \/ StreamObject(c) \/ DownloadFails(c)
       PROVE  UNCHANGED Catalog!vars
  <2>1. UNCHANGED <<dpc, parent, dirs, fpc, folder, files, delPending, delSent>>
    BY <1>12
    DEF CallBegins, BeginDeleteFile, BeginDownload, BeginDeleteDir, BeginGetDir, ListFiles,
        DeleteDirFails, ReadSubDirs, ReadFiles, Respond, GetDirFails, ReadRow,
        StreamObject, DownloadFails
  <2> QED
    BY <2>1, SameView DEF Spent
<1>13. ASSUME NEW f \in Files, PublishUploaded(f) \/ LoseUploaded(f) \/ HandleDeleted(f)
       PROVE  UNCHANGED Catalog!vars
  BY <1>13, SameView DEF PublishUploaded, LoseUploaded, HandleDeleted, Spent
<1>14. CASE UNCHANGED vars
  BY <1>14, SameView DEF vars, Spent
<1> QED
  BY <1>1, <1>2, <1>3, <1>4, <1>5, <1>6, <1>7, <1>8, <1>9, <1>10, <1>11, <1>12, <1>13, <1>14
  DEF Next, CallStep, DirStep, FileStep, EventStep

\* The services, their statements and the schema together keep CatalogContract: every
\* request takes effect at one moment or not at all (directoryService, fileService).
THEOREM CatalogImplementsContract == Spec => ImplementsCatalog
<1>1. Init => Catalog!Init
  BY DEF Init, Catalog!Init, Tree, Rows, HasRow, Spent, Due, Told, BeforeInsert
<1> QED
  BY <1>1, Inductive, StepCatalog, PTL DEF Spec, ImplementsCatalog, Catalog!Spec

=============================================================================
