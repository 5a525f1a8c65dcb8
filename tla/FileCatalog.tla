----------------------------- MODULE FileCatalog -----------------------------
(* The tables directories and files, the objects in MinIO and the events       *)
(* file.uploaded and file.deleted, under concurrent requests: creation and     *)
(* deletion of directories and the listing of their contents                   *)
(* (service/directory), upload, download and deletion of files (service/file), *)
(* and the consumer of file.deleted. A request makes several calls of          *)
(* PostgreSQL, each a statement of its own and a step here.                    *)
(*                                                                             *)
(* An id stands for the request that draws it (uuid.New): the user and the     *)
(* name it is created with are fixed, where it is put is chosen when it runs.  *)
EXTENDS Naturals

CONSTANTS Dirs,      \* ids of directories
          Files,     \* ids of files
          Users,
          UserOf,    \* the user whose request draws an id
          NameOf,    \* the name asked for a directory
          Root,      \* parent_id IS NULL
          Calls,     \* concurrent requests that delete, download or list
          Nothing,   \* what an idle call works on, where an unborn id is put
          Faults     \* what may go wrong

\* "database"     a statement may fail without effect
\* "databaseAck"  a statement may fail after it was committed
\* "storage"      GetObject may fail
\* "disconnect"   an uploading client may leave before it is answered
\* "broker"       an event may be lost on its way to Kafka
\* "crash"        the process may die and be started again
FaultKinds ==
  {"database", "databaseAck", "storage", "disconnect", "broker", "crash"}

ASSUME UserOfAssumption == UserOf \in [Dirs \cup Files -> Users]
ASSUME IdsAssumption == Dirs \cap Files = {}  \* uuid.New never returns an id again
ASSUME NameOfAssumption == DOMAIN NameOf = Dirs
ASSUME RootAssumption == Root \notin Dirs \cup {Nothing}
ASSUME NothingAssumption == Nothing \notin Dirs \cup Files
ASSUME FaultsAssumption == Faults \subseteq FaultKinds

VARIABLES
  dpc,       \* the request that creates each directory
  parent,    \* its parent_id
  dirs,      \* rows of directories
  fpc,       \* the upload of each file
  folder,    \* its directory_id
  files,     \* its row in files: none yet, live, soft-deleted, or gone with a directory
  objects,   \* files whose object is in MinIO
  upPending, upSent,     \* file.uploaded: goroutines yet to publish, events in Kafka
  delPending, delSent,   \* file.deleted: the same, counted for each file
  handled,   \* files whose file.deleted event the consumer has handled
  pc,        \* what each of these calls is about to do
  target,    \* the directory or file it works on
  listed,    \* the files a directory's deletion or listing has read
  subdirs    \* the directories a listing has read

dirVars  == <<dpc, parent, dirs>>
fileVars == <<fpc, folder, files>>
upVars   == <<upPending, upSent>>
delVars  == <<delPending, delSent, handled>>
callVars == <<pc, target, listed, subdirs>>
vars == <<dirVars, fileVars, objects, upVars, delVars, callVars>>

Init ==
  /\ dpc = [d \in Dirs |-> "new"]
  /\ parent = [d \in Dirs |-> Nothing]
  /\ dirs = {}
  /\ fpc = [f \in Files |-> "new"]
  /\ folder = [f \in Files |-> Nothing]
  /\ files = [f \in Files |-> "none"]
  /\ objects = {}
  /\ upPending = {} /\ upSent = {}
  /\ delPending = [f \in Files |-> 0]
  /\ delSent = [f \in Files |-> 0]
  /\ handled = {}
  /\ pc = [c \in Calls |-> "idle"]
  /\ target = [c \in Calls |-> Nothing]
  /\ listed = [c \in Calls |-> {}]
  /\ subdirs = [c \in Calls |-> {}]

-----------------------------------------------------------------------------
(* The tables.                                                                 *)

\* deleted_at IS NULL
Live(f) == files[f] = "live"

\* The directories below d and d itself: what WITH RECURSIVE and ON DELETE
\* CASCADE reach along parent_id; nothing if d is gone.
Subtree(d) ==
  {e \in dirs :
     d \in dirs /\ \A S \in SUBSET dirs :
       d \in S /\ (\A x \in dirs : parent[x] \in S => x \in S) => e \in S}

\* UNIQUE(user_id, parent_id, name) never compares rows whose parent_id is NULL.
NameTaken(d) ==
  /\ parent[d] # Root
  /\ \E e \in dirs :
       UserOf[e] = UserOf[d] /\ parent[e] = parent[d] /\ NameOf[e] = NameOf[d]

Begin(c, step, id) ==
  /\ pc[c] = "idle"
  /\ pc' = [pc EXCEPT ![c] = step]
  /\ target' = [target EXCEPT ![c] = id]
  /\ UNCHANGED <<listed, subdirs>>

Goto(c, step) ==
  /\ pc' = [pc EXCEPT ![c] = step]
  /\ UNCHANGED target

\* mutant: the request's data survives it
ReturnKeepingTarget(c) ==
  /\ pc' = [pc EXCEPT ![c] = "idle"]
  /\ listed' = [listed EXCEPT ![c] = {}]
  /\ subdirs' = [subdirs EXCEPT ![c] = {}]
  /\ UNCHANGED target

Return(c) ==
  /\ pc' = [pc EXCEPT ![c] = "idle"]
  /\ target' = [target EXCEPT ![c] = Nothing]
  /\ listed' = [listed EXCEPT ![c] = {}]
  /\ subdirs' = [subdirs EXCEPT ![c] = {}]

-----------------------------------------------------------------------------
(* directoryService.Create                                                     *)

\* mutant: the client names the id, and what is there is put elsewhere (ON CONFLICT)
BeginCreateDirAgain(d, p) ==
  /\ dpc[d] \in {"new", "done"}
  /\ p = Root \/ (p \in dirs /\ UserOf[p] = UserOf[d])
  /\ dpc' = [dpc EXCEPT ![d] = "inserting"]
  /\ parent' = [parent EXCEPT ![d] = p]
  /\ UNCHANGED <<dirs, fileVars, objects, upVars, delVars, callVars>>

\* mutant: the parent's owner is not compared
BeginCreateDirAnywhere(d, p) ==
  /\ dpc[d] = "new"
  /\ p = Root \/ p \in dirs
  /\ dpc' = [dpc EXCEPT ![d] = "inserting"]
  /\ parent' = [parent EXCEPT ![d] = p]
  /\ UNCHANGED <<dirs, fileVars, objects, upVars, delVars, callVars>>

\* The parent, if one is named, exists and belongs to the user.
BeginCreateDir(d, p) ==
  /\ dpc[d] = "new"
  /\ p = Root \/ (p \in dirs /\ UserOf[p] = UserOf[d])
  /\ dpc' = [dpc EXCEPT ![d] = "inserting"]
  /\ parent' = [parent EXCEPT ![d] = p]
  /\ UNCHANGED <<dirs, fileVars, objects, upVars, delVars, callVars>>

\* mutant: parent_id without REFERENCES
InsertDirAnywhere(d) ==
  /\ dpc[d] = "inserting"
  /\ dpc' = [dpc EXCEPT ![d] = "done"]
  /\ IF ~NameTaken(d) THEN dirs' = dirs \cup {d} ELSE UNCHANGED dirs
  /\ UNCHANGED <<parent, fileVars, objects, upVars, delVars, callVars>>

\* INSERT: the foreign key and the unique index are checked again.
InsertDir(d) ==
  /\ dpc[d] = "inserting"
  /\ dpc' = [dpc EXCEPT ![d] = "done"]
  /\ IF (parent[d] = Root \/ parent[d] \in dirs) /\ ~NameTaken(d)
     THEN dirs' = dirs \cup {d}
     ELSE UNCHANGED dirs
  /\ UNCHANGED <<parent, fileVars, objects, upVars, delVars, callVars>>

\* The statement fails, or its reply is lost; the answer is an error either way,
\* and a lost reply differs from success in nothing the tables show.
InsertDirFails(d) ==
  /\ dpc[d] = "inserting"
  /\ "database" \in Faults
  /\ dpc' = [dpc EXCEPT ![d] = "done"]
  /\ UNCHANGED <<parent, dirs, fileVars, objects, upVars, delVars, callVars>>

-----------------------------------------------------------------------------
(* fileService.Upload, up to PutObject, and from the INSERT on. The directory  *)
(* is whatever id the client sent.                                             *)

PutObject(f, d) ==
  /\ fpc[f] = "new"
  /\ fpc' = [fpc EXCEPT ![f] = "inserting"]
  /\ folder' = [folder EXCEPT ![f] = d]
  /\ objects' = objects \cup {f}
  /\ UNCHANGED <<files, dirVars, upVars, delVars, callVars>>

\* The worker does not know whether the client still waits.
InsertBegins(f) == fpc[f] \in {"inserting", "abandoned"}
InsertEnds(f, how) ==
  fpc' = [fpc EXCEPT ![f] = IF fpc[f] = "abandoned" THEN "left" ELSE how]

\* The worker's INSERT: the foreign key is all that is checked of the directory.
InsertFile(f) ==
  /\ InsertBegins(f)
  /\ IF folder[f] \in dirs
     THEN files' = [files EXCEPT ![f] = "live"] /\ InsertEnds(f, "inserted")
     ELSE UNCHANGED files /\ InsertEnds(f, "failing")
  /\ UNCHANGED <<folder, upVars, dirVars, objects, delVars, callVars>>

InsertFileFails(f) ==
  /\ InsertBegins(f)
  /\ InsertEnds(f, "failing")
  /\ \/ "database" \in Faults /\ UNCHANGED files
     \/ /\ "databaseAck" \in Faults /\ folder[f] \in dirs
        /\ files' = [files EXCEPT ![f] = "live"]
  /\ UNCHANGED <<folder, upVars, dirVars, objects, delVars, callVars>>

\* The handler's select takes the result from errCh; only a 201 starts the publishing
\* goroutine.
AnswerUpload(f) ==
  /\ \/ /\ fpc[f] = "inserted"
        /\ fpc' = [fpc EXCEPT ![f] = "created"]
        /\ upPending' = upPending \cup {f}
     \/ /\ fpc[f] = "failing"
        /\ fpc' = [fpc EXCEPT ![f] = "failed"]
        /\ UNCHANGED upPending
  /\ UNCHANGED <<folder, files, upSent, dirVars, objects, delVars, callVars>>

\* case <-ctx.Done(): the client leaves, at any moment; the job goes on, and its row may
\* come when nobody waits for it. (Before PutObject is as good as after it.)
LeaveUpload(f) ==
  /\ "disconnect" \in Faults
  /\ \/ fpc[f] = "inserting" /\ fpc' = [fpc EXCEPT ![f] = "abandoned"]
     \/ fpc[f] \in {"inserted", "failing"} /\ fpc' = [fpc EXCEPT ![f] = "left"]
  /\ UNCHANGED <<folder, files, upVars, dirVars, objects, delVars, callVars>>

-----------------------------------------------------------------------------
(* fileService.Delete                                                          *)

\* GetByID finds the live row, and it is the user's.
BeginDeleteFile(c, u, f) ==
  /\ Live(f) /\ UserOf[f] = u
  /\ Begin(c, "softDelete", f)
  /\ UNCHANGED <<dirVars, fileVars, objects, upVars, delVars>>

\* mutant: UPDATE without AND deleted_at IS NULL
SoftDeleteAgain(c) ==
  /\ pc[c] = "softDelete"
  /\ LET f == target[c]
     IN  IF files[f] \in {"live", "deleted"}
         THEN /\ files' = [files EXCEPT ![f] = "deleted"]
              /\ delPending' = [delPending EXCEPT ![f] = @ + 1]
         ELSE UNCHANGED <<files, delPending>>
  /\ Return(c)
  /\ UNCHANGED <<fpc, folder, dirVars, objects, upVars, delSent, handled>>

\* The conditional UPDATE: the call that changes the row starts the goroutine
\* that publishes, any other is answered 404.
SoftDelete(c) ==
  /\ pc[c] = "softDelete"
  /\ LET f == target[c]
     IN  IF Live(f)
         THEN /\ files' = [files EXCEPT ![f] = "deleted"]
              /\ delPending' = [delPending EXCEPT ![f] = @ + 1]
         ELSE UNCHANGED <<files, delPending>>
  /\ Return(c)
  /\ UNCHANGED <<fpc, folder, dirVars, objects, upVars, delSent, handled>>

SoftDeleteFails(c) ==
  /\ pc[c] = "softDelete"
  /\ \/ "database" \in Faults /\ UNCHANGED files
     \/ /\ "databaseAck" \in Faults /\ Live(target[c])
        /\ files' = [files EXCEPT ![target[c]] = "deleted"]
  /\ Return(c)
  /\ UNCHANGED <<fpc, folder, dirVars, objects, upVars, delVars>>

-----------------------------------------------------------------------------
(* directoryService.Delete                                                     *)

\* GetByID, and the directory is the user's.
BeginDeleteDir(c, u, d) ==
  /\ d \in dirs /\ UserOf[d] = u
  /\ Begin(c, "listFiles", d)
  /\ UNCHANGED <<dirVars, fileVars, objects, upVars, delVars>>

\* ListAllRecursive: the user's live files in the subtree, all of one user.
ListFiles(c) ==
  /\ pc[c] = "listFiles"
  /\ LET d == target[c]
     IN  listed' = [listed EXCEPT ![c] =
                      {f \in Files : /\ Live(f) /\ UserOf[f] = UserOf[d]
                                     /\ folder[f] \in Subtree(d)}]
  /\ Goto(c, "deleteDir")
  /\ UNCHANGED <<subdirs, dirVars, fileVars, objects, upVars, delVars>>

\* mutant: files.directory_id does not cascade
DeleteDirKeepsFiles(c) ==
  /\ pc[c] = "deleteDir"
  /\ dirs' = dirs \ Subtree(target[c])
  /\ Return(c)
  /\ UNCHANGED <<dpc, parent, fileVars, objects, upVars, delVars>>

\* DELETE with its cascades, then a line in the log for each listed file.
DeleteDir(c) ==
  /\ pc[c] = "deleteDir"
  /\ LET doomed == Subtree(target[c])
     IN  /\ dirs' = dirs \ doomed
         /\ files' = [f \in Files |->
                        IF files[f] # "none" /\ folder[f] \in doomed THEN "gone" ELSE files[f]]
  /\ Return(c)
  /\ UNCHANGED <<dpc, parent, fpc, folder, objects, upVars, delVars>>

\* A statement of the request fails. A reply lost after the DELETE committed is
\* DeleteDir itself: it differs only in the log.
DeleteDirFails(c) ==
  /\ pc[c] \in {"listFiles", "deleteDir"}
  /\ "database" \in Faults
  /\ Return(c)
  /\ UNCHANGED <<dirVars, fileVars, objects, upVars, delVars>>

-----------------------------------------------------------------------------
(* directoryService.Get: after GetByID, two goroutines of an errgroup read the  *)
(* subdirectories and the files, in either order.                              *)

BeginGetDir(c, u, d) ==
  /\ d \in dirs /\ UserOf[d] = u
  /\ Begin(c, "readBoth", d)
  /\ UNCHANGED <<dirVars, fileVars, objects, upVars, delVars>>

\* ListSubDirs
ReadSubDirs(c) ==
  /\ pc[c] \in {"readBoth", "readSubDirs"}
  /\ subdirs' = [subdirs EXCEPT ![c] =
                   {e \in dirs : UserOf[e] = UserOf[target[c]] /\ parent[e] = target[c]}]
  /\ Goto(c, IF pc[c] = "readBoth" THEN "readFiles" ELSE "respond")
  /\ UNCHANGED <<listed, dirVars, fileVars, objects, upVars, delVars>>

\* mutant: ListByDirectory without AND user_id = $2
ReadFilesOfAll(c) ==
  /\ pc[c] \in {"readBoth", "readFiles"}
  /\ listed' = [listed EXCEPT ![c] = {f \in Files : Live(f) /\ folder[f] = target[c]}]
  /\ Goto(c, IF pc[c] = "readBoth" THEN "readSubDirs" ELSE "respond")
  /\ UNCHANGED <<subdirs, dirVars, fileVars, objects, upVars, delVars>>

\* ListByDirectory
ReadFiles(c) ==
  /\ pc[c] \in {"readBoth", "readFiles"}
  /\ listed' = [listed EXCEPT ![c] =
                  {f \in Files : /\ Live(f) /\ UserOf[f] = UserOf[target[c]]
                                 /\ folder[f] = target[c]}]
  /\ Goto(c, IF pc[c] = "readBoth" THEN "readSubDirs" ELSE "respond")
  /\ UNCHANGED <<subdirs, dirVars, fileVars, objects, upVars, delVars>>

Respond(c) ==
  /\ pc[c] = "respond"
  /\ Return(c)
  /\ UNCHANGED <<dirVars, fileVars, objects, upVars, delVars>>

\* One query fails: g.Wait returns its error, whatever the other has read.
GetDirFails(c) ==
  /\ pc[c] \in {"readBoth", "readSubDirs", "readFiles"}
  /\ "database" \in Faults
  /\ Return(c)
  /\ UNCHANGED <<dirVars, fileVars, objects, upVars, delVars>>

-----------------------------------------------------------------------------
(* FileHandler.Download: GetMeta reads the row for the headers, then           *)
(* fileService.Download reads it again and streams the object.                 *)

BeginDownload(c, u, f) ==
  /\ Live(f) /\ UserOf[f] = u
  /\ Begin(c, "readRow", f)
  /\ UNCHANGED <<dirVars, fileVars, objects, upVars, delVars>>

ReadRow(c) ==
  /\ pc[c] = "readRow"
  /\ IF Live(target[c])
     THEN Goto(c, "openObject") /\ UNCHANGED <<listed, subdirs>>
     ELSE Return(c)
  /\ UNCHANGED <<dirVars, fileVars, objects, upVars, delVars>>

StreamObject(c) ==
  /\ pc[c] = "openObject"
  /\ target[c] \in objects
  /\ Return(c)
  /\ UNCHANGED <<dirVars, fileVars, objects, upVars, delVars>>

DownloadFails(c) ==
  /\ \/ pc[c] = "readRow" /\ "database" \in Faults
     \/ pc[c] = "openObject" /\ ("storage" \in Faults \/ target[c] \notin objects)
  /\ Return(c)
  /\ UNCHANGED <<dirVars, fileVars, objects, upVars, delVars>>

-----------------------------------------------------------------------------
(* Events.                                                                     *)

PublishUploaded(f) ==
  /\ f \in upPending
  /\ upPending' = upPending \ {f}
  /\ upSent' = upSent \cup {f}
  /\ UNCHANGED <<dirVars, fileVars, objects, delVars, callVars>>

PublishDeleted(f) ==
  /\ delPending[f] > 0
  /\ delPending' = [delPending EXCEPT ![f] = @ - 1]
  /\ delSent' = [delSent EXCEPT ![f] = @ + 1]
  /\ UNCHANGED <<dirVars, fileVars, objects, upVars, handled, callVars>>

LoseUploaded(f) ==
  /\ f \in upPending /\ "broker" \in Faults
  /\ upPending' = upPending \ {f}
  /\ UNCHANGED <<dirVars, fileVars, objects, upSent, delVars, callVars>>

LoseDeleted(f) ==
  /\ delPending[f] > 0 /\ "broker" \in Faults
  /\ delPending' = [delPending EXCEPT ![f] = @ - 1]
  /\ UNCHANGED <<dirVars, fileVars, objects, upVars, delSent, handled, callVars>>

\* mutant: storage.Delete as the comment has it, before the row's readers are done
HandleDeletedByRemoving(f) ==
  /\ delSent[f] > 0 /\ f \notin handled
  /\ handled' = handled \cup {f}
  /\ objects' = objects \ {f}
  /\ UNCHANGED <<dirVars, fileVars, upVars, delPending, delSent, callVars>>

\* handleFileDeleted logs the event.
HandleDeleted(f) ==
  /\ delSent[f] > 0 /\ f \notin handled
  /\ handled' = handled \cup {f}
  /\ UNCHANGED <<dirVars, fileVars, objects, upVars, delPending, delSent, callVars>>

Uploading == {"inserting", "abandoned", "inserted", "failing"}

\* The process dies: its requests and its unpublished events with it.
Crash ==
  /\ "crash" \in Faults
  /\ dpc' = [d \in Dirs |-> IF dpc[d] = "inserting" THEN "done" ELSE dpc[d]]
  /\ fpc' = [f \in Files |->
               IF fpc[f] \in Uploading THEN "aborted" ELSE fpc[f]]
  /\ upPending' = {}
  /\ delPending' = [f \in Files |-> 0]
  /\ pc' = [c \in Calls |-> "idle"]
  /\ target' = [c \in Calls |-> Nothing]
  /\ listed' = [c \in Calls |-> {}]
  /\ subdirs' = [c \in Calls |-> {}]
  /\ UNCHANGED <<parent, dirs, folder, files, objects, upSent, delSent, handled>>

-----------------------------------------------------------------------------
CallBegins(c) ==
  \E u \in Users :
    \/ \E f \in Files : BeginDeleteFile(c, u, f) \/ BeginDownload(c, u, f)
    \/ \E d \in Dirs : BeginDeleteDir(c, u, d) \/ BeginGetDir(c, u, d)

CallStep(c) ==
  \/ SoftDelete(c) \/ SoftDeleteFails(c)
  \/ ListFiles(c) \/ DeleteDir(c) \/ DeleteDirFails(c)
  \/ ReadSubDirs(c) \/ ReadFiles(c) \/ Respond(c) \/ GetDirFails(c)
  \/ ReadRow(c) \/ StreamObject(c) \/ DownloadFails(c)

DirStep(d) ==
  \/ \E p \in Dirs \cup {Root} : BeginCreateDir(d, p)
  \/ InsertDir(d) \/ InsertDirFails(d)

FileStep(f) ==
  \/ \E d \in Dirs : PutObject(f, d)
  \/ InsertFile(f) \/ InsertFileFails(f)
  \/ AnswerUpload(f) \/ LeaveUpload(f)

EventStep(f) ==
  \/ PublishUploaded(f) \/ LoseUploaded(f)
  \/ PublishDeleted(f) \/ LoseDeleted(f)
  \/ HandleDeleted(f)

Next ==
  \/ \E c \in Calls : CallBegins(c) \/ CallStep(c)
  \/ \E d \in Dirs : DirStep(d)
  \/ \E f \in Files : FileStep(f) \/ EventStep(f)
  \/ Crash

Spec == Init /\ [][Next]_vars

-----------------------------------------------------------------------------
(* Safety.                                                                     *)

FileSteps == {"softDelete", "readRow", "openObject"}
GetSteps  == {"readBoth", "readSubDirs", "readFiles", "respond"}
DirSteps  == {"listFiles", "deleteDir"} \cup GetSteps
BeforeInsert == {"new", "inserting", "abandoned"}
Answers      == {"created", "failed", "left", "aborted"}

\* Types; a call has a target exactly while it runs.
TypeOK ==
  /\ dpc \in [Dirs -> {"new", "inserting", "done"}]
  /\ parent \in [Dirs -> Dirs \cup {Root, Nothing}]
  /\ dirs \subseteq Dirs
  /\ fpc \in [Files -> {"new"} \cup Uploading \cup Answers]
  /\ folder \in [Files -> Dirs \cup {Nothing}]
  /\ files \in [Files -> {"none", "live", "deleted", "gone"}]
  /\ objects \subseteq Files
  /\ upPending \subseteq Files /\ upSent \subseteq Files
  /\ delPending \in [Files -> Nat] /\ delSent \in [Files -> Nat]
  /\ handled \subseteq Files
  /\ pc \in [Calls -> {"idle"} \cup FileSteps \cup DirSteps]
  /\ target \in [Calls -> Dirs \cup Files \cup {Nothing}]
  /\ listed \in [Calls -> SUBSET Files]
  /\ subdirs \in [Calls -> SUBSET Dirs]
  /\ \A c \in Calls :
       /\ pc[c] = "idle" => target[c] = Nothing
       /\ pc[c] \in FileSteps => target[c] \in Files
       /\ pc[c] \in DirSteps => target[c] \in Dirs

\* The directories are a forest, each tree of one user, whatever is created and
\* deleted between the check of the parent and the INSERT.
TreesOfOneUser ==
  \A d \in dirs : parent[d] = Root \/ (parent[d] \in dirs /\ UserOf[parent[d]] = UserOf[d])

\* No directory is below itself, however creations and deletions overlap: every set
\* of directories has one whose parent is outside of it. WITH RECURSIVE ... UNION ALL
\* goes down such a tree and ends.
NoCycles == \A S \in SUBSET dirs : S # {} => \E d \in S : parent[d] \notin S

\* Every file row, soft-deleted or not, is in a directory that exists: an upload
\* never lands in a directory whose deletion it overlapped.
RowsHaveDirectory == \A f \in Files : files[f] \in {"live", "deleted"} => folder[f] \in dirs

\* What the tables promise together, to every query that follows a reference.
TablesSound == TreesOfOneUser /\ NoCycles /\ RowsHaveDirectory

\* No two subdirectories of one directory have one name.
SubdirNamesUnique ==
  \A d, e \in dirs :
    d # e /\ parent[d] = parent[e] /\ parent[d] # Root =>
      UserOf[d] # UserOf[e] \/ NameOf[d] # NameOf[e]

\* However many requests delete a file, file.deleted is published at most once,
\* and never for a file that can still be downloaded.
OneDeletionEvent ==
  \A f \in Files :
    /\ delPending[f] + delSent[f] <= 1
    /\ delPending[f] + delSent[f] = 1 => files[f] \in {"deleted", "gone"}

\* A download that has found the row finds the object, even if the file is
\* deleted before it gets there.
ObjectForStream ==
  /\ \A c \in Calls : pc[c] = "openObject" => target[c] \in objects
  /\ \A f \in Files : Live(f) => f \in objects

\* A directory's contents are its own user's, although an upload may name
\* anybody's directory, and were put into it, whatever happens between the reads.
ContentsAreOwn ==
  \A c \in Calls : pc[c] \in GetSteps =>
    /\ \A f \in listed[c] : UserOf[f] = UserOf[target[c]] /\ folder[f] = target[c]
    /\ \A e \in subdirs[c] : UserOf[e] = UserOf[target[c]] /\ parent[e] = target[c]

-----------------------------------------------------------------------------
(* The catalogue implements CatalogContract.                                   *)

HasRow(f) == files[f] \in {"live", "deleted"}

Tree  == [d \in dirs |-> parent[d]]
Rows  == [f \in {g \in Files : HasRow(g)} |-> [dir |-> folder[f], live |-> Live(f)]]
Spent == {d \in Dirs : dpc[d] = "done"} \cup {f \in Files : fpc[f] \notin BeforeInsert}
Due   == {f \in Files : delPending[f] > 0}
Told  == {f \in Files : delSent[f] > 0}

Catalog == INSTANCE CatalogContract WITH
  tree <- Tree, rows <- Rows, spent <- Spent, due <- Due, told <- Told

\* However the statements of overlapping requests interleave and fail, each request
\* takes effect at one moment, as a whole or not at all.
ImplementsCatalog == Catalog!Spec

-----------------------------------------------------------------------------
(* The inductive invariant behind the safety properties.                       *)

\* A directory has no row before its INSERT, and its parent was checked by then.
DirsChecked ==
  \A d \in Dirs :
    /\ dpc[d] # "done" => d \notin dirs
    /\ dpc[d] # "new" =>
         parent[d] = Root \/ (parent[d] \in Dirs /\ UserOf[parent[d]] = UserOf[d])

\* A file has no row before its INSERT, and its object was stored by then.
FilesStored ==
  \A f \in Files :
    /\ fpc[f] \in BeforeInsert => files[f] = "none"
    /\ fpc[f] # "new" => f \in objects

\* What a call has read was in the tables, and it begins with nothing read.
ReadsSettled ==
  \A c \in Calls :
    /\ pc[c] = "idle" => listed[c] = {} /\ subdirs[c] = {}
    /\ \A f \in listed[c] : fpc[f] \notin BeforeInsert
    /\ \A e \in subdirs[c] : dpc[e] = "done"

IInv ==
  /\ TypeOK
  /\ DirsChecked
  /\ FilesStored
  /\ TreesOfOneUser
  /\ NoCycles
  /\ RowsHaveDirectory
  /\ SubdirNamesUnique
  /\ OneDeletionEvent
  /\ ObjectForStream
  /\ ReadsSettled
  /\ ContentsAreOwn
=============================================================================
