-------------------------------- MODULE Files --------------------------------
(***************************************************************************)
(* The files of one space in the three stores that hold them, the File     *)
(* table, S3 and OpenAI, with the requests that upload, refresh and remove *)
(* them and the one that deletes the space: FileService,                   *)
(* FileProgressService, S3FileStorageService, OpenAiVectorStoreService and *)
(* SpaceService.delete.                                                    *)
(*                                                                         *)
(* A file id stands for the row, for the S3 key and for the OpenAI file:   *)
(* each record gets a key and at most one OpenAI file of its own.  Every   *)
(* statement on the database and every call to S3 or OpenAI is a step.     *)
(* Membership checks are not modelled here (see Invitations).              *)
(***************************************************************************)
EXTENDS Naturals

CONSTANTS
    FileIds,   \* primary keys of File
    Requests,  \* requests in flight at the same time
    None,      \* null, or no row
    MaxBatch,  \* bound: files of one upload
    Faults,    \* the calls that may fail
    Crashes    \* whether the process may die

Calls == {"db", "s3Put", "s3Delete", "fileCreate", "index", "fileDelete"}

Status == {"PROCESSING", "SUCCESS", "FAILED"}
Ingestion == {"absent", "completed", "failed"}

Row == [status : Status,
        openAi : BOOLEAN,   \* openAiFileId is set
        error : BOOLEAN]    \* error is set

Statements ==
    {"createRow", "s3Put", "s3Cleanup", "fileCreate", "index", "markDone",
     "markFailed", "poll", "setStatus", "next", "s3Delete", "unindex",
     "fileDelete", "deleteRow", "noteError", "dropStore", "dropSpace"}

Request == [pc : Statements,
            file : FileIds \union {None},
            left : 0 .. MaxBatch,      \* uploads still to do, this one included
            todo : SUBSET FileIds,     \* removals still to do
            known : SUBSET FileIds,    \* openAiFileId was set when read
            batch : BOOLEAN,           \* removeMany, not remove
            status : Status]

ASSUME FilesAssumption ==
    /\ None \notin FileIds /\ None \notin Row /\ None \notin Request
    /\ None \notin Nat
    /\ MaxBatch \in Nat \ {0}
    /\ Faults \subseteq Calls
    /\ Crashes \in BOOLEAN

VARIABLES
    space,     \* the space row exists
    store,     \* its vector store exists
    file,      \* the File table
    s3,        \* the objects in the bucket
    openai,    \* the OpenAI files
    ingested,  \* the state of each file in the vector store
    progress,  \* FileProgressService.uploads
    req,       \* the requests in flight
    used,      \* ids that have been given to a row
    touched,   \* history: files that a removal has begun to take apart
    lost       \* history: files of which something may be stored that no
               \* row knows of any more

vars == <<space, store, file, s3, openai, ingested, progress, req, used,
          touched, lost>>
stored == <<space, store, file, s3, openai, ingested, used>>

Init ==
    /\ space = TRUE /\ store = TRUE
    /\ file = [f \in FileIds |-> None]
    /\ s3 = {} /\ openai = {}
    /\ ingested = [f \in FileIds |-> "absent"]
    /\ progress = [f \in FileIds |-> None]
    /\ req = [r \in Requests |-> None]
    /\ used = {} /\ touched = {} /\ lost = {}
-----------------------------------------------------------------------------
At(r, p) == req[r] # None /\ req[r].pc = p

Blank == [pc |-> "next", file |-> None, left |-> 0, todo |-> {}, known |-> {},
          batch |-> FALSE, status |-> "FAILED"]

Begin(r, c) == req[r] = None /\ req' = [req EXCEPT ![r] = c]
Goto(r, p) == req' = [req EXCEPT ![r].pc = p]
End(r) == req' = [req EXCEPT ![r] = None]

MayFail(call) == call \in Faults

(* The statements of an upload that has a row *)
Uploads == {"s3Put", "s3Cleanup", "fileCreate", "index", "markDone", "markFailed"}
Sends(r, f) == req[r] # None /\ req[r].pc \in Uploads /\ req[r].file = f

Lose(F) == lost' = lost \union F

(* file.update({ where: { id } }) throws when the row is gone. *)
UpdateRow(f, row) == file[f] # None /\ file' = [file EXCEPT ![f] = row]
-----------------------------------------------------------------------------
(* uploadFiles: the space is read, its vector store id taken. *)
Upload(r, n) ==
    /\ space
    /\ Begin(r, [Blank EXCEPT !.pc = "createRow", !.left = n])
    /\ UNCHANGED <<stored, progress, touched, lost>>

(* file.create and, before anything else can run, progress.start.  A file  *)
(* that assertFileValid refuses, a failing insert and a space that has     *)
(* been deleted end the request, whatever it has uploaded already.         *)
CreateRow(r) ==
    /\ At(r, "createRow")
    /\ \/ /\ space
          /\ \E f \in FileIds \ used :
                /\ file' = [file EXCEPT ![f] = [status |-> "PROCESSING",
                                                openAi |-> FALSE,
                                                error |-> FALSE]]
                /\ used' = used \union {f}
                /\ progress' = [progress EXCEPT ![f] = 0]
                /\ req' = [req EXCEPT ![r].pc = "s3Put", ![r].file = f]
       \/ End(r) /\ UNCHANGED <<file, used, progress>>
    /\ UNCHANGED <<space, store, s3, openai, ingested, touched, lost>>

(* A slip: the bytes of the events are added up and never clamped. *)
ProgressEventSum(r) ==
    /\ At(r, "s3Put")
    /\ progress' = [progress EXCEPT ![req[r].file] = @ + 1]
    /\ UNCHANGED <<stored, req, touched, lost>>

(* An httpUploadProgress event: the fraction that has been sent so far *)
ProgressEvent(r) ==
    /\ At(r, "s3Put")
    /\ progress[req[r].file] = 0
    /\ progress' = [progress EXCEPT ![req[r].file] = 1]
    /\ UNCHANGED <<stored, req, touched, lost>>

S3Put(r) ==
    /\ At(r, "s3Put")
    /\ s3' = s3 \union {req[r].file}
    /\ progress' = [progress EXCEPT ![req[r].file] = None]
    /\ Goto(r, "fileCreate")
    /\ UNCHANGED <<space, store, file, openai, ingested, used, touched, lost>>

(* A slip: the progress entry of a failed upload is kept. *)
S3PutFailsKeepsEntry(r) ==
    /\ At(r, "s3Put")
    /\ MayFail("s3Put")
    /\ Goto(r, "s3Cleanup")
    /\ UNCHANGED <<stored, progress, touched, lost>>

(* A slip: the catch block does not leave the iteration. *)
S3PutFailsGoesOn(r) ==
    /\ At(r, "s3Put")
    /\ MayFail("s3Put")
    /\ progress' = [progress EXCEPT ![req[r].file] = None]
    /\ Goto(r, "fileCreate")
    /\ UNCHANGED <<stored, touched, lost>>

(* The upload fails, perhaps after the object has been stored. *)
S3PutFails(r) ==
    /\ At(r, "s3Put")
    /\ MayFail("s3Put")
    /\ s3' \in {s3, s3 \union {req[r].file}}
    /\ progress' = [progress EXCEPT ![req[r].file] = None]
    /\ Goto(r, "s3Cleanup")
    /\ UNCHANGED <<space, store, file, openai, ingested, used, touched, lost>>

(* storage.delete(..).catch(() => undefined) *)
S3Cleanup(r) ==
    /\ At(r, "s3Cleanup")
    /\ \/ s3' = s3 \ {req[r].file}
       \/ MayFail("s3Delete") /\ s3' = s3
    /\ Goto(r, "markFailed")
    /\ UNCHANGED <<space, store, file, openai, ingested, progress, used, touched, lost>>

(* openAi.uploadFile, first half: files.create, which may fail after the   *)
(* file has been stored.                                                   *)
FileCreate(r) ==
    LET f == req[r].file IN
    /\ At(r, "fileCreate")
    /\ \/ openai' = openai \union {f} /\ Goto(r, "index") /\ UNCHANGED lost
       \/ /\ MayFail("fileCreate")
          /\ \/ UNCHANGED <<openai, lost>>
             \/ openai' = openai \union {f} /\ Lose({f})
          /\ Goto(r, "markFailed")
    /\ UNCHANGED <<space, store, file, s3, ingested, progress, used, touched>>

(* Second half: vectorStores.files.createAndPoll.  A call that throws,     *)
(* whatever becomes of the entry then, a missing store and any status but  *)
(* 'completed' are a failure.  The OpenAI file is not deleted, and its id  *)
(* is gone with the exception.                                             *)
Index(r) ==
    LET f == req[r].file IN
    /\ At(r, "index")
    /\ \/ /\ store
          /\ ingested' = [ingested EXCEPT ![f] = "completed"]
          /\ Goto(r, "markDone")
          /\ UNCHANGED lost
       \/ /\ ~store \/ MayFail("index")
          /\ \E s \in IF store THEN Ingestion ELSE {ingested[f]} :
                ingested' = [ingested EXCEPT ![f] = s]
          /\ Goto(r, "markFailed")
          /\ Lose({f})
    /\ UNCHANGED <<space, store, file, s3, openai, progress, used, touched>>

(* On to the next file of the upload *)
NextUpload(r) ==
    IF req[r].left > 1
      THEN req' = [req EXCEPT ![r].pc = "createRow", ![r].file = None,
                              ![r].left = @ - 1]
      ELSE End(r)

(* The row gets SUCCESS and the OpenAI file id.  When the update throws,   *)
(* the catch block runs as if the ingestion had failed.                    *)
MarkDone(r) ==
    /\ At(r, "markDone")
    /\ \/ /\ UpdateRow(req[r].file, [status |-> "SUCCESS", openAi |-> TRUE,
                                     error |-> FALSE])
          /\ NextUpload(r)
          /\ UNCHANGED lost
       \/ /\ file[req[r].file] = None \/ MayFail("db")
          /\ Goto(r, "markFailed")
          /\ Lose({req[r].file})
          /\ UNCHANGED file
    /\ UNCHANGED <<space, store, s3, openai, ingested, progress, used, touched>>

(* A slip: a failed upload is not recorded. *)
MarkFailedNot(r) ==
    /\ At(r, "markFailed")
    /\ NextUpload(r)
    /\ UNCHANGED <<stored, progress, touched, lost>>

(* The row gets FAILED; when that throws the request ends. *)
MarkFailed(r) ==
    /\ At(r, "markFailed")
    /\ \/ /\ file[req[r].file] # None
          /\ UpdateRow(req[r].file, [file[req[r].file] EXCEPT !.status = "FAILED",
                                                              !.error = TRUE])
          /\ NextUpload(r)
       \/ /\ file[req[r].file] = None \/ MayFail("db")
          /\ End(r)
          /\ UNCHANGED file
    /\ UNCHANGED <<space, store, s3, openai, ingested, progress, used, touched, lost>>
-----------------------------------------------------------------------------
(* A slip: the missing OpenAI file id is not noticed. *)
RefreshStatusAny(r, f) ==
    /\ file[f] # None
    /\ Begin(r, [Blank EXCEPT !.pc = "poll", !.file = f])
    /\ UNCHANGED <<stored, progress, touched, lost>>

(* refreshStatus: 400 when the row has no OpenAI file id. *)
RefreshStatus(r, f) ==
    /\ file[f] # None
    /\ file[f].openAi
    /\ Begin(r, [Blank EXCEPT !.pc = "poll", !.file = f])
    /\ UNCHANGED <<stored, progress, touched, lost>>

(* mapOpenAiStatus; uploads wait for the end of the ingestion, so an entry *)
(* is never queued or in progress here.                                    *)
MapStatus(s) == IF s = "completed" THEN "SUCCESS" ELSE "FAILED"

(* getFileStatus throws for an entry that is gone. *)
Poll(r) ==
    LET s == ingested[req[r].file] IN
    /\ At(r, "poll")
    /\ IF store /\ s # "absent"
         THEN req' = [req EXCEPT ![r].pc = "setStatus", ![r].status = MapStatus(s)]
         ELSE End(r)
    /\ UNCHANGED <<stored, progress, touched, lost>>

SetFileStatus(r) ==
    LET f == req[r].file IN
    /\ At(r, "setStatus")
    /\ IF file[f] # None
         THEN file' = [file EXCEPT ![f].status = req[r].status,
                                   ![f].error = (req[r].status = "FAILED")]
         ELSE UNCHANGED file
    /\ End(r)
    /\ UNCHANGED <<space, store, s3, openai, ingested, progress, used, touched, lost>>
-----------------------------------------------------------------------------
(* remove and removeMany read their rows first; what they read of the      *)
(* OpenAI file ids is what they work with, though an upload that is still  *)
(* under way may yet store an object and an OpenAI file.                   *)
Remove(r, F, batch) ==
    /\ F # {} /\ \A f \in F : file[f] # None
    /\ Begin(r, [Blank EXCEPT !.todo = F, !.batch = batch,
                              !.known = {f \in F : file[f].openAi}])
    /\ Lose({f \in F : \E q \in Requests : Sends(q, f)})
    /\ UNCHANGED <<stored, progress, touched>>

(* The next file of the list.  In a batch the membership check may skip it. *)
NextRemoval(r) ==
    /\ At(r, "next")
    /\ IF req[r].todo = {} THEN End(r) /\ UNCHANGED touched
       ELSE \E f \in req[r].todo :
              \/ /\ req' = [req EXCEPT ![r].pc = "s3Delete", ![r].file = f,
                                       ![r].todo = @ \ {f}]
                 /\ touched' = touched \union {f}
              \/ /\ req[r].batch
                 /\ req' = [req EXCEPT ![r].todo = @ \ {f}]
                 /\ UNCHANGED touched
    /\ UNCHANGED <<stored, progress, lost>>

(* A failing call ends remove; removeMany notes the error and goes on. *)
RemovalFails(r) == IF req[r].batch THEN Goto(r, "noteError") ELSE End(r)

(* A slip: the OpenAI file is left alone. *)
S3DeleteOnly(r) ==
    /\ At(r, "s3Delete")
    /\ s3' = s3 \ {req[r].file}
    /\ Goto(r, "deleteRow")
    /\ UNCHANGED <<space, store, file, openai, ingested, progress, used, touched, lost>>

S3Delete(r) ==
    LET f == req[r].file IN
    /\ At(r, "s3Delete")
    /\ \/ /\ s3' = s3 \ {f}
          /\ IF f \in req[r].known THEN Goto(r, "unindex") ELSE Goto(r, "deleteRow")
       \/ MayFail("s3Delete") /\ s3' = s3 /\ RemovalFails(r)
    /\ UNCHANGED <<space, store, file, openai, ingested, progress, used, touched, lost>>

(* deleteVectorStoreFile: a 404 counts as done. *)
Unindex(r) ==
    /\ At(r, "unindex")
    /\ \/ /\ ingested' = [ingested EXCEPT ![req[r].file] = "absent"]
          /\ Goto(r, "fileDelete")
       \/ MayFail("fileDelete") /\ UNCHANGED ingested /\ RemovalFails(r)
    /\ UNCHANGED <<space, store, file, s3, openai, progress, used, touched, lost>>

(* deleteOpenAiFile *)
FileDelete(r) ==
    /\ At(r, "fileDelete")
    /\ \/ openai' = openai \ {req[r].file} /\ Goto(r, "deleteRow")
       \/ MayFail("fileDelete") /\ UNCHANGED openai /\ RemovalFails(r)
    /\ UNCHANGED <<space, store, file, s3, ingested, progress, used, touched, lost>>

(* file.delete throws when the row is gone. *)
DeleteRow(r) ==
    /\ At(r, "deleteRow")
    /\ \/ /\ file[req[r].file] # None
          /\ file' = [file EXCEPT ![req[r].file] = None]
          /\ IF req[r].batch THEN Goto(r, "next") ELSE End(r)
       \/ /\ file[req[r].file] = None \/ MayFail("db")
          /\ UNCHANGED file
          /\ RemovalFails(r)
    /\ UNCHANGED <<space, store, s3, openai, ingested, progress, used, touched, lost>>

(* safeUpdateFileError: only the error is written, and a failure ignored. *)
NoteError(r) ==
    LET f == req[r].file IN
    /\ At(r, "noteError")
    /\ \/ /\ file[f] # None
          /\ file' = [file EXCEPT ![f].error = TRUE]
       \/ (file[f] = None \/ MayFail("db")) /\ UNCHANGED file
    /\ Goto(r, "next")
    /\ UNCHANGED <<space, store, s3, openai, ingested, progress, used, touched, lost>>
-----------------------------------------------------------------------------
(* SpaceService.delete: the vector store first, then the row, with which   *)
(* the database deletes the File rows.                                     *)
DeleteSpace(r) ==
    /\ space
    /\ Begin(r, [Blank EXCEPT !.pc = "dropStore"])
    /\ UNCHANGED <<stored, progress, touched, lost>>

DropStore(r) ==
    /\ At(r, "dropStore")
    /\ \/ /\ store' = FALSE
          /\ ingested' = [f \in FileIds |-> "absent"]
          /\ Goto(r, "dropSpace")
       \/ MayFail("fileDelete") /\ UNCHANGED <<store, ingested>> /\ End(r)
    /\ UNCHANGED <<space, file, s3, openai, progress, used, touched, lost>>

DropSpace(r) ==
    /\ At(r, "dropSpace")
    /\ \/ /\ space
          /\ space' = FALSE
          /\ file' = [f \in FileIds |-> None]
       \/ (~space \/ MayFail("db")) /\ UNCHANGED <<space, file>>
    /\ End(r)
    /\ UNCHANGED <<store, s3, openai, ingested, progress, used, touched, lost>>
-----------------------------------------------------------------------------
(* The process dies and restarts: requests and progress are gone, and with *)
(* them the id of an OpenAI file that no row has yet.                      *)
Crash ==
    /\ Crashes
    /\ \E r \in Requests : req[r] # None
    /\ req' = [r \in Requests |-> None]
    /\ progress' = [f \in FileIds |-> None]
    /\ Lose({req[r].file : r \in {q \in Requests :
                                    At(q, "index") \/ At(q, "markDone")}})
    /\ UNCHANGED <<stored, touched>>

Arrive(r) ==
    \/ \E n \in 1 .. MaxBatch : Upload(r, n)
    \/ \E f \in FileIds : RefreshStatus(r, f) \/ Remove(r, {f}, FALSE)
    \/ \E F \in SUBSET FileIds : Remove(r, F, TRUE)
    \/ DeleteSpace(r)

Step(r) ==
    \/ CreateRow(r) \/ S3Put(r) \/ S3PutFails(r) \/ S3Cleanup(r)
    \/ FileCreate(r) \/ Index(r) \/ MarkDone(r) \/ MarkFailed(r)
    \/ Poll(r) \/ SetFileStatus(r)
    \/ NextRemoval(r) \/ S3Delete(r) \/ Unindex(r) \/ FileDelete(r)
    \/ DeleteRow(r) \/ NoteError(r)
    \/ DropStore(r) \/ DropSpace(r)

Next ==
    \/ Crash
    \/ \E r \in Requests : Arrive(r) \/ Step(r) \/ ProgressEvent(r)

Spec == Init /\ [][Next]_vars

(* Every call comes to an end: the clients of Prisma, S3 and OpenAI time   *)
(* out, and the event loop then resumes the request.                       *)
FairSpec == Spec /\ \A r \in Requests : WF_vars(Step(r))
-----------------------------------------------------------------------------
(* The variables keep their types. *)
TypeOK ==
    /\ space \in BOOLEAN /\ store \in BOOLEAN
    /\ file \in [FileIds -> Row \union {None}]
    /\ s3 \in SUBSET FileIds /\ openai \in SUBSET FileIds
    /\ ingested \in [FileIds -> Ingestion]
    /\ progress \in [FileIds -> {None, 0, 1}]
    /\ req \in [Requests -> Request \union {None}]
    /\ used \in SUBSET FileIds /\ touched \in SUBSET FileIds
    /\ lost \in SUBSET FileIds

Idle == \A r \in Requests : req[r] = None

(* A SUCCESS file can be downloaded and searched: unless a removal of it   *)
(* has begun or the vector store is gone, its object is in S3 and its      *)
(* OpenAI file is in the store.                                            *)
SuccessIsBacked ==
    \A f \in FileIds :
        /\ file[f] # None
        /\ file[f].status = "SUCCESS"
        /\ f \notin touched
        /\ store
        => f \in s3 /\ f \in openai /\ ingested[f] = "completed"

(* The progress map holds an entry for exactly the files that a request is *)
(* sending to S3: no entry leaks, and none is dropped early.               *)
ProgressMatchesUploads ==
    \A f \in FileIds :
        progress[f] # None <=> \E r \in Requests : At(r, "s3Put") /\ req[r].file = f

(* Whatever calls fail or overlap, and wherever the process dies, the four *)
(* stores behave as one FileStore: an outcome is final, SUCCESS comes only *)
(* after the object, the object goes only after a removal has begun, a     *)
(* deleted record never comes back.                                        *)
Store == INSTANCE FileStore WITH
    open <- space,
    record <- [f \in FileIds |-> IF f \notin used THEN "new"
                                 ELSE IF file[f] = None THEN "deleted"
                                 ELSE file[f].status],
    object <- s3,
    dying <- touched
ImplementsFileStore == Store!Spec

(* While the space lives and nothing is under way, every object has its    *)
(* row and every OpenAI file a row that has its id, so that a removal can  *)
(* find and delete it.  This holds under every fault, crash and overlap,   *)
(* but for the files of which the code has lost sight: a removal began     *)
(* while they were being uploaded, their ingestion was reported to have    *)
(* failed, or the id of their OpenAI file could not be stored.             *)
StoredIsKnown ==
    Idle /\ space =>
        \A f \in FileIds \ lost :
            /\ f \in s3 => file[f] # None
            /\ f \in openai \/ ingested[f] # "absent" =>
                  file[f] # None /\ file[f].openAi

(* "The record is removed from Prisma, the object is purged from S3, and   *)
(* the associated OpenAI vector store file is deleted": while the space    *)
(* lives and nothing is under way, nothing is stored for a missing record. *)
(* Each of the first two exceptions above breaks it.                       *)
NoOrphans ==
    Idle /\ space =>
        \A f \in FileIds :
            file[f] = None =>
                f \notin s3 /\ f \notin openai /\ ingested[f] = "absent"

(* A file becomes SUCCESS "once OpenAI completes ingestion": its row has   *)
(* the id to ask for when nothing works on it any more.  A crash before    *)
(* the row is updated breaks it.                                           *)
IngestedFileRefreshable ==
    \A f \in FileIds :
        Idle /\ file[f] # None /\ ingested[f] = "completed" => file[f].openAi

(* The deletion of a space is over when its "storage cleanup" is: nothing  *)
(* of its files stays in S3.  The code never deletes them.                 *)
NothingOutlivesSpace == Idle /\ ~space => s3 = {}

(* An upload leaves PROCESSING in the end, one way or the other. *)
UploadSettles ==
    \A f \in FileIds :
        (file[f] # None /\ file[f].status = "PROCESSING")
            ~> (file[f] = None \/ file[f].status # "PROCESSING")
=============================================================================
