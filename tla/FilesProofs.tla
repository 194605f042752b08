----------------------------- MODULE FilesProofs -----------------------------
(***************************************************************************)
(* Proofs about Files: its types, all its safety properties and the        *)
(* refinement of FileStore.  The invariant IInv says what the locals of a  *)
(* request under way promise about the stores (Carries), and what a row    *)
(* promises (RowOK).  StepSafe is the argument: a step of r may treat the  *)
(* file it owns as it likes, and leaves the others as they are, or only    *)
(* takes from them what a removal or the end of the vector store has       *)
(* announced.  OrphanInv, in the last part, is the converse: whatever is   *)
(* stored is known to its row, unless the code has lost sight of it.       *)
(***************************************************************************)
EXTENDS Files, TLAPS

(* The statements of a removal that has a file, and of a refresh *)
Removals == {"s3Delete", "unindex", "fileDelete", "deleteRow", "noteError"}
Refreshes == {"poll", "setStatus"}

(* What the locals c of a request have to do with the stores *)
Carries(c) ==
    /\ c.todo \subseteq used
    /\ c.pc \in Uploads \union Removals \union Refreshes => c.file \in used
    /\ c.pc \in Uploads =>
          file[c.file] = None \/ file[c.file].status = "PROCESSING"
    /\ c.pc \in {"fileCreate", "index", "markDone"} => c.file \in s3 \union touched
    /\ c.pc \in {"index", "markDone"} => c.file \in openai \union touched
    /\ c.pc = "markDone" => ingested[c.file] # "failed"
    /\ c.pc = "markDone" /\ store /\ c.file \notin touched =>
          ingested[c.file] = "completed"
    /\ c.pc \in Removals => c.file \in touched
    /\ c.pc \in Refreshes =>
          file[c.file] = None \/ file[c.file].status = "SUCCESS"
    /\ c.pc = "setStatus" => file[c.file] = None \/ c.status = "SUCCESS"

(* What the row of f has to do with the stores *)
RowOK(f) ==
    file[f] # None =>
        /\ f \in used
        /\ file[f].openAi <=> file[f].status = "SUCCESS"
        /\ file[f].status = "SUCCESS" => ingested[f] # "failed"
        /\ file[f].status = "SUCCESS" /\ f \notin touched /\ store =>
              f \in s3 /\ f \in openai /\ ingested[f] = "completed"

(* No file is uploaded by two requests. *)
UploadsApart ==
    \A r, q \in Requests : \A f \in FileIds : Sends(r, f) /\ Sends(q, f) => r = q

(* TypeOK without lost, which no action reads *)
Typed ==
    /\ space \in BOOLEAN /\ store \in BOOLEAN
    /\ file \in [FileIds -> Row \union {None}]
    /\ s3 \in SUBSET FileIds /\ openai \in SUBSET FileIds
    /\ ingested \in [FileIds -> Ingestion]
    /\ progress \in [FileIds -> {None, 0, 1}]
    /\ req \in [Requests -> Request \union {None}]
    /\ used \in SUBSET FileIds /\ touched \in SUBSET FileIds

IInv ==
    /\ Typed
    /\ touched \subseteq used
    /\ \A f \in FileIds : RowOK(f)
    /\ \A r \in Requests : req[r] # None => Carries(req[r])
    /\ UploadsApart
    /\ ProgressMatchesUploads

LEMMA InitIInv == Init => IInv
BY FilesAssumption
   DEF Init, IInv, Typed, RowOK, UploadsApart, Sends, ProgressMatchesUploads, At,
       Ingestion
-----------------------------------------------------------------------------
(* No request but r moves. *)
Moves(r) ==
    /\ req' \in [Requests -> Request \union {None}]
    /\ \A q \in Requests \ {r} : req'[q] = req[q]

(* The step takes nothing from f that others rely on: it may delete the    *)
(* row, take apart a file that a removal has begun with, or close the      *)
(* vector store.                                                           *)
Kept(f) ==
    /\ \/ file'[f] = None
       \/ /\ file[f] # None
          /\ file'[f].status = file[f].status /\ file'[f].openAi = file[f].openAi
    /\ f \in s3 => f \in s3' \union touched'
    /\ f \in openai => f \in openai' \union touched'
    /\ ingested'[f] \in {ingested[f], "absent"}
    /\ ingested'[f] = ingested[f] \/ f \in touched' \/ ~store'

(* The file is r's own: new, or being uploaded. *)
Owned(r, f) ==
    /\ f \notin used \/ Sends(r, f)
    /\ f \in used /\ file[f] = None => file'[f] = None
    /\ RowOK(f)'

LEMMA StepSafe ==
    ASSUME IInv, NEW r \in Requests, Moves(r), Typed',
           used \subseteq used', touched \subseteq touched', touched' \subseteq used',
           store' => store,
           \A f \in FileIds : Kept(f) \/ Owned(r, f),
           (req[r] # None => Carries(req[r]))',
           \A f \in FileIds : Sends(r, f)' => Sends(r, f) \/ f \notin used,
           ProgressMatchesUploads'
    PROVE  IInv'
<1>1. ASSUME NEW f \in FileIds PROVE RowOK(f)'
  <2>1. CASE Owned(r, f)
    BY <2>1 DEF Owned
  <2>2. CASE Kept(f)
    BY <2>2 DEF IInv, RowOK, Kept
  <2> QED
    BY <2>1, <2>2
<1>2. ASSUME NEW q \in Requests, req'[q] # None PROVE Carries(req[q])'
  <2>1. CASE q = r
    BY <1>2, <2>1
  <2>2. CASE q # r
    <3> DEFINE f == req[q].file
    <3>1. /\ req'[q] = req[q] /\ req[q] # None
          /\ req[q] \in Request /\ Carries(req[q])
      BY <1>2, <2>2 DEF Moves, IInv, Typed
    <3>2. CASE req[q].pc \notin Uploads \union Removals \union Refreshes
      BY <3>1, <3>2 DEF Carries, Uploads, Removals, Refreshes
    <3>3. CASE f \in used /\ Kept(f)
      BY <3>1, <3>3 DEF Carries, Kept, Uploads, Removals, Refreshes
    <3>4. CASE f \in used /\ Owned(r, f)
      <4>1. req[q].pc \notin Uploads
        BY <2>2, <3>1, <3>4 DEF Owned, IInv, Typed, UploadsApart, Sends
      <4>2. Carries(req[r]) /\ req[r].pc \in Uploads /\ req[r].file = f
        BY <3>4 DEF Owned, Sends, IInv
      <4>3. req[q].pc \in Refreshes => file'[f] = None
        BY <3>1, <3>4, <4>2 DEF Carries, Owned
      <4> QED
        BY <3>1, <3>4, <4>1, <4>3 DEF Carries, Uploads, Removals, Refreshes
    <3> QED
      BY <3>1, <3>2, <3>3, <3>4 DEF Carries, IInv, Typed
  <2> QED
    BY <2>1, <2>2
<1>3. UploadsApart'
  <2> SUFFICES ASSUME NEW p \in Requests, NEW q \in Requests, NEW f \in FileIds,
                      Sends(p, f)', Sends(q, f)', p # q
               PROVE  FALSE
    BY DEF UploadsApart
  <2>1. \A x \in Requests \ {r} : Sends(x, f)' => Sends(x, f) /\ f \in used
    BY DEF Moves, Sends, IInv, Carries
  <2> QED
    BY <2>1 DEF IInv, UploadsApart
<1> QED
  BY <1>1, <1>2, <1>3 DEF IInv
-----------------------------------------------------------------------------
(* Ways for a request to go on *)
LEMMA GotoMoves ==
    ASSUME IInv, NEW r \in Requests, req[r] # None, NEW p \in Statements, Goto(r, p)
    PROVE  /\ Moves(r) /\ req'[r] # None /\ req'[r].pc = p
           /\ req'[r].file = req[r].file /\ req'[r].todo = req[r].todo
           /\ req'[r].status = req[r].status
<1> DEFINE c == [req[r] EXCEPT !.pc = p]
<1>1. req[r] \in Request
  BY DEF IInv, Typed
<1>2. /\ c \in Request /\ c.pc = p /\ c.file = req[r].file
      /\ c.todo = req[r].todo /\ c.status = req[r].status
  BY <1>1 DEF Request
<1>3. c # None
  BY <1>2, FilesAssumption
<1>4. req' = [req EXCEPT ![r] = c]
  BY DEF Goto
<1> HIDE DEF c
<1> QED
  BY <1>2, <1>3, <1>4 DEF Moves, IInv, Typed

LEMMA EndMoves ==
    ASSUME IInv, NEW r \in Requests, End(r)
    PROVE  Moves(r) /\ req'[r] = None
BY DEF Moves, IInv, Typed, End

LEMMA BeginMoves ==
    ASSUME IInv, NEW r \in Requests, NEW c \in Request, Begin(r, c)
    PROVE  Moves(r) /\ req[r] = None /\ req'[r] = c /\ c # None
BY FilesAssumption DEF Moves, IInv, Typed, Begin

(* The progress map follows the requests at "s3Put". *)
LEMMA ProgressSame ==
    ASSUME IInv, NEW r \in Requests, Moves(r), UNCHANGED progress,
           ~At(r, "s3Put"), ~At(r, "s3Put")'
    PROVE  ProgressMatchesUploads'
<1>1. \A q \in Requests : /\ At(q, "s3Put")' <=> At(q, "s3Put")
                          /\ At(q, "s3Put") => req'[q] = req[q]
  BY DEF Moves, At
<1> QED
  BY <1>1 DEF IInv, ProgressMatchesUploads

(* Nothing is written but what the request carries. *)
LEMMA MoveSafe ==
    ASSUME IInv, NEW r \in Requests, Moves(r), UNCHANGED <<stored, progress>>,
           touched \subseteq touched', touched' \subseteq used,
           ~At(r, "s3Put"), ~At(r, "s3Put")',
           (req[r] # None => Carries(req[r]))',
           (req[r] # None /\ req[r].pc \in Uploads)' =>
               req[r] # None /\ req[r].pc \in Uploads /\ req'[r].file = req[r].file
    PROVE  IInv'
<1>1. Typed'
  BY DEF IInv, Typed, stored, Moves
<1>2. \A f \in FileIds : Kept(f)
  BY DEF stored, Kept
<1>3. \A f \in FileIds : Sends(r, f)' => Sends(r, f)
  BY DEF Sends
<1> QED
  BY <1>1, <1>2, <1>3, ProgressSame, StepSafe DEF stored
-----------------------------------------------------------------------------
LEMMA BlankType ==
    /\ Blank \in Request
    /\ \A n \in 1 .. MaxBatch : n \in 0 .. MaxBatch
<1>1. 0 \in 0 .. MaxBatch
  BY FilesAssumption
<1> QED
  BY <1>1, FilesAssumption DEF Blank, Request, Statements, Status

LEMMA ArriveSafe ==
    ASSUME IInv, NEW r \in Requests, Arrive(r)
    PROVE  IInv'
<1>0. /\ \A f \in FileIds : file[f] # None => f \in used /\ RowOK(f)
      /\ touched \subseteq used
  BY DEF IInv, RowOK
<1>1. ASSUME NEW n \in 1 .. MaxBatch, Upload(r, n) PROVE IInv'
  <2> DEFINE c == [Blank EXCEPT !.pc = "createRow", !.left = n]
  <2>1. c \in Request /\ c.pc = "createRow" /\ c.todo = {}
    BY BlankType DEF Blank, Request, Statements
  <2> HIDE DEF c
  <2>2. Begin(r, c) /\ UNCHANGED <<stored, progress, touched>>
    BY <1>1 DEF Upload, c
  <2> QED
    BY <1>0, <2>1, <2>2, BeginMoves, MoveSafe
       DEF At, Carries, Uploads, Removals, Refreshes
<1>2. ASSUME NEW f \in FileIds, RefreshStatus(r, f) PROVE IInv'
  <2> DEFINE c == [Blank EXCEPT !.pc = "poll", !.file = f]
  <2>1. c \in Request /\ c.pc = "poll" /\ c.todo = {} /\ c.file = f
    BY BlankType DEF Blank, Request, Statements
  <2> HIDE DEF c
  <2>2. Begin(r, c) /\ UNCHANGED <<stored, progress, touched>>
    BY <1>2 DEF RefreshStatus, c
  <2>3. f \in used /\ file[f].status = "SUCCESS" /\ file'[f] = file[f]
    BY <1>0, <1>2 DEF RefreshStatus, RowOK, stored
  <2> QED
    BY <1>0, <2>1, <2>2, <2>3, BeginMoves, MoveSafe
       DEF At, Carries, Uploads, Removals, Refreshes, stored
<1>3. ASSUME NEW F \in SUBSET FileIds, NEW batch \in BOOLEAN, Remove(r, F, batch)
      PROVE  IInv'
  <2> DEFINE c == [Blank EXCEPT !.todo = F, !.batch = batch,
                                !.known = {f \in F : file[f].openAi}]
  <2>1. c \in Request /\ c.pc = "next" /\ c.todo = F
    BY BlankType DEF Blank, Request, Statements
  <2> HIDE DEF c
  <2>2. Begin(r, c) /\ UNCHANGED <<stored, progress, touched>>
    BY <1>3 DEF Remove, c
  <2>3. F \subseteq used
    BY <1>0, <1>3 DEF Remove
  <2> QED
    BY <1>0, <2>1, <2>2, <2>3, BeginMoves, MoveSafe
       DEF At, Carries, Uploads, Removals, Refreshes, stored
<1>4. CASE DeleteSpace(r)
  <2> DEFINE c == [Blank EXCEPT !.pc = "dropStore"]
  <2>1. c \in Request /\ c.pc = "dropStore" /\ c.todo = {}
    BY BlankType DEF Blank, Request, Statements
  <2> HIDE DEF c
  <2>2. Begin(r, c) /\ UNCHANGED <<stored, progress, touched>>
    BY <1>4 DEF DeleteSpace, c
  <2> QED
    BY <1>0, <2>1, <2>2, BeginMoves, MoveSafe
       DEF At, Carries, Uploads, Removals, Refreshes
<1> QED
  BY <1>1, <1>2, <1>3, <1>4 DEF Arrive

(* A request that ends, or that goes on to a statement with less to it,    *)
(* after a call that failed *)
LEMMA EndSafe ==
    ASSUME IInv, NEW r \in Requests, End(r), ~At(r, "s3Put"),
           UNCHANGED <<stored, progress, touched>>
    PROVE  IInv'
BY EndMoves, MoveSafe DEF At, IInv

LEMMA GotoSafe ==
    ASSUME IInv, NEW r \in Requests, req[r] # None, ~At(r, "s3Put"),
           NEW p \in {"markFailed", "noteError", "dropSpace"}, Goto(r, p),
           p = "markFailed" => req[r].pc \in Uploads,
           p = "noteError" => req[r].pc \in Removals,
           UNCHANGED <<stored, progress, touched>>
    PROVE  IInv'
<1>1. p \in Statements
  BY DEF Statements
<1>2. Carries(req[r])
  BY DEF IInv
<1>3. Carries(req[r])'
  BY <1>1, <1>2, GotoMoves DEF Carries, Uploads, Removals, Refreshes, stored
<1> QED
  BY <1>1, <1>3, GotoMoves, MoveSafe DEF At, IInv, Uploads

LEMMA FailSafe ==
    ASSUME IInv, NEW r \in Requests, req[r] # None, req[r].pc \in Removals,
           RemovalFails(r), UNCHANGED <<stored, progress, touched>>
    PROVE  IInv'
BY EndSafe, GotoSafe DEF RemovalFails, Removals, At
-----------------------------------------------------------------------------
(* The steps of an upload *)
LEMMA NextUploadMoves ==
    ASSUME IInv, NEW r \in Requests, req[r] # None, NextUpload(r)
    PROVE  /\ Moves(r)
           /\ req'[r] # None => req'[r].pc = "createRow" /\ req'[r].todo = req[r].todo
<1>1. CASE End(r)
  BY <1>1, EndMoves
<1>2. CASE ~End(r)
  <2> DEFINE c == [req[r] EXCEPT !.pc = "createRow", !.file = None, !.left = @ - 1]
  <2>1. req[r] \in Request /\ req[r].left \in 0 .. MaxBatch
    BY DEF IInv, Typed, Request
  <2>2. req[r].left - 1 \in 0 .. MaxBatch
    BY <1>2, <2>1, FilesAssumption DEF NextUpload
  <2>3. c \in Request /\ c.pc = "createRow" /\ c.todo = req[r].todo
    BY <2>1, <2>2 DEF Request, Statements
  <2>4. req' = [req EXCEPT ![r] = c]
    BY <1>2 DEF NextUpload, IInv, Typed
  <2> HIDE DEF c
  <2> QED
    BY <2>3, <2>4 DEF Moves, IInv, Typed
<1> QED
  BY <1>1, <1>2

LEMMA CreateRowSafe ==
    ASSUME IInv, NEW r \in Requests, CreateRow(r)
    PROVE  IInv'
<1>1. req[r] # None /\ req[r].pc = "createRow" /\ req[r] \in Request /\ Carries(req[r])
  BY DEF CreateRow, At, IInv, Typed
<1>2. CASE End(r) /\ UNCHANGED <<file, used, progress>>
  BY <1>1, <1>2, EndSafe DEF CreateRow, At, stored
<1>3. ASSUME NEW f \in FileIds \ used,
             file' = [file EXCEPT ![f] = [status |-> "PROCESSING", openAi |-> FALSE,
                                          error |-> FALSE]],
             used' = used \union {f},
             progress' = [progress EXCEPT ![f] = 0],
             req' = [req EXCEPT ![r].pc = "s3Put", ![r].file = f]
      PROVE  IInv'
  <2> DEFINE new == [status |-> "PROCESSING", openAi |-> FALSE, error |-> FALSE]
             c == [req[r] EXCEPT !.pc = "s3Put", !.file = f]
  <2>1. new \in Row /\ new.status = "PROCESSING" /\ ~new.openAi
    BY DEF Row, Status
  <2>2. new # None
    BY <2>1, FilesAssumption
  <2>3. /\ c \in Request /\ c.pc = "s3Put" /\ c.file = f /\ c.todo = req[r].todo
    BY <1>1 DEF Request, Statements
  <2>4. req' = [req EXCEPT ![r] = c] /\ file' = [file EXCEPT ![f] = new]
    BY <1>3 DEF IInv, Typed
  <2> HIDE DEF new, c
  <2>5. Moves(r) /\ req'[r] = c /\ c # None
    BY <2>3, <2>4, FilesAssumption DEF Moves, IInv, Typed
  <2>6. UNCHANGED <<space, store, s3, openai, ingested, touched>>
    BY DEF CreateRow
  <2>7. 0 # None
    BY FilesAssumption
  <2>8. Typed'
    <3>1. progress' \in [FileIds -> {None, 0, 1}]
      BY <1>3 DEF IInv, Typed
    <3>2. file' \in [FileIds -> Row \union {None}]
      BY <2>1, <2>4 DEF IInv, Typed
    <3> QED
      BY <1>3, <2>5, <2>6, <3>1, <3>2 DEF IInv, Typed, Moves
  <2>9. /\ file'[f] = new
        /\ \A g \in FileIds \ {f} : file'[g] = file[g]
        /\ progress'[f] = 0 /\ \A g \in FileIds \ {f} : progress'[g] = progress[g]
    BY <1>3, <2>4 DEF IInv, Typed
  <2>10. \A g \in FileIds : Kept(g) \/ Owned(r, g)
    BY <1>3, <2>1, <2>2, <2>6, <2>9 DEF Kept, Owned, RowOK
  <2>11. Carries(req[r])'
    <3>1. c.todo \subseteq used' /\ c.file \in used' /\ file'[c.file].status = "PROCESSING"
      BY <1>1, <1>3, <2>1, <2>3, <2>9 DEF Carries
    <3> QED
      BY <2>3, <2>5, <3>1 DEF Carries, Uploads, Removals, Refreshes
  <2>12. ProgressMatchesUploads'
    <3>1. \A q \in Requests : At(q, "s3Put") => req[q].file \in used
      BY DEF At, IInv, Carries, Uploads
    <3> QED
      BY <1>1, <2>3, <2>5, <2>7, <2>9, <3>1
         DEF IInv, ProgressMatchesUploads, At, Moves
  <2> QED
    BY <1>3, <2>3, <2>5, <2>6, <2>8, <2>10, <2>11, <2>12, StepSafe DEF Sends, IInv
<1> QED
  BY <1>2, <1>3 DEF CreateRow

LEMMA ProgressEventSafe ==
    ASSUME IInv, NEW r \in Requests, ProgressEvent(r)
    PROVE  IInv'
<1>1. /\ progress \in [FileIds -> {None, 0, 1}] /\ None # 0 /\ None # 1
  BY FilesAssumption DEF IInv, Typed
<1>2. /\ progress' \in [FileIds -> {None, 0, 1}]
      /\ \A f \in FileIds : progress'[f] = None <=> progress[f] = None
      /\ UNCHANGED <<stored, req, touched>>
  BY <1>1 DEF ProgressEvent
<1>3. Typed'
  BY <1>2 DEF IInv, Typed, stored
<1>4. ProgressMatchesUploads'
  BY <1>2 DEF IInv, ProgressMatchesUploads, At
<1> QED
  BY <1>2, <1>3, <1>4 DEF IInv, stored, RowOK, Carries, UploadsApart, Sends

(* The entry goes when the file has been sent. *)
LEMMA ProgressEnds ==
    ASSUME IInv, NEW r \in Requests, At(r, "s3Put"), Moves(r), ~At(r, "s3Put")',
           progress' = [progress EXCEPT ![req[r].file] = None]
    PROVE  /\ ProgressMatchesUploads'
           /\ progress' \in [FileIds -> {None, 0, 1}]
<1>1. /\ \A q \in Requests \ {r} : /\ At(q, "s3Put")' <=> At(q, "s3Put")
                                  /\ req'[q] = req[q]
      /\ \A q \in Requests \ {r} : At(q, "s3Put") => req[q].file # req[r].file
      /\ req[r].file \in FileIds
  BY DEF Moves, At, IInv, Typed, UploadsApart, Sends, Uploads, Carries
<1>2. \A f \in FileIds : progress'[f] = IF f = req[r].file THEN None ELSE progress[f]
  BY <1>1 DEF IInv, Typed
<1> QED
  BY <1>1, <1>2 DEF IInv, Typed, ProgressMatchesUploads

(* An upload goes on to its next statement p, having touched the stores for *)
(* its own file only.                                                      *)
LEMMA UploadGoesOn ==
    ASSUME IInv, NEW r \in Requests, req[r] # None, req[r].pc \in Uploads,
           NEW p \in Uploads \ {"s3Put"}, Goto(r, p),
           UNCHANGED <<space, store, file, used, touched>>,
           s3' \in SUBSET FileIds, openai' \in SUBSET FileIds,
           ingested' \in [FileIds -> Ingestion],
           progress' \in [FileIds -> {None, 0, 1}], ProgressMatchesUploads',
           \A g \in FileIds \ {req[r].file} :
              /\ g \in s3 <=> g \in s3'
              /\ g \in openai <=> g \in openai'
              /\ ingested'[g] = ingested[g],
           p \in {"fileCreate", "index", "markDone"} =>
              req[r].file \in s3' \union touched,
           p \in {"index", "markDone"} => req[r].file \in openai' \union touched,
           p = "markDone" => ingested'[req[r].file] = "completed"
    PROVE  IInv'
<1>1. Carries(req[r]) /\ p \in Statements /\ req[r].file \in FileIds
  BY DEF IInv, Typed, Carries, Uploads, Statements
<1>2. /\ Moves(r) /\ req'[r] # None /\ req'[r].pc = p
      /\ req'[r].file = req[r].file /\ req'[r].todo = req[r].todo
  BY <1>1, GotoMoves
<1>3. Typed'
  BY <1>2 DEF IInv, Typed, Moves
<1>4. \A f \in FileIds : Kept(f) \/ Owned(r, f)
  <2>1. \A f \in FileIds \ {req[r].file} : Kept(f)
    BY DEF Kept, IInv, Typed, RowOK
  <2>2. ASSUME NEW f \in FileIds, f = req[r].file PROVE Owned(r, f)
    <3>1. RowOK(f) /\ f \in used
          /\ (file[f] = None \/ file[f].status = "PROCESSING")
      BY <1>1, <2>2 DEF IInv, Carries
    <3> QED
      BY <2>2, <3>1 DEF Owned, Sends, RowOK
  <2> QED
    BY <2>1, <2>2
<1>5. Carries(req[r])'
  BY <1>1, <1>2 DEF Carries, Uploads, Removals, Refreshes
<1>6. \A f \in FileIds : Sends(r, f)' => Sends(r, f)
  BY <1>2 DEF Sends
<1> QED
  BY <1>2, <1>3, <1>4, <1>5, <1>6, StepSafe DEF IInv

LEMMA S3PutSafe ==
    ASSUME IInv, NEW r \in Requests, S3Put(r) \/ S3PutFails(r)
    PROVE  IInv'
<1>1. /\ req[r] # None /\ req[r].pc = "s3Put" /\ At(r, "s3Put")
      /\ req[r].file \in FileIds
  BY DEF S3Put, S3PutFails, At, IInv, Typed, Carries, Uploads
<1>2. Typed
  BY DEF IInv
<1>3. CASE S3Put(r)
  <2>1. Goto(r, "fileCreate") /\ Moves(r) /\ ~At(r, "s3Put")'
    BY <1>1, <1>3, GotoMoves DEF S3Put, At, Statements
  <2>2. ProgressMatchesUploads' /\ progress' \in [FileIds -> {None, 0, 1}]
    BY <1>1, <1>3, <2>1, ProgressEnds DEF S3Put
  <2> QED
    BY <1>1, <1>2, <1>3, <2>1, <2>2, UploadGoesOn DEF S3Put, Uploads, Typed
<1>4. CASE S3PutFails(r)
  <2>1. Goto(r, "s3Cleanup") /\ Moves(r) /\ ~At(r, "s3Put")'
    BY <1>1, <1>4, GotoMoves DEF S3PutFails, At, Statements
  <2>2. ProgressMatchesUploads' /\ progress' \in [FileIds -> {None, 0, 1}]
    BY <1>1, <1>4, <2>1, ProgressEnds DEF S3PutFails
  <2> QED
    BY <1>1, <1>2, <1>4, <2>1, <2>2, UploadGoesOn DEF S3PutFails, Uploads, Typed
<1> QED
  BY <1>3, <1>4

(* The later statements leave the progress map alone. *)
LEMMA UploadProgress ==
    ASSUME IInv, NEW r \in Requests, req[r] # None, req[r].pc # "s3Put",
           NEW p \in Uploads \ {"s3Put"}, Goto(r, p), UNCHANGED progress
    PROVE  ProgressMatchesUploads' /\ progress' \in [FileIds -> {None, 0, 1}]
<1>1. p \in Statements
  BY DEF Uploads, Statements
<1> QED
  BY <1>1, GotoMoves, ProgressSame DEF At, IInv, Typed

LEMMA IngestSafe ==
    ASSUME IInv, NEW r \in Requests,
           S3Cleanup(r) \/ FileCreate(r) \/ Index(r)
    PROVE  IInv'
<1>1. /\ req[r] # None /\ req[r].pc \in {"s3Cleanup", "fileCreate", "index"}
      /\ req[r].pc \in Uploads /\ Typed /\ Carries(req[r])
      /\ req[r].file \in FileIds
  BY DEF S3Cleanup, FileCreate, Index, At, IInv, Typed, Carries, Uploads
<1>2. CASE S3Cleanup(r)
  <2>1. Goto(r, "markFailed") /\ UNCHANGED progress
    BY <1>2 DEF S3Cleanup
  <2> QED
    BY <1>1, <1>2, <2>1, UploadProgress, UploadGoesOn DEF S3Cleanup, Uploads, Typed
<1>3. CASE FileCreate(r)
  <2>1. CASE openai' = openai \union {req[r].file} /\ Goto(r, "index")
    BY <1>1, <1>3, <2>1, UploadProgress, UploadGoesOn
       DEF FileCreate, Uploads, Typed, At, Carries
  <2>2. CASE /\ openai' \in {openai, openai \union {req[r].file}}
             /\ Goto(r, "markFailed")
    BY <1>1, <1>3, <2>2, UploadProgress, UploadGoesOn DEF FileCreate, Uploads, Typed
  <2> QED
    BY <1>3, <2>1, <2>2 DEF FileCreate
<1>4. CASE Index(r)
  <2>1. /\ ingested' \in [FileIds -> Ingestion]
        /\ \A g \in FileIds \ {req[r].file} : ingested'[g] = ingested[g]
        /\ UNCHANGED progress
    BY <1>1, <1>4 DEF Index, Typed, Ingestion
  <2>2. CASE ingested' = [ingested EXCEPT ![req[r].file] = "completed"]
             /\ Goto(r, "markDone")
    <3>1. ingested'[req[r].file] = "completed"
      BY <1>1, <2>2 DEF Typed
    <3>2. req[r].file \in s3 \union touched /\ req[r].file \in openai \union touched
      BY <1>1, <1>4 DEF Index, At, Carries
    <3> QED
      BY <1>1, <1>4, <2>1, <2>2, <3>1, <3>2, UploadProgress, UploadGoesOn
         DEF Index, Uploads, Typed
  <2>3. CASE Goto(r, "markFailed")
    BY <1>1, <1>4, <2>1, <2>3, UploadProgress, UploadGoesOn DEF Index, Uploads, Typed
  <2> QED
    BY <1>4, <2>2, <2>3 DEF Index
<1> QED
  BY <1>2, <1>3, <1>4

(* The outcome of an upload is written to its row. *)
LEMMA OutcomeSafe ==
    ASSUME IInv, NEW r \in Requests, req[r] # None,
           req[r].pc \in {"markDone", "markFailed"}, NextUpload(r),
           NEW row \in Row, UpdateRow(req[r].file, row),
           row.status = "SUCCESS" => req[r].pc = "markDone",
           row.openAi <=> row.status = "SUCCESS",
           UNCHANGED <<space, store, s3, openai, ingested, progress, used, touched>>
    PROVE  IInv'
<1>1. /\ Carries(req[r]) /\ req[r].file \in FileIds /\ row # None
      /\ req[r].pc \in Uploads /\ Typed
  BY FilesAssumption DEF IInv, Typed, Carries, Uploads
<1>2. /\ Moves(r)
      /\ req'[r] # None => req'[r].pc = "createRow" /\ req'[r].todo = req[r].todo
  BY NextUploadMoves
<1>3. /\ file[req[r].file] # None
      /\ file' \in [FileIds -> Row \union {None}]
      /\ \A g \in FileIds : file'[g] = IF g = req[r].file THEN row ELSE file[g]
  BY <1>1 DEF UpdateRow, Typed
<1>4. Typed'
  BY <1>1, <1>2, <1>3 DEF Typed, Moves
<1>5. ASSUME NEW f \in FileIds PROVE Kept(f) \/ Owned(r, f)
  <2>1. CASE f # req[r].file
    BY <1>3, <2>1 DEF Kept
  <2>2. CASE f = req[r].file
    <3>1. RowOK(f)'
      BY <1>1, <1>3, <2>2 DEF RowOK, Carries
    <3> QED
      BY <1>1, <1>3, <2>2, <3>1 DEF Owned, Sends
  <2> QED
    BY <2>1, <2>2
<1>6. (req[r] # None => Carries(req[r]))'
  BY <1>1, <1>2 DEF Carries, Uploads, Removals, Refreshes
<1>7. ~At(r, "s3Put") /\ ~At(r, "s3Put")'
  BY <1>2 DEF At
<1>8. \A f \in FileIds : ~Sends(r, f)'
  BY <1>2 DEF Sends, Uploads
<1> QED
  BY <1>2, <1>4, <1>5, <1>6, <1>7, <1>8, ProgressSame, StepSafe DEF IInv

LEMMA MarkSafe ==
    ASSUME IInv, NEW r \in Requests, MarkDone(r) \/ MarkFailed(r)
    PROVE  IInv'
<1>1. /\ req[r] # None /\ req[r].pc \in {"markDone", "markFailed"}
      /\ req[r].pc \in Uploads /\ Carries(req[r]) /\ req[r].file \in FileIds
      /\ ~At(r, "s3Put")
  BY DEF MarkDone, MarkFailed, At, IInv, Typed, Carries, Uploads
<1>2. CASE MarkDone(r)
  <2> DEFINE row == [status |-> "SUCCESS", openAi |-> TRUE, error |-> FALSE]
  <2>1. row \in Row /\ row.status = "SUCCESS" /\ row.openAi
    BY DEF Row, Status
  <2>2. CASE UpdateRow(req[r].file, row) /\ NextUpload(r)
    <3> HIDE DEF row
    <3> QED
      BY <1>1, <1>2, <2>1, <2>2, OutcomeSafe DEF MarkDone, At
  <2>3. CASE Goto(r, "markFailed") /\ UNCHANGED file
    BY <1>1, <1>2, <2>3, GotoSafe DEF MarkDone, stored
  <2> QED
    BY <1>2, <2>2, <2>3 DEF MarkDone
<1>3. CASE MarkFailed(r)
  <2> DEFINE f == req[r].file
             row == [file[f] EXCEPT !.status = "FAILED", !.error = TRUE]
  <2>1. CASE file[f] # None /\ UpdateRow(f, row) /\ NextUpload(r)
    <3>1. file[f] \in Row /\ RowOK(f) /\ file[f].status = "PROCESSING"
      BY <1>1, <2>1 DEF IInv, Typed, Carries
    <3>2. row \in Row /\ row.status = "FAILED" /\ ~row.openAi
      BY <2>1, <3>1 DEF Row, Status, RowOK
    <3> HIDE DEF row
    <3> QED
      BY <1>1, <1>3, <2>1, <3>2, OutcomeSafe DEF MarkFailed, f
  <2>2. CASE End(r) /\ UNCHANGED file
    BY <1>1, <1>3, <2>2, EndSafe DEF MarkFailed, stored
  <2> QED
    BY <1>3, <2>1, <2>2 DEF MarkFailed
<1> QED
  BY <1>2, <1>3
-----------------------------------------------------------------------------
(* The steps of a status refresh *)
LEMMA PollSafe ==
    ASSUME IInv, NEW r \in Requests, Poll(r)
    PROVE  IInv'
<1> DEFINE s == ingested[req[r].file]
           c == [req[r] EXCEPT !.pc = "setStatus", !.status = MapStatus(s)]
<1>1. /\ req[r] # None /\ req[r].pc = "poll" /\ req[r] \in Request
      /\ Carries(req[r]) /\ req[r].file \in FileIds /\ RowOK(req[r].file)
      /\ ingested[req[r].file] \in Ingestion
      /\ UNCHANGED <<stored, progress, touched>>
  BY DEF Poll, At, IInv, Typed, Carries, Refreshes
<1>2. CASE End(r)
  BY <1>1, <1>2, EndSafe DEF At
<1>3. CASE store /\ s # "absent" /\ req' = [req EXCEPT ![r] = c]
  <2>1. c \in Request /\ c.pc = "setStatus" /\ c.todo = req[r].todo
        /\ c.file = req[r].file /\ c.status = MapStatus(s)
    BY <1>1 DEF Request, Statements, Status, MapStatus
  <2>2. file[c.file] # None => c.status = "SUCCESS"
    BY <1>1, <1>3, <2>1 DEF RowOK, MapStatus, Ingestion, Carries, Refreshes
  <2> HIDE DEF c
  <2>3. Moves(r) /\ req'[r] = c /\ c # None
    BY <1>3, <2>1, FilesAssumption DEF Moves, IInv, Typed
  <2>4. Carries(req[r])'
    BY <1>1, <2>1, <2>2, <2>3 DEF Carries, Uploads, Removals, Refreshes, stored
  <2> QED
    BY <1>1, <2>1, <2>3, <2>4, MoveSafe DEF At, Uploads, IInv
<1> QED
  BY <1>2, <1>3 DEF Poll, IInv, Typed

(* A request that is not uploading writes nothing that others rely on, and *)
(* ends or goes on.                                                        *)
LEMMA KeepSafe ==
    ASSUME IInv, NEW r \in Requests, Moves(r), Typed', store' => store,
           UNCHANGED <<progress, used, touched>>,
           \A f \in FileIds : Kept(f),
           req[r] # None, req[r].pc \notin Uploads,
           (req[r] # None => Carries(req[r]) /\ req[r].pc \notin Uploads)'
    PROVE  IInv'
<1>1. ~At(r, "s3Put") /\ ~At(r, "s3Put")'
  BY DEF At, Uploads
<1>2. \A f \in FileIds : ~Sends(r, f)'
  BY DEF Sends
<1> QED
  BY <1>1, <1>2, ProgressSame, StepSafe DEF IInv

LEMMA SetFileStatusSafe ==
    ASSUME IInv, NEW r \in Requests, SetFileStatus(r)
    PROVE  IInv'
<1> DEFINE f == req[r].file
<1>1. /\ req[r] # None /\ req[r].pc = "setStatus" /\ f \in FileIds
      /\ file[f] # None => file[f].status = "SUCCESS" /\ req[r].status = "SUCCESS"
  BY DEF SetFileStatus, At, IInv, Typed, Carries, Refreshes
<1>2. End(r) /\ UNCHANGED <<space, store, s3, openai, ingested, progress, used, touched>>
  BY DEF SetFileStatus
<1>3. CASE file[f] = None
  BY <1>1, <1>2, <1>3, EndSafe DEF SetFileStatus, stored, At
<1>4. CASE file[f] # None
  <2> DEFINE row == [file[f] EXCEPT !.status = req[r].status,
                                    !.error = (req[r].status = "FAILED")]
  <2>1. file[f] \in Row
    BY <1>1, <1>4 DEF IInv, Typed
  <2>2. row \in Row /\ row.status = file[f].status /\ row.openAi = file[f].openAi
    BY <1>1, <1>4, <2>1 DEF Row, Status
  <2>3. file' = [file EXCEPT ![f] = row]
    BY <1>1, <1>4 DEF SetFileStatus, IInv, Typed
  <2> HIDE DEF row
  <2>4. /\ file' \in [FileIds -> Row \union {None}]
        /\ \A g \in FileIds : file'[g] = IF g = f THEN row ELSE file[g]
    BY <1>1, <2>2, <2>3 DEF IInv, Typed
  <2>5. \A g \in FileIds : Kept(g)
    BY <1>1, <1>2, <1>4, <2>2, <2>4 DEF Kept
  <2>6. Moves(r) /\ req'[r] = None
    BY <1>2, EndMoves
  <2>7. Typed'
    BY <1>2, <2>4, <2>6 DEF IInv, Typed, Moves
  <2> QED
    BY <1>1, <1>2, <2>5, <2>6, <2>7, KeepSafe DEF Uploads
<1> QED
  BY <1>3, <1>4
-----------------------------------------------------------------------------
(* The steps of a removal *)
LEMMA NextRemovalSafe ==
    ASSUME IInv, NEW r \in Requests, NextRemoval(r)
    PROVE  IInv'
<1>1. /\ req[r] # None /\ req[r].pc = "next" /\ req[r] \in Request
      /\ Carries(req[r]) /\ req[r].todo \subseteq used /\ touched \subseteq used
      /\ UNCHANGED <<stored, progress>>
  BY DEF NextRemoval, At, IInv, Typed, Carries
<1>2. CASE End(r) /\ UNCHANGED touched
  BY <1>1, <1>2, EndSafe DEF At
<1>3. ASSUME NEW f \in req[r].todo, touched' = touched \union {f},
             req' = [req EXCEPT ![r].pc = "s3Delete", ![r].file = f,
                                ![r].todo = @ \ {f}]
      PROVE  IInv'
  <2> DEFINE c == [req[r] EXCEPT !.pc = "s3Delete", !.file = f, !.todo = @ \ {f}]
  <2>1. /\ c \in Request /\ c.pc = "s3Delete" /\ c.file = f
        /\ c.todo \subseteq req[r].todo
    BY <1>1 DEF Request, Statements
  <2>2. req' = [req EXCEPT ![r] = c]
    BY <1>3 DEF IInv, Typed
  <2> HIDE DEF c
  <2>3. Moves(r) /\ req'[r] = c /\ c # None
    BY <2>1, <2>2, FilesAssumption DEF Moves, IInv, Typed
  <2>4. Carries(req[r])'
    <3>1. c.todo \subseteq used' /\ c.file \in used' /\ c.file \in touched'
      BY <1>1, <1>3, <2>1 DEF stored
    <3> QED
      BY <2>1, <2>3, <3>1 DEF Carries, Uploads, Removals, Refreshes
  <2> QED
    BY <1>1, <1>3, <2>1, <2>3, <2>4, MoveSafe DEF At, Uploads
<1>4. ASSUME NEW f \in req[r].todo, UNCHANGED touched,
             req' = [req EXCEPT ![r].todo = @ \ {f}]
      PROVE  IInv'
  <2> DEFINE c == [req[r] EXCEPT !.todo = @ \ {f}]
  <2>1. c \in Request /\ c.pc = "next" /\ c.todo \subseteq req[r].todo
    BY <1>1 DEF Request, Statements
  <2>2. req' = [req EXCEPT ![r] = c]
    BY <1>4 DEF IInv, Typed
  <2> HIDE DEF c
  <2>3. Moves(r) /\ req'[r] = c /\ c # None
    BY <2>1, <2>2, FilesAssumption DEF Moves, IInv, Typed
  <2>4. Carries(req[r])'
    BY <1>1, <2>1, <2>3 DEF Carries, Uploads, Removals, Refreshes, stored
  <2> QED
    BY <1>1, <1>4, <2>1, <2>3, <2>4, MoveSafe DEF At, Uploads
<1> QED
  BY <1>1, <1>2, <1>3, <1>4 DEF NextRemoval

(* A file that is being removed loses its row, its object or its entries.  *)
LEMMA TakenSafe ==
    ASSUME IInv, NEW r \in Requests, req[r] # None, req[r].pc \in Removals,
           End(r) \/ \E p \in Removals \union {"next"} : Goto(r, p),
           UNCHANGED <<space, store, progress, used, touched>>,
           s3' \in SUBSET FileIds, openai' \in SUBSET FileIds,
           ingested' \in [FileIds -> Ingestion],
           file' \in [FileIds -> Row \union {None}],
           \A f \in FileIds \ {req[r].file} :
              /\ f \in s3 <=> f \in s3'
              /\ f \in openai <=> f \in openai'
              /\ ingested'[f] = ingested[f]
              /\ file'[f] = file[f],
           ingested'[req[r].file] \in {ingested[req[r].file], "absent"},
           \/ file'[req[r].file] = None
           \/ /\ file[req[r].file] # None
              /\ file'[req[r].file].status = file[req[r].file].status
              /\ file'[req[r].file].openAi = file[req[r].file].openAi
    PROVE  IInv'
<1>1. Carries(req[r]) /\ req[r].file \in touched /\ req[r].todo \subseteq used
      /\ req[r].file \in used
  BY DEF IInv, Carries
<1>2. /\ Moves(r)
      /\ req'[r] # None => /\ req'[r].pc \in Removals \union {"next"}
                           /\ req'[r].file = req[r].file /\ req'[r].todo = req[r].todo
  <2>1. CASE End(r)
    BY <2>1, EndMoves
  <2>2. CASE \E p \in Removals \union {"next"} : Goto(r, p)
    <3>1. \A p \in Removals \union {"next"} : p \in Statements
      BY DEF Removals, Statements
    <3> QED
      BY <2>2, <3>1, GotoMoves
  <2> QED
    BY <2>1, <2>2
<1>3. \A f \in FileIds : Kept(f)
  BY <1>1 DEF Kept
<1>4. Typed'
  BY <1>2 DEF IInv, Typed, Moves
<1>5. (req[r] # None => Carries(req[r]) /\ req[r].pc \notin Uploads)'
  BY <1>1, <1>2 DEF Carries, Uploads, Removals, Refreshes
<1>6. req[r].pc \notin Uploads
  BY DEF Removals, Uploads
<1> QED
  BY <1>2, <1>3, <1>4, <1>5, <1>6, KeepSafe

LEMMA RemovalSafe ==
    ASSUME IInv, NEW r \in Requests,
           \/ S3Delete(r) \/ Unindex(r) \/ FileDelete(r)
           \/ DeleteRow(r) \/ NoteError(r)
    PROVE  IInv'
<1>1. /\ req[r] # None /\ req[r].pc \in Removals /\ req[r].file \in FileIds
      /\ Typed
  BY DEF S3Delete, Unindex, FileDelete, DeleteRow, NoteError, At, IInv, Typed,
         Carries, Removals
<1>2. CASE S3Delete(r)
  <2>1. CASE /\ s3' = s3 \ {req[r].file}
             /\ Goto(r, "unindex") \/ Goto(r, "deleteRow")
    BY <1>1, <1>2, <2>1, TakenSafe DEF S3Delete, Typed, Removals
  <2>2. CASE s3' = s3 /\ RemovalFails(r)
    BY <1>1, <1>2, <2>2, FailSafe DEF S3Delete, stored
  <2> QED
    BY <1>2, <2>1, <2>2 DEF S3Delete
<1>3. CASE Unindex(r)
  <2>1. CASE ingested' = [ingested EXCEPT ![req[r].file] = "absent"]
             /\ Goto(r, "fileDelete")
    <3>1. /\ ingested' \in [FileIds -> Ingestion]
          /\ \A f \in FileIds : ingested'[f] = IF f = req[r].file THEN "absent"
                                               ELSE ingested[f]
      BY <1>1, <2>1 DEF Typed, Ingestion
    <3> QED
      BY <1>1, <1>3, <2>1, <3>1, TakenSafe DEF Unindex, Typed, Removals
  <2>2. CASE UNCHANGED ingested /\ RemovalFails(r)
    BY <1>1, <1>3, <2>2, FailSafe DEF Unindex, stored
  <2> QED
    BY <1>3, <2>1, <2>2 DEF Unindex
<1>4. CASE FileDelete(r)
  <2>1. CASE openai' = openai \ {req[r].file} /\ Goto(r, "deleteRow")
    BY <1>1, <1>4, <2>1, TakenSafe DEF FileDelete, Typed, Removals
  <2>2. CASE UNCHANGED openai /\ RemovalFails(r)
    BY <1>1, <1>4, <2>2, FailSafe DEF FileDelete, stored
  <2> QED
    BY <1>4, <2>1, <2>2 DEF FileDelete
<1>5. CASE DeleteRow(r)
  <2>1. CASE file' = [file EXCEPT ![req[r].file] = None]
             /\ (Goto(r, "next") \/ End(r))
    <3>1. /\ file' \in [FileIds -> Row \union {None}]
          /\ \A f \in FileIds : file'[f] = IF f = req[r].file THEN None ELSE file[f]
      BY <1>1, <2>1 DEF Typed
    <3> QED
      BY <1>1, <1>5, <2>1, <3>1, TakenSafe DEF DeleteRow, Typed
  <2>2. CASE UNCHANGED file /\ RemovalFails(r)
    BY <1>1, <1>5, <2>2, FailSafe DEF DeleteRow, stored
  <2> QED
    BY <1>5, <2>1, <2>2 DEF DeleteRow
<1>6. CASE NoteError(r)
  <2> DEFINE f == req[r].file
             row == [file[f] EXCEPT !.error = TRUE]
  <2>1. Goto(r, "next")
    BY <1>6 DEF NoteError
  <2>2. CASE file[f] # None /\ file' = [file EXCEPT ![f].error = TRUE]
    <3>1. file[f] \in Row /\ file' = [file EXCEPT ![f] = row]
      BY <1>1, <2>2 DEF Typed
    <3>2. row \in Row /\ row.status = file[f].status /\ row.openAi = file[f].openAi
      BY <3>1 DEF Row
    <3> HIDE DEF row
    <3>3. /\ file' \in [FileIds -> Row \union {None}]
          /\ \A g \in FileIds : file'[g] = IF g = f THEN row ELSE file[g]
      BY <1>1, <3>1, <3>2 DEF Typed
    <3> QED
      BY <1>1, <1>6, <2>1, <2>2, <3>2, <3>3, TakenSafe DEF NoteError, Typed
  <2>3. CASE UNCHANGED file
    <3>1. \/ file[f] = None
          \/ file[f] # None
      OBVIOUS
    <3> QED
      BY <1>1, <1>6, <2>1, <2>3, <3>1, TakenSafe DEF NoteError, Typed
  <2> QED
    BY <1>6, <2>2, <2>3 DEF NoteError
<1> QED
  BY <1>2, <1>3, <1>4, <1>5, <1>6
-----------------------------------------------------------------------------
(* The deletion of the space, and a crash *)
LEMMA SpaceSafe ==
    ASSUME IInv, NEW r \in Requests, DropStore(r) \/ DropSpace(r)
    PROVE  IInv'
<1>1. /\ req[r] # None /\ req[r].pc \in {"dropStore", "dropSpace"} /\ Typed
      /\ Carries(req[r]) /\ ~At(r, "s3Put") /\ req[r].pc \notin Uploads
      /\ UNCHANGED <<s3, openai, progress, used, touched>>
  BY DEF DropStore, DropSpace, At, IInv, Uploads
<1>2. CASE DropStore(r)
  <2>1. CASE /\ store' = FALSE /\ ingested' = [f \in FileIds |-> "absent"]
             /\ Goto(r, "dropSpace")
    <3>1. "dropSpace" \in Statements
      BY DEF Statements
    <3>2. /\ Moves(r) /\ req'[r] # None /\ req'[r].pc = "dropSpace"
          /\ req'[r].file = req[r].file /\ req'[r].todo = req[r].todo
      BY <1>1, <2>1, <3>1, GotoMoves
    <3>3. Typed'
      BY <1>1, <1>2, <2>1, <3>2 DEF Typed, DropStore, Ingestion, Moves
    <3>4. \A f \in FileIds : Kept(f)
      BY <1>1, <1>2, <2>1 DEF Kept, DropStore
    <3>5. Carries(req[r])' /\ (req[r].pc \notin Uploads)'
      BY <1>1, <3>2 DEF Carries, Uploads, Removals, Refreshes
    <3> QED
      BY <1>1, <2>1, <3>2, <3>3, <3>4, <3>5, KeepSafe
  <2>2. CASE UNCHANGED <<store, ingested>> /\ End(r)
    BY <1>1, <1>2, <2>2, EndSafe DEF DropStore, stored
  <2> QED
    BY <1>2, <2>1, <2>2 DEF DropStore
<1>3. CASE DropSpace(r)
  <2>1. End(r) /\ UNCHANGED <<store, ingested>>
    BY <1>3 DEF DropSpace
  <2>2. CASE space' = FALSE /\ file' = [f \in FileIds |-> None]
    <3>1. Moves(r) /\ req'[r] = None
      BY <2>1, EndMoves
    <3>2. Typed'
      BY <1>1, <2>1, <2>2, <3>1 DEF Typed, Moves
    <3>3. \A f \in FileIds : Kept(f)
      BY <1>1, <2>1, <2>2 DEF Kept
    <3> QED
      BY <1>1, <2>1, <3>1, <3>2, <3>3, KeepSafe
  <2>3. CASE UNCHANGED <<space, file>>
    BY <1>1, <2>1, <2>3, EndSafe DEF stored
  <2> QED
    BY <1>3, <2>2, <2>3 DEF DropSpace
<1> QED
  BY <1>2, <1>3

LEMMA CrashSafe == ASSUME IInv, Crash PROVE IInv'
<1>1. /\ req' = [r \in Requests |-> None]
      /\ progress' = [f \in FileIds |-> None]
      /\ UNCHANGED <<stored, touched>>
  BY DEF Crash
<1>2. Typed'
  BY <1>1 DEF IInv, Typed, stored
<1>3. /\ (\A r \in Requests : req[r] # None => Carries(req[r]))'
      /\ UploadsApart' /\ ProgressMatchesUploads'
  BY <1>1 DEF UploadsApart, Sends, ProgressMatchesUploads, At
<1> QED
  BY <1>1, <1>2, <1>3 DEF IInv, RowOK, stored

LEMMA StepIInv == IInv /\ [Next]_vars => IInv'
<1> SUFFICES ASSUME IInv, [Next]_vars PROVE IInv'
  OBVIOUS
<1>1. ASSUME NEW r \in Requests, Step(r) PROVE IInv'
  BY <1>1, CreateRowSafe, S3PutSafe, IngestSafe, MarkSafe, PollSafe,
     SetFileStatusSafe, NextRemovalSafe, RemovalSafe, SpaceSafe DEF Step
<1>2. CASE UNCHANGED vars
  BY <1>2 DEF vars, IInv, Typed, RowOK, Carries, UploadsApart, Sends,
              ProgressMatchesUploads, At
<1> QED
  BY <1>1, <1>2, ArriveSafe, ProgressEventSafe, CrashSafe DEF Next

LEMMA Invariance == Spec => []IInv
  BY InitIInv, StepIInv, PTL DEF Spec
-----------------------------------------------------------------------------
LEMMA LostTyped ==
    ASSUME IInv, lost \in SUBSET FileIds, [Next]_vars
    PROVE  lost' \in SUBSET FileIds
<1>1. CASE UNCHANGED lost
  BY <1>1
<1>2. ASSUME NEW r \in Requests, FileCreate(r) \/ Index(r) \/ MarkDone(r)
      PROVE  lost' \in SUBSET FileIds
  <2>1. req[r].file \in FileIds
    BY <1>2 DEF FileCreate, Index, MarkDone, At, IInv, Typed, Carries, Uploads
  <2> QED
    BY <1>2, <2>1 DEF FileCreate, Index, MarkDone, Lose
<1>3. ASSUME NEW r \in Requests, Arrive(r) PROVE lost' \in SUBSET FileIds
  BY <1>3 DEF Arrive, Upload, RefreshStatus, Remove, DeleteSpace, Lose
<1>4. CASE Crash
  <2>1. \A r \in Requests : At(r, "index") \/ At(r, "markDone") =>
                                req[r].file \in FileIds
    BY DEF At, IInv, Typed, Carries, Uploads
  <2> QED
    BY <1>4, <2>1 DEF Crash, Lose
<1>5. ASSUME NEW r \in Requests, Step(r) \/ ProgressEvent(r),
             ~(FileCreate(r) \/ Index(r) \/ MarkDone(r))
      PROVE  UNCHANGED lost
  BY <1>5 DEF Step, ProgressEvent, CreateRow, S3Put, S3PutFails, S3Cleanup,
     MarkFailed, Poll, SetFileStatus, NextRemoval, S3Delete, Unindex, FileDelete,
     DeleteRow, NoteError, DropStore, DropSpace
<1> QED
  BY <1>1, <1>2, <1>3, <1>4, <1>5 DEF Next, vars

(* The variables keep their types. *)
THEOREM TypeCorrect == Spec => []TypeOK
<1>1. Init => lost \in SUBSET FileIds
  BY DEF Init
<1>2. IInv /\ lost \in SUBSET FileIds => TypeOK
  BY DEF IInv, Typed, TypeOK
<1>3. IInv /\ lost \in SUBSET FileIds /\ [Next]_vars => (lost \in SUBSET FileIds)'
  BY LostTyped
<1> QED
  BY <1>1, <1>2, <1>3, Invariance, PTL DEF Spec

(* Whatever calls fail, requests overlap and crashes come, a SUCCESS file  *)
(* that no removal has touched has its object in S3 and its OpenAI file in *)
(* the vector store of the space, as long as there is one.                 *)
THEOREM SuccessBacked == Spec => []SuccessIsBacked
<1>1. IInv => SuccessIsBacked
  BY DEF IInv, RowOK, SuccessIsBacked
<1> QED
  BY <1>1, Invariance, PTL

(* FileProgressService has an entry for exactly the files that a request   *)
(* is sending to S3.                                                       *)
THEOREM ProgressExact == Spec => []ProgressMatchesUploads
<1>1. IInv => ProgressMatchesUploads
  BY DEF IInv
<1> QED
  BY <1>1, Invariance, PTL
-----------------------------------------------------------------------------
(* The refinement of FileStore *)

(* The life of the row of f, as FileStore sees it *)
Life(f) == IF f \notin used THEN "new"
           ELSE IF file[f] = None THEN "deleted"
           ELSE file[f].status

Record == [f \in FileIds |-> Life(f)]

LEMMA StoreVars ==
    /\ Store!storeVars = <<space, Record, s3, touched>>
    /\ Store!storeVars' = <<space, Record, s3, touched>>'
BY DEF Store!storeVars, Record, Life

(* A step that neither makes nor deletes a row and writes no status is     *)
(* hidden from FileStore, but for what it does to S3.                      *)
LEMMA RecordSame ==
    ASSUME UNCHANGED used,
           \A f \in FileIds : /\ file'[f] = None <=> file[f] = None
                              /\ file[f] # None => file'[f].status = file[f].status
    PROVE  UNCHANGED Record
<1>1. \A f \in FileIds : Life(f)' = Life(f)
  BY DEF Life
<1> QED
  BY <1>1 DEF Record

LEMMA InitRefines == Init => Store!Init
BY DEF Init, Store!Init

(* One row changes its life. *)
LEMMA RecordChanges ==
    ASSUME NEW f \in FileIds, NEW life,
           Life(f)' = life,
           \A g \in FileIds \ {f} : Life(g)' = Life(g)
    PROVE  Record' = [Record EXCEPT ![f] = life]
BY DEF Record

LEMMA CreateRowRefines ==
    ASSUME IInv, NEW r \in Requests, CreateRow(r)
    PROVE  [Store!Next]_Store!storeVars
<1>1. CASE UNCHANGED <<file, used>>
  BY <1>1, RecordSame, StoreVars DEF CreateRow
<1>2. ASSUME NEW f \in FileIds \ used, space,
             file' = [file EXCEPT ![f] = [status |-> "PROCESSING", openAi |-> FALSE,
                                          error |-> FALSE]],
             used' = used \union {f}
      PROVE  Store!Create(f)
  <2> DEFINE new == [status |-> "PROCESSING", openAi |-> FALSE, error |-> FALSE]
  <2>1. new \in Row /\ new.status = "PROCESSING"
    BY DEF Row, Status
  <2>2. new # None /\ file' = [file EXCEPT ![f] = new]
    BY <1>2, <2>1, FilesAssumption
  <2> HIDE DEF new
  <2>3. Life(f) = "new" /\ Life(f)' = "PROCESSING"
        /\ \A g \in FileIds \ {f} : Life(g)' = Life(g)
    BY <1>2, <2>1, <2>2 DEF Life, IInv, Typed
  <2>4. Record' = [Record EXCEPT ![f] = "PROCESSING"] /\ Record[f] = "new"
    BY <2>3, RecordChanges DEF Record
  <2>5. UNCHANGED <<space, s3, touched>>
    BY DEF CreateRow
  <2> QED
    BY <1>2, <2>4, <2>5 DEF Store!Create, Record, Life
<1>3. ASSUME NEW f \in FileIds, Store!Create(f) PROVE Store!Next
  BY <1>3 DEF Store!Next
<1> QED
  BY <1>1, <1>2, <1>3 DEF CreateRow

LEMMA Hidden ==
    ASSUME UNCHANGED <<space, s3, used, touched>>,
           \A f \in FileIds : /\ file'[f] = None <=> file[f] = None
                              /\ file[f] # None => file'[f].status = file[f].status
    PROVE  UNCHANGED Store!storeVars
BY RecordSame, StoreVars

LEMMA ArriveRefines ==
    ASSUME NEW r \in Requests, Arrive(r)
    PROVE  UNCHANGED Store!storeVars
<1>1. UNCHANGED <<space, file, s3, used, touched>>
  BY DEF Arrive, Upload, RefreshStatus, Remove, DeleteSpace, stored
<1> QED
  BY <1>1, Hidden

(* A step of a request that writes neither a row nor an object *)
LEMMA OutsideRefines ==
    ASSUME NEW r \in Requests,
           \/ ProgressEvent(r) \/ FileCreate(r) \/ Index(r) \/ Poll(r)
           \/ Unindex(r) \/ FileDelete(r) \/ DropStore(r)
    PROVE  UNCHANGED Store!storeVars
<1>1. UNCHANGED <<space, file, s3, used, touched>>
  BY DEF ProgressEvent, FileCreate, Index, Poll, Unindex, FileDelete, DropStore,
         stored
<1> QED
  BY <1>1, Hidden

(* The step writes the row of f again, with the status it had. *)
LEMMA RewriteRefines ==
    ASSUME IInv, NEW f \in FileIds, NEW row \in Row,
           file[f] # None, row.status = file[f].status,
           file' = [file EXCEPT ![f] = row],
           UNCHANGED <<space, s3, used, touched>>
    PROVE  UNCHANGED Store!storeVars
<1>1. \A g \in FileIds :
         /\ file'[g] = None <=> file[g] = None
         /\ file[g] # None => file'[g].status = file[g].status
  BY FilesAssumption DEF IInv, Typed
<1> QED
  BY <1>1, Hidden

LEMMA SetFileStatusRefines ==
    ASSUME IInv, NEW r \in Requests, SetFileStatus(r)
    PROVE  UNCHANGED Store!storeVars
<1> DEFINE f == req[r].file
<1>1. /\ f \in FileIds
      /\ file[f] # None => file[f].status = "SUCCESS" /\ req[r].status = "SUCCESS"
  BY DEF SetFileStatus, At, IInv, Typed, Carries, Refreshes
<1>2. CASE file[f] # None
  <2> DEFINE row == [file[f] EXCEPT !.status = req[r].status, !.error = FALSE]
  <2>1. row \in Row /\ row.status = file[f].status
    BY <1>1, <1>2 DEF IInv, Typed, Row, Status
  <2>2. file' = [file EXCEPT ![f] = row]
    BY <1>1, <1>2 DEF SetFileStatus, IInv, Typed
  <2> QED
    BY <1>1, <1>2, <2>1, <2>2, RewriteRefines DEF SetFileStatus
<1>3. CASE file[f] = None
  BY <1>3, Hidden DEF SetFileStatus
<1> QED
  BY <1>2, <1>3

LEMMA NoteErrorRefines ==
    ASSUME IInv, NEW r \in Requests, NoteError(r)
    PROVE  UNCHANGED Store!storeVars
<1> DEFINE f == req[r].file
<1>1. f \in FileIds
  BY DEF NoteError, At, IInv, Typed, Carries, Removals
<1>2. CASE file[f] # None /\ file' = [file EXCEPT ![f].error = TRUE]
  <2> DEFINE row == [file[f] EXCEPT !.error = TRUE]
  <2>1. row \in Row /\ row.status = file[f].status
    BY <1>1, <1>2 DEF IInv, Typed, Row
  <2>2. file' = [file EXCEPT ![f] = row]
    BY <1>1, <1>2 DEF IInv, Typed
  <2> QED
    BY <1>1, <1>2, <2>1, <2>2, RewriteRefines DEF NoteError
<1>3. CASE UNCHANGED file
  BY <1>3, Hidden DEF NoteError
<1> QED
  BY <1>2, <1>3 DEF NoteError

(* An upload writes its object, or cleans it up, while its row is          *)
(* PROCESSING or has gone.                                                 *)
LEMMA ObjectRefines ==
    ASSUME IInv, NEW r \in Requests,
           S3Put(r) \/ S3PutFails(r) \/ S3Cleanup(r)
    PROVE  [Store!Next]_Store!storeVars
<1> DEFINE f == req[r].file
<1>1. f \in FileIds /\ Life(f) \in {"PROCESSING", "deleted"}
  BY DEF S3Put, S3PutFails, S3Cleanup, At, IInv, Typed, Carries, Uploads, Life
<1>2. /\ UNCHANGED <<space, file, used, touched>>
      /\ s3' \in {s3, s3 \union {f}, s3 \ {f}}
  BY DEF S3Put, S3PutFails, S3Cleanup
<1>3. UNCHANGED Record
  BY <1>2, RecordSame
<1>4. Record[f] \in {"PROCESSING", "deleted"}
  BY <1>1 DEF Record
<1>5. CASE s3' = s3
  BY <1>2, <1>5, Hidden
<1>6. CASE s3' = s3 \union {f}
  <2>1. Store!Store(f)
    BY <1>2, <1>3, <1>4, <1>6 DEF Store!Store, Record, Life
  <2> QED
    BY <1>1, <2>1 DEF Store!Next
<1>7. CASE s3' = s3 \ {f}
  <2>1. Store!Purge(f)
    BY <1>2, <1>3, <1>4, <1>7 DEF Store!Purge, Record, Life
  <2> QED
    BY <1>1, <2>1 DEF Store!Next
<1> QED
  BY <1>2, <1>5, <1>6, <1>7

(* The outcome of an upload is written once, SUCCESS after the object. *)
LEMMA MarkRefines ==
    ASSUME IInv, NEW r \in Requests, MarkDone(r) \/ MarkFailed(r)
    PROVE  [Store!Next]_Store!storeVars
<1>0. PICK f \in FileIds : f = req[r].file
  BY DEF MarkDone, MarkFailed, At, IInv, Typed, Carries, Uploads
<1>1. /\ f \in used
      /\ file[f] = None \/ file[f].status = "PROCESSING"
      /\ MarkDone(r) => f \in s3 \union touched
  BY <1>0 DEF MarkDone, MarkFailed, At, IInv, Typed, Carries, Uploads, Removals,
              Refreshes
<1>2. UNCHANGED <<space, s3, used, touched>>
  BY DEF MarkDone, MarkFailed
<1>3. ASSUME NEW row \in Row, row.status \in {"SUCCESS", "FAILED"},
             row.status = "SUCCESS" => MarkDone(r),
             file[f] # None, file' = [file EXCEPT ![f] = row]
      PROVE  Store!Settle(f, row.status)
  <2>1. row # None
    BY FilesAssumption
  <2>2. Life(f) = "PROCESSING" /\ Life(f)' = row.status
        /\ \A g \in FileIds \ {f} : Life(g)' = Life(g)
    BY <1>1, <1>2, <1>3, <2>1 DEF Life, IInv, Typed
  <2>3. Record' = [Record EXCEPT ![f] = row.status] /\ Record[f] = "PROCESSING"
    BY <1>1, <2>2, RecordChanges DEF Record
  <2> QED
    BY <1>1, <1>2, <1>3, <2>3 DEF Store!Settle, Record, Life
<1>4. ASSUME NEW o \in {"SUCCESS", "FAILED"}, Store!Settle(f, o) PROVE Store!Next
  BY <1>1, <1>4 DEF Store!Next, Store!Outcome
<1>5. CASE MarkDone(r) /\ file # file'
  <2> DEFINE row == [status |-> "SUCCESS", openAi |-> TRUE, error |-> FALSE]
  <2>1. row \in Row /\ row.status = "SUCCESS"
    BY DEF Row, Status
  <2>2. file[f] # None /\ file' = [file EXCEPT ![f] = row]
    BY <1>0, <1>5 DEF MarkDone, UpdateRow
  <2> HIDE DEF row
  <2> QED
    BY <1>3, <1>4, <1>5, <2>1, <2>2
<1>6. CASE MarkFailed(r) /\ file # file'
  <2> DEFINE row == [file[f] EXCEPT !.status = "FAILED", !.error = TRUE]
  <2>1. file[f] # None /\ file' = [file EXCEPT ![f] = row]
    BY <1>0, <1>6 DEF MarkFailed, UpdateRow
  <2>2. row \in Row /\ row.status = "FAILED"
    BY <1>1, <2>1 DEF Row, Status, IInv, Typed
  <2> HIDE DEF row
  <2> QED
    BY <1>3, <1>4, <2>1, <2>2
<1>7. CASE file = file'
  BY <1>2, <1>7, Hidden
<1> QED
  BY <1>5, <1>6, <1>7

(* A removal condemns its file before it takes anything from it. *)
LEMMA NextRemovalRefines ==
    ASSUME IInv, NEW r \in Requests, NextRemoval(r)
    PROVE  [Store!Next]_Store!storeVars
<1>1. UNCHANGED <<space, file, s3, used>>
  BY DEF NextRemoval, stored
<1>2. UNCHANGED Record
  BY <1>1, RecordSame
<1>3. CASE UNCHANGED touched
  BY <1>1, <1>3, Hidden
<1>4. ASSUME NEW f \in req[r].todo, touched' = touched \union {f}
      PROVE  Store!Next
  <2>1. f \in FileIds /\ f \in used
    BY <1>4 DEF NextRemoval, At, IInv, Typed, Carries
  <2>2. Life(f) # "new"
    BY <2>1 DEF Life, IInv, Typed, Row, Status
  <2>3. Record[f] # "new"
    BY <2>1, <2>2 DEF Record
  <2>4. Store!Condemn(f)
    BY <1>1, <1>2, <1>4, <2>3 DEF Store!Condemn, Record, Life
  <2> QED
    BY <2>1, <2>4 DEF Store!Next
<1> QED
  BY <1>3, <1>4 DEF NextRemoval

LEMMA S3DeleteRefines ==
    ASSUME IInv, NEW r \in Requests, S3Delete(r)
    PROVE  [Store!Next]_Store!storeVars
<1> DEFINE f == req[r].file
<1>1. f \in FileIds /\ f \in touched
  BY DEF S3Delete, At, IInv, Typed, Carries, Removals
<1>2. UNCHANGED <<space, file, used, touched>> /\ s3' \in {s3, s3 \ {f}}
  BY DEF S3Delete
<1>3. UNCHANGED Record
  BY <1>2, RecordSame
<1>4. CASE s3' = s3
  BY <1>2, <1>4, Hidden
<1>5. CASE s3' = s3 \ {f}
  <2>1. Store!Purge(f)
    BY <1>1, <1>2, <1>3, <1>5 DEF Store!Purge, Record, Life
  <2> QED
    BY <1>1, <2>1 DEF Store!Next
<1> QED
  BY <1>2, <1>4, <1>5

LEMMA DeleteRowRefines ==
    ASSUME IInv, NEW r \in Requests, DeleteRow(r)
    PROVE  [Store!Next]_Store!storeVars
<1>0. PICK f \in FileIds : f = req[r].file
  BY DEF DeleteRow, At, IInv, Typed, Carries, Removals
<1>1. f \in touched /\ f \in used
  BY <1>0 DEF DeleteRow, At, IInv, Typed, Carries, Removals
<1>2. UNCHANGED <<space, s3, used, touched>>
  BY DEF DeleteRow
<1>3. CASE UNCHANGED file
  BY <1>2, <1>3, Hidden
<1>4. CASE file[f] # None /\ file' = [file EXCEPT ![f] = None]
  <2>1. Life(f) \in Status /\ Life(f)' = "deleted"
        /\ \A g \in FileIds \ {f} : Life(g)' = Life(g)
    BY <1>1, <1>2, <1>4 DEF Life, IInv, Typed, Row
  <2>2. Record' = [Record EXCEPT ![f] = "deleted"] /\ Record[f] \in Status
    BY <1>1, <2>1, RecordChanges DEF Record
  <2>3. Store!Delete(f)
    BY <1>1, <1>2, <2>2
       DEF Store!Delete, Record, Life, Store!Live, Store!Outcome, Status
  <2> QED
    BY <1>1, <2>3 DEF Store!Next
<1> QED
  BY <1>0, <1>3, <1>4 DEF DeleteRow

LEMMA DropSpaceRefines ==
    ASSUME IInv, NEW r \in Requests, DropSpace(r)
    PROVE  [Store!Next]_Store!storeVars
<1>1. UNCHANGED <<s3, used, touched>>
  BY DEF DropSpace
<1>2. CASE UNCHANGED <<space, file>>
  BY <1>1, <1>2, Hidden
<1>3. CASE space /\ space' = FALSE /\ file' = [f \in FileIds |-> None]
  <2>1. \A f \in FileIds :
           Life(f)' = IF Life(f) = "new" THEN "new" ELSE "deleted"
    BY <1>1, <1>3 DEF Life, IInv, Typed, Row, Status
  <2>2. Record' = [f \in FileIds |-> IF Record[f] = "new" THEN "new" ELSE "deleted"]
    BY <2>1 DEF Record
  <2>3. Store!Close
    BY <1>1, <1>3, <2>2 DEF Store!Close, Record, Life
  <2> QED
    BY <2>3 DEF Store!Next
<1> QED
  BY <1>2, <1>3 DEF DropSpace

LEMMA NextRefines == IInv /\ [Next]_vars => [Store!Next]_Store!storeVars
<1> SUFFICES ASSUME IInv, [Next]_vars PROVE [Store!Next]_Store!storeVars
  OBVIOUS
<1>1. ASSUME NEW r \in Requests, Step(r) PROVE [Store!Next]_Store!storeVars
  BY <1>1, CreateRowRefines, OutsideRefines, SetFileStatusRefines,
     NoteErrorRefines, ObjectRefines, MarkRefines, NextRemovalRefines,
     S3DeleteRefines, DeleteRowRefines, DropSpaceRefines DEF Step
<1>2. CASE Crash
  BY <1>2, Hidden DEF Crash, stored
<1>3. CASE UNCHANGED vars
  BY <1>3, Hidden DEF vars
<1> QED
  BY <1>1, <1>2, <1>3, ArriveRefines, OutsideRefines DEF Next

(* The three stores that FileService writes, with all its failures and     *)
(* overlaps, implement FileStore: the outcome of an upload is final,       *)
(* SUCCESS comes after the object, an object goes only after a removal has *)
(* begun or an upload has failed, a deleted record never comes back.       *)
THEOREM FilesImplementFileStore == Spec => ImplementsFileStore
  BY InitRefines, NextRefines, Invariance, PTL
     DEF Spec, ImplementsFileStore, Store!Spec
-----------------------------------------------------------------------------
(* What is stored is known to a row, but for the files in lost.  All below *)
(* is about the time in which the space exists: with it goes every row.    *)

(* The files that a removal with the locals c still has to take apart *)
Taken(c) == c.todo \union
              (IF c.pc \in {"s3Delete", "unindex", "fileDelete", "deleteRow"}
                 THEN {c.file} ELSE {})

(* A removal of a file that is being uploaded has made it lost. *)
Alone ==
    \A r, q \in Requests : \A f \in FileIds :
        Sends(r, f) /\ req[q] # None /\ f \in Taken(req[q]) => f \in lost

Gone(f) == f \notin openai /\ ingested[f] = "absent"

(* What is stored for f is known to its row, or an upload is going to tell *)
(* the row.                                                                *)
Settled(f) ==
    \/ f \in lost
    \/ file[f] = None /\ f \notin s3 /\ Gone(f)
    \/ file[f] # None /\ (file[f].openAi \/ Gone(f) \/ \E r \in Requests : Sends(r, f))

(* What an upload of f that stands at p, and a removal, promise about what *)
(* is stored                                                               *)
Sending(p, f) ==
    /\ file[f] # None
    /\ p \in {"s3Put", "s3Cleanup", "fileCreate", "markFailed"} => Gone(f)
    /\ p = "index" => ingested[f] = "absent"

Taking(p, f) ==
    /\ f \notin s3
    /\ p \in {"fileDelete", "deleteRow"} => ingested[f] = "absent"
    /\ p = "deleteRow" => f \notin openai

Load(c) ==
    /\ c.pc \in Uploads => c.file \in lost \/ Sending(c.pc, c.file)
    /\ \A f \in Taken(c) \ lost : file[f] # None /\ file[f].openAi => f \in c.known
    /\ c.pc \in {"unindex", "fileDelete", "deleteRow"} =>
          c.file \in lost \/ Taking(c.pc, c.file)

Tidy ==
    /\ Alone
    /\ \A f \in FileIds : Settled(f)
    /\ \A r \in Requests : req[r] # None => Load(req[r])

OrphanInv == IInv /\ (space => Tidy)

(* The step of r only takes from the stores, and a row only at the end of  *)
(* its removal.                                                            *)
Thinned(r, f) ==
    /\ f \in s3' => f \in s3
    /\ f \in openai' => f \in openai
    /\ ingested'[f] \in {ingested[f], "absent"}
    /\ \/ file[f] = None /\ file'[f] = None
       \/ file[f] # None /\ file'[f] # None /\ file'[f].openAi = file[f].openAi
       \/ /\ req[r] # None /\ f \in Taken(req[r])
          /\ file'[f] = None
          /\ f \in lost' \/ (f \notin s3' /\ Gone(f)')

Mine(r, f) == (f \notin used \/ Sends(r, f)) /\ Settled(f)'

LEMMA TakenUsed ==
    ASSUME IInv, NEW q \in Requests, req[q] # None
    PROVE  Taken(req[q]) \subseteq used /\ used \subseteq FileIds
BY DEF IInv, Typed, Taken, Carries, Removals

LEMMA TidySafe ==
    ASSUME IInv, Tidy, NEW r \in Requests, Moves(r), lost \subseteq lost',
           \A f \in FileIds : (Thinned(r, f) /\ ~Sends(r, f)) \/ Mine(r, f),
           \A f \in FileIds : Sends(r, f)' => Sends(r, f) \/ f \notin used,
           req'[r] # None =>
              \A f \in Taken(req'[r]) :
                 \/ req[r] # None /\ f \in Taken(req[r])
                 \/ f \in used /\ \A q \in Requests : Sends(q, f) => f \in lost',
           (req[r] # None => Load(req[r]))'
    PROVE  Tidy'
<1>1. ASSUME NEW f \in FileIds PROVE Settled(f)'
  <2>1. CASE Thinned(r, f) /\ ~Sends(r, f)
    <3>1. Settled(f)
      BY DEF Tidy
    <3>2. \A q \in Requests : Sends(q, f) => Sends(q, f)'
      BY <2>1 DEF Sends, Moves
    <3> QED
      BY <2>1, <3>1, <3>2 DEF Settled, Thinned, Gone
  <2> QED
    BY <2>1 DEF Mine
<1>2. ASSUME NEW q \in Requests, req'[q] # None PROVE Load(req[q])'
  <2>1. CASE q = r
    BY <1>2, <2>1
  <2>2. CASE q # r
    <3>1. req'[q] = req[q] /\ req[q] # None /\ Load(req[q]) /\ Carries(req[q])
      BY <1>2, <2>2 DEF Moves, Tidy, IInv
    <3>2. Taken(req[q]) \subseteq used /\ used \subseteq FileIds
      BY <3>1, TakenUsed
    <3>3. \A f \in Taken(req[q]) \ lost' : Thinned(r, f)
      BY <3>1, <3>2 DEF Tidy, Alone, Mine
    <3>4. ASSUME req[q].pc \in Uploads, req[q].file \notin lost'
          PROVE  (Sending(req[q].pc, req[q].file))'
      <4>1. PICK f : f = req[q].file
        OBVIOUS
      <4>2. PICK p : p = req[q].pc
        OBVIOUS
      <4>3. f \in used /\ f \in FileIds /\ Sends(q, f) /\ f \notin lost
        BY <3>1, <3>2, <3>4, <4>1 DEF Carries, Sends
      <4>4. ~Mine(r, f)
        BY <2>2, <4>3 DEF Mine, IInv, UploadsApart
      <4>5. req[r] # None => f \notin Taken(req[r])
        BY <4>3 DEF Tidy, Alone
      <4>6. Sending(p, f) /\ Thinned(r, f)
        BY <3>1, <3>4, <4>1, <4>2, <4>3, <4>4 DEF Load
      <4>7. Sending(p, f)'
        BY <4>5, <4>6 DEF Sending, Thinned, Gone
      <4> QED
        BY <3>1, <4>1, <4>2, <4>7
    <3>5. \A f \in Taken(req[q]) \ lost' :
             file'[f] # None /\ file'[f].openAi => f \in req[q].known
      BY <3>1, <3>3 DEF Load, Thinned
    <3>6. ASSUME req[q].pc \in {"unindex", "fileDelete", "deleteRow"},
                 req[q].file \notin lost'
          PROVE  (Taking(req[q].pc, req[q].file))'
      <4>1. PICK f : f = req[q].file
        OBVIOUS
      <4>2. PICK p : p = req[q].pc
        OBVIOUS
      <4>3. f \in Taken(req[q]) /\ f \notin lost
        BY <3>6, <4>1 DEF Taken
      <4>4. Taking(p, f) /\ Thinned(r, f)
        BY <3>1, <3>3, <3>6, <4>1, <4>2, <4>3 DEF Load
      <4>5. Taking(p, f)'
        BY <4>4 DEF Taking, Thinned
      <4> QED
        BY <3>1, <4>1, <4>2, <4>5
    <3> QED
      BY <3>1, <3>4, <3>5, <3>6 DEF Load, Taken
  <2> QED
    BY <2>1, <2>2
<1>3. Alone'
  <2> SUFFICES ASSUME NEW p \in Requests, NEW q \in Requests, NEW f \in FileIds,
                      Sends(p, f)', req'[q] # None, f \in Taken(req'[q])
               PROVE  f \in lost'
    BY DEF Alone, Taken
  <2>1. ASSUME NEW x \in Requests, NEW y \in Requests, Sends(x, f),
               req[y] # None, f \in Taken(req[y])
        PROVE  f \in lost'
    BY <2>1 DEF Tidy, Alone
  <2>2. p # r => Sends(p, f)
    BY DEF Moves, Sends
  <2>3. Sends(p, f) \/ (p = r /\ f \notin used)
    BY <2>2
  <2>4. q # r => req[q] # None /\ f \in Taken(req[q]) /\ f \in used
    BY TakenUsed DEF Moves
  <2>5. CASE req[q] # None /\ f \in Taken(req[q])
    BY <2>1, <2>3, <2>5, TakenUsed
  <2>6. CASE f \in used /\ \A x \in Requests : Sends(x, f) => f \in lost'
    BY <2>3, <2>6
  <2> QED
    BY <2>4, <2>5, <2>6
<1> QED
  BY <1>1, <1>2, <1>3 DEF Tidy

LEMMA GotoKeeps ==
    ASSUME IInv, NEW r \in Requests, req[r] # None, NEW p \in Statements, Goto(r, p)
    PROVE  req'[r].known = req[r].known
<1> DEFINE c == [req[r] EXCEPT !.pc = p]
<1>1. req[r] \in Request
  BY DEF IInv, Typed
<1>2. c.known = req[r].known
  BY <1>1 DEF Request
<1>3. req' = [req EXCEPT ![r] = c]
  BY DEF Goto
<1> HIDE DEF c
<1> QED
  BY <1>2, <1>3 DEF IInv, Typed

(* Nothing is written, and the request carries no file on. *)
LEMMA LookSafe ==
    ASSUME IInv, Tidy, NEW r \in Requests, Moves(r), UNCHANGED stored,
           lost \subseteq lost',
           req[r] # None => req[r].pc \notin Uploads,
           req'[r] # None =>
               /\ req'[r].pc \notin Uploads
                                \union {"unindex", "fileDelete", "deleteRow"}
               /\ \A f \in Taken(req'[r]) :
                     \/ /\ req[r] # None /\ f \in Taken(req[r])
                        /\ req'[r].known = req[r].known
                     \/ /\ f \in used
                        /\ \A q \in Requests : Sends(q, f) => f \in lost'
                        /\ file[f].openAi => f \in req'[r].known
    PROVE  Tidy'
<1>1. \A f \in FileIds : Thinned(r, f) /\ ~Sends(r, f) /\ ~Sends(r, f)'
  BY DEF Thinned, stored, Sends
<1>2. req[r] # None =>
         \A f \in Taken(req[r]) \ lost :
            file[f] # None /\ file[f].openAi => f \in req[r].known
  BY DEF Tidy, Load
<1>3. (req[r] # None => Load(req[r]))'
  BY <1>2 DEF Load, stored, Taken
<1> QED
  BY <1>1, <1>3, TidySafe

LEMMA ArriveOrphan ==
    ASSUME IInv, Tidy, NEW r \in Requests, Arrive(r)
    PROVE  Tidy'
<1>1. ASSUME NEW n \in 1 .. MaxBatch, Upload(r, n) PROVE Tidy'
  <2> DEFINE c == [Blank EXCEPT !.pc = "createRow", !.left = n]
  <2>1. c \in Request /\ c.pc = "createRow" /\ c.todo = {}
    BY BlankType DEF Blank, Request, Statements
  <2> HIDE DEF c
  <2>2. Begin(r, c) /\ UNCHANGED <<stored, lost>>
    BY <1>1 DEF Upload, c
  <2> QED
    BY <2>1, <2>2, BeginMoves, LookSafe DEF Taken, Uploads
<1>2. ASSUME NEW f \in FileIds, RefreshStatus(r, f) PROVE Tidy'
  <2> DEFINE c == [Blank EXCEPT !.pc = "poll", !.file = f]
  <2>1. c \in Request /\ c.pc = "poll" /\ c.todo = {}
    BY BlankType DEF Blank, Request, Statements
  <2> HIDE DEF c
  <2>2. Begin(r, c) /\ UNCHANGED <<stored, lost>>
    BY <1>2 DEF RefreshStatus, c
  <2> QED
    BY <2>1, <2>2, BeginMoves, LookSafe DEF Taken, Uploads
<1>3. ASSUME NEW F \in SUBSET FileIds, NEW batch \in BOOLEAN, Remove(r, F, batch)
      PROVE  Tidy'
  <2> DEFINE K == {f \in F : file[f].openAi}
             c == [Blank EXCEPT !.todo = F, !.batch = batch, !.known = K]
  <2>1. c \in Request /\ c.pc = "next" /\ c.todo = F /\ c.known = K
    BY BlankType DEF Blank, Request, Statements
  <2>2. Begin(r, c) /\ UNCHANGED stored
    BY <1>3 DEF Remove
  <2>3. \A f \in F : file[f].openAi => f \in K
    OBVIOUS
  <2>4. /\ lost \subseteq lost'
        /\ \A f \in F : \A q \in Requests : Sends(q, f) => f \in lost'
    BY <1>3 DEF Remove, Lose
  <2>5. F \subseteq used
    BY <1>3 DEF Remove, IInv, RowOK
  <2> HIDE DEF c, K
  <2>6. Taken(c) = F
    BY <2>1 DEF Taken
  <2> QED
    BY <2>1, <2>2, <2>3, <2>4, <2>5, <2>6, BeginMoves, LookSafe DEF Uploads
<1>4. CASE DeleteSpace(r)
  <2> DEFINE c == [Blank EXCEPT !.pc = "dropStore"]
  <2>1. c \in Request /\ c.pc = "dropStore" /\ c.todo = {}
    BY BlankType DEF Blank, Request, Statements
  <2> HIDE DEF c
  <2>2. Begin(r, c) /\ UNCHANGED <<stored, lost>>
    BY <1>4 DEF DeleteSpace, c
  <2> QED
    BY <2>1, <2>2, BeginMoves, LookSafe DEF Taken, Uploads
<1> QED
  BY <1>1, <1>2, <1>3, <1>4 DEF Arrive

(* The steps of an upload *)

LEMMA CreateRowOrphan ==
    ASSUME IInv, Tidy, NEW r \in Requests, CreateRow(r)
    PROVE  Tidy'
<1>1. /\ req[r] # None /\ req[r].pc = "createRow" /\ req[r] \in Request
      /\ lost' = lost
  BY DEF CreateRow, At, IInv, Typed
<1>2. CASE End(r) /\ UNCHANGED <<file, used>>
  BY <1>1, <1>2, EndMoves, LookSafe DEF CreateRow, stored, Uploads
<1>3. ASSUME NEW f \in FileIds \ used,
             file' = [file EXCEPT ![f] = [status |-> "PROCESSING", openAi |-> FALSE,
                                          error |-> FALSE]],
             req' = [req EXCEPT ![r].pc = "s3Put", ![r].file = f]
      PROVE  Tidy'
  <2> DEFINE new == [status |-> "PROCESSING", openAi |-> FALSE, error |-> FALSE]
             c == [req[r] EXCEPT !.pc = "s3Put", !.file = f]
  <2>1. new \in Row
    BY DEF Row, Status
  <2>2. new # None
    BY <2>1, FilesAssumption
  <2>3. /\ c \in Request /\ c.pc = "s3Put" /\ c.file = f
        /\ c.todo = req[r].todo /\ c.known = req[r].known
    BY <1>1 DEF Request, Statements
  <2>4. req' = [req EXCEPT ![r] = c] /\ file' = [file EXCEPT ![f] = new]
    BY <1>3 DEF IInv, Typed
  <2> HIDE DEF new, c
  <2>5. Moves(r) /\ req'[r] = c /\ c # None
    BY <2>3, <2>4, FilesAssumption DEF Moves, IInv, Typed
  <2>6. /\ UNCHANGED <<s3, openai, ingested>>
        /\ file'[f] # None /\ \A g \in FileIds \ {f} : file'[g] = file[g]
    BY <2>2, <2>4 DEF CreateRow, IInv, Typed
  <2>7. \A g \in FileIds : ~Sends(r, g) /\ (Sends(r, g)' => g \notin used)
    BY <1>1, <1>3, <2>3, <2>5 DEF Sends, Uploads
  <2>8. \A g \in FileIds \ {f} : Thinned(r, g)
    BY <2>6 DEF Thinned
  <2>9. Mine(r, f)
    BY <1>3, <2>3, <2>5, <2>6 DEF Mine, Settled, Sends, Uploads
  <2>10. Taken(c) = req[r].todo /\ Taken(req[r]) = req[r].todo
    BY <1>1, <2>3 DEF Taken
  <2>11. Load(req[r])'
    <3>1. f \in lost \/ Gone(f)
      BY <1>3 DEF Tidy, Settled, IInv, RowOK
    <3>2. f \notin req[r].todo /\ req[r].todo \subseteq FileIds
      BY <1>1, <1>3 DEF IInv, Carries, Request
    <3>3. \A g \in req[r].todo \ lost :
             file[g] # None /\ file[g].openAi => g \in req[r].known
      BY <1>1 DEF Tidy, Load, Taken
    <3> QED
      BY <1>1, <2>3, <2>5, <2>6, <3>1, <3>2, <3>3 DEF Load, Taken, Gone, Sending
  <2> QED
    BY <1>1, <2>5, <2>7, <2>8, <2>9, <2>10, <2>11, TidySafe
<1> QED
  BY <1>2, <1>3 DEF CreateRow

Same(g) ==
    /\ g \in s3 <=> g \in s3'
    /\ g \in openai <=> g \in openai'
    /\ ingested'[g] = ingested[g]
    /\ file'[g] = file[g]

LEMMA UploadOrphan ==
    ASSUME IInv, Tidy, NEW r \in Requests, req[r] # None, req[r].pc \in Uploads,
           NEW f \in FileIds, f = req[r].file, NEW p \in Uploads, Goto(r, p),
           lost \subseteq lost',
           \A g \in FileIds \ {f} : Same(g),
           f \in lost' \/ Sending(p, f)'
    PROVE  Tidy'
<1>1. p \in Statements
  BY DEF Uploads, Statements
<1>2. /\ Moves(r) /\ req'[r] # None /\ req'[r].pc = p
      /\ req'[r].file = f /\ req'[r].todo = req[r].todo
      /\ req'[r].known = req[r].known
  BY <1>1, GotoMoves, GotoKeeps
<1>3. \A g \in FileIds \ {f} : Thinned(r, g) /\ ~Sends(r, g)
  BY DEF Thinned, Sends, Same
<1>4. Sends(r, f) /\ Sends(r, f)' /\ \A g \in FileIds : Sends(r, g)' => g = f
  BY <1>2 DEF Sends
<1>5. Mine(r, f)
  BY <1>4 DEF Mine, Settled, Sending
<1>6. Taken(req'[r]) = req[r].todo /\ Taken(req[r]) = req[r].todo
  BY <1>2 DEF Taken, Uploads
<1>7. f \in Taken(req[r]) => f \in lost
  BY <1>4 DEF Tidy, Alone
<1>8. \A g \in req[r].todo : g \in FileIds
  BY <1>6, TakenUsed
<1>9. \A g \in req[r].todo \ lost' :
         file'[g] # None /\ file'[g].openAi => g \in req[r].known
  BY <1>6, <1>7, <1>8 DEF Tidy, Load, Same
<1>10. Load(req[r])'
  BY <1>2, <1>6, <1>9 DEF Load, Uploads
<1> QED
  BY <1>2, <1>3, <1>4, <1>5, <1>6, <1>10, TidySafe

LEMMA SendingOrphan ==
    ASSUME IInv, Tidy, NEW r \in Requests,
           \/ S3Put(r) \/ S3PutFails(r) \/ S3Cleanup(r) \/ FileCreate(r) \/ Index(r)
    PROVE  Tidy'
<1>1. /\ req[r] # None /\ req[r].pc \in Uploads /\ Typed
      /\ req[r].file \in FileIds /\ UNCHANGED <<space, file>>
      /\ req[r].file \in lost \/ Sending(req[r].pc, req[r].file)
      /\ lost \subseteq lost'
  BY DEF S3Put, S3PutFails, S3Cleanup, FileCreate, Index, At, IInv, Typed,
         Carries, Uploads, Tidy, Load, Lose
<1>2. PICK f \in FileIds : f = req[r].file
  BY <1>1
<1>3. CASE S3Put(r) \/ S3PutFails(r) \/ S3Cleanup(r)
  <2>1. PICK p \in {"s3Cleanup", "fileCreate", "markFailed"} : Goto(r, p)
    BY <1>3 DEF S3Put, S3PutFails, S3Cleanup
  <2>2. /\ \A g \in FileIds \ {f} : Same(g)
        /\ UNCHANGED <<openai, ingested, file>>
    BY <1>2, <1>3 DEF S3Put, S3PutFails, S3Cleanup, Same
  <2>3. f \in lost \/ (file[f] # None /\ Gone(f))
    BY <1>1, <1>2, <1>3 DEF S3Put, S3PutFails, S3Cleanup, At, Sending
  <2>4. f \in lost' \/ Sending(p, f)'
    BY <1>1, <2>2, <2>3 DEF Sending, Gone
  <2>5. p \in Uploads
    BY DEF Uploads
  <2> QED
    BY <1>1, <1>2, <2>1, <2>2, <2>4, <2>5, UploadOrphan
<1>4. CASE FileCreate(r)
  <2>1. /\ \A g \in FileIds \ {f} : Same(g)
        /\ UNCHANGED <<ingested, file>>
        /\ f \in lost \/ (file[f] # None /\ Gone(f))
    BY <1>1, <1>2, <1>4 DEF FileCreate, Same, At, Sending
  <2>2. "index" \in Uploads /\ "markFailed" \in Uploads
    BY DEF Uploads
  <2>3. CASE Goto(r, "index")
    <3>1. f \in lost' \/ Sending("index", f)'
      BY <1>1, <2>1 DEF Sending, Gone
    <3> QED
      BY <1>1, <1>2, <2>1, <2>2, <2>3, <3>1, UploadOrphan
  <2>4. CASE Goto(r, "markFailed") /\ (UNCHANGED openai \/ f \in lost')
    <3>1. f \in lost' \/ Sending("markFailed", f)'
      BY <1>1, <2>1, <2>4 DEF Sending, Gone
    <3> QED
      BY <1>1, <1>2, <2>1, <2>2, <2>4, <3>1, UploadOrphan
  <2> QED
    BY <1>2, <1>4, <2>3, <2>4 DEF FileCreate, Lose
<1>5. CASE Index(r)
  <2>1. \A g \in FileIds \ {f} : Same(g)
    BY <1>1, <1>2, <1>5 DEF Index, Same, Typed
  <2>2. "markDone" \in Uploads /\ "markFailed" \in Uploads
    BY DEF Uploads
  <2>3. CASE Goto(r, "markDone")
    <3>1. f \in lost' \/ Sending("markDone", f)'
      BY <1>1, <1>2 DEF Sending
    <3> QED
      BY <1>1, <1>2, <2>1, <2>2, <2>3, <3>1, UploadOrphan
  <2>4. CASE Goto(r, "markFailed") /\ f \in lost'
    BY <1>1, <1>2, <2>1, <2>2, <2>4, UploadOrphan
  <2> QED
    BY <1>2, <1>5, <2>3, <2>4 DEF Index, Lose
<1> QED
  BY <1>3, <1>4, <1>5

LEMMA NextUploadKeeps ==
    ASSUME IInv, NEW r \in Requests, req[r] # None, NextUpload(r)
    PROVE  req'[r] # None => req'[r].known = req[r].known
<1>1. CASE End(r)
  BY <1>1, EndMoves
<1>2. CASE ~End(r)
  <2> DEFINE c == [req[r] EXCEPT !.pc = "createRow", !.file = None, !.left = @ - 1]
  <2>1. req[r] \in Request
    BY DEF IInv, Typed
  <2>2. c.known = req[r].known
    BY <2>1 DEF Request
  <2>3. req' = [req EXCEPT ![r] = c]
    BY <1>2 DEF NextUpload, IInv, Typed
  <2> HIDE DEF c
  <2> QED
    BY <2>2, <2>3 DEF IInv, Typed
<1> QED
  BY <1>1, <1>2

(* The upload of f is over. *)
LEMMA OutcomeOrphan ==
    ASSUME IInv, Tidy, NEW r \in Requests, req[r] # None,
           req[r].pc \in {"markDone", "markFailed"}, NextUpload(r) \/ End(r),
           NEW f \in FileIds, f = req[r].file,
           UNCHANGED <<s3, openai, ingested, lost>>,
           \A g \in FileIds \ {f} : file'[g] = file[g],
           f \notin lost => file'[f] # None /\ (file'[f].openAi \/ Gone(f))
    PROVE  Tidy'
<1>1. /\ Moves(r)
      /\ req'[r] # None => /\ req'[r].pc = "createRow" /\ req'[r].todo = req[r].todo
                           /\ req'[r].known = req[r].known
  BY NextUploadMoves, NextUploadKeeps, EndMoves
<1>2. Sends(r, f) /\ \A g \in FileIds : ~Sends(r, g)'
  BY <1>1 DEF Sends, Uploads
<1>3. \A g \in FileIds \ {f} : Thinned(r, g) /\ ~Sends(r, g)
  BY DEF Thinned, Sends
<1>4. Mine(r, f)
  BY <1>2 DEF Mine, Settled, Gone
<1>5. /\ Taken(req[r]) = req[r].todo
      /\ req'[r] # None => Taken(req'[r]) = req[r].todo
  BY <1>1 DEF Taken
<1>6. f \in req[r].todo => f \in lost
  BY <1>2, <1>5 DEF Tidy, Alone
<1>7. \A g \in req[r].todo : g \in FileIds
  BY <1>5, TakenUsed
<1>8. \A g \in req[r].todo \ lost :
         file'[g] # None /\ file'[g].openAi => g \in req[r].known
  BY <1>5, <1>6, <1>7 DEF Tidy, Load
<1>9. (req[r] # None => Load(req[r]))'
  BY <1>1, <1>5, <1>8 DEF Load, Uploads
<1> QED
  BY <1>1, <1>2, <1>3, <1>4, <1>5, <1>9, TidySafe

LEMMA MarkOrphan ==
    ASSUME IInv, Tidy, NEW r \in Requests, MarkDone(r) \/ MarkFailed(r)
    PROVE  Tidy'
<1>1. /\ req[r] # None /\ req[r].pc \in {"markDone", "markFailed"}
      /\ req[r].pc \in Uploads /\ req[r].file \in FileIds
      /\ UNCHANGED <<s3, openai, ingested>>
      /\ req[r].file \in lost \/ Sending(req[r].pc, req[r].file)
  BY DEF MarkDone, MarkFailed, At, IInv, Typed, Carries, Uploads, Tidy, Load
<1>2. PICK f \in FileIds : f = req[r].file
  BY <1>1
<1>3. CASE MarkDone(r)
  <2> DEFINE row == [status |-> "SUCCESS", openAi |-> TRUE, error |-> FALSE]
  <2>0. row \in Row /\ row.openAi
    BY DEF Row, Status
  <2>1. row \in Row /\ row.openAi /\ row # None
    <3> HIDE DEF row
    <3> QED
      BY <2>0, FilesAssumption
  <2>2. CASE UpdateRow(f, row) /\ NextUpload(r) /\ UNCHANGED lost
    <3>1. file' = [file EXCEPT ![f] = row]
      BY <2>2 DEF UpdateRow
    <3> HIDE DEF row
    <3>2. \A g \in FileIds : file'[g] = IF g = f THEN row ELSE file[g]
      BY <3>1 DEF IInv, Typed
    <3>3. file'[f] # None /\ file'[f].openAi
      BY <1>1, <1>2, <2>1, <3>2
    <3> QED
      BY <1>1, <1>2, <2>1, <2>2, <3>2, <3>3, OutcomeOrphan
  <2>3. CASE Goto(r, "markFailed") /\ UNCHANGED file /\ Lose({f})
    <3>1. /\ \A g \in FileIds : Same(g)
          /\ f \in lost' /\ lost \subseteq lost' /\ "markFailed" \in Uploads
      BY <1>1, <2>3 DEF Same, Lose, Uploads
    <3> QED
      BY <1>1, <1>2, <2>3, <3>1, UploadOrphan
  <2> QED
    BY <1>2, <1>3, <2>2, <2>3 DEF MarkDone
<1>4. CASE MarkFailed(r)
  <2>1. /\ lost' = lost /\ (NextUpload(r) \/ End(r))
        /\ f \in lost \/ (file[f] # None /\ Gone(f))
    BY <1>1, <1>2, <1>4 DEF MarkFailed, At, Sending
  <2>2. CASE UNCHANGED file
    BY <1>1, <1>2, <2>1, <2>2, OutcomeOrphan
  <2>3. CASE /\ file[f] # None
             /\ UpdateRow(f, [file[f] EXCEPT !.status = "FAILED", !.error = TRUE])
    <3> DEFINE row == [file[f] EXCEPT !.status = "FAILED", !.error = TRUE]
    <3>1. file[f] \in Row
      BY <1>1, <2>3 DEF IInv, Typed
    <3>2. row \in Row /\ row # None
      BY <3>1, FilesAssumption DEF Row, Status
    <3>3. file' = [file EXCEPT ![f] = row]
      BY <2>3 DEF UpdateRow
    <3> HIDE DEF row
    <3>4. \A g \in FileIds : file'[g] = IF g = f THEN row ELSE file[g]
      BY <3>3 DEF IInv, Typed
    <3> QED
      BY <1>1, <1>2, <2>1, <3>2, <3>4, OutcomeOrphan
  <2> QED
    BY <1>2, <1>4, <2>2, <2>3 DEF MarkFailed
<1> QED
  BY <1>3, <1>4

(* A status refresh has nothing to do with it: it never writes openAi. *)
LEMMA RefreshOrphan ==
    ASSUME IInv, Tidy, NEW r \in Requests, Poll(r) \/ SetFileStatus(r)
    PROVE  Tidy'
<1>1. /\ req[r] # None /\ req[r].pc \in {"poll", "setStatus"} /\ req[r] \in Request
      /\ req[r].file \in FileIds /\ lost' = lost
  BY DEF Poll, SetFileStatus, At, IInv, Typed, Carries, Refreshes
<1>2. CASE End(r) /\ UNCHANGED stored
  BY <1>1, <1>2, EndMoves, LookSafe DEF Uploads
<1>3. CASE Poll(r)
  <2> DEFINE s == ingested[req[r].file]
             c == [req[r] EXCEPT !.pc = "setStatus", !.status = MapStatus(s)]
  <2>1. /\ c \in Request /\ c.pc = "setStatus" /\ c.todo = req[r].todo
        /\ c.known = req[r].known
    BY <1>1 DEF Request, Statements, Status, MapStatus
  <2>2. CASE req' = [req EXCEPT ![r] = c] /\ UNCHANGED stored
    <3> HIDE DEF c
    <3>1. Moves(r) /\ req'[r] = c /\ c # None
      BY <2>1, <2>2, FilesAssumption DEF Moves, IInv, Typed
    <3>2. Taken(c) = Taken(req[r])
      BY <1>1, <2>1 DEF Taken
    <3> QED
      BY <1>1, <2>1, <2>2, <3>1, <3>2, LookSafe DEF Uploads
  <2>3. UNCHANGED stored /\ (End(r) \/ req' = [req EXCEPT ![r] = c])
    BY <1>3 DEF Poll, IInv, Typed
  <2> QED
    BY <1>2, <2>2, <2>3
<1>4. CASE SetFileStatus(r) /\ file[req[r].file] # None
  <2> DEFINE f == req[r].file
             row == [file[f] EXCEPT !.status = req[r].status,
                                    !.error = (req[r].status = "FAILED")]
  <2>1. file[f] \in Row
    BY <1>1, <1>4 DEF IInv, Typed
  <2>2. row \in Row /\ row.openAi = file[f].openAi
    BY <1>1, <2>1 DEF Row, Status, Request
  <2>3. file' = [file EXCEPT ![f] = row]
    BY <1>1, <1>4 DEF SetFileStatus, IInv, Typed
  <2>4. row # None
    BY <2>2, FilesAssumption
  <2> HIDE DEF row
  <2>5. \A g \in FileIds : file'[g] = IF g = f THEN row ELSE file[g]
    BY <1>1, <2>3 DEF IInv, Typed
  <2>6. UNCHANGED <<s3, openai, ingested>> /\ Moves(r) /\ req'[r] = None
    BY <1>4, EndMoves DEF SetFileStatus
  <2>7. \A g \in FileIds : Thinned(r, g) /\ ~Sends(r, g) /\ ~Sends(r, g)'
    BY <1>1, <1>4, <2>2, <2>4, <2>5, <2>6 DEF Thinned, Sends, Uploads
  <2> QED
    BY <1>1, <2>6, <2>7, TidySafe
<1>5. CASE SetFileStatus(r) /\ file[req[r].file] = None
  BY <1>2, <1>5 DEF SetFileStatus, stored
<1> QED
  BY <1>3, <1>4, <1>5

(* The steps of a removal *)

LEMMA NextRemovalOrphan ==
    ASSUME IInv, Tidy, NEW r \in Requests, NextRemoval(r)
    PROVE  Tidy'
<1>1. /\ req[r] # None /\ req[r].pc = "next" /\ req[r] \in Request
      /\ UNCHANGED <<stored, lost>>
  BY DEF NextRemoval, At, IInv, Typed
<1>2. CASE End(r)
  BY <1>1, <1>2, EndMoves, LookSafe DEF Uploads
<1>3. ASSUME NEW c \in Request, req' = [req EXCEPT ![r] = c],
             c.pc \in {"s3Delete", "next"}, Taken(c) \subseteq req[r].todo,
             c.known = req[r].known
      PROVE  Tidy'
  <2>1. Moves(r) /\ req'[r] = c /\ c # None
    BY <1>3, FilesAssumption DEF Moves, IInv, Typed
  <2>2. Taken(c) \subseteq Taken(req[r])
    BY <1>3 DEF Taken
  <2> QED
    BY <1>1, <1>3, <2>1, <2>2, LookSafe DEF Uploads
<1>4. ASSUME NEW f \in req[r].todo,
             req' = [req EXCEPT ![r].pc = "s3Delete", ![r].file = f,
                                ![r].todo = @ \ {f}]
      PROVE  Tidy'
  <2> DEFINE c == [req[r] EXCEPT !.pc = "s3Delete", !.file = f, !.todo = @ \ {f}]
  <2>1. /\ c \in Request /\ c.pc = "s3Delete" /\ c.file = f
        /\ c.todo \subseteq req[r].todo /\ c.known = req[r].known
    BY <1>1 DEF Request, Statements
  <2>2. req' = [req EXCEPT ![r] = c]
    BY <1>4 DEF IInv, Typed
  <2> HIDE DEF c
  <2> QED
    BY <1>3, <2>1, <2>2 DEF Taken
<1>5. ASSUME NEW f \in req[r].todo, req' = [req EXCEPT ![r].todo = @ \ {f}]
      PROVE  Tidy'
  <2> DEFINE c == [req[r] EXCEPT !.todo = @ \ {f}]
  <2>1. /\ c \in Request /\ c.pc = "next" /\ c.todo \subseteq req[r].todo
        /\ c.known = req[r].known
    BY <1>1 DEF Request
  <2>2. req' = [req EXCEPT ![r] = c]
    BY <1>5 DEF IInv, Typed
  <2> HIDE DEF c
  <2> QED
    BY <1>3, <2>1, <2>2 DEF Taken
<1> QED
  BY <1>2, <1>4, <1>5 DEF NextRemoval

LEMMA TakenEnds ==
    ASSUME IInv, Tidy, NEW r \in Requests, req[r] # None,
           req[r].pc \notin Uploads, End(r), lost' = lost,
           \A f \in FileIds : Thinned(r, f)
    PROVE  Tidy'
<1>1. \A f \in FileIds : ~Sends(r, f)
  BY DEF Sends
<1>2. Moves(r) /\ req'[r] = None
  BY EndMoves
<1>3. \A f \in FileIds : ~Sends(r, f)'
  BY <1>2 DEF Sends
<1> QED
  BY <1>1, <1>2, <1>3, TidySafe

LEMMA TakenGoes ==
    ASSUME IInv, Tidy, NEW r \in Requests, req[r] # None, lost' = lost,
           req[r].pc \in Removals \union {"dropStore"},
           NEW p \in {"unindex", "fileDelete", "deleteRow", "noteError", "next",
                      "dropSpace"},
           Goto(r, p),
           p \in {"noteError", "next", "dropSpace"}
              \/ req[r].pc \notin {"noteError", "dropStore"},
           NEW f, f = req[r].file,
           p \in {"unindex", "fileDelete", "deleteRow"} =>
              f \in lost \/ Taking(p, f)',
           \A g \in FileIds : Thinned(r, g)
    PROVE  Tidy'
<1>1. \A g \in FileIds : ~Sends(r, g)
  BY DEF Sends, Removals, Uploads
<1>2. p \in Statements
  BY DEF Statements
<1>3. PICK c \in Request :
         /\ req'[r] = c /\ c # None /\ c.pc = p /\ c.file = req[r].file
         /\ c.todo = req[r].todo /\ c.known = req[r].known
  BY <1>2, GotoMoves, GotoKeeps DEF Moves
<1>4. Taken(c) \subseteq Taken(req[r]) /\ Taken(c) \subseteq FileIds
  <2>1. Taken(c) \subseteq Taken(req[r])
    BY <1>3 DEF Taken, Removals
  <2> QED
    BY <2>1, TakenUsed
<1>5. \A g \in Taken(c) \ lost : file'[g] # None /\ file'[g].openAi => g \in c.known
  BY <1>3, <1>4 DEF Tidy, Load, Thinned
<1>6. /\ p \in {"unindex", "fileDelete", "deleteRow"} =>
            f \in lost \/ (Taking(p, f))'
      /\ p \notin Uploads
  BY DEF Uploads
<1>7. Load(req[r])'
  BY <1>3, <1>5, <1>6 DEF Load, Taken
<1>8. Moves(r) /\ \A g \in FileIds : ~Sends(r, g)'
  BY <1>2, <1>3, <1>6, GotoMoves DEF Sends
<1> QED
  BY <1>1, <1>3, <1>4, <1>7, <1>8, TidySafe

LEMMA FailOrphan ==
    ASSUME IInv, Tidy, NEW r \in Requests, req[r] # None,
           req[r].pc \in Removals, RemovalFails(r), UNCHANGED <<stored, lost>>
    PROVE  Tidy'
<1>1. \A f \in FileIds : Thinned(r, f)
  BY DEF Thinned, stored
<1>2. req[r].pc \notin Uploads
  BY DEF Removals, Uploads
<1> QED
  BY <1>1, <1>2, TakenEnds, TakenGoes DEF RemovalFails

LEMMA RemovalOrphan ==
    ASSUME IInv, Tidy, NEW r \in Requests,
           \/ S3Delete(r) \/ Unindex(r) \/ FileDelete(r)
           \/ DeleteRow(r) \/ NoteError(r)
    PROVE  Tidy'
<1>1. /\ req[r] # None /\ req[r].pc \in Removals /\ req[r].pc \notin Uploads
      /\ req[r].file \in FileIds /\ Typed /\ lost' = lost
      /\ Load(req[r])
  BY DEF S3Delete, Unindex, FileDelete, DeleteRow, NoteError, At, IInv, Typed,
         Carries, Removals, Uploads, Tidy
<1>2. PICK f \in FileIds : f = req[r].file
  BY <1>1
<1>3. CASE S3Delete(r)
  <2>1. CASE /\ s3' = s3 \ {f}
             /\ IF f \in req[r].known THEN Goto(r, "unindex")
                                      ELSE Goto(r, "deleteRow")
    <3>1. \A g \in FileIds : Thinned(r, g)
      BY <1>3, <2>1 DEF S3Delete, Thinned
    <3>2. req[r].pc = "s3Delete" /\ f \in Taken(req[r])
      BY <1>2, <1>3 DEF S3Delete, At, Taken
    <3>3. ASSUME f \notin req[r].known PROVE f \in lost \/ Gone(f)
      <4>1. f \in lost \/ (file[f] # None => ~file[f].openAi)
        BY <1>1, <3>2, <3>3 DEF Load
      <4>2. f \in lost \/ \A q \in Requests : ~Sends(q, f)
        BY <1>1, <3>2 DEF Tidy, Alone
      <4> QED
        BY <4>1, <4>2 DEF Tidy, Settled
    <3>4. UNCHANGED <<file, openai, ingested>> /\ f \notin s3'
      BY <1>3, <2>1 DEF S3Delete
    <3>5. Taking("unindex", f)'
      BY <3>4 DEF Taking
    <3>6. f \notin req[r].known => f \in lost \/ Taking("deleteRow", f)'
      BY <3>3, <3>4 DEF Taking, Gone
    <3> QED
      BY <1>1, <1>2, <2>1, <3>1, <3>2, <3>5, <3>6, TakenGoes
  <2>2. CASE s3' = s3 /\ RemovalFails(r)
    BY <1>1, <1>3, <2>2, FailOrphan DEF S3Delete, stored
  <2> QED
    BY <1>2, <1>3, <2>1, <2>2 DEF S3Delete
<1>4. CASE Unindex(r)
  <2>1. CASE ingested' = [ingested EXCEPT ![f] = "absent"] /\ Goto(r, "fileDelete")
    <3>1. \A g \in FileIds : ingested'[g] = IF g = f THEN "absent" ELSE ingested[g]
      BY <1>1, <2>1 DEF Typed
    <3>2. \A g \in FileIds : Thinned(r, g)
      BY <1>4, <3>1 DEF Unindex, Thinned
    <3>3. f \in lost \/ Taking("fileDelete", f)'
      BY <1>1, <1>2, <1>4, <3>1 DEF Unindex, At, Load, Taking
    <3>4. req[r].pc = "unindex"
      BY <1>4 DEF Unindex, At
    <3> QED
      BY <1>1, <1>2, <2>1, <3>2, <3>3, <3>4, TakenGoes
  <2>2. CASE UNCHANGED ingested /\ RemovalFails(r)
    BY <1>1, <1>4, <2>2, FailOrphan DEF Unindex, stored
  <2> QED
    BY <1>2, <1>4, <2>1, <2>2 DEF Unindex
<1>5. CASE FileDelete(r)
  <2>1. CASE openai' = openai \ {f} /\ Goto(r, "deleteRow")
    <3>1. \A g \in FileIds : Thinned(r, g)
      BY <1>5, <2>1 DEF FileDelete, Thinned
    <3>2. f \in lost \/ Taking("deleteRow", f)'
      BY <1>1, <1>2, <1>5, <2>1 DEF FileDelete, At, Load, Taking
    <3>3. req[r].pc = "fileDelete"
      BY <1>5 DEF FileDelete, At
    <3> QED
      BY <1>1, <1>2, <2>1, <3>1, <3>2, <3>3, TakenGoes
  <2>2. CASE UNCHANGED openai /\ RemovalFails(r)
    BY <1>1, <1>5, <2>2, FailOrphan DEF FileDelete, stored
  <2> QED
    BY <1>2, <1>5, <2>1, <2>2 DEF FileDelete
<1>6. CASE DeleteRow(r)
  <2>1. CASE file' = [file EXCEPT ![f] = None] /\ (Goto(r, "next") \/ End(r))
    <3>1. \A g \in FileIds : file'[g] = IF g = f THEN None ELSE file[g]
      BY <1>1, <2>1 DEF Typed
    <3>2. UNCHANGED <<s3, openai, ingested>> /\ req[r].pc = "deleteRow"
      BY <1>6 DEF DeleteRow, At
    <3>3. f \in Taken(req[r]) /\ (f \in lost' \/ (f \notin s3' /\ Gone(f)'))
      BY <1>1, <1>2, <3>2 DEF Load, Taken, Taking, Gone
    <3>4. ASSUME NEW g \in FileIds PROVE Thinned(r, g)
      BY <1>1, <3>1, <3>2, <3>3 DEF Thinned
    <3> QED
      BY <1>1, <1>2, <2>1, <3>2, <3>4, TakenEnds, TakenGoes
  <2>2. CASE UNCHANGED file /\ RemovalFails(r)
    BY <1>1, <1>6, <2>2, FailOrphan DEF DeleteRow, stored
  <2> QED
    BY <1>2, <1>6, <2>1, <2>2 DEF DeleteRow
<1>7. CASE NoteError(r)
  <2> DEFINE row == [file[f] EXCEPT !.error = TRUE]
  <2>1. Goto(r, "next") /\ UNCHANGED <<s3, openai, ingested>>
    BY <1>7 DEF NoteError
  <2>2. CASE file[f] # None /\ file' = [file EXCEPT ![f].error = TRUE]
    <3>1. file[f] \in Row /\ file' = [file EXCEPT ![f] = row]
      BY <1>1, <2>2 DEF Typed
    <3>2. row \in Row /\ row.openAi = file[f].openAi
      BY <3>1 DEF Row
    <3>3. row # None
      BY <3>2, FilesAssumption
    <3> HIDE DEF row
    <3>4. \A g \in FileIds : file'[g] = IF g = f THEN row ELSE file[g]
      BY <1>1, <3>1 DEF Typed
    <3>5. \A g \in FileIds : Thinned(r, g)
      BY <2>1, <2>2, <3>2, <3>3, <3>4 DEF Thinned
    <3> QED
      BY <1>1, <2>1, <3>5, TakenGoes
  <2>3. CASE UNCHANGED file
    <3>1. \A g \in FileIds : Thinned(r, g)
      BY <2>1, <2>3 DEF Thinned
    <3> QED
      BY <1>1, <2>1, <3>1, TakenGoes
  <2> QED
    BY <1>2, <1>7, <2>2, <2>3 DEF NoteError
<1> QED
  BY <1>3, <1>4, <1>5, <1>6, <1>7

LEMMA SpaceOrphan ==
    ASSUME IInv, Tidy, NEW r \in Requests, DropStore(r) \/ DropSpace(r), space'
    PROVE  Tidy'
<1>1. /\ req[r] # None /\ req[r].pc \in {"dropStore", "dropSpace"}
      /\ req[r].pc \notin Uploads /\ lost' = lost /\ Typed
  BY DEF DropStore, DropSpace, At, Uploads, IInv
<1>2. CASE DropStore(r)
  <2>1. CASE ingested' = [f \in FileIds |-> "absent"] /\ Goto(r, "dropSpace")
    <3>1. \A f \in FileIds : Thinned(r, f)
      BY <1>2, <2>1 DEF DropStore, Thinned
    <3>2. req[r].pc = "dropStore"
      BY <1>2 DEF DropStore, At
    <3> QED
      BY <1>1, <2>1, <3>1, <3>2, TakenGoes
  <2>2. CASE UNCHANGED ingested /\ End(r)
    <3>1. \A f \in FileIds : Thinned(r, f)
      BY <1>2, <2>2 DEF DropStore, Thinned
    <3> QED
      BY <1>1, <2>2, <3>1, TakenEnds
  <2> QED
    BY <1>2, <2>1, <2>2 DEF DropStore
<1>3. CASE DropSpace(r)
  <2>1. End(r) /\ UNCHANGED <<file, s3, openai, ingested>>
    BY <1>3 DEF DropSpace
  <2>2. \A f \in FileIds : Thinned(r, f)
    BY <2>1 DEF Thinned
  <2> QED
    BY <1>1, <2>1, <2>2, TakenEnds
<1> QED
  BY <1>2, <1>3

(* A crash loses the id of an OpenAI file that no row has yet. *)
LEMMA CrashOrphan ==
    ASSUME IInv, Tidy, Crash
    PROVE  Tidy'
<1>1. /\ \A r \in Requests : req'[r] = None
      /\ UNCHANGED <<file, s3, openai, ingested>>
      /\ lost \subseteq lost'
      /\ \A r \in Requests : At(r, "index") \/ At(r, "markDone") =>
                                req[r].file \in lost'
  BY DEF Crash, stored, Lose
<1>2. ASSUME NEW f \in FileIds, f \notin lost' PROVE Settled(f)'
  <2>1. f \notin lost /\ Settled(f)
    BY <1>1, <1>2 DEF Tidy
  <2>2. ASSUME NEW r \in Requests, Sends(r, f) PROVE Gone(f)
    <3>1. Sending(req[r].pc, f) /\ req[r].pc \in Uploads
      BY <2>1, <2>2 DEF Sends, Tidy, Load
    <3>2. req[r].pc \notin {"index", "markDone"}
      BY <1>1, <1>2, <2>2 DEF Sends, At
    <3> QED
      BY <3>1, <3>2 DEF Sending, Uploads
  <2> QED
    BY <1>1, <2>1, <2>2 DEF Settled, Gone
<1>3. \A f \in FileIds : Settled(f)'
  BY <1>2 DEF Settled
<1> QED
  BY <1>1, <1>3 DEF Tidy, Alone, Sends

LEMMA StepOrphan ==
    ASSUME IInv, Tidy, [Next]_vars, space'
    PROVE  Tidy'
<1>1. ASSUME NEW r \in Requests, Step(r) PROVE Tidy'
  BY <1>1, CreateRowOrphan, SendingOrphan, MarkOrphan, RefreshOrphan,
     NextRemovalOrphan, RemovalOrphan, SpaceOrphan DEF Step
<1>2. CASE UNCHANGED <<stored, req, lost>>
  BY <1>2 DEF stored, Tidy, Alone, Settled, Gone, Sends, Load, Taken, Sending, Taking
<1>3. ASSUME NEW r \in Requests, ProgressEvent(r) PROVE Tidy'
  BY <1>2, <1>3 DEF ProgressEvent
<1>4. CASE UNCHANGED vars
  BY <1>2, <1>4 DEF vars, stored
<1> QED
  BY <1>1, <1>3, <1>4, ArriveOrphan, CrashOrphan DEF Next

LEMMA SpaceStays == [Next]_vars /\ space' => space
<1> SUFFICES ASSUME [Next]_vars PROVE UNCHANGED space \/ ~space'
  OBVIOUS
<1>1. ASSUME NEW r \in Requests, Step(r) PROVE UNCHANGED space \/ ~space'
  BY <1>1 DEF Step, stored, CreateRow, S3Put, S3PutFails, S3Cleanup, FileCreate,
     Index, MarkDone, MarkFailed, Poll, SetFileStatus, NextRemoval, S3Delete,
     Unindex, FileDelete, DeleteRow, NoteError, DropStore, DropSpace
<1>2. ASSUME NEW r \in Requests, Arrive(r) \/ ProgressEvent(r)
      PROVE  UNCHANGED space
  BY <1>2 DEF Arrive, Upload, RefreshStatus, Remove, DeleteSpace, ProgressEvent,
     stored
<1> QED
  BY <1>1, <1>2 DEF Next, Crash, stored, vars

LEMMA OrphanInvariance == Spec => []OrphanInv
<1>1. Init => OrphanInv
  BY InitIInv DEF Init, OrphanInv, Tidy, Settled, Gone, Alone, Sends
<1>2. OrphanInv /\ [Next]_vars => OrphanInv'
  BY StepIInv, StepOrphan, SpaceStays DEF OrphanInv
<1> QED
  BY <1>1, <1>2, PTL DEF Spec

(* Whatever fails, crashes or overlaps: while the space lives and nothing  *)
(* is under way, what is stored for a file that is not lost is known to    *)
(* its row.                                                                *)
THEOREM WhatIsStoredIsKnown == Spec => []StoredIsKnown
<1>1. OrphanInv => StoredIsKnown
  BY DEF OrphanInv, Tidy, Settled, Gone, StoredIsKnown, Idle, Sends
<1> QED
  BY <1>1, OrphanInvariance, PTL
=============================================================================
