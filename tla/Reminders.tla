----------------------------- MODULE Reminders -----------------------------
(***************************************************************************)
(* The reminders of one space and the files they are linked to:            *)
(* ReminderService.  A component: it reads the life of the files, which    *)
(* FileStore changes, and SpaceContents puts the two together.             *)
(*                                                                         *)
(* Titles, notes and dates are left out: each is written in one statement  *)
(* and nothing depends on it.  Roles are not checked here.                 *)
(***************************************************************************)
CONSTANTS
    FileIds,      \* the files of the space
    Elsewhere,    \* files of another space
    ReminderIds,  \* primary keys of Reminder
    Requests,     \* requests in flight at the same time
    None          \* no row, or no reminder

Files == FileIds \union Elsewhere

Statements ==
    {"insert", "checkSet", "set", "delete", "checkAdd", "connect", "reread",
     "answer", "checkFile", "checkLink", "disconnect"}

Request == [pc : Statements,
            reminder : ReminderIds \union {None},
            want : SUBSET Files,       \* the files the client names
            linked : SUBSET Files,     \* the links the request has read
            unlinked : SUBSET Files]   \* history: links others have cut since

RemindersAssumption ==
    /\ FileIds \intersect Elsewhere = {}
    /\ None \notin ReminderIds /\ None \notin Request
    /\ \A F \in SUBSET Files : F # None

VARIABLES
    open,      \* the space exists (see FileStore); only read
    record,    \* the life of its File rows (see FileStore); only read
    reminder,  \* the Reminder table: the files each row is linked to
    made,      \* ids that have been given to a reminder
    rreq       \* the requests in flight

Init ==
    /\ reminder = [m \in ReminderIds |-> None]
    /\ made = {}
    /\ rreq = [r \in Requests |-> None]
-----------------------------------------------------------------------------
At(r, p) == rreq[r] # None /\ rreq[r].pc = p

Blank == [pc |-> "insert", reminder |-> None, want |-> {}, linked |-> {},
          unlinked |-> {}]

Begin(r, c) == rreq[r] = None /\ rreq' = [rreq EXCEPT ![r] = c]
Goto(r, p) == rreq' = [rreq EXCEPT ![r].pc = p]
End(r) == rreq' = [rreq EXCEPT ![r] = None]

(* The answer will list the links F. *)
ToAnswer(r, F) ==
    rreq' = [rreq EXCEPT ![r] = [@ EXCEPT !.pc = "answer", !.linked = F]]

Exists(f) == f \in Elsewhere \/ record[f] \notin {"new", "deleted"}

(* A slip: files are looked up by id alone. *)
BelongToAnySpace(F) == \A f \in F : Exists(f)

(* assertFilesBelongToSpace *)
BelongToSpace(F) == \A f \in F : f \in FileIds /\ Exists(f)

Adding(q) ==
    rreq[q] # None /\ rreq[q].pc \in {"checkAdd", "connect", "reread"}

(* The request r, if any, ends and cuts the links cut[m] of each reminder. *)
Cut(cut, r) ==
    rreq' = [q \in Requests |->
               IF q = r THEN None
               ELSE IF ~Adding(q) THEN rreq[q]
               ELSE [rreq[q] EXCEPT !.unlinked =
                       @ \union (cut[rreq[q].reminder] \intersect rreq[q].want)]]

CutOne(m, F, r) == Cut([x \in ReminderIds |-> IF x = m THEN F ELSE {}], r)
-----------------------------------------------------------------------------
(* createReminder: the files are looked up in the space. *)
CreateReminder(r, F) ==
    /\ open /\ BelongToSpace(F)
    /\ Begin(r, [Blank EXCEPT !.want = F])
    /\ UNCHANGED <<reminder, made>>

(* One statement inserts the row and its links; it throws when the space   *)
(* or one of the files has gone meanwhile.                                 *)
InsertReminder(r) ==
    /\ At(r, "insert")
    /\ \/ /\ open /\ \A f \in rreq[r].want : Exists(f)
          /\ \E m \in ReminderIds \ made :
                /\ reminder' = [reminder EXCEPT ![m] = rreq[r].want]
                /\ made' = made \union {m}
       \/ /\ ~open \/ \E f \in rreq[r].want : ~Exists(f)
          /\ UNCHANGED <<reminder, made>>
    /\ End(r)

(* updateReminder with fileIds: the reminder is read, then the files. *)
UpdateReminder(r, m, F) ==
    /\ reminder[m] # None
    /\ Begin(r, [Blank EXCEPT !.pc = "checkSet", !.reminder = m, !.want = F])
    /\ UNCHANGED <<reminder, made>>

CheckSet(r) ==
    /\ At(r, "checkSet")
    /\ IF BelongToSpace(rreq[r].want) THEN Goto(r, "set") ELSE End(r)
    /\ UNCHANGED <<reminder, made>>

(* The links are replaced.  A reminder that has gone meanwhile makes the   *)
(* statement throw; a file that has gone may, or is passed over.           *)
SetLinks(r) ==
    LET m == rreq[r].reminder
        F == {f \in rreq[r].want : Exists(f)} IN
    /\ At(r, "set")
    /\ \/ /\ reminder[m] # None
          /\ reminder' = [reminder EXCEPT ![m] = F]
          /\ CutOne(m, reminder[m] \ F, r)
       \/ /\ reminder[m] = None \/ F # rreq[r].want
          /\ UNCHANGED reminder
          /\ End(r)
    /\ UNCHANGED made

DeleteReminder(r, m) ==
    /\ reminder[m] # None
    /\ Begin(r, [Blank EXCEPT !.pc = "delete", !.reminder = m])
    /\ UNCHANGED <<reminder, made>>

(* Throws when the reminder has gone meanwhile; either way it is gone. *)
DeleteRow(r) ==
    /\ At(r, "delete")
    /\ reminder' = [reminder EXCEPT ![rreq[r].reminder] = None]
    /\ End(r)
    /\ UNCHANGED made
-----------------------------------------------------------------------------
(* addFilesToReminder reads the reminder with its links, *)
AddFiles(r, m, F) ==
    /\ F # {} /\ reminder[m] # None
    /\ Begin(r, [Blank EXCEPT !.pc = "checkAdd", !.reminder = m, !.want = F,
                              !.linked = reminder[m]])
    /\ UNCHANGED <<reminder, made>>

ToConnect(r) == rreq[r].want \ rreq[r].linked

(* looks the files up, and drops those that were linked when it read. *)
CheckAdd(r) ==
    /\ At(r, "checkAdd")
    /\ IF ~BelongToSpace(rreq[r].want) THEN End(r)
       ELSE IF ToConnect(r) = {} THEN Goto(r, "reread")
       ELSE Goto(r, "connect")
    /\ UNCHANGED <<reminder, made>>

(* A slip: the old links, as they were read, and the new ones are set. *)
ConnectSets(r) ==
    LET m == rreq[r].reminder
        F == {f \in rreq[r].linked \union rreq[r].want : Exists(f)} IN
    /\ At(r, "connect")
    /\ \/ /\ reminder[m] # None
          /\ reminder' = [reminder EXCEPT ![m] = F]
          /\ ToAnswer(r, F)
       \/ reminder[m] = None /\ UNCHANGED reminder /\ End(r)
    /\ UNCHANGED made

(* The others are connected.  That throws when one of them or the reminder *)
(* has gone meanwhile.  The answer lists the links after the statement.    *)
Connect(r) ==
    LET m == rreq[r].reminder
        F == reminder[m] \union ToConnect(r)
        possible == reminder[m] # None /\ \A f \in ToConnect(r) : Exists(f) IN
    /\ At(r, "connect")
    /\ \/ /\ possible
          /\ reminder' = [reminder EXCEPT ![m] = F]
          /\ ToAnswer(r, F)
       \/ ~possible /\ UNCHANGED reminder /\ End(r)
    /\ UNCHANGED made

(* Nothing to connect: the reminder is read again for the answer. *)
Reread(r) ==
    LET m == rreq[r].reminder IN
    /\ At(r, "reread")
    /\ IF reminder[m] = None THEN End(r)
       ELSE ToAnswer(r, reminder[m])
    /\ UNCHANGED <<reminder, made>>

Answer(r) == At(r, "answer") /\ End(r) /\ UNCHANGED <<reminder, made>>
-----------------------------------------------------------------------------
(* removeFileFromReminder reads the reminder, the file and the link. *)
RemoveFile(r, m, f) ==
    /\ reminder[m] # None
    /\ Begin(r, [Blank EXCEPT !.pc = "checkFile", !.reminder = m, !.want = {f}])
    /\ UNCHANGED <<reminder, made>>

CheckFile(r) ==
    /\ At(r, "checkFile")
    /\ IF BelongToSpace(rreq[r].want) THEN Goto(r, "checkLink") ELSE End(r)
    /\ UNCHANGED <<reminder, made>>

CheckLink(r) ==
    LET m == rreq[r].reminder IN
    /\ At(r, "checkLink")
    /\ IF reminder[m] # None /\ rreq[r].want \subseteq reminder[m]
         THEN Goto(r, "disconnect")
         ELSE End(r)
    /\ UNCHANGED <<reminder, made>>

(* A link that has gone meanwhile is no error, a reminder is. *)
Disconnect(r) ==
    LET m == rreq[r].reminder IN
    /\ At(r, "disconnect")
    /\ \/ /\ reminder[m] # None
          /\ reminder' = [reminder EXCEPT ![m] = @ \ rreq[r].want]
          /\ CutOne(m, rreq[r].want, r)
       \/ /\ reminder[m] = None
          /\ UNCHANGED reminder
          /\ End(r)
    /\ UNCHANGED made
-----------------------------------------------------------------------------
(* The database deletes the links to the files F with them, *)
LinksGo(F) ==
    /\ reminder' = [m \in ReminderIds |->
                      IF reminder[m] = None THEN None ELSE reminder[m] \ F]
    /\ Cut([m \in ReminderIds |-> F], None)
    /\ UNCHANGED made

(* and the reminders with the space. *)
RemindersGo ==
    /\ reminder' = [m \in ReminderIds |-> None]
    /\ UNCHANGED <<made, rreq>>

Arrive(r) ==
    \/ \E F \in SUBSET Files :
          \/ CreateReminder(r, F)
          \/ \E m \in ReminderIds : UpdateReminder(r, m, F) \/ AddFiles(r, m, F)
    \/ \E m \in ReminderIds :
          DeleteReminder(r, m) \/ \E f \in Files : RemoveFile(r, m, f)

Step(r) ==
    \/ InsertReminder(r) \/ CheckSet(r) \/ SetLinks(r) \/ DeleteRow(r)
    \/ CheckAdd(r) \/ Connect(r) \/ Reread(r) \/ Answer(r)
    \/ CheckFile(r) \/ CheckLink(r) \/ Disconnect(r)

Next == \E r \in Requests : Arrive(r) \/ Step(r)
-----------------------------------------------------------------------------
TypeOK ==
    /\ reminder \in [ReminderIds -> (SUBSET Files) \union {None}]
    /\ made \in SUBSET ReminderIds
    /\ rreq \in [Requests -> Request \union {None}]

(* A reminder is linked to files of its own space, and only to files that  *)
(* exist, although they are looked up in one statement and linked in       *)
(* another.                                                                *)
LinksInSpace ==
    \A m \in ReminderIds : reminder[m] # None => BelongToSpace(reminder[m])

(* "Adds additional files to an existing reminder" (ENDPOINTS.md:978): a   *)
(* file that was asked for is missing from the answer only if another      *)
(* request has unlinked it, or removed it, since this one began.           *)
AddTakesEffect ==
    \A r \in Requests :
        At(r, "answer") => rreq[r].want \ rreq[r].linked \subseteq rreq[r].unlinked
=============================================================================
