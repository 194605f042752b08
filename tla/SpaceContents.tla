--------------------------- MODULE SpaceContents ---------------------------
(***************************************************************************)
(* What hangs on the files of a space: the files as FileStore promises     *)
(* them (and Files keeps), the links of FileShares and the reminders of    *)
(* Reminders, sharing the File table.  Where the database cascades, a step *)
(* of the files is a step of the others too; all else interleaves.         *)
(***************************************************************************)
EXTENDS FileStore

CONSTANTS Elsewhere, ShareIds, ReminderIds, Requests, None

VARIABLES share, lapsed, issued, sreq, reminder, made, rreq

Shares == INSTANCE FileShares
Rem == INSTANCE Reminders

ASSUME ContentsAssumption == Shares!SharesAssumption /\ Rem!RemindersAssumption

shareVars == <<share, lapsed, issued, sreq>>
reminderVars == <<reminder, made, rreq>>
vars == <<storeVars, shareVars, reminderVars>>

ContentsInit == Init /\ Shares!Init /\ Rem!Init

(* file.delete *)
DeleteFile(f) == Delete(f) /\ Shares!SharesGo({f}) /\ Rem!LinksGo({f})

(* space.delete, which deletes every file *)
CloseSpace == Close /\ Shares!SharesGo(FileIds) /\ Rem!RemindersGo

FileStep(f) ==
    /\ \/ Create(f) \/ Store(f) \/ Condemn(f) \/ Purge(f)
       \/ \E outcome \in Outcome : Settle(f, outcome)
    /\ UNCHANGED <<shareVars, reminderVars>>

ShareStep == Shares!Next /\ UNCHANGED <<storeVars, reminderVars>>
ReminderStep == Rem!Next /\ UNCHANGED <<storeVars, shareVars>>

ContentsNext ==
    \/ CloseSpace
    \/ \E f \in FileIds : DeleteFile(f) \/ FileStep(f)
    \/ ShareStep
    \/ ReminderStep

ContentsSpec == ContentsInit /\ [][ContentsNext]_vars
-----------------------------------------------------------------------------
(* The variables of the shares and of the reminders keep their types. *)
TypeOK == Shares!TypeOK /\ Rem!TypeOK

(* Nothing refers to a file that is gone or belongs to another space,      *)
(* although shares and links are written after the file was looked up.     *)
NoDanglingReference == Shares!SharesAttached /\ Rem!LinksInSpace

(* A link that was revoked, had expired or had lost its file before the    *)
(* request came yields neither a URL nor a mail.                           *)
DeadLinkOpensNothing == Shares!DeadLinkOpensNothing

(* A file that is added to a reminder is in the answer unless another      *)
(* request has taken it out meanwhile.                                     *)
AddTakesEffect == Rem!AddTakesEffect
=============================================================================
