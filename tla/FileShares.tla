----------------------------- MODULE FileShares -----------------------------
(***************************************************************************)
(* The links under which the files of a space are opened without signing   *)
(* in: FileShareService.  A component: it reads the life of the files,     *)
(* which FileStore changes, and SpaceContents puts the two together.       *)
(*                                                                         *)
(* A share id stands for its token too; both are drawn fresh (24 random    *)
(* bytes, looked up until they are unused).  Roles are not checked here.   *)
(***************************************************************************)
CONSTANTS
    FileIds,   \* primary keys of File
    ShareIds,  \* primary keys of FileShare, and their tokens
    Requests,  \* requests in flight at the same time
    None       \* no row, or no share

Share == [file : FileIds, expires : BOOLEAN]

Statements ==
    {"insert", "findRevoked", "delete", "lookUp", "sign", "findMailed", "mail"}

Request == [pc : Statements,
            file : FileIds \union {None},
            share : ShareIds \union {None},
            expires : BOOLEAN,
            late : BOOLEAN]  \* history: the share was dead when the request came

SharesAssumption ==
    None \notin FileIds \union ShareIds /\ None \notin Share /\ None \notin Request

VARIABLES
    record,  \* the life of the File rows (see FileStore); only read
    share,   \* the FileShare table
    lapsed,  \* the shares whose expiresAt has passed
    issued,  \* ids that have been given to a share
    sreq     \* the requests in flight

Init ==
    /\ share = [s \in ShareIds |-> None]
    /\ lapsed = {} /\ issued = {}
    /\ sreq = [r \in Requests |-> None]
-----------------------------------------------------------------------------
At(r, p) == sreq[r] # None /\ sreq[r].pc = p

Blank == [pc |-> "lookUp", file |-> None, share |-> None, expires |-> FALSE,
          late |-> FALSE]

Begin(r, c) == sreq[r] = None /\ sreq' = [sreq EXCEPT ![r] = c]
Goto(r, p) == sreq' = [sreq EXCEPT ![r].pc = p]
End(r) == sreq' = [sreq EXCEPT ![r] = None]

FileExists(f) == record[f] \notin {"new", "deleted"}
Dead(s) == share[s] = None \/ s \in lapsed
-----------------------------------------------------------------------------
(* createShare: the file is read, whatever its status; the expiry, if any, *)
(* is in the future, and an unused token is drawn.                         *)
CreateShare(r, f, expires) ==
    /\ FileExists(f)
    /\ Begin(r, [Blank EXCEPT !.pc = "insert", !.file = f, !.expires = expires])
    /\ UNCHANGED <<share, lapsed, issued>>

(* A slip: fileId is no foreign key. *)
InsertShareUnchecked(r) ==
    /\ At(r, "insert")
    /\ \E s \in ShareIds \ issued :
          /\ share' = [share EXCEPT ![s] = [file |-> sreq[r].file,
                                            expires |-> sreq[r].expires]]
          /\ issued' = issued \union {s}
    /\ End(r)
    /\ UNCHANGED lapsed

(* A slip: without an expiry the column is left undefined. *)
InsertShareNoExpiry(r) ==
    /\ At(r, "insert")
    /\ \E s \in ShareIds \ issued :
          /\ share' = [share EXCEPT ![s] = [file |-> sreq[r].file, expires |-> None]]
          /\ issued' = issued \union {s}
    /\ End(r)
    /\ UNCHANGED lapsed

(* The foreign key refuses a file that has been removed since. *)
InsertShare(r) ==
    /\ At(r, "insert")
    /\ \/ /\ FileExists(sreq[r].file)
          /\ \E s \in ShareIds \ issued :
                /\ share' = [share EXCEPT ![s] = [file |-> sreq[r].file,
                                                  expires |-> sreq[r].expires]]
                /\ issued' = issued \union {s}
       \/ ~FileExists(sreq[r].file) /\ UNCHANGED <<share, issued>>
    /\ End(r)
    /\ UNCHANGED lapsed

(* The share of this file, as revokeShare and sendShareEmail look it up *)
ShareOfFile(r) ==
    share[sreq[r].share] # None /\ share[sreq[r].share].file = sreq[r].file

RevokeShare(r, f, s) ==
    /\ FileExists(f)
    /\ Begin(r, [Blank EXCEPT !.pc = "findRevoked", !.file = f, !.share = s])
    /\ UNCHANGED <<share, lapsed, issued>>

FindRevoked(r) ==
    /\ At(r, "findRevoked")
    /\ IF ShareOfFile(r) THEN Goto(r, "delete") ELSE End(r)
    /\ UNCHANGED <<share, lapsed, issued>>

(* Throws when the share has gone meanwhile; either way it is gone. *)
DeleteShare(r) ==
    /\ At(r, "delete")
    /\ share' = [share EXCEPT ![sreq[r].share] = None]
    /\ End(r)
    /\ UNCHANGED <<lapsed, issued>>
-----------------------------------------------------------------------------
(* GET share/:token arrives. *)
OpenShare(r, s) ==
    /\ Begin(r, [Blank EXCEPT !.share = s, !.late = Dead(s)])
    /\ UNCHANGED <<share, lapsed, issued>>

(* A slip: the expiry is not compared with the clock. *)
LookUpAnyAge(r) ==
    /\ At(r, "lookUp")
    /\ IF share[sreq[r].share] = None THEN End(r) ELSE Goto(r, "sign")
    /\ UNCHANGED <<share, lapsed, issued>>

(* The row is read and, in the same turn, its expiry compared.  At "sign"  *)
(* the code waits for the signer and then answers with the URL.            *)
LookUp(r) ==
    /\ At(r, "lookUp")
    /\ IF Dead(sreq[r].share) THEN End(r) ELSE Goto(r, "sign")
    /\ UNCHANGED <<share, lapsed, issued>>

(* sendShareEmail reads the file first. *)
MailShare(r, f, s) ==
    /\ FileExists(f)
    /\ Begin(r, [Blank EXCEPT !.pc = "findMailed", !.file = f, !.share = s,
                              !.late = Dead(s)])
    /\ UNCHANGED <<share, lapsed, issued>>

FindMailed(r) ==
    /\ At(r, "findMailed")
    /\ IF ShareOfFile(r) /\ sreq[r].share \notin lapsed
         THEN Goto(r, "mail")
         ELSE End(r)
    /\ UNCHANGED <<share, lapsed, issued>>

(* The URL or the mail leaves the server. *)
HandOut(r) ==
    /\ At(r, "sign") \/ At(r, "mail")
    /\ End(r)
    /\ UNCHANGED <<share, lapsed, issued>>
-----------------------------------------------------------------------------
Lapse(s) ==
    /\ share[s] # None /\ share[s].expires /\ s \notin lapsed
    /\ lapsed' = lapsed \union {s}
    /\ UNCHANGED <<share, issued, sreq>>

(* The database deletes the shares of the files F with them. *)
SharesGo(F) ==
    /\ share' = [s \in ShareIds |->
                   IF share[s] # None /\ share[s].file \in F THEN None ELSE share[s]]
    /\ UNCHANGED <<lapsed, issued, sreq>>

Arrive(r) ==
    \/ \E f \in FileIds :
          \/ \E expires \in BOOLEAN : CreateShare(r, f, expires)
          \/ \E s \in issued : RevokeShare(r, f, s) \/ MailShare(r, f, s)
    \/ \E s \in issued : OpenShare(r, s)

Step(r) ==
    \/ InsertShare(r) \/ FindRevoked(r) \/ DeleteShare(r)
    \/ LookUp(r) \/ FindMailed(r) \/ HandOut(r)

Next ==
    \/ \E s \in ShareIds : Lapse(s)
    \/ \E r \in Requests : Arrive(r) \/ Step(r)
-----------------------------------------------------------------------------
TypeOK ==
    /\ share \in [ShareIds -> Share \union {None}]
    /\ lapsed \subseteq issued /\ issued \in SUBSET ShareIds
    /\ sreq \in [Requests -> Request \union {None}]

(* A link that was revoked, had expired or had lost its file before the    *)
(* request came yields neither a URL nor a mail (ENDPOINTS.md:804, :843).  *)
DeadLinkOpensNothing ==
    \A r \in Requests : At(r, "sign") \/ At(r, "mail") => ~sreq[r].late

(* Every share is that of a file that exists. *)
SharesAttached == \A s \in ShareIds : share[s] # None => FileExists(share[s].file)
=============================================================================
