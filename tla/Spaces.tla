------------------------------- MODULE Spaces -------------------------------
(***************************************************************************)
(* The Space table and the OpenAI vector stores behind it: SpaceService    *)
(* and the store half of OpenAiVectorStoreService.  A creation makes the   *)
(* store first and gives it back when the database refuses the row; a      *)
(* deletion drops the store first and then the row.                        *)
(*                                                                         *)
(* An id stands for the row and for its store: each creation draws one of  *)
(* each, and vectorStoreId never changes.  What a deletion cascades to is  *)
(* modelled in Files, Conversations and SpaceContents.  Roles are not      *)
(* checked here (see Invitations).                                         *)
(***************************************************************************)
EXTENDS Naturals

CONSTANTS
    Ids,       \* spaces, each with its vector store
    Slugs,     \* normalised slugs, unique in the table
    Requests,  \* requests in flight at the same time
    None,      \* null, or no row
    Faults,    \* the calls that may fail
    Crashes    \* whether the process may die

Calls == {"createStore", "insert", "cleanup", "deleteStore", "dropRow"}

Row == [slug : Slugs, logo : BOOLEAN]

Statements ==
    {"createStore", "insert", "cleanup", "dropStore", "dropRow", "readBack"}

Request == [pc : Statements, id : Ids \union {None}, slug : Slugs \union {None}]

ASSUME SpacesAssumption ==
    /\ None \notin Ids \union Slugs /\ None \notin Row /\ None \notin Request
    /\ Faults \subseteq Calls
    /\ Crashes \in BOOLEAN

VARIABLES
    row,      \* the Space table
    stores,   \* the vector stores at OpenAI
    req,      \* the requests in flight
    used,     \* ids that have been given to a store
    doomed,   \* history: spaces whose store a deletion, or the clean-up of
              \* a creation that committed and was told it failed, takes
    stopped,  \* history: spaces whose last deletion ended by a failure
    lost      \* history: stores whose clean-up failed or never came

vars == <<row, stores, req, used, doomed, stopped, lost>>
history == <<doomed, stopped, lost>>

Init ==
    /\ row = [i \in Ids |-> None]
    /\ stores = {} /\ used = {}
    /\ doomed = {} /\ stopped = {} /\ lost = {}
    /\ req = [r \in Requests |-> None]
-----------------------------------------------------------------------------
At(r, p) == req[r] # None /\ req[r].pc = p

Begin(r, p, i, slug) ==
    req[r] = None /\ req' = [req EXCEPT ![r] = [pc |-> p, id |-> i, slug |-> slug]]
Goto(r, p) == req' = [req EXCEPT ![r].pc = p]
End(r) == req' = [req EXCEPT ![r] = None]

MayFail(call) == call \in Faults

Working(i, P) ==
    \E r \in Requests : req[r] # None /\ req[r].id = i /\ req[r].pc \in P

SlugFree(slug) == \A i \in Ids : row[i] # None => row[i].slug # slug
-----------------------------------------------------------------------------
(* create: name and slug are normalised. *)
CreateSpace(r, slug) ==
    /\ Begin(r, "createStore", None, slug)
    /\ UNCHANGED <<row, stores, used, history>>

CreateStore(r) ==
    /\ At(r, "createStore")
    /\ \/ \E i \in Ids \ used :
             /\ stores' = stores \union {i}
             /\ used' = used \union {i}
             /\ req' = [req EXCEPT ![r].pc = "insert", ![r].id = i]
       \/ MayFail("createStore") /\ End(r) /\ UNCHANGED <<stores, used>>
    /\ UNCHANGED <<row, history>>

(* A slip: the transaction is not in a try block. *)
InsertOnly(r) ==
    /\ At(r, "insert")
    /\ \/ /\ SlugFree(req[r].slug)
          /\ row' = [row EXCEPT ![req[r].id] = [slug |-> req[r].slug, logo |-> FALSE]]
       \/ ~SlugFree(req[r].slug) /\ UNCHANGED row
    /\ End(r)
    /\ UNCHANGED <<stores, used, history>>

(* A slip: the row is written without its slug. *)
InsertNoSlug(r) ==
    /\ At(r, "insert")
    /\ row' = [row EXCEPT ![req[r].id] = [slug |-> None, logo |-> FALSE]]
    /\ End(r)
    /\ UNCHANGED <<stores, used, history>>

(* One transaction writes the row and the owner's membership; another      *)
(* space may have taken the slug.  A commit whose answer is lost throws    *)
(* too, and the catch block then cleans up behind a space that exists.     *)
Insert(r) ==
    /\ At(r, "insert")
    /\ \/ /\ SlugFree(req[r].slug)
          /\ row' = [row EXCEPT ![req[r].id] = [slug |-> req[r].slug, logo |-> FALSE]]
          /\ \/ End(r) /\ UNCHANGED doomed
             \/ /\ MayFail("insert")
                /\ doomed' = doomed \union {req[r].id}
                /\ Goto(r, "cleanup")
       \/ /\ ~SlugFree(req[r].slug) \/ MayFail("insert")
          /\ Goto(r, "cleanup")
          /\ UNCHANGED <<row, doomed>>
    /\ UNCHANGED <<stores, used, stopped, lost>>

(* cleanupVectorStore: what it throws is logged and dropped. *)
Cleanup(r) ==
    /\ At(r, "cleanup")
    /\ \/ /\ stores' = stores \ {req[r].id}
          /\ UNCHANGED lost
       \/ /\ MayFail("cleanup")
          /\ lost' = lost \union {req[r].id}
          /\ UNCHANGED stores
    /\ End(r)
    /\ UNCHANGED <<row, used, doomed, stopped>>
-----------------------------------------------------------------------------
(* update: one statement.  A taken slug and a missing row make it throw; a *)
(* new name alone changes nothing that is modelled.                        *)
UpdateSpace(i, slug) ==
    /\ row[i] # None /\ SlugFree(slug)
    /\ row' = [row EXCEPT ![i].slug = slug]
    /\ UNCHANGED <<stores, req, used, history>>

(* updateLogo: the upsert throws when the space is gone. *)
UpdateLogo(r, i) ==
    /\ row[i] # None
    /\ row' = [row EXCEPT ![i].logo = TRUE]
    /\ Begin(r, "readBack", i, None)
    /\ UNCHANGED <<stores, used, history>>

(* The space is read for the answer: 404 when it has gone meanwhile. *)
ReadBack(r) ==
    /\ At(r, "readBack")
    /\ End(r)
    /\ UNCHANGED <<row, stores, used, history>>
-----------------------------------------------------------------------------
(* delete reads the vector store id first. *)
DeleteSpace(r, i) ==
    /\ row[i] # None
    /\ Begin(r, "dropStore", i, None)
    /\ stopped' = stopped \ {i}
    /\ UNCHANGED <<row, stores, used, doomed, lost>>

(* A slip: a store that is already gone counts as a failure. *)
DropStoreOnce(r) ==
    LET i == req[r].id IN
    /\ At(r, "dropStore")
    /\ \/ /\ i \in stores
          /\ stores' = stores \ {i}
          /\ doomed' = doomed \union {i}
          /\ Goto(r, "dropRow")
          /\ UNCHANGED stopped
       \/ /\ i \notin stores
          /\ End(r)
          /\ UNCHANGED <<stores, doomed, stopped>>
       \/ /\ MayFail("deleteStore")
          /\ End(r)
          /\ stopped' = stopped \union {i}
          /\ UNCHANGED <<stores, doomed>>
    /\ UNCHANGED <<row, used, lost>>

(* deleteVectorStore: a 404 counts as done; any other error ends the       *)
(* deletion with the row untouched.                                        *)
DropStore(r) ==
    LET i == req[r].id IN
    /\ At(r, "dropStore")
    /\ \/ /\ stores' = stores \ {i}
          /\ doomed' = doomed \union {i}
          /\ Goto(r, "dropRow")
          /\ UNCHANGED stopped
       \/ /\ MayFail("deleteStore")
          /\ End(r)
          /\ stopped' = stopped \union {i}
          /\ UNCHANGED <<stores, doomed>>
    /\ UNCHANGED <<row, used, lost>>

(* space.delete throws when another deletion has been faster. *)
DropRow(r) ==
    LET i == req[r].id IN
    /\ At(r, "dropRow")
    /\ \/ /\ row' = [row EXCEPT ![i] = None]
          /\ UNCHANGED stopped
       \/ /\ MayFail("dropRow")
          /\ stopped' = stopped \union {i}
          /\ UNCHANGED row
    /\ End(r)
    /\ UNCHANGED <<stores, used, doomed, lost>>
-----------------------------------------------------------------------------
(* The process dies and restarts: every request is gone. *)
Crash ==
    /\ Crashes
    /\ \E r \in Requests : req[r] # None
    /\ req' = [r \in Requests |-> None]
    /\ stopped' = stopped \union {i \in Ids : Working(i, {"dropStore", "dropRow"})}
    /\ lost' = lost \union {i \in Ids : Working(i, {"insert", "cleanup"})}
    /\ UNCHANGED <<row, stores, used, doomed>>

Arrive(r) ==
    \/ \E slug \in Slugs : CreateSpace(r, slug)
    \/ \E i \in Ids : UpdateLogo(r, i) \/ DeleteSpace(r, i)

Step(r) ==
    \/ CreateStore(r) \/ Insert(r) \/ Cleanup(r) \/ ReadBack(r)
    \/ DropStore(r) \/ DropRow(r)

Next ==
    \/ Crash
    \/ \E i \in Ids, slug \in Slugs : UpdateSpace(i, slug)
    \/ \E r \in Requests : Arrive(r) \/ Step(r)

Spec == Init /\ [][Next]_vars

(* Every call comes to an end, and the event loop then resumes the request. *)
FairSpec == Spec /\ \A r \in Requests : WF_vars(Step(r))
-----------------------------------------------------------------------------
(* The variables keep their types. *)
TypeOK ==
    /\ row \in [Ids -> Row \union {None}]
    /\ stores \subseteq used
    /\ req \in [Requests -> Request \union {None}]
    /\ used \in SUBSET Ids /\ doomed \in SUBSET Ids
    /\ stopped \in SUBSET Ids /\ lost \in SUBSET Ids

(* "Vector stores are cleaned up if DB writes fail" (README.md:75): every  *)
(* store belongs to a space or to a creation that is still under way.  The *)
(* exceptions are those the code leaves: a clean-up whose own call fails,  *)
(* and a process that dies in a creation.                                  *)
StoresOwned ==
    \A i \in stores :
        row[i] # None \/ Working(i, {"insert", "cleanup"}) \/ i \in lost

(* "attempts to delete the associated vector store first" (README.md:76):  *)
(* a space is without its store only once somebody has deleted it, or its  *)
(* own creation has taken the commit for a failure: no other request, and  *)
(* no clean-up of another creation, takes the store.                       *)
SpaceHasStore == \A i \in Ids : row[i] # None => i \in stores \union doomed

(* Rows and vector stores are neither created nor deleted together, and    *)
(* yet match, but for the exceptions that the two parts name.              *)
StoresMatchRows == StoresOwned /\ SpaceHasStore

(* A deletion that no failing call stops removes the space, also after an  *)
(* earlier one has removed the store and stopped there.                    *)
DeletionCompletes ==
    \A i \in Ids :
        Working(i, {"dropStore"}) ~> (row[i] = None \/ i \in stopped)
=============================================================================
