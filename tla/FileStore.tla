----------------------------- MODULE FileStore -----------------------------
(***************************************************************************)
(* What the files of one space promise to everything that refers to them,  *)
(* without requests, OpenAI or failures in it.  A record is created while  *)
(* the space exists, gets one outcome, for good, and is deleted at most    *)
(* once, after a removal has begun or with its space.  A SUCCESS record    *)
(* has its object until a removal takes it.  Files implements this module, *)
(* and SpaceContents uses it as the files that shares and reminders name.  *)
(***************************************************************************)
CONSTANT FileIds  \* primary keys of File, and the S3 keys derived from them

VARIABLES
    open,    \* the space exists
    record,  \* the life of each File row
    object,  \* the files with an object in S3
    dying    \* the files whose removal has begun

storeVars == <<open, record, object, dying>>

Outcome == {"SUCCESS", "FAILED"}
Live == {"PROCESSING"} \union Outcome
Life == {"new", "deleted"} \union Live

Init ==
    /\ open = TRUE
    /\ record = [f \in FileIds |-> "new"]
    /\ object = {} /\ dying = {}

Create(f) ==
    /\ open /\ record[f] = "new"
    /\ record' = [record EXCEPT ![f] = "PROCESSING"]
    /\ UNCHANGED <<open, object, dying>>

(* The object is written before the outcome, or after the row has gone. *)
Store(f) ==
    /\ record[f] \in {"PROCESSING", "deleted"}
    /\ object' = object \union {f}
    /\ UNCHANGED <<open, record, dying>>

Settle(f, outcome) ==
    /\ record[f] = "PROCESSING"
    /\ outcome = "SUCCESS" => f \in object \union dying
    /\ record' = [record EXCEPT ![f] = outcome]
    /\ UNCHANGED <<open, object, dying>>

Condemn(f) ==
    /\ record[f] # "new"
    /\ dying' = dying \union {f}
    /\ UNCHANGED <<open, record, object>>

(* By a removal, or to clean up after an upload that failed *)
Purge(f) ==
    /\ f \in dying \/ record[f] \in {"PROCESSING", "deleted"}
    /\ object' = object \ {f}
    /\ UNCHANGED <<open, record, dying>>

Delete(f) ==
    /\ f \in dying /\ record[f] \in Live
    /\ record' = [record EXCEPT ![f] = "deleted"]
    /\ UNCHANGED <<open, object, dying>>

Close ==
    /\ open
    /\ open' = FALSE
    /\ record' = [f \in FileIds |->
                    IF record[f] = "new" THEN "new" ELSE "deleted"]
    /\ UNCHANGED <<object, dying>>

Next ==
    \/ Close
    \/ \E f \in FileIds :
          \/ Create(f) \/ Store(f) \/ Condemn(f) \/ Purge(f) \/ Delete(f)
          \/ \E outcome \in Outcome : Settle(f, outcome)

Spec == Init /\ [][Next]_storeVars
=============================================================================
