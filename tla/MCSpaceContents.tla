-------------------------- MODULE MCSpaceContents --------------------------
(* An instance of SpaceContents for TLC. *)
EXTENDS SpaceContents, TLC

Symmetry == Permutations(FileIds) \union Permutations(Requests)
              \union Permutations(ShareIds)

(* Bound: a behaviour has shares or reminders.  Neither reads or writes    *)
(* the tables of the other, so that both together would show nothing more. *)
OneKind ==
    \/ issued' = {} /\ \A r \in Requests : sreq'[r] = None
    \/ made' = {} /\ \A r \in Requests : rreq'[r] = None

(* Shares and reminders cannot tell the outcome of an upload, nor whether  *)
(* the object is there: states that differ in these alone are one.         *)
View == <<open,
          [f \in FileIds |-> IF record[f] \in Live THEN "live" ELSE record[f]],
          [f \in FileIds |-> record[f] \in Live /\ f \in dying],
          shareVars, reminderVars>>
=============================================================================
