-------------------------- MODULE SessionRegistry --------------------------
(***************************************************************************)
(* What the session table promises to the rest of the backend, with no     *)
(* tokens, clocks or requests in it: a session is opened once, for one     *)
(* user, and from then on it can only be closed, for ever, by an operation *)
(* that closes sessions of that one user.                                  *)
(***************************************************************************)
CONSTANTS
    Users,       \* accounts
    SessionIds,  \* primary keys of the Session table
    None         \* no row; not a record

VARIABLE registry

Init == registry = [s \in SessionIds |-> None]

Open(u, s) ==
    /\ registry[s] = None
    /\ registry' = [registry EXCEPT ![s] = [user |-> u, revoked |-> FALSE]]

(* Close the sessions of u that are in S; the others are left alone. *)
Close(u, S) ==
    registry' = [s \in SessionIds |->
                    IF s \in S /\ registry[s] # None /\ registry[s].user = u
                      THEN [user |-> u, revoked |-> TRUE]
                      ELSE registry[s]]

Next ==
    \E u \in Users :
        \/ \E s \in SessionIds : Open(u, s)
        \/ \E S \in SUBSET SessionIds : Close(u, S)

Spec == Init /\ [][Next]_registry
=============================================================================
