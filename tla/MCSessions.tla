----------------------------- MODULE MCSessions -----------------------------
(* Instances of Sessions for TLC. *)
EXTENDS Sessions, TLC

(* What node's bcrypt compares: it ignores everything after the first 72   *)
(* bytes.  The JWT header and its dot take 37 of them, the other 35 encode *)
(* {"sub":" and 18 characters of the user's UUID, so the hash tells users  *)
(* apart and nothing else.                                                 *)
First72(t) == t.user

Symmetry == Permutations(SessionIds) \union Permutations(Requests)
              \union Permutations(Users)
=============================================================================
