----------------------------- MODULE MCAccounts -----------------------------
(* Instances of Accounts for TLC. *)
EXTENDS Accounts, TLC

Symmetry == Permutations(Emails) \union Permutations(Codes)
              \union Permutations(OtpIds) \union Permutations(ResetIds)
              \union Permutations(Requests)

(* Bound: a behaviour has verification codes or reset codes.  No statement *)
(* about one kind reads or writes the table of the other, and what they    *)
(* share, the account, no statement about reset codes writes.              *)
OneKind ==
    \/ \A i \in OtpIds : otp'[i] = None
    \/ \A i \in ResetIds : reset'[i] = None
=============================================================================
