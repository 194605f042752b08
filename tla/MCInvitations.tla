--------------------------- MODULE MCInvitations ---------------------------
(* Instances of Invitations for TLC: the owner of a space, a peer, and an  *)
(* address that nobody has registered.                                     *)
EXTENDS Invitations, TLC

CONSTANTS owner, peer, ownerMail, peerMail, strangerMail

MCMailOf == (owner :> ownerMail) @@ (peer :> peerMail)

Symmetry == Permutations(InvitationIds) \union Permutations(Requests)

(* The statements that still need to know whom the request is about. *)
Personal == {"expireCreate", "findMember", "findMembership", "txAccept",
             "insertMember", "updateMember", "deleteMember"}

Needed(c) ==
    IF c # None /\ c.pc \notin Personal THEN [c EXCEPT !.user = Owner] ELSE c

(* States are one that differ only in what no step and no property reads:  *)
(* the user of a request that does not ask for him any more, and offers to *)
(* the stranger (RoleWasGiven asks for what was offered to a user).        *)
View == <<member, joins, inv, [r \in Requests |-> Needed(req[r])], given,
          {o \in offers : o[1] # strangerMail}, passed>>
=============================================================================
