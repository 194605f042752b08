----------------------------- MODULE Invitations -----------------------------
(***************************************************************************)
(* The members and the invitations of one space: SpaceInvitationService,   *)
(* SpaceMemberService and the SpaceRoleGuard in front of both.             *)
(*                                                                         *)
(* As in Sessions, each database statement is a step and req[r].pc names   *)
(* the next one of request r; a prisma.$transaction is one step, because   *)
(* it commits or rolls back as a whole.                                    *)
(***************************************************************************)
EXTENDS Naturals

CONSTANTS
    Users,          \* accounts
    Owner,          \* the space's ownerId
    Emails,         \* trimmed, lower-case addresses
    MailOf,         \* normalizeInvitationEmail(user.email) of each user
    Exact,          \* the users whose stored email is in that form already
    DtoRoles,       \* the roles that request bodies carry
    InvitationIds,  \* primary keys of SpaceInvitation
    Requests,       \* requests in flight at the same time
    None,           \* null
    MaxJoins,       \* bound: memberships ever created for one user
    Aborts          \* whether a request may die between two statements

Roles == {"VIEWER", "EDITOR", "MANAGER", "OWNER"}

Priority == [VIEWER |-> 0, EDITOR |-> 1, MANAGER |-> 2, OWNER |-> 3]

MemberIds == 1 .. MaxJoins
Member == [id : MemberIds, role : Roles]

Invitation == [email : Emails,
               role : Roles,
               status : {"PENDING", "ACCEPTED", "REJECTED", "EXPIRED"},
               lapsed : BOOLEAN,   \* expiresAt <= now
               mailed : BOOLEAN]   \* the raw token has reached the invitee

Statements ==
    {"expireCreate", "findMember", "findPending", "insert", "mail",
     "expireList", "expireUpdate", "readUpdate", "txUpdate", "expireOne",
     "findMembership", "txAccept", "reject",
     "insertMember", "updateMember", "deleteMember"}

Request == [pc : Statements,
            user : Users,                         \* who acts, or is acted on
            inv : InvitationIds \union {None},
            email : Emails \union {None},
            role : Roles,
            seen : Member \union {None}]

ASSUME InvitationsAssumption ==
    /\ Owner \in Users
    /\ MailOf \in [Users -> Emails]
    /\ Exact \subseteq Users
    /\ \A u, v \in Exact : MailOf[u] = MailOf[v] => u = v
    /\ DtoRoles \subseteq Roles
    /\ MaxJoins \in Nat \ {0}
    /\ Aborts \in BOOLEAN
    /\ None \notin Member \union Invitation \union Request
    /\ None \notin Emails \union InvitationIds

VARIABLES
    member,  \* the SpaceMember row of each user in this space
    joins,   \* how many memberships each user has had, for fresh row ids
    inv,     \* the SpaceInvitation table
    req,     \* the requests in flight
    given,   \* history: the roles the owner has given, and to which user
    offers,  \* history: the roles that invitations have offered, and to
             \* which address
    passed   \* history: the invitations that a creation has found for its
             \* address and passed over

history == <<given, offers, passed>>
vars == <<member, joins, inv, req, history>>

(* SpaceService.create has just committed. *)
Init ==
    /\ member = [u \in Users |-> IF u = Owner THEN [id |-> 1, role |-> "OWNER"]
                                              ELSE None]
    /\ joins = [u \in Users |-> IF u = Owner THEN 1 ELSE 0]
    /\ inv = [i \in InvitationIds |-> None]
    /\ req = [r \in Requests |-> None]
    /\ given = {} /\ offers = {} /\ passed = {}
-----------------------------------------------------------------------------
At(r, p) == req[r] # None /\ req[r].pc = p

Call(p, u, i, e, role, m) ==
    [pc |-> p, user |-> u, inv |-> i, email |-> e, role |-> role, seen |-> m]

Begin(r, c) == req[r] = None /\ req' = [req EXCEPT ![r] = c]
Goto(r, p) == req' = [req EXCEPT ![r].pc = p]
End(r) == req' = [req EXCEPT ![r] = None]

(* assertRole: a membership with at least the required role *)
HasRole(u, role) ==
    member[u] # None /\ Priority[member[u].role] >= Priority[role]

(* ensureActorIsOwner *)
IsOwner(u) == HasRole(u, "OWNER") /\ u = Owner

(* spaceMember.findFirst({ user: { email } }): compares the stored email. *)
MemberByEmail(e) == \E u \in Exact : MailOf[u] = e /\ member[u] # None

Pending(i) == inv[i] # None /\ inv[i].status = "PENDING"
LivePending(i) == Pending(i) /\ ~inv[i].lapsed

SetStatus(i, s) == inv' = [inv EXCEPT ![i].status = s]

(* spaceMember.create: unique on (space, user); MaxJoins bounds the model. *)
CanJoin(u) == member[u] = None /\ joins[u] < MaxJoins
Join(u, role) ==
    /\ member' = [member EXCEPT ![u] = [id |-> joins[u] + 1, role |-> role]]
    /\ joins' = [joins EXCEPT ![u] = @ + 1]

(* The row with the id that was read is still there. *)
SameRow(u, m) == member[u] # None /\ member[u].id = m.id
-----------------------------------------------------------------------------
(* POST /spaces/:id/invitations: the guard wants a MANAGER, then the       *)
(* overdue invitations are expired, the email is normalised, OWNER is      *)
(* refused, and the member and the pending invitation are looked up.       *)
(* Promise.all sends the lookups in this order.                            *)
CreateInvitation(r, actor, e, role) ==
    /\ HasRole(actor, "MANAGER")
    /\ Begin(r, Call("expireCreate", actor, None, e, role, None))
    /\ UNCHANGED <<member, joins, inv, history>>

(* updateMany({ status: PENDING, expiresAt: { lte: now } }, EXPIRED) *)
ExpirePending ==
    inv' = [i \in InvitationIds |->
              IF Pending(i) /\ inv[i].lapsed
                THEN [inv[i] EXCEPT !.status = "EXPIRED"] ELSE inv[i]]

(* A slip: assertAssignableRole is forgotten. *)
ExpireThenCreateAnyRole(r) ==
    /\ At(r, "expireCreate")
    /\ ExpirePending
    /\ Goto(r, "findMember")
    /\ UNCHANGED <<member, joins, history>>

ExpireThenCreate(r) ==
    /\ At(r, "expireCreate")
    /\ ExpirePending
    /\ IF req[r].role = "OWNER" THEN End(r) ELSE Goto(r, "findMember")
    /\ UNCHANGED <<member, joins, history>>

FindMember(r) ==
    /\ At(r, "findMember")
    /\ IF MailOf[req[r].user] = req[r].email \/ MemberByEmail(req[r].email)
         THEN End(r) ELSE Goto(r, "findPending")
    /\ UNCHANGED <<member, joins, inv, history>>

InvitationsOf(e) == {i \in InvitationIds : inv[i] # None /\ inv[i].email = e}

(* A slip: pending invitations are not looked up. *)
FindPendingNot(r) ==
    /\ At(r, "findPending")
    /\ passed' = passed \union InvitationsOf(req[r].email)
    /\ Goto(r, "insert")
    /\ UNCHANGED <<member, joins, inv, given, offers>>

FindPending(r) ==
    LET found == InvitationsOf(req[r].email) IN
    /\ At(r, "findPending")
    /\ IF \E i \in found : LivePending(i)
         THEN End(r) /\ UNCHANGED passed
         ELSE Goto(r, "insert") /\ passed' = passed \union found
    /\ UNCHANGED <<member, joins, inv, given, offers>>

(* A slip: an omitted role is stored as null. *)
InsertInvitationNoRole(r) ==
    /\ At(r, "insert")
    /\ \E i \in InvitationIds :
          /\ inv[i] = None
          /\ inv' = [inv EXCEPT ![i] =
                       [email |-> req[r].email, role |-> None,
                        status |-> "PENDING", lapsed |-> FALSE,
                        mailed |-> FALSE]]
    /\ End(r)
    /\ UNCHANGED <<member, joins, history>>

InsertInvitation(r) ==
    /\ At(r, "insert")
    /\ \E i \in InvitationIds :
          /\ inv[i] = None
          /\ inv' = [inv EXCEPT ![i] =
                       [email |-> req[r].email, role |-> req[r].role,
                        status |-> "PENDING", lapsed |-> FALSE,
                        mailed |-> FALSE]]
          /\ req' = [req EXCEPT ![r].pc = "mail", ![r].inv = i]
    /\ offers' = offers \union {<<req[r].email, req[r].role>>}
    /\ UNCHANGED <<member, joins, given, passed>>

(* sendSpaceInvitationEmail, whose failure leaves the row behind *)
MailInvitation(r) ==
    /\ At(r, "mail")
    /\ \/ inv' = [inv EXCEPT ![req[r].inv].mailed = TRUE]
       \/ inv' = inv
    /\ End(r)
    /\ UNCHANGED <<member, joins, history>>
-----------------------------------------------------------------------------
(* GET /spaces/:id/invitations *)
ListInvitations(r, actor) ==
    /\ HasRole(actor, "MANAGER")
    /\ Begin(r, Call("expireList", actor, None, None, "VIEWER", None))
    /\ UNCHANGED <<member, joins, inv, history>>

ExpireThenList(r) ==
    /\ At(r, "expireList")
    /\ ExpirePending
    /\ End(r)
    /\ UNCHANGED <<member, joins, history>>
-----------------------------------------------------------------------------
(* PATCH /spaces/:id/invitations/:invitationId/role *)
UpdateInvitationRole(r, actor, i, role) ==
    /\ HasRole(actor, "MANAGER")
    /\ Begin(r, Call("expireUpdate", actor, i, None, role, None))
    /\ UNCHANGED <<member, joins, inv, history>>

ExpireThenUpdate(r) ==
    /\ At(r, "expireUpdate")
    /\ ExpirePending
    /\ IF req[r].role = "OWNER" THEN End(r) ELSE Goto(r, "readUpdate")
    /\ UNCHANGED <<member, joins, history>>

ReadUpdate(r) ==
    /\ At(r, "readUpdate")
    /\ IF inv[req[r].inv] # None
          /\ inv[req[r].inv].status \in {"PENDING", "ACCEPTED"}
         THEN Goto(r, "txUpdate") ELSE End(r)
    /\ UNCHANGED <<member, joins, inv, history>>

(* The transaction: the invitation gets the role, and if its status is     *)
(* ACCEPTED by now so does the membership of the user with that email.  No *)
(* such user, no membership or the owner's membership roll it back.        *)
TxUpdate(r) ==
    LET i == req[r].inv
        role == req[r].role
        Invitee == {u \in Exact : /\ MailOf[u] = inv[i].email
                                  /\ member[u] # None
                                  /\ member[u].role # "OWNER"}
        SetRole == /\ inv' = [inv EXCEPT ![i].role = role]
                   /\ offers' = offers \union {<<inv[i].email, role>>}
    IN  /\ At(r, "txUpdate")
        /\ \/ inv[i].status # "ACCEPTED" /\ SetRole /\ UNCHANGED member
           \/ /\ inv[i].status = "ACCEPTED"
              /\ \E u \in Invitee : member' = [member EXCEPT ![u].role = role]
              /\ SetRole
           \/ /\ inv[i].status = "ACCEPTED"
              /\ Invitee = {}
              /\ UNCHANGED <<inv, member, offers>>
        /\ End(r)
        /\ UNCHANGED <<joins, given, passed>>
-----------------------------------------------------------------------------
(* A slip: the signed-in email is not compared with the invited one. *)
AcceptReadAnyEmail(r, u, i) ==
    /\ LivePending(i)
    /\ inv[i].mailed
    /\ Begin(r, Call("findMembership", u, i, None, inv[i].role, None))
    /\ UNCHANGED <<member, joins, inv, history>>

(* POST /spaces/invitations/:invitationId/accept: the invitation is read,  *)
(* has to be PENDING, is expired if overdue (whatever the token), and the  *)
(* caller needs the mailed token and the invited email.  The role is kept. *)
AcceptRead(r, u, i) ==
    /\ Pending(i)
    /\ \/ /\ inv[i].lapsed
          /\ Begin(r, Call("expireOne", u, i, None, "VIEWER", None))
       \/ /\ ~inv[i].lapsed
          /\ inv[i].mailed
          /\ MailOf[u] = inv[i].email
          /\ Begin(r, Call("findMembership", u, i, None, inv[i].role, None))
    /\ UNCHANGED <<member, joins, inv, history>>

FindMembership(r) ==
    /\ At(r, "findMembership")
    /\ req' = [req EXCEPT ![r].pc = "txAccept", ![r].seen = member[req[r].user]]
    /\ UNCHANGED <<member, joins, inv, history>>

(* The transaction works on what was read: no membership then means create *)
(* now (a conflict rolls back), another role then means update that row by *)
(* its id (a missing row rolls back); the invitation becomes ACCEPTED.     *)
TxAccept(r) ==
    LET u == req[r].user
        m == req[r].seen
    IN  /\ At(r, "txAccept")
        /\ \/ /\ m = None
              /\ CanJoin(u)
              /\ Join(u, req[r].role)
              /\ SetStatus(req[r].inv, "ACCEPTED")
           \/ /\ m # None
              /\ m.role # req[r].role
              /\ SameRow(u, m)
              /\ member' = [member EXCEPT ![u].role = req[r].role]
              /\ SetStatus(req[r].inv, "ACCEPTED")
              /\ UNCHANGED joins
           \/ /\ m # None
              /\ m.role = req[r].role
              /\ SetStatus(req[r].inv, "ACCEPTED")
              /\ UNCHANGED <<member, joins>>
           \/ /\ \/ m = None /\ ~CanJoin(u)
                 \/ m # None /\ m.role # req[r].role /\ ~SameRow(u, m)
              /\ UNCHANGED <<inv, member, joins>>
        /\ End(r)
        /\ UNCHANGED history

(* POST /spaces/invitations/:invitationId/reject, with the mailed token *)
RejectRead(r, u, i) ==
    /\ LivePending(i)
    /\ inv[i].mailed
    /\ Begin(r, Call("reject", u, i, None, "VIEWER", None))
    /\ UNCHANGED <<member, joins, inv, history>>

(* update({ where: { id } }): whatever the status is by now *)
RejectWrite(r) ==
    /\ At(r, "reject")
    /\ SetStatus(req[r].inv, "REJECTED")
    /\ End(r)
    /\ UNCHANGED <<member, joins, history>>

ExpireOne(r) ==
    /\ At(r, "expireOne")
    /\ SetStatus(req[r].inv, "EXPIRED")
    /\ End(r)
    /\ UNCHANGED <<member, joins, history>>
-----------------------------------------------------------------------------
(* POST /spaces/:spaceId/members.  Guard, ensureActorIsOwner and the       *)
(* lookup of an existing member; the insert can still conflict.            *)
AddMember(r, actor, u, role) ==
    /\ IsOwner(actor)
    /\ u # actor
    /\ member[u] = None
    /\ role # "OWNER"
    /\ Begin(r, Call("insertMember", u, None, None, role, None))
    /\ UNCHANGED <<member, joins, inv, history>>

InsertMember(r) ==
    /\ At(r, "insertMember")
    /\ IF CanJoin(req[r].user)
         THEN /\ Join(req[r].user, req[r].role)
              /\ given' = given \union {<<req[r].user, req[r].role>>}
         ELSE UNCHANGED <<member, joins, given>>
    /\ End(r)
    /\ UNCHANGED <<inv, offers, passed>>

(* PATCH and DELETE /spaces/:spaceId/members/:memberId: the owner picks a  *)
(* row of somebody else that is not an OWNER row.                          *)
ManageMember(r, actor, u, role, p) ==
    /\ IsOwner(actor)
    /\ role # "OWNER"
    /\ member[u] # None
    /\ u # actor
    /\ member[u].role # "OWNER"
    /\ Begin(r, Call(p, u, None, None, role, member[u]))
    /\ UNCHANGED <<member, joins, inv, history>>

UpdateMember(r) ==
    LET u == req[r].user IN
    /\ At(r, "updateMember")
    /\ IF SameRow(u, req[r].seen)
         THEN /\ member' = [member EXCEPT ![u].role = req[r].role]
              /\ given' = given \union {<<u, req[r].role>>}
         ELSE UNCHANGED <<member, given>>
    /\ End(r)
    /\ UNCHANGED <<joins, inv, offers, passed>>

DeleteMember(r) ==
    LET u == req[r].user IN
    /\ At(r, "deleteMember")
    /\ IF SameRow(u, req[r].seen)
         THEN member' = [member EXCEPT ![u] = None]
         ELSE UNCHANGED member
    /\ End(r)
    /\ UNCHANGED <<joins, inv, history>>
-----------------------------------------------------------------------------
(* expiresAt of an invitation passes.  Only a PENDING one is ever looked   *)
(* at again for its expiry.                                                *)
Lapse(i) ==
    /\ LivePending(i)
    /\ inv' = [inv EXCEPT ![i].lapsed = TRUE]
    /\ UNCHANGED <<member, joins, req, history>>

(* A statement throws or the process dies. *)
Abort(r) ==
    /\ Aborts
    /\ req[r] # None
    /\ End(r)
    /\ UNCHANGED <<member, joins, inv, history>>

Arrive(r) ==
    \E u \in Users :
       \/ \E e \in Emails, role \in DtoRoles : CreateInvitation(r, u, e, role)
       \/ ListInvitations(r, u)
       \/ \E i \in InvitationIds :
             \/ \E role \in DtoRoles : UpdateInvitationRole(r, u, i, role)
             \/ AcceptRead(r, u, i)
             \/ RejectRead(r, u, i)
       \/ \E v \in Users, role \in DtoRoles :
             \/ AddMember(r, u, v, role)
             \/ ManageMember(r, u, v, role, "updateMember")
       \/ \E v \in Users : ManageMember(r, u, v, "VIEWER", "deleteMember")

Step(r) ==
    \/ ExpireThenCreate(r) \/ FindMember(r) \/ FindPending(r)
    \/ InsertInvitation(r) \/ MailInvitation(r)
    \/ ExpireThenList(r)
    \/ ExpireThenUpdate(r) \/ ReadUpdate(r) \/ TxUpdate(r)
    \/ FindMembership(r) \/ TxAccept(r)
    \/ RejectWrite(r) \/ ExpireOne(r)
    \/ InsertMember(r) \/ UpdateMember(r) \/ DeleteMember(r)

Next ==
    \/ \E i \in InvitationIds : Lapse(i)
    \/ \E r \in Requests : Arrive(r) \/ Step(r) \/ Abort(r)

Spec == Init /\ [][Next]_vars
-----------------------------------------------------------------------------
(* The variables keep their types. *)
TypeOK ==
    /\ member \in [Users -> Member \union {None}]
    /\ joins \in [Users -> 0 .. MaxJoins]
    /\ inv \in [InvitationIds -> Invitation \union {None}]
    /\ req \in [Requests -> Request \union {None}]
    /\ given \in SUBSET (Users \X Roles)
    /\ offers \in SUBSET (Emails \X Roles)
    /\ passed \in SUBSET InvitationIds

(* "Only the primary owner can hold the owner role", and he cannot lose    *)
(* it: no invitation, role change or removal ever touches his membership,  *)
(* and nobody else's becomes OWNER.                                        *)
OwnerKeepsRole ==
    \A u \in Users :
        u = Owner <=> (member[u] # None /\ member[u].role = "OWNER")

(* Whoever is a member has a role that the owner has given him or that an  *)
(* invitation has at some time offered to his own email, whatever          *)
(* overlaps: neither an acceptance that still carries the role it has read *)
(* nor a change of an invitation's role reaches anybody else.              *)
RoleWasGiven ==
    \A u \in Users \ {Owner} :
        member[u] # None =>
            \/ <<u, member[u].role>> \in given
            \/ <<MailOf[u], member[u].role>> \in offers

(* "Prevents duplicate pending invites": at most one invitation of an      *)
(* email is pending and not overdue.  Two creations that overlap both find *)
(* none.                                                                   *)
AtMostOnePending ==
    \A i, j \in InvitationIds :
        LivePending(i) /\ LivePending(j) /\ inv[i].email = inv[j].email => i = j

(* What the code does keep: an invitation that a creation has passed over  *)
(* can never be answered again, whatever answers, sweeps and role changes  *)
(* overlap; so of two live ones neither creation can have seen the other.  *)
PassedOverAreDead == \A i \in passed : ~LivePending(i)

(* "Invitation has already been processed": accepted, rejected and expired *)
(* are final.  An answer that has read the invitation as pending writes    *)
(* its status whatever it is by then.                                      *)
ProcessedIsFinal ==
    [][\A i \in InvitationIds :
          inv[i] # None /\ inv[i].status # "PENDING" =>
              inv'[i].status = inv[i].status]_vars

(* Acceptance "creates or updates the membership to the invitation role":  *)
(* when an invitation becomes ACCEPTED, or the role of an accepted one     *)
(* changes, the invitee is a member with exactly the invitation's role.    *)
(* An acceptance grants the role and trusts the membership that it read.   *)
AcceptedRoleGranted ==
    [][\A i \in InvitationIds :
          /\ inv[i] # None
          /\ inv'[i].status = "ACCEPTED"
          /\ inv'[i].status # inv[i].status \/ inv'[i].role # inv[i].role
          => \E u \in Users : /\ MailOf[u] = inv[i].email
                              /\ member'[u] # None
                              /\ member'[u].role = inv'[i].role]_vars
=============================================================================
