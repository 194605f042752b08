-------------------------- MODULE InvitationsProofs --------------------------
(***************************************************************************)
(* What Invitations guarantees for any number of users, addresses,         *)
(* invitations and requests, whatever overlaps.                            *)
(*                                                                         *)
(* A request carries the invitation, the address and the membership row it *)
(* has read; Local says what the statements ahead of it may rely on.  Rows *)
(* of the invitation table are never deleted and keep their address, which *)
(* is what makes Local survive the steps of others.                        *)
(***************************************************************************)
EXTENDS Invitations, TLAPS

USE InvitationsAssumption

(* The locals c of a request, given the invitation table t. *)
Local(c, t) ==
    /\ c.pc \in {"expireUpdate", "readUpdate", "mail", "txUpdate",
                 "findMembership", "txAccept", "reject", "expireOne"} =>
          c.inv \in InvitationIds
    /\ c.pc \in {"mail", "txUpdate", "findMembership", "txAccept", "reject",
                 "expireOne"} => t[c.inv] # None
    /\ c.pc \in {"findMembership", "txAccept"} =>
          t[c.inv].email = MailOf[c.user]
    /\ c.pc \in {"expireCreate", "findMember", "findPending", "insert"} =>
          c.email \in Emails
    /\ c.pc \in {"updateMember", "deleteMember"} => c.seen \in Member

IInv ==
    /\ TypeOK
    /\ \A r \in Requests : req[r] # None => Local(req[r], inv)

(* The table t2 has every invitation of t1, for the same address. *)
Kept(t1, t2) ==
    \A i \in InvitationIds :
        t1[i] # None => t2[i] # None /\ t2[i].email = t1[i].email

(* The history variables' part of TypeOK *)
HistoryTyped ==
    /\ given \in SUBSET (Users \X Roles)
    /\ offers \in SUBSET (Emails \X Roles)
    /\ passed \in SUBSET InvitationIds

LEMMA InitIInv == Init => IInv
<1> SUFFICES ASSUME Init PROVE IInv
  OBVIOUS
<1>1. \A u \in Users :
         member[u] = IF u = Owner THEN [id |-> 1, role |-> "OWNER"] ELSE None
  BY DEF Init
<1>2. [id |-> 1, role |-> "OWNER"] \in Member
  BY DEF Member, MemberIds, Roles
<1>3. member \in [Users -> Member \union {None}]
  BY <1>1, <1>2 DEF Init
<1>4. TypeOK
  BY <1>3 DEF Init, TypeOK
<1> QED
  BY <1>4 DEF Init, IInv

(* One step of request r, whose locals become c (None when it ends). *)
LEMMA StepIInv ==
    ASSUME IInv, HistoryTyped', NEW r \in Requests, NEW c \in Request \union {None},
           req' = [req EXCEPT ![r] = c],
           c # None => Local(c, inv'),
           inv' \in [InvitationIds -> Invitation \union {None}],
           Kept(inv, inv'),
           member' \in [Users -> Member \union {None}],
           joins' \in [Users -> 0 .. MaxJoins]
    PROVE  IInv'
<1>1. TypeOK'
  BY DEF IInv, TypeOK, HistoryTyped
<1>2. ASSUME NEW q \in Requests, req'[q] # None
      PROVE  Local(req'[q], inv')
  <2>1. CASE q = r
    BY <1>2, <2>1 DEF IInv, TypeOK
  <2>2. CASE q # r
    <3>1. req'[q] = req[q] /\ Local(req[q], inv)
      BY <1>2, <2>2 DEF IInv, TypeOK
    <3> QED
      BY <3>1 DEF Local, Kept
  <2> QED
    BY <2>1, <2>2
<1> QED
  BY <1>1, <1>2 DEF IInv

(* A step that writes nothing but the locals. *)
LEMMA LocalsIInv ==
    ASSUME IInv, HistoryTyped', NEW r \in Requests, NEW c \in Request \union {None},
           req' = [req EXCEPT ![r] = c],
           c # None => Local(c, inv),
           UNCHANGED <<member, joins, inv>>
    PROVE  IInv'
BY StepIInv DEF IInv, TypeOK, Kept

(* A step that writes the invitations and the locals. *)
LEMMA TableIInv ==
    ASSUME IInv, HistoryTyped', NEW r \in Requests, NEW c \in Request \union {None},
           req' = [req EXCEPT ![r] = c],
           c # None => Local(c, inv'),
           inv' \in [InvitationIds -> Invitation \union {None}],
           Kept(inv, inv'),
           UNCHANGED <<member, joins>>
    PROVE  IInv'
BY StepIInv DEF IInv, TypeOK

(* A step that ends the request and writes memberships. *)
LEMMA MembersIInv ==
    ASSUME IInv, HistoryTyped', NEW r \in Requests, End(r),
           inv' \in [InvitationIds -> Invitation \union {None}],
           Kept(inv, inv'),
           member' \in [Users -> Member \union {None}],
           joins' \in [Users -> 0 .. MaxJoins]
    PROVE  IInv'
BY StepIInv DEF End

LEMMA CallType ==
    ASSUME NEW p \in Statements, NEW u \in Users,
           NEW i \in InvitationIds \union {None},
           NEW e \in Emails \union {None}, NEW role \in Roles,
           NEW m \in Member \union {None}
    PROVE  /\ Call(p, u, i, e, role, m) \in Request
           /\ Call(p, u, i, e, role, m).pc = p
           /\ Call(p, u, i, e, role, m).user = u
           /\ Call(p, u, i, e, role, m).inv = i
           /\ Call(p, u, i, e, role, m).email = e
           /\ Call(p, u, i, e, role, m).role = role
           /\ Call(p, u, i, e, role, m).seen = m
BY DEF Call, Request

(* A new request. *)
LEMMA BeginIInv ==
    ASSUME IInv, HistoryTyped', NEW r \in Requests,
           NEW p \in Statements, NEW u \in Users,
           NEW i \in InvitationIds \union {None},
           NEW e \in Emails \union {None}, NEW role \in Roles,
           NEW m \in Member \union {None},
           Begin(r, Call(p, u, i, e, role, m)),
           UNCHANGED <<member, joins, inv>>,
           p \in {"expireCreate", "expireList", "expireUpdate",
                  "findMembership", "reject", "expireOne", "insertMember",
                  "updateMember", "deleteMember"},
           p = "expireCreate" => e \in Emails,
           p \in {"expireUpdate", "findMembership", "reject", "expireOne"} =>
               i \in InvitationIds,
           p \in {"findMembership", "reject", "expireOne"} => inv[i] # None,
           p = "findMembership" => inv[i].email = MailOf[u],
           p \in {"updateMember", "deleteMember"} => m \in Member
    PROVE  IInv'
<1> DEFINE c == Call(p, u, i, e, role, m)
<1>1. /\ c \in Request /\ c.pc = p /\ c.user = u /\ c.inv = i
      /\ c.email = e /\ c.seen = m
  BY CallType
<1>2. req' = [req EXCEPT ![r] = c]
  BY DEF Begin
<1> HIDE DEF c
<1>3. Local(c, inv)
  BY <1>1 DEF Local
<1> QED
  BY <1>1, <1>2, <1>3, LocalsIInv

LEMMA ArriveIInv ==
    ASSUME IInv, HistoryTyped', NEW r \in Requests, Arrive(r)
    PROVE  IInv'
<1>1. ASSUME NEW u \in Users, NEW e \in Emails, NEW role \in DtoRoles,
             CreateInvitation(r, u, e, role)
      PROVE  IInv'
  <2>1. "expireCreate" \in Statements
    BY DEF Statements
  <2> QED
    BY <1>1, <2>1, BeginIInv DEF CreateInvitation
<1>2. ASSUME NEW u \in Users, ListInvitations(r, u)
      PROVE  IInv'
  <2>1. "expireList" \in Statements /\ "VIEWER" \in Roles
    BY DEF Statements, Roles
  <2> QED
    BY <1>2, <2>1, BeginIInv DEF ListInvitations
<1>3. ASSUME NEW u \in Users, NEW i \in InvitationIds, NEW role \in DtoRoles,
             UpdateInvitationRole(r, u, i, role)
      PROVE  IInv'
  <2>1. "expireUpdate" \in Statements
    BY DEF Statements
  <2> QED
    BY <1>3, <2>1, BeginIInv DEF UpdateInvitationRole
<1>4. ASSUME NEW u \in Users, NEW i \in InvitationIds, AcceptRead(r, u, i)
      PROVE  IInv'
  <2>1. /\ "expireOne" \in Statements /\ "findMembership" \in Statements
        /\ "VIEWER" \in Roles
    BY DEF Statements, Roles
  <2>2. inv[i] # None /\ inv[i].role \in Roles
    BY <1>4 DEF AcceptRead, Pending, IInv, TypeOK, Invitation
  <2>3. CASE Begin(r, Call("expireOne", u, i, None, "VIEWER", None))
    BY <1>4, <2>1, <2>2, <2>3, BeginIInv DEF AcceptRead
  <2>4. CASE /\ MailOf[u] = inv[i].email
             /\ Begin(r, Call("findMembership", u, i, None, inv[i].role, None))
    BY <1>4, <2>1, <2>2, <2>4, BeginIInv DEF AcceptRead
  <2> QED
    BY <1>4, <2>3, <2>4 DEF AcceptRead
<1>5. ASSUME NEW u \in Users, NEW i \in InvitationIds, RejectRead(r, u, i)
      PROVE  IInv'
  <2>1. "reject" \in Statements /\ "VIEWER" \in Roles
    BY DEF Statements, Roles
  <2> QED
    BY <1>5, <2>1, BeginIInv DEF RejectRead, LivePending, Pending
<1>6. ASSUME NEW u \in Users, NEW v \in Users, NEW role \in DtoRoles,
             AddMember(r, u, v, role)
      PROVE  IInv'
  <2>1. "insertMember" \in Statements
    BY DEF Statements
  <2> QED
    BY <1>6, <2>1, BeginIInv DEF AddMember
<1>7. ASSUME NEW u \in Users, NEW v \in Users, NEW role \in Roles,
             NEW p \in {"updateMember", "deleteMember"},
             ManageMember(r, u, v, role, p)
      PROVE  IInv'
  <2>1. p \in Statements
    BY DEF Statements
  <2>2. member[v] \in Member
    BY <1>7 DEF ManageMember, IInv, TypeOK
  <2> QED
    BY <1>7, <2>1, <2>2, BeginIInv DEF ManageMember
<1>8. "VIEWER" \in Roles
  BY DEF Roles
<1> QED
  BY <1>1, <1>2, <1>3, <1>4, <1>5, <1>6, <1>7, <1>8 DEF Arrive

LEMMA LocalsType ==
    ASSUME IInv, NEW r \in Requests, req[r] # None
    PROVE  /\ req[r] \in Request
           /\ req[r].pc \in Statements /\ req[r].user \in Users
           /\ req[r].inv \in InvitationIds \union {None}
           /\ req[r].email \in Emails \union {None}
           /\ req[r].role \in Roles
           /\ req[r].seen \in Member \union {None}
           /\ Local(req[r], inv)
BY DEF IInv, TypeOK, Request

(* Request r moves on to statement p. *)
LEMMA GotoLocals ==
    ASSUME IInv, NEW r \in Requests, req[r] # None, NEW p \in Statements
    PROVE  LET c == [req[r] EXCEPT !.pc = p]
           IN  /\ c \in Request /\ c.pc = p
               /\ c.user = req[r].user /\ c.inv = req[r].inv
               /\ c.email = req[r].email /\ c.role = req[r].role
               /\ c.seen = req[r].seen
               /\ Goto(r, p) => req' = [req EXCEPT ![r] = c]
<1>1. req[r] \in Request /\ req \in [Requests -> Request \union {None}]
  BY LocalsType DEF IInv, TypeOK
<1> QED
  BY <1>1 DEF Request, Goto

LEMMA GotoIInv ==
    ASSUME IInv, HistoryTyped', NEW r \in Requests, req[r] # None, NEW p \in Statements,
           Goto(r, p),
           inv' \in [InvitationIds -> Invitation \union {None}],
           Kept(inv, inv'),
           UNCHANGED <<member, joins>>,
           p \in {"findMember", "findPending", "insert", "readUpdate", "txUpdate"},
           p \in {"findMember", "findPending", "insert"} => req[r].email \in Emails,
           p \in {"readUpdate", "txUpdate"} => req[r].inv \in InvitationIds,
           p = "txUpdate" => inv'[req[r].inv] # None
    PROVE  IInv'
<1> DEFINE c == [req[r] EXCEPT !.pc = p]
<1>1. /\ c \in Request /\ c.pc = p /\ c.inv = req[r].inv
      /\ c.email = req[r].email /\ c.user = req[r].user
      /\ req' = [req EXCEPT ![r] = c]
  BY GotoLocals
<1> HIDE DEF c
<1>2. Local(c, inv')
  BY <1>1 DEF Local
<1> QED
  BY <1>1, <1>2, TableIInv

LEMMA EndIInv ==
    ASSUME IInv, HistoryTyped', NEW r \in Requests, End(r),
           inv' \in [InvitationIds -> Invitation \union {None}],
           Kept(inv, inv'),
           UNCHANGED <<member, joins>>
    PROVE  IInv'
BY TableIInv DEF End

LEMMA SameTable ==
    ASSUME IInv, inv' = inv
    PROVE  inv' \in [InvitationIds -> Invitation \union {None}] /\ Kept(inv, inv')
BY DEF IInv, TypeOK, Kept

(* One invitation becomes x, which keeps its address. *)
LEMMA TableRow ==
    ASSUME IInv, NEW i \in InvitationIds, NEW x \in Invitation,
           inv[i] # None => x.email = inv[i].email,
           inv' = [inv EXCEPT ![i] = x]
    PROVE  /\ inv' \in [InvitationIds -> Invitation \union {None}]
           /\ Kept(inv, inv')
           /\ inv'[i] = x /\ x # None
BY DEF IInv, TypeOK, Kept

LEMMA SetStatusTable ==
    ASSUME IInv, NEW i \in InvitationIds, inv[i] # None,
           NEW st \in {"PENDING", "ACCEPTED", "REJECTED", "EXPIRED"},
           SetStatus(i, st)
    PROVE  /\ inv' \in [InvitationIds -> Invitation \union {None}]
           /\ Kept(inv, inv')
           /\ inv'[i].role = inv[i].role
           /\ \A j \in InvitationIds : j # i => inv'[j] = inv[j]
<1> DEFINE x == [inv[i] EXCEPT !.status = st]
<1>1. inv[i] \in Invitation /\ inv \in [InvitationIds -> Invitation \union {None}]
  BY DEF IInv, TypeOK
<1>2. x \in Invitation /\ x.email = inv[i].email /\ x.role = inv[i].role
  BY <1>1 DEF Invitation
<1>3. inv' = [inv EXCEPT ![i] = x]
  BY <1>1 DEF SetStatus
<1> HIDE DEF x
<1> QED
  BY <1>1, <1>2, <1>3, TableRow

LEMMA ExpirePendingTable ==
    ASSUME IInv, ExpirePending
    PROVE  /\ inv' \in [InvitationIds -> Invitation \union {None}]
           /\ Kept(inv, inv')
           /\ \A i \in InvitationIds :
                 inv'[i] # None => inv[i] # None /\ inv'[i].role = inv[i].role
<1>1. ASSUME NEW i \in InvitationIds
      PROVE  /\ inv'[i] \in Invitation \union {None}
             /\ inv[i] = None <=> inv'[i] = None
             /\ inv[i] # None => /\ inv'[i].email = inv[i].email
                                 /\ inv'[i].role = inv[i].role
  <2>1. inv[i] \in Invitation \union {None}
    BY DEF IInv, TypeOK
  <2>2. inv'[i] = IF Pending(i) /\ inv[i].lapsed
                    THEN [inv[i] EXCEPT !.status = "EXPIRED"] ELSE inv[i]
    BY DEF ExpirePending
  <2>3. CASE Pending(i) /\ inv[i].lapsed
    BY <2>1, <2>2, <2>3 DEF Pending, Invitation
  <2>4. CASE ~(Pending(i) /\ inv[i].lapsed)
    BY <2>1, <2>2, <2>4
  <2> QED
    BY <2>3, <2>4
<1> QED
  BY <1>1 DEF ExpirePending, Kept

LEMMA CreateStepsIInv ==
    ASSUME IInv, HistoryTyped', NEW r \in Requests,
           ExpireThenCreate(r) \/ FindMember(r) \/ FindPending(r)
             \/ ExpireThenList(r)
    PROVE  IInv'
<1>1. /\ "findMember" \in Statements /\ "findPending" \in Statements
      /\ "insert" \in Statements
  BY DEF Statements
<1>2. CASE ExpireThenCreate(r)
  <2>1. /\ req[r] # None /\ req[r].email \in Emails
        /\ End(r) \/ Goto(r, "findMember")
    BY <1>2, LocalsType DEF ExpireThenCreate, At, Local
  <2> QED
    BY <1>1, <1>2, <2>1, ExpirePendingTable, EndIInv, GotoIInv
       DEF ExpireThenCreate
<1>3. CASE FindMember(r)
  <2>1. /\ req[r] # None /\ req[r].email \in Emails
        /\ End(r) \/ Goto(r, "findPending")
    BY <1>3, LocalsType DEF FindMember, At, Local
  <2> QED
    BY <1>1, <1>3, <2>1, SameTable, EndIInv, GotoIInv DEF FindMember
<1>4. CASE FindPending(r)
  <2>1. /\ req[r] # None /\ req[r].email \in Emails
        /\ End(r) \/ Goto(r, "insert")
    BY <1>4, LocalsType DEF FindPending, At, Local
  <2> QED
    BY <1>1, <1>4, <2>1, SameTable, EndIInv, GotoIInv DEF FindPending
<1>5. CASE ExpireThenList(r)
  BY <1>5, ExpirePendingTable, EndIInv DEF ExpireThenList
<1> QED
  BY <1>2, <1>3, <1>4, <1>5

LEMMA InsertInvitationIInv ==
    ASSUME IInv, HistoryTyped', NEW r \in Requests, InsertInvitation(r)
    PROVE  IInv'
<1> DEFINE x == [email |-> req[r].email, role |-> req[r].role,
                 status |-> "PENDING", lapsed |-> FALSE, mailed |-> FALSE]
<1>1. PICK i \in InvitationIds :
         /\ inv[i] = None
         /\ inv' = [inv EXCEPT ![i] = x]
         /\ req' = [req EXCEPT ![r].pc = "mail", ![r].inv = i]
  BY DEF InsertInvitation
<1>2. /\ req[r] \in Request /\ req[r] # None /\ req[r].email \in Emails
      /\ req[r].role \in Roles
  BY LocalsType DEF InsertInvitation, At, Local
<1>3. x \in Invitation
  BY <1>2 DEF Invitation
<1> DEFINE c == [req[r] EXCEPT !.pc = "mail", !.inv = i]
<1>4. c \in Request /\ c.pc = "mail" /\ c.inv = i
  BY <1>2 DEF Request, Statements
<1>5. req' = [req EXCEPT ![r] = c]
  BY <1>1, <1>2 DEF IInv, TypeOK
<1> HIDE DEF x, c
<1>6. /\ inv' \in [InvitationIds -> Invitation \union {None}]
      /\ Kept(inv, inv') /\ inv'[i] # None
  BY <1>1, <1>3, TableRow
<1>7. Local(c, inv')
  BY <1>4, <1>6 DEF Local
<1> QED
  BY <1>4, <1>5, <1>6, <1>7, TableIInv DEF InsertInvitation

LEMMA MailInvitationIInv ==
    ASSUME IInv, HistoryTyped', NEW r \in Requests, MailInvitation(r)
    PROVE  IInv'
<1> DEFINE i == req[r].inv
           x == [inv[i] EXCEPT !.mailed = TRUE]
<1>1. i \in InvitationIds /\ inv[i] # None /\ End(r)
      /\ UNCHANGED <<member, joins>>
  BY LocalsType DEF MailInvitation, At, Local
<1>2. inv[i] \in Invitation /\ inv \in [InvitationIds -> Invitation \union {None}]
  BY <1>1 DEF IInv, TypeOK
<1>3. x \in Invitation /\ x.email = inv[i].email
  BY <1>2 DEF Invitation
<1>4. CASE inv' = inv
  BY <1>1, <1>4, SameTable, EndIInv
<1>5. CASE inv' = [inv EXCEPT ![req[r].inv].mailed = TRUE]
  <2>1. inv' = [inv EXCEPT ![i] = x]
    BY <1>2, <1>5
  <2> HIDE DEF x
  <2> QED
    BY <1>1, <1>3, <2>1, TableRow, EndIInv
<1> QED
  BY <1>4, <1>5 DEF MailInvitation

LEMMA UpdateStepsIInv ==
    ASSUME IInv, HistoryTyped', NEW r \in Requests, ExpireThenUpdate(r) \/ ReadUpdate(r)
    PROVE  IInv'
<1>1. "readUpdate" \in Statements /\ "txUpdate" \in Statements
  BY DEF Statements
<1>2. CASE ExpireThenUpdate(r)
  <2>1. /\ req[r] # None /\ req[r].inv \in InvitationIds
        /\ End(r) \/ Goto(r, "readUpdate")
    BY <1>2, LocalsType DEF ExpireThenUpdate, At, Local
  <2> QED
    BY <1>1, <1>2, <2>1, ExpirePendingTable, EndIInv, GotoIInv
       DEF ExpireThenUpdate
<1>3. CASE ReadUpdate(r)
  <2>1. /\ req[r] # None /\ req[r].inv \in InvitationIds
        /\ End(r) \/ (Goto(r, "txUpdate") /\ inv[req[r].inv] # None)
    BY <1>3, LocalsType DEF ReadUpdate, At, Local
  <2> QED
    BY <1>1, <1>3, <2>1, SameTable, EndIInv, GotoIInv DEF ReadUpdate
<1> QED
  BY <1>2, <1>3

(* A change of role keeps memberships typed and makes nobody a member. *)
LEMMA SetRoleMembers ==
    ASSUME IInv, NEW u \in Users, NEW role \in Roles, member[u] # None,
           member' = [member EXCEPT ![u].role = role]
    PROVE  /\ member' \in [Users -> Member \union {None}]
           /\ \A v \in Users : member'[v] # None => member[v] # None
           /\ \A v \in Users : v # u => member'[v] = member[v]
           /\ member'[u] # None /\ member'[u].role = role
<1> DEFINE x == [member[u] EXCEPT !.role = role]
<1>1. member[u] \in Member /\ member \in [Users -> Member \union {None}]
  BY DEF IInv, TypeOK
<1>2. x \in Member /\ x # None /\ x.role = role
  BY <1>1 DEF Member
<1>3. member' = [member EXCEPT ![u] = x]
  BY <1>1
<1> HIDE DEF x
<1> QED
  BY <1>1, <1>2, <1>3

(* The invitation of a role update, whatever becomes of the membership. *)
LEMMA SetRoleTable ==
    ASSUME IInv, NEW i \in InvitationIds, inv[i] # None, NEW role \in Roles,
           inv' = [inv EXCEPT ![i].role = role]
    PROVE  /\ inv' \in [InvitationIds -> Invitation \union {None}]
           /\ Kept(inv, inv')
           /\ inv'[i] # None /\ inv'[i].role = role
           /\ \A j \in InvitationIds : j # i => inv'[j] = inv[j]
<1> DEFINE x == [inv[i] EXCEPT !.role = role]
<1>1. inv[i] \in Invitation /\ inv \in [InvitationIds -> Invitation \union {None}]
  BY DEF IInv, TypeOK
<1>2. x \in Invitation /\ x.email = inv[i].email /\ x.role = role
  BY <1>1 DEF Invitation
<1>3. inv' = [inv EXCEPT ![i] = x]
  BY <1>1
<1> HIDE DEF x
<1> QED
  BY <1>1, <1>2, <1>3, TableRow

LEMMA TxUpdateIInv ==
    ASSUME IInv, HistoryTyped', NEW r \in Requests, TxUpdate(r)
    PROVE  IInv'
<1>1. /\ req[r].inv \in InvitationIds /\ inv[req[r].inv] # None
      /\ req[r].role \in Roles
  BY LocalsType DEF TxUpdate, At, Local
<1>2. End(r) /\ UNCHANGED joins
  BY DEF TxUpdate
<1>3. /\ inv' \in [InvitationIds -> Invitation \union {None}]
      /\ Kept(inv, inv')
  BY <1>1, SetRoleTable, SameTable DEF TxUpdate
<1>4. CASE UNCHANGED member
  BY <1>2, <1>3, <1>4, EndIInv
<1>5. CASE \E u \in Users : /\ member[u] # None
                            /\ member' = [member EXCEPT ![u].role = req[r].role]
  <2>1. PICK u \in Users : /\ member[u] # None
                           /\ member' = [member EXCEPT ![u].role = req[r].role]
    BY <1>5
  <2> QED
    BY <1>1, <1>2, <1>3, <2>1, SetRoleMembers, MembersIInv DEF IInv, TypeOK
<1>6. \/ UNCHANGED member
      \/ \E u \in Users : /\ member[u] # None
                          /\ member' = [member EXCEPT ![u].role = req[r].role]
  BY DEF TxUpdate
<1> QED
  BY <1>4, <1>5, <1>6

LEMMA FindMembershipIInv ==
    ASSUME IInv, HistoryTyped', NEW r \in Requests, FindMembership(r)
    PROVE  IInv'
<1> DEFINE c == [req[r] EXCEPT !.pc = "txAccept", !.seen = member[req[r].user]]
<1>1. /\ req[r] \in Request /\ req[r] # None /\ req[r].pc = "findMembership"
      /\ Local(req[r], inv) /\ req[r].user \in Users
  BY LocalsType DEF FindMembership, At
<1>2. member[req[r].user] \in Member \union {None}
  BY <1>1 DEF IInv, TypeOK
<1>3. /\ c \in Request /\ c.pc = "txAccept" /\ c.inv = req[r].inv
      /\ c.user = req[r].user
  BY <1>1, <1>2 DEF Request, Statements
<1>4. req' = [req EXCEPT ![r] = c] /\ UNCHANGED <<member, joins, inv>>
  BY <1>1 DEF FindMembership, IInv, TypeOK
<1> HIDE DEF c
<1>5. Local(c, inv)
  BY <1>1, <1>3 DEF Local
<1> QED
  BY <1>3, <1>4, <1>5, LocalsIInv

(* A new membership *)
LEMMA JoinMembers ==
    ASSUME IInv, NEW u \in Users, NEW role \in Roles, CanJoin(u), Join(u, role)
    PROVE  /\ member' \in [Users -> Member \union {None}]
           /\ joins' \in [Users -> 0 .. MaxJoins]
           /\ \A v \in Users : v # u => member'[v] = member[v]
           /\ member'[u] # None /\ member'[u].role = role
<1> DEFINE x == [id |-> joins[u] + 1, role |-> role]
<1>1. /\ joins[u] \in 0 .. MaxJoins /\ joins[u] < MaxJoins
      /\ joins \in [Users -> 0 .. MaxJoins]
      /\ member \in [Users -> Member \union {None}]
  BY DEF IInv, TypeOK, CanJoin
<1>2. joins[u] + 1 \in 1 .. MaxJoins
  BY <1>1
<1>3. x \in Member /\ x # None /\ x.role = role
  BY <1>2 DEF Member, MemberIds
<1>4. member' = [member EXCEPT ![u] = x]
  BY DEF Join
<1>5. joins' = [joins EXCEPT ![u] = joins[u] + 1]
  BY <1>1 DEF Join
<1> HIDE DEF x
<1> QED
  BY <1>1, <1>2, <1>3, <1>4, <1>5

LEMMA TxAcceptIInv ==
    ASSUME IInv, HistoryTyped', NEW r \in Requests, TxAccept(r)
    PROVE  IInv'
<1> DEFINE u == req[r].user
           i == req[r].inv
<1>1. /\ u \in Users /\ i \in InvitationIds /\ inv[i] # None
      /\ inv[i].email = MailOf[u] /\ req[r].role \in Roles
  BY LocalsType DEF TxAccept, At, Local
<1>2. End(r)
  BY DEF TxAccept
<1>3. /\ inv' \in [InvitationIds -> Invitation \union {None}]
      /\ Kept(inv, inv')
  BY <1>1, SetStatusTable, SameTable DEF TxAccept
<1>4. CASE CanJoin(u) /\ Join(u, req[r].role)
  BY <1>1, <1>2, <1>3, <1>4, JoinMembers, MembersIInv
<1>5. CASE /\ member[u] # None /\ UNCHANGED joins
           /\ member' = [member EXCEPT ![u].role = req[r].role]
  BY <1>1, <1>2, <1>3, <1>5, SetRoleMembers, MembersIInv DEF IInv, TypeOK
<1>6. CASE UNCHANGED <<member, joins>>
  BY <1>2, <1>3, <1>6, EndIInv
<1> QED
  BY <1>4, <1>5, <1>6 DEF TxAccept, SameRow

LEMMA RejectExpireIInv ==
    ASSUME IInv, HistoryTyped', NEW r \in Requests, RejectWrite(r) \/ ExpireOne(r)
    PROVE  IInv'
<1>1. req[r].inv \in InvitationIds /\ inv[req[r].inv] # None
  BY LocalsType DEF RejectWrite, ExpireOne, At, Local
<1> QED
  BY <1>1, SetStatusTable, EndIInv DEF RejectWrite, ExpireOne

LEMMA MemberStepsIInv ==
    ASSUME IInv, HistoryTyped', NEW r \in Requests,
           InsertMember(r) \/ UpdateMember(r) \/ DeleteMember(r)
    PROVE  IInv'
<1> DEFINE u == req[r].user
<1>1. /\ u \in Users /\ req[r].role \in Roles /\ End(r) /\ inv' = inv
  BY LocalsType DEF InsertMember, UpdateMember, DeleteMember, At
<1>2. inv' \in [InvitationIds -> Invitation \union {None}] /\ Kept(inv, inv')
  BY <1>1, SameTable
<1>3. CASE UNCHANGED <<member, joins>>
  BY <1>1, <1>2, <1>3, EndIInv
<1>4. CASE CanJoin(u) /\ Join(u, req[r].role)
  BY <1>1, <1>2, <1>4, JoinMembers, MembersIInv
<1>5. CASE /\ member[u] # None /\ UNCHANGED joins
           /\ member' = [member EXCEPT ![u].role = req[r].role]
  BY <1>1, <1>2, <1>5, SetRoleMembers, MembersIInv DEF IInv, TypeOK
<1>6. CASE member' = [member EXCEPT ![u] = None] /\ UNCHANGED joins
  BY <1>1, <1>2, <1>6, MembersIInv DEF IInv, TypeOK
<1> QED
  BY <1>3, <1>4, <1>5, <1>6
     DEF InsertMember, UpdateMember, DeleteMember, SameRow

LEMMA LapseIInv ==
    ASSUME IInv, HistoryTyped', NEW i \in InvitationIds, Lapse(i)
    PROVE  IInv'
<1> DEFINE x == [inv[i] EXCEPT !.lapsed = TRUE]
<1>1. inv[i] \in Invitation /\ inv \in [InvitationIds -> Invitation \union {None}]
  BY DEF Lapse, LivePending, Pending, IInv, TypeOK
<1>2. x \in Invitation /\ x.email = inv[i].email
  BY <1>1 DEF Invitation
<1>3. inv' = [inv EXCEPT ![i] = x]
  BY <1>1 DEF Lapse
<1> HIDE DEF x
<1>4. inv' \in [InvitationIds -> Invitation \union {None}] /\ Kept(inv, inv')
  BY <1>2, <1>3, TableRow
<1>5. TypeOK'
  BY <1>4 DEF Lapse, IInv, TypeOK, HistoryTyped
<1>6. \A q \in Requests : req[q] # None => Local(req[q], inv')
  BY <1>4 DEF IInv, Local, Kept
<1> QED
  BY <1>5, <1>6 DEF Lapse, IInv

LEMMA StepHistory ==
    ASSUME IInv, NEW r \in Requests, Step(r)
    PROVE  HistoryTyped'
<1>1. HistoryTyped
  BY DEF IInv, TypeOK, HistoryTyped
<1>2. req[r] # None => /\ req[r].user \in Users /\ req[r].role \in Roles
                       /\ Local(req[r], inv)
  BY LocalsType
<1>3. CASE FindPending(r)
  BY <1>1, <1>3 DEF FindPending, InvitationsOf, HistoryTyped
<1>4. CASE InsertInvitation(r)
  BY <1>1, <1>2, <1>4 DEF InsertInvitation, At, Local, HistoryTyped
<1>5. CASE TxUpdate(r)
  <2>1. inv[req[r].inv].email \in Emails
    BY <1>2, <1>5 DEF TxUpdate, At, Local, IInv, TypeOK, Invitation
  <2> QED
    BY <1>1, <1>2, <1>5, <2>1 DEF TxUpdate, At, HistoryTyped
<1>6. CASE InsertMember(r) \/ UpdateMember(r)
  BY <1>1, <1>2, <1>6 DEF InsertMember, UpdateMember, At, HistoryTyped
<1> QED
  BY <1>1, <1>3, <1>4, <1>5, <1>6
     DEF Step, HistoryTyped, history, ExpireThenCreate, FindMember, MailInvitation,
         ExpireThenList, ExpireThenUpdate, ReadUpdate, FindMembership, TxAccept,
         RejectWrite, ExpireOne, DeleteMember

LEMMA NextHistory == IInv /\ [Next]_vars => HistoryTyped'
<1> SUFFICES ASSUME IInv, [Next]_vars PROVE HistoryTyped'
  OBVIOUS
<1>1. CASE UNCHANGED history
  BY <1>1 DEF history, IInv, TypeOK, HistoryTyped
<1>2. ASSUME NEW r \in Requests, Step(r) PROVE HistoryTyped'
  BY <1>2, StepHistory
<1>3. ASSUME NEW r \in Requests, Arrive(r) \/ Abort(r) PROVE UNCHANGED history
  BY <1>3 DEF Arrive, Abort, history, CreateInvitation, ListInvitations,
              UpdateInvitationRole, AcceptRead, RejectRead, AddMember, ManageMember
<1>4. ASSUME NEW i \in InvitationIds, Lapse(i) PROVE UNCHANGED history
  BY <1>4 DEF Lapse, history
<1> QED
  BY <1>1, <1>2, <1>3, <1>4 DEF Next, vars, history

LEMMA NextIInv == IInv /\ [Next]_vars => IInv'
<1> SUFFICES ASSUME IInv, [Next]_vars, HistoryTyped' PROVE IInv'
  BY NextHistory
<1>1. CASE \E i \in InvitationIds : Lapse(i)
  BY <1>1, LapseIInv
<1>2. ASSUME NEW r \in Requests, Arrive(r) PROVE IInv'
  BY <1>2, ArriveIInv
<1>3. ASSUME NEW r \in Requests, Step(r) PROVE IInv'
  BY <1>3, CreateStepsIInv, InsertInvitationIInv, MailInvitationIInv,
     UpdateStepsIInv, TxUpdateIInv, FindMembershipIInv, TxAcceptIInv,
     RejectExpireIInv, MemberStepsIInv DEF Step
<1>4. ASSUME NEW r \in Requests, Abort(r) PROVE IInv'
  BY <1>4, SameTable, EndIInv DEF Abort
<1>5. CASE UNCHANGED vars
  BY <1>5 DEF vars, history, IInv, TypeOK
<1> QED
  BY <1>1, <1>2, <1>3, <1>4, <1>5 DEF Next

LEMMA Invariance == Spec => []IInv
BY InitIInv, NextIInv, PTL DEF Spec

(* The variables keep their types. *)
THEOREM TypeCorrect == Spec => []TypeOK
<1>1. IInv => TypeOK
  BY DEF IInv
<1> QED
  BY <1>1, Invariance, PTL

-----------------------------------------------------------------------------
(* The owner's membership.  createInvitation finds the member of an        *)
(* address by comparing stored emails, so the argument needs the owner's   *)
(* to be stored in normal form (Owner \in Exact): then no invitation ever  *)
(* bears his address, and no request that gives or takes a role is about   *)
(* him.                                                                    *)
OwnerLocal(c) ==
    /\ c.pc \in {"findPending", "insert"} => c.email # MailOf[Owner]
    /\ c.pc \in {"findMember", "findPending", "insert", "readUpdate",
                 "txUpdate", "findMembership", "txAccept", "insertMember",
                 "updateMember"} => c.role # "OWNER"
    /\ c.pc \in {"findMembership", "txAccept", "updateMember", "deleteMember"}
          => c.user # Owner

NotForOwner(t) ==
    \A i \in InvitationIds :
        t[i] # None => t[i].email # MailOf[Owner] /\ t[i].role # "OWNER"

OInv ==
    /\ IInv
    /\ OwnerKeepsRole
    /\ NotForOwner(inv)
    /\ \A r \in Requests : req[r] # None => OwnerLocal(req[r])

LEMMA InitOInv == Init => OInv
<1> SUFFICES ASSUME Init PROVE OInv
  OBVIOUS
<1>1. IInv
  BY InitIInv
<1>2. \A u \in Users :
         member[u] = IF u = Owner THEN [id |-> 1, role |-> "OWNER"] ELSE None
  BY DEF Init
<1>3. [id |-> 1, role |-> "OWNER"] # None
  BY DEF Member, MemberIds, Roles
<1>4. OwnerKeepsRole
  <2> SUFFICES ASSUME NEW u \in Users
               PROVE  u = Owner <=> (member[u] # None /\ member[u].role = "OWNER")
    BY DEF OwnerKeepsRole
  <2>1. CASE u = Owner
    <3>1. member[u] = [id |-> 1, role |-> "OWNER"]
      BY <1>2, <2>1
    <3> QED
      BY <1>3, <2>1, <3>1
  <2>2. CASE u # Owner
    BY <1>2, <2>2
  <2> QED
    BY <2>1, <2>2
<1> QED
  BY <1>1, <1>4 DEF Init, OInv, NotForOwner

(* What a step of r leaves: the three parts of OInv in the next state. *)
LEMMA StepOwner ==
    ASSUME OInv, NEW r \in Requests, NEW c,
           req' = [req EXCEPT ![r] = c],
           c # None => OwnerLocal(c)
    PROVE  \A q \in Requests : req'[q] # None => OwnerLocal(req'[q])
<1> SUFFICES ASSUME NEW q \in Requests, req'[q] # None
             PROVE  OwnerLocal(req'[q])
  OBVIOUS
<1>1. CASE q = r
  BY <1>1 DEF OInv, IInv, TypeOK
<1>2. CASE q # r
  <2>1. req'[q] = req[q]
    BY <1>2 DEF OInv, IInv, TypeOK
  <2> QED
    BY <2>1 DEF OInv
<1> QED
  BY <1>1, <1>2

LEMMA OwnerIsMember ==
    ASSUME OInv
    PROVE  /\ member[Owner] # None /\ member[Owner].role = "OWNER"
           /\ ~CanJoin(Owner)
BY DEF OInv, OwnerKeepsRole, CanJoin

LEMMA NotForOwnerKept ==
    ASSUME OInv, Kept(inv, inv'),
           \A i \in InvitationIds :
              inv'[i] # None => inv[i] # None /\ inv'[i].role = inv[i].role
    PROVE  NotForOwner(inv')
BY DEF OInv, NotForOwner, Kept

LEMMA ArriveOwner ==
    ASSUME OInv, NEW r \in Requests, Arrive(r)
    PROVE  \A q \in Requests : req'[q] # None => OwnerLocal(req'[q])
<1>1. ASSUME NEW p \in Statements, NEW u \in Users,
             NEW i \in InvitationIds \union {None},
             NEW e \in Emails \union {None}, NEW role \in Roles,
             NEW m \in Member \union {None},
             Begin(r, Call(p, u, i, e, role, m)),
             p \in {"expireCreate", "expireList", "expireUpdate",
                    "findMembership", "reject", "expireOne", "insertMember",
                    "updateMember", "deleteMember"},
             p \in {"findMembership", "insertMember", "updateMember"} =>
                 role # "OWNER",
             p \in {"findMembership", "updateMember", "deleteMember"} =>
                 u # Owner
      PROVE  \A q \in Requests : req'[q] # None => OwnerLocal(req'[q])
  <2> DEFINE c == Call(p, u, i, e, role, m)
  <2>1. c.pc = p /\ c.user = u /\ c.role = role
    BY <1>1, CallType
  <2>2. req' = [req EXCEPT ![r] = c]
    BY <1>1 DEF Begin
  <2> HIDE DEF c
  <2>3. OwnerLocal(c)
    BY <1>1, <2>1 DEF OwnerLocal
  <2> QED
    BY <2>2, <2>3, StepOwner
<1>2. \A p \in {"expireCreate", "expireList", "expireUpdate",
                "findMembership", "reject", "expireOne", "insertMember",
                "updateMember", "deleteMember"} : p \in Statements
  BY DEF Statements
<1>3. "VIEWER" \in Roles /\ DtoRoles \subseteq Roles
  BY DEF Roles
<1>4. ASSUME NEW u \in Users, NEW e \in Emails, NEW role \in DtoRoles,
             CreateInvitation(r, u, e, role)
      PROVE  \A q \in Requests : req'[q] # None => OwnerLocal(req'[q])
  BY <1>1, <1>2, <1>3, <1>4 DEF CreateInvitation
<1>5. ASSUME NEW u \in Users, ListInvitations(r, u)
      PROVE  \A q \in Requests : req'[q] # None => OwnerLocal(req'[q])
  BY <1>1, <1>2, <1>3, <1>5 DEF ListInvitations
<1>6. ASSUME NEW u \in Users, NEW i \in InvitationIds, NEW role \in DtoRoles,
             UpdateInvitationRole(r, u, i, role)
      PROVE  \A q \in Requests : req'[q] # None => OwnerLocal(req'[q])
  BY <1>1, <1>2, <1>3, <1>6 DEF UpdateInvitationRole
<1>7. ASSUME NEW u \in Users, NEW i \in InvitationIds, AcceptRead(r, u, i)
      PROVE  \A q \in Requests : req'[q] # None => OwnerLocal(req'[q])
  <2>1. /\ inv[i] # None /\ inv[i].role \in Roles
        /\ inv[i].role # "OWNER" /\ inv[i].email # MailOf[Owner]
    BY <1>7 DEF AcceptRead, Pending, OInv, NotForOwner, IInv, TypeOK, Invitation
  <2>2. CASE Begin(r, Call("expireOne", u, i, None, "VIEWER", None))
    BY <1>1, <1>2, <1>3, <2>2
  <2>3. CASE /\ MailOf[u] = inv[i].email
             /\ Begin(r, Call("findMembership", u, i, None, inv[i].role, None))
    BY <1>1, <1>2, <2>1, <2>3
  <2> QED
    BY <1>7, <2>2, <2>3 DEF AcceptRead
<1>8. ASSUME NEW u \in Users, NEW i \in InvitationIds, RejectRead(r, u, i)
      PROVE  \A q \in Requests : req'[q] # None => OwnerLocal(req'[q])
  BY <1>1, <1>2, <1>3, <1>8 DEF RejectRead
<1>9. ASSUME NEW u \in Users, NEW v \in Users, NEW role \in DtoRoles,
             AddMember(r, u, v, role)
      PROVE  \A q \in Requests : req'[q] # None => OwnerLocal(req'[q])
  BY <1>1, <1>2, <1>3, <1>9 DEF AddMember
<1>10. ASSUME NEW u \in Users, NEW v \in Users, NEW role \in Roles,
              NEW p \in {"updateMember", "deleteMember"},
              ManageMember(r, u, v, role, p)
       PROVE  \A q \in Requests : req'[q] # None => OwnerLocal(req'[q])
  <2>1. member[v] \in Member /\ v # Owner /\ role # "OWNER"
    BY <1>10 DEF ManageMember, IsOwner, OInv, IInv, TypeOK
  <2> QED
    BY <1>1, <1>2, <1>10, <2>1 DEF ManageMember
<1> QED
  BY <1>3, <1>4, <1>5, <1>6, <1>7, <1>8, <1>9, <1>10 DEF Arrive

(* A request that ends *)
LEMMA EndOwner ==
    ASSUME OInv, NEW r \in Requests, End(r)
    PROVE  \A q \in Requests : req'[q] # None => OwnerLocal(req'[q])
BY StepOwner DEF End

(* A request that moves on to p, past the checks that p relies on *)
LEMMA GotoOwner ==
    ASSUME OInv, NEW r \in Requests, req[r] # None,
           NEW p \in {"findMember", "findPending", "insert", "readUpdate",
                      "txUpdate"},
           Goto(r, p), req[r].role # "OWNER",
           p \in {"findPending", "insert"} => req[r].email # MailOf[Owner]
    PROVE  \A q \in Requests : req'[q] # None => OwnerLocal(req'[q])
<1>1. p \in Statements
  BY DEF Statements
<1> DEFINE c == [req[r] EXCEPT !.pc = p]
<1>2. /\ c.pc = p /\ c.email = req[r].email /\ c.role = req[r].role
      /\ req' = [req EXCEPT ![r] = c]
  BY <1>1, GotoLocals DEF OInv
<1> HIDE DEF c
<1>3. OwnerLocal(c)
  BY <1>2 DEF OwnerLocal
<1> QED
  BY <1>2, <1>3, StepOwner

LEMMA StepLocalsOwner ==
    ASSUME OInv, Owner \in Exact, NEW r \in Requests, Step(r)
    PROVE  \A q \in Requests : req'[q] # None => OwnerLocal(req'[q])
<1>1. req[r] # None => OwnerLocal(req[r]) /\ req[r] \in Request
  BY LocalsType DEF OInv
<1>2. CASE ExpireThenCreate(r)
  BY <1>1, <1>2, EndOwner, GotoOwner DEF ExpireThenCreate, At
<1>3. CASE FindMember(r)
  <2>1. MemberByEmail(MailOf[Owner])
    BY OwnerIsMember DEF MemberByEmail
  <2> QED
    BY <1>1, <1>3, <2>1, EndOwner, GotoOwner DEF FindMember, At, OwnerLocal
<1>4. CASE FindPending(r)
  BY <1>1, <1>4, EndOwner, GotoOwner DEF FindPending, At, OwnerLocal
<1>5. CASE InsertInvitation(r)
  <2>1. PICK i \in InvitationIds :
           req' = [req EXCEPT ![r].pc = "mail", ![r].inv = i]
    BY <1>5 DEF InsertInvitation
  <2> DEFINE c == [req[r] EXCEPT !.pc = "mail", !.inv = i]
  <2>2. req[r] \in Request /\ req \in [Requests -> Request \union {None}]
    BY <1>1, <1>5 DEF InsertInvitation, At, OInv, IInv, TypeOK
  <2>3. c.pc = "mail" /\ req' = [req EXCEPT ![r] = c]
    BY <2>1, <2>2 DEF Request
  <2> HIDE DEF c
  <2>4. OwnerLocal(c)
    BY <2>3 DEF OwnerLocal
  <2> QED
    BY <2>3, <2>4, StepOwner
<1>6. CASE ExpireThenUpdate(r)
  BY <1>1, <1>6, EndOwner, GotoOwner DEF ExpireThenUpdate, At
<1>7. CASE ReadUpdate(r)
  BY <1>1, <1>7, EndOwner, GotoOwner DEF ReadUpdate, At, OwnerLocal
<1>8. CASE FindMembership(r)
  <2> DEFINE c == [req[r] EXCEPT !.pc = "txAccept", !.seen = member[req[r].user]]
  <2>1. /\ req[r] \in Request /\ req \in [Requests -> Request \union {None}]
        /\ req[r].pc = "findMembership" /\ OwnerLocal(req[r])
    BY <1>1, <1>8 DEF FindMembership, At, OInv, IInv, TypeOK
  <2>2. /\ c.pc = "txAccept" /\ c.role = req[r].role /\ c.user = req[r].user
        /\ req' = [req EXCEPT ![r] = c]
    BY <1>8, <2>1 DEF FindMembership, Request
  <2> HIDE DEF c
  <2>3. OwnerLocal(c)
    BY <2>1, <2>2 DEF OwnerLocal
  <2> QED
    BY <2>2, <2>3, StepOwner
<1> QED
  BY <1>2, <1>3, <1>4, <1>5, <1>6, <1>7, <1>8, EndOwner
     DEF Step, MailInvitation, ExpireThenList, TxUpdate, TxAccept,
         RejectWrite, ExpireOne, InsertMember, UpdateMember, DeleteMember

(* No step gives the owner an invitation, or an invitation his role. *)
LEMMA StepNotForOwner ==
    ASSUME OInv, NEW r \in Requests, Step(r)
    PROVE  NotForOwner(inv')
<1>1. req[r] # None => /\ OwnerLocal(req[r])
                       /\ Local(req[r], inv) /\ req[r].role \in Roles
  BY LocalsType DEF OInv
<1>2. IInv /\ NotForOwner(inv)
  BY DEF OInv
<1>3. CASE inv' = inv
  BY <1>2, <1>3
<1>4. CASE ExpirePending
  BY <1>2, <1>4, ExpirePendingTable, NotForOwnerKept
<1>5. CASE InsertInvitation(r)
  <2> DEFINE x == [email |-> req[r].email, role |-> req[r].role,
                   status |-> "PENDING", lapsed |-> FALSE, mailed |-> FALSE]
  <2>1. PICK i \in InvitationIds : inv' = [inv EXCEPT ![i] = x]
    BY <1>5 DEF InsertInvitation
  <2>2. x.email # MailOf[Owner] /\ x.role # "OWNER"
    BY <1>1, <1>5 DEF InsertInvitation, At, OwnerLocal
  <2> HIDE DEF x
  <2>3. inv \in [InvitationIds -> Invitation \union {None}]
    BY <1>2 DEF IInv, TypeOK
  <2> QED
    BY <1>2, <2>1, <2>2, <2>3 DEF NotForOwner
<1>6. CASE MailInvitation(r)
  <2> DEFINE i == req[r].inv
             x == [inv[i] EXCEPT !.mailed = TRUE]
  <2>1. i \in InvitationIds /\ inv[i] # None
    BY <1>1, <1>6 DEF MailInvitation, At, Local
  <2>2. inv[i] \in Invitation /\ inv \in [InvitationIds -> Invitation \union {None}]
    BY <1>2, <2>1 DEF IInv, TypeOK
  <2>3. x.email = inv[i].email /\ x.role = inv[i].role
    BY <2>2 DEF Invitation
  <2>4. inv' = inv \/ inv' = [inv EXCEPT ![i] = x]
    BY <1>6, <2>2 DEF MailInvitation
  <2> HIDE DEF x
  <2> QED
    BY <1>2, <2>1, <2>2, <2>3, <2>4 DEF NotForOwner
<1>7. CASE TxUpdate(r)
  <2>1. /\ req[r].inv \in InvitationIds /\ inv[req[r].inv] # None
        /\ req[r].role # "OWNER" /\ req[r].role \in Roles
    BY <1>1, <1>7 DEF TxUpdate, At, Local, OwnerLocal
  <2>2. inv' = inv \/ inv' = [inv EXCEPT ![req[r].inv].role = req[r].role]
    BY <1>7 DEF TxUpdate
  <2>3. CASE inv' = [inv EXCEPT ![req[r].inv].role = req[r].role]
    BY <1>2, <2>1, <2>3, SetRoleTable DEF Kept, NotForOwner
  <2> QED
    BY <1>3, <2>2, <2>3
<1>8. ASSUME NEW st \in {"ACCEPTED", "REJECTED", "EXPIRED"},
             SetStatus(req[r].inv, st),
             req[r].inv \in InvitationIds, inv[req[r].inv] # None
      PROVE  NotForOwner(inv')
  BY <1>2, <1>8, SetStatusTable DEF Kept, NotForOwner
<1>9. CASE TxAccept(r)
  BY <1>1, <1>3, <1>8, <1>9 DEF TxAccept, At, Local
<1>10. CASE RejectWrite(r) \/ ExpireOne(r)
  BY <1>1, <1>8, <1>10 DEF RejectWrite, ExpireOne, At, Local
<1> QED
  BY <1>3, <1>4, <1>5, <1>6, <1>7, <1>9, <1>10
     DEF Step, ExpireThenCreate, FindMember, FindPending, ExpireThenList,
         ExpireThenUpdate, ReadUpdate, FindMembership, InsertMember,
         UpdateMember, DeleteMember

(* Nobody but the owner gets a row with his role, and his row is left alone. *)
LEMMA MembersOwner ==
    ASSUME OInv, member'[Owner] = member[Owner],
           \A u \in Users \ {Owner} :
              member'[u] # None =>
                  member'[u] = member[u] \/ member'[u].role # "OWNER"
    PROVE  OwnerKeepsRole'
BY DEF OInv, OwnerKeepsRole

LEMMA StepOwnerKeepsRole ==
    ASSUME OInv, NEW r \in Requests, Step(r)
    PROVE  OwnerKeepsRole'
<1> DEFINE u == req[r].user
<1>1. req[r] # None => /\ OwnerLocal(req[r]) /\ Local(req[r], inv)
                       /\ u \in Users /\ req[r].role \in Roles
  BY LocalsType DEF OInv
<1>2. IInv
  BY DEF OInv
<1>3. CASE UNCHANGED member
  BY <1>3, MembersOwner
<1>4. ASSUME NEW v \in Users \ {Owner}, member[v] # None,
             member' = [member EXCEPT ![v].role = req[r].role],
             req[r].role \in Roles, req[r].role # "OWNER"
      PROVE  OwnerKeepsRole'
  BY <1>2, <1>4, SetRoleMembers, MembersOwner
<1>5. ASSUME NEW v \in Users, CanJoin(v), Join(v, req[r].role),
             req[r].role \in Roles, req[r].role # "OWNER"
      PROVE  OwnerKeepsRole'
  <2>1. v # Owner
    BY <1>5, OwnerIsMember
  <2>2. /\ \A w \in Users : w # v => member'[w] = member[w]
        /\ member'[v].role = req[r].role
    BY <1>2, <1>5, JoinMembers
  <2> QED
    BY <1>5, <2>1, <2>2, MembersOwner
<1>6. CASE TxUpdate(r)
  <2>1. /\ req[r].role \in Roles /\ req[r].role # "OWNER"
        /\ req[r].inv \in InvitationIds /\ inv[req[r].inv] # None
    BY <1>1, <1>6 DEF TxUpdate, At, Local, OwnerLocal
  <2>2. inv[req[r].inv].email # MailOf[Owner]
    BY <2>1 DEF OInv, NotForOwner
  <2>3. \/ UNCHANGED member
        \/ \E v \in Users : /\ MailOf[v] = inv[req[r].inv].email
                            /\ member[v] # None
                            /\ member' = [member EXCEPT ![v].role = req[r].role]
    BY <1>6 DEF TxUpdate
  <2> QED
    BY <1>3, <1>4, <2>1, <2>2, <2>3
<1>7. CASE TxAccept(r)
  <2>1. /\ u \in Users /\ u # Owner
        /\ req[r].role \in Roles /\ req[r].role # "OWNER"
    BY <1>1, <1>7 DEF TxAccept, At, OwnerLocal
  <2>2. \/ UNCHANGED member
        \/ CanJoin(u) /\ Join(u, req[r].role)
        \/ /\ member[u] # None
           /\ member' = [member EXCEPT ![u].role = req[r].role]
    BY <1>7 DEF TxAccept, SameRow
  <2> QED
    BY <1>3, <1>4, <1>5, <2>1, <2>2
<1>8. CASE InsertMember(r)
  <2>1. u \in Users /\ req[r].role \in Roles /\ req[r].role # "OWNER"
    BY <1>1, <1>8 DEF InsertMember, At, OwnerLocal
  <2> QED
    BY <1>3, <1>5, <1>8, <2>1 DEF InsertMember
<1>9. CASE UpdateMember(r)
  <2>1. /\ u \in Users /\ u # Owner
        /\ req[r].role \in Roles /\ req[r].role # "OWNER"
    BY <1>1, <1>9 DEF UpdateMember, At, OwnerLocal
  <2> QED
    BY <1>3, <1>4, <1>9, <2>1 DEF UpdateMember, SameRow
<1>10. CASE DeleteMember(r)
  <2>1. u \in Users /\ u # Owner
    BY <1>1, <1>10 DEF DeleteMember, At, OwnerLocal
  <2>2. UNCHANGED member \/ member' = [member EXCEPT ![u] = None]
    BY <1>10 DEF DeleteMember
  <2>3. \A v \in Users : member'[v] # None => member'[v] = member[v]
    BY <1>2, <2>1, <2>2 DEF IInv, TypeOK
  <2>4. member'[Owner] = member[Owner]
    BY <1>2, <2>1, <2>2 DEF IInv, TypeOK
  <2> QED
    BY <2>3, <2>4, MembersOwner
<1> QED
  BY <1>3, <1>6, <1>7, <1>8, <1>9, <1>10
     DEF Step, ExpireThenCreate, FindMember, FindPending, InsertInvitation,
         MailInvitation, ExpireThenList, ExpireThenUpdate, ReadUpdate,
         FindMembership, RejectWrite, ExpireOne

LEMMA LapseNotForOwner ==
    ASSUME OInv, NEW i \in InvitationIds, Lapse(i)
    PROVE  NotForOwner(inv')
<1> DEFINE x == [inv[i] EXCEPT !.lapsed = TRUE]
<1>1. inv[i] \in Invitation /\ inv \in [InvitationIds -> Invitation \union {None}]
  BY DEF Lapse, LivePending, Pending, OInv, IInv, TypeOK
<1>2. x.email = inv[i].email /\ x.role = inv[i].role /\ inv[i] # None
  BY <1>1 DEF Invitation
<1>3. inv' = [inv EXCEPT ![i] = x]
  BY <1>1 DEF Lapse
<1> HIDE DEF x
<1> QED
  BY <1>1, <1>2, <1>3 DEF OInv, NotForOwner

LEMMA NextOInv ==
    ASSUME Owner \in Exact
    PROVE  OInv /\ [Next]_vars => OInv'
<1> SUFFICES ASSUME OInv, [Next]_vars PROVE OInv'
  OBVIOUS
<1>1. IInv'
  BY NextIInv DEF OInv
<1>2. CASE \E i \in InvitationIds : Lapse(i)
  <2>1. PICK i \in InvitationIds : Lapse(i)
    BY <1>2
  <2>2. NotForOwner(inv')
    BY <2>1, LapseNotForOwner
  <2> QED
    BY <1>1, <2>1, <2>2 DEF Lapse, OInv, OwnerKeepsRole
<1>3. ASSUME NEW r \in Requests, Arrive(r) PROVE OInv'
  <2>1. UNCHANGED <<member, inv>>
    BY <1>3 DEF Arrive, CreateInvitation, ListInvitations,
         UpdateInvitationRole, AcceptRead, RejectRead, AddMember, ManageMember
  <2>2. \A q \in Requests : req'[q] # None => OwnerLocal(req'[q])
    BY <1>3, ArriveOwner
  <2> QED
    BY <1>1, <2>1, <2>2 DEF OInv, OwnerKeepsRole
<1>4. ASSUME NEW r \in Requests, Step(r) PROVE OInv'
  <2>1. \A q \in Requests : req'[q] # None => OwnerLocal(req'[q])
    BY <1>4, StepLocalsOwner
  <2>2. NotForOwner(inv')
    BY <1>4, StepNotForOwner
  <2>3. OwnerKeepsRole'
    BY <1>4, StepOwnerKeepsRole
  <2> QED
    BY <1>1, <2>1, <2>2, <2>3 DEF OInv
<1>5. ASSUME NEW r \in Requests, Abort(r) PROVE OInv'
  <2>1. \A q \in Requests : req'[q] # None => OwnerLocal(req'[q])
    BY <1>5, EndOwner DEF Abort
  <2> QED
    BY <1>1, <1>5, <2>1 DEF Abort, OInv, OwnerKeepsRole
<1>6. CASE UNCHANGED vars
  BY <1>1, <1>6 DEF vars, OInv, OwnerKeepsRole
<1> QED
  BY <1>2, <1>3, <1>4, <1>5, <1>6 DEF Next

(* "Only the primary owner can hold the owner role", and he keeps it,      *)
(* provided his stored email is trimmed and in lower case.  Without that   *)
(* proviso the statement is false: see the run InvitationsMixedCase.       *)
THEOREM OwnerStays ==
    ASSUME Owner \in Exact
    PROVE  Spec => []OwnerKeepsRole
<1>1. OInv => OwnerKeepsRole
  BY DEF OInv
<1>2. Init => OInv
  BY InitOInv
<1>3. OInv /\ [Next]_vars => OInv'
  BY NextOInv
<1> QED
  BY <1>1, <1>2, <1>3, PTL DEF Spec
-----------------------------------------------------------------------------
(* The life of an invitation: the ways in which a statement of r can       *)
(* change invitation i                                                     *)
Inserted(r, i) ==
    /\ At(r, "insert") /\ inv[i] = None
    /\ inv'[i] # None /\ inv'[i].email = req[r].email
    /\ inv'[i].role = req[r].role

Altered(r, i) ==
    /\ inv[i] # None /\ inv'[i] # None
    /\ inv'[i].email = inv[i].email
    /\ inv'[i].lapsed = inv[i].lapsed
    /\ inv'[i].status = inv[i].status \/ inv'[i].status # "PENDING"
    /\ \/ inv'[i].role = inv[i].role
       \/ /\ At(r, "txUpdate") /\ i = req[r].inv
          /\ inv'[i].role = req[r].role

LEMMA StatusField ==
    ASSUME NEW x \in Invitation,
           NEW st \in {"PENDING", "ACCEPTED", "REJECTED", "EXPIRED"}
    PROVE  LET y == [x EXCEPT !.status = st]
           IN  /\ y # None /\ y.status = st /\ y.role = x.role
               /\ y.email = x.email /\ y.lapsed = x.lapsed
<1>1. [x EXCEPT !.status = st] \in Invitation
  BY DEF Invitation
<1> QED
  BY <1>1 DEF Invitation

LEMMA RoleField ==
    ASSUME NEW x \in Invitation, NEW role \in Roles
    PROVE  LET y == [x EXCEPT !.role = role]
           IN  /\ y # None /\ y.status = x.status /\ y.role = role
               /\ y.email = x.email /\ y.lapsed = x.lapsed
<1>1. [x EXCEPT !.role = role] \in Invitation
  BY DEF Invitation
<1> QED
  BY <1>1 DEF Invitation

LEMMA MailedField ==
    ASSUME NEW x \in Invitation
    PROVE  LET y == [x EXCEPT !.mailed = TRUE]
           IN  /\ y # None /\ y.status = x.status /\ y.role = x.role
               /\ y.email = x.email /\ y.lapsed = x.lapsed
<1>1. [x EXCEPT !.mailed = TRUE] \in Invitation
  BY DEF Invitation
<1> QED
  BY <1>1 DEF Invitation

LEMMA RowStep ==
    ASSUME IInv, NEW r \in Requests, Step(r), NEW i \in InvitationIds
    PROVE  inv'[i] = inv[i] \/ Inserted(r, i) \/ Altered(r, i)
<1>1. /\ inv \in [InvitationIds -> Invitation \union {None}]
      /\ inv[i] # None => inv[i] \in Invitation
  BY DEF IInv, TypeOK
<1>2. CASE ExpirePending
  <2>1. inv'[i] = IF Pending(i) /\ inv[i].lapsed
                    THEN [inv[i] EXCEPT !.status = "EXPIRED"] ELSE inv[i]
    BY <1>2 DEF ExpirePending
  <2>2. CASE Pending(i) /\ inv[i].lapsed
    <3>1. inv[i] \in Invitation /\ inv[i].status = "PENDING" /\ inv[i].role \in Roles
      BY <1>1, <2>2 DEF Pending, Invitation
    <3>2. inv'[i] = [inv[i] EXCEPT !.status = "EXPIRED"]
      BY <2>1, <2>2
    <3> QED
      BY <3>1, <3>2, StatusField DEF Altered
  <2> QED
    BY <2>1, <2>2
<1>3. CASE InsertInvitation(r)
  <2> DEFINE x == [email |-> req[r].email, role |-> req[r].role,
                   status |-> "PENDING", lapsed |-> FALSE, mailed |-> FALSE]
  <2>1. PICK j \in InvitationIds : inv[j] = None /\ inv' = [inv EXCEPT ![j] = x]
    BY <1>3 DEF InsertInvitation
  <2>2. At(r, "insert") /\ req[r].email \in Emails /\ req[r].role \in Roles
    BY <1>3, LocalsType DEF InsertInvitation, At, Local
  <2>3. x \in Invitation /\ x.email = req[r].email /\ x.role = req[r].role
    BY <2>2 DEF Invitation
  <2> HIDE DEF x
  <2>4. CASE i = j
    <3>1. inv'[i] = x /\ inv[i] = None /\ x # None
      BY <1>1, <2>1, <2>3, <2>4
    <3> QED
      BY <2>2, <2>3, <3>1 DEF Inserted
  <2> QED
    BY <1>1, <2>1, <2>4
<1>4. ASSUME NEW j \in InvitationIds, inv[j] # None,
             NEW x, inv' = [inv EXCEPT ![j] = x]
      PROVE  (i = j /\ inv'[i] = x) \/ inv'[i] = inv[i]
  BY <1>1, <1>4
<1>5. ASSUME req[r] # None,
             req[r].pc \in {"mail", "txUpdate", "txAccept", "reject", "expireOne"}
      PROVE  /\ req[r].inv \in InvitationIds /\ inv[req[r].inv] # None
             /\ inv[req[r].inv] \in Invitation /\ req[r].role \in Roles
  BY <1>1, <1>5, LocalsType DEF Local, IInv, TypeOK
<1>6. CASE MailInvitation(r)
  <2> DEFINE k == req[r].inv
             y == [inv[k] EXCEPT !.mailed = TRUE]
  <2>1. k \in InvitationIds /\ inv[k] # None /\ inv[k] \in Invitation
    BY <1>5, <1>6 DEF MailInvitation, At
  <2>2. inv' = inv \/ inv' = [inv EXCEPT ![k] = y]
    BY <1>1, <1>6 DEF MailInvitation
  <2>3. /\ y # None /\ y.status = inv[k].status /\ y.role = inv[k].role
        /\ y.email = inv[k].email /\ y.lapsed = inv[k].lapsed
    BY <2>1, MailedField
  <2> HIDE DEF k, y
  <2>4. (i = k /\ inv'[i] = y) \/ inv'[i] = inv[i]
    BY <1>4, <2>1, <2>2
  <2>5. CASE i = k /\ inv'[i] = y
    <3>1. /\ inv[i] # None /\ inv'[i] # None
          /\ inv'[i].email = inv[i].email
          /\ inv'[i].lapsed = inv[i].lapsed
          /\ inv'[i].status = inv[i].status
          /\ inv'[i].role = inv[i].role
      BY <2>1, <2>3, <2>5
    <3> QED
      BY <3>1 DEF Altered
  <2> QED
    BY <2>4, <2>5
<1>7. CASE TxUpdate(r)
  <2> DEFINE k == req[r].inv
             y == [inv[k] EXCEPT !.role = req[r].role]
  <2>1. /\ k \in InvitationIds /\ inv[k] # None /\ inv[k] \in Invitation
        /\ req[r].role \in Roles /\ At(r, "txUpdate")
    BY <1>5, <1>7 DEF TxUpdate, At
  <2>2. inv' = inv \/ inv' = [inv EXCEPT ![k] = y]
    BY <1>1, <1>7 DEF TxUpdate
  <2>3. /\ y # None /\ y.status = inv[k].status
        /\ y.email = inv[k].email /\ y.lapsed = inv[k].lapsed
    BY <2>1, RoleField
  <2>4. y.role = req[r].role
    BY <2>1, RoleField
  <2> HIDE DEF y
  <2>5. (i = k /\ inv'[i] = y) \/ inv'[i] = inv[i]
    BY <1>4, <2>1, <2>2
  <2>6. CASE i = k /\ inv'[i] = y
    <3>1. /\ inv[i] # None /\ inv'[i] # None
          /\ inv'[i].email = inv[i].email
          /\ inv'[i].lapsed = inv[i].lapsed
          /\ inv'[i].status = inv[i].status
          /\ inv'[i].role = req[r].role
      BY <2>1, <2>3, <2>4, <2>6
    <3>2. i = req[r].inv
      BY <2>6
    <3> QED
      BY <2>1, <3>1, <3>2 DEF Altered
  <2> QED
    BY <2>5, <2>6
<1>8. ASSUME NEW p \in {"txAccept", "reject", "expireOne"}, At(r, p),
             NEW st \in {"ACCEPTED", "REJECTED", "EXPIRED"},
             st = "ACCEPTED" <=> p = "txAccept",
             SetStatus(req[r].inv, st)
      PROVE  inv'[i] = inv[i] \/ Altered(r, i)
  <2> DEFINE k == req[r].inv
             y == [inv[k] EXCEPT !.status = st]
  <2>1. k \in InvitationIds /\ inv[k] # None /\ inv[k] \in Invitation
    BY <1>5, <1>8 DEF At
  <2>2. inv' = [inv EXCEPT ![k] = y]
    BY <1>1, <1>8 DEF SetStatus
  <2>3. /\ y # None /\ y.status = st /\ y.role = inv[k].role
        /\ y.email = inv[k].email /\ y.lapsed = inv[k].lapsed
    BY <2>1, StatusField
  <2> HIDE DEF y
  <2>4. (i = k /\ inv'[i] = y) \/ inv'[i] = inv[i]
    BY <1>4, <2>1, <2>2
  <2>5. CASE i = k /\ inv'[i] = y
    <3>1. /\ inv[i] # None /\ inv'[i] # None
          /\ inv'[i].email = inv[i].email
          /\ inv'[i].lapsed = inv[i].lapsed
          /\ inv'[i].status = st
          /\ inv'[i].role = inv[i].role
      BY <2>1, <2>3, <2>5
    <3>2. i = req[r].inv
      BY <2>5
    <3> QED
      BY <1>8, <3>1, <3>2 DEF Altered
  <2> QED
    BY <2>4, <2>5
<1>9. CASE TxAccept(r)
  BY <1>8, <1>9 DEF TxAccept
<1>10. CASE RejectWrite(r)
  BY <1>8, <1>10 DEF RejectWrite
<1>11. CASE ExpireOne(r)
  BY <1>8, <1>11 DEF ExpireOne
<1> QED
  BY <1>2, <1>3, <1>6, <1>7, <1>9, <1>10, <1>11
     DEF Step, ExpireThenCreate, FindMember, FindPending, ExpireThenList,
         ExpireThenUpdate, ReadUpdate, FindMembership, InsertMember,
         UpdateMember, DeleteMember

LEMMA OthersWait ==
    ASSUME IInv, NEW r \in Requests, Arrive(r) \/ Step(r) \/ Abort(r)
    PROVE  \A q \in Requests \ {r} : req'[q] = req[q]
<1>1. ASSUME NEW c, Begin(r, c)
      PROVE  \A q \in Requests \ {r} : req'[q] = req[q]
  BY <1>1 DEF Begin, IInv, TypeOK
<1>2. ASSUME NEW p, Goto(r, p)
      PROVE  \A q \in Requests \ {r} : req'[q] = req[q]
  BY <1>2 DEF Goto, IInv, TypeOK
<1>3. ASSUME End(r)
      PROVE  \A q \in Requests \ {r} : req'[q] = req[q]
  BY <1>3 DEF End, IInv, TypeOK
<1>4. CASE Arrive(r)
  BY <1>1, <1>4 DEF Arrive, CreateInvitation, ListInvitations,
     UpdateInvitationRole, AcceptRead, RejectRead, AddMember, ManageMember
<1>5. CASE InsertInvitation(r) \/ FindMembership(r)
  BY <1>5 DEF InsertInvitation, FindMembership, IInv, TypeOK
<1>6. CASE Abort(r)
  BY <1>3, <1>6 DEF Abort
<1> QED
  BY <1>2, <1>3, <1>4, <1>5, <1>6
     DEF Step, ExpireThenCreate, FindMember, FindPending, MailInvitation,
         ExpireThenList, ExpireThenUpdate, ReadUpdate, TxUpdate, TxAccept,
         RejectWrite, ExpireOne, InsertMember, UpdateMember, DeleteMember

(* Where a statement that does not end its request leads *)
LEMMA Proceeds ==
    ASSUME IInv, NEW r \in Requests, Step(r), req'[r] # None
    PROVE  /\ req'[r].pc \in {"findMember", "findPending", "insert", "mail",
                              "readUpdate", "txUpdate", "txAccept"}
           /\ req'[r].pc = "insert" =>
                /\ FindPending(r) /\ req'[r].email = req[r].email
                /\ \A i \in InvitationIds :
                      LivePending(i) => inv[i].email # req[r].email
           /\ req'[r].pc = "txAccept" =>
                /\ FindMembership(r)
                /\ req'[r].inv = req[r].inv /\ req'[r].role = req[r].role
                /\ req'[r].user = req[r].user
                /\ req'[r].seen = member[req[r].user]
<1>1. End(r) => req'[r] = None
  BY DEF End, IInv, TypeOK
<1>2. ASSUME NEW p \in {"findMember", "findPending", "insert", "readUpdate",
                        "txUpdate"}, req[r] # None, Goto(r, p)
      PROVE  req'[r].pc = p /\ req'[r].email = req[r].email
  <2>1. p \in Statements
    BY DEF Statements
  <2> DEFINE c == [req[r] EXCEPT !.pc = p]
  <2>2. /\ c \in Request /\ c.pc = p /\ c.email = req[r].email
        /\ req' = [req EXCEPT ![r] = c]
    BY <1>2, <2>1, GotoLocals
  <2> HIDE DEF c
  <2> QED
    BY <2>2 DEF IInv, TypeOK
<1>3. CASE FindPending(r)
  <2>1. req[r] # None /\ Goto(r, "insert")
    BY <1>1, <1>3 DEF FindPending, At
  <2>2. \A i \in InvitationIds : LivePending(i) => inv[i].email # req[r].email
    BY <1>1, <1>3 DEF FindPending, InvitationsOf, LivePending, Pending
  <2> QED
    BY <1>2, <1>3, <2>1, <2>2
<1>4. CASE InsertInvitation(r)
  <2>1. PICK i \in InvitationIds :
           req' = [req EXCEPT ![r].pc = "mail", ![r].inv = i]
    BY <1>4 DEF InsertInvitation
  <2> DEFINE c == [req[r] EXCEPT !.pc = "mail", !.inv = i]
  <2>2. req[r] \in Request
    BY <1>4, LocalsType DEF InsertInvitation, At
  <2>3. c.pc = "mail" /\ req'[r] = c
    BY <2>1, <2>2 DEF IInv, TypeOK, Request
  <2> HIDE DEF c
  <2> QED
    BY <2>3
<1>5. CASE FindMembership(r)
  <2> DEFINE c == [req[r] EXCEPT !.pc = "txAccept", !.seen = member[req[r].user]]
  <2>1. req[r] \in Request
    BY <1>5, LocalsType DEF FindMembership, At
  <2>2. /\ c.pc = "txAccept" /\ c.inv = req[r].inv /\ c.role = req[r].role
        /\ c.user = req[r].user /\ c.seen = member[req[r].user]
    BY <2>1 DEF Request
  <2>3. req'[r] = c
    BY <1>5, <2>1 DEF FindMembership, IInv, TypeOK
  <2> HIDE DEF c
  <2> QED
    BY <1>5, <2>2, <2>3
<1>6. CASE ExpireThenCreate(r) \/ FindMember(r) \/ ExpireThenUpdate(r)
             \/ ReadUpdate(r)
  BY <1>1, <1>2, <1>6
     DEF ExpireThenCreate, FindMember, ExpireThenUpdate, ReadUpdate, At
<1> QED
  BY <1>1, <1>3, <1>4, <1>5, <1>6
     DEF Step, MailInvitation, ExpireThenList, TxUpdate, TxAccept,
         RejectWrite, ExpireOne, InsertMember, UpdateMember, DeleteMember

(* An invitation that is pending after a step was pending before it, for   *)
(* the same address, or has just been inserted.                            *)
LEMMA LiveBefore ==
    ASSUME IInv, NEW r \in Requests, Step(r),
           NEW i \in InvitationIds, LivePending(i)'
    PROVE  (LivePending(i) /\ inv'[i].email = inv[i].email) \/ Inserted(r, i)
<1>1. inv'[i] # None /\ inv'[i].status = "PENDING" /\ ~inv'[i].lapsed
  BY DEF LivePending, Pending
<1> QED
  BY <1>1, RowStep DEF LivePending, Pending, Altered
-----------------------------------------------------------------------------
(* An invitation that a creation has passed over exists and is dead; rows  *)
(* are never deleted, and no step brings one back to life.                 *)
PInv ==
    /\ IInv
    /\ \A i \in passed : inv[i] # None /\ ~LivePending(i)

LEMMA StepPassed ==
    ASSUME PInv, NEW r \in Requests, Step(r), NEW i \in passed'
    PROVE  inv'[i] # None /\ ~LivePending(i)'
<1>1. IInv
  BY DEF PInv
<1>2. CASE i \in passed
  <2>1. i \in InvitationIds /\ inv[i] # None /\ ~LivePending(i)
    BY <1>1, <1>2 DEF PInv, IInv, TypeOK
  <2>2. inv'[i] # None
    BY <1>1, <2>1, RowStep DEF Inserted, Altered
  <2> QED
    BY <1>1, <2>1, <2>2, LiveBefore DEF Inserted
<1>3. CASE i \notin passed
  <2>1. FindPending(r)
    BY <1>3 DEF Step, history, ExpireThenCreate, FindMember, InsertInvitation,
       MailInvitation, ExpireThenList, ExpireThenUpdate, ReadUpdate, TxUpdate,
       FindMembership, TxAccept, RejectWrite, ExpireOne, InsertMember,
       UpdateMember, DeleteMember
  <2>2. /\ inv' = inv /\ i \in InvitationsOf(req[r].email)
        /\ \A j \in InvitationsOf(req[r].email) : ~LivePending(j)
    BY <1>3, <2>1 DEF FindPending
  <2> QED
    BY <2>2 DEF InvitationsOf, LivePending, Pending
<1> QED
  BY <1>2, <1>3

LEMMA NextPInv == PInv /\ [Next]_vars => PInv'
<1> SUFFICES ASSUME PInv, [Next]_vars PROVE PInv'
  OBVIOUS
<1>1. IInv'
  BY NextIInv DEF PInv
<1>2. ASSUME NEW j \in InvitationIds, Lapse(j) PROVE PInv'
  <2>1. inv[j] \in Invitation /\ inv \in [InvitationIds -> Invitation \union {None}]
    BY <1>2 DEF Lapse, LivePending, Pending, PInv, IInv, TypeOK
  <2>2. passed' = passed /\ inv' = [inv EXCEPT ![j].lapsed = TRUE]
    BY <1>2 DEF Lapse, history
  <2>3. ASSUME NEW i \in passed PROVE inv'[i] # None /\ ~LivePending(i)'
    <3>1. i # j /\ i \in InvitationIds
      BY <1>2, <2>3 DEF Lapse, PInv, IInv, TypeOK
    <3>2. inv'[i] = inv[i]
      BY <2>1, <2>2, <3>1
    <3> QED
      BY <2>3, <3>2 DEF PInv, LivePending, Pending
  <2> QED
    BY <1>1, <2>2, <2>3 DEF PInv
<1>3. ASSUME NEW r \in Requests, Arrive(r) \/ Abort(r) PROVE PInv'
  <2>1. UNCHANGED <<inv, passed>>
    BY <1>3 DEF Arrive, Abort, history, CreateInvitation, ListInvitations,
       UpdateInvitationRole, AcceptRead, RejectRead, AddMember, ManageMember
  <2> QED
    BY <1>1, <2>1 DEF PInv, LivePending, Pending
<1>4. ASSUME NEW r \in Requests, Step(r) PROVE PInv'
  BY <1>1, <1>4, StepPassed DEF PInv
<1>5. CASE UNCHANGED vars
  BY <1>1, <1>5 DEF vars, history, PInv, LivePending, Pending
<1> QED
  BY <1>2, <1>3, <1>4, <1>5 DEF Next

(* An invitation that a creation has passed over can never be answered     *)
(* again, whatever overlaps.                                               *)
THEOREM PassedOverStayDead == Spec => []PassedOverAreDead
<1>1. Init => PInv
  BY InitIInv DEF Init, PInv
<1>2. PInv => PassedOverAreDead
  BY DEF PInv, PassedOverAreDead
<1> QED
  BY <1>1, <1>2, NextPInv, PTL DEF Spec
-----------------------------------------------------------------------------
(* Where a member's role comes from.  The role of an invitation has been   *)
(* offered to its address, and so has the role that an acceptance has read *)
(* and still carries.                                                      *)
Offered(t, o) ==
    \A i \in InvitationIds : t[i] # None => <<t[i].email, t[i].role>> \in o

CarriedOffer(c, o) ==
    c.pc \in {"findMembership", "txAccept"} => <<MailOf[c.user], c.role>> \in o

RInv ==
    /\ IInv
    /\ Offered(inv, offers)
    /\ \A r \in Requests : req[r] # None => CarriedOffer(req[r], offers)
    /\ RoleWasGiven

LEMMA HistoryGrows ==
    ASSUME NEW r \in Requests, Step(r)
    PROVE  offers \subseteq offers' /\ given \subseteq given'
BY DEF Step, history, ExpireThenCreate, FindMember, FindPending,
   InsertInvitation, MailInvitation, ExpireThenList, ExpireThenUpdate,
   ReadUpdate, TxUpdate, FindMembership, TxAccept, RejectWrite, ExpireOne,
   InsertMember, UpdateMember, DeleteMember

LEMMA StepOffered ==
    ASSUME RInv, NEW r \in Requests, Step(r), NEW i \in InvitationIds,
           inv'[i] # None
    PROVE  <<inv'[i].email, inv'[i].role>> \in offers'
<1>1. IInv /\ offers \subseteq offers'
  BY HistoryGrows DEF RInv
<1>2. CASE inv'[i] = inv[i]
  BY <1>1, <1>2 DEF RInv, Offered
<1>3. CASE Inserted(r, i)
  <2>1. InsertInvitation(r)
    BY <1>3 DEF Inserted, At, Step, ExpireThenCreate, FindMember, FindPending,
       MailInvitation, ExpireThenList, ExpireThenUpdate, ReadUpdate, TxUpdate,
       FindMembership, TxAccept, RejectWrite, ExpireOne, InsertMember,
       UpdateMember, DeleteMember
  <2>2. <<req[r].email, req[r].role>> \in offers'
    BY <2>1 DEF InsertInvitation
  <2> QED
    BY <1>3, <2>2 DEF Inserted
<1>4. CASE Altered(r, i) /\ inv'[i].role = inv[i].role
  BY <1>1, <1>4 DEF Altered, RInv, Offered
<1>5. CASE Altered(r, i) /\ inv'[i] # inv[i] /\ inv'[i].role # inv[i].role
  <2>1. At(r, "txUpdate") /\ i = req[r].inv
    BY <1>5 DEF Altered
  <2>2. TxUpdate(r)
    BY <2>1 DEF At, Step, ExpireThenCreate, FindMember, FindPending,
       InsertInvitation, MailInvitation, ExpireThenList, ExpireThenUpdate,
       ReadUpdate, FindMembership, TxAccept, RejectWrite, ExpireOne,
       InsertMember, UpdateMember, DeleteMember
  <2>3. <<inv[i].email, req[r].role>> \in offers'
    BY <1>5, <2>1, <2>2 DEF TxUpdate
  <2> QED
    BY <1>5, <2>1, <2>3 DEF Altered
<1> QED
  BY <1>1, <1>2, <1>3, <1>4, <1>5, RowStep

LEMMA StepCarriedOffer ==
    ASSUME RInv, NEW r \in Requests, Step(r), NEW q \in Requests, req'[q] # None
    PROVE  CarriedOffer(req'[q], offers')
<1>1. IInv /\ offers \subseteq offers'
  BY HistoryGrows DEF RInv
<1>2. CASE q # r
  <2>1. req'[q] = req[q]
    BY <1>1, <1>2, OthersWait
  <2> QED
    BY <1>1, <2>1 DEF RInv, CarriedOffer
<1>3. CASE q = r /\ req'[r].pc = "txAccept"
  <2>1. /\ FindMembership(r) /\ req'[r].role = req[r].role
        /\ req'[r].user = req[r].user
    BY <1>1, <1>3, Proceeds
  <2>2. <<MailOf[req[r].user], req[r].role>> \in offers
    BY <2>1 DEF FindMembership, At, RInv, CarriedOffer
  <2> QED
    BY <1>1, <1>3, <2>1, <2>2 DEF CarriedOffer
<1>4. CASE q = r /\ req'[r].pc # "txAccept"
  BY <1>1, <1>4, Proceeds DEF CarriedOffer
<1> QED
  BY <1>2, <1>3, <1>4

(* Only v's membership changes, and v was given or offered what he gets. *)
LEMMA MembersGiven ==
    ASSUME RInv, given \subseteq given', offers \subseteq offers', NEW v \in Users,
           \A u \in Users : u # v => member'[u] = member[u],
           member'[v] # None =>
               \/ <<v, member'[v].role>> \in given'
               \/ <<MailOf[v], member'[v].role>> \in offers'
    PROVE  RoleWasGiven'
BY DEF RInv, RoleWasGiven

LEMMA StepRoleWasGiven ==
    ASSUME RInv, NEW r \in Requests, Step(r)
    PROVE  RoleWasGiven'
<1> DEFINE u == req[r].user
<1>1. req[r] # None => /\ CarriedOffer(req[r], offers) /\ Local(req[r], inv)
                       /\ u \in Users /\ req[r].role \in Roles
  BY LocalsType DEF RInv
<1>2. IInv /\ offers \subseteq offers' /\ given \subseteq given'
  BY HistoryGrows DEF RInv
<1>3. CASE UNCHANGED member
  BY <1>2, <1>3 DEF RInv, RoleWasGiven
<1>4. ASSUME NEW v \in Users, req[r].role \in Roles,
             \/ /\ member[v] # None
                /\ member' = [member EXCEPT ![v].role = req[r].role]
             \/ CanJoin(v) /\ Join(v, req[r].role),
             \/ <<v, req[r].role>> \in given'
             \/ <<MailOf[v], req[r].role>> \in offers'
      PROVE  RoleWasGiven'
  <2>1. /\ \A w \in Users : w # v => member'[w] = member[w]
        /\ member'[v].role = req[r].role
    BY <1>2, <1>4, SetRoleMembers, JoinMembers
  <2> QED
    BY <1>2, <1>4, <2>1, MembersGiven
<1>5. CASE TxUpdate(r)
  <2> DEFINE i == req[r].inv
  <2>1. req[r].role \in Roles
    BY <1>1, <1>5 DEF TxUpdate, At
  <2>2. \/ UNCHANGED member
        \/ \E v \in Users : /\ MailOf[v] = inv[i].email
                            /\ member[v] # None
                            /\ member' = [member EXCEPT ![v].role = req[r].role]
                            /\ <<inv[i].email, req[r].role>> \in offers'
    BY <1>5 DEF TxUpdate
  <2>3. ASSUME NEW v \in Users, MailOf[v] = inv[i].email, member[v] # None,
               member' = [member EXCEPT ![v].role = req[r].role],
               <<inv[i].email, req[r].role>> \in offers'
        PROVE  RoleWasGiven'
    <3>1. <<MailOf[v], req[r].role>> \in offers'
      BY <2>3
    <3> QED
      BY <1>4, <2>1, <2>3, <3>1
  <2> QED
    BY <1>3, <2>2, <2>3
<1>6. CASE TxAccept(r)
  <2>1. /\ u \in Users /\ req[r].role \in Roles
        /\ <<MailOf[u], req[r].role>> \in offers'
    BY <1>1, <1>2, <1>6 DEF TxAccept, At, CarriedOffer
  <2>2. \/ UNCHANGED member
        \/ CanJoin(u) /\ Join(u, req[r].role)
        \/ /\ member[u] # None
           /\ member' = [member EXCEPT ![u].role = req[r].role]
    BY <1>6 DEF TxAccept, SameRow
  <2> QED
    BY <1>3, <1>4, <2>1, <2>2
<1>7. CASE InsertMember(r)
  <2>1. u \in Users /\ req[r].role \in Roles
    BY <1>1, <1>7 DEF InsertMember, At
  <2>2. \/ UNCHANGED member
        \/ /\ CanJoin(u) /\ Join(u, req[r].role)
           /\ <<u, req[r].role>> \in given'
    BY <1>7 DEF InsertMember
  <2> QED
    BY <1>3, <1>4, <2>1, <2>2
<1>8. CASE UpdateMember(r)
  <2>1. u \in Users /\ req[r].role \in Roles
    BY <1>1, <1>8 DEF UpdateMember, At
  <2>2. \/ UNCHANGED member
        \/ /\ member[u] # None
           /\ member' = [member EXCEPT ![u].role = req[r].role]
           /\ <<u, req[r].role>> \in given'
    BY <1>8 DEF UpdateMember, SameRow
  <2> QED
    BY <1>3, <1>4, <2>1, <2>2
<1>9. CASE DeleteMember(r)
  <2>1. u \in Users
    BY <1>1, <1>9 DEF DeleteMember, At
  <2>2. UNCHANGED member \/ member' = [member EXCEPT ![u] = None]
    BY <1>9 DEF DeleteMember
  <2>3. /\ \A w \in Users : w # u => member'[w] = member[w]
        /\ UNCHANGED member \/ member'[u] = None
    BY <1>2, <2>1, <2>2 DEF IInv, TypeOK
  <2> QED
    BY <1>2, <1>3, <2>1, <2>3, MembersGiven
<1> QED
  BY <1>3, <1>5, <1>6, <1>7, <1>8, <1>9
     DEF Step, ExpireThenCreate, FindMember, FindPending, InsertInvitation,
         MailInvitation, ExpireThenList, ExpireThenUpdate, ReadUpdate,
         FindMembership, RejectWrite, ExpireOne

LEMMA ArriveCarriedOffer ==
    ASSUME RInv, NEW r \in Requests, Arrive(r), req'[r] # None
    PROVE  CarriedOffer(req'[r], offers)
<1>1. IInv
  BY DEF RInv
<1>2. ASSUME NEW p, NEW u, NEW i, NEW e, NEW role, NEW m,
             Begin(r, Call(p, u, i, e, role, m))
      PROVE  req'[r].pc = p /\ req'[r].user = u /\ req'[r].role = role
  BY <1>1, <1>2 DEF Begin, Call, IInv, TypeOK
<1>3. ASSUME NEW u \in Users, NEW i \in InvitationIds, AcceptRead(r, u, i)
      PROVE  CarriedOffer(req'[r], offers)
  <2>1. <<inv[i].email, inv[i].role>> \in offers
    BY <1>3 DEF AcceptRead, Pending, RInv, Offered
  <2>2. CASE Begin(r, Call("expireOne", u, i, None, "VIEWER", None))
    BY <1>2, <2>2 DEF CarriedOffer
  <2>3. CASE /\ MailOf[u] = inv[i].email
             /\ Begin(r, Call("findMembership", u, i, None, inv[i].role, None))
    <3>1. req'[r].user = u /\ req'[r].role = inv[i].role
      BY <1>2, <2>3
    <3> QED
      BY <2>1, <2>3, <3>1 DEF CarriedOffer
  <2> QED
    BY <1>3, <2>2, <2>3 DEF AcceptRead
<1>4. CASE \A u \in Users, i \in InvitationIds : ~AcceptRead(r, u, i)
  <2>1. req'[r].pc \in {"expireCreate", "expireList", "expireUpdate", "reject",
                        "insertMember", "updateMember", "deleteMember"}
    BY <1>2, <1>4 DEF Arrive, CreateInvitation, ListInvitations,
       UpdateInvitationRole, RejectRead, AddMember, ManageMember
  <2> QED
    BY <2>1 DEF CarriedOffer
<1> QED
  BY <1>3, <1>4

LEMMA NextRInv == RInv /\ [Next]_vars => RInv'
<1> SUFFICES ASSUME RInv, [Next]_vars PROVE RInv'
  OBVIOUS
<1>1. IInv /\ IInv'
  BY NextIInv DEF RInv
<1>2. ASSUME NEW j \in InvitationIds, Lapse(j) PROVE RInv'
  <2> DEFINE x == [inv[j] EXCEPT !.lapsed = TRUE]
  <2>1. inv[j] \in Invitation /\ inv \in [InvitationIds -> Invitation \union {None}]
    BY <1>1, <1>2 DEF Lapse, LivePending, Pending, IInv, TypeOK
  <2>2. x.email = inv[j].email /\ x.role = inv[j].role /\ inv[j] # None
    BY <1>1, <2>1 DEF Invitation
  <2>3. inv' = [inv EXCEPT ![j] = x] /\ UNCHANGED <<member, req, history>>
    BY <1>2, <2>1 DEF Lapse
  <2> HIDE DEF x
  <2>4. Offered(inv', offers)
    BY <2>1, <2>2, <2>3 DEF RInv, Offered
  <2> QED
    BY <1>1, <2>3, <2>4 DEF RInv, RoleWasGiven, history
<1>3. ASSUME NEW r \in Requests, Arrive(r) \/ Abort(r) PROVE RInv'
  <2>1. UNCHANGED <<member, inv, history>>
    BY <1>3 DEF Arrive, Abort, CreateInvitation, ListInvitations,
       UpdateInvitationRole, AcceptRead, RejectRead, AddMember, ManageMember
  <2>2. \A q \in Requests \ {r} : req'[q] = req[q]
    BY <1>1, <1>3, OthersWait
  <2>3. Abort(r) => req'[r] = None
    BY <1>1 DEF Abort, End, IInv, TypeOK
  <2>4. \A q \in Requests : req'[q] # None => CarriedOffer(req'[q], offers)
    BY <1>3, <2>2, <2>3, ArriveCarriedOffer DEF RInv
  <2> QED
    BY <1>1, <2>1, <2>4 DEF RInv, RoleWasGiven, history
<1>4. ASSUME NEW r \in Requests, Step(r) PROVE RInv'
  <2>1. Offered(inv', offers')
    BY <1>4, StepOffered DEF Offered
  <2>2. \A q \in Requests : req'[q] # None => CarriedOffer(req'[q], offers')
    BY <1>4, StepCarriedOffer
  <2>3. RoleWasGiven'
    BY <1>4, StepRoleWasGiven
  <2> QED
    BY <1>1, <2>1, <2>2, <2>3 DEF RInv
<1>5. CASE UNCHANGED vars
  BY <1>1, <1>5 DEF vars, history, RInv, RoleWasGiven
<1> QED
  BY <1>2, <1>3, <1>4, <1>5 DEF Next

(* Whoever is a member has a role that the owner gave him or that an       *)
(* invitation offered to his own email, whatever overlaps.                 *)
THEOREM RolesWereGiven == Spec => []RoleWasGiven
<1>1. Init => RInv
  <2> SUFFICES ASSUME Init PROVE RInv
    OBVIOUS
  <2>1. \A u \in Users \ {Owner} : member[u] = None
    BY DEF Init
  <2> QED
    BY <2>1, InitIInv DEF Init, RInv, Offered, RoleWasGiven
<1>2. RInv => RoleWasGiven
  BY DEF RInv
<1> QED
  BY <1>1, <1>2, NextRInv, PTL DEF Spec
=============================================================================
