--------------------------- MODULE SessionsProofs ---------------------------
(***************************************************************************)
(* What Sessions guarantees for any number of users, sessions, requests    *)
(* and ticks, and whatever part of a token bcrypt looks at.                *)
(*                                                                         *)
(* The typing of a request in flight depends on where it is: a login owns  *)
(* an id that no row and no other login has, a refresh works on an         *)
(* existing row of its own user.  InFlight says so; with it the            *)
(* statements that address a row by the id a request carries are safe, and *)
(* TypeOK /\ RowTokensMatchRow /\ InFlight is inductive.                   *)
(***************************************************************************)
EXTENDS Sessions, TLAPS

(* The locals of a request agree with the rows it is about to write. *)
InFlight ==
    \A r \in Requests : req[r] # None =>
        /\ At(r, "create") =>
              /\ req[r].sid \in SessionIds
              /\ row[req[r].sid] = None
              /\ \A q \in Requests \ {r} :
                    At(q, "create") => req[q].sid # req[r].sid
        /\ req[r].pc \in {"issue", "read", "write", "expire"} =>
              /\ req[r].sid \in SessionIds
              /\ row[req[r].sid] # None
              /\ row[req[r].sid].user = req[r].user
        /\ req[r].pc \in {"issue", "read", "write"} => req[r].old \in Token
        /\ req[r].pc \in {"write"} =>
              /\ req[r].seen \in Token
              /\ req[r].seen.sid = req[r].sid
              /\ req[r].seen.user = req[r].user
        /\ req[r].pc = "revokeOne" => req[r].sid \in SessionIds

IInv == TypeOK /\ RowTokensMatchRow /\ InFlight

USE SessionsAssumption

LEMMA InitIInv == Init => IInv
BY DEF Init, IInv, TypeOK, RowTokensMatchRow, InFlight, Times, Passwords

(* A request whose locals become c, with no other variable written. *)
LEMMA LocalsIInv ==
    ASSUME IInv, NEW r \in Requests, NEW c \in Request,
           req' = [req EXCEPT ![r] = c],
           UNCHANGED <<now, pwd, row, held, spent, born, late>>,
           c.pc # "create",
           c.pc \in {"revokeOne", "expire", "issue", "read", "write"} =>
               c.sid \in SessionIds,
           c.pc \in {"issue", "expire", "read", "write"} =>
               row[c.sid] # None /\ row[c.sid].user = c.user,
           c.pc \in {"issue", "read", "write"} => c.old \in Token,
           c.pc = "write" => /\ c.seen \in Token
                             /\ c.seen.sid = c.sid
                             /\ c.seen.user = c.user
    PROVE  IInv'
<1>1. req \in [Requests -> Request \union {None}] /\ c # None
  BY DEF IInv, TypeOK
<1>2. TypeOK'
  BY <1>1 DEF IInv, TypeOK
<1>3. RowTokensMatchRow'
  BY DEF IInv, RowTokensMatchRow
<1>4. InFlight'
  BY <1>1 DEF IInv, InFlight, At
<1> QED
  BY <1>2, <1>3, <1>4 DEF IInv

LEMMA CallType ==
    ASSUME NEW p \in Statements, NEW u \in Users,
           NEW s \in SessionIds \union {None}, NEW t \in Token \union {None}
    PROVE  /\ Call(p, u, s, t) \in Request
           /\ Call(p, u, s, t).pc = p
           /\ Call(p, u, s, t).user = u
           /\ Call(p, u, s, t).sid = s
           /\ Call(p, u, s, t).old = t
BY DEF Call, Request, Passwords, Times

LEMMA ArriveIInv ==
    ASSUME IInv, NEW r \in Requests, Arrive(r)
    PROVE  IInv'
<1>1. ASSUME NEW u \in Users, LoginRead(r, u)
      PROVE  IInv'
  <2>1. PICK s \in SessionIds :
           /\ FreshId(s)
           /\ Begin(r, [pc |-> "create", user |-> u, sid |-> s,
                        pwd |-> pwd[u], iat |-> now, old |-> None,
                        seen |-> None])
    BY <1>1 DEF LoginRead
  <2> DEFINE c == [pc |-> "create", user |-> u, sid |-> s, pwd |-> pwd[u],
                   iat |-> now, old |-> None, seen |-> None]
  <2>2. pwd[u] \in Passwords /\ now \in Times
    BY DEF IInv, TypeOK
  <2>3. c \in Request /\ c.pc = "create" /\ c.sid = s
    BY <2>2 DEF Request, Statements
  <2>4. req' = [req EXCEPT ![r] = c]
    BY <2>1 DEF Begin
  <2>5. /\ c \in Request /\ c # None /\ c.pc = "create" /\ c.sid = s
        /\ req' = [req EXCEPT ![r] = c]
        /\ UNCHANGED <<now, pwd, row, held, spent, born, late>>
    BY <1>1, <2>3, <2>4 DEF LoginRead
  <2> HIDE DEF c
  <2>6. TypeOK'
    BY <2>5 DEF IInv, TypeOK
  <2>7. RowTokensMatchRow'
    BY <2>5 DEF IInv, RowTokensMatchRow
  <2>8. InFlight'
    BY <2>1, <2>5 DEF IInv, TypeOK, InFlight, At, FreshId
  <2> QED
    BY <2>6, <2>7, <2>8 DEF IInv
<1>2. ASSUME NEW p \in {"expire", "issue", "revokeAll", "revokeOne",
                        "change", "update"},
             NEW u \in Users, NEW s \in SessionIds \union {None},
             NEW t \in Token \union {None},
             Begin(r, Call(p, u, s, t)),
             UNCHANGED <<now, pwd, row, held, spent, born, late>>,
             p \in {"revokeOne", "expire", "issue"} => s \in SessionIds,
             p \in {"issue", "expire"} => row[s] # None /\ row[s].user = u,
             p = "issue" => t \in Token
      PROVE  IInv'
  <2> DEFINE c == Call(p, u, s, t)
  <2>1. p \in Statements
    BY DEF Statements
  <2>2. c \in Request /\ c.pc = p /\ c.user = u /\ c.sid = s /\ c.old = t
    BY <2>1, CallType
  <2> HIDE DEF c
  <2>3. Begin(r, c)
    BY <1>2 DEF c
  <2> QED
    BY <1>2, <2>2, <2>3, LocalsIInv DEF Begin
<1>3. ASSUME NEW t \in held
      PROVE  t \in Token /\ t.user \in Users /\ t.sid \in SessionIds
  BY DEF IInv, TypeOK, Token
<1>4. ASSUME NEW u \in Users, ResetPassword(r, u)
      PROVE  IInv'
  BY <1>2, <1>4 DEF ResetPassword
<1>5. ASSUME NEW t \in held, NEW p \in {"expire", "issue", "revokeAll"},
             RefreshBegin(r, t, p)
      PROVE  IInv'
  BY <1>2, <1>3, <1>5 DEF RefreshBegin
<1>6. ASSUME NEW t \in held, NEW p \in {"revokeAll", "revokeOne", "change"},
             NEW s \in SessionIds \union {None},
             p = "revokeOne" => s \in SessionIds,
             Authenticated(r, t, Call(p, t.user, s, None))
      PROVE  IInv'
  <2>1. CASE Begin(r, Call("expire", t.user, t.sid, None))
    BY <1>2, <1>3, <1>6, <2>1 DEF Authenticated
  <2>2. CASE Begin(r, Call(p, t.user, s, None))
    BY <1>2, <1>3, <1>6, <2>2 DEF Authenticated
  <2> QED
    BY <1>6, <2>1, <2>2 DEF Authenticated
<1> QED
  BY <1>1, <1>4, <1>5, <1>6
     DEF Arrive, RefreshExpired, RefreshAccepted, RefreshReused,
         InvalidateAll, InvalidateSession, ChangePassword

(* A request whose locals are r's, with only the statement moved on. *)
LEMMA LocalsType ==
    ASSUME IInv, NEW r \in Requests, req[r] # None
    PROVE  /\ req[r] \in Request
           /\ req[r].user \in Users /\ req[r].pc \in Statements
           /\ req[r].pwd \in Passwords /\ req[r].iat \in Times
BY DEF IInv, TypeOK, Request

(* Ending a request, with no row written. *)
LEMMA EndIInv ==
    ASSUME IInv, NEW r \in Requests, End(r), UNCHANGED <<now, row, held, spent, born>>,
           pwd' \in [Users -> Passwords], late' \in SUBSET SessionIds
    PROVE  IInv'
<1>1. TypeOK'
  BY DEF IInv, TypeOK, End
<1>2. RowTokensMatchRow'
  BY DEF IInv, RowTokensMatchRow
<1>3. InFlight'
  <2>1. req' = [req EXCEPT ![r] = None] /\ row' = row
    BY DEF End
  <2>2. \A q \in Requests : req'[q] # None => q # r /\ req'[q] = req[q]
    BY <2>1 DEF IInv, TypeOK
  <2>3. \A q \in Requests, p \in Statements : At(q, p)' => At(q, p)
    BY <2>2 DEF At
  <2> QED
    BY <2>1, <2>2, <2>3 DEF IInv, InFlight, At
<1> QED
  BY <1>1, <1>2, <1>3 DEF IInv

(* Marking rows as revoked and ending the request. *)
LEMMA RevokeRowsIInv ==
    ASSUME IInv, NEW r \in Requests, NEW S, RevokeRows(S), End(r),
           UNCHANGED <<now, pwd, held, spent, born, late>>
    PROVE  IInv'
<1>1. \A s \in SessionIds :
         /\ row[s] = None <=> row'[s] = None
         /\ row[s] # None =>
              /\ row'[s] \in Row
              /\ row'[s].user = row[s].user
              /\ row'[s].cur = row[s].cur
              /\ row'[s].prev = row[s].prev
  <2> TAKE s \in SessionIds
  <2>1. row[s] \in Row \union {None}
    BY DEF IInv, TypeOK
  <2>2. row'[s] = IF s \in S /\ row[s] # None
                    THEN [row[s] EXCEPT !.revoked = TRUE] ELSE row[s]
    BY DEF RevokeRows
  <2>3. CASE row[s] = None
    BY <2>2, <2>3
  <2>4. CASE row[s] # None
    BY <2>1, <2>2, <2>4 DEF Row
  <2> QED
    BY <2>3, <2>4
<1>2. TypeOK'
  <2>1. row' \in [SessionIds -> Row \union {None}]
    BY <1>1 DEF RevokeRows
  <2> QED
    BY <2>1 DEF IInv, TypeOK, End
<1>3. RowTokensMatchRow'
  BY <1>1 DEF IInv, RowTokensMatchRow
<1>4. InFlight'
  <2>1. \A q \in Requests : req'[q] # None => q # r /\ req'[q] = req[q]
    BY DEF End, IInv, TypeOK
  <2> QED
    BY <1>1, <2>1 DEF IInv, InFlight, At
<1> QED
  BY <1>2, <1>3, <1>4 DEF IInv

LEMMA LoginCreateIInv ==
    ASSUME IInv, NEW r \in Requests, LoginCreate(r)
    PROVE  IInv'
<1> DEFINE c == req[r]
           n == [user |-> c.user, cur |-> NewToken(r), prev |-> None,
                 expiresAt |-> c.iat + RefreshTTL, revoked |-> FALSE]
<1>1. /\ c # None /\ c.pc = "create" /\ c \in Request
      /\ c.sid \in SessionIds /\ row[c.sid] = None
      /\ \A q \in Requests \ {r} : At(q, "create") => req[q].sid # c.sid
  BY LocalsType DEF LoginCreate, At, IInv, InFlight
<1>2. /\ NewToken(r) \in Token
      /\ NewToken(r).sid = c.sid /\ NewToken(r).user = c.user
  BY <1>1 DEF NewToken, Token, Request
<1>3. n \in Row
  BY <1>1, <1>2 DEF Row, Request, Times
<1>4. row' = [row EXCEPT ![c.sid] = n]
  BY DEF LoginCreate
<1>5. TypeOK'
  <2>1. row' \in [SessionIds -> Row \union {None}]
    BY <1>1, <1>3, <1>4 DEF IInv, TypeOK
  <2>2. held' \in SUBSET Token
    BY <1>2 DEF LoginCreate, IInv, TypeOK
  <2>3. born' \in [SessionIds -> Passwords]
    BY <1>1 DEF LoginCreate, IInv, TypeOK, Request
  <2> QED
    BY <2>1, <2>2, <2>3 DEF LoginCreate, End, IInv, TypeOK
<1>6. RowTokensMatchRow'
  <2> SUFFICES ASSUME NEW s \in SessionIds, row'[s] # None,
                      NEW t \in {row'[s].cur, row'[s].prev} \ {None}
               PROVE  t.sid = s /\ t.user = row'[s].user
    BY DEF RowTokensMatchRow
  <2>1. CASE s = c.sid
    <3>1. row'[s] = n
      BY <1>1, <1>4, <2>1 DEF IInv, TypeOK
    <3> QED
      BY <1>2, <2>1, <3>1
  <2>2. CASE s # c.sid
    BY <1>4, <2>2 DEF IInv, TypeOK, RowTokensMatchRow
  <2> QED
    BY <2>1, <2>2
<1>7. InFlight'
  <2>1. \A q \in Requests : req'[q] # None => q # r /\ req'[q] = req[q]
    BY DEF LoginCreate, End, IInv, TypeOK
  <2>2. \A s \in SessionIds : s # c.sid => row'[s] = row[s]
    BY <1>4 DEF IInv, TypeOK
  <2>3. row'[c.sid] = n /\ n # None
    BY <1>1, <1>3, <1>4 DEF IInv, TypeOK
  <2> HIDE DEF n
  <2> SUFFICES ASSUME NEW q \in Requests, req'[q] # None
               PROVE  InFlight!(q)'
    BY DEF InFlight
  <2> QED
    BY <1>1, <2>1, <2>2, <2>3 DEF IInv, InFlight, At
<1> QED
  BY <1>5, <1>6, <1>7 DEF IInv

LEMMA RefreshIssueIInv ==
    ASSUME IInv, NEW r \in Requests, RefreshIssue(r)
    PROVE  IInv'
<1> DEFINE c == [req[r] EXCEPT !.pc = "read", !.iat = now]
<1>1. /\ req[r] # None /\ req[r] \in Request /\ req[r].pc = "issue"
      /\ req[r].sid \in SessionIds /\ row[req[r].sid] # None
      /\ row[req[r].sid].user = req[r].user /\ req[r].old \in Token
      /\ now \in Times
  BY LocalsType DEF RefreshIssue, At, IInv, TypeOK, InFlight
<1>2. /\ c \in Request /\ c.pc = "read" /\ c.sid = req[r].sid
      /\ c.user = req[r].user /\ c.old = req[r].old
  BY <1>1 DEF Request, Statements
<1>3. /\ req' = [req EXCEPT ![r] = c]
      /\ UNCHANGED <<now, pwd, row, held, spent, born, late>>
  BY <1>1 DEF RefreshIssue, IInv, TypeOK
<1> HIDE DEF c
<1> QED
  BY <1>1, <1>2, <1>3, LocalsIInv

LEMMA RotateReadIInv ==
    ASSUME IInv, NEW r \in Requests, RotateRead(r)
    PROVE  IInv'
<1> DEFINE c == [req[r] EXCEPT !.pc = "write", !.seen = row[req[r].sid].cur]
<1>1. /\ req[r] # None /\ req[r] \in Request /\ req[r].pc = "read"
      /\ req[r].sid \in SessionIds /\ row[req[r].sid] # None
      /\ row[req[r].sid].user = req[r].user /\ req[r].old \in Token
  BY LocalsType DEF RotateRead, At, IInv, TypeOK, InFlight
<1>2. /\ row[req[r].sid] \in Row /\ row[req[r].sid].cur \in Token
      /\ row[req[r].sid].cur # None
      /\ row[req[r].sid].cur.sid = req[r].sid
      /\ row[req[r].sid].cur.user = req[r].user
  BY <1>1 DEF IInv, TypeOK, RowTokensMatchRow, Row
<1>3. /\ c \in Request /\ c.pc = "write" /\ c.sid = req[r].sid
      /\ c.user = req[r].user /\ c.old = req[r].old
      /\ c.seen = row[req[r].sid].cur
  BY <1>1, <1>2 DEF Request, Statements
<1>4. UNCHANGED <<now, pwd, row, held, spent, born, late>>
  BY DEF RotateRead
<1>5. CASE End(r)
  BY <1>4, <1>5, EndIInv DEF IInv, TypeOK
<1>6. CASE req' = [req EXCEPT ![r] = c]
  <2> HIDE DEF c
  <2> QED
    BY <1>1, <1>2, <1>3, <1>4, <1>6, LocalsIInv
<1> QED
  BY <1>5, <1>6 DEF RotateRead

(* The row that a rotation leaves behind. *)
LEMMA RotatedRow ==
    ASSUME IInv, NEW r \in Requests, RotateWrite(r)
    PROVE  LET i == req[r].sid
           IN  /\ i \in SessionIds /\ row[i] \in Row
               /\ row' \in [SessionIds -> Row \union {None}]
               /\ row'[i] \in Row
               /\ row'[i].user = row[i].user
               /\ row'[i].revoked = row[i].revoked
               /\ row'[i].cur.sid = i /\ row'[i].cur.user = row[i].user
               /\ row'[i].prev.sid = i /\ row'[i].prev.user = row[i].user
               /\ \A s \in SessionIds \ {i} : row'[s] = row[s]
<1> DEFINE c == req[r]
           n == [row[c.sid] EXCEPT !.cur = NewToken(r), !.prev = c.seen,
                                   !.expiresAt = c.iat + RefreshTTL]
<1>1. /\ c # None /\ c \in Request /\ c.pc = "write"
      /\ c.sid \in SessionIds /\ row[c.sid] # None
      /\ row[c.sid].user = c.user
      /\ c.seen \in Token /\ c.seen.sid = c.sid /\ c.seen.user = c.user
  BY LocalsType DEF RotateWrite, At, IInv, InFlight
<1>2. /\ NewToken(r) \in Token
      /\ NewToken(r).sid = c.sid /\ NewToken(r).user = c.user
  BY <1>1 DEF NewToken, Token, Request
<1>3. row[c.sid] \in Row
  BY <1>1 DEF IInv, TypeOK
<1>4. /\ n \in Row /\ n.user = row[c.sid].user /\ n.cur = NewToken(r)
      /\ n.prev = c.seen /\ n.revoked = row[c.sid].revoked
  <2>1. c.iat + RefreshTTL \in Nat
    BY <1>1 DEF Request, Times
  <2> QED
    BY <1>1, <1>2, <1>3, <2>1 DEF Row
<1>5. row' = [row EXCEPT ![c.sid] = n]
  BY <1>1 DEF RotateWrite, IInv, TypeOK
<1> HIDE DEF n
<1>6. /\ row'[c.sid] = n
      /\ row' \in [SessionIds -> Row \union {None}]
      /\ \A s \in SessionIds \ {c.sid} : row'[s] = row[s]
  BY <1>1, <1>4, <1>5 DEF IInv, TypeOK
<1> QED
  BY <1>1, <1>2, <1>3, <1>4, <1>6

LEMMA RotateWriteIInv ==
    ASSUME IInv, NEW r \in Requests, RotateWrite(r)
    PROVE  IInv'
<1> DEFINE i == req[r].sid
<1>1. /\ req[r] # None /\ req[r] \in Request /\ req[r].old \in Token
      /\ NewToken(r) \in Token
  BY LocalsType
     DEF RotateWrite, At, IInv, InFlight, NewToken, Token, Request
<1>2. TypeOK'
  <2>1. row' \in [SessionIds -> Row \union {None}]
    BY RotatedRow
  <2>2. held' \in SUBSET Token /\ spent' \in SUBSET Token
    BY <1>1 DEF RotateWrite, IInv, TypeOK
  <2> QED
    BY <2>1, <2>2 DEF RotateWrite, End, IInv, TypeOK
<1>3. RowTokensMatchRow'
  <2> SUFFICES ASSUME NEW s \in SessionIds, row'[s] # None,
                      NEW t \in {row'[s].cur, row'[s].prev} \ {None}
               PROVE  t.sid = s /\ t.user = row'[s].user
    BY DEF RowTokensMatchRow
  <2>1. CASE s = i
    BY <2>1, RotatedRow
  <2>2. CASE s # i
    BY <2>2, RotatedRow DEF IInv, RowTokensMatchRow
  <2> QED
    BY <2>1, <2>2
<1>4. InFlight'
  <2>1. \A q \in Requests : req'[q] # None => q # r /\ req'[q] = req[q]
    BY DEF RotateWrite, End, IInv, TypeOK
  <2>2. \A s \in SessionIds :
           /\ row[s] = None <=> row'[s] = None
           /\ row[s] # None => row'[s].user = row[s].user
    BY RotatedRow
  <2> QED
    BY <2>1, <2>2 DEF IInv, InFlight, At
<1> QED
  BY <1>2, <1>3, <1>4 DEF IInv

(* The two statements of a password change *)
LEMMA PasswordIInv ==
    ASSUME IInv, NEW r \in Requests, ChangeRead(r) \/ UpdatePassword(r)
    PROVE  IInv'
<1>1. ASSUME NEW p \in {"update", "revokeAll"}, req[r] # None,
             req' = [req EXCEPT ![r].pc = p],
             UNCHANGED <<now, row, held, spent, born, late>>,
             pwd' \in [Users -> Passwords]
      PROVE  IInv'
  <2> DEFINE c == [req[r] EXCEPT !.pc = p]
  <2>1. /\ c \in Request /\ c # None /\ c.pc = p
        /\ req' = [req EXCEPT ![r] = c]
    BY <1>1, LocalsType DEF Request, Statements, IInv, TypeOK
  <2> HIDE DEF c
  <2>2. TypeOK'
    BY <1>1, <2>1 DEF IInv, TypeOK
  <2>3. RowTokensMatchRow'
    BY <1>1 DEF IInv, RowTokensMatchRow
  <2>4. InFlight'
    BY <1>1, <2>1 DEF IInv, TypeOK, InFlight, At
  <2> QED
    BY <2>2, <2>3, <2>4 DEF IInv
<1>2. CASE ChangeRead(r)
  BY <1>1, <1>2 DEF ChangeRead, At, IInv, TypeOK
<1>3. CASE UpdatePassword(r)
  <2>1. req[r] # None /\ req[r].user \in Users
    BY <1>3, LocalsType DEF UpdatePassword, At
  <2>2. CASE pwd[req[r].user] < MaxPassword
    <3>1. pwd' \in [Users -> Passwords]
      BY <1>3, <2>1, <2>2 DEF UpdatePassword, IInv, TypeOK, Passwords
    <3> QED
      BY <1>1, <1>3, <2>1, <2>2, <3>1 DEF UpdatePassword
  <2>3. CASE ~(pwd[req[r].user] < MaxPassword)
    BY <1>3, <2>3, EndIInv DEF UpdatePassword, IInv, TypeOK
  <2> QED
    BY <2>2, <2>3
<1> QED
  BY <1>2, <1>3

LEMMA NextIInv == IInv /\ [Next]_vars => IInv'
<1> SUFFICES ASSUME IInv, [Next]_vars
             PROVE  IInv'
  OBVIOUS
<1>1. CASE Tick
  <2>1. now' \in Times
    BY <1>1 DEF Tick, IInv, TypeOK, Times
  <2> QED
    BY <1>1, <2>1 DEF Tick, IInv, TypeOK, RowTokensMatchRow, InFlight, At
<1>2. ASSUME NEW r \in Requests, Arrive(r)
      PROVE  IInv'
  BY <1>2, ArriveIInv
<1>3. ASSUME NEW r \in Requests, Abort(r)
      PROVE  IInv'
  <2>1. late' \in SUBSET SessionIds
    BY <1>3 DEF Abort, SessionsOf, IInv, TypeOK
  <2> QED
    BY <1>3, <2>1, EndIInv DEF Abort, IInv, TypeOK
<1>4. ASSUME NEW r \in Requests, RevokeExpired(r) \/ RevokeOne(r) \/ RevokeAll(r)
      PROVE  IInv'
  BY <1>4, RevokeRowsIInv DEF RevokeExpired, RevokeOne, RevokeAll
<1>5. ASSUME NEW r \in Requests, Step(r)
      PROVE  IInv'
  BY <1>4, <1>5, LoginCreateIInv, RefreshIssueIInv, RotateReadIInv,
     RotateWriteIInv, PasswordIInv DEF Step
<1>6. CASE UNCHANGED vars
  BY <1>6 DEF vars, IInv, TypeOK, RowTokensMatchRow, InFlight, At
<1> QED
  BY <1>1, <1>2, <1>3, <1>5, <1>6 DEF Next

THEOREM Invariance == Spec => []IInv
BY InitIInv, NextIInv, PTL DEF Spec

(* The variables keep their types. *)
THEOREM TypeCorrect == Spec => []TypeOK
BY Invariance, PTL DEF IInv

(* However rotations interleave, the hashes of a row are of that session's *)
(* own tokens.                                                             *)
THEOREM RowsKeepTheirTokens == Spec => []RowTokensMatchRow
BY Invariance, PTL DEF IInv
-----------------------------------------------------------------------------
(* What a step of the server does to the abstract registry *)
Entries == [s \in SessionIds |->
              IF row[s] = None THEN None
              ELSE [user |-> row[s].user, revoked |-> row[s].revoked]]

LEMMA RevokeRowsCloses ==
    ASSUME IInv, NEW u \in Users, NEW S \in SUBSET SessionsOf(u), RevokeRows(S)
    PROVE  Registry!Close(u, S)
<1>1. \A s \in SessionIds :
         Entries'[s] = IF s \in S /\ Entries[s] # None /\ Entries[s].user = u
                         THEN [user |-> u, revoked |-> TRUE] ELSE Entries[s]
  <2> SUFFICES ASSUME NEW s \in SessionIds
               PROVE  Entries'[s] =
                        IF s \in S /\ Entries[s] # None /\ Entries[s].user = u
                          THEN [user |-> u, revoked |-> TRUE] ELSE Entries[s]
    OBVIOUS
  <2>1. row[s] \in Row \union {None}
    BY DEF IInv, TypeOK
  <2>2. row'[s] = IF s \in S /\ row[s] # None
                    THEN [row[s] EXCEPT !.revoked = TRUE] ELSE row[s]
    BY DEF RevokeRows
  <2>3. CASE s \notin S
    BY <2>2, <2>3 DEF Entries
  <2>4. CASE s \in S
    <3>1. row[s] # None /\ row[s].user = u
      BY <2>4 DEF SessionsOf
    <3>2. row'[s] \in Row /\ row'[s].user = u /\ row'[s].revoked = TRUE
      BY <2>1, <2>2, <2>4, <3>1 DEF Row
    <3>3. Entries'[s] = [user |-> u, revoked |-> TRUE]
      BY <3>2 DEF Entries
    <3>4. Entries[s] = [user |-> u, revoked |-> row[s].revoked]
      BY <3>1 DEF Entries
    <3>5. Entries[s] # None
      BY <2>1, <3>1, <3>4 DEF Row
    <3> QED
      BY <2>4, <3>3, <3>4, <3>5
  <2> QED
    BY <2>3, <2>4
<1> QED
  BY <1>1 DEF Registry!Close, Entries

LEMMA LoginCreateOpens ==
    ASSUME IInv, NEW r \in Requests, LoginCreate(r)
    PROVE  Registry!Open(req[r].user, req[r].sid)
<1>1. req[r].sid \in SessionIds /\ row[req[r].sid] = None
  BY DEF LoginCreate, At, IInv, InFlight
<1>2. row' = [row EXCEPT ![req[r].sid] =
                [user |-> req[r].user, cur |-> NewToken(r), prev |-> None,
                 expiresAt |-> req[r].iat + RefreshTTL, revoked |-> FALSE]]
  BY DEF LoginCreate
<1>3. row' \in [SessionIds -> Row \union {None}]
  BY LoginCreateIInv DEF IInv, TypeOK
<1>4. /\ row'[req[r].sid] # None
      /\ row'[req[r].sid].user = req[r].user
      /\ row'[req[r].sid].revoked = FALSE
      /\ \A s \in SessionIds : s # req[r].sid => row'[s] = row[s]
  <2>1. row'[req[r].sid] =
          [user |-> req[r].user, cur |-> NewToken(r), prev |-> None,
           expiresAt |-> req[r].iat + RefreshTTL, revoked |-> FALSE]
    BY <1>1, <1>2 DEF IInv, TypeOK
  <2>2. row'[req[r].sid] # None
    <3>1. /\ req[r] \in Request /\ NewToken(r) \in Token
          /\ req[r].iat + RefreshTTL \in Nat
      BY LocalsType DEF LoginCreate, At, NewToken, Token, IInv, InFlight, Times
    <3>2. row'[req[r].sid] \in Row
      BY <2>1, <3>1 DEF Row, Request
    <3> QED
      BY <3>2
  <2> QED
    BY <1>2, <2>1, <2>2 DEF IInv, TypeOK
<1>5. Entries[req[r].sid] = None
  BY <1>1 DEF Entries
<1>6. Entries' = [Entries EXCEPT ![req[r].sid] =
                    [user |-> req[r].user, revoked |-> FALSE]]
  BY <1>1, <1>4 DEF Entries
<1> QED
  BY <1>5, <1>6 DEF Registry!Open, Entries

LEMMA RotateWriteStutters ==
    ASSUME IInv, NEW r \in Requests, RotateWrite(r)
    PROVE  Entries' = Entries
<1>1. \A s \in SessionIds :
         /\ row'[s] = None <=> row[s] = None
         /\ row[s] # None => /\ row'[s].user = row[s].user
                             /\ row'[s].revoked = row[s].revoked
  BY RotatedRow
<1> QED
  BY <1>1 DEF Entries

LEMMA NextRefines == IInv /\ [Next]_vars => [Registry!Next]_Entries
<1> SUFFICES ASSUME IInv, [Next]_vars
             PROVE  Registry!Next \/ Entries' = Entries
  OBVIOUS
<1>1. CASE UNCHANGED row
  BY <1>1 DEF Entries
<1>2. ASSUME NEW r \in Requests, LoginCreate(r)
      PROVE  Registry!Next
  <2>1. req[r].user \in Users /\ req[r].sid \in SessionIds
    BY <1>2, LocalsType DEF LoginCreate, At, IInv, InFlight
  <2>2. Registry!Open(req[r].user, req[r].sid)
    BY <1>2, LoginCreateOpens
  <2> QED
    BY <2>1, <2>2 DEF Registry!Next, Registry!Open
<1>3. ASSUME NEW u \in Users, NEW S \in SUBSET SessionsOf(u), RevokeRows(S)
      PROVE  Registry!Next
  <2>1. S \in SUBSET SessionIds
    BY DEF SessionsOf
  <2> QED
    BY <1>3, <2>1, RevokeRowsCloses DEF Registry!Next
<1>4. ASSUME NEW r \in Requests, RevokeExpired(r) \/ RevokeOne(r) \/ RevokeAll(r)
      PROVE  Registry!Next
  <2>1. req[r] # None /\ req[r].user \in Users
    BY <1>4, LocalsType DEF RevokeExpired, RevokeOne, RevokeAll, At
  <2>2. CASE RevokeExpired(r)
    <3>1. {req[r].sid} \in SUBSET SessionsOf(req[r].user)
      BY <2>2 DEF RevokeExpired, At, IInv, InFlight, SessionsOf
    <3> QED
      BY <1>3, <2>1, <2>2, <3>1 DEF RevokeExpired
  <2>3. CASE RevokeOne(r)
    BY <1>3, <2>1, <2>3 DEF RevokeOne
  <2>4. CASE RevokeAll(r)
    BY <1>3, <2>1, <2>4 DEF RevokeAll
  <2> QED
    BY <1>4, <2>2, <2>3, <2>4
<1>5. ASSUME NEW r \in Requests, RotateWrite(r)
      PROVE  Entries' = Entries
  BY <1>5, RotateWriteStutters
<1>6. ASSUME NEW r \in Requests, Arrive(r) \/ Abort(r)
      PROVE  UNCHANGED row
  BY <1>6 DEF Arrive, LoginRead, ResetPassword, RefreshExpired,
     RefreshAccepted, RefreshReused, RefreshBegin, InvalidateAll,
     InvalidateSession, ChangePassword, Authenticated, Abort
<1>7. ASSUME NEW r \in Requests, RefreshIssue(r) \/ RotateRead(r)
                                 \/ ChangeRead(r) \/ UpdatePassword(r)
      PROVE  UNCHANGED row
  BY <1>7 DEF RefreshIssue, RotateRead, ChangeRead, UpdatePassword
<1>8. CASE Tick \/ UNCHANGED vars
  BY <1>1, <1>8 DEF Tick, vars
<1> QED
  BY <1>1, <1>2, <1>4, <1>5, <1>6, <1>7, <1>8 DEF Next, Step

LEMMA InitRefines == Init => Registry!Init
BY DEF Init, Registry!Init

(* The session table implements the abstract registry. *)
THEOREM SessionsImplementRegistry == Spec => ImplementsRegistry
<1>1. IInv /\ [Next]_vars => [Registry!Next]_Entries
  BY NextRefines
<1> QED
  BY InitRefines, Invariance, <1>1, PTL
     DEF Spec, ImplementsRegistry, Registry!Spec, Entries
-----------------------------------------------------------------------------
(* Revocation is final and no session changes hands, whatever a rotation   *)
(* that read the row earlier writes to it.                                 *)
THEOREM RevocationIsFinal == Spec => RevokedForGood
<1> DEFINE Final(s) ==
        row[s] # None /\ row[s].revoked =>
            row'[s] # None /\ row'[s].revoked /\ row'[s].user = row[s].user
<1>1. ASSUME IInv, [Next]_vars, NEW s \in SessionIds
      PROVE  Final(s)
  <2> SUFFICES ASSUME row[s] # None, row[s].revoked
               PROVE  /\ row'[s] # None /\ row'[s].revoked
                      /\ row'[s].user = row[s].user
    OBVIOUS
  <2>1. Entries[s] = [user |-> row[s].user, revoked |-> TRUE]
    BY DEF Entries
  <2>2. Entries[s] # None /\ Entries[s].user = row[s].user
    <3>1. row[s] \in Row
      BY <1>1 DEF IInv, TypeOK
    <3>2. row[s].user \in Users
      BY <3>1 DEF Row
    <3> DEFINE e == [user |-> row[s].user, revoked |-> TRUE]
    <3>3. e \in [user : Users, revoked : BOOLEAN] /\ e.user = row[s].user
      BY <3>2
    <3> HIDE DEF e
    <3>4. Entries[s] = e
      BY <2>1 DEF e
    <3> QED
      BY <3>3, <3>4
  <2>3. Entries'[s] = Entries[s]
    <3>1. CASE Entries' = Entries
      BY <3>1
    <3>2. ASSUME NEW u \in Users, NEW q \in SessionIds, Registry!Open(u, q)
          PROVE  Entries'[s] = Entries[s]
      BY <2>2, <3>2 DEF Registry!Open, Entries
    <3>3. ASSUME NEW u \in Users, NEW S \in SUBSET SessionIds,
                 Registry!Close(u, S)
          PROVE  Entries'[s] = Entries[s]
      <4>1. Entries'[s] = IF s \in S /\ Entries[s] # None /\ Entries[s].user = u
                            THEN [user |-> u, revoked |-> TRUE] ELSE Entries[s]
        BY <3>3 DEF Registry!Close, Entries
      <4>2. CASE row[s].user = u
        BY <2>1, <4>1, <4>2
      <4>3. CASE row[s].user # u
        BY <2>2, <4>1, <4>3
      <4> QED
        BY <4>2, <4>3
    <3> QED
      BY <1>1, <3>1, <3>2, <3>3, NextRefines DEF Registry!Next
  <2>4. row'[s] # None
    BY <2>2, <2>3 DEF Entries
  <2>5. Entries'[s] = [user |-> row'[s].user, revoked |-> row'[s].revoked]
    BY <2>4 DEF Entries
  <2> QED
    BY <2>1, <2>3, <2>4, <2>5
<1>2. IInv /\ [Next]_vars => [\A s \in SessionIds : Final(s)]_vars
  BY <1>1
<1> QED
  BY <1>2, Invariance, PTL DEF RevokedForGood, Spec
-----------------------------------------------------------------------------
(* Whoever is signed out by a request is signed out by one of his own:     *)
(* the ids and the users that revocations carry were checked in an earlier *)
(* statement, and the rows have not changed hands since.                   *)
THEOREM OwnSessionsOnly == Spec => OnlyOwnSessionsRevoked
<1> DEFINE Own(s) ==
        row[s] # None /\ ~row[s].revoked /\ row'[s].revoked =>
            \E r \in Requests : req[r] # None /\ req'[r] = None
                                /\ req[r].user = row[s].user
<1>1. ASSUME IInv, [Next]_vars, NEW s \in SessionIds, row'[s] = row[s]
      PROVE  Own(s)
  BY <1>1
<1>2. ASSUME IInv, NEW r \in Requests, NEW s \in SessionIds, RotateWrite(r)
      PROVE  Own(s)
  <2>1. row[s] # None => row'[s].revoked = row[s].revoked
    BY <1>2, RotatedRow
  <2> QED
    BY <2>1
<1>3. ASSUME IInv, NEW r \in Requests, NEW s \in SessionIds, LoginCreate(r)
      PROVE  Own(s)
  <2>1. row[s] # None => row'[s] = row[s]
    BY <1>3 DEF LoginCreate, At, IInv, TypeOK, InFlight
  <2> QED
    BY <2>1
<1>4. ASSUME IInv, NEW r \in Requests, NEW s \in SessionIds,
             RevokeExpired(r) \/ RevokeOne(r) \/ RevokeAll(r)
      PROVE  Own(s)
  <2>1. req[r] # None /\ req'[r] = None
    BY <1>4 DEF RevokeExpired, RevokeOne, RevokeAll, At, End, IInv, TypeOK
  <2>2. CASE s \in SessionsOf(req[r].user)
    BY <2>1, <2>2 DEF SessionsOf
  <2>3. CASE s \notin SessionsOf(req[r].user)
    <3>1. RevokeExpired(r) => s # req[r].sid
      BY <1>4, <2>3 DEF RevokeExpired, At, IInv, InFlight, SessionsOf
    <3>2. row'[s] = row[s]
      BY <1>4, <2>3, <3>1 DEF RevokeExpired, RevokeOne, RevokeAll, RevokeRows
    <3> QED
      BY <3>2
  <2> QED
    BY <2>2, <2>3
<1>5. ASSUME IInv, [Next]_vars, NEW s \in SessionIds
      PROVE  Own(s)
  <2>1. ASSUME NEW r \in Requests,
               \/ Arrive(r) \/ Abort(r)
               \/ RefreshIssue(r) \/ RotateRead(r)
               \/ ChangeRead(r) \/ UpdatePassword(r)
        PROVE  row' = row
    BY <2>1 DEF Arrive, LoginRead, ResetPassword, RefreshExpired,
       RefreshAccepted, RefreshReused, RefreshBegin, InvalidateAll,
       InvalidateSession, ChangePassword, Authenticated, Abort,
       RefreshIssue, RotateRead, ChangeRead, UpdatePassword
  <2>2. CASE Tick \/ UNCHANGED vars
    BY <1>1, <1>5, <2>2 DEF Tick, vars
  <2>3. CASE \E r \in Requests : Arrive(r) \/ Step(r) \/ Abort(r)
    <3>1. PICK r \in Requests : Arrive(r) \/ Step(r) \/ Abort(r)
      BY <2>3
    <3>2. CASE row' = row
      BY <1>1, <1>5, <3>2
    <3>3. CASE LoginCreate(r) \/ RotateWrite(r)
      BY <1>2, <1>3, <1>5, <3>3
    <3>4. CASE RevokeExpired(r) \/ RevokeOne(r) \/ RevokeAll(r)
      BY <1>4, <1>5, <3>4
    <3> QED
      BY <2>1, <3>1, <3>2, <3>3, <3>4 DEF Step
  <2> QED
    BY <1>5, <2>2, <2>3 DEF Next
<1>6. IInv /\ [Next]_vars => [\A s \in SessionIds : Own(s)]_vars
  BY <1>5
<1> QED
  BY <1>6, Invariance, PTL DEF OnlyOwnSessionsRevoked, Spec
-----------------------------------------------------------------------------
(* A live session that was opened with a replaced password is about to be  *)
(* revoked, or no revocation of that change could reach it any more.       *)
Accounted(s) ==
    born[s] = pwd[row[s].user] \/ Revoking(row[s].user) \/ s \in late

PasswordInv ==
    \A s \in SessionIds : row[s] # None /\ ~row[s].revoked => Accounted(s)

LEMMA OthersWait ==
    ASSUME IInv, NEW r \in Requests, Arrive(r) \/ Step(r) \/ Abort(r)
    PROVE  \A q \in Requests \ {r} : req'[q] = req[q]
<1>1. \/ \E c : req' = [req EXCEPT ![r] = c]
      \/ req' = [req EXCEPT ![r].pc = "read", ![r].iat = now]
      \/ req' = [req EXCEPT ![r].pc = "write", ![r].seen = row[req[r].sid].cur]
      \/ req' = [req EXCEPT ![r].pc = "update"]
      \/ req' = [req EXCEPT ![r].pc = "revokeAll"]
  <2>1. ASSUME NEW c, Begin(r, c) \/ End(r)
        PROVE  \E d : req' = [req EXCEPT ![r] = d]
    BY <2>1 DEF Begin, End
  <2>2. Arrive(r) => \E c : Begin(r, c)
    BY DEF Arrive, LoginRead, ResetPassword, RefreshExpired, RefreshAccepted,
           RefreshReused, RefreshBegin, InvalidateAll, InvalidateSession,
           ChangePassword, Authenticated
  <2> QED
    BY <2>1, <2>2
       DEF Step, Abort, LoginCreate, RefreshIssue, RotateRead, RotateWrite,
           ChangeRead, UpdatePassword, RevokeExpired, RevokeOne, RevokeAll
<1> QED
  BY <1>1 DEF IInv, TypeOK

LEMMA RevokedRow ==
    ASSUME IInv, NEW S, RevokeRows(S), NEW s \in SessionIds
    PROVE  /\ row'[s] = None <=> row[s] = None
           /\ row[s] # None => /\ row'[s].user = row[s].user
                               /\ row'[s].cur = row[s].cur
                               /\ s \in S => row'[s].revoked
                               /\ s \notin S => row'[s] = row[s]
<1>1. row[s] \in Row \union {None}
  BY DEF IInv, TypeOK
<1>2. row'[s] = IF s \in S /\ row[s] # None
                  THEN [row[s] EXCEPT !.revoked = TRUE] ELSE row[s]
  BY DEF RevokeRows
<1>3. CASE row[s] = None
  BY <1>2, <1>3
<1>4. CASE row[s] # None
  <2>1. CASE s \notin S
    BY <1>2, <1>4, <2>1
  <2>2. CASE s \in S
    <3> DEFINE n == [row[s] EXCEPT !.revoked = TRUE]
    <3>1. /\ n \in Row /\ n.user = row[s].user /\ n.cur = row[s].cur
          /\ n.revoked = TRUE
      BY <1>1, <1>4 DEF Row
    <3>2. row'[s] = n
      BY <1>2, <1>4, <2>2
    <3> HIDE DEF n
    <3> QED
      BY <1>4, <2>2, <3>1, <3>2
  <2> QED
    BY <2>1, <2>2
<1> QED
  BY <1>3, <1>4

LEMMA PasswordStep ==
    ASSUME IInv, PasswordInv, NEW r \in Requests,
           Arrive(r) \/ Step(r) \/ Abort(r)
    PROVE  PasswordInv'
<1>1. \A q \in Requests \ {r} : req'[q] = req[q]
  BY OthersWait
<1>2. ASSUME NEW u, Revoking(u), ~Revoking(u)'
      PROVE  At(r, "revokeAll") /\ req[r].user = u
  BY <1>1, <1>2 DEF Revoking, At
<1>3. late \subseteq late'
  BY DEF Arrive, Step, Abort, LoginRead, ResetPassword, RefreshExpired,
         RefreshAccepted, RefreshReused, RefreshBegin, InvalidateAll,
         InvalidateSession, ChangePassword, Authenticated, LoginCreate,
         RefreshIssue, RotateRead, RotateWrite, ChangeRead, UpdatePassword,
         RevokeExpired, RevokeOne, RevokeAll
(* A session that the step neither opens nor brings back keeps its reason, *)
(* if the step changes no password and is not the revocation in question.  *)
<1>4. ASSUME NEW s \in SessionIds, row[s] # None, row'[s] # None,
             row'[s].revoked = row[s].revoked, row'[s].user = row[s].user,
             ~row'[s].revoked, pwd' = pwd, born' = born,
             ~(At(r, "revokeAll") /\ req[r].user = row[s].user)
      PROVE  Accounted(s)'
  <2>1. ASSUME NEW u, u = row[s].user, Revoking(u)
        PROVE  Revoking(u)'
    BY <1>2, <1>4, <2>1
  <2>2. Revoking(row[s].user) => Accounted(s)'
    BY <1>4, <2>1 DEF Revoking, Accounted
  <2>3. s \in late \/ born[s] = pwd[row[s].user] => Accounted(s)'
    BY <1>3, <1>4 DEF Accounted
  <2> QED
    BY <1>4, <2>2, <2>3 DEF PasswordInv, Accounted
<1>5. CASE \/ Arrive(r) \/ RefreshIssue(r) \/ RotateRead(r) \/ ChangeRead(r)
  <2>1. ~At(r, "revokeAll") /\ UNCHANGED <<pwd, row, born>>
    BY <1>5 DEF Arrive, LoginRead, ResetPassword, RefreshExpired,
       RefreshAccepted, RefreshReused, RefreshBegin, InvalidateAll,
       InvalidateSession, ChangePassword, Authenticated, Begin,
       RefreshIssue, RotateRead, ChangeRead, At
  <2> QED
    BY <1>4, <2>1 DEF PasswordInv
<1>6. CASE Abort(r)
  <2>1. UNCHANGED <<pwd, row, born>>
    BY <1>6 DEF Abort
  <2>2. ASSUME NEW s \in SessionIds, row[s] # None, ~row[s].revoked,
               At(r, "revokeAll"), req[r].user = row[s].user
        PROVE  Accounted(s)'
    BY <1>6, <2>1, <2>2 DEF Abort, SessionsOf, Accounted
  <2> QED
    BY <1>4, <2>1, <2>2 DEF PasswordInv
<1>7. CASE LoginCreate(r)
  <2> PICK i : i = req[r].sid
    OBVIOUS
  <2>1. i \in SessionIds /\ row[i] = None /\ req[r].user \in Users
    BY <1>7, LocalsType DEF LoginCreate, At, IInv, InFlight
  <2>2. /\ row'[i].user = req[r].user /\ born'[i] = req[r].pwd
        /\ \A s \in SessionIds \ {i} : row'[s] = row[s] /\ born'[s] = born[s]
    BY <1>7, <2>1 DEF LoginCreate, IInv, TypeOK
  <2>3. pwd' = pwd /\ ~At(r, "revokeAll")
    BY <1>7 DEF LoginCreate, At
  <2>4. Accounted(i)'
    <3>1. CASE Revoking(req[r].user)
      <4>1. \E q \in Requests : At(q, "revokeAll")' /\ req'[q].user = req[r].user
        BY <1>1, <2>3, <3>1 DEF Revoking, At
      <4> QED
        BY <2>2, <4>1 DEF Accounted, Revoking
    <3>2. CASE ~Revoking(req[r].user)
      BY <1>7, <2>2, <2>3, <3>2 DEF LoginCreate, Accounted
    <3> QED
      BY <3>1, <3>2
  <2>5. ASSUME NEW s \in SessionIds \ {i}, row[s] # None, ~row[s].revoked
        PROVE  Accounted(s)'
    <3>1. \A q \in Requests :
            At(q, "revokeAll") => At(q, "revokeAll")' /\ req'[q] = req[q]
      BY <1>1, <2>3 DEF At
    <3> QED
      BY <1>3, <2>2, <2>3, <2>5, <3>1 DEF PasswordInv, Accounted, Revoking
  <2> QED
    BY <2>2, <2>4, <2>5 DEF PasswordInv
<1>8. CASE RotateWrite(r)
  <2>1. \A s \in SessionIds :
           /\ row'[s] = None <=> row[s] = None
           /\ row[s] # None => /\ row'[s].user = row[s].user
                               /\ row'[s].revoked = row[s].revoked
    BY <1>8, RotatedRow
  <2>2. pwd' = pwd /\ born' = born /\ ~At(r, "revokeAll")
    BY <1>8 DEF RotateWrite, At
  <2> QED
    BY <1>4, <2>1, <2>2 DEF PasswordInv
<1>9. CASE UpdatePassword(r)
  <2> PICK u : u = req[r].user
    OBVIOUS
  <2>1. /\ req[r] # None /\ req[r] \in Request /\ u \in Users
        /\ ~At(r, "revokeAll") /\ row' = row /\ born' = born
    BY <1>9, LocalsType DEF UpdatePassword, At
  <2>2. CASE pwd[u] < MaxPassword
    <3>1. /\ req' = [req EXCEPT ![r].pc = "revokeAll"]
          /\ pwd' = [pwd EXCEPT ![u] = @ + 1]
      BY <1>9, <2>2 DEF UpdatePassword
    <3>2. Revoking(u)'
      <4> DEFINE c == [req[r] EXCEPT !.pc = "revokeAll"]
      <4>1. c \in Request /\ c.pc = "revokeAll" /\ c.user = u
        BY <2>1 DEF Request, Statements
      <4>2. req'[r] = c
        BY <3>1 DEF IInv, TypeOK
      <4> HIDE DEF c
      <4>3. c # None
        BY <4>1
      <4> QED
        BY <4>1, <4>2, <4>3 DEF Revoking, At
    <3>3. \A v \in Users \ {u} : pwd'[v] = pwd[v]
      BY <3>1 DEF IInv, TypeOK
    <3>4. \A s \in SessionIds : row[s] # None => row[s].user \in Users
      BY DEF IInv, TypeOK, Row
    <3>5. ASSUME NEW s \in SessionIds, row[s] # None, ~row[s].revoked
          PROVE  Accounted(s)'
      <4>1. CASE row[s].user = u
        BY <2>1, <3>2, <4>1 DEF Accounted, Revoking
      <4>2. CASE row[s].user # u
        <5>1. \A q \in Requests :
                At(q, "revokeAll") => At(q, "revokeAll")' /\ req'[q] = req[q]
          BY <1>1, <2>1 DEF At
        <5>2. pwd'[row[s].user] = pwd[row[s].user]
          BY <3>3, <3>4, <3>5, <4>2
        <5>3. Accounted(s)
          BY <3>5 DEF PasswordInv
        <5>4. CASE Revoking(row[s].user)
          BY <2>1, <5>1, <5>4 DEF Accounted, Revoking
        <5>5. CASE born[s] = pwd[row[s].user]
          BY <2>1, <5>2, <5>5 DEF Accounted
        <5>6. CASE s \in late
          BY <1>3, <5>6 DEF Accounted
        <5> QED
          BY <5>3, <5>4, <5>5, <5>6 DEF Accounted
      <4> QED
        BY <4>1, <4>2
    <3> QED
      BY <2>1, <3>5 DEF PasswordInv
  <2>3. CASE ~(pwd[u] < MaxPassword)
    <3>1. pwd' = pwd
      BY <1>9, <2>3 DEF UpdatePassword
    <3> QED
      BY <1>4, <2>1, <3>1 DEF PasswordInv
  <2> QED
    BY <2>2, <2>3
<1>10. CASE RevokeExpired(r) \/ RevokeOne(r) \/ RevokeAll(r)
  <2>1. \E S : RevokeRows(S) /\ (At(r, "revokeAll") => S = SessionsOf(req[r].user))
    BY <1>10 DEF RevokeExpired, RevokeOne, RevokeAll, At
  <2>2. PICK S : RevokeRows(S) /\ (At(r, "revokeAll") => S = SessionsOf(req[r].user))
    BY <2>1
  <2>3. pwd' = pwd /\ born' = born
    BY <1>10 DEF RevokeExpired, RevokeOne, RevokeAll
  <2>4. ASSUME NEW s \in SessionIds, row'[s] # None, ~row'[s].revoked
        PROVE  /\ row[s] # None /\ row'[s] = row[s]
               /\ ~(At(r, "revokeAll") /\ req[r].user = row[s].user)
    BY <2>2, <2>4, RevokedRow DEF SessionsOf
  <2> QED
    BY <1>4, <2>3, <2>4 DEF PasswordInv
<1> QED
  BY <1>5, <1>6, <1>7, <1>8, <1>9, <1>10 DEF Step

(* When a change of the password has revoked the user's sessions, none of  *)
(* those that were there is usable any more: rotations and logins that     *)
(* overlap the change bring none of them back.  The two ways to outlive a  *)
(* change, a login that inserts after the revocation and a revocation that *)
(* throws, are what late records.                                          *)
THEOREM ChangesReachSessions == Spec => []ChangeReachesSessions
<1>1. Init => PasswordInv
  BY DEF Init, PasswordInv
<1>2. IInv /\ PasswordInv /\ [Next]_vars => PasswordInv'
  <2> SUFFICES ASSUME IInv, PasswordInv, [Next]_vars
               PROVE  PasswordInv'
    OBVIOUS
  <2>1. CASE Tick \/ UNCHANGED vars
    BY <2>1 DEF Tick, vars, PasswordInv, Accounted, Revoking, At
  <2>2. ASSUME NEW r \in Requests, Arrive(r) \/ Step(r) \/ Abort(r)
        PROVE  PasswordInv'
    BY <2>2, PasswordStep
  <2> QED
    BY <2>1, <2>2 DEF Next
<1>3. PasswordInv => ChangeReachesSessions
  BY DEF PasswordInv, Accounted, ChangeReachesSessions, ActiveSessions
<1> QED
  BY <1>1, <1>2, <1>3, Invariance, PTL DEF Spec
=============================================================================
