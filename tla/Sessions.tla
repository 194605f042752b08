------------------------------ MODULE Sessions ------------------------------
(***************************************************************************)
(* Refresh sessions: SessionService, SessionController, JwtStrategy and    *)
(* the operations of AuthService that open, rotate and revoke sessions     *)
(* (login, refreshToken, changePassword, resetPassword).                   *)
(*                                                                         *)
(* The server is one Node process.  A request runs undisturbed between two *)
(* awaits and any other request may run at an await, so every database     *)
(* statement is a step of its own: req[r].pc names the statement that the  *)
(* request r executes next and the other fields are the local variables it *)
(* has read so far.  Steps that await without touching the database        *)
(* (bcrypt, jwt.sign) are merged with the step before them.                *)
(***************************************************************************)
EXTENDS Naturals

CONSTANTS
    Users,           \* verified LOCAL accounts
    SessionIds,      \* session ids that randomUUID() may return
    Requests,        \* requests that can be in flight at the same time
    None,            \* null
    BcryptInput(_),  \* the part of a token that bcrypt hashes
    RefreshTTL,      \* JWT_REFRESH_TOKEN_TTL = REFRESH_TOKEN_EXPIRY_MS, in
                     \* clock ticks
    MaxTime,         \* bound: the clock stops here
    MaxPassword,     \* bound: password changes per user
    Aborts           \* the statements that may never run: they throw, or the
                     \* process dies before them

Times == 0 .. MaxTime
Passwords == 0 .. MaxPassword

(* A token pair as issueTokens signs it: sub, sid and iat determine it.    *)
(* iat counts seconds, so two pairs signed for the same session within the *)
(* same tick are the same tokens.                                          *)
Token == [user : Users, sid : SessionIds, iat : Times]

Row == [user : Users,
        cur : Token,             \* the token behind refreshTokenHash
        prev : Token \union {None},   \* the one behind previousTokenHash
        expiresAt : Nat,
        revoked : BOOLEAN]       \* revokedAt is set

Statements == {"create", "issue", "read", "write", "expire", "revokeOne",
               "revokeAll", "change", "update"}

Request == [pc : Statements,
            user : Users,
            sid : SessionIds \union {None},
            pwd : Passwords,
            iat : Times,
            old : Token \union {None},
            seen : Token \union {None}]

ASSUME SessionsAssumption ==
    /\ None \notin SessionIds /\ None \notin Token
    /\ None \notin Row /\ None \notin Request
    /\ None \notin [user : Users, revoked : BOOLEAN]
    /\ RefreshTTL \in Nat
    /\ MaxTime \in Nat /\ MaxPassword \in Nat
    /\ Aborts \subseteq Statements

VARIABLES
    now,    \* the clock
    pwd,    \* passwordHash of each user, as a version number
    row,    \* the Session table
    req,    \* the requests in flight
    held,   \* the token pairs that responses have delivered to clients
    spent,  \* history: the refresh tokens that a refresh has traded in
    born,   \* history: the password version that opened each session
    late    \* history: the sessions that outlived a change of the password,
            \* because their login inserted them after its revocation or
            \* because that revocation threw

vars == <<now, pwd, row, req, held, spent, born, late>>

Init ==
    /\ now = 0
    /\ pwd = [u \in Users |-> 0]
    /\ row = [s \in SessionIds |-> None]
    /\ req = [r \in Requests |-> None]
    /\ held = {}
    /\ spent = {}
    /\ born = [s \in SessionIds |-> 0]
    /\ late = {}
-----------------------------------------------------------------------------
(* bcrypt.compare(t, hash of h) *)
Matches(t, h) == BcryptInput(t) = BcryptInput(h)

Expired(s) == row[s].expiresAt <= now

(* The sessions that listActiveSessions returns. *)
ActiveSessions(u) ==
    {s \in SessionIds : /\ row[s] # None
                        /\ row[s].user = u
                        /\ ~row[s].revoked
                        /\ ~Expired(s)}

At(r, p) == req[r] # None /\ req[r].pc = p

(* A request on behalf of u, about session s and refresh token t (or None  *)
(* for either), that executes statement p next.                            *)
Call(p, u, s, t) == [pc |-> p, user |-> u, sid |-> s, pwd |-> 0, iat |-> 0,
                     old |-> t, seen |-> None]

Begin(r, c) == req[r] = None /\ req' = [req EXCEPT ![r] = c]
End(r) == req' = [req EXCEPT ![r] = None]

(* The primary key is a fresh UUID: no row and no other login has it. *)
FreshId(s) ==
    /\ row[s] = None
    /\ \A r \in Requests : At(r, "create") => req[r].sid # s

(* updateMany({ where: .., revokedAt: null }, { revokedAt: new Date() }) *)
RevokeRows(S) ==
    row' = [s \in SessionIds |->
              IF s \in S /\ row[s] # None THEN [row[s] EXCEPT !.revoked = TRUE]
                                          ELSE row[s]]

SessionsOf(u) == {s \in SessionIds : row[s] # None /\ row[s].user = u}
-----------------------------------------------------------------------------
(* login: the user row is read, the password compared with the hash in it, *)
(* the session id drawn and the token pair signed.                         *)
LoginRead(r, u) ==
    /\ \E s \in SessionIds :
          /\ FreshId(s)
          /\ Begin(r, [pc |-> "create", user |-> u, sid |-> s,
                       pwd |-> pwd[u], iat |-> now, old |-> None,
                       seen |-> None])
    /\ UNCHANGED <<now, pwd, row, held, spent, born, late>>

NewToken(r) == [user |-> req[r].user, sid |-> req[r].sid, iat |-> req[r].iat]

(* A slip: the session is stored without an expiry. *)
LoginCreateEndless(r) ==
    /\ At(r, "create")
    /\ row' = [row EXCEPT ![req[r].sid] =
                 [user |-> req[r].user, cur |-> NewToken(r), prev |-> None,
                  expiresAt |-> None, revoked |-> FALSE]]
    /\ held' = held \union {NewToken(r)}
    /\ End(r)
    /\ UNCHANGED <<now, pwd, spent, born, late>>

(* A revocation of all sessions of u is about to run. *)
Revoking(u) == \E r \in Requests : At(r, "revokeAll") /\ req[r].user = u

(* createSession, and the response. *)
LoginCreate(r) ==
    /\ At(r, "create")
    /\ row' = [row EXCEPT ![req[r].sid] =
                 [user |-> req[r].user, cur |-> NewToken(r), prev |-> None,
                  expiresAt |-> req[r].iat + RefreshTTL, revoked |-> FALSE]]
    /\ born' = [born EXCEPT ![req[r].sid] = req[r].pwd]
    /\ late' = late \union {s \in {req[r].sid} :
                               /\ req[r].pwd # pwd[req[r].user]
                               /\ ~Revoking(req[r].user)}
    /\ held' = held \union {NewToken(r)}
    /\ End(r)
    /\ UNCHANGED <<now, pwd, spent>>
-----------------------------------------------------------------------------
(* refreshToken and validateSessionToken, up to the statement after the    *)
(* session has been read.  The calls that end in a 401 with nothing        *)
(* written (unknown, foreign or revoked session, a token that matches      *)
(* neither hash) change no state and are left out.                         *)
RefreshBegin(r, t, p) ==
    /\ now < t.iat + RefreshTTL
    /\ row[t.sid] # None
    /\ row[t.sid].user = t.user
    /\ ~row[t.sid].revoked
    /\ Begin(r, Call(p, t.user, t.sid, t))
    /\ UNCHANGED <<now, pwd, row, held, spent, born, late>>

RefreshExpired(r, t) == Expired(t.sid) /\ RefreshBegin(r, t, "expire")

RefreshAccepted(r, t) ==
    /\ RefreshBegin(r, t, "issue")
    /\ ~Expired(t.sid)
    /\ Matches(t, row[t.sid].cur)

RefreshReused(r, t) ==
    /\ RefreshBegin(r, t, "revokeAll")
    /\ ~Expired(t.sid)
    /\ ~Matches(t, row[t.sid].cur)
    /\ row[t.sid].prev # None
    /\ Matches(t, row[t.sid].prev)

(* The user row is read and issueTokens signs the next pair. *)
RefreshIssue(r) ==
    /\ At(r, "issue")
    /\ req' = [req EXCEPT ![r].pc = "read", ![r].iat = now]
    /\ UNCHANGED <<now, pwd, row, held, spent, born, late>>

(* rotateSessionToken reads the session again: 401 when it is revoked. *)
RotateRead(r) ==
    /\ At(r, "read")
    /\ IF row[req[r].sid] = None \/ row[req[r].sid].revoked
         THEN End(r)
         ELSE req' = [req EXCEPT ![r].pc = "write",
                                 ![r].seen = row[req[r].sid].cur]
    /\ UNCHANGED <<now, pwd, row, held, spent, born, late>>

(* A slip: the update writes back the whole row that was read. *)
RotateWriteRevives(r) ==
    /\ At(r, "write")
    /\ row' = [row EXCEPT ![req[r].sid].cur = NewToken(r),
                          ![req[r].sid].prev = req[r].seen,
                          ![req[r].sid].expiresAt = req[r].iat + RefreshTTL,
                          ![req[r].sid].revoked = FALSE]
    /\ held' = held \union {NewToken(r)}
    /\ spent' = (spent \union {req[r].old}) \ {NewToken(r)}
    /\ End(r)
    /\ UNCHANGED <<now, pwd, born, late>>

(* A slip: the update selects by user and not by session id. *)
RotateWriteEverywhere(r) ==
    /\ At(r, "write")
    /\ row' = [s \in SessionIds |->
                 IF row[s] # None /\ row[s].user = req[r].user
                   THEN [row[s] EXCEPT !.cur = NewToken(r)] ELSE row[s]]
    /\ End(r)
    /\ UNCHANGED <<now, pwd, held, spent, born, late>>

(* update({ where: { id } }): whatever has become of the row since. *)
RotateWrite(r) ==
    /\ At(r, "write")
    /\ row' = [row EXCEPT ![req[r].sid].cur = NewToken(r),
                          ![req[r].sid].prev = req[r].seen,
                          ![req[r].sid].expiresAt = req[r].iat + RefreshTTL]
    /\ held' = held \union {NewToken(r)}
    /\ spent' = (spent \union {req[r].old}) \ {NewToken(r)}
    /\ End(r)
    /\ UNCHANGED <<now, pwd, born, late>>
-----------------------------------------------------------------------------
(* JwtStrategy accepts either token of a pair as a bearer token: nobody    *)
(* asks for its type, and the refresh token is the one that lives longer.  *)
Bearer(t) == now < t.iat + RefreshTTL

(* A request with a bearer token: JwtStrategy.validate and                 *)
(* assertSessionIsActive, then the handler's first statement.              *)
Authenticated(r, t, c) ==
    /\ Bearer(t)
    /\ row[t.sid] # None
    /\ row[t.sid].user = t.user
    /\ ~row[t.sid].revoked
    /\ IF Expired(t.sid)
         THEN Begin(r, Call("expire", t.user, t.sid, None))
         ELSE Begin(r, c)
    /\ UNCHANGED <<now, pwd, row, held, spent, born, late>>

(* DELETE /sessions/:sessionId, with any session id in the path *)
InvalidateSession(r, t, s) ==
    Authenticated(r, t, Call("revokeOne", t.user, s, None))

(* DELETE /sessions *)
InvalidateAll(r, t) ==
    Authenticated(r, t, Call("revokeAll", t.user, None, None))

(* POST /auth/change-password *)
ChangePassword(r, t) ==
    Authenticated(r, t, Call("change", t.user, None, None))

(* changePassword reads the user row and compares the current password. *)
ChangeRead(r) ==
    /\ At(r, "change")
    /\ req' = [req EXCEPT ![r].pc = "update"]
    /\ UNCHANGED <<now, pwd, row, held, spent, born, late>>

(* resetPassword: the verified reset token names the user, nothing is read *)
(* before the update.                                                      *)
ResetPassword(r, u) ==
    /\ Begin(r, Call("update", u, None, None))
    /\ UNCHANGED <<now, pwd, row, held, spent, born, late>>

(* user.update({ passwordHash }); MaxPassword bounds the model. *)
UpdatePassword(r) ==
    /\ At(r, "update")
    /\ IF pwd[req[r].user] < MaxPassword
         THEN /\ pwd' = [pwd EXCEPT ![req[r].user] = @ + 1]
              /\ req' = [req EXCEPT ![r].pc = "revokeAll"]
         ELSE End(r) /\ UNCHANGED pwd
    /\ UNCHANGED <<now, row, held, spent, born, late>>
-----------------------------------------------------------------------------
(* revokeSession, from the two places that find the session expired *)
RevokeExpired(r) ==
    /\ At(r, "expire")
    /\ RevokeRows({req[r].sid})
    /\ End(r)
    /\ UNCHANGED <<now, pwd, held, spent, born, late>>

(* A slip: the userId is left out of the where clause. *)
RevokeOneOfAnybody(r) ==
    /\ At(r, "revokeOne")
    /\ RevokeRows({req[r].sid})
    /\ End(r)
    /\ UNCHANGED <<now, pwd, held, spent, born, late>>

(* revokeSessionForUser *)
RevokeOne(r) ==
    /\ At(r, "revokeOne")
    /\ RevokeRows({req[r].sid} \intersect SessionsOf(req[r].user))
    /\ End(r)
    /\ UNCHANGED <<now, pwd, held, spent, born, late>>

(* revokeAllSessionsForUser *)
RevokeAll(r) ==
    /\ At(r, "revokeAll")
    /\ RevokeRows(SessionsOf(req[r].user))
    /\ End(r)
    /\ UNCHANGED <<now, pwd, held, spent, born, late>>

(* A statement throws or the process dies: the request is gone, what it    *)
(* has written stays.                                                      *)
Abort(r) ==
    /\ req[r] # None
    /\ req[r].pc \in Aborts
    /\ late' = late \union {s \in SessionsOf(req[r].user) :
                               /\ At(r, "revokeAll")
                               /\ born[s] # pwd[req[r].user]}
    /\ End(r)
    /\ UNCHANGED <<now, pwd, row, held, spent, born>>

Tick ==
    /\ now < MaxTime
    /\ now' = now + 1
    /\ UNCHANGED <<pwd, row, req, held, spent, born, late>>
-----------------------------------------------------------------------------
(* The next statement of a request that has begun *)
Step(r) ==
    \/ LoginCreate(r)
    \/ RefreshIssue(r)
    \/ RotateRead(r)
    \/ RotateWrite(r)
    \/ ChangeRead(r)
    \/ UpdatePassword(r)
    \/ RevokeExpired(r)
    \/ RevokeOne(r)
    \/ RevokeAll(r)

Arrive(r) ==
    \/ \E u \in Users : LoginRead(r, u) \/ ResetPassword(r, u)
    \/ \E t \in held :
          \/ RefreshExpired(r, t)
          \/ RefreshAccepted(r, t)
          \/ RefreshReused(r, t)
          \/ InvalidateAll(r, t)
          \/ ChangePassword(r, t)
          \/ \E s \in SessionIds : InvalidateSession(r, t, s)

Next == Tick \/ \E r \in Requests : Arrive(r) \/ Step(r) \/ Abort(r)

Spec == Init /\ [][Next]_vars
-----------------------------------------------------------------------------
(* The variables keep their types. *)
TypeOK ==
    /\ now \in Times
    /\ pwd \in [Users -> Passwords]
    /\ row \in [SessionIds -> Row \union {None}]
    /\ req \in [Requests -> Request \union {None}]
    /\ held \in SUBSET Token
    /\ spent \in SUBSET Token
    /\ born \in [SessionIds -> Passwords]
    /\ late \in SUBSET SessionIds

(* Both hashes of a row are hashes of refresh tokens that were signed for  *)
(* that very session and its user, however rotations interleave            *)
(* (rotateSessionToken updates by id after a read that may be stale).      *)
RowTokensMatchRow ==
    \A s \in SessionIds :
        row[s] # None =>
            \A t \in {row[s].cur, row[s].prev} \ {None} :
                t.sid = s /\ t.user = row[s].user

(* A revoked session stays revoked and is never handed to another user: a  *)
(* rotation that read the row before the revocation writes after it and    *)
(* must not undo it.                                                       *)
RevokedForGood ==
    [][\A s \in SessionIds :
          row[s] # None /\ row[s].revoked =>
              row'[s] # None /\ row'[s].revoked /\ row'[s].user = row[s].user]_vars

(* A session is revoked only by a request that acts for its own user:      *)
(* revoking by id and revoking all never reach another account's devices.  *)
OnlyOwnSessionsRevoked ==
    [][\A s \in SessionIds :
          row[s] # None /\ ~row[s].revoked /\ row'[s].revoked =>
              \E r \in Requests : req[r] # None /\ req'[r] = None
                                  /\ req[r].user = row[s].user]_vars

(* "Revokes all sessions, including the current one after a successful     *)
(* change" (changePassword, resetPassword): once the revocation has run,   *)
(* no usable session was opened with a password that has been replaced.    *)
(* The code does not keep this promise: a login that has compared the old  *)
(* hash inserts its session after the revocation.                          *)
PasswordChangeEndsSessions ==
    \A u \in Users : \A s \in ActiveSessions(u) :
        born[s] = pwd[u] \/ Revoking(u)

(* What the code does keep, whatever overlaps and wherever requests break  *)
(* off: no session that was there when the password changed survives the   *)
(* revocation, neither through a rotation that writes after it nor through *)
(* a login that inserts before it.                                         *)
ChangeReachesSessions ==
    \A u \in Users : \A s \in ActiveSessions(u) :
        born[s] = pwd[u] \/ Revoking(u) \/ s \in late

(* "Reusing a refresh token revokes every session for that user": a token  *)
(* that has been traded in is never good for another pair.  It is: bcrypt  *)
(* (validateSessionToken) cannot tell two tokens of a user apart.          *)
SpentTokenYieldsNothing ==
    [][\A r \in Requests : RotateWrite(r) => req[r].old \notin spent]_vars

(* The session table behaves like the abstract registry: opened once,      *)
(* closed for good, one user at a time.                                    *)
Registry == INSTANCE SessionRegistry WITH
    registry <- [s \in SessionIds |->
                   IF row[s] = None THEN None
                   ELSE [user |-> row[s].user, revoked |-> row[s].revoked]]

ImplementsRegistry == Registry!Spec
=============================================================================
