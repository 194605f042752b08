------------------------------ MODULE Accounts ------------------------------
(***************************************************************************)
(* Accounts and the codes that are mailed for them: the operations of      *)
(* AuthService that register, verify and recover an account, and the       *)
(* sign-in with Google up to the point where issueTokens opens a session   *)
(* (Sessions takes over there).                                            *)
(*                                                                         *)
(* email is unique, so an account is known by its address.  As in Sessions *)
(* each database statement and each mail is a step of its own.             *)
(***************************************************************************)
EXTENDS Naturals

CONSTANTS
    Emails,      \* addresses
    Codes,       \* values of generateOtp
    OtpIds,      \* primary keys of VerificationToken
    ResetIds,    \* primary keys of PasswordResetToken
    Requests,    \* requests in flight at the same time
    None,        \* null
    Collisions,  \* whether generateOtp may draw a code a second time
    Aborts,      \* whether a request may die between two statements
    MaxTrades,   \* bound: trades of one reset code
    MaxResets    \* bound: passwords set with one reset token

Account == [provider : {"LOCAL", "GOOGLE"}, verified : BOOLEAN]

(* A VerificationToken or PasswordResetToken row *)
CodeRow == [email : Emails,
            code : Codes,
            used : BOOLEAN,     \* usedAt is set
            lapsed : BOOLEAN]   \* expiresAt <= now

Statements ==
    {"signupCreate", "otpInvalidate", "otpCreate", "otpMail",
     "verifyUser", "verifyMark", "resetCreate", "resetMail", "resetMark",
     "setPassword", "googleCreate", "googleVerify"}

Request == [pc : Statements,
            email : Emails,     \* whose client sent the request
            id : OtpIds \union ResetIds \union {None}]

ASSUME AccountsAssumption ==
    /\ None \notin Account \union CodeRow \union Request
    /\ None \notin OtpIds \union ResetIds
    /\ Collisions \in BOOLEAN /\ Aborts \in BOOLEAN
    /\ MaxTrades \in Nat /\ MaxResets \in Nat

VARIABLES
    acct,     \* the User table
    otp,      \* the VerificationToken table
    reset,    \* the PasswordResetToken table
    grant,    \* the reset token that each reset code has been traded for
    inbox,    \* the verification codes that have been mailed, and to whom
    req,      \* the requests in flight
    typed,    \* history: codes that clients have submitted for verification
    thanked,  \* history: clients that were told "Email verified
              \* successfully", and the code they had typed in
    seen,     \* history: the codes that a send found when it invalidated
    older,    \* history: <<i, j>> where the send of j found i
    trades,   \* history: how often each reset code has been traded
    resets    \* history: how often each reset token has set a password

sends == <<seen, older>>
vars == <<acct, otp, reset, grant, inbox, req, typed, thanked, sends, trades,
          resets>>
history == <<typed, thanked, sends, trades, resets>>

Init ==
    /\ acct = [e \in Emails |-> None]
    /\ otp = [i \in OtpIds |-> None]
    /\ reset = [i \in ResetIds |-> None]
    /\ grant = [i \in ResetIds |-> "none"]
    /\ inbox = {}
    /\ req = [r \in Requests |-> None]
    /\ typed = {} /\ thanked = {}
    /\ seen = [r \in Requests |-> {}] /\ older = {}
    /\ trades = [i \in ResetIds |-> 0]
    /\ resets = [i \in ResetIds |-> 0]
-----------------------------------------------------------------------------
At(r, p) == req[r] # None /\ req[r].pc = p

Begin(r, p, e, i) ==
    /\ req[r] = None
    /\ req' = [req EXCEPT ![r] = [pc |-> p, email |-> e, id |-> i]]
Goto(r, p) == req' = [req EXCEPT ![r].pc = p]
End(r) == req' = [req EXCEPT ![r] = None]

(* usedAt: null, expiresAt: { gt: now } *)
Valid(row) == row # None /\ ~row.used /\ ~row.lapsed

DrawnCodes == {otp[i].code : i \in {j \in OtpIds : otp[j] # None}}

OtpsOf(e) == {i \in OtpIds : otp[i] # None /\ otp[i].email = e}

NewCode(e, c) == [email |-> e, code |-> c, used |-> FALSE, lapsed |-> FALSE]

Create(e, provider, verified) ==
    acct' = [acct EXCEPT ![e] = [provider |-> provider, verified |-> verified]]
-----------------------------------------------------------------------------
(* signup: 409 unless the address is free or belongs to an unverified      *)
(* local account, in which case the insert below is the one to fail.       *)
Signup(r, e) ==
    /\ acct[e] # None => acct[e].provider = "LOCAL" /\ ~acct[e].verified
    /\ Begin(r, "signupCreate", e, None)
    /\ UNCHANGED <<acct, otp, reset, grant, inbox, history>>

(* A slip: local accounts are born verified, as Google's are. *)
SignupCreateVerified(r) ==
    /\ At(r, "signupCreate")
    /\ acct[req[r].email] = None
    /\ Create(req[r].email, "LOCAL", TRUE)
    /\ Goto(r, "otpInvalidate")
    /\ UNCHANGED <<otp, reset, grant, inbox, history>>

(* A slip: the provider is not stored. *)
SignupCreateNoProvider(r) ==
    /\ At(r, "signupCreate")
    /\ Create(req[r].email, None, FALSE)
    /\ Goto(r, "otpInvalidate")
    /\ UNCHANGED <<otp, reset, grant, inbox, history>>

(* user.create, with email unique *)
SignupCreate(r) ==
    LET e == req[r].email IN
    /\ At(r, "signupCreate")
    /\ IF acct[e] = None
         THEN Create(e, "LOCAL", FALSE) /\ Goto(r, "otpInvalidate")
         ELSE UNCHANGED acct /\ End(r)
    /\ UNCHANGED <<otp, reset, grant, inbox, history>>

(* resendOtp: any account will do. *)
ResendOtp(r, e) ==
    /\ acct[e] # None
    /\ Begin(r, "otpInvalidate", e, None)
    /\ UNCHANGED <<acct, otp, reset, grant, inbox, history>>

(* A slip: only the codes that have not expired are looked for, and those  *)
(* that have are taken for them.                                           *)
OtpInvalidateLapsed(r) ==
    /\ At(r, "otpInvalidate")
    /\ otp' = [i \in OtpIds |->
                 IF i \in OtpsOf(req[r].email) /\ otp[i].lapsed
                   THEN [otp[i] EXCEPT !.used = TRUE] ELSE otp[i]]
    /\ seen' = [seen EXCEPT ![r] = OtpsOf(req[r].email)]
    /\ Goto(r, "otpCreate")
    /\ UNCHANGED <<acct, reset, grant, inbox, typed, thanked, older, trades,
                   resets>>

(* sendVerificationOtp: updateMany({ userId, usedAt: null }, { usedAt }),  *)
(* then the new code, then the mail, which may fail.                       *)
OtpInvalidate(r) ==
    /\ At(r, "otpInvalidate")
    /\ otp' = [i \in OtpIds |->
                 IF i \in OtpsOf(req[r].email)
                   THEN [otp[i] EXCEPT !.used = TRUE] ELSE otp[i]]
    /\ seen' = [seen EXCEPT ![r] = OtpsOf(req[r].email)]
    /\ Goto(r, "otpCreate")
    /\ UNCHANGED <<acct, reset, grant, inbox, typed, thanked, older, trades,
                   resets>>

OtpCreate(r) ==
    /\ At(r, "otpCreate")
    /\ \E i \in OtpIds, c \in Codes :
          /\ otp[i] = None
          /\ Collisions \/ c \notin DrawnCodes
          /\ otp' = [otp EXCEPT ![i] = NewCode(req[r].email, c)]
          /\ req' = [req EXCEPT ![r].pc = "otpMail", ![r].id = i]
          /\ older' = older \union (seen[r] \X {i})
    /\ seen' = [seen EXCEPT ![r] = {}]
    /\ UNCHANGED <<acct, reset, grant, inbox, typed, thanked, trades, resets>>

OtpMail(r) ==
    /\ At(r, "otpMail")
    /\ \/ inbox' = inbox \union {<<req[r].email, otp[req[r].id].code>>}
       \/ UNCHANGED inbox
    /\ End(r)
    /\ UNCHANGED <<acct, otp, reset, grant, history>>
-----------------------------------------------------------------------------
(* verifyEmail: a client types in any code, one that was mailed to him or  *)
(* a guess.  The code alone finds the token, whoever submits it; findFirst *)
(* takes any one that matches.                                             *)
VerifyEmail(r, e, c) ==
    /\ \E i \in OtpIds :
          /\ Valid(otp[i])
          /\ otp[i].code = c
          /\ acct[otp[i].email].provider = "LOCAL"
          /\ Begin(r, "verifyUser", e, i)
    /\ typed' = typed \union {c}
    /\ UNCHANGED <<acct, otp, reset, grant, inbox, thanked, sends, trades, resets>>

(* A slip: the success is reported before the account is updated. *)
VerifyUserNot(r) ==
    /\ At(r, "verifyUser")
    /\ Goto(r, "verifyMark")
    /\ UNCHANGED <<acct, otp, reset, grant, inbox, history>>

VerifyUser(r) ==
    /\ At(r, "verifyUser")
    /\ acct' = [acct EXCEPT ![otp[req[r].id].email].verified = TRUE]
    /\ Goto(r, "verifyMark")
    /\ UNCHANGED <<otp, reset, grant, inbox, history>>

VerifyMark(r) ==
    /\ At(r, "verifyMark")
    /\ otp' = [otp EXCEPT ![req[r].id].used = TRUE]
    /\ thanked' = thanked \union {<<req[r].email, otp[req[r].id].code>>}
    /\ End(r)
    /\ UNCHANGED <<acct, reset, grant, inbox, typed, sends, trades, resets>>
-----------------------------------------------------------------------------
(* forgotPassword: older codes stay valid. *)
ForgotPassword(r, e) ==
    /\ acct[e] # None
    /\ acct[e].provider = "LOCAL"
    /\ Begin(r, "resetCreate", e, None)
    /\ UNCHANGED <<acct, otp, reset, grant, inbox, history>>

ResetCreate(r) ==
    /\ At(r, "resetCreate")
    /\ \E i \in ResetIds, c \in Codes :
          /\ reset[i] = None
          /\ reset' = [reset EXCEPT ![i] = NewCode(req[r].email, c)]
          /\ req' = [req EXCEPT ![r].pc = "resetMail", ![r].id = i]
    /\ UNCHANGED <<acct, otp, grant, inbox, history>>

ResetMail(r) ==
    /\ At(r, "resetMail")
    /\ End(r)
    /\ UNCHANGED <<acct, otp, reset, grant, inbox, history>>

(* verifyResetCode: again the code alone finds its row, mailed or guessed. *)
(* The token is signed, for the user of the row, between the read and the  *)
(* update.  MaxTrades bounds the trades.                                   *)
VerifyResetCode(r, c) ==
    /\ \E i \in ResetIds :
          /\ Valid(reset[i])
          /\ reset[i].code = c
          /\ acct[reset[i].email].provider = "LOCAL"
          /\ trades[i] < MaxTrades
          /\ Begin(r, "resetMark", reset[i].email, i)
    /\ UNCHANGED <<acct, otp, reset, grant, inbox, history>>

ResetMark(r) ==
    /\ At(r, "resetMark")
    /\ trades[req[r].id] < MaxTrades
    /\ reset' = [reset EXCEPT ![req[r].id].used = TRUE]
    /\ grant' = [grant EXCEPT ![req[r].id] = "live"]
    /\ trades' = [trades EXCEPT ![req[r].id] = @ + 1]
    /\ End(r)
    /\ UNCHANGED <<acct, otp, inbox, typed, thanked, sends, resets>>

(* resetPassword: any token that the service has signed for a local        *)
(* account and that has not expired, the one that was traded for a code or *)
(* (i = None) one of a session that login has opened; nothing else is      *)
(* asked of it.  Then the update (and revokeAllSessionsForUser, in         *)
(* Sessions).  MaxResets bounds the model.                                 *)
ResetPassword(r, e, i) ==
    /\ IF i = None
         THEN acct[e] # None /\ acct[e].provider = "LOCAL" /\ acct[e].verified
         ELSE grant[i] = "live" /\ reset[i].email = e /\ resets[i] < MaxResets
    /\ Begin(r, "setPassword", e, i)
    /\ UNCHANGED <<acct, otp, reset, grant, inbox, history>>

SetPassword(r) ==
    /\ At(r, "setPassword")
    /\ req[r].id # None => resets[req[r].id] < MaxResets
    /\ resets' = [i \in ResetIds |->
                     IF i = req[r].id THEN resets[i] + 1 ELSE resets[i]]
    /\ End(r)
    /\ UNCHANGED <<acct, otp, reset, grant, inbox, typed, thanked, sends, trades>>
-----------------------------------------------------------------------------
(* handleGoogleOAuthLogin: 409 for a local account.  A Google account has  *)
(* a providerId from the start, so the branch that links one never runs;   *)
(* and it is verified when Google says so (or says nothing), else by the   *)
(* update that follows.                                                    *)
GoogleLogin(r, e) ==
    /\ \/ acct[e] = None /\ Begin(r, "googleCreate", e, None)
       \/ /\ acct[e] # None
          /\ acct[e].provider = "GOOGLE"
          /\ ~acct[e].verified
          /\ Begin(r, "googleVerify", e, None)
    /\ UNCHANGED <<acct, otp, reset, grant, inbox, history>>

(* A slip: create became upsert. *)
GoogleCreateUpserts(r) ==
    /\ At(r, "googleCreate")
    /\ Create(req[r].email, "GOOGLE", TRUE)
    /\ End(r)
    /\ UNCHANGED <<otp, reset, grant, inbox, history>>

GoogleCreate(r) ==
    LET e == req[r].email IN
    /\ At(r, "googleCreate")
    /\ \/ acct[e] = None /\ Create(e, "GOOGLE", TRUE) /\ End(r)
       \/ acct[e] = None /\ Create(e, "GOOGLE", FALSE) /\ Goto(r, "googleVerify")
       \/ acct[e] # None /\ UNCHANGED acct /\ End(r)
    /\ UNCHANGED <<otp, reset, grant, inbox, history>>

GoogleVerify(r) ==
    /\ At(r, "googleVerify")
    /\ acct' = [acct EXCEPT ![req[r].email].verified = TRUE]
    /\ End(r)
    /\ UNCHANGED <<otp, reset, grant, inbox, history>>
-----------------------------------------------------------------------------
(* Ten minutes pass for a code, or fifteen for a reset token. *)
Lapse ==
    /\ \/ \E i \in OtpIds : /\ Valid(otp[i])
                            /\ otp' = [otp EXCEPT ![i].lapsed = TRUE]
                            /\ UNCHANGED <<reset, grant>>
       \/ \E i \in ResetIds : /\ Valid(reset[i])
                              /\ reset' = [reset EXCEPT ![i].lapsed = TRUE]
                              /\ UNCHANGED <<otp, grant>>
       \/ \E i \in ResetIds : /\ grant[i] = "live"
                              /\ grant' = [grant EXCEPT ![i] = "lapsed"]
                              /\ UNCHANGED <<otp, reset>>
    /\ UNCHANGED <<acct, inbox, req, history>>

(* A statement throws or the process dies. *)
Abort(r) ==
    /\ Aborts
    /\ req[r] # None
    /\ End(r)
    /\ UNCHANGED <<acct, otp, reset, grant, inbox, history>>

Arrive(r) ==
    \/ \E e \in Emails :
          \/ Signup(r, e) \/ ResendOtp(r, e) \/ ForgotPassword(r, e)
          \/ GoogleLogin(r, e)
          \/ \E c \in Codes : VerifyEmail(r, e, c)
          \/ \E i \in ResetIds \union {None} : ResetPassword(r, e, i)
    \/ \E c \in Codes : VerifyResetCode(r, c)

Step(r) ==
    \/ SignupCreate(r) \/ OtpInvalidate(r) \/ OtpCreate(r) \/ OtpMail(r)
    \/ VerifyUser(r) \/ VerifyMark(r)
    \/ ResetCreate(r) \/ ResetMail(r) \/ ResetMark(r) \/ SetPassword(r)
    \/ GoogleCreate(r) \/ GoogleVerify(r)

Next == Lapse \/ \E r \in Requests : Arrive(r) \/ Step(r) \/ Abort(r)

Spec == Init /\ [][Next]_vars
-----------------------------------------------------------------------------
(* The variables keep their types. *)
TypeOK ==
    /\ acct \in [Emails -> Account \union {None}]
    /\ otp \in [OtpIds -> CodeRow \union {None}]
    /\ reset \in [ResetIds -> CodeRow \union {None}]
    /\ grant \in [ResetIds -> {"none", "live", "lapsed"}]
    /\ inbox \in SUBSET (Emails \X Codes)
    /\ req \in [Requests -> Request \union {None}]
    /\ typed \in SUBSET Codes /\ thanked \in SUBSET (Emails \X Codes)
    /\ seen \in [Requests -> SUBSET OtpIds]
    /\ older \in SUBSET (OtpIds \X OtpIds)
    /\ trades \in [ResetIds -> 0 .. MaxTrades]
    /\ resets \in [ResetIds -> 0 .. MaxResets]

(* A local account is verified only by a code that was drawn for it and    *)
(* that somebody has typed in: neither the sign-in with Google nor a late  *)
(* signup, overlapping the verification, opens another way.                *)
LocalVerifiedByCode ==
    \A e \in Emails :
        acct[e] # None /\ acct[e].provider = "LOCAL" /\ acct[e].verified =>
            \E i \in OtpIds : /\ otp[i] # None
                              /\ otp[i].email = e
                              /\ otp[i].code \in typed

(* An address keeps the method it was registered with, and once verified   *)
(* stays verified, even when a signup and a Google sign-in for the same    *)
(* address both find it free.                                              *)
MethodNeverChanges ==
    [][\A e \in Emails :
          acct[e] # None =>
              /\ acct'[e] # None
              /\ acct'[e].provider = acct[e].provider
              /\ acct[e].verified => acct'[e].verified]_vars

(* "So only one token remains valid at a time": a user never has two codes *)
(* that verifyEmail would accept.  Two sends that overlap both invalidate  *)
(* and then both insert (sendVerificationOtp), so the code does not keep   *)
(* this promise.                                                           *)
AtMostOneValidOtp ==
    \A i, j \in OtpIds :
        Valid(otp[i]) /\ Valid(otp[j]) /\ otp[i].email = otp[j].email => i = j

(* What the code does keep: from the moment a code is there, none that its *)
(* send found is valid, whatever other sends and verifications do to those *)
(* rows between the two statements and afterwards.                         *)
OlderOtpsAreDead == \A p \in older : ~Valid(otp[p[1]])

(* "User submits OTP to verify-email; emailVerified becomes true": whoever *)
(* types in the code that was mailed to him and is told that his address   *)
(* is verified has a verified account.  verifyEmail looks a code up        *)
(* without its user, so it may find that of somebody else.                 *)
OwnCodeVerifies ==
    \A e \in Emails, c \in Codes :
        <<e, c>> \in thanked /\ <<e, c>> \in inbox =>
            acct[e] # None /\ acct[e].verified

(* Whoever is told that his address is verified has a verified account, or *)
(* has typed in a code that was drawn for somebody else: by no other       *)
(* overlap of verifications, sends and sign-ups does the answer run ahead  *)
(* of the account.                                                         *)
ThankedIsVerified ==
    \A e \in Emails, c \in Codes :
        <<e, c>> \in thanked =>
            \/ acct[e] # None /\ acct[e].verified
            \/ \E i \in OtpIds : otp[i] # None /\ otp[i].code = c
                                 /\ otp[i].email # e

(* "Password reset is only available for email/password accounts": none is *)
(* ever set for a Google account, although the code, the token and the     *)
(* update only know what provider an earlier read has found, and a sign-in *)
(* with Google may overlap them all.                                       *)
OnlyLocalPasswords ==
    \A r \in Requests :
        At(r, "setPassword") => /\ acct[req[r].email] # None
                                /\ acct[req[r].email].provider = "LOCAL"

(* Reset codes are "consumed on use": one code buys one reset token.       *)
(* Overlapping calls of verifyResetCode all read it before one marks it.   *)
ResetCodeTradedOnce == \A i \in ResetIds : trades[i] <= 1

(* reset-password "consumes the temporary access token". *)
ResetTokenConsumed == \A i \in ResetIds : resets[i] <= trades[i]
=============================================================================
