--------------------------- MODULE AccountsProofs ---------------------------
(***************************************************************************)
(* Proofs about Accounts, for every interleaving, every code that is drawn *)
(* or guessed and every abort: its types, LocalVerifiedByCode,             *)
(* OlderOtpsAreDead, ThankedIsVerified, OnlyLocalPasswords and the action  *)
(* property MethodNeverChanges.                                            *)
(*                                                                         *)
(* Code rows are never deleted, keep their address and their code and,     *)
(* once used, stay used (Rows), so what a request has read of one still    *)
(* holds when it writes.                                                   *)
(***************************************************************************)
EXTENDS Accounts, TLAPS

USE AccountsAssumption

(* What the locals c of a request may rely on *)
Local(c) ==
    /\ c.pc \in {"otpInvalidate", "otpCreate"} => acct[c.email] # None
    /\ c.pc = "otpMail" =>
          c.id \in OtpIds /\ otp[c.id] # None /\ otp[c.id].email = c.email
    /\ c.pc \in {"verifyUser", "verifyMark"} =>
          /\ c.id \in OtpIds /\ otp[c.id] # None
          /\ otp[c.id].code \in typed
    /\ c.pc = "verifyMark" => acct[otp[c.id].email].verified
    /\ c.pc \in {"resetMail", "resetMark"} => c.id \in ResetIds /\ reset[c.id] # None
    /\ c.pc \in {"resetCreate", "setPassword"} =>
          acct[c.email] # None /\ acct[c.email].provider = "LOCAL"
    /\ c.pc = "googleVerify" =>
          acct[c.email] # None /\ acct[c.email].provider = "GOOGLE"

OtpHasAccount == \A i \in OtpIds : otp[i] # None => acct[otp[i].email] # None

(* What a send has found is used, before and after it inserts its code. *)
SentUsed ==
    /\ \A r \in Requests : \A i \in seen[r] : otp[i] # None /\ otp[i].used
    /\ \A p \in older : otp[p[1]] # None /\ otp[p[1]].used

ResetIsLocal ==
    \A i \in ResetIds : reset[i] # None =>
        acct[reset[i].email] # None /\ acct[reset[i].email].provider = "LOCAL"

GrantHasRow == \A i \in ResetIds : grant[i] # "none" => reset[i] # None

IInv ==
    /\ TypeOK
    /\ \A r \in Requests : req[r] # None => Local(req[r])
    /\ OtpHasAccount /\ SentUsed /\ ResetIsLocal /\ GrantHasRow
    /\ LocalVerifiedByCode
    /\ ThankedIsVerified

LEMMA InitIInv == Init => IInv
BY DEF Init, IInv, TypeOK, OtpHasAccount, SentUsed, ResetIsLocal, GrantHasRow,
       LocalVerifiedByCode, ThankedIsVerified
-----------------------------------------------------------------------------
(* No request but r moves. *)
Moves(r) ==
    /\ req' \in [Requests -> Request \union {None}]
    /\ \A q \in Requests \ {r} : req'[q] = req[q]

(* What a step leaves of the rows that others have read *)
Rows ==
    /\ \A e \in Emails : acct[e] # None =>
          /\ acct'[e] # None /\ acct'[e].provider = acct[e].provider
          /\ acct[e].verified => acct'[e].verified
    /\ \A i \in OtpIds : otp[i] # None =>
          /\ otp'[i] # None
          /\ otp'[i].email = otp[i].email /\ otp'[i].code = otp[i].code
          /\ otp[i].used => otp'[i].used
    /\ \A i \in ResetIds : reset[i] # None =>
          reset'[i] # None /\ reset'[i].email = reset[i].email
    /\ typed \subseteq typed'

(* The requests that do not move can still rely on what they have read. *)
LEMMA OthersSafe ==
    ASSUME IInv, NEW r \in Requests, Moves(r), Rows,
           (req[r] # None => Local(req[r]))'
    PROVE  (\A q \in Requests : req[q] # None => Local(req[q]))'
<1>1. ASSUME NEW q \in Requests \ {r}, req'[q] # None PROVE Local(req[q])'
  <2>1. req'[q] = req[q] /\ req[q] \in Request /\ Local(req[q])
    BY <1>1 DEF Moves, IInv, TypeOK
  <2>2. /\ req[q].email \in Emails
        /\ req[q].id \in OtpIds /\ otp[req[q].id] # None =>
              otp[req[q].id].email \in Emails /\ acct[otp[req[q].id].email] # None
    BY <2>1 DEF IInv, TypeOK, Request, CodeRow, OtpHasAccount
  <2> QED
    BY <2>1, <2>2 DEF Local, Rows
<1> QED
  BY <1>1

(* A step that inserts no code *)
LEMMA CodesSafe ==
    ASSUME IInv, Rows, UNCHANGED sends,
           \A i \in OtpIds : otp'[i] # None => otp[i] # None
    PROVE  OtpHasAccount' /\ SentUsed'
<1>1. OtpHasAccount'
  BY DEF IInv, OtpHasAccount, Rows, TypeOK, CodeRow
<1>2. SentUsed'
  BY DEF IInv, SentUsed, Rows, TypeOK, sends
<1> QED
  BY <1>1, <1>2

LEMMA ResetsSafe ==
    ASSUME IInv, Rows, \A i \in ResetIds : reset'[i] # None => reset[i] # None
    PROVE  ResetIsLocal'
BY DEF IInv, ResetIsLocal, Rows, TypeOK, CodeRow

(* A step that thanks nobody *)
LEMMA ThanksSafe ==
    ASSUME IInv, Rows, thanked' = thanked
    PROVE  ThankedIsVerified'
BY DEF IInv, ThankedIsVerified, Rows, TypeOK

(* A step that verifies no local account and thanks nobody *)
LEMMA VerifiedSafe ==
    ASSUME IInv, Rows, TypeOK', thanked' = thanked,
           \A e \in Emails :
              acct'[e] # None /\ acct'[e].provider = "LOCAL" /\ acct'[e].verified =>
                  acct[e] # None /\ acct[e].provider = "LOCAL" /\ acct[e].verified
    PROVE  LocalVerifiedByCode' /\ ThankedIsVerified'
<1>1. LocalVerifiedByCode'
  BY DEF IInv, LocalVerifiedByCode, Rows
<1>2. ThankedIsVerified'
  BY ThanksSafe
<1> QED
  BY <1>1, <1>2

(* A step that reads, or writes reset codes only *)
LEMMA StepSafe ==
    ASSUME IInv, NEW r \in Requests, Moves(r), Rows, TypeOK',
           (req[r] # None => Local(req[r]))',
           UNCHANGED <<acct, thanked, sends>>, ResetIsLocal',
           \A i \in OtpIds : otp'[i] # None => otp[i] # None,
           \A i \in ResetIds : grant'[i] # "none" => reset'[i] # None
    PROVE  IInv'
BY OthersSafe, CodesSafe, VerifiedSafe DEF IInv, GrantHasRow

LEMMA MoveSafe ==
    ASSUME IInv, NEW r \in Requests, Moves(r),
           (req[r] # None => Local(req[r]))',
           UNCHANGED <<acct, otp, reset, grant, inbox, history>>
    PROVE  IInv' /\ Rows
<1>1. Rows
  BY DEF Rows, history
<1>2. TypeOK'
  BY DEF IInv, TypeOK, history, sends, Moves
<1>3. ResetIsLocal'
  BY <1>1, ResetsSafe
<1> QED
  BY <1>1, <1>2, <1>3, StepSafe DEF history, IInv, GrantHasRow
-----------------------------------------------------------------------------
(* Ways for a request to go on *)
LEMMA BeginMoves ==
    ASSUME IInv, NEW r \in Requests, NEW p \in Statements, NEW e \in Emails,
           NEW i \in OtpIds \union ResetIds \union {None}, Begin(r, p, e, i)
    PROVE  Moves(r) /\ req[r] = None /\ req'[r] # None /\ req'[r].pc = p
           /\ req'[r].email = e /\ req'[r].id = i
<1> DEFINE c == [pc |-> p, email |-> e, id |-> i]
<1>1. c \in Request /\ c.pc = p /\ c.email = e /\ c.id = i
  BY DEF Request
<1>2. req[r] = None /\ req' = [req EXCEPT ![r] = c] /\ c # None
  BY <1>1 DEF Begin
<1> HIDE DEF c
<1> QED
  BY <1>1, <1>2 DEF Moves, IInv, TypeOK

LEMMA GotoMoves ==
    ASSUME IInv, NEW r \in Requests, req[r] # None, NEW p \in Statements, Goto(r, p)
    PROVE  Moves(r) /\ req'[r] # None /\ req'[r].pc = p
           /\ req'[r].email = req[r].email /\ req'[r].id = req[r].id
<1> DEFINE c == [req[r] EXCEPT !.pc = p]
<1>1. req[r] \in Request
  BY DEF IInv, TypeOK
<1>2. c \in Request /\ c.pc = p /\ c.email = req[r].email /\ c.id = req[r].id
  BY <1>1 DEF Request
<1>3. req' = [req EXCEPT ![r] = c] /\ c # None
  BY <1>2 DEF Goto
<1> HIDE DEF c
<1> QED
  BY <1>2, <1>3 DEF Moves, IInv, TypeOK

LEMMA EndMoves ==
    ASSUME IInv, NEW r \in Requests, End(r)
    PROVE  Moves(r) /\ req'[r] = None
BY DEF Moves, IInv, TypeOK, End

LEMMA EndSafe ==
    ASSUME IInv, NEW r \in Requests, End(r),
           UNCHANGED <<acct, otp, reset, grant, inbox, history>>
    PROVE  IInv' /\ Rows
BY EndMoves, MoveSafe

(* What a request under way carries *)
LEMMA Carried ==
    ASSUME IInv, NEW r \in Requests, req[r] # None
    PROVE  /\ req[r] \in Request /\ req[r].email \in Emails
           /\ Local(req[r])
           /\ \A i \in OtpIds : otp[i] # None =>
                 /\ otp[i] \in CodeRow /\ otp[i].email \in Emails
                 /\ acct[otp[i].email] # None
           /\ \A e \in Emails : acct[e] # None => acct[e] \in Account
BY DEF IInv, TypeOK, Request, CodeRow, OtpHasAccount

LEMMA ArriveSafe ==
    ASSUME IInv, NEW r \in Requests, Arrive(r)
    PROVE  IInv' /\ Rows
<1>1. ASSUME NEW e \in Emails, Signup(r, e) \/ ResendOtp(r, e)
                               \/ ForgotPassword(r, e) \/ GoogleLogin(r, e)
      PROVE  IInv' /\ Rows
  <2>1. PICK p \in {"signupCreate", "otpInvalidate", "resetCreate", "googleCreate",
                    "googleVerify"} :
           /\ Begin(r, p, e, None)
           /\ p = "otpInvalidate" => acct[e] # None
           /\ p = "resetCreate" => acct[e] # None /\ acct[e].provider = "LOCAL"
           /\ p = "googleVerify" => acct[e] # None /\ acct[e].provider = "GOOGLE"
    BY <1>1 DEF Signup, ResendOtp, ForgotPassword, GoogleLogin
  <2>2. UNCHANGED <<acct, otp, reset, grant, inbox, history>>
    BY <1>1 DEF Signup, ResendOtp, ForgotPassword, GoogleLogin
  <2>3. p \in Statements
    BY DEF Statements
  <2>4. /\ Moves(r) /\ req'[r] # None /\ req'[r].pc = p /\ req'[r].email = e
    BY <2>1, <2>3, BeginMoves
  <2>5. Local(req[r])'
    BY <2>1, <2>2, <2>4 DEF Local
  <2> QED
    BY <2>2, <2>4, <2>5, MoveSafe
<1>2. ASSUME NEW e \in Emails, NEW c \in Codes, VerifyEmail(r, e, c)
      PROVE  IInv' /\ Rows
  <2>1. PICK i \in OtpIds : /\ Valid(otp[i]) /\ otp[i].code = c
                            /\ Begin(r, "verifyUser", e, i)
    BY <1>2 DEF VerifyEmail
  <2>2. "verifyUser" \in Statements
    BY DEF Statements
  <2>3. Moves(r) /\ req'[r] # None /\ req'[r].pc = "verifyUser"
        /\ req'[r].email = e /\ req'[r].id = i
    BY <2>1, <2>2, BeginMoves
  <2>4. typed' = typed \union {c}
        /\ UNCHANGED <<acct, otp, reset, grant, inbox, thanked, sends, trades, resets>>
    BY <1>2 DEF VerifyEmail
  <2>5. Rows
    BY <2>4 DEF Rows
  <2>6. Local(req[r])'
    BY <2>1, <2>3, <2>4 DEF Local, Valid
  <2>7. TypeOK'
    BY <2>3, <2>4 DEF IInv, TypeOK, Moves, sends
  <2>8. ResetIsLocal'
    BY <2>4, <2>5, ResetsSafe
  <2> QED
    BY <2>3, <2>4, <2>5, <2>6, <2>7, <2>8, StepSafe DEF IInv, GrantHasRow
<1>3. ASSUME NEW c \in Codes, VerifyResetCode(r, c)
      PROVE  IInv' /\ Rows
  <2>1. PICK i \in ResetIds : Valid(reset[i]) /\ Begin(r, "resetMark", reset[i].email, i)
    BY <1>3 DEF VerifyResetCode
  <2>2. "resetMark" \in Statements /\ reset[i].email \in Emails
    BY <2>1 DEF Statements, Valid, IInv, TypeOK, CodeRow
  <2>3. Moves(r) /\ req'[r] # None /\ req'[r].pc = "resetMark" /\ req'[r].id = i
    BY <2>1, <2>2, BeginMoves
  <2>4. UNCHANGED <<acct, otp, reset, grant, inbox, history>>
    BY <1>3 DEF VerifyResetCode
  <2>5. Local(req[r])'
    BY <2>1, <2>3, <2>4 DEF Local, Valid
  <2> QED
    BY <2>3, <2>4, <2>5, MoveSafe
<1>4. ASSUME NEW e \in Emails, NEW i \in ResetIds \union {None}, ResetPassword(r, e, i)
      PROVE  IInv' /\ Rows
  <2>1. "setPassword" \in Statements
    BY DEF Statements
  <2>2. Moves(r) /\ req'[r] # None /\ req'[r].pc = "setPassword" /\ req'[r].email = e
    BY <1>4, <2>1, BeginMoves DEF ResetPassword
  <2>3. acct[e] # None /\ acct[e].provider = "LOCAL"
    BY <1>4 DEF ResetPassword, IInv, ResetIsLocal, GrantHasRow
  <2>4. UNCHANGED <<acct, otp, reset, grant, inbox, history>>
    BY <1>4 DEF ResetPassword
  <2>5. Local(req[r])'
    BY <2>2, <2>3, <2>4 DEF Local
  <2> QED
    BY <2>2, <2>4, <2>5, MoveSafe
<1> QED
  BY <1>1, <1>2, <1>3, <1>4 DEF Arrive
-----------------------------------------------------------------------------
LEMMA SignupCreateSafe ==
    ASSUME IInv, NEW r \in Requests, SignupCreate(r)
    PROVE  IInv' /\ Rows
<1>0. PICK e \in Emails : e = req[r].email
  BY Carried DEF SignupCreate, At
<1>1. UNCHANGED <<otp, reset, grant, inbox, history>>
  BY DEF SignupCreate
<1>2. CASE acct[e] # None
  <2>1. UNCHANGED acct /\ End(r)
    BY <1>0, <1>2 DEF SignupCreate
  <2> QED
    BY <1>1, <2>1, EndSafe
<1>3. CASE acct[e] = None
  <2> DEFINE row == [provider |-> "LOCAL", verified |-> FALSE]
  <2>1. row \in Account /\ row.provider = "LOCAL" /\ ~row.verified
    BY DEF Account
  <2>2. acct' = [acct EXCEPT ![e] = row] /\ Goto(r, "otpInvalidate")
    BY <1>0, <1>3 DEF SignupCreate, Create
  <2> HIDE DEF row
  <2>3. "otpInvalidate" \in Statements /\ req[r] # None
    BY DEF Statements, SignupCreate, At
  <2>4. Moves(r) /\ req'[r] # None /\ req'[r].pc = "otpInvalidate"
        /\ req'[r].email = e
    BY <1>0, <2>2, <2>3, GotoMoves
  <2>5. Rows
    BY <1>1, <1>3, <2>2 DEF Rows, history, IInv, TypeOK
  <2>6. TypeOK'
    BY <1>1, <2>1, <2>2, <2>4 DEF IInv, TypeOK, Moves, history, sends
  <2>7. Local(req[r])'
    BY <2>1, <2>2, <2>4 DEF Local, IInv, TypeOK
  <2>8. \A x \in Emails : acct'[x] = IF x = e THEN row ELSE acct[x]
    BY <2>2 DEF IInv, TypeOK
  <2> QED
    BY <1>1, <2>1, <2>4, <2>5, <2>6, <2>7, <2>8, OthersSafe, CodesSafe, ResetsSafe,
       VerifiedSafe DEF IInv, GrantHasRow, history
<1> QED
  BY <1>2, <1>3

LEMMA GoogleCreateSafe ==
    ASSUME IInv, NEW r \in Requests, GoogleCreate(r)
    PROVE  IInv' /\ Rows
<1>0. PICK e \in Emails : e = req[r].email
  BY Carried DEF GoogleCreate, At
<1>1. UNCHANGED <<otp, reset, grant, inbox, history>>
  BY DEF GoogleCreate
<1>2. CASE UNCHANGED acct /\ End(r)
  BY <1>1, <1>2, EndSafe
<1>3. ASSUME NEW v \in BOOLEAN, acct[e] = None, Create(e, "GOOGLE", v),
             End(r) \/ Goto(r, "googleVerify")
      PROVE  IInv' /\ Rows
  <2> DEFINE row == [provider |-> "GOOGLE", verified |-> v]
  <2>1. row \in Account /\ row.provider = "GOOGLE"
    BY DEF Account
  <2>2. acct' = [acct EXCEPT ![e] = row]
    BY <1>3 DEF Create
  <2> HIDE DEF row
  <2>3. "googleVerify" \in Statements /\ req[r] # None
    BY DEF Statements, GoogleCreate, At
  <2>4. Moves(r) /\ \/ req'[r] = None
                    \/ req'[r] # None /\ req'[r].pc = "googleVerify"
                       /\ req'[r].email = e
    BY <1>0, <1>3, <2>3, GotoMoves, EndMoves
  <2>5. Rows
    BY <1>1, <1>3, <2>2 DEF Rows, history, IInv, TypeOK
  <2>6. TypeOK'
    BY <1>1, <2>1, <2>2, <2>4 DEF IInv, TypeOK, Moves, history, sends
  <2>7. \A x \in Emails : acct'[x] = IF x = e THEN row ELSE acct[x]
    BY <2>2 DEF IInv, TypeOK
  <2>8. (req[r] # None => Local(req[r]))'
    BY <2>1, <2>4, <2>7 DEF Local
  <2> QED
    BY <1>1, <2>1, <2>4, <2>5, <2>6, <2>7, <2>8, OthersSafe, CodesSafe, ResetsSafe,
       VerifiedSafe DEF IInv, GrantHasRow, history
<1> QED
  BY <1>0, <1>2, <1>3 DEF GoogleCreate

(* Both updates that verify an account find it. *)
LEMMA Verified ==
    ASSUME IInv, NEW e \in Emails, acct[e] # None,
           acct' = [acct EXCEPT ![e].verified = TRUE]
    PROVE  /\ acct' \in [Emails -> Account \union {None}]
           /\ \A x \in Emails \ {e} : acct'[x] = acct[x]
           /\ acct'[e] # None /\ acct'[e].verified
           /\ acct'[e].provider = acct[e].provider
<1> DEFINE row == [acct[e] EXCEPT !.verified = TRUE]
<1>1. acct[e] \in Account
  BY DEF IInv, TypeOK
<1>2. row \in Account
  BY <1>1 DEF Account
<1>3. row.verified /\ row.provider = acct[e].provider
  BY <1>1 DEF Account
<1>4. acct' = [acct EXCEPT ![e] = row] /\ row # None
  BY <1>2 DEF IInv, TypeOK
<1> HIDE DEF row
<1>5. acct'[e] = row /\ \A x \in Emails \ {e} : acct'[x] = acct[x]
  BY <1>4 DEF IInv, TypeOK
<1>6. acct' \in [Emails -> Account \union {None}]
  BY <1>2, <1>4 DEF IInv, TypeOK
<1> QED
  BY <1>3, <1>4, <1>5, <1>6

LEMMA GoogleVerifySafe ==
    ASSUME IInv, NEW r \in Requests, GoogleVerify(r)
    PROVE  IInv' /\ Rows
<1>0. PICK e \in Emails : e = req[r].email
  BY Carried DEF GoogleVerify, At
<1>1. acct[e] # None /\ acct[e].provider = "GOOGLE"
  BY <1>0, Carried DEF GoogleVerify, At, Local
<1>2. UNCHANGED <<otp, reset, grant, inbox, history>> /\ Moves(r) /\ req'[r] = None
  BY EndMoves DEF GoogleVerify
<1>3. /\ acct' \in [Emails -> Account \union {None}]
      /\ \A x \in Emails \ {e} : acct'[x] = acct[x]
      /\ acct'[e] # None /\ acct'[e].verified /\ acct'[e].provider = "GOOGLE"
  BY <1>0, <1>1, Verified DEF GoogleVerify
<1>4. Rows
  BY <1>1, <1>2, <1>3 DEF Rows, history
<1>5. TypeOK'
  BY <1>2, <1>3 DEF IInv, TypeOK, Moves, history, sends
<1> QED
  BY <1>2, <1>3, <1>4, <1>5, OthersSafe, CodesSafe, ResetsSafe, VerifiedSafe
     DEF IInv, GrantHasRow, history

LEMMA VerifyUserSafe ==
    ASSUME IInv, NEW r \in Requests, VerifyUser(r)
    PROVE  IInv' /\ Rows
<1>0. PICK i \in OtpIds : i = req[r].id
  BY Carried DEF VerifyUser, At, Local
<1>1. PICK e \in Emails : e = otp[i].email
  BY <1>0, Carried DEF VerifyUser, At, Local
<1>2. otp[i] # None /\ otp[i].code \in typed /\ acct[e] # None
  BY <1>0, <1>1, Carried DEF VerifyUser, At, Local
<1>3. UNCHANGED <<otp, reset, grant, inbox, history>>
  BY DEF VerifyUser
<1>4. Moves(r) /\ req'[r] # None /\ req'[r].pc = "verifyMark"
      /\ req'[r].email = req[r].email /\ req'[r].id = i
  <2>1. "verifyMark" \in Statements
    BY DEF Statements
  <2> QED
    BY <1>0, <2>1, GotoMoves DEF VerifyUser, At
<1>5. /\ acct' \in [Emails -> Account \union {None}]
      /\ \A x \in Emails \ {e} : acct'[x] = acct[x]
      /\ acct'[e] # None /\ acct'[e].verified
      /\ acct'[e].provider = acct[e].provider
  BY <1>0, <1>1, <1>2, Verified DEF VerifyUser
<1>6. Rows
  BY <1>2, <1>3, <1>5 DEF Rows, history
<1>7. TypeOK'
  BY <1>3, <1>4, <1>5 DEF IInv, TypeOK, Moves, history, sends
<1>8. Local(req[r])'
  BY <1>1, <1>2, <1>3, <1>4, <1>5 DEF Local, history
<1>9. LocalVerifiedByCode'
  BY <1>1, <1>2, <1>3, <1>5 DEF IInv, LocalVerifiedByCode, history
<1>10. ThankedIsVerified'
  BY <1>3, <1>6, ThanksSafe DEF history
<1> QED
  BY <1>3, <1>4, <1>6, <1>7, <1>8, <1>9, <1>10, OthersSafe, CodesSafe, ResetsSafe
     DEF IInv, GrantHasRow, history

(* One more flag of a code row is set. *)
LEMMA RowUsed ==
    ASSUME NEW row \in CodeRow
    PROVE  /\ [row EXCEPT !.used = TRUE] \in CodeRow
           /\ [row EXCEPT !.used = TRUE] # None
           /\ [row EXCEPT !.used = TRUE].used
           /\ [row EXCEPT !.used = TRUE].email = row.email
           /\ [row EXCEPT !.used = TRUE].code = row.code
           /\ [row EXCEPT !.lapsed = TRUE] \in CodeRow
           /\ [row EXCEPT !.lapsed = TRUE] # None
           /\ [row EXCEPT !.lapsed = TRUE].email = row.email
           /\ [row EXCEPT !.lapsed = TRUE].code = row.code
<1>1. [row EXCEPT !.used = TRUE] \in CodeRow /\ [row EXCEPT !.lapsed = TRUE] \in CodeRow
  BY DEF CodeRow
<1> QED
  BY <1>1 DEF CodeRow

LEMMA VerifyMarkSafe ==
    ASSUME IInv, NEW r \in Requests, VerifyMark(r)
    PROVE  IInv' /\ Rows
<1>0. PICK i \in OtpIds : i = req[r].id
  BY Carried DEF VerifyMark, At, Local
<1>1. /\ otp[i] # None /\ otp[i] \in CodeRow
      /\ req[r].email \in Emails
      /\ acct[otp[i].email] # None /\ acct[otp[i].email].verified
  BY <1>0, Carried DEF VerifyMark, At, Local
<1>2. /\ UNCHANGED <<acct, reset, grant, inbox, typed, sends, trades, resets>>
      /\ thanked' = thanked \union {<<req[r].email, otp[i].code>>}
      /\ Moves(r) /\ req'[r] = None
  BY <1>0, EndMoves DEF VerifyMark
<1> DEFINE row == [otp[i] EXCEPT !.used = TRUE]
<1>3. /\ row \in CodeRow /\ row # None /\ row.used
      /\ row.email = otp[i].email /\ row.code = otp[i].code
  BY <1>1, RowUsed
<1>4. otp' = [otp EXCEPT ![i] = row]
  BY <1>0 DEF VerifyMark, IInv, TypeOK
<1> HIDE DEF row
<1>5. Rows
  BY <1>2, <1>3, <1>4 DEF Rows, IInv, TypeOK
<1>6. TypeOK'
  BY <1>1, <1>2, <1>3, <1>4 DEF IInv, TypeOK, Moves, sends, CodeRow
<1>7. \A j \in OtpIds : otp'[j] # None => otp[j] # None
  BY <1>1, <1>4 DEF IInv, TypeOK
<1>8. LocalVerifiedByCode'
  BY <1>2, <1>5 DEF IInv, LocalVerifiedByCode, Rows
<1>9. ThankedIsVerified'
  <2>1. ASSUME NEW e \in Emails, NEW c \in Codes, e = req[r].email, c = otp[i].code
        PROVE  \/ acct[e] # None /\ acct[e].verified
               \/ \E j \in OtpIds : otp[j] # None /\ otp[j].code = c
                                    /\ otp[j].email # e
    BY <1>1, <2>1
  <2>2. \A e \in Emails, c \in Codes : <<e, c>> \in thanked' =>
           \/ acct[e] # None /\ acct[e].verified
           \/ \E j \in OtpIds : otp[j] # None /\ otp[j].code = c
                                /\ otp[j].email # e
    BY <1>2, <2>1 DEF IInv, ThankedIsVerified
  <2> QED
    BY <1>2, <1>5, <2>2 DEF ThankedIsVerified, Rows
<1> QED
  BY <1>2, <1>5, <1>6, <1>7, <1>8, <1>9, OthersSafe, CodesSafe, ResetsSafe
     DEF IInv, GrantHasRow
-----------------------------------------------------------------------------
LEMMA OtpInvalidateSafe ==
    ASSUME IInv, NEW r \in Requests, OtpInvalidate(r)
    PROVE  IInv' /\ Rows
<1>1. /\ UNCHANGED <<acct, reset, grant, inbox, typed, thanked, older, trades, resets>>
      /\ acct[req[r].email] # None
  BY Carried DEF OtpInvalidate, At, Local
<1>2. Moves(r) /\ req'[r] # None /\ req'[r].pc = "otpCreate"
      /\ req'[r].email = req[r].email
  <2>1. "otpCreate" \in Statements
    BY DEF Statements
  <2> QED
    BY <2>1, GotoMoves DEF OtpInvalidate, At
<1> DEFINE found == OtpsOf(req[r].email)
<1>3. found \subseteq OtpIds /\ \A i \in found : otp[i] # None
  BY DEF OtpsOf
<1>4. /\ otp' = [i \in OtpIds |->
                   IF i \in found THEN [otp[i] EXCEPT !.used = TRUE] ELSE otp[i]]
      /\ seen' = [seen EXCEPT ![r] = found]
  BY DEF OtpInvalidate
<1> HIDE DEF found
<1>5. ASSUME NEW i \in OtpIds
      PROVE  /\ otp'[i] \in CodeRow \union {None}
             /\ otp[i] # None => /\ otp'[i] # None /\ otp'[i].email = otp[i].email
                                 /\ otp'[i].code = otp[i].code
                                 /\ otp[i].used => otp'[i].used
             /\ otp'[i] # None => otp[i] # None
             /\ i \in found => otp'[i] # None /\ otp'[i].used
  <2>1. CASE i \in found
    <3>1. otp[i] # None /\ otp[i] \in CodeRow
      BY <1>3, <2>1 DEF IInv, TypeOK
    <3>2. otp'[i] = [otp[i] EXCEPT !.used = TRUE]
      BY <1>4, <2>1
    <3> QED
      BY <3>1, <3>2, RowUsed
  <2>2. CASE i \notin found
    BY <1>4, <2>2 DEF IInv, TypeOK
  <2> QED
    BY <2>1, <2>2
<1>6. otp' \in [OtpIds -> CodeRow \union {None}]
  BY <1>4, <1>5
<1>7. TypeOK'
  BY <1>1, <1>2, <1>3, <1>4, <1>6 DEF IInv, TypeOK, Moves
<1>8. Rows
  BY <1>1, <1>5 DEF Rows
<1>9. Local(req[r])'
  BY <1>1, <1>2 DEF Local
<1>10. OtpHasAccount' /\ ResetIsLocal' /\ GrantHasRow'
  BY <1>1, <1>5, <1>8, ResetsSafe DEF IInv, OtpHasAccount, GrantHasRow
<1>11. SentUsed'
  <2>1. ASSUME NEW q \in Requests, NEW i \in seen'[q]
        PROVE  otp'[i] # None /\ otp'[i].used
    <3>1. i \in found \/ i \in seen[q]
      BY <1>4, <2>1 DEF IInv, TypeOK
    <3>2. i \in OtpIds
      BY <1>3, <3>1 DEF IInv, TypeOK
    <3> QED
      BY <1>5, <3>1, <3>2 DEF IInv, SentUsed
  <2>2. ASSUME NEW p \in older PROVE otp'[p[1]] # None /\ otp'[p[1]].used
    BY <1>5, <2>2 DEF IInv, SentUsed, TypeOK
  <2> QED
    BY <1>1, <2>1, <2>2 DEF SentUsed
<1> QED
  BY <1>1, <1>2, <1>7, <1>8, <1>9, <1>10, <1>11, OthersSafe, VerifiedSafe DEF IInv

LEMMA NewCodeType ==
    ASSUME NEW e \in Emails, NEW c \in Codes
    PROVE  /\ NewCode(e, c) \in CodeRow /\ NewCode(e, c) # None
           /\ NewCode(e, c).email = e /\ NewCode(e, c).code = c
           /\ ~NewCode(e, c).used /\ ~NewCode(e, c).lapsed
<1>1. NewCode(e, c) \in CodeRow
  BY DEF NewCode, CodeRow
<1> QED
  BY <1>1 DEF NewCode

(* req' of the two creates: on to the mail of row i *)
LEMMA MailMoves ==
    ASSUME IInv, NEW r \in Requests, req[r] # None,
           NEW p \in {"otpMail", "resetMail"}, NEW i \in OtpIds \union ResetIds,
           req' = [req EXCEPT ![r].pc = p, ![r].id = i]
    PROVE  Moves(r) /\ req'[r] # None /\ req'[r].pc = p
           /\ req'[r].email = req[r].email /\ req'[r].id = i
<1> DEFINE c == [req[r] EXCEPT !.pc = p, !.id = i]
<1>0. req[r] \in Request /\ p \in Statements
  BY Carried DEF Statements
<1>1. c \in Request /\ c.pc = p /\ c.email = req[r].email /\ c.id = i
  BY <1>0 DEF Request
<1>2. req' = [req EXCEPT ![r] = c] /\ c # None
  BY <1>1 DEF IInv, TypeOK
<1> HIDE DEF c
<1>3. req \in [Requests -> Request \union {None}]
  BY DEF IInv, TypeOK
<1>4. req'[r] = c /\ Moves(r)
  BY <1>1, <1>2, <1>3 DEF Moves
<1> QED
  BY <1>1, <1>2, <1>4

LEMMA OtpCreateSafe ==
    ASSUME IInv, NEW r \in Requests, OtpCreate(r)
    PROVE  IInv' /\ Rows
<1>1. PICK i \in OtpIds, c \in Codes :
         /\ otp[i] = None
         /\ otp' = [otp EXCEPT ![i] = NewCode(req[r].email, c)]
         /\ req' = [req EXCEPT ![r].pc = "otpMail", ![r].id = i]
         /\ older' = older \union (seen[r] \X {i})
  BY DEF OtpCreate
<1>2. PICK e \in Emails : e = req[r].email
  BY Carried DEF OtpCreate, At
<1>3. /\ UNCHANGED <<acct, reset, grant, inbox, typed, thanked, trades, resets>>
      /\ acct[e] # None /\ seen' = [seen EXCEPT ![r] = {}]
  BY <1>2, Carried DEF OtpCreate, At, Local
<1>4. Moves(r) /\ req'[r] # None /\ req'[r].pc = "otpMail"
      /\ req'[r].email = e /\ req'[r].id = i
  BY <1>1, <1>2, MailMoves DEF OtpCreate, At
<1> DEFINE row == NewCode(e, c)
<1>5. row \in CodeRow /\ row # None /\ row.email = e /\ row.code = c
  BY NewCodeType
<1> HIDE DEF row
<1>6. \A j \in OtpIds : otp'[j] = IF j = i THEN row ELSE otp[j]
  BY <1>1, <1>2 DEF IInv, TypeOK, row
<1>7. otp' \in [OtpIds -> CodeRow \union {None}]
  BY <1>1, <1>2, <1>5 DEF IInv, TypeOK, row
<1>8. Rows
  BY <1>1, <1>3, <1>6 DEF Rows
<1>9. seen' \in [Requests -> SUBSET OtpIds] /\ older' \in SUBSET (OtpIds \X OtpIds)
  BY <1>1, <1>3 DEF IInv, TypeOK
<1>10. TypeOK'
  BY <1>3, <1>4, <1>7, <1>9 DEF IInv, TypeOK, Moves
<1>11. Local(req[r])'
  BY <1>4, <1>5, <1>6 DEF Local
<1>12. OtpHasAccount' /\ ResetIsLocal' /\ GrantHasRow'
  BY <1>3, <1>5, <1>6, <1>8, ResetsSafe DEF IInv, OtpHasAccount, GrantHasRow
<1>13. SentUsed'
  <2>1. ASSUME NEW j \in OtpIds, otp[j] # None, otp[j].used
        PROVE  otp'[j] # None /\ otp'[j].used
    BY <1>1, <1>6, <2>1
  <2>2. ASSUME NEW q \in Requests, NEW j \in seen'[q]
        PROVE  j \in OtpIds /\ otp[j] # None /\ otp[j].used
    <3>1. j \in seen[q] /\ j \in OtpIds
      BY <1>3, <1>9, <2>2 DEF IInv, TypeOK
    <3> QED
      BY <3>1 DEF IInv, SentUsed
  <2>3. ASSUME NEW p \in older'
        PROVE  p[1] \in OtpIds /\ otp[p[1]] # None /\ otp[p[1]].used
    <3>1. p[1] \in OtpIds /\ (p \in older \/ p[1] \in seen[r])
      BY <1>1, <1>9, <2>3
    <3> QED
      BY <3>1 DEF IInv, SentUsed
  <2> QED
    BY <2>1, <2>2, <2>3 DEF SentUsed
<1> QED
  BY <1>3, <1>4, <1>8, <1>10, <1>11, <1>12, <1>13, OthersSafe, VerifiedSafe DEF IInv

LEMMA OtpMailSafe ==
    ASSUME IInv, NEW r \in Requests, OtpMail(r)
    PROVE  IInv' /\ Rows
<1>1. PICK i \in OtpIds, e \in Emails : i = req[r].id /\ e = req[r].email
  BY Carried DEF OtpMail, At, Local
<1>2. otp[i] # None /\ otp[i].email = e /\ otp[i] \in CodeRow
  BY <1>1, Carried DEF OtpMail, At, Local
<1>3. UNCHANGED <<acct, otp, reset, grant, history>> /\ Moves(r) /\ req'[r] = None
  BY EndMoves DEF OtpMail
<1>4. inbox' \in SUBSET (Emails \X Codes)
  BY <1>1, <1>2 DEF OtpMail, IInv, TypeOK, CodeRow
<1>5. Rows
  BY <1>3 DEF Rows, history
<1>6. TypeOK'
  BY <1>3, <1>4 DEF IInv, TypeOK, Moves, history, sends
<1>7. ResetIsLocal'
  BY <1>3, <1>5, ResetsSafe
<1> QED
  BY <1>3, <1>5, <1>6, <1>7, StepSafe DEF history, IInv, GrantHasRow
-----------------------------------------------------------------------------
LEMMA ResetCreateSafe ==
    ASSUME IInv, NEW r \in Requests, ResetCreate(r)
    PROVE  IInv' /\ Rows
<1>1. PICK i \in ResetIds, c \in Codes :
         /\ reset[i] = None
         /\ reset' = [reset EXCEPT ![i] = NewCode(req[r].email, c)]
         /\ req' = [req EXCEPT ![r].pc = "resetMail", ![r].id = i]
  BY DEF ResetCreate
<1>2. PICK e \in Emails : e = req[r].email
  BY Carried DEF ResetCreate, At
<1>3. /\ UNCHANGED <<acct, otp, grant, inbox, history>>
      /\ acct[e] # None /\ acct[e].provider = "LOCAL"
  BY <1>2, Carried DEF ResetCreate, At, Local
<1>4. Moves(r) /\ req'[r] # None /\ req'[r].pc = "resetMail" /\ req'[r].id = i
  BY <1>1, MailMoves DEF ResetCreate, At
<1> DEFINE row == NewCode(e, c)
<1>5. row \in CodeRow /\ row # None /\ row.email = e
  BY NewCodeType
<1> HIDE DEF row
<1>6. reset' = [reset EXCEPT ![i] = row]
  BY <1>1, <1>2 DEF row
<1>7. Rows
  BY <1>1, <1>3, <1>6 DEF Rows, history, IInv, TypeOK
<1>8. TypeOK'
  BY <1>3, <1>4, <1>5, <1>6 DEF IInv, TypeOK, Moves, history, sends
<1>9. Local(req[r])'
  BY <1>4, <1>5, <1>6 DEF Local, IInv, TypeOK
<1>10. \A j \in ResetIds : grant'[j] # "none" => reset'[j] # None
  BY <1>3, <1>7 DEF IInv, GrantHasRow, Rows
<1>11. ResetIsLocal'
  <2>1. \A j \in ResetIds : reset'[j] = IF j = i THEN row ELSE reset[j]
    BY <1>6 DEF IInv, TypeOK
  <2> QED
    BY <1>3, <1>5, <2>1 DEF IInv, ResetIsLocal
<1> QED
  BY <1>3, <1>4, <1>7, <1>8, <1>9, <1>10, <1>11, StepSafe DEF history

LEMMA ResetMailSafe ==
    ASSUME IInv, NEW r \in Requests, ResetMail(r)
    PROVE  IInv' /\ Rows
BY EndSafe DEF ResetMail

LEMMA ResetMarkSafe ==
    ASSUME IInv, NEW r \in Requests, ResetMark(r)
    PROVE  IInv' /\ Rows
<1>1. PICK i \in ResetIds : i = req[r].id
  BY Carried DEF ResetMark, At, Local
<1>2. reset[i] # None /\ reset[i] \in CodeRow
  BY <1>1, Carried DEF ResetMark, At, Local, IInv, TypeOK
<1>3. UNCHANGED <<acct, otp, inbox, typed, thanked, sends, resets>> /\ Moves(r)
      /\ req'[r] = None
  BY EndMoves DEF ResetMark
<1> DEFINE row == [reset[i] EXCEPT !.used = TRUE]
<1>4. row \in CodeRow /\ row # None /\ row.email = reset[i].email
  BY <1>2, RowUsed
<1>5. reset' = [reset EXCEPT ![i] = row] /\ grant' = [grant EXCEPT ![i] = "live"]
  BY <1>1 DEF ResetMark, IInv, TypeOK
<1> HIDE DEF row
<1>6. trades' \in [ResetIds -> 0 .. MaxTrades]
  <2>1. trades[i] \in 0 .. MaxTrades /\ trades[i] < MaxTrades
    BY <1>1 DEF ResetMark, IInv, TypeOK
  <2>2. trades[i] + 1 \in 0 .. MaxTrades
    BY <2>1
  <2> QED
    BY <1>1, <2>2 DEF ResetMark, IInv, TypeOK
<1>7. Rows
  BY <1>3, <1>4, <1>5 DEF Rows, IInv, TypeOK
<1>8. TypeOK'
  BY <1>3, <1>4, <1>5, <1>6 DEF IInv, TypeOK, Moves, sends
<1>9. \A j \in ResetIds : grant'[j] # "none" => reset'[j] # None
  BY <1>4, <1>5 DEF IInv, GrantHasRow, TypeOK
<1>10. ResetIsLocal'
  BY <1>2, <1>5, <1>7, ResetsSafe DEF IInv, TypeOK
<1> QED
  BY <1>3, <1>7, <1>8, <1>9, <1>10, StepSafe

LEMMA SetPasswordSafe ==
    ASSUME IInv, NEW r \in Requests, SetPassword(r)
    PROVE  IInv' /\ Rows
<1>1. UNCHANGED <<acct, otp, reset, grant, inbox, typed, thanked, sends, trades>>
      /\ Moves(r) /\ req'[r] = None
  BY EndMoves DEF SetPassword
<1>2. resets' \in [ResetIds -> 0 .. MaxResets]
  <2>1. ASSUME NEW i \in ResetIds, i = req[r].id PROVE resets[i] + 1 \in 0 .. MaxResets
    <3>1. resets[i] \in 0 .. MaxResets /\ resets[i] < MaxResets
      BY <2>1 DEF SetPassword, IInv, TypeOK
    <3> QED
      BY <3>1
  <2> QED
    BY <2>1 DEF SetPassword, IInv, TypeOK
<1>3. Rows
  BY <1>1 DEF Rows
<1>4. TypeOK'
  BY <1>1, <1>2 DEF IInv, TypeOK, Moves, sends
<1>5. ResetIsLocal'
  BY <1>1, <1>3, ResetsSafe
<1> QED
  BY <1>1, <1>3, <1>4, <1>5, StepSafe DEF IInv, GrantHasRow

LEMMA LapseSafe ==
    ASSUME IInv, Lapse
    PROVE  IInv' /\ Rows
<1>1. UNCHANGED <<acct, inbox, req, history>>
  BY DEF Lapse
<1> DEFINE SameCodes ==
             /\ otp' \in [OtpIds -> CodeRow \union {None}]
             /\ \A j \in OtpIds :
                   /\ otp'[j] # None <=> otp[j] # None
                   /\ otp[j] # None =>
                         /\ otp'[j].email = otp[j].email
                         /\ otp'[j].code = otp[j].code
                         /\ otp[j].used => otp'[j].used
           SameResets ==
             /\ reset' \in [ResetIds -> CodeRow \union {None}]
             /\ \A j \in ResetIds :
                   /\ reset'[j] # None <=> reset[j] # None
                   /\ reset[j] # None => reset'[j].email = reset[j].email
<1>2. SameCodes
  <2>1. ASSUME NEW i \in OtpIds, Valid(otp[i]), otp' = [otp EXCEPT ![i].lapsed = TRUE]
        PROVE  SameCodes
    <3>0. otp[i] \in CodeRow /\ otp[i] # None /\ ~otp[i].used
      BY <2>1 DEF IInv, TypeOK, Valid
    <3> DEFINE row == [otp[i] EXCEPT !.lapsed = TRUE]
    <3>1. row \in CodeRow /\ row # None /\ row.email = otp[i].email
          /\ row.code = otp[i].code
      BY <3>0, RowUsed
    <3> HIDE DEF row
    <3>2. otp' = [otp EXCEPT ![i] = row]
      BY <2>1 DEF IInv, TypeOK, row
    <3> QED
      BY <3>0, <3>1, <3>2 DEF IInv, TypeOK
  <2>2. CASE UNCHANGED otp
    BY <2>2 DEF IInv, TypeOK
  <2> QED
    BY <2>1, <2>2 DEF Lapse
<1>3. SameResets
  <2>1. ASSUME NEW i \in ResetIds, Valid(reset[i]),
               reset' = [reset EXCEPT ![i].lapsed = TRUE]
        PROVE  SameResets
    <3> DEFINE row == [reset[i] EXCEPT !.lapsed = TRUE]
    <3>1. row \in CodeRow /\ row # None /\ row.email = reset[i].email
          /\ reset[i] # None
      BY <2>1, RowUsed DEF IInv, TypeOK, Valid
    <3>2. reset' = [reset EXCEPT ![i] = row]
      BY <2>1 DEF IInv, TypeOK
    <3> HIDE DEF row
    <3> QED
      BY <3>1, <3>2 DEF IInv, TypeOK
  <2>2. CASE UNCHANGED reset
    BY <2>2 DEF IInv, TypeOK
  <2> QED
    BY <2>1, <2>2 DEF Lapse
<1>4. /\ grant' \in [ResetIds -> {"none", "live", "lapsed"}]
      /\ \A j \in ResetIds : grant'[j] # "none" => grant[j] # "none"
  BY DEF Lapse, IInv, TypeOK
<1>5. Rows
  BY <1>1, <1>2, <1>3 DEF Rows, history
<1>6. TypeOK'
  BY <1>1, <1>2, <1>3, <1>4 DEF IInv, TypeOK, history, sends
<1>7. GrantHasRow'
  BY <1>3, <1>4 DEF IInv, GrantHasRow
<1>8. OtpHasAccount' /\ SentUsed' /\ ResetIsLocal' /\ LocalVerifiedByCode'
      /\ ThankedIsVerified'
  BY <1>1, <1>2, <1>3, <1>5, <1>6, CodesSafe, ResetsSafe, VerifiedSafe DEF history
<1>9. ASSUME NEW r \in Requests, req'[r] # None PROVE Local(req[r])'
  <2>1. Moves(r)
    BY <1>1, <1>6 DEF Moves, TypeOK
  <2>2. \A q \in Requests : req'[q] = req[q]
    BY <1>1
  <2>3. req[r] # None /\ Local(req[r]) /\ req[r].email \in Emails
        /\ \A i \in OtpIds : otp[i] # None =>
              otp[i].email \in Emails /\ acct[otp[i].email] # None
    BY <1>9, <2>2, Carried
  <2> QED
    BY <1>1, <1>2, <1>3, <2>2, <2>3 DEF Local, history
<1> QED
  BY <1>5, <1>6, <1>7, <1>8, <1>9 DEF IInv
-----------------------------------------------------------------------------
LEMMA NextSafe == IInv /\ Next => IInv' /\ Rows
<1> SUFFICES ASSUME IInv, Next PROVE IInv' /\ Rows
  OBVIOUS
<1>1. ASSUME NEW r \in Requests, Step(r) PROVE IInv' /\ Rows
  BY <1>1, SignupCreateSafe, OtpInvalidateSafe, OtpCreateSafe, OtpMailSafe,
     VerifyUserSafe, VerifyMarkSafe, ResetCreateSafe, ResetMailSafe, ResetMarkSafe,
     SetPasswordSafe, GoogleCreateSafe, GoogleVerifySafe DEF Step
<1>2. ASSUME NEW r \in Requests, Abort(r) PROVE IInv' /\ Rows
  BY <1>2, EndSafe DEF Abort
<1> QED
  BY <1>1, <1>2, ArriveSafe, LapseSafe DEF Next

LEMMA Invariance == Spec => []IInv
<1>1. IInv /\ UNCHANGED vars => IInv'
  BY DEF vars, sends, IInv, TypeOK, Local, OtpHasAccount, SentUsed, ResetIsLocal,
         GrantHasRow, LocalVerifiedByCode, ThankedIsVerified
<1> QED
  BY <1>1, InitIInv, NextSafe, PTL DEF Spec

(* The variables keep their types. *)
THEOREM TypeCorrect == Spec => []TypeOK
<1>1. IInv => TypeOK
  BY DEF IInv
<1> QED
  BY <1>1, Invariance, PTL

(* No way but a code that was drawn for the address, and typed in by       *)
(* somebody, verifies a local account.                                     *)
THEOREM VerifiedByCode == Spec => []LocalVerifiedByCode
<1>1. IInv => LocalVerifiedByCode
  BY DEF IInv
<1> QED
  BY <1>1, Invariance, PTL

(* From the moment a code is there, none that its send found is valid: in  *)
(* particular sends that do not overlap leave one valid code.              *)
THEOREM OlderCodesDie == Spec => []OlderOtpsAreDead
<1>1. IInv => OlderOtpsAreDead
  BY DEF IInv, SentUsed, OlderOtpsAreDead, Valid
<1> QED
  BY <1>1, Invariance, PTL

(* Whoever is told that his address is verified has a verified account,    *)
(* unless the code he typed in was drawn for somebody else.                *)
THEOREM ThanksAreDue == Spec => []ThankedIsVerified
<1>1. IInv => ThankedIsVerified
  BY DEF IInv
<1> QED
  BY <1>1, Invariance, PTL

(* No password is set for a Google account, by a token traded for a code   *)
(* or by that of a session.                                                *)
THEOREM PasswordsAreLocal == Spec => []OnlyLocalPasswords
<1>1. IInv => OnlyLocalPasswords
  BY DEF IInv, Local, OnlyLocalPasswords, At
<1> QED
  BY <1>1, Invariance, PTL

(* An address keeps the method it was registered with and stays verified,  *)
(* whatever signup and Google sign-in overlap.                             *)
THEOREM MethodIsFixed == Spec => MethodNeverChanges
<1>1. Rows => \A e \in Emails :
         acct[e] # None =>
             /\ acct'[e] # None
             /\ acct'[e].provider = acct[e].provider
             /\ acct[e].verified => acct'[e].verified
  BY DEF Rows
<1> QED
  BY <1>1, Invariance, NextSafe, PTL DEF Spec, MethodNeverChanges
=============================================================================
