------------------------ MODULE SpaceContentsProofs ------------------------
(***************************************************************************)
(* Proofs about SpaceContents.  SharesInv and RemindersInv say what each   *)
(* request carries from one statement to the next and how that relates to  *)
(* the tables now.  Each is kept by the component's own steps, by the      *)
(* cascades of a deletion, and by steps that leave its variables alone, as *)
(* long as the files that exist go on to exist; every step of the          *)
(* composition is one of these for each component.                         *)
(***************************************************************************)
EXTENDS SpaceContents, TLAPS

LEMMA NoneIsNoShare ==
    None \notin FileIds \union ShareIds \union Shares!Share \union Shares!Request
  BY ContentsAssumption DEF Shares!SharesAssumption

(***************************************************************************)
(* Shares                                                                  *)
(***************************************************************************)
(* What a request c on shares carries: about to insert, it has a file; if  *)
(* its link was dead when it came, the link is still dead and has not been *)
(* passed on.                                                              *)
ShareLocal(c) ==
    /\ c.pc = "insert" => c.file \in FileIds
    /\ c.late => c.share \in issued /\ Shares!Dead(c.share)
    /\ c.late => c.pc \notin {"sign", "mail"}

SharesInv ==
    /\ Shares!TypeOK
    /\ Shares!SharesAttached
    /\ \A s \in ShareIds : share[s] # None => s \in issued
    /\ \A r \in Requests : sreq[r] # None => ShareLocal(sreq[r])

(* A request goes on to c, or ends, and writes nothing. *)
LEMMA SharesGoOn ==
    ASSUME SharesInv, NEW r \in Requests, NEW c \in Shares!Request \union {None},
           sreq' = [sreq EXCEPT ![r] = c], c # None => ShareLocal(c),
           UNCHANGED <<share, lapsed, issued, record>>
    PROVE  SharesInv'
<1> USE DEF SharesInv
<1>1. \A q \in Requests : sreq'[q] = IF q = r THEN c ELSE sreq[q]
  BY DEF Shares!TypeOK
<1>2. Shares!TypeOK'
  <2>1. sreq' \in [Requests -> Shares!Request \union {None}]
    BY DEF Shares!TypeOK
  <2> QED
    BY <2>1 DEF Shares!TypeOK
<1>3. Shares!SharesAttached'
  BY DEF Shares!SharesAttached, Shares!FileExists
<1>4. (\A q \in Requests : sreq[q] # None => ShareLocal(sreq[q]))'
  BY <1>1 DEF ShareLocal, Shares!Dead
<1> QED
  BY <1>2, <1>3, <1>4

LEMMA SharesArrive ==
    ASSUME SharesInv, NEW r \in Requests, Shares!Arrive(r), UNCHANGED record
    PROVE  SharesInv'
<1> USE DEF Shares!Begin, Shares!Blank, Shares!Request, Shares!Statements, ShareLocal
<1>0. issued \subseteq ShareIds
  BY DEF SharesInv, Shares!TypeOK
<1>1. ASSUME NEW f \in FileIds, NEW expires \in BOOLEAN,
             Shares!CreateShare(r, f, expires)
      PROVE  SharesInv'
  <2> DEFINE c == [Shares!Blank EXCEPT !.pc = "insert", !.file = f, !.expires = expires]
  <2>1. c \in Shares!Request /\ ShareLocal(c)
    OBVIOUS
  <2> QED
    BY <1>1, <2>1, SharesGoOn DEF Shares!CreateShare
<1>2. ASSUME NEW f \in FileIds, NEW s \in issued, Shares!RevokeShare(r, f, s)
      PROVE  SharesInv'
  <2> DEFINE c == [Shares!Blank EXCEPT !.pc = "findRevoked", !.file = f, !.share = s]
  <2>1. c \in Shares!Request /\ ShareLocal(c)
    BY <1>0
  <2> QED
    BY <1>2, <2>1, SharesGoOn DEF Shares!RevokeShare
<1>3. ASSUME NEW f \in FileIds, NEW s \in issued, Shares!MailShare(r, f, s)
      PROVE  SharesInv'
  <2> DEFINE c == [Shares!Blank EXCEPT !.pc = "findMailed", !.file = f,
                                       !.share = s, !.late = Shares!Dead(s)]
  <2>1. c \in Shares!Request /\ ShareLocal(c)
    BY <1>0 DEF Shares!Dead
  <2> QED
    BY <1>3, <2>1, SharesGoOn DEF Shares!MailShare
<1>4. ASSUME NEW s \in issued, Shares!OpenShare(r, s)
      PROVE  SharesInv'
  <2> DEFINE c == [Shares!Blank EXCEPT !.share = s, !.late = Shares!Dead(s)]
  <2>1. c \in Shares!Request /\ ShareLocal(c)
    BY <1>0 DEF Shares!Dead
  <2> QED
    BY <1>4, <2>1, SharesGoOn DEF Shares!OpenShare
<1> QED
  BY <1>1, <1>2, <1>3, <1>4 DEF Shares!Arrive

(* A request that ends without a change of the tables *)
LEMMA SharesEnd ==
    ASSUME SharesInv, NEW r \in Requests, Shares!End(r),
           UNCHANGED <<share, lapsed, issued, record>>
    PROVE  SharesInv'
BY SharesGoOn DEF Shares!End

(* A request that goes on and does not pass a link on unless it is alive *)
LEMMA SharesGoto ==
    ASSUME SharesInv, NEW r \in Requests, sreq[r] # None,
           NEW p \in {"delete", "sign", "mail"}, Shares!Goto(r, p),
           p \in {"sign", "mail"} => ~Shares!Dead(sreq[r].share),
           UNCHANGED <<share, lapsed, issued, record>>
    PROVE  SharesInv'
<1> DEFINE c == [sreq[r] EXCEPT !.pc = p]
<1>1. sreq[r] \in Shares!Request /\ ShareLocal(sreq[r])
  BY DEF SharesInv, Shares!TypeOK
<1>2. c \in Shares!Request
  BY <1>1 DEF Shares!Request, Shares!Statements
<1>3. ShareLocal(c)
  BY <1>1 DEF ShareLocal, Shares!Request
<1>4. sreq' = [sreq EXCEPT ![r] = c]
  BY DEF Shares!Goto
<1> HIDE DEF c
<1> QED
  BY <1>2, <1>3, <1>4, SharesGoOn

LEMMA InsertShareSafe ==
    ASSUME SharesInv, NEW r \in Requests, Shares!InsertShare(r), UNCHANGED record
    PROVE  SharesInv'
<1>1. CASE UNCHANGED <<share, issued>>
  BY <1>1, SharesEnd DEF Shares!InsertShare
<1>2. ASSUME NEW s \in ShareIds \ issued, Shares!FileExists(sreq[r].file),
             share' = [share EXCEPT ![s] = [file |-> sreq[r].file,
                                            expires |-> sreq[r].expires]],
             issued' = issued \union {s}
      PROVE  SharesInv'
  <2> DEFINE new == [file |-> sreq[r].file, expires |-> sreq[r].expires]
  <2>1. sreq[r] # None /\ sreq[r].pc = "insert" /\ Shares!End(r) /\ UNCHANGED lapsed
    BY DEF Shares!InsertShare, Shares!At
  <2>2. sreq[r] \in Shares!Request /\ sreq[r].file \in FileIds
    BY <2>1 DEF SharesInv, Shares!TypeOK, ShareLocal
  <2>3. new \in Shares!Share
    BY <2>2 DEF Shares!Share, Shares!Request
  <2>4. new # None /\ new.file = sreq[r].file
    BY <2>3, NoneIsNoShare
  <2>5. share' = [share EXCEPT ![s] = new]
    BY <1>2
  <2> HIDE DEF new
  <2>6. /\ share' \in [ShareIds -> Shares!Share \union {None}]
        /\ \A x \in ShareIds : share'[x] = IF x = s THEN new ELSE share[x]
    BY <2>3, <2>5 DEF SharesInv, Shares!TypeOK
  <2>7. \A q \in Requests : sreq'[q] = IF q = r THEN None ELSE sreq[q]
    BY <2>1 DEF SharesInv, Shares!TypeOK, Shares!End
  <2>8. Shares!TypeOK'
    BY <1>2, <2>1, <2>6 DEF SharesInv, Shares!TypeOK, Shares!End
  <2>9. Shares!SharesAttached'
    BY <1>2, <2>4, <2>6 DEF SharesInv, Shares!SharesAttached, Shares!FileExists
  <2>10. \A x \in ShareIds : share'[x] # None => x \in issued'
    BY <1>2, <2>6 DEF SharesInv
  <2>11. (\A q \in Requests : sreq[q] # None => ShareLocal(sreq[q]))'
    BY <1>2, <2>1, <2>6, <2>7 DEF SharesInv, Shares!TypeOK, ShareLocal, Shares!Dead
  <2> QED
    BY <2>8, <2>9, <2>10, <2>11 DEF SharesInv
<1> QED
  BY <1>1, <1>2 DEF Shares!InsertShare

(* Shares disappear, and files with them at most where their shares do. *)
LEMMA SharesVanish ==
    ASSUME SharesInv,
           \A s \in ShareIds : share'[s] \in {share[s], None},
           share' \in [ShareIds -> Shares!Share \union {None}],
           \A s \in ShareIds : share'[s] # None /\ Shares!FileExists(share[s].file)
                                => Shares!FileExists(share[s].file)',
           sreq' \in [Requests -> Shares!Request \union {None}],
           \A r \in Requests : sreq'[r] \in {sreq[r], None},
           lapsed \subseteq lapsed', lapsed' \subseteq issued, UNCHANGED issued
    PROVE  SharesInv'
<1>1. Shares!TypeOK'
  BY DEF SharesInv, Shares!TypeOK
<1>2. Shares!SharesAttached'
  BY DEF SharesInv, Shares!SharesAttached, Shares!FileExists
<1>3. \A s \in ShareIds : share'[s] # None => s \in issued'
  BY DEF SharesInv
<1>4. (\A q \in Requests : sreq[q] # None => ShareLocal(sreq[q]))'
  BY DEF SharesInv, Shares!TypeOK, ShareLocal, Shares!Dead
<1> QED
  BY <1>1, <1>2, <1>3, <1>4 DEF SharesInv

LEMMA SharesStep ==
    ASSUME SharesInv, NEW r \in Requests, Shares!Step(r), UNCHANGED record
    PROVE  SharesInv'
<1>1. CASE Shares!FindRevoked(r)
  BY <1>1, SharesGoto, SharesEnd DEF Shares!FindRevoked, Shares!At
<1>2. CASE Shares!DeleteShare(r)
  <2>1. /\ share' \in [ShareIds -> Shares!Share \union {None}]
        /\ \A s \in ShareIds : share'[s] \in {share[s], None}
        /\ sreq' \in [Requests -> Shares!Request \union {None}]
        /\ \A q \in Requests : sreq'[q] \in {sreq[q], None}
        /\ UNCHANGED <<lapsed, issued>> /\ lapsed \subseteq issued
    BY <1>2 DEF SharesInv, Shares!TypeOK, Shares!DeleteShare, Shares!End
  <2>2. \A s \in ShareIds : share'[s] # None /\ Shares!FileExists(share[s].file)
                              => Shares!FileExists(share[s].file)'
    BY <2>1 DEF Shares!FileExists
  <2> QED
    BY <2>1, <2>2, SharesVanish
<1>3. CASE Shares!LookUp(r)
  BY <1>3, SharesGoto, SharesEnd DEF Shares!LookUp, Shares!At
<1>4. CASE Shares!FindMailed(r)
  BY <1>4, SharesGoto, SharesEnd
     DEF Shares!FindMailed, Shares!At, Shares!ShareOfFile, Shares!Dead
<1>5. CASE Shares!HandOut(r)
  BY <1>5, SharesEnd DEF Shares!HandOut
<1> QED
  BY <1>1, <1>2, <1>3, <1>4, <1>5, InsertShareSafe DEF Shares!Step

LEMMA SharesNext ==
    ASSUME SharesInv, Shares!Next, UNCHANGED record
    PROVE  SharesInv'
<1>1. ASSUME NEW s \in ShareIds, Shares!Lapse(s) PROVE SharesInv'
  <2>1. /\ lapsed \subseteq lapsed' /\ lapsed' \subseteq issued
        /\ UNCHANGED <<share, issued, sreq>>
    BY <1>1 DEF SharesInv, Shares!TypeOK, Shares!Lapse
  <2>2. \A x \in ShareIds : Shares!FileExists(share[x].file)
                              => Shares!FileExists(share[x].file)'
    BY <2>1 DEF Shares!FileExists
  <2> QED
    BY <2>1, <2>2, SharesVanish DEF SharesInv, Shares!TypeOK
<1> QED
  BY <1>1, SharesArrive, SharesStep DEF Shares!Next

(* The files change, and those that cease to exist are in F. *)
LEMMA SharesCascade ==
    ASSUME SharesInv, NEW F, Shares!SharesGo(F),
           \A f \in FileIds \ F : Shares!FileExists(f) => Shares!FileExists(f)'
    PROVE  SharesInv'
<1>1. /\ share' \in [ShareIds -> Shares!Share \union {None}]
      /\ \A s \in ShareIds : share'[s] \in {share[s], None}
      /\ \A s \in ShareIds : share'[s] # None => share[s] # None /\ share[s].file \notin F
      /\ UNCHANGED <<lapsed, issued, sreq>>
  BY DEF SharesInv, Shares!TypeOK, Shares!SharesGo
<1>2. \A s \in ShareIds : share[s] # None => share[s].file \in FileIds
  BY DEF SharesInv, Shares!TypeOK, Shares!Share
<1> QED
  BY <1>1, <1>2, SharesVanish DEF SharesInv, Shares!TypeOK

LEMMA SharesUntouched ==
    ASSUME SharesInv, UNCHANGED shareVars,
           \A f \in FileIds : Shares!FileExists(f) => Shares!FileExists(f)'
    PROVE  SharesInv'
<1>1. \A s \in ShareIds : share[s] # None => share[s].file \in FileIds
  BY DEF SharesInv, Shares!TypeOK, Shares!Share
<1> QED
  BY <1>1, SharesVanish DEF SharesInv, Shares!TypeOK, shareVars

(***************************************************************************)
(* Reminders                                                               *)
(***************************************************************************)
LEMMA NoneIsNoReminder ==
    /\ None \notin Rem!Request
    /\ \A F \in SUBSET Rem!Files : F # None
    /\ FileIds \intersect Elsewhere = {}
  BY ContentsAssumption DEF Rem!RemindersAssumption

(* What a request c on reminders carries: a reminder, but for a creation;  *)
(* files of the space, once they have been looked up; and of the links it  *)
(* has read, those that are gone were cut by others.                       *)
ReminderLocal(c) ==
    /\ c.pc # "insert" => c.reminder \in made
    /\ c.pc \in {"insert", "set", "connect"} => c.want \subseteq FileIds
    /\ c.pc \in {"checkAdd", "connect", "reread"} /\ reminder[c.reminder] # None =>
          (c.want \intersect c.linked) \ reminder[c.reminder] \subseteq c.unlinked
    /\ c.pc = "reread" => c.want \subseteq c.linked
    /\ c.pc = "answer" => c.want \ c.linked \subseteq c.unlinked

RemindersInv ==
    /\ Rem!TypeOK
    /\ Rem!LinksInSpace
    /\ \A m \in ReminderIds : reminder[m] # None => m \in made
    /\ \A r \in Requests : rreq[r] # None => ReminderLocal(rreq[r])

(* Request q stays where it is, and learns of the links that it loses. *)
Stays(q) ==
    LET m == rreq[q].reminder IN
    /\ rreq[q] # None /\ rreq'[q] # None
    /\ rreq'[q].pc = rreq[q].pc /\ rreq'[q].reminder = m
    /\ rreq'[q].want = rreq[q].want /\ rreq'[q].linked = rreq[q].linked
    /\ rreq[q].unlinked \subseteq rreq'[q].unlinked
    /\ Rem!Adding(q) /\ reminder'[m] # None =>
          (reminder[m] \ reminder'[m]) \intersect rreq[q].want \subseteq rreq'[q].unlinked

LEMMA RemindersChange ==
    ASSUME RemindersInv,
           reminder' \in [ReminderIds -> (SUBSET Rem!Files) \union {None}],
           Rem!LinksInSpace',
           made \subseteq made', made' \in SUBSET ReminderIds,
           \A m \in ReminderIds : reminder'[m] # None => m \in made',
           \A m \in made : reminder[m] = None => reminder'[m] = None,
           rreq' \in [Requests -> Rem!Request \union {None}],
           \A q \in Requests :
              (rreq[q] # None)' => Stays(q) \/ ReminderLocal(rreq[q])'
    PROVE  RemindersInv'
<1>1. Rem!TypeOK'
  BY DEF Rem!TypeOK
<1>2. ASSUME NEW q \in Requests, Stays(q) PROVE ReminderLocal(rreq[q])'
  <2>1. ReminderLocal(rreq[q])
    BY <1>2 DEF RemindersInv, Stays
  <2>2. rreq[q].pc # "insert" => rreq[q].reminder \in made
    BY <2>1 DEF ReminderLocal
  <2>3. (rreq[q].pc # "insert" => rreq[q].reminder \in made)'
    BY <1>2, <2>2 DEF Stays
  <2>4. (rreq[q].pc \in {"insert", "set", "connect"} => rreq[q].want \subseteq FileIds)'
    BY <1>2, <2>1 DEF Stays, ReminderLocal
  <2>5. (rreq[q].pc \in {"checkAdd", "connect", "reread"}
           /\ reminder[rreq[q].reminder] # None =>
          (rreq[q].want \intersect rreq[q].linked) \ reminder[rreq[q].reminder]
             \subseteq rreq[q].unlinked)'
    <3> SUFFICES ASSUME rreq[q].pc \in {"checkAdd", "connect", "reread"},
                        reminder'[rreq[q].reminder] # None
                 PROVE  (rreq[q].want \intersect rreq[q].linked)
                           \ reminder'[rreq[q].reminder] \subseteq rreq'[q].unlinked
      BY <1>2 DEF Stays
    <3>1. Rem!Adding(q)
      BY <1>2 DEF Stays, Rem!Adding
    <3>2. reminder[rreq[q].reminder] # None
      BY <2>2
    <3>3. (rreq[q].want \intersect rreq[q].linked) \ reminder[rreq[q].reminder]
             \subseteq rreq[q].unlinked
      BY <2>1, <3>2 DEF ReminderLocal
    <3> QED
      BY <1>2, <3>1, <3>3 DEF Stays
  <2>6. (/\ rreq[q].pc = "reread" => rreq[q].want \subseteq rreq[q].linked
         /\ rreq[q].pc = "answer" => rreq[q].want \ rreq[q].linked \subseteq rreq[q].unlinked)'
    BY <1>2, <2>1 DEF Stays, ReminderLocal
  <2> QED
    BY <2>3, <2>4, <2>5, <2>6 DEF ReminderLocal
<1>3. (\A q \in Requests : rreq[q] # None => ReminderLocal(rreq[q]))'
  BY <1>2
<1> QED
  BY <1>1, <1>3 DEF RemindersInv

(* A request goes on to c, or ends, and writes nothing. *)
LEMMA RemindersGoOn ==
    ASSUME RemindersInv, NEW r \in Requests, NEW c \in Rem!Request \union {None},
           rreq' = [rreq EXCEPT ![r] = c], c # None => ReminderLocal(c),
           UNCHANGED <<reminder, made, record>>
    PROVE  RemindersInv'
<1>1. /\ \A q \in Requests : rreq'[q] = IF q = r THEN c ELSE rreq[q]
      /\ rreq' \in [Requests -> Rem!Request \union {None}]
  BY DEF RemindersInv, Rem!TypeOK
<1>2. Rem!LinksInSpace'
  BY DEF RemindersInv, Rem!LinksInSpace, Rem!BelongToSpace, Rem!Exists
<1>3. ASSUME NEW q \in Requests, rreq'[q] # None PROVE ReminderLocal(rreq[q])'
  BY <1>1, <1>3 DEF RemindersInv, ReminderLocal
<1> QED
  BY <1>1, <1>2, <1>3, RemindersChange DEF RemindersInv, Rem!TypeOK

LEMMA RemindersEnd ==
    ASSUME RemindersInv, NEW r \in Requests, Rem!End(r),
           UNCHANGED <<reminder, made, record>>
    PROVE  RemindersInv'
BY RemindersGoOn DEF Rem!End

(* Links are cut, and the requests that add some are told in cut. *)
LEMMA RemindersCut ==
    ASSUME RemindersInv, NEW cut, NEW r, Rem!Cut(cut, r), UNCHANGED made,
           reminder' \in [ReminderIds -> (SUBSET Rem!Files) \union {None}],
           Rem!LinksInSpace',
           \A m \in ReminderIds : reminder[m] = None => reminder'[m] = None,
           \A m \in ReminderIds : reminder'[m] # None =>
                                     reminder[m] \ reminder'[m] \subseteq cut[m]
    PROVE  RemindersInv'
<1>0. made \subseteq ReminderIds
  BY DEF RemindersInv, Rem!TypeOK
<1>1. ASSUME NEW q \in Requests
      PROVE  /\ rreq'[q] \in Rem!Request \union {None}
             /\ rreq'[q] # None => Stays(q)
  <2>1. CASE q = r
    BY <2>1 DEF Rem!Cut
  <2>2. CASE q # r /\ ~Rem!Adding(q)
    BY <2>2 DEF Rem!Cut, RemindersInv, Rem!TypeOK, Stays
  <2>3. CASE q # r /\ Rem!Adding(q)
    <3> DEFINE x == cut[rreq[q].reminder] \intersect rreq[q].want
               c == [rreq[q] EXCEPT !.unlinked = @ \union x]
    <3>1. rreq[q] # None /\ rreq[q] \in Rem!Request /\ rreq'[q] = c
      BY <2>3 DEF Rem!Cut, Rem!Adding, RemindersInv, Rem!TypeOK
    <3>2. c \in Rem!Request
      BY <3>1 DEF Rem!Request
    <3>3. c # None
      BY <3>2, NoneIsNoReminder
    <3>4. rreq[q].reminder \in ReminderIds
      BY <1>0, <2>3, <3>1 DEF RemindersInv, ReminderLocal, Rem!Adding
    <3>5. /\ c.pc = rreq[q].pc /\ c.reminder = rreq[q].reminder
          /\ c.want = rreq[q].want /\ c.linked = rreq[q].linked
          /\ c.unlinked = rreq[q].unlinked \union x
      BY <3>1 DEF Rem!Request
    <3> HIDE DEF c
    <3> QED
      BY <3>1, <3>2, <3>3, <3>4, <3>5 DEF Stays
  <2> QED
    BY <2>1, <2>2, <2>3
<1>2. rreq' \in [Requests -> Rem!Request \union {None}]
  BY <1>1 DEF Rem!Cut
<1> QED
  BY <1>0, <1>1, <1>2, RemindersChange DEF RemindersInv

LEMMA RemindersArrive ==
    ASSUME RemindersInv, NEW r \in Requests, Rem!Arrive(r), UNCHANGED record
    PROVE  RemindersInv'
<1> USE DEF Rem!Begin, Rem!Blank, Rem!Request, Rem!Statements, ReminderLocal
<1>0. /\ \A m \in ReminderIds : reminder[m] # None => m \in made
      /\ \A m \in ReminderIds : reminder[m] # None => reminder[m] \in SUBSET Rem!Files
  BY DEF RemindersInv, Rem!TypeOK
<1>1. ASSUME NEW F \in SUBSET Rem!Files, Rem!CreateReminder(r, F)
      PROVE  RemindersInv'
  <2> DEFINE c == [Rem!Blank EXCEPT !.want = F]
  <2>1. c \in Rem!Request /\ ReminderLocal(c)
    BY <1>1 DEF Rem!CreateReminder, Rem!BelongToSpace
  <2> QED
    BY <1>1, <2>1, RemindersGoOn DEF Rem!CreateReminder
<1>2. ASSUME NEW F \in SUBSET Rem!Files, NEW m \in ReminderIds,
             Rem!UpdateReminder(r, m, F)
      PROVE  RemindersInv'
  <2> DEFINE c == [Rem!Blank EXCEPT !.pc = "checkSet", !.reminder = m, !.want = F]
  <2>1. c \in Rem!Request /\ ReminderLocal(c)
    BY <1>0, <1>2 DEF Rem!UpdateReminder
  <2> QED
    BY <1>2, <2>1, RemindersGoOn DEF Rem!UpdateReminder
<1>3. ASSUME NEW F \in SUBSET Rem!Files, NEW m \in ReminderIds, Rem!AddFiles(r, m, F)
      PROVE  RemindersInv'
  <2> DEFINE c == [Rem!Blank EXCEPT !.pc = "checkAdd", !.reminder = m,
                                    !.want = F, !.linked = reminder[m]]
  <2>1. c \in Rem!Request /\ ReminderLocal(c)
    BY <1>0, <1>3 DEF Rem!AddFiles
  <2> QED
    BY <1>3, <2>1, RemindersGoOn DEF Rem!AddFiles
<1>4. ASSUME NEW m \in ReminderIds, Rem!DeleteReminder(r, m) PROVE RemindersInv'
  <2> DEFINE c == [Rem!Blank EXCEPT !.pc = "delete", !.reminder = m]
  <2>1. c \in Rem!Request /\ ReminderLocal(c)
    BY <1>0, <1>4 DEF Rem!DeleteReminder
  <2> QED
    BY <1>4, <2>1, RemindersGoOn DEF Rem!DeleteReminder
<1>5. ASSUME NEW m \in ReminderIds, NEW f \in Rem!Files, Rem!RemoveFile(r, m, f)
      PROVE  RemindersInv'
  <2> DEFINE c == [Rem!Blank EXCEPT !.pc = "checkFile", !.reminder = m, !.want = {f}]
  <2>1. c \in Rem!Request /\ ReminderLocal(c)
    BY <1>0, <1>5 DEF Rem!RemoveFile
  <2> QED
    BY <1>5, <2>1, RemindersGoOn DEF Rem!RemoveFile
<1> QED
  BY <1>1, <1>2, <1>3, <1>4, <1>5 DEF Rem!Arrive

(* A request passes a check: what it names is in the space where it must be. *)
LEMMA RemindersGoto ==
    ASSUME RemindersInv, NEW r \in Requests, rreq[r] # None,
           rreq[r].pc \in {"checkSet", "checkAdd", "checkFile", "checkLink"},
           NEW p \in {"set", "connect", "reread", "checkLink", "disconnect"},
           Rem!Goto(r, p),
           p \in {"set", "connect"} => Rem!BelongToSpace(rreq[r].want),
           p \in {"connect", "reread"} => rreq[r].pc = "checkAdd",
           p = "reread" => Rem!ToConnect(r) = {},
           UNCHANGED <<reminder, made, record>>
    PROVE  RemindersInv'
<1> DEFINE c == [rreq[r] EXCEPT !.pc = p]
<1>1. rreq[r] \in Rem!Request /\ ReminderLocal(rreq[r])
  BY DEF RemindersInv, Rem!TypeOK
<1>2. c \in Rem!Request
  BY <1>1 DEF Rem!Request, Rem!Statements
<1>3. ReminderLocal(c)
  BY <1>1 DEF ReminderLocal, Rem!Request, Rem!BelongToSpace, Rem!ToConnect
<1>4. rreq' = [rreq EXCEPT ![r] = c]
  BY DEF Rem!Goto
<1> HIDE DEF c
<1> QED
  BY <1>2, <1>3, <1>4, RemindersGoOn

(* Rows are written that no other request uses, or disappear, or get more  *)
(* links; and the request r goes on, or ends.                              *)
LEMMA RemindersWrite ==
    ASSUME RemindersInv, NEW r \in Requests,
           rreq' \in [Requests -> Rem!Request \union {None}],
           \A q \in Requests \ {r} : rreq'[q] = rreq[q],
           (rreq[r] # None => ReminderLocal(rreq[r]))',
           reminder' \in [ReminderIds -> (SUBSET Rem!Files) \union {None}],
           Rem!LinksInSpace',
           made \subseteq made', made' \in SUBSET ReminderIds,
           \A m \in ReminderIds : reminder'[m] # None => m \in made',
           \A m \in made : reminder'[m] # None =>
                              reminder[m] # None /\ reminder[m] \subseteq reminder'[m]
    PROVE  RemindersInv'
<1>2. ASSUME NEW q \in Requests, q # r, rreq[q] # None PROVE Stays(q)
  <2>1. rreq[q] \in Rem!Request /\ ReminderLocal(rreq[q])
    BY <1>2 DEF RemindersInv, Rem!TypeOK
  <2>2. Rem!Adding(q) => rreq[q].reminder \in made
    BY <2>1 DEF Rem!Adding, ReminderLocal
  <2> QED
    BY <1>2, <2>2 DEF Stays
<1>3. ASSUME NEW q \in Requests, rreq'[q] # None
      PROVE  Stays(q) \/ ReminderLocal(rreq[q])'
  <2>1. CASE q = r
    BY <1>3, <2>1
  <2>2. CASE q # r
    BY <1>2, <1>3, <2>2
  <2> QED
    BY <2>1, <2>2
<1> QED
  BY <1>3, RemindersChange

(* As above, with a request that ends *)
LEMMA Ends ==
    ASSUME RemindersInv, NEW r \in Requests, Rem!End(r)
    PROVE  /\ rreq' \in [Requests -> Rem!Request \union {None}]
           /\ \A q \in Requests \ {r} : rreq'[q] = rreq[q]
           /\ rreq'[r] = None
BY DEF RemindersInv, Rem!TypeOK, Rem!End

LEMMA InsertReminderSafe ==
    ASSUME RemindersInv, NEW r \in Requests, Rem!InsertReminder(r), UNCHANGED record
    PROVE  RemindersInv'
<1>1. CASE UNCHANGED <<reminder, made>>
  BY <1>1, RemindersEnd DEF Rem!InsertReminder
<1>2. ASSUME NEW m \in ReminderIds \ made, \A f \in rreq[r].want : Rem!Exists(f),
             reminder' = [reminder EXCEPT ![m] = rreq[r].want],
             made' = made \union {m}
      PROVE  RemindersInv'
  <2>1. rreq[r] # None /\ rreq[r].pc = "insert" /\ Rem!End(r)
    BY DEF Rem!InsertReminder, Rem!At
  <2>2. rreq[r].want \in SUBSET Rem!Files /\ rreq[r].want \subseteq FileIds
    BY <2>1 DEF RemindersInv, Rem!TypeOK, Rem!Request, ReminderLocal
  <2>3. /\ reminder' \in [ReminderIds -> (SUBSET Rem!Files) \union {None}]
        /\ \A x \in ReminderIds :
              reminder'[x] = IF x = m THEN rreq[r].want ELSE reminder[x]
        /\ made \subseteq ReminderIds
    BY <1>2, <2>2 DEF RemindersInv, Rem!TypeOK
  <2>4. Rem!LinksInSpace'
    BY <1>2, <2>2, <2>3
       DEF RemindersInv, Rem!LinksInSpace, Rem!BelongToSpace, Rem!Exists
  <2>5. \A x \in ReminderIds : reminder'[x] # None => x \in made'
    BY <1>2, <2>3 DEF RemindersInv
  <2>6. \A x \in made : reminder'[x] = reminder[x]
    BY <2>3
  <2> QED
    BY <1>2, <2>1, <2>3, <2>4, <2>5, <2>6, Ends, RemindersWrite
<1> QED
  BY <1>1, <1>2 DEF Rem!InsertReminder

LEMMA DeleteRowSafe ==
    ASSUME RemindersInv, NEW r \in Requests, Rem!DeleteRow(r), UNCHANGED record
    PROVE  RemindersInv'
<1>1. /\ reminder' \in [ReminderIds -> (SUBSET Rem!Files) \union {None}]
      /\ \A x \in ReminderIds : reminder'[x] \in {reminder[x], None}
      /\ made \in SUBSET ReminderIds
  BY DEF RemindersInv, Rem!TypeOK, Rem!DeleteRow
<1>2. Rem!LinksInSpace'
  BY <1>1 DEF RemindersInv, Rem!LinksInSpace, Rem!BelongToSpace, Rem!Exists
<1>3. /\ \A x \in ReminderIds : reminder'[x] # None => x \in made
      /\ \A x \in made : reminder'[x] # None =>
                            reminder[x] # None /\ reminder[x] \subseteq reminder'[x]
  BY <1>1 DEF RemindersInv
<1> QED
  BY <1>1, <1>2, <1>3, Ends, RemindersWrite DEF Rem!DeleteRow

(* The links as they are now stand in the answer: what is missing was cut. *)
LEMMA ToAnswerSafe ==
    ASSUME RemindersInv, NEW r \in Requests, rreq[r] # None,
           rreq[r].pc \in {"connect", "reread"},
           LET m == rreq[r].reminder
               F == reminder'[m] IN
           /\ reminder[m] # None /\ F \in SUBSET Rem!Files
           /\ F = reminder[m] \union Rem!ToConnect(r)
           /\ Rem!ToAnswer(r, F),
           reminder' \in [ReminderIds -> (SUBSET Rem!Files) \union {None}],
           \A m \in ReminderIds : reminder'[m] # None =>
                 reminder[m] # None /\ reminder[m] \subseteq reminder'[m],
           Rem!LinksInSpace', UNCHANGED <<made, record>>
    PROVE  RemindersInv'
<1> DEFINE F == reminder'[rreq[r].reminder]
           c == [rreq[r] EXCEPT !.pc = "answer", !.linked = F]
<1>1. rreq[r] \in Rem!Request /\ ReminderLocal(rreq[r])
  BY DEF RemindersInv, Rem!TypeOK
<1>2. c \in Rem!Request
  BY <1>1 DEF Rem!Request, Rem!Statements
<1>3. /\ rreq' = [rreq EXCEPT ![r] = c]
      /\ rreq' \in [Requests -> Rem!Request \union {None}]
  BY <1>2 DEF Rem!ToAnswer, RemindersInv, Rem!TypeOK
<1>4. /\ c.pc = "answer" /\ c.reminder = rreq[r].reminder
      /\ c.want = rreq[r].want /\ c.linked = F /\ c.unlinked = rreq[r].unlinked
  BY <1>1 DEF Rem!Request
<1>5. rreq[r].reminder \in made
  BY <1>1 DEF ReminderLocal
<1>6. rreq[r].want \ F \subseteq rreq[r].unlinked
  BY <1>1 DEF ReminderLocal, Rem!ToConnect
<1>7. made \in SUBSET ReminderIds
      /\ \A m \in ReminderIds : reminder'[m] # None => m \in made
  BY DEF RemindersInv, Rem!TypeOK
<1> HIDE DEF c, F
<1>8. rreq'[r] = c /\ \A q \in Requests \ {r} : rreq'[q] = rreq[q]
  BY <1>3 DEF RemindersInv, Rem!TypeOK
<1>9. ReminderLocal(rreq[r])'
  BY <1>4, <1>5, <1>6, <1>8 DEF ReminderLocal
<1> QED
  BY <1>3, <1>7, <1>8, <1>9, RemindersWrite

LEMMA ConnectSafe ==
    ASSUME RemindersInv, NEW r \in Requests, Rem!Connect(r), UNCHANGED record
    PROVE  RemindersInv'
<1> DEFINE m == rreq[r].reminder
           F == reminder[m] \union Rem!ToConnect(r)
<1>1. CASE Rem!End(r) /\ UNCHANGED reminder
  BY <1>1, RemindersEnd DEF Rem!Connect
<1>2. CASE reminder[m] # None /\ (\A f \in Rem!ToConnect(r) : Rem!Exists(f))
           /\ reminder' = [reminder EXCEPT ![m] = F] /\ Rem!ToAnswer(r, F)
  <2>1. /\ rreq[r] # None /\ rreq[r].pc = "connect" /\ UNCHANGED made
        /\ rreq[r] \in Rem!Request /\ ReminderLocal(rreq[r])
    BY DEF Rem!Connect, Rem!At, RemindersInv, Rem!TypeOK
  <2>2. /\ m \in ReminderIds
        /\ reminder[m] \in SUBSET Rem!Files /\ Rem!BelongToSpace(reminder[m])
    BY <1>2, <2>1 DEF RemindersInv, Rem!TypeOK, Rem!LinksInSpace, ReminderLocal
  <2>3. F \in SUBSET Rem!Files /\ Rem!BelongToSpace(F)
    BY <1>2, <2>1, <2>2
       DEF Rem!Request, ReminderLocal, Rem!ToConnect, Rem!BelongToSpace, Rem!Files
  <2> HIDE DEF m, F
  <2>4. /\ \A x \in ReminderIds : reminder'[x] = IF x = m THEN F ELSE reminder[x]
        /\ reminder' \in [ReminderIds -> (SUBSET Rem!Files) \union {None}]
    BY <1>2, <2>2, <2>3 DEF RemindersInv, Rem!TypeOK
  <2>5. Rem!LinksInSpace'
    BY <2>3, <2>4 DEF RemindersInv, Rem!LinksInSpace, Rem!BelongToSpace, Rem!Exists
  <2>6. \A x \in ReminderIds : reminder'[x] # None =>
           reminder[x] # None /\ reminder[x] \subseteq reminder'[x]
    BY <1>2, <2>4 DEF F
  <2>7. reminder'[m] = F
    BY <2>2, <2>4
  <2> QED
    BY <1>2, <2>1, <2>3, <2>4, <2>5, <2>6, <2>7, ToAnswerSafe DEF m, F
<1> QED
  BY <1>1, <1>2 DEF Rem!Connect

LEMMA RereadSafe ==
    ASSUME RemindersInv, NEW r \in Requests, Rem!Reread(r), UNCHANGED record
    PROVE  RemindersInv'
<1> DEFINE m == rreq[r].reminder
<1>1. rreq[r] # None /\ rreq[r].pc = "reread" /\ UNCHANGED <<reminder, made>>
  BY DEF Rem!Reread, Rem!At
<1>2. CASE reminder[m] = None
  BY <1>1, <1>2, RemindersEnd DEF Rem!Reread
<1>3. CASE reminder[m] # None /\ Rem!ToAnswer(r, reminder[m])
  <2>1. rreq[r] \in Rem!Request /\ ReminderLocal(rreq[r])
    BY <1>1 DEF RemindersInv, Rem!TypeOK
  <2>2. Rem!ToConnect(r) = {}
    BY <1>1, <2>1 DEF ReminderLocal, Rem!ToConnect
  <2>3. reminder[m] \in SUBSET Rem!Files
    BY <1>1, <1>3, <2>1 DEF RemindersInv, Rem!TypeOK, ReminderLocal
  <2>4. Rem!LinksInSpace'
    BY <1>1 DEF RemindersInv, Rem!LinksInSpace, Rem!BelongToSpace, Rem!Exists
  <2>5. /\ reminder[m] = reminder'[m]
        /\ reminder[m] = reminder[m] \union Rem!ToConnect(r)
    BY <1>1, <2>2, <2>3
  <2>6. reminder' \in [ReminderIds -> (SUBSET Rem!Files) \union {None}]
    BY <1>1 DEF RemindersInv, Rem!TypeOK
  <2>7. \A x \in ReminderIds : reminder'[x] # None =>
           reminder[x] # None /\ reminder[x] \subseteq reminder'[x]
    BY <1>1
  <2> QED
    BY <1>1, <1>3, <2>3, <2>4, <2>5, <2>6, <2>7, ToAnswerSafe
<1> QED
  BY <1>2, <1>3 DEF Rem!Reread

(* The links of one reminder are replaced by some of those it may have,    *)
(* and whoever adds links is told which are cut.                           *)
LEMMA Relinked ==
    ASSUME RemindersInv, NEW r \in Requests, NEW m \in ReminderIds,
           NEW F \in SUBSET FileIds, Rem!BelongToSpace(F), NEW X,
           reminder[m] # None, reminder' = [reminder EXCEPT ![m] = F],
           reminder[m] \ F \subseteq X, Rem!CutOne(m, X, r),
           UNCHANGED <<made, record>>
    PROVE  RemindersInv'
<1> DEFINE cut == [x \in ReminderIds |-> IF x = m THEN X ELSE {}]
<1>1. /\ \A x \in ReminderIds : reminder'[x] = IF x = m THEN F ELSE reminder[x]
      /\ reminder' \in [ReminderIds -> (SUBSET Rem!Files) \union {None}]
  BY DEF RemindersInv, Rem!TypeOK, Rem!Files
<1>2. Rem!LinksInSpace'
  BY <1>1 DEF RemindersInv, Rem!LinksInSpace, Rem!BelongToSpace, Rem!Exists
<1>3. \A x \in ReminderIds : reminder'[x] # None =>
         reminder[x] \ reminder'[x] \subseteq cut[x]
  BY <1>1
<1>4. Rem!Cut(cut, r)
  BY DEF Rem!CutOne
<1>5. \A x \in ReminderIds : reminder[x] = None => reminder'[x] = None
  BY <1>1
<1> HIDE DEF cut
<1> QED
  BY <1>1, <1>2, <1>3, <1>4, <1>5, RemindersCut

LEMMA SetLinksSafe ==
    ASSUME RemindersInv, NEW r \in Requests, Rem!SetLinks(r), UNCHANGED record
    PROVE  RemindersInv'
<1> DEFINE m == rreq[r].reminder
           F == {f \in rreq[r].want : Rem!Exists(f)}
<1>1. CASE UNCHANGED reminder /\ Rem!End(r)
  BY <1>1, RemindersEnd DEF Rem!SetLinks
<1>2. CASE /\ reminder[m] # None /\ reminder' = [reminder EXCEPT ![m] = F]
           /\ Rem!CutOne(m, reminder[m] \ F, r)
  <2>1. rreq[r] # None /\ rreq[r].pc = "set" /\ UNCHANGED made
    BY DEF Rem!SetLinks, Rem!At
  <2>2. m \in ReminderIds /\ F \in SUBSET FileIds /\ Rem!BelongToSpace(F)
    BY <2>1 DEF RemindersInv, Rem!TypeOK, ReminderLocal, Rem!BelongToSpace
  <2> HIDE DEF m, F
  <2> QED
    BY <1>2, <2>1, <2>2, Relinked
<1> QED
  BY <1>1, <1>2 DEF Rem!SetLinks

LEMMA DisconnectSafe ==
    ASSUME RemindersInv, NEW r \in Requests, Rem!Disconnect(r), UNCHANGED record
    PROVE  RemindersInv'
<1> DEFINE m == rreq[r].reminder
           F == reminder[m] \ rreq[r].want
<1>1. CASE UNCHANGED reminder /\ Rem!End(r)
  BY <1>1, RemindersEnd DEF Rem!Disconnect
<1>2. CASE /\ reminder[m] # None /\ reminder' = [reminder EXCEPT ![m] = F]
           /\ Rem!CutOne(m, rreq[r].want, r)
  <2>1. rreq[r] # None /\ rreq[r].pc = "disconnect" /\ UNCHANGED made
    BY DEF Rem!Disconnect, Rem!At
  <2>2. m \in ReminderIds
    BY <2>1 DEF RemindersInv, Rem!TypeOK, ReminderLocal
  <2>3. Rem!BelongToSpace(reminder[m])
    BY <1>2, <2>2 DEF RemindersInv, Rem!LinksInSpace
  <2>4. F \in SUBSET FileIds /\ Rem!BelongToSpace(F) /\ reminder[m] \ F \subseteq rreq[r].want
    BY <2>3 DEF Rem!BelongToSpace
  <2> HIDE DEF m, F
  <2> QED
    BY <1>2, <2>1, <2>2, <2>4, Relinked
<1> QED
  BY <1>1, <1>2 DEF Rem!Disconnect

LEMMA RemindersNext ==
    ASSUME RemindersInv, Rem!Next, UNCHANGED record
    PROVE  RemindersInv'
<1>1. ASSUME NEW r \in Requests, Rem!Step(r) PROVE RemindersInv'
  <2>1. CASE Rem!CheckSet(r)
    BY <2>1, RemindersGoto, RemindersEnd DEF Rem!CheckSet, Rem!At
  <2>2. CASE Rem!CheckAdd(r)
    BY <2>2, RemindersGoto, RemindersEnd DEF Rem!CheckAdd, Rem!At
  <2>3. CASE Rem!CheckFile(r)
    BY <2>3, RemindersGoto, RemindersEnd DEF Rem!CheckFile, Rem!At
  <2>4. CASE Rem!CheckLink(r)
    BY <2>4, RemindersGoto, RemindersEnd DEF Rem!CheckLink, Rem!At
  <2>5. CASE Rem!Answer(r)
    BY <2>5, RemindersEnd DEF Rem!Answer
  <2> QED
    BY <1>1, <2>1, <2>2, <2>3, <2>4, <2>5, InsertReminderSafe, SetLinksSafe,
       DeleteRowSafe, ConnectSafe, RereadSafe, DisconnectSafe DEF Rem!Step
<1> QED
  BY <1>1, RemindersArrive DEF Rem!Next

(* The file f goes, and its links with it. *)
LEMMA LinksCascade ==
    ASSUME RemindersInv, NEW f \in FileIds, Rem!LinksGo({f}),
           \A x \in FileIds \ {f} : record'[x] = record[x]
    PROVE  RemindersInv'
<1> DEFINE cut == [m \in ReminderIds |-> {f}]
<1>1. /\ reminder' \in [ReminderIds -> (SUBSET Rem!Files) \union {None}]
      /\ \A m \in ReminderIds :
            reminder'[m] = IF reminder[m] = None THEN None ELSE reminder[m] \ {f}
  BY DEF RemindersInv, Rem!TypeOK, Rem!LinksGo
<1>2. Rem!LinksInSpace'
  BY <1>1 DEF RemindersInv, Rem!LinksInSpace, Rem!BelongToSpace, Rem!Exists
<1>3. Rem!Cut(cut, None) /\ UNCHANGED made
  BY DEF Rem!LinksGo
<1>4. \A m \in ReminderIds :
         /\ reminder[m] = None => reminder'[m] = None
         /\ reminder'[m] # None => reminder[m] \ reminder'[m] \subseteq cut[m]
  BY <1>1
<1> HIDE DEF cut
<1> QED
  BY <1>1, <1>2, <1>3, <1>4, RemindersCut

(* The space goes, and its reminders with it. *)
LEMMA RemindersCascade ==
    ASSUME RemindersInv, Rem!RemindersGo
    PROVE  RemindersInv'
<1>1. /\ reminder' \in [ReminderIds -> (SUBSET Rem!Files) \union {None}]
      /\ \A m \in ReminderIds : reminder'[m] = None
      /\ UNCHANGED <<made, rreq>>
  BY DEF Rem!RemindersGo
<1>2. Rem!LinksInSpace'
  BY <1>1 DEF Rem!LinksInSpace
<1>3. ASSUME NEW q \in Requests, rreq[q] # None PROVE ReminderLocal(rreq[q])'
  <2>1. ReminderLocal(rreq[q])
    BY <1>3 DEF RemindersInv
  <2>2. rreq[q].reminder \in made => reminder'[rreq[q].reminder] = None
    BY <1>1 DEF RemindersInv, Rem!TypeOK
  <2> QED
    BY <1>1, <2>1, <2>2 DEF ReminderLocal
<1> QED
  BY <1>1, <1>2, <1>3, RemindersChange DEF RemindersInv, Rem!TypeOK

LEMMA RemindersUntouched ==
    ASSUME RemindersInv, UNCHANGED reminderVars,
           \A f \in FileIds : Rem!Exists(f) => Rem!Exists(f)'
    PROVE  RemindersInv'
<1>1. Rem!LinksInSpace'
  BY DEF RemindersInv, Rem!LinksInSpace, Rem!BelongToSpace, reminderVars
<1>2. \A q \in Requests : rreq[q] # None => ReminderLocal(rreq[q])'
  BY DEF RemindersInv, ReminderLocal, reminderVars
<1> QED
  BY <1>1, <1>2, RemindersChange DEF RemindersInv, Rem!TypeOK, reminderVars
(***************************************************************************)
(* The composition                                                         *)
(***************************************************************************)
IInv == record \in [FileIds -> Life] /\ SharesInv /\ RemindersInv

LEMMA InitInv == ContentsInit => IInv
<1> SUFFICES ASSUME ContentsInit PROVE IInv
  OBVIOUS
<1>1. record \in [FileIds -> Life]
  BY DEF ContentsInit, Init, Life
<1>2. SharesInv
  BY DEF ContentsInit, Shares!Init, SharesInv, Shares!TypeOK, Shares!SharesAttached
<1>3. RemindersInv
  BY DEF ContentsInit, Rem!Init, RemindersInv, Rem!TypeOK, Rem!LinksInSpace
<1> QED
  BY <1>1, <1>2, <1>3 DEF IInv

(* Every file that a step of the files does not delete goes on to exist. *)
LEMMA FileStepSafe ==
    ASSUME IInv, NEW f \in FileIds, FileStep(f)
    PROVE  IInv'
<1>1. /\ record' \in [FileIds -> Life]
      /\ \A x \in FileIds : record[x] \notin {"new", "deleted"} =>
                               record'[x] \notin {"new", "deleted"}
  BY DEF IInv, FileStep, Create, Store, Condemn, Purge, Settle, Outcome, Live, Life
<1>2. SharesInv'
  BY <1>1, SharesUntouched DEF IInv, FileStep, Shares!FileExists
<1>3. RemindersInv'
  BY <1>1, RemindersUntouched DEF IInv, FileStep, Rem!Exists
<1> QED
  BY <1>1, <1>2, <1>3 DEF IInv

LEMMA DeleteFileSafe ==
    ASSUME IInv, NEW f \in FileIds, DeleteFile(f)
    PROVE  IInv'
<1>1. /\ record' \in [FileIds -> Life]
      /\ \A x \in FileIds \ {f} : record'[x] = record[x]
  BY DEF IInv, DeleteFile, Delete, Live, Life
<1>2. SharesInv'
  BY <1>1, SharesCascade DEF IInv, DeleteFile, Shares!FileExists
<1>3. RemindersInv'
  BY <1>1, LinksCascade DEF IInv, DeleteFile
<1> QED
  BY <1>1, <1>2, <1>3 DEF IInv

LEMMA StepInv == IInv /\ [ContentsNext]_vars => IInv'
<1> SUFFICES ASSUME IInv, [ContentsNext]_vars PROVE IInv'
  OBVIOUS
<1>1. CASE CloseSpace
  <2>1. record' \in [FileIds -> Life]
    BY <1>1 DEF IInv, CloseSpace, Close, Life
  <2>2. SharesInv'
    BY <1>1, SharesCascade DEF IInv, CloseSpace
  <2> QED
    BY <1>1, <2>1, <2>2, RemindersCascade DEF IInv, CloseSpace
<1>2. CASE ShareStep
  <2>1. SharesInv' /\ UNCHANGED <<record, reminderVars>>
    BY <1>2, SharesNext DEF IInv, ShareStep, storeVars
  <2> QED
    BY <2>1, RemindersUntouched DEF IInv, Rem!Exists
<1>3. CASE ReminderStep
  <2>1. RemindersInv' /\ UNCHANGED <<record, shareVars>>
    BY <1>3, RemindersNext DEF IInv, ReminderStep, storeVars
  <2> QED
    BY <2>1, SharesUntouched DEF IInv, Shares!FileExists
<1>4. CASE UNCHANGED vars
  <2>1. UNCHANGED <<record, shareVars, reminderVars>>
    BY <1>4 DEF vars, storeVars
  <2> QED
    BY <2>1, SharesUntouched, RemindersUntouched DEF IInv, Shares!FileExists, Rem!Exists
<1> QED
  BY <1>1, <1>2, <1>3, <1>4, FileStepSafe, DeleteFileSafe DEF ContentsNext

LEMMA Invariance == ContentsSpec => []IInv
  BY InitInv, StepInv, PTL DEF ContentsSpec

(* The variables of the shares and of the reminders keep their types. *)
THEOREM TypeCorrect == ContentsSpec => []TypeOK
<1>1. IInv => TypeOK
  BY DEF IInv, SharesInv, RemindersInv, TypeOK
<1> QED
  BY <1>1, Invariance, PTL

(* No share and no reminder refers to a file that is gone or that belongs  *)
(* to another space, whatever happens between the lookup of a file and the *)
(* statement that refers to it.                                            *)
THEOREM NothingDangles == ContentsSpec => []NoDanglingReference
<1>1. IInv => NoDanglingReference
  BY DEF IInv, SharesInv, RemindersInv, NoDanglingReference
<1> QED
  BY <1>1, Invariance, PTL

(* A link that was dead when the request came yields neither a URL nor a   *)
(* mail: a dead link stays dead, and each request looks at it once more.   *)
THEOREM DeadLinksStayShut == ContentsSpec => []DeadLinkOpensNothing
<1>1. IInv => DeadLinkOpensNothing
  BY DEF IInv, SharesInv, ShareLocal, DeadLinkOpensNothing,
         Shares!DeadLinkOpensNothing, Shares!At
<1> QED
  BY <1>1, Invariance, PTL

(* A file that is added to a reminder is in the answer unless another      *)
(* request has taken it out since the addition began.                      *)
THEOREM AdditionsTakeEffect == ContentsSpec => []AddTakesEffect
<1>1. IInv => AddTakesEffect
  BY DEF IInv, RemindersInv, ReminderLocal, AddTakesEffect, Rem!AddTakesEffect,
         Rem!At
<1> QED
  BY <1>1, Invariance, PTL
=============================================================================
