---------------------------- MODULE SpacesProofs ----------------------------
(***************************************************************************)
(* What Spaces guarantees for any number of spaces, slugs and requests,    *)
(* whichever calls fail and wherever the process dies.                     *)
(*                                                                         *)
(* StoresMatchRows is not inductive: a clean-up or a deletion removes the  *)
(* store its request carries.  Alone says who else has to do with a space  *)
(* that is being created, Carried what a request knows of its own  *)
(* space, and RowsUsed that an id never comes back.                        *)
(***************************************************************************)
EXTENDS Spaces, TLAPS

USE SpacesAssumption DEF Calls

Creating(r) == At(r, "insert") \/ At(r, "cleanup")

Carried ==
    \A r \in Requests :
        req[r] # None =>
            /\ req[r].pc = "createStore" => req[r].id = None
            /\ req[r].pc # "createStore" => req[r].id \in used
            /\ req[r].pc \in {"createStore", "insert"} => req[r].slug \in Slugs
            /\ req[r].pc = "insert" => req[r].id \in stores
            /\ req[r].pc = "dropRow" => req[r].id \notin stores

(* A space in creation is nobody else's business, unless its creation      *)
(* committed and was told that it failed.                                  *)
Sole(r) ==
    /\ row[req[r].id] = None
    /\ \A q \in Requests : req[q] # None /\ req[q].id = req[r].id => q = r
Astray(r) == req[r].pc = "cleanup" /\ req[r].id \in doomed

Alone ==
    \A r \in Requests :
        Creating(r) =>
            /\ Sole(r) \/ Astray(r)
            /\ \A q \in Requests : Creating(q) /\ req[q].id = req[r].id => q = r

RowsUsed == \A i \in Ids : row[i] # None => i \in used

IInv == TypeOK /\ RowsUsed /\ Carried /\ Alone /\ StoresMatchRows

LEMMA InitIInv == Init => IInv
  BY DEF Init, IInv, TypeOK, RowsUsed, Carried, Alone, Creating, At,
         StoresMatchRows, StoresOwned, SpaceHasStore, Working

(* Nobody joins a creation: r ends, or goes on with another space. *)
LEMMA AloneKept ==
    ASSUME IInv, NEW r \in Requests,
           \A q \in Requests \ {r} : req'[q] = req[q],
           \A i \in Ids : row'[i] # None => row[i] # None,
           doomed \subseteq doomed', ~Creating(r)',
           \A q \in Requests \ {r} :
              Creating(q) /\ Sole(q) /\ req'[r] # None => req'[r].id # req[q].id
    PROVE  Alone'
<1> SUFFICES ASSUME NEW q \in Requests, Creating(q)'
             PROVE  /\ Sole(q)' \/ Astray(q)'
                    /\ \A s \in Requests :
                          Creating(s)' /\ req'[s].id = req'[q].id => s = q
  BY DEF Alone
<1>1. q # r /\ req'[q] = req[q] /\ Creating(q)
  BY DEF Creating, At
<1>2. /\ Sole(q) \/ Astray(q)
      /\ \A s \in Requests : Creating(s) /\ req[s].id = req[q].id => s = q
  BY <1>1 DEF IInv, Alone
<1>3. req[q].id \in Ids
  BY <1>1 DEF IInv, Carried, Creating, At, TypeOK
<1>4. \A s \in Requests : Creating(s)' /\ req'[s].id = req'[q].id => s = q
  <2>1. \A s \in Requests : Creating(s)' => s # r /\ Creating(s) /\ req'[s] = req[s]
    BY DEF Creating, At
  <2> QED
    BY <1>1, <1>2, <2>1
<1>5. CASE Sole(q)
  <2>1. Sole(q)'
    BY <1>1, <1>3, <1>5 DEF Sole
  <2> QED
    BY <1>4, <2>1
<1>6. CASE Astray(q)
  BY <1>1, <1>4, <1>6 DEF Astray
<1> QED
  BY <1>2, <1>5, <1>6

(* A request that begins at p on a space whose row exists. *)
LEMMA BeginIInv ==
    ASSUME IInv, NEW r \in Requests, NEW p \in {"dropStore", "readBack"},
           NEW i \in Ids, row[i] # None, Begin(r, p, i, None),
           row' \in [Ids -> Row \union {None}],
           \A j \in Ids : row'[j] = None <=> row[j] = None,
           stopped' \in SUBSET Ids,
           UNCHANGED <<stores, used, doomed, lost>>
    PROVE  IInv'
<1>1. /\ [pc |-> p, id |-> i, slug |-> None] \in Request
      /\ [pc |-> p, id |-> i, slug |-> None] # None
  BY DEF Request, Statements
<1>2. TypeOK'
  BY <1>1 DEF IInv, TypeOK, Begin
<1>3. \A q \in Requests :
         req'[q] = IF q = r THEN [pc |-> p, id |-> i, slug |-> None] ELSE req[q]
  BY DEF IInv, TypeOK, Begin
<1>4. RowsUsed'
  BY DEF IInv, RowsUsed
<1>5. Carried'
  BY <1>1, <1>3 DEF IInv, RowsUsed, Carried
<1>6. Alone'
  <2>1. ~Creating(r)'
    BY <1>1, <1>3 DEF Creating, At
  <2> QED
    BY <1>1, <1>3, <2>1, AloneKept DEF Sole
<1>7. \A j \in Ids : Working(j, {"insert", "cleanup"}) =>
                        Working(j, {"insert", "cleanup"})'
  BY <1>3 DEF Working, Begin
<1>8. StoresMatchRows'
  BY <1>7 DEF IInv, TypeOK, StoresMatchRows, StoresOwned, SpaceHasStore
<1> QED
  BY <1>2, <1>4, <1>5, <1>6, <1>8 DEF IInv
-----------------------------------------------------------------------------
LEMMA CreateSpaceIInv ==
    ASSUME IInv, NEW r \in Requests, NEW slug \in Slugs, CreateSpace(r, slug)
    PROVE  IInv'
<1> DEFINE c == [pc |-> "createStore", id |-> None, slug |-> slug]
<1>1. c \in Request /\ c # None
  BY DEF Request, Statements
<1>2. /\ \A q \in Requests : req'[q] = IF q = r THEN c ELSE req[q]
      /\ req[r] = None
      /\ UNCHANGED <<row, stores, used, doomed, stopped, lost>>
  BY DEF IInv, TypeOK, CreateSpace, Begin, history
<1>3. TypeOK'
  BY <1>1, <1>2 DEF IInv, TypeOK, CreateSpace, Begin
<1>4. RowsUsed'
  BY <1>2 DEF IInv, RowsUsed
<1>5. Carried'
  BY <1>1, <1>2 DEF IInv, Carried
<1>6. Alone'
  <2>1. ~Creating(r)' /\ c.id \notin Ids
    BY <1>1, <1>2 DEF Creating, At
  <2>2. \A q \in Requests : Creating(q) => req[q].id \in Ids
    BY DEF IInv, Carried, Creating, At, TypeOK
  <2> QED
    BY <1>2, <2>1, <2>2, AloneKept
<1>7. StoresMatchRows'
  BY <1>2 DEF IInv, TypeOK, StoresMatchRows, StoresOwned, SpaceHasStore, Working
<1> QED
  BY <1>3, <1>4, <1>5, <1>6, <1>7 DEF IInv

(* A creation draws a fresh id, or ends. *)
LEMMA CreateStoreIInv ==
    ASSUME IInv, NEW r \in Requests, CreateStore(r)
    PROVE  IInv'
<1> USE DEF IInv
<1>1. CASE /\ End(r)
           /\ UNCHANGED <<row, stores, used, doomed, stopped, lost>>
  <2>1. /\ \A q \in Requests : req'[q] = IF q = r THEN None ELSE req[q]
        /\ ~Creating(r)
    BY <1>1 DEF TypeOK, End, CreateStore, Creating, At
  <2>2. TypeOK'
    BY <1>1 DEF TypeOK, End
  <2>3. RowsUsed' /\ Carried'
    BY <1>1, <2>1 DEF RowsUsed, Carried
  <2>4. Alone'
    BY <1>1, <2>1, AloneKept DEF Creating, At
  <2>5. StoresMatchRows'
    BY <1>1, <2>1
       DEF TypeOK, StoresMatchRows, StoresOwned, SpaceHasStore, Working, Creating, At
  <2> QED
    BY <2>2, <2>3, <2>4, <2>5
<1>2. ASSUME NEW i \in Ids \ used,
             stores' = stores \union {i},
             used' = used \union {i},
             req' = [req EXCEPT ![r].pc = "insert", ![r].id = i],
             UNCHANGED <<row, doomed, stopped, lost>>
      PROVE  IInv'
  <2>1. req[r] # None /\ req[r] \in Request /\ req[r].pc = "createStore"
    BY DEF TypeOK, CreateStore, At
  <2>2. /\ \A q \in Requests : q # r => req'[q] = req[q]
        /\ req'[r] \in Request /\ req'[r] # None
        /\ req'[r].pc = "insert" /\ req'[r].id = i /\ req'[r].slug = req[r].slug
    BY <1>2, <2>1 DEF TypeOK, Request, Statements
  <2>3. TypeOK'
    BY <1>2, <2>2 DEF TypeOK
  <2>4. RowsUsed'
    BY <1>2 DEF RowsUsed
  <2>5. Carried'
    BY <1>2, <2>1, <2>2 DEF Carried, TypeOK
  <2>6. \A q \in Requests : q # r /\ req[q] # None => req[q].id # i
    BY DEF Carried
  <2>7. row[i] = None
    BY DEF RowsUsed
  <2>8. Alone'
    <3> SUFFICES ASSUME NEW q \in Requests, Creating(q)'
                 PROVE  /\ Sole(q)' \/ Astray(q)'
                        /\ \A s \in Requests :
                              Creating(s)' /\ req'[s].id = req'[q].id => s = q
      BY DEF Alone
    <3>1. CASE q = r
      <4>1. Sole(q)'
        <5>1. req'[q].id = i /\ row'[i] = None
          BY <1>2, <2>2, <2>7, <3>1
        <5>2. \A s \in Requests \ {r} : req'[s] # None => req'[s].id # i
          BY <2>2, <2>6
        <5> QED
          BY <3>1, <5>1, <5>2 DEF Sole
      <4> QED
        BY <4>1 DEF Sole, Creating, At
    <3>2. CASE q # r
      <4>1. Creating(q) /\ req'[q] = req[q] /\ req[q].id # i
        BY <2>2, <2>6, <3>2 DEF Creating, At
      <4>2. /\ Sole(q) \/ Astray(q)
            /\ \A s \in Requests : Creating(s) /\ req[s].id = req[q].id => s = q
        BY <4>1 DEF Alone
      <4>3. Sole(q) => Sole(q)'
        <5>1. req'[r].id = i /\ \A t \in Requests \ {r} : req'[t] = req[t]
          BY <2>2
        <5> QED
          BY <1>2, <4>1, <5>1 DEF Sole
      <4>4. Astray(q) => Astray(q)'
        <5>1. doomed' = doomed /\ req'[q] = req[q]
          BY <1>2, <4>1
        <5> QED
          BY <5>1 DEF Astray
      <4>5. ASSUME NEW s \in Requests, Creating(s)', req'[s].id = req'[q].id
            PROVE  s = q
        <5>0. req'[q].id # i
          BY <4>1
        <5>1. s # r
          BY <2>2, <4>5, <5>0
        <5>2. Creating(s) /\ req'[s] = req[s]
          BY <2>2, <4>5, <5>1 DEF Creating, At
        <5> QED
          BY <4>1, <4>2, <4>5, <5>2
      <4> QED
        BY <4>2, <4>3, <4>4, <4>5
    <3> QED
      BY <3>1, <3>2
  <2>9. StoresMatchRows'
    BY <1>2, <2>1, <2>2
       DEF TypeOK, StoresMatchRows, StoresOwned, SpaceHasStore, Working
  <2> QED
    BY <2>3, <2>4, <2>5, <2>8, <2>9
<1> QED
  BY <1>1, <1>2 DEF CreateStore, history

(* The row appears, or the creation goes on to its clean-up. *)
LEMMA InsertIInv ==
    ASSUME IInv, NEW r \in Requests, Insert(r)
    PROVE  IInv'
<1> USE DEF IInv
<1> DEFINE i == req[r].id
<1>1. /\ req[r] # None /\ req[r] \in Request /\ req[r].pc = "insert"
      /\ i \in Ids /\ i \in stores /\ req[r].slug \in Slugs
      /\ row[i] = None
      /\ \A q \in Requests : q # r /\ req[q] # None => req[q].id # i
  BY DEF TypeOK, Insert, At, Carried, Alone, Sole, Astray, Creating
<1>2. UNCHANGED <<stores, used, stopped, lost>>
  BY DEF Insert
<1>3. CASE /\ row' = [row EXCEPT ![i] = [slug |-> req[r].slug, logo |-> FALSE]]
           /\ \/ End(r) /\ UNCHANGED doomed
              \/ Goto(r, "cleanup") /\ doomed' = doomed \union {i}
  <2>1. /\ \A q \in Requests : q # r => req'[q] = req[q]
        /\ req'[r] \in Request \union {None}
        /\ req'[r] # None => /\ req'[r].pc = "cleanup" /\ req'[r].id = i
                             /\ i \in doomed'
        /\ doomed \subseteq doomed' /\ doomed' \in SUBSET Ids
        /\ req' \in [Requests -> Request \union {None}]
    BY <1>1, <1>3 DEF TypeOK, End, Goto, Request, Statements
  <2> DEFINE new == [slug |-> req[r].slug, logo |-> FALSE]
  <2>8. new \in Row
    BY <1>1 DEF Row
  <2>9. new # None
    BY <2>8
  <2>2. /\ row' \in [Ids -> Row \union {None}]
        /\ row'[i] # None
        /\ \A j \in Ids : j # i => row'[j] = row[j]
    <3> HIDE DEF new
    <3>1. row' = [row EXCEPT ![i] = new]
      BY <1>3 DEF new
    <3> QED
      BY <1>1, <2>8, <2>9, <3>1 DEF TypeOK
  <2>3. TypeOK'
    BY <1>2, <2>1, <2>2 DEF TypeOK
  <2>4. RowsUsed'
    BY <1>1, <1>2, <2>2 DEF RowsUsed, TypeOK
  <2>5. Carried'
    BY <1>1, <1>2, <2>1 DEF Carried, TypeOK
  <2>6. Alone'
    <3> SUFFICES ASSUME NEW q \in Requests, Creating(q)'
                 PROVE  /\ Sole(q)' \/ Astray(q)'
                        /\ \A s \in Requests :
                              Creating(s)' /\ req'[s].id = req'[q].id => s = q
      BY DEF Alone
    <3>1. \A s \in Requests : Creating(s)' =>
             /\ Creating(s) /\ req'[s].id = req[s].id
             /\ s # r => req'[s] = req[s]
      BY <1>1, <2>1 DEF Creating, At
    <3>2. \A s \in Requests : Creating(s)' /\ req'[s].id = req'[q].id => s = q
      BY <3>1 DEF Alone
    <3>3. CASE q = r
      BY <2>1, <3>2, <3>3 DEF Astray, Creating, At
    <3>4. CASE q # r
      <4>1. req'[q] = req[q] /\ Creating(q) /\ req[q].id # i
        BY <1>1, <3>1, <3>4 DEF Creating, At
      <4>2. Sole(q) \/ Astray(q)
        BY <4>1 DEF Alone
      <4>3. Astray(q) => Astray(q)'
        BY <2>1, <4>1 DEF Astray
      <4>4. req[q].id \in Ids
        BY <4>1 DEF Carried, Creating, At, TypeOK
      <4>5. Sole(q) => Sole(q)'
        BY <1>1, <2>1, <2>2, <4>1, <4>4 DEF Sole
      <4> QED
        BY <3>2, <4>2, <4>3, <4>5
    <3> QED
      BY <3>3, <3>4
  <2>7. StoresMatchRows'
    BY <1>1, <1>2, <2>1, <2>2
       DEF TypeOK, StoresMatchRows, StoresOwned, SpaceHasStore, Working
  <2> QED
    BY <2>3, <2>4, <2>5, <2>6, <2>7
<1>4. CASE Goto(r, "cleanup") /\ UNCHANGED <<row, doomed>>
  <2>1. /\ \A q \in Requests : q # r => req'[q] = req[q]
        /\ req'[r] \in Request /\ req'[r] # None
        /\ req'[r].pc = "cleanup" /\ req'[r].id = i
    BY <1>1, <1>4 DEF TypeOK, Goto, Request, Statements
  <2>2. TypeOK'
    BY <1>2, <1>4, <2>1 DEF TypeOK, Goto
  <2>3. RowsUsed'
    BY <1>2, <1>4 DEF RowsUsed
  <2>4. Carried'
    BY <1>1, <1>2, <2>1 DEF Carried, TypeOK
  <2>5. Alone'
    <3> SUFFICES ASSUME NEW q \in Requests, Creating(q)'
                 PROVE  /\ Sole(q)' \/ Astray(q)'
                        /\ \A s \in Requests :
                              Creating(s)' /\ req'[s].id = req'[q].id => s = q
      BY DEF Alone
    <3>1. \A s \in Requests : /\ Creating(s)' => Creating(s)
                              /\ req[s] # None <=> req'[s] # None
                              /\ req[s] # None => req'[s].id = req[s].id
                              /\ s # r => req'[s] = req[s]
      BY <1>1, <2>1 DEF Creating, At
    <3>2. /\ Creating(q) /\ (Sole(q) \/ Astray(q)) /\ req[q] # None
          /\ \A s \in Requests : Creating(s) /\ req[s].id = req[q].id => s = q
      BY <3>1 DEF Alone, Creating, At
    <3>3. \A s \in Requests : Creating(s)' /\ req'[s].id = req'[q].id => s = q
      BY <3>1, <3>2 DEF Creating, At
    <3>4. Sole(q) => Sole(q)'
      BY <1>4, <3>1, <3>2 DEF Sole
    <3>5. Astray(q) => Astray(q)'
      BY <1>1, <1>4, <3>1 DEF Astray
    <3> QED
      BY <3>2, <3>3, <3>4, <3>5
  <2>6. StoresMatchRows'
    BY <1>1, <1>2, <1>4, <2>1
       DEF TypeOK, StoresMatchRows, StoresOwned, SpaceHasStore, Working
  <2> QED
    BY <2>2, <2>3, <2>4, <2>5, <2>6
<1> QED
  BY <1>3, <1>4 DEF Insert
(* A request that ends and changes neither a row nor a store *)
LEMMA EndIInv ==
    ASSUME IInv, NEW r \in Requests, End(r),
           UNCHANGED <<row, stores, used, doomed>>,
           stopped' \in SUBSET Ids, lost' \in SUBSET Ids, lost \subseteq lost',
           Creating(r) => req[r].id \in lost'
    PROVE  IInv'
<1> USE DEF IInv
<1>1. \A q \in Requests : req'[q] = IF q = r THEN None ELSE req[q]
  BY DEF TypeOK, End
<1>2. TypeOK'
  BY DEF TypeOK, End
<1>3. RowsUsed' /\ Carried'
  BY <1>1 DEF RowsUsed, Carried
<1>4. Alone'
  BY <1>1, AloneKept DEF Creating, At
<1>5. StoresMatchRows'
  <2>1. SpaceHasStore'
    BY DEF StoresMatchRows, SpaceHasStore
  <2>2. \A i \in stores : Working(i, {"insert", "cleanup"}) =>
                            i \in lost' \/ Working(i, {"insert", "cleanup"})'
    BY <1>1 DEF Working, Creating, At
  <2>3. StoresOwned'
    BY <2>2 DEF StoresMatchRows, StoresOwned
  <2> QED
    BY <2>1, <2>3 DEF StoresMatchRows
<1> QED
  BY <1>2, <1>3, <1>4, <1>5

LEMMA CleanupIInv ==
    ASSUME IInv, NEW r \in Requests, Cleanup(r)
    PROVE  IInv'
<1> USE DEF IInv
<1> DEFINE i == req[r].id
<1>1. /\ req[r] # None /\ req[r].pc = "cleanup" /\ i \in Ids
      /\ row[i] = None \/ i \in doomed
      /\ \A q \in Requests : q # r /\ Creating(q) => req[q].id # i
  BY DEF TypeOK, Cleanup, At, Carried, Alone, Sole, Astray, Creating
<1>2. End(r) /\ UNCHANGED <<row, used, doomed, stopped>>
  BY DEF Cleanup
<1>3. CASE stores' = stores \ {i} /\ UNCHANGED lost
  <2>1. \A q \in Requests : req'[q] = IF q = r THEN None ELSE req[q]
    BY <1>2 DEF TypeOK, End
  <2>2. TypeOK'
    BY <1>2, <1>3 DEF TypeOK, End
  <2>3. RowsUsed'
    BY <1>2 DEF RowsUsed
  <2>4. Carried'
    BY <1>1, <1>2, <1>3, <2>1 DEF Carried, Creating, At
  <2>5. Alone'
    BY <1>2, <2>1, AloneKept DEF Creating, At
  <2>6. StoresMatchRows'
    BY <1>1, <1>2, <1>3, <2>1
       DEF TypeOK, StoresMatchRows, StoresOwned, SpaceHasStore, Working
  <2> QED
    BY <2>2, <2>3, <2>4, <2>5, <2>6
<1>4. CASE lost' = lost \union {i} /\ UNCHANGED stores
  <2>1. lost' \in SUBSET Ids /\ stopped' \in SUBSET Ids
    BY <1>1, <1>2, <1>4 DEF TypeOK
  <2> QED
    BY <1>2, <1>4, <2>1, EndIInv
<1> QED
  BY <1>3, <1>4 DEF Cleanup
-----------------------------------------------------------------------------
LEMMA UpdateSpaceIInv ==
    ASSUME IInv, NEW i \in Ids, NEW slug \in Slugs, UpdateSpace(i, slug)
    PROVE  IInv'
<1> USE DEF IInv
<1>1. row[i] \in Row /\ UNCHANGED <<stores, req, used, doomed, stopped, lost>>
  BY DEF TypeOK, UpdateSpace, history
<1> DEFINE new == [row[i] EXCEPT !.slug = slug]
<1>2. new \in Row
  BY <1>1 DEF Row
<1>3. new # None
  BY <1>2
<1>4. row' \in [Ids -> Row \union {None}] /\ \A j \in Ids : row'[j] = None <=> row[j] = None
  <2>1. row' = [row EXCEPT ![i] = new]
    BY DEF UpdateSpace
  <2> HIDE DEF new
  <2> QED
    BY <1>1, <1>2, <1>3, <2>1 DEF TypeOK, UpdateSpace
<1>5. TypeOK'
  BY <1>1, <1>4 DEF TypeOK
<1>6. RowsUsed' /\ Carried'
  BY <1>1, <1>4 DEF RowsUsed, Carried
<1>7. Alone'
  <2>1. \A q \in Requests : Creating(q) => req[q].id \in Ids
    BY DEF Carried, Creating, At, TypeOK
  <2> QED
    BY <1>1, <1>4, <2>1 DEF Alone, Sole, Astray, Creating, At
<1>8. StoresMatchRows'
  BY <1>1, <1>4
     DEF TypeOK, StoresMatchRows, StoresOwned, SpaceHasStore, Working
<1> QED
  BY <1>5, <1>6, <1>7, <1>8

LEMMA UpdateLogoIInv ==
    ASSUME IInv, NEW r \in Requests, NEW i \in Ids, UpdateLogo(r, i)
    PROVE  IInv'
<1> DEFINE new == [row[i] EXCEPT !.logo = TRUE]
<1>1. row[i] # None /\ row[i] \in Row /\ row' = [row EXCEPT ![i] = new]
  BY DEF IInv, TypeOK, UpdateLogo
<1>2. new \in Row
  BY <1>1 DEF Row
<1>3. new # None
  BY <1>2
<1>4. row' \in [Ids -> Row \union {None}] /\ \A j \in Ids : row'[j] = None <=> row[j] = None
  <2> HIDE DEF new
  <2> QED
    BY <1>1, <1>2, <1>3 DEF IInv, TypeOK
<1>5. /\ Begin(r, "readBack", i, None) /\ stopped' \in SUBSET Ids
      /\ UNCHANGED <<stores, used, doomed, lost>>
  BY DEF IInv, TypeOK, UpdateLogo, history
<1> QED
  BY <1>1, <1>4, <1>5, BeginIInv

LEMMA ReadBackIInv ==
    ASSUME IInv, NEW r \in Requests, ReadBack(r)
    PROVE  IInv'
<1>1. ~Creating(r)
  BY DEF ReadBack, Creating, At
<1>2. stopped' \in SUBSET Ids /\ lost' \in SUBSET Ids
  BY DEF ReadBack, IInv, TypeOK, history
<1> QED
  BY <1>1, <1>2, EndIInv DEF ReadBack, history

LEMMA DeleteSpaceIInv ==
    ASSUME IInv, NEW r \in Requests, NEW i \in Ids, DeleteSpace(r, i)
    PROVE  IInv'
<1>1. /\ row' \in [Ids -> Row \union {None}] /\ stopped' \in SUBSET Ids
      /\ \A j \in Ids : row'[j] = None <=> row[j] = None
  BY DEF IInv, TypeOK, DeleteSpace
<1> QED
  BY <1>1, BeginIInv DEF DeleteSpace

LEMMA DropStoreIInv ==
    ASSUME IInv, NEW r \in Requests, DropStore(r)
    PROVE  IInv'
<1> USE DEF IInv
<1> DEFINE i == req[r].id
<1>1. /\ req[r] # None /\ req[r] \in Request /\ req[r].pc = "dropStore"
      /\ i \in Ids /\ i \in used /\ ~Creating(r)
  BY DEF TypeOK, DropStore, At, Carried, Creating
<1>2. UNCHANGED <<row, used, lost>>
  BY DEF DropStore
<1>3. CASE /\ stores' = stores \ {i} /\ doomed' = doomed \union {i}
           /\ Goto(r, "dropRow") /\ UNCHANGED stopped
  <2>1. /\ \A q \in Requests : q # r => req'[q] = req[q]
        /\ req'[r] \in Request /\ req'[r] # None
        /\ req'[r].pc = "dropRow" /\ req'[r].id = i
    BY <1>1, <1>3 DEF TypeOK, Goto, Request, Statements
  <2>2. TypeOK'
    BY <1>1, <1>2, <1>3, <2>1 DEF TypeOK, Goto
  <2>3. RowsUsed'
    BY <1>2 DEF RowsUsed
  <2>4. \A q \in Requests : Creating(q) /\ Sole(q) => req[q].id # i
    BY <1>1 DEF Sole, Creating, At
  <2>5. Carried'
    BY <1>1, <1>2, <1>3, <2>1, <2>4 DEF Carried, Alone, Astray, Creating, At
  <2>6. Alone'
    BY <1>1, <1>2, <1>3, <2>1, <2>4, AloneKept DEF Creating, At
  <2>7. \A j \in Ids : Working(j, {"insert", "cleanup"}) =>
                          Working(j, {"insert", "cleanup"})'
    BY <1>1, <2>1 DEF Working
  <2>8. StoresMatchRows'
    BY <1>2, <1>3, <2>7
       DEF TypeOK, StoresMatchRows, StoresOwned, SpaceHasStore
  <2> QED
    BY <2>2, <2>3, <2>5, <2>6, <2>8
<1>4. CASE /\ End(r) /\ stopped' = stopped \union {i}
           /\ UNCHANGED <<stores, doomed>>
  <2>1. stopped' \in SUBSET Ids /\ lost' \in SUBSET Ids
    BY <1>1, <1>2, <1>4 DEF TypeOK
  <2> QED
    BY <1>1, <1>2, <1>4, <2>1, EndIInv
<1> QED
  BY <1>3, <1>4 DEF DropStore

LEMMA DropRowIInv ==
    ASSUME IInv, NEW r \in Requests, DropRow(r)
    PROVE  IInv'
<1> USE DEF IInv
<1> DEFINE i == req[r].id
<1>1. /\ req[r] # None /\ i \in Ids /\ i \notin stores /\ ~Creating(r)
      /\ End(r) /\ UNCHANGED <<stores, used, doomed, lost>>
  BY DEF TypeOK, DropRow, At, Carried, Creating
<1>2. CASE row' = [row EXCEPT ![i] = None] /\ UNCHANGED stopped
  <2>1. /\ \A q \in Requests : req'[q] = IF q = r THEN None ELSE req[q]
        /\ \A j \in Ids : row'[j] = IF j = i THEN None ELSE row[j]
    BY <1>1, <1>2 DEF TypeOK, End
  <2>2. TypeOK'
    BY <1>1, <1>2 DEF TypeOK, End
  <2>3. RowsUsed' /\ Carried'
    BY <1>1, <2>1 DEF RowsUsed, Carried
  <2>4. Alone'
    BY <1>1, <2>1, AloneKept DEF Creating, At
  <2>5. \A j \in Ids : Working(j, {"insert", "cleanup"}) =>
                          Working(j, {"insert", "cleanup"})'
    BY <1>1, <2>1 DEF Working, Creating, At
  <2>6. StoresMatchRows'
    BY <1>1, <2>1, <2>5
       DEF TypeOK, StoresMatchRows, StoresOwned, SpaceHasStore
  <2> QED
    BY <2>2, <2>3, <2>4, <2>6
<1>3. CASE stopped' = stopped \union {i} /\ UNCHANGED row
  <2>1. stopped' \in SUBSET Ids /\ lost' \in SUBSET Ids
    BY <1>1, <1>3 DEF TypeOK
  <2> QED
    BY <1>1, <1>3, <2>1, EndIInv
<1> QED
  BY <1>2, <1>3 DEF DropRow
-----------------------------------------------------------------------------
(* Whoever was creating a space leaves its store to lost. *)
LEMMA CrashIInv == IInv /\ Crash => IInv'
<1> SUFFICES ASSUME IInv, Crash PROVE IInv'
  OBVIOUS
<1> USE DEF IInv
<1>1. \A q \in Requests : req'[q] = None
  BY DEF Crash
<1>2. /\ UNCHANGED <<row, stores, used, doomed>>
      /\ lost' = lost \union {i \in Ids : Working(i, {"insert", "cleanup"})}
  BY DEF Crash
<1>3. TypeOK'
  BY <1>2 DEF TypeOK, Crash
<1>4. RowsUsed' /\ Carried' /\ Alone'
  BY <1>1, <1>2 DEF RowsUsed, Carried, Alone, Creating, At
<1>5. StoresMatchRows'
  BY <1>2 DEF TypeOK, StoresMatchRows, StoresOwned, SpaceHasStore
<1> QED
  BY <1>3, <1>4, <1>5

LEMMA NextIInv == IInv /\ [Next]_vars => IInv'
<1> SUFFICES ASSUME IInv, [Next]_vars PROVE IInv'
  OBVIOUS
<1>1. CASE UNCHANGED vars
  BY <1>1 DEF vars, IInv, TypeOK, RowsUsed, Carried, Alone, Sole, Astray, Creating, At,
              StoresMatchRows, StoresOwned, SpaceHasStore, Working
<1>2. CASE Crash
  BY <1>2, CrashIInv
<1>3. CASE \E i \in Ids, slug \in Slugs : UpdateSpace(i, slug)
  BY <1>3, UpdateSpaceIInv
<1>4. ASSUME NEW r \in Requests, Arrive(r) PROVE IInv'
  BY <1>4, CreateSpaceIInv, UpdateLogoIInv, DeleteSpaceIInv DEF Arrive
<1>5. ASSUME NEW r \in Requests, Step(r) PROVE IInv'
  BY <1>5, CreateStoreIInv, InsertIInv, CleanupIInv, ReadBackIInv,
     DropStoreIInv, DropRowIInv DEF Step
<1> QED
  BY <1>1, <1>2, <1>3, <1>4, <1>5 DEF Next

LEMMA Invariance == Spec => []IInv
  BY InitIInv, NextIInv, PTL DEF Spec

(* The variables of Spaces keep their types. *)
THEOREM TypeCorrect == Spec => []TypeOK
<1>1. IInv => TypeOK
  BY DEF IInv
<1> QED
  BY <1>1, Invariance, PTL

(* Rows and vector stores match, whatever fails and overlaps: a store      *)
(* without a space is one whose clean-up failed or never came, a space     *)
(* without its store is one that somebody has begun to delete, or whose    *)
(* creation committed and was told that it failed.                         *)
THEOREM StoresMatch == Spec => []StoresMatchRows
<1>1. IInv => StoresMatchRows
  BY DEF IInv
<1> QED
  BY <1>1, Invariance, PTL
=============================================================================
