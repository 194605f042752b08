------------------------- MODULE ConversationsProofs -------------------------
(***************************************************************************)
(* Proofs about Conversations: its types and the three invariants of the   *)
(* transcript, for any number of conversations, questions and files and    *)
(* whatever fails.                                                         *)
(*                                                                         *)
(* A message names its question, and Placed says how far the handlers of   *)
(* that question must have come when it is in the table; Sound says what   *)
(* the state of a question may be.  A step moves one question forward.     *)
(***************************************************************************)
EXTENDS Conversations, TLAPS

USE ConversationsAssumption

(* Before the question is stored, and from the reply on *)
Early == {"access", "ask"}
Late == {"sendFallback", "hydrate", "over"}

(* The message at place i of conversation c belongs there. *)
Placed(c, i) ==
    LET m == message[c][i] IN
    /\ stream[m.of] # None /\ stream[m.of].conv = c
    /\ stream[m.of].pc \notin Early
    /\ m.role = "ASSISTANT" =>
          /\ stream[m.of].pc \in Late
          /\ stream[m.of].client # "failed"

(* The state of question q, which has been asked *)
Sound(q) ==
    LET s == stream[q] IN
    /\ conv[s.conv] # "new"
    /\ s.pc = "listen" <=> s.response = "running"
    /\ s.client = "failed" =>
          s.pc = "over" \/ (s.pc = "final" /\ s.response = "broken")
    /\ s.client = "open" /\ s.pc # "over" => s.heard = s.text
    /\ s.pc \in {"sendFallback", "hydrate"} /\ conv[s.conv] = "open" =>
          Stored(s.conv, Reply(q))
    /\ s.final # None => s.pc = "over" /\ s.client = "done"

(* FinalIsPersisted, of one question *)
FinalOK(q) ==
    stream[q].final # None =>
        /\ stream[q].final.text = stream[q].heard
        /\ conv[stream[q].conv] = "open" =>
             \E F \in SUBSET FileIds :
                 /\ stream[q].final.files \subseteq F
                 /\ Stored(stream[q].conv, [stream[q].final EXCEPT !.files = F])

IInv ==
    /\ TypeOK
    /\ \A c \in ConvIds : \A i \in 1 .. Len(message[c]) : Placed(c, i)
    /\ \A q \in Questions : stream[q] # None => Sound(q) /\ FinalOK(q)
    /\ TranscriptInOrder

LEMMA InitIInv == Init => IInv
BY DEF Init, IInv, TypeOK, TranscriptInOrder
-----------------------------------------------------------------------------
(* No question but q moves. *)
Moves(q) ==
    /\ stream' \in [Questions -> Stream \union {None}]
    /\ \A p \in Questions \ {q} : stream'[p] = stream[p]

(* q goes on, never back. *)
Forward(q) ==
    /\ stream[q] # None /\ stream'[q] # None
    /\ stream'[q].conv = stream[q].conv
    /\ stream[q].pc \notin Early => stream'[q].pc \notin Early
    /\ stream[q].pc \in Late =>
          /\ stream'[q].pc \in Late
          /\ stream'[q].client = "failed" => stream[q].client = "failed"

(* What the tables keep: a conversation and, as long as it is open, its    *)
(* messages                                                                *)
Keeps ==
    \A c \in ConvIds :
        /\ conv[c] # "new" => conv'[c] # "new"
        /\ conv'[c] = "open" /\ conv[c] # "new" =>
              conv[c] = "open" /\ \A m \in Message : Stored(c, m) => Stored(c, m)'

LEMMA StreamType ==
    ASSUME IInv, NEW q \in Questions, stream[q] # None
    PROVE  /\ stream[q] \in Stream
           /\ stream[q].conv \in ConvIds
           /\ stream[q].client \in {"open", "done", "failed", "unread", "lost"}
           /\ stream[q].text \in 0 .. MaxTokens /\ stream[q].heard \in 0 .. MaxTokens
           /\ stream[q].cited \subseteq FileIds
           /\ stream[q].pc \in Statements
           /\ stream[q].final \in Message \union {None}
           /\ Reply(q) \in Message /\ Question(q) \in Message
           /\ Sound(q) /\ FinalOK(q)
<1>1. stream[q] \in Stream /\ Sound(q) /\ FinalOK(q)
  BY DEF IInv, TypeOK
<1>2. 0 \in 0 .. MaxTokens
  OBVIOUS
<1>3. Reply(q) \in Message /\ Question(q) \in Message
  BY <1>1, <1>2 DEF Stream, Reply, Question, Message, Role
<1> QED
  BY <1>1, <1>3 DEF Stream

(* A question that does not move *)
LEMMA OthersSafe ==
    ASSUME IInv, Keeps, NEW p \in Questions, stream[p] # None, stream'[p] = stream[p]
    PROVE  Sound(p)' /\ FinalOK(p)'
<1>1. /\ Reply(p)' = Reply(p) /\ Reply(p) \in Message
      /\ stream[p].conv \in ConvIds /\ Sound(p) /\ FinalOK(p)
      /\ stream[p].final \in Message \union {None}
  BY StreamType DEF Reply
<1>2. Sound(p)'
  BY <1>1 DEF Sound, Keeps
<1>3. FinalOK(p)'
  <2>1. CASE stream[p].final # None /\ conv'[stream[p].conv] = "open"
    <3>1. conv[stream[p].conv] = "open" /\ stream[p].final \in Message
      BY <1>1, <2>1 DEF Keeps, Sound
    <3>2. PICK F \in SUBSET FileIds :
             /\ stream[p].final.files \subseteq F
             /\ Stored(stream[p].conv, [stream[p].final EXCEPT !.files = F])
      BY <1>1, <2>1, <3>1 DEF FinalOK
    <3>3. [stream[p].final EXCEPT !.files = F] \in Message
      BY <3>1 DEF Message
    <3>4. Stored(stream[p].conv, [stream[p].final EXCEPT !.files = F])'
      <4> DEFINE m == [stream[p].final EXCEPT !.files = F]
      <4>1. \A x \in Message : Stored(stream[p].conv, x) =>
               \E i \in 1 .. Len(message'[stream[p].conv]) :
                  message'[stream[p].conv][i] = x
        BY <1>1, <2>1, <3>1 DEF Keeps, Stored
      <4>2. \E i \in 1 .. Len(message'[stream[p].conv]) :
                  message'[stream[p].conv][i] = m
        BY <3>2, <3>3, <4>1
      <4> QED
        BY <4>2 DEF Stored
    <3> QED
      BY <1>1, <3>2, <3>4 DEF FinalOK
  <2>2. CASE stream[p].final = None \/ conv'[stream[p].conv] # "open"
    BY <1>1, <2>2 DEF FinalOK
  <2> QED
    BY <2>1, <2>2
<1> QED
  BY <1>2, <1>3

(* A message that was there *)
LEMMA PlacedKept ==
    ASSUME IInv, NEW q \in Questions, Moves(q), Forward(q),
           NEW c \in ConvIds, NEW i \in 1 .. Len(message[c]),
           message'[c][i] = message[c][i]
    PROVE  Placed(c, i)'
<1>1. message[c][i] \in Message /\ Placed(c, i)
  BY DEF IInv, TypeOK
<1>2. message[c][i].of \in Questions
  BY <1>1 DEF Message
<1>3. CASE message[c][i].of # q
  BY <1>1, <1>2, <1>3 DEF Placed, Moves, Forward
<1>4. CASE message[c][i].of = q
  BY <1>1, <1>4 DEF Placed, Forward, Late
<1> QED
  BY <1>3, <1>4

(* A step that stores no message *)
LEMMA StreamSafe ==
    ASSUME IInv, NEW q \in Questions, Moves(q), Forward(q), UNCHANGED tables,
           Sound(q)', FinalOK(q)'
    PROVE  IInv'
<1>1. TypeOK'
  BY DEF IInv, TypeOK, Moves, Forward, tables
<1>2. Keeps
  BY DEF Keeps, tables, Stored
<1>3. \A p \in Questions : stream'[p] # None => Sound(p)' /\ FinalOK(p)'
  BY <1>2, OthersSafe DEF Moves, Forward
<1>4. \A c \in ConvIds : \A i \in 1 .. Len(message'[c]) : Placed(c, i)'
  BY PlacedKept DEF tables
<1>5. TranscriptInOrder'
  BY DEF IInv, TranscriptInOrder, tables
<1> QED
  BY <1>1, <1>3, <1>4, <1>5 DEF IInv

LEMMA Appended ==
    ASSUME IInv, NEW c \in ConvIds, NEW m \in Message, StoreMessage(c, m)
    PROVE  /\ DOMAIN message' = ConvIds
           /\ \A d \in ConvIds : message'[d] \in Seq(Message)
           /\ \A d \in ConvIds \ {c} : message'[d] = message[d]
           /\ Len(message'[c]) = Len(message[c]) + 1 /\ Len(message[c]) \in Nat
           /\ \A i \in 1 .. Len(message[c]) : message'[c][i] = message[c][i]
           /\ message'[c][Len(message[c]) + 1] = m
           /\ \A d \in ConvIds, x \in Message : Stored(d, x) => Stored(d, x)'
           /\ Stored(c, m)'
<1>1. DOMAIN message = ConvIds /\ \A d \in ConvIds : message[d] \in Seq(Message)
  BY DEF IInv, TypeOK
<1>2. message'[c] = Append(message[c], m) /\ \A d \in ConvIds \ {c} : message'[d] = message[d]
  BY <1>1 DEF StoreMessage
<1>3. DOMAIN message' = ConvIds
  BY <1>1 DEF StoreMessage
<1>4. /\ message'[c] \in Seq(Message)
      /\ Len(message'[c]) = Len(message[c]) + 1 /\ Len(message[c]) \in Nat
      /\ \A i \in 1 .. Len(message[c]) : message'[c][i] = message[c][i]
      /\ message'[c][Len(message[c]) + 1] = m
  BY <1>1, <1>2
<1>5. \A d \in ConvIds : message'[d] \in Seq(Message)
  BY <1>1, <1>2, <1>4
<1>6. ASSUME NEW d \in ConvIds, NEW x \in Message, Stored(d, x) PROVE Stored(d, x)'
  <2>1. CASE d = c
    <3>1. PICK i \in 1 .. Len(message[c]) : message[c][i] = x
      BY <1>6, <2>1 DEF Stored
    <3>2. i \in 1 .. Len(message'[c]) /\ message'[c][i] = x
      BY <1>4, <3>1
    <3> QED
      BY <2>1, <3>2 DEF Stored
  <2>2. CASE d # c
    BY <1>2, <1>6, <2>2 DEF Stored
  <2> QED
    BY <2>1, <2>2
<1>7. Stored(c, m)'
  <2>1. Len(message[c]) + 1 \in 1 .. Len(message'[c])
    BY <1>4
  <2> QED
    BY <1>4, <2>1 DEF Stored
<1> QED
  BY <1>2, <1>3, <1>4, <1>5, <1>6, <1>7

(* A step that stores the question, or the reply *)
LEMMA StoreSafe ==
    ASSUME IInv, NEW q \in Questions, Moves(q), Forward(q),
           NEW c \in ConvIds, c = stream[q].conv, conv[c] = "open",
           NEW m \in Message, m.of = q, StoreMessage(c, m),
           UNCHANGED <<space, conv, file>>,
           \/ m.role = "USER" /\ stream[q].pc \in Early
           \/ m.role = "ASSISTANT" /\ stream[q].pc \notin Early \union Late
              /\ stream'[q].pc \in Late /\ stream'[q].client # "failed",
           stream'[q].pc \notin Early,
           Sound(q)', FinalOK(q)'
    PROVE  IInv'
<1> DEFINE n == Len(message[c])
<1>1. /\ DOMAIN message' = ConvIds
      /\ \A d \in ConvIds : message'[d] \in Seq(Message)
      /\ \A d \in ConvIds \ {c} : message'[d] = message[d]
      /\ Len(message'[c]) = n + 1 /\ n \in Nat
      /\ \A i \in 1 .. n : message'[c][i] = message[c][i]
      /\ message'[c][n + 1] = m
      /\ \A d \in ConvIds, x \in Message : Stored(d, x) => Stored(d, x)'
  BY Appended
<1>0. \A i, j \in 1 .. n : i < j /\ message[c][i].of = message[c][j].of =>
         message[c][i].role = "USER" /\ message[c][j].role = "ASSISTANT"
  BY DEF IInv, TranscriptInOrder
<1> HIDE DEF n
<1>2. TypeOK'
  BY <1>1 DEF IInv, TypeOK, Moves
<1>3. Keeps
  BY <1>1 DEF Keeps
<1>4. \A p \in Questions : stream'[p] # None => Sound(p)' /\ FinalOK(p)'
  BY <1>3, OthersSafe DEF Moves
<1>5. ASSUME NEW d \in ConvIds, NEW i \in 1 .. Len(message'[d]) PROVE Placed(d, i)'
  <2>1. CASE d = c /\ i = n + 1
    BY <1>1, <2>1 DEF Placed, Forward
  <2>2. CASE d # c
    BY <1>1, <2>2, PlacedKept
  <2>3. CASE d = c /\ i # n + 1
    <3>1. i \in 1 .. n
      BY <1>1, <2>3
    <3> QED
      BY <1>1, <2>3, <3>1, PlacedKept DEF n
  <2> QED
    BY <2>1, <2>2, <2>3
<1>7. \A i \in 1 .. n : message[c][i].of = q =>
         message[c][i].role = "USER" /\ m.role = "ASSISTANT"
  <2>1. \A i \in 1 .. n : message[c][i] \in Message /\ Placed(c, i)
    BY DEF IInv, TypeOK, n
  <2> QED
    BY <2>1 DEF Placed, Message, Role, Late
<1>8. TranscriptInOrder'
  <2> SUFFICES ASSUME NEW d \in ConvIds, NEW i \in 1 .. Len(message'[d]),
                      NEW j \in 1 .. Len(message'[d]),
                      i < j, message'[d][i].of = message'[d][j].of
               PROVE  message'[d][i].role = "USER" /\ message'[d][j].role = "ASSISTANT"
    BY DEF TranscriptInOrder
  <2>1. CASE d = c /\ j = n + 1
    <3>1. i \in 1 .. n
      BY <1>1, <2>1
    <3> QED
      BY <1>1, <1>7, <2>1, <3>1
  <2>2. CASE d = c /\ j # n + 1
    <3>1. i \in 1 .. n /\ j \in 1 .. n
      BY <1>1, <2>2
    <3>2. message'[d][i] = message[c][i] /\ message'[d][j] = message[c][j]
      BY <1>1, <2>2, <3>1
    <3> QED
      BY <1>0, <3>1, <3>2
  <2>3. CASE d # c
    BY <1>1, <2>3 DEF IInv, TranscriptInOrder
  <2> QED
    BY <2>1, <2>2, <2>3
<1> QED
  BY <1>2, <1>4, <1>5, <1>8 DEF IInv
-----------------------------------------------------------------------------
(* Ways for a question to go on *)
Clients == {"open", "done", "failed", "unread", "lost"}

LEMMA StreamMoves ==
    ASSUME IInv, NEW q \in Questions, NEW s \in Stream, stream' = [stream EXCEPT ![q] = s]
    PROVE  Moves(q) /\ stream'[q] = s /\ s # None
BY DEF Moves, IInv, TypeOK

LEMMA OverType ==
    ASSUME NEW s \in Stream, NEW k \in Clients
    PROVE  /\ Over(s, k) \in Stream /\ Over(s, k).pc = "over"
           /\ Over(s, k).conv = s.conv /\ Over(s, k).client = k
           /\ Over(s, k).response = "none" /\ Over(s, k).final = None
           /\ Over(s, k).heard = 0
<1>1. 0 \in 0 .. MaxTokens
  OBVIOUS
<1>2. Fresh(s.conv) \in Stream
  BY <1>1 DEF Fresh, Stream, Statements
<1> QED
  BY <1>2 DEF Over, Fresh, Stream, Statements, Clients

LEMMA GotoMoves ==
    ASSUME IInv, NEW q \in Questions, stream[q] # None, NEW p \in Statements, Goto(q, p)
    PROVE  /\ Moves(q) /\ stream'[q] # None /\ stream'[q].pc = p
           /\ stream'[q].conv = stream[q].conv /\ stream'[q].client = stream[q].client
           /\ stream'[q].response = stream[q].response
           /\ stream'[q].text = stream[q].text /\ stream'[q].cited = stream[q].cited
           /\ stream'[q].heard = stream[q].heard /\ stream'[q].final = stream[q].final
<1> DEFINE s == [stream[q] EXCEPT !.pc = p]
<1>1. /\ s \in Stream /\ s.pc = p /\ s.conv = stream[q].conv
      /\ s.client = stream[q].client /\ s.response = stream[q].response
      /\ s.text = stream[q].text /\ s.cited = stream[q].cited
      /\ s.heard = stream[q].heard /\ s.final = stream[q].final
  BY StreamType DEF Stream
<1>2. stream' = [stream EXCEPT ![q] = s]
  BY DEF Goto
<1> HIDE DEF s
<1>3. Moves(q) /\ stream'[q] = s /\ s # None
  BY <1>1, <1>2, StreamMoves
<1> QED
  BY <1>1, <1>3

(* The handlers are through, and the client has been told nothing. *)
LEMMA OverSafe ==
    ASSUME IInv, NEW q \in Questions, stream[q] # None, NEW k \in Clients,
           stream' = [stream EXCEPT ![q] = Over(@, k)],
           UNCHANGED tables,
           stream[q].pc \in Late /\ k = "failed" => stream[q].client = "failed"
    PROVE  IInv'
<1> DEFINE s == Over(stream[q], k)
<1>1. /\ s \in Stream /\ s.pc = "over" /\ s.conv = stream[q].conv /\ s.client = k
      /\ s.response = "none" /\ s.final = None
  BY StreamType, OverType
<1>2. stream' = [stream EXCEPT ![q] = s]
  OBVIOUS
<1> HIDE DEF s
<1>3. Moves(q) /\ stream'[q] = s /\ s # None
  BY <1>1, <1>2, StreamMoves
<1>4. Forward(q)
  BY <1>1, <1>3 DEF Forward, Early, Late
<1>5. conv'[stream[q].conv] # "new"
  BY StreamType DEF Sound, tables
<1>6. Sound(q)' /\ FinalOK(q)'
  BY <1>1, <1>3, <1>5 DEF Sound, FinalOK
<1> QED
  BY <1>3, <1>4, <1>6, StreamSafe

LEMMA ErrorSafe ==
    ASSUME IInv, NEW q \in Questions, stream[q] # None, stream[q].pc \notin Late,
           HandleError(q), UNCHANGED tables
    PROVE  IInv'
<1> DEFINE k == Ends(stream[q], "failed")
<1>1. k \in Clients
  BY StreamType DEF Ends, Clients
<1>2. stream' = [stream EXCEPT ![q] = Over(@, k)]
  BY DEF HandleError, Failed
<1> HIDE DEF k
<1> QED
  BY <1>1, <1>2, OverSafe

LEMMA GotoSafe ==
    ASSUME IInv, NEW q \in Questions, stream[q] # None,
           stream[q].pc \notin Late \union {"listen"}, stream[q].client # "failed",
           NEW p \in {"ask", "decide", "history", "decline", "open", "references"},
           p = "ask" => stream[q].pc = "access",
           Goto(q, p), UNCHANGED tables
    PROVE  IInv'
<1>1. p \in Statements
  BY DEF Statements
<1>2. /\ Moves(q) /\ stream'[q] # None /\ stream'[q].pc = p
      /\ stream'[q].conv = stream[q].conv /\ stream'[q].client = stream[q].client
      /\ stream'[q].response = stream[q].response
      /\ stream'[q].text = stream[q].text
      /\ stream'[q].heard = stream[q].heard /\ stream'[q].final = stream[q].final
  BY <1>1, GotoMoves
<1>3. Forward(q)
  BY <1>2 DEF Forward, Early, Late
<1>4. Sound(q) /\ UNCHANGED conv
  BY StreamType DEF tables
<1>5. Sound(q)' /\ FinalOK(q)'
  BY <1>2, <1>4 DEF Sound, FinalOK, Late
<1> QED
  BY <1>2, <1>3, <1>5, StreamSafe

LEMMA RouteSafe ==
    ASSUME IInv, NEW q \in Questions,
           \/ Access(q) \/ FindSpace(q) \/ Decide(q) \/ FindHistory(q) \/ Final(q)
           \/ StatementFails(q)
    PROVE  IInv'
<1>1. stream[q] # None /\ UNCHANGED tables
  BY DEF Access, FindSpace, Decide, FindHistory, Final, StatementFails, At
<1>2. Sound(q)
  BY <1>1, StreamType
<1>3. CASE HandleError(q)
  <2>1. stream[q].pc \notin Late
    BY DEF Access, FindSpace, Decide, FindHistory, Final, StatementFails, At, Late
  <2> QED
    BY <1>1, <1>3, <2>1, ErrorSafe
<1>4. ASSUME NEW p \in {"ask", "decide", "history", "decline", "open", "references"},
             p = "ask" => stream[q].pc = "access",
             Goto(q, p),
             stream[q].pc \in {"access", "space", "decide", "history", "final"},
             stream[q].pc = "final" => stream[q].response = "ended"
      PROVE  IInv'
  <2>1. stream[q].client # "failed" /\ stream[q].pc \notin Late \union {"listen"}
    BY <1>2, <1>4 DEF Sound, Late
  <2> QED
    BY <1>1, <1>4, <2>1, GotoSafe
<1> QED
  BY <1>3, <1>4 DEF Access, FindSpace, Decide, FindHistory, Final, StatementFails, At
-----------------------------------------------------------------------------
LEMMA AskSafe ==
    ASSUME IInv, NEW q \in Questions, Ask(q)
    PROVE  IInv'
<1>1. /\ stream[q] # None /\ stream[q].pc = "ask"
      /\ UNCHANGED <<space, conv, file>>
  BY DEF Ask, At
<1>2. CASE HandleError(q) /\ UNCHANGED message
  BY <1>1, <1>2, ErrorSafe DEF Late, tables
<1>3. ASSUME conv[stream[q].conv] = "open", StoreMessage(stream[q].conv, Question(q)),
             Goto(q, "space")
      PROVE  IInv'
  <2>0. PICK c \in ConvIds : c = stream[q].conv
    BY <1>1, StreamType
  <2>1. PICK m \in Message : m = Question(q)
    BY <1>1, StreamType
  <2>2. m.of = q /\ m.role = "USER"
    BY <2>1 DEF Question
  <2>3. /\ Moves(q) /\ stream'[q] # None /\ stream'[q].pc = "space"
        /\ stream'[q].conv = stream[q].conv /\ stream'[q].client = stream[q].client
        /\ stream'[q].response = stream[q].response
        /\ stream'[q].text = stream[q].text
        /\ stream'[q].heard = stream[q].heard /\ stream'[q].final = stream[q].final
    BY <1>1, <1>3, GotoMoves DEF Statements
  <2>4. Forward(q) /\ stream[q].pc \in Early /\ stream'[q].pc \notin Early
    BY <1>1, <2>3 DEF Forward, Early, Late
  <2>5. Sound(q)
    BY <1>1, StreamType
  <2>6. Sound(q)' /\ FinalOK(q)'
    BY <1>1, <2>3, <2>5 DEF Sound, FinalOK
  <2> QED
    BY <1>1, <1>3, <2>0, <2>1, <2>2, <2>3, <2>4, <2>6, StoreSafe
<1> QED
  BY <1>2, <1>3 DEF Ask, CanStore

(* The reply is stored, before the client gets it. *)
LEMMA ReplySafe ==
    ASSUME IInv, NEW q \in Questions, Decline(q) \/ StoreReply(q)
    PROVE  IInv'
<1>1. /\ stream[q] # None /\ stream[q].pc \in {"decline", "reply"}
      /\ UNCHANGED <<space, conv, file>>
  BY DEF Decline, StoreReply, At
<1>2. CASE HandleError(q) /\ UNCHANGED message
  BY <1>1, <1>2, ErrorSafe DEF Late, tables
<1>3. ASSUME NEW p \in {"sendFallback", "hydrate"},
             conv[stream[q].conv] = "open", StoreMessage(stream[q].conv, Reply(q)),
             Goto(q, p)
      PROVE  IInv'
  <2>0. PICK c \in ConvIds : c = stream[q].conv
    BY <1>1, StreamType
  <2>1. PICK m \in Message : m = Reply(q)
    BY <1>1, StreamType
  <2>2. m.of = q /\ m.role = "ASSISTANT"
    BY <2>1 DEF Reply
  <2>3. /\ Moves(q) /\ stream'[q] # None /\ stream'[q].pc = p
        /\ stream'[q].conv = stream[q].conv /\ stream'[q].client = stream[q].client
        /\ stream'[q].response = stream[q].response
        /\ stream'[q].text = stream[q].text /\ stream'[q].cited = stream[q].cited
        /\ stream'[q].heard = stream[q].heard /\ stream'[q].final = stream[q].final
    BY <1>1, <1>3, GotoMoves DEF Statements
  <2>4. /\ Forward(q) /\ stream[q].pc \notin Early \union Late
        /\ stream'[q].pc \in Late /\ stream'[q].pc \notin Early
    BY <1>1, <2>3 DEF Forward, Early, Late
  <2>5. Sound(q)
    BY <1>1, StreamType
  <2>6. Stored(c, m)'
    BY <1>3, <2>0, <2>1, Appended
  <2>7. Reply(q)' = m
    BY <2>1, <2>3 DEF Reply
  <2>8. stream'[q].conv = c
    BY <2>0, <2>3
  <2>9. Stored(stream[q].conv, Reply(q))'
    BY <2>6, <2>7, <2>8 DEF Stored
  <2>10. Sound(q)' /\ FinalOK(q)' /\ stream'[q].client # "failed"
    BY <1>1, <2>3, <2>5, <2>9 DEF Sound, FinalOK
  <2> QED
    BY <1>1, <1>3, <2>0, <2>1, <2>2, <2>3, <2>4, <2>10, StoreSafe
<1> QED
  BY <1>2, <1>3 DEF Decline, StoreReply, CanStore

(* The final event: what the client gets has been stored. *)
LEMMA SendFinalSafe ==
    ASSUME IInv, NEW q \in Questions, stream[q] # None,
           stream[q].pc \in {"sendFallback", "hydrate"},
           NEW F \in SUBSET FileIds, F \subseteq stream[q].cited,
           NEW m \in Message, m = [Reply(q) EXCEPT !.files = F],
           SendFinal(q, m), UNCHANGED tables
    PROVE  IInv'
<1>1. Sound(q) /\ stream[q] \in Stream /\ Reply(q) \in Message
      /\ stream[q].client \in Clients /\ stream[q].heard \in 0 .. MaxTokens
  BY StreamType DEF Clients
<1>2. CASE stream[q].client # "open"
  <2>1. stream' = [stream EXCEPT ![q] = Over(@, stream[q].client)]
    BY <1>2 DEF SendFinal
  <2> QED
    BY <1>1, <2>1, OverSafe
<1>3. CASE stream[q].client = "open"
  <2> DEFINE s == [Over(stream[q], "done") EXCEPT !.heard = stream[q].heard, !.final = m]
  <2>1. /\ Over(stream[q], "done") \in Stream /\ Over(stream[q], "done").pc = "over"
        /\ Over(stream[q], "done").conv = stream[q].conv
        /\ Over(stream[q], "done").client = "done"
        /\ Over(stream[q], "done").response = "none"
    BY <1>1, OverType DEF Clients
  <2>2. /\ s \in Stream /\ s.pc = "over" /\ s.conv = stream[q].conv
        /\ s.client = "done" /\ s.response = "none"
        /\ s.heard = stream[q].heard /\ s.final = m
    BY <1>1, <2>1 DEF Stream
  <2>3. stream' = [stream EXCEPT ![q] = s]
    BY <1>3 DEF SendFinal
  <2> HIDE DEF s
  <2>4. Moves(q) /\ stream'[q] = s /\ s # None
    BY <2>2, <2>3, StreamMoves
  <2>5. Forward(q)
    BY <2>2, <2>4 DEF Forward, Early, Late
  <2>6. Sound(q)'
    BY <1>1, <2>2, <2>4 DEF Sound, tables
  <2>7. stream[q].text = stream[q].heard
    BY <1>1, <1>3 DEF Sound
  <2>8. m.text = stream[q].text /\ m.files = F
        /\ [m EXCEPT !.files = stream[q].cited] = Reply(q)
    <3>1. Reply(q).text = stream[q].text /\ Reply(q).files = stream[q].cited
      BY DEF Reply
    <3> QED
      BY <1>1, <3>1 DEF Message
  <2>9. PICK G \in SUBSET FileIds : G = stream[q].cited
    BY StreamType
  <2>10. conv[stream[q].conv] = "open" => Stored(stream[q].conv, Reply(q))
    BY <1>1 DEF Sound
  <2>11. FinalOK(q)'
    <3>1. /\ stream'[q].final = m /\ stream'[q].heard = stream[q].heard
          /\ stream'[q].conv = stream[q].conv
      BY <2>2, <2>4
    <3>3. ASSUME conv[stream[q].conv] = "open"
          PROVE  Stored(stream[q].conv, [stream[q].final EXCEPT !.files = G])'
      <4>1. Stored(stream[q].conv, Reply(q))
        BY <2>10, <3>3
      <4>2. [stream'[q].final EXCEPT !.files = G] = Reply(q)
        BY <2>8, <2>9, <3>1
      <4> QED
        BY <3>1, <4>1, <4>2 DEF Stored, tables
    <3> QED
      BY <2>7, <2>8, <2>9, <3>1, <3>3 DEF FinalOK, tables
  <2> QED
    BY <2>4, <2>5, <2>6, <2>11, StreamSafe
<1> QED
  BY <1>2, <1>3

LEMMA SendSafe ==
    ASSUME IInv, NEW q \in Questions, SendFallback(q) \/ Hydrate(q)
    PROVE  IInv'
<1>1. /\ stream[q] # None /\ stream[q].pc \in {"sendFallback", "hydrate"}
      /\ UNCHANGED tables
  BY DEF SendFallback, Hydrate, At
<1>2. Reply(q) \in Message /\ stream[q].cited \subseteq FileIds
      /\ Reply(q).files = stream[q].cited
  BY <1>1, StreamType DEF Reply
<1>3. ASSUME NEW F \in SUBSET FileIds, F \subseteq stream[q].cited,
             SendFinal(q, [Reply(q) EXCEPT !.files = F])
      PROVE  IInv'
  <2>1. PICK m \in Message : m = [Reply(q) EXCEPT !.files = F]
    <3>1. [Reply(q) EXCEPT !.files = F] \in Message
      BY <1>2 DEF Message
    <3> QED
      BY <3>1
  <2> QED
    BY <1>1, <1>3, <2>1, SendFinalSafe
<1>4. CASE SendFallback(q)
  <2>1. Reply(q) = [Reply(q) EXCEPT !.files = stream[q].cited]
    BY DEF Reply
  <2> QED
    BY <1>2, <1>3, <1>4, <2>1 DEF SendFallback
<1>5. CASE SendFinal(q, [Reply(q) EXCEPT !.files = @ \intersect Known])
  BY <1>2, <1>3, <1>5
<1>6. CASE stream' = [stream EXCEPT ![q] = Over(@, Ends(@, "unread"))]
  <2> DEFINE k == Ends(stream[q], "unread")
  <2>1. k \in Clients /\ (k = "failed" => stream[q].client = "failed")
    BY <1>1, StreamType DEF Ends, Clients
  <2>2. stream' = [stream EXCEPT ![q] = Over(@, k)]
    BY <1>6
  <2> HIDE DEF k
  <2> QED
    BY <1>1, <2>1, <2>2, OverSafe
<1> QED
  BY <1>4, <1>5, <1>6 DEF Hydrate
-----------------------------------------------------------------------------
(* While the answer is on its way *)
LEMMA AnswerSafe ==
    ASSUME IInv, NEW q \in Questions, stream[q] # None, NEW s \in Stream,
           stream' = [stream EXCEPT ![q] = s], UNCHANGED tables,
           s.conv = stream[q].conv, s.final = stream[q].final,
           stream[q].pc \in {"open", "listen", "final", "references"},
           s.pc \in {"listen", "final", "reply"},
           s.pc = "listen" <=> s.response = "running",
           s.client = "failed" => s.pc = "final" /\ s.response = "broken",
           s.client = "open" => s.heard = s.text
    PROVE  IInv'
<1>1. Moves(q) /\ stream'[q] = s /\ s # None
  BY StreamMoves
<1>2. Forward(q)
  BY <1>1 DEF Forward, Early, Late
<1>3. Sound(q) /\ stream[q].final = None
  BY StreamType DEF Sound
<1>4. Sound(q)'
  BY <1>1, <1>3 DEF Sound, tables
<1>5. FinalOK(q)'
  BY <1>1, <1>3 DEF FinalOK
<1> QED
  BY <1>1, <1>2, <1>4, <1>5, StreamSafe

LEMMA OpenResponseSafe ==
    ASSUME IInv, NEW q \in Questions, OpenResponse(q)
    PROVE  IInv'
<1>1. stream[q] # None /\ stream[q].pc = "open" /\ UNCHANGED tables
  BY DEF OpenResponse, At
<1>2. CASE HandleError(q)
  BY <1>1, <1>2, ErrorSafe DEF Late
<1>3. CASE stream' = [stream EXCEPT ![q].pc = "listen", ![q].response = "running"]
  <2> DEFINE s == [stream[q] EXCEPT !.pc = "listen", !.response = "running"]
  <2>1. stream[q] \in Stream /\ Sound(q)
    BY <1>1, StreamType
  <2>2. /\ s \in Stream /\ s.pc = "listen" /\ s.response = "running"
        /\ s.conv = stream[q].conv /\ s.final = stream[q].final
        /\ s.client = stream[q].client /\ s.heard = stream[q].heard
        /\ s.text = stream[q].text
    BY <2>1 DEF Stream, Statements
  <2>3. stream' = [stream EXCEPT ![q] = s]
    BY <1>3 DEF IInv, TypeOK
  <2> HIDE DEF s
  <2>4. s.client # "failed" /\ (s.client = "open" => s.heard = s.text)
    BY <1>1, <2>1, <2>2 DEF Sound
  <2> QED
    BY <1>1, <2>2, <2>3, <2>4, AnswerSafe
<1> QED
  BY <1>2, <1>3 DEF OpenResponse

LEMMA TokenSafe ==
    ASSUME IInv, NEW q \in Questions, Token(q)
    PROVE  IInv'
<1>1. /\ stream[q] # None /\ stream[q].pc = "listen" /\ stream[q].text < MaxTokens
      /\ stream[q].response = "running" /\ UNCHANGED tables
  BY DEF Token, Running, At
<1>2. stream[q] \in Stream /\ Sound(q) /\ stream[q].text \in 0 .. MaxTokens
      /\ stream[q].heard \in 0 .. MaxTokens
  BY <1>1, StreamType
<1> DEFINE h == IF stream[q].client = "open" THEN stream[q].heard + 1
                ELSE stream[q].heard
           s == [stream[q] EXCEPT !.text = stream[q].text + 1, !.heard = h]
<1>3. stream[q].client = "open" => stream[q].heard = stream[q].text
  BY <1>1, <1>2 DEF Sound
<1>4. stream[q].text + 1 \in 0 .. MaxTokens /\ h \in 0 .. MaxTokens
  BY <1>1, <1>2, <1>3
<1>5. stream[q].client = "open" => h = stream[q].text + 1
  BY <1>3
<1>6. stream' = [stream EXCEPT ![q] = s]
  BY DEF Token, IInv, TypeOK
<1> HIDE DEF h
<1>7. /\ s \in Stream /\ s.pc = stream[q].pc /\ s.response = stream[q].response
      /\ s.conv = stream[q].conv /\ s.final = stream[q].final
      /\ s.client = stream[q].client /\ s.heard = h
      /\ s.text = stream[q].text + 1
  BY <1>2, <1>4 DEF Stream
<1> HIDE DEF s
<1>8. s.client # "failed"
  BY <1>1, <1>2, <1>7 DEF Sound
<1> QED
  BY <1>1, <1>5, <1>6, <1>7, <1>8, AnswerSafe

(* Completion, the end of the stream, a break in between, and the handler  *)
(* of the completion that looks up what the answer cites *)
LEMMA EndingSafe ==
    ASSUME IInv, NEW q \in Questions,
           Completed(q) \/ StreamEnded(q) \/ References(q)
    PROVE  IInv'
<1>1. /\ stream[q] # None /\ UNCHANGED tables
      /\ stream[q].pc \in {"listen", "final", "references"}
  BY DEF Completed, StreamEnded, References, Running, At
<1>2. stream[q] \in Stream /\ Sound(q) /\ stream[q].cited \subseteq FileIds
  BY <1>1, StreamType
<1>3. ASSUME NEW p \in {"final", "reply"}, NEW F \in SUBSET FileIds,
             NEW w \in {"completed", "ended"} \union {stream[q].response},
             w # "running", stream[q].client # "failed",
             stream' = [stream EXCEPT ![q] = [stream[q] EXCEPT
                           !.pc = p, !.response = w, !.cited = F]]
      PROVE  IInv'
  <2> DEFINE s == [stream[q] EXCEPT !.pc = p, !.response = w, !.cited = F]
  <2>1. /\ s \in Stream /\ s.pc = p /\ s.response = w
        /\ s.conv = stream[q].conv /\ s.final = stream[q].final
        /\ s.client = stream[q].client /\ s.heard = stream[q].heard
        /\ s.text = stream[q].text
    BY <1>2 DEF Stream, Statements
  <2>2. stream' = [stream EXCEPT ![q] = s]
    BY <1>3
  <2> HIDE DEF s
  <2>3. s.client # "failed" /\ (s.client = "open" => s.heard = s.text)
    BY <1>1, <1>2, <1>3, <2>1 DEF Sound
  <2> QED
    BY <1>1, <1>3, <2>1, <2>2, <2>3, AnswerSafe
<1>4. CASE Completed(q)
  <2>1. PICK F \in SUBSET Citable :
           stream' = [stream EXCEPT ![q].pc = "final", ![q].response = "completed",
                                    ![q].cited = F]
    BY <1>4 DEF Completed
  <2>2. F \in SUBSET FileIds
    BY DEF Citable
  <2>3. stream' = [stream EXCEPT ![q] = [stream[q] EXCEPT
                      !.pc = "final", !.response = "completed", !.cited = F]]
    BY <2>1 DEF IInv, TypeOK
  <2>4. stream[q].client # "failed"
    BY <1>2, <1>4 DEF Sound, Completed, Running, At
  <2> QED
    BY <1>3, <2>2, <2>3, <2>4
<1>5. CASE StreamEnded(q)
  <2>1. stream' = [stream EXCEPT ![q] = [stream[q] EXCEPT
                      !.pc = "final", !.response = "ended", !.cited = stream[q].cited]]
    <3>1. [stream[q] EXCEPT !.response = "ended"] =
             [stream[q] EXCEPT !.pc = "final", !.response = "ended",
                               !.cited = stream[q].cited]
      BY <1>2, <1>5 DEF Stream, StreamEnded, At
    <3> QED
      BY <1>5, <3>1 DEF StreamEnded, IInv, TypeOK
  <2>2. stream[q].client # "failed"
    BY <1>2, <1>5 DEF Sound, StreamEnded, At
  <2> QED
    BY <1>2, <1>3, <2>1, <2>2
<1>6. CASE References(q)
  <2>1. stream' = [stream EXCEPT ![q] = [stream[q] EXCEPT
                      !.pc = "reply", !.response = stream[q].response,
                      !.cited = stream[q].cited \intersect Known]]
    <3>1. [stream[q] EXCEPT !.pc = "reply", !.cited = stream[q].cited \intersect Known] =
             [stream[q] EXCEPT !.pc = "reply", !.response = stream[q].response,
                               !.cited = stream[q].cited \intersect Known]
      BY <1>2 DEF Stream
    <3> QED
      BY <1>6, <3>1 DEF References, IInv, TypeOK
  <2>2. stream[q].client # "failed" /\ stream[q].response # "running"
    BY <1>2, <1>6 DEF Sound, References, At
  <2> QED
    BY <1>2, <1>3, <2>1, <2>2
<1> QED
  BY <1>4, <1>5, <1>6

LEMMA BreakingSafe ==
    ASSUME IInv, NEW q \in Questions, ResponseFailed(q) \/ Broken(q) \/ EndsSilently(q)
    PROVE  IInv'
<1>1. stream[q] # None /\ UNCHANGED tables
  BY DEF ResponseFailed, Broken, EndsSilently, Running, At
<1>2. stream[q] \in Stream /\ Sound(q) /\ stream[q].client \in Clients
  BY <1>1, StreamType DEF Clients
<1>3. CASE Running(q) /\ HandleError(q)
  BY <1>1, <1>3, ErrorSafe DEF Running, At, Late
<1>4. CASE /\ stream[q].pc = "final"
           /\ stream' = [stream EXCEPT ![q].response = "broken",
                                       ![q].client = Ends(stream[q], "failed")]
  <2> DEFINE k == Ends(stream[q], "failed")
             s == [stream[q] EXCEPT !.response = "broken", !.client = k]
  <2>1. k \in Clients \ {"open"}
    BY <1>2 DEF Ends, Clients
  <2>2. stream' = [stream EXCEPT ![q] = s]
    BY <1>4 DEF IInv, TypeOK
  <2> HIDE DEF k
  <2>3. /\ s \in Stream /\ s.pc = "final" /\ s.response = "broken"
        /\ s.conv = stream[q].conv /\ s.final = stream[q].final /\ s.client = k
    BY <1>2, <1>4, <2>1 DEF Stream, Clients
  <2> HIDE DEF s
  <2> QED
    BY <1>1, <1>4, <2>1, <2>2, <2>3, AnswerSafe
<1>5. CASE EndsSilently(q)
  <2> DEFINE k == stream[q].client
             s == [Over(stream[q], k) EXCEPT !.response = "silent"]
  <2>1. k # "failed" /\ stream[q].pc = "listen"
    BY <1>2, <1>5 DEF Sound, EndsSilently, Running, At
  <2>2. /\ Over(stream[q], k) \in Stream /\ Over(stream[q], k).pc = "over"
        /\ Over(stream[q], k).conv = stream[q].conv
        /\ Over(stream[q], k).client = k /\ Over(stream[q], k).final = None
    BY <1>2, OverType
  <2>3. /\ s \in Stream /\ s.pc = "over" /\ s.conv = stream[q].conv
        /\ s.client = k /\ s.response = "silent" /\ s.final = None
    BY <2>2 DEF Stream
  <2>4. stream' = [stream EXCEPT ![q] = s]
    BY <1>5 DEF EndsSilently
  <2> HIDE DEF s
  <2>5. Moves(q) /\ stream'[q] = s /\ s # None
    BY <2>3, <2>4, StreamMoves
  <2>6. Forward(q)
    BY <1>1, <2>1, <2>3, <2>5 DEF Forward, Early, Late
  <2>7. Sound(q)' /\ FinalOK(q)'
    BY <1>1, <1>2, <2>3, <2>5 DEF Sound, FinalOK, tables
  <2> QED
    BY <1>1, <2>5, <2>6, <2>7, StreamSafe
<1> QED
  BY <1>3, <1>4, <1>5 DEF ResponseFailed, Broken, At

LEMMA PostSafe ==
    ASSUME IInv, NEW q \in Questions, NEW c \in ConvIds, Post(q, c)
    PROVE  IInv'
<1>1. /\ stream[q] = None /\ conv[c] = "open" /\ UNCHANGED tables
      /\ stream' = [stream EXCEPT ![q] = Fresh(c)]
  BY DEF Post
<1>2. /\ Fresh(c) \in Stream /\ Fresh(c).pc = "access" /\ Fresh(c).conv = c
      /\ Fresh(c).client = "open" /\ Fresh(c).response = "none"
      /\ Fresh(c).text = 0 /\ Fresh(c).heard = 0 /\ Fresh(c).final = None
  <2>1. 0 \in 0 .. MaxTokens
    OBVIOUS
  <2> QED
    BY <2>1 DEF Fresh, Stream, Statements
<1>3. Moves(q) /\ stream'[q] = Fresh(c) /\ stream'[q] # None
  BY <1>1, <1>2, StreamMoves
<1>4. Sound(q)' /\ FinalOK(q)'
  BY <1>1, <1>2, <1>3 DEF Sound, FinalOK, tables
<1>5. TypeOK'
  BY <1>1, <1>3 DEF IInv, TypeOK, Moves, tables
<1>6. Keeps
  BY <1>1 DEF Keeps, tables, Stored
<1>7. \A p \in Questions : stream'[p] # None => Sound(p)' /\ FinalOK(p)'
  BY <1>1, <1>3, <1>4, <1>6, OthersSafe DEF Moves
<1>8. ASSUME NEW d \in ConvIds, NEW i \in 1 .. Len(message'[d]) PROVE Placed(d, i)'
  <2>1. /\ message'[d] = message[d] /\ message[d][i] \in Message /\ Placed(d, i)
    BY <1>1, <1>8 DEF tables, IInv, TypeOK
  <2>2. message[d][i].of \in Questions \ {q}
    BY <1>1, <2>1 DEF Message, Placed
  <2> QED
    BY <1>1, <1>3, <2>1, <2>2 DEF Placed, Moves
<1>9. TranscriptInOrder'
  BY <1>1 DEF IInv, TranscriptInOrder, tables
<1> QED
  BY <1>5, <1>7, <1>8, <1>9 DEF IInv
-----------------------------------------------------------------------------
(* The steps of others: nothing but the tables changes. *)
LEMMA TableSafe ==
    ASSUME IInv, Keeps, TypeOK', UNCHANGED stream,
           \A c \in ConvIds : message'[c] = message[c] \/ message'[c] = <<>>
    PROVE  IInv'
<1>1. \A p \in Questions : stream'[p] # None => Sound(p)' /\ FinalOK(p)'
  BY OthersSafe
<1>2. ASSUME NEW c \in ConvIds, NEW i \in 1 .. Len(message'[c]) PROVE Placed(c, i)'
  <2>1. message'[c] = message[c]
    BY <1>2
  <2> QED
    BY <1>2, <2>1 DEF IInv, Placed
<1>3. TranscriptInOrder'
  <2> SUFFICES ASSUME NEW c \in ConvIds, NEW i \in 1 .. Len(message'[c]),
                      NEW j \in 1 .. Len(message'[c]),
                      i < j, message'[c][i].of = message'[c][j].of
               PROVE  message'[c][i].role = "USER" /\ message'[c][j].role = "ASSISTANT"
    BY DEF TranscriptInOrder
  <2>1. message'[c] = message[c]
    OBVIOUS
  <2> QED
    BY <2>1 DEF IInv, TranscriptInOrder
<1> QED
  BY <1>1, <1>2, <1>3 DEF IInv

LEMMA TablesSafe ==
    ASSUME IInv,
           \/ \E c \in ConvIds : CreateConversation(c) \/ DeleteConversation(c)
           \/ \E f \in FileIds : ChangeFile(f)
           \/ DeleteSpace
    PROVE  IInv'
<1>1. ASSUME NEW c \in ConvIds, CreateConversation(c) PROVE IInv'
  <2>0. /\ UNCHANGED <<space, file, message, stream>>
        /\ conv[c] = "new" /\ conv' = [conv EXCEPT ![c] = "open"]
    BY <1>1 DEF CreateConversation
  <2>1. TypeOK'
    BY <2>0 DEF IInv, TypeOK
  <2>2. Keeps
    BY <2>0 DEF IInv, TypeOK, Keeps, Stored
  <2> QED
    BY <2>0, <2>1, <2>2, TableSafe
<1>2. ASSUME NEW c \in ConvIds, DeleteConversation(c) PROVE IInv'
  <2>1. /\ DOMAIN message' = ConvIds /\ message'[c] = <<>>
        /\ \A d \in ConvIds \ {c} : message'[d] = message[d]
    BY <1>2 DEF DeleteConversation, IInv, TypeOK
  <2>2. \A d \in ConvIds : message'[d] \in Seq(Message)
    <3>1. message'[c] \in Seq(Message)
      BY <2>1
    <3>2. \A d \in ConvIds \ {c} : message'[d] \in Seq(Message)
      BY <2>1 DEF IInv, TypeOK
    <3> QED
      BY <3>1, <3>2
  <2>3. TypeOK'
    BY <1>2, <2>1, <2>2 DEF DeleteConversation, IInv, TypeOK
  <2>4. Keeps
    BY <1>2, <2>1 DEF DeleteConversation, IInv, TypeOK, Keeps, Stored
  <2> QED
    BY <1>2, <2>1, <2>3, <2>4, TableSafe DEF DeleteConversation
<1>3. ASSUME NEW f \in FileIds, ChangeFile(f) PROVE IInv'
  <2>1. TypeOK' /\ Keeps
    BY <1>3 DEF ChangeFile, IInv, TypeOK, Keeps, Stored
  <2> QED
    BY <1>3, <2>1, TableSafe DEF ChangeFile
<1>4. CASE DeleteSpace
  <2>1. \A c \in ConvIds : message'[c] = <<>> /\ message'[c] \in Seq(Message)
    BY <1>4 DEF DeleteSpace
  <2>2. TypeOK'
    BY <1>4, <2>1 DEF DeleteSpace, IInv, TypeOK
  <2>3. Keeps
    BY <1>4 DEF DeleteSpace, IInv, TypeOK, Keeps
  <2> QED
    BY <1>4, <2>1, <2>2, <2>3, TableSafe DEF DeleteSpace
<1> QED
  BY <1>1, <1>2, <1>3, <1>4

LEMMA CrashSafe == ASSUME IInv, Crash PROVE IInv'
<1>1. UNCHANGED tables
  BY DEF Crash
<1>2. ASSUME NEW q \in Questions, stream[q] # None
      PROVE  /\ stream'[q] \in Stream /\ stream'[q] # None
             /\ stream'[q].conv = stream[q].conv /\ stream'[q].pc = "over"
             /\ stream'[q].response # "running"
             /\ stream'[q].client = "failed" => stream[q].client = "failed"
             /\ stream'[q].final # None =>
                   /\ stream'[q].final = stream[q].final
                   /\ stream'[q].heard = stream[q].heard
                   /\ stream'[q].client = "done"
  <2> DEFINE k == Ends(stream[q], "lost")
  <2>1. /\ k \in Clients /\ stream[q] \in Stream /\ Sound(q)
        /\ k = "failed" => stream[q].client = "failed"
        /\ stream[q].client = "done" => k = "done"
    BY <1>2, StreamType DEF Ends, Clients
  <2> HIDE DEF k
  <2>2. CASE stream[q].pc = "over"
    <3> DEFINE s == [stream[q] EXCEPT !.client = k]
    <3>1. stream'[q] = s
      BY <1>2, <2>2 DEF Crash, k
    <3>2. /\ s \in Stream /\ s.pc = "over" /\ s.conv = stream[q].conv /\ s.client = k
          /\ s.response = stream[q].response /\ s.heard = stream[q].heard
          /\ s.final = stream[q].final
      BY <2>1, <2>2 DEF Stream, Clients
    <3> HIDE DEF s
    <3> QED
      BY <2>1, <2>2, <3>1, <3>2 DEF Sound
  <2>3. CASE stream[q].pc # "over"
    <3>1. stream'[q] = Over(stream[q], k)
      BY <1>2, <2>3 DEF Crash, k
    <3> QED
      BY <2>1, <3>1, OverType
  <2> QED
    BY <2>2, <2>3
<1>3. \A q \in Questions : stream[q] = None => stream'[q] = None
  BY DEF Crash
<1>4. stream' \in [Questions -> Stream \union {None}]
  <2>1. \A q \in Questions : stream'[q] \in Stream \union {None}
    BY <1>2, <1>3
  <2> QED
    BY <2>1 DEF Crash
<1>5. TypeOK'
  BY <1>1, <1>4 DEF IInv, TypeOK, tables
<1>6. ASSUME NEW q \in Questions, stream'[q] # None PROVE Sound(q)' /\ FinalOK(q)'
  <2>1. stream[q] # None
    BY <1>3, <1>6
  <2>2. Sound(q) /\ FinalOK(q)
    BY <2>1, StreamType
  <2>3. Sound(q)'
    BY <1>1, <1>2, <2>1, <2>2 DEF Sound, tables
  <2>4. CASE stream'[q].final = None
    BY <2>3, <2>4 DEF FinalOK
  <2>5. CASE stream'[q].final # None
    <3>1. /\ stream'[q].final = stream[q].final /\ stream'[q].conv = stream[q].conv
          /\ stream'[q].heard = stream[q].heard
      BY <1>2, <2>1, <2>5
    <3>2. FinalOK(q)'
      BY <1>1, <2>2, <3>1 DEF FinalOK, Stored, tables
    <3> QED
      BY <2>3, <3>2
  <2> QED
    BY <2>4, <2>5
<1>7. ASSUME NEW c \in ConvIds, NEW i \in 1 .. Len(message'[c]) PROVE Placed(c, i)'
  <2>1. message'[c] = message[c] /\ message[c][i] \in Message /\ Placed(c, i)
    BY <1>1, <1>7 DEF tables, IInv, TypeOK
  <2>2. message[c][i].of \in Questions
    BY <2>1 DEF Message
  <2> QED
    BY <1>1, <1>2, <2>1, <2>2 DEF Placed, Early, Late
<1>8. TranscriptInOrder'
  BY <1>1 DEF IInv, TranscriptInOrder, tables
<1> QED
  BY <1>5, <1>6, <1>7, <1>8 DEF IInv
-----------------------------------------------------------------------------
LEMMA NextIInv == IInv /\ [Next]_vars => IInv'
<1> SUFFICES ASSUME IInv, [Next]_vars PROVE IInv'
  OBVIOUS
<1>1. ASSUME NEW q \in Questions, Step(q) \/ Respond(q) \/ Token(q)
      PROVE  IInv'
  BY <1>1, RouteSafe, AskSafe, ReplySafe, SendSafe, OpenResponseSafe, EndingSafe,
     BreakingSafe, TokenSafe DEF Step, Respond
<1>2. CASE UNCHANGED vars
  <2>1. Keeps /\ TypeOK'
    BY <1>2 DEF vars, Keeps, Stored, IInv, TypeOK
  <2> QED
    BY <1>2, <2>1, TableSafe DEF vars
<1> QED
  BY <1>1, <1>2, PostSafe, TablesSafe, CrashSafe DEF Next

LEMMA Invariance == Spec => []IInv
  BY InitIInv, NextIInv, PTL DEF Spec

(* The variables keep their types. *)
THEOREM TypeCorrect == Spec => []TypeOK
<1>1. IInv => TypeOK
  BY DEF IInv
<1> QED
  BY <1>1, Invariance, PTL

(* What a client has been told at the end of a stream is in the            *)
(* transcript, until the conversation is deleted.                          *)
THEOREM FinalHasBeenStored == Spec => []FinalIsPersisted
<1>1. IInv => FinalIsPersisted
  BY DEF IInv, FinalOK, FinalIsPersisted
<1> QED
  BY <1>1, Invariance, PTL

(* A reply in the transcript was not reported as an error. *)
LEMMA AnswersDidNotFail ==
    ASSUME IInv, NEW q \in Questions, Answered(q)
    PROVE  stream[q].client # "failed"
<1>1. PICK c \in ConvIds : \E i \in 1 .. Len(message[c]) :
         message[c][i].role = "ASSISTANT" /\ message[c][i].of = q
  BY DEF Answered
<1> QED
  BY <1>1 DEF IInv, Placed

(* A stream that has reported an error leaves no reply behind, whatever    *)
(* the order of completion, failure and break.                             *)
THEOREM ErrorsAreUnanswered == Spec => []ErrorMeansUnanswered
<1>1. IInv => ErrorMeansUnanswered
  BY AnswersDidNotFail DEF ErrorMeansUnanswered
<1> QED
  BY <1>1, Invariance, PTL

(* A transcript holds a question once and after it at most one reply. *)
THEOREM TranscriptOrdered == Spec => []TranscriptInOrder
<1>1. IInv => TranscriptInOrder
  BY DEF IInv
<1> QED
  BY <1>1, Invariance, PTL
=============================================================================
