---------------------------- MODULE Conversations ----------------------------
(***************************************************************************)
(* The conversations of one space: ConversationService.  A question is one *)
(* POST to a conversation's messages.  It stores the message, asks OpenAI  *)
(* and hands the answer to an observer, as tokens and one final event; the *)
(* handlers of the response stream await the database on their own.        *)
(*                                                                         *)
(* Of the observer: an event that is sent after complete or error is       *)
(* dropped, and either runs the teardown, which aborts a response that has *)
(* not ended.  The source's streamClosed is stream[q].client # "open".     *)
(* The route is a plain POST: nobody unsubscribes from the observable, so  *)
(* a client that disconnects changes nothing, and its reply is written and *)
(* stored as if it were there.  Of the response stream: its final response *)
(* resolves when the stream has ended, and rejects when it breaks.         *)
(* Membership checks are not modelled here (see Invitations).              *)
(***************************************************************************)
EXTENDS Naturals, Sequences

CONSTANTS
    ConvIds,     \* primary keys of Conversation
    Questions,   \* POSTs of a message
    FileIds,     \* files of the space
    None,        \* null, or not there
    MaxTokens,   \* bound: tokens of one answer
    Faults       \* what may fail

Calls == {"db", "hydrate", "stream", "failed", "broken", "silent"}

Role == {"USER", "ASSISTANT"}

(* A message: its question stands for its id, its text is its length. *)
Message == [role : Role, of : Questions, text : 0 .. MaxTokens,
            files : SUBSET FileIds]

Statements == {"access", "ask", "space", "decide", "decline", "sendFallback",
               "history", "open", "listen", "final", "references", "reply",
               "hydrate", "over"}

Stream == [pc : Statements,
           conv : ConvIds,
           client : {"open", "done", "failed", "unread", "lost"},
           response : {"none", "running", "completed", "ended", "broken", "silent"},
           text : 0 .. MaxTokens,         \* assistantText
           cited : SUBSET FileIds,        \* of the answer, then stored ones
           heard : 0 .. MaxTokens,        \* history: token events delivered
           final : Message \union {None}] \* history: final event delivered

ASSUME ConversationsAssumption ==
    /\ MaxTokens \in Nat
    /\ None \notin Message /\ None \notin Stream
    /\ Faults \subseteq Calls

VARIABLES
    space,    \* the space row exists
    conv,     \* the Conversation table: new, open or deleted
    file,     \* the files: new, SUCCESS, FAILED with an OpenAI id, or gone
    message,  \* the ConversationMessage table, by conversation and createdAt
    stream    \* the questions

vars == <<space, conv, file, message, stream>>
tables == <<space, conv, file, message>>

Init ==
    /\ space = TRUE
    /\ conv = [c \in ConvIds |-> "new"]
    /\ file = [f \in FileIds |-> "new"]
    /\ message = [c \in ConvIds |-> <<>>]
    /\ stream = [q \in Questions |-> None]
-----------------------------------------------------------------------------
At(q, p) == stream[q] # None /\ stream[q].pc = p

MayFail(call) == call \in Faults

(* A new request, with nothing read yet *)
Fresh(c) == [pc |-> "access", conv |-> c, client |-> "open", response |-> "none",
             text |-> 0, cited |-> {}, heard |-> 0, final |-> None]

(* The client of s after one more end of the stream: only the first counts *)
Ends(s, how) == IF s.client = "open" THEN how ELSE s.client

(* The handlers are through: of the request only what the client saw is    *)
(* left.                                                                   *)
Over(s, client) == [Fresh(s.conv) EXCEPT !.pc = "over", !.client = client]

(* handleError: observer.error, unless the stream is closed *)
Failed(s) == Over(s, Ends(s, "failed"))
HandleError(q) == stream' = [stream EXCEPT ![q] = Failed(@)]

Goto(q, p) == stream' = [stream EXCEPT ![q].pc = p]

(* conversationMessage.create; the foreign key refuses a message of a      *)
(* conversation that has been deleted.                                     *)
CanStore(c) == conv[c] = "open"
StoreMessage(c, m) == message' = [message EXCEPT ![c] = Append(@, m)]

(* observer.next of the final event, then closeStream *)
SendFinal(q, m) ==
    stream' = [stream EXCEPT ![q] =
                 IF @.client = "open"
                   THEN [Over(@, "done") EXCEPT !.heard = stream[q].heard, !.final = m]
                   ELSE Over(@, @.client)]

(* The files that have an OpenAI id and a row *)
Known == {f \in FileIds : file[f] \in {"SUCCESS", "FAILED"}}

(* extractReferencedFileIds: what a response may name in its search        *)
(* results and annotations, files that have been removed since included    *)
Citable == {f \in FileIds : file[f] # "new"}

(* The message that question q has stored or is about to store *)
Question(q) == [role |-> "USER", of |-> q, text |-> 0, files |-> {}]
Reply(q) == [role |-> "ASSISTANT", of |-> q, text |-> stream[q].text,
             files |-> stream[q].cited]
-----------------------------------------------------------------------------
CreateConversation(c) ==
    /\ space /\ conv[c] = "new"
    /\ conv' = [conv EXCEPT ![c] = "open"]
    /\ UNCHANGED <<space, file, message, stream>>

(* The messages go with their conversation. *)
DeleteConversation(c) ==
    /\ conv[c] = "open"
    /\ conv' = [conv EXCEPT ![c] = "deleted"]
    /\ message' = [message EXCEPT ![c] = <<>>]
    /\ UNCHANGED <<space, file, stream>>

(* The cascade of a space's deletion *)
DeleteSpace ==
    /\ space
    /\ space' = FALSE
    /\ conv' = [c \in ConvIds |-> IF conv[c] = "open" THEN "deleted" ELSE conv[c]]
    /\ message' = [c \in ConvIds |-> <<>>]
    /\ file' = [f \in FileIds |-> IF file[f] = "new" THEN "new" ELSE "gone"]
    /\ UNCHANGED stream

(* Uploads, status refreshes and removals (see Files) *)
ChangeFile(f) ==
    /\ space
    /\ \E s \in {"SUCCESS", "FAILED", "gone"} :
          /\ file[f] # "gone" /\ s # file[f]
          /\ file[f] = "new" => s = "SUCCESS"
          /\ file' = [file EXCEPT ![f] = s]
    /\ UNCHANGED <<space, conv, message, stream>>
-----------------------------------------------------------------------------
(* The role guard has found the conversation. *)
Post(q, c) ==
    /\ stream[q] = None
    /\ conv[c] = "open"
    /\ stream' = [stream EXCEPT ![q] = Fresh(c)]
    /\ UNCHANGED tables

Access(q) ==
    /\ At(q, "access")
    /\ IF conv[stream[q].conv] = "open" THEN Goto(q, "ask") ELSE HandleError(q)
    /\ UNCHANGED tables

(* The question is stored before anything can refuse to answer it. *)
Ask(q) ==
    /\ At(q, "ask")
    /\ IF CanStore(stream[q].conv)
         THEN StoreMessage(stream[q].conv, Question(q)) /\ Goto(q, "space")
         ELSE HandleError(q) /\ UNCHANGED message
    /\ UNCHANGED <<space, conv, file>>

(* space.findUnique; a space is created with its vector store, so its id   *)
(* is never null.                                                          *)
FindSpace(q) ==
    /\ At(q, "space")
    /\ IF space THEN Goto(q, "decide") ELSE HandleError(q)
    /\ UNCHANGED tables

(* shouldDeclineAssistantResponse *)
Decide(q) ==
    /\ At(q, "decide")
    /\ Goto(q, IF \E f \in FileIds : file[f] = "SUCCESS" THEN "history" ELSE "decline")
    /\ UNCHANGED tables

(* A slip: the branch that declines does not return. *)
DeclineAndGoOn(q) ==
    /\ At(q, "decline")
    /\ IF CanStore(stream[q].conv)
         THEN StoreMessage(stream[q].conv, Reply(q)) /\ Goto(q, "history")
         ELSE HandleError(q) /\ UNCHANGED message
    /\ UNCHANGED <<space, conv, file>>

(* The fallback text is stored as the reply; it has no tokens. *)
Decline(q) ==
    /\ At(q, "decline")
    /\ IF CanStore(stream[q].conv)
         THEN StoreMessage(stream[q].conv, Reply(q)) /\ Goto(q, "sendFallback")
         ELSE HandleError(q) /\ UNCHANGED message
    /\ UNCHANGED <<space, conv, file>>

SendFallback(q) ==
    /\ At(q, "sendFallback")
    /\ SendFinal(q, Reply(q))
    /\ UNCHANGED tables

(* The transcript is read, to be sent to OpenAI. *)
FindHistory(q) ==
    /\ At(q, "history")
    /\ Goto(q, "open")
    /\ UNCHANGED tables

(* responses.stream, and the handlers *)
OpenResponse(q) ==
    /\ At(q, "open")
    /\ \/ stream' = [stream EXCEPT ![q].pc = "listen", ![q].response = "running"]
       \/ MayFail("stream") /\ HandleError(q)
    /\ UNCHANGED tables
-----------------------------------------------------------------------------
Running(q) == At(q, "listen") /\ stream[q].response = "running"

(* A slip: the delta is passed on and not added to the text. *)
TokenNotKept(q) ==
    /\ Running(q) /\ stream[q].text < MaxTokens /\ stream[q].heard < MaxTokens
    /\ stream' = [stream EXCEPT ![q].heard = IF stream[q].client = "open" THEN @ + 1 ELSE @]
    /\ UNCHANGED tables

(* response.output_text.delta *)
Token(q) ==
    /\ Running(q) /\ stream[q].text < MaxTokens
    /\ stream' = [stream EXCEPT
                    ![q].text = @ + 1,
                    ![q].heard = IF stream[q].client = "open" THEN @ + 1 ELSE @]
    /\ UNCHANGED tables

(* response.completed: the handler awaits the final response, which cites  *)
(* files of the vector store.                                              *)
Completed(q) ==
    /\ Running(q)
    /\ \E F \in SUBSET Citable :
          stream' = [stream EXCEPT ![q].pc = "final", ![q].response = "completed",
                                   ![q].cited = F]
    /\ UNCHANGED tables

(* A slip: response.failed is logged and nothing else. *)
FailedUnhandled(q) ==
    /\ Running(q) /\ MayFail("failed")
    /\ stream' = [stream EXCEPT ![q] = Over(@, @.client)]
    /\ UNCHANGED tables

(* response.failed *)
ResponseFailed(q) ==
    /\ Running(q) /\ MayFail("failed")
    /\ HandleError(q)
    /\ UNCHANGED tables

(* The error event, perhaps between completion and the end of the stream:  *)
(* then the handler of the completion goes on beside that of the error.    *)
Broken(q) ==
    /\ MayFail("broken")
    /\ \/ Running(q) /\ HandleError(q)
       \/ /\ At(q, "final") /\ stream[q].response = "completed"
          /\ stream' = [stream EXCEPT ![q].response = "broken",
                                      ![q].client = Ends(stream[q], "failed")]
    /\ UNCHANGED tables

(* The response ends with no event that a handler waits for: with          *)
(* response.incomplete, or with none at all.                               *)
EndsSilently(q) ==
    /\ Running(q) /\ MayFail("silent")
    /\ stream' = [stream EXCEPT ![q] = [Over(@, @.client) EXCEPT
                                         !.response = "silent"]]
    /\ UNCHANGED tables

StreamEnded(q) ==
    /\ At(q, "final") /\ stream[q].response = "completed"
    /\ stream' = [stream EXCEPT ![q].response = "ended"]
    /\ UNCHANGED tables
-----------------------------------------------------------------------------
(* A slip: the text is stored without waiting for the final response. *)
FinalNotAwaited(q) ==
    /\ At(q, "final")
    /\ Goto(q, "references")
    /\ UNCHANGED tables

(* finalResponse() resolves or rejects *)
Final(q) ==
    /\ At(q, "final")
    /\ \/ stream[q].response = "ended" /\ Goto(q, "references")
       \/ stream[q].response = "broken" /\ HandleError(q)
    /\ UNCHANGED tables

(* A slip: a citation that no file resolves is kept, as null. *)
ReferencesWithNull(q) ==
    /\ At(q, "references")
    /\ stream' = [stream EXCEPT
                    ![q].pc = "reply",
                    ![q].cited = {IF f \in Known THEN f ELSE None : f \in @}]
    /\ UNCHANGED tables

(* buildStoredReferences: the cited files that are known by an OpenAI id *)
References(q) ==
    /\ At(q, "references")
    /\ stream' = [stream EXCEPT ![q].pc = "reply", ![q].cited = @ \intersect Known]
    /\ UNCHANGED tables

(* persistAssistantMessage *)
StoreReply(q) ==
    /\ At(q, "reply")
    /\ IF CanStore(stream[q].conv)
         THEN StoreMessage(stream[q].conv, Reply(q)) /\ Goto(q, "hydrate")
         ELSE HandleError(q) /\ UNCHANGED message
    /\ UNCHANGED <<space, conv, file>>

(* hydrateMessage: of the stored references the files that still exist.    *)
(* Only a reply with references reads the database here; an error after    *)
(* the reply has been stored leaves it unread.                             *)
Hydrate(q) ==
    /\ At(q, "hydrate")
    /\ \/ SendFinal(q, [Reply(q) EXCEPT !.files = @ \intersect Known])
       \/ /\ MayFail("hydrate") /\ stream[q].cited # {}
          /\ stream' = [stream EXCEPT ![q] = Over(@, Ends(@, "unread"))]
    /\ UNCHANGED tables

(* A statement on the database throws, the insert of the reply also when   *)
(* the answer is longer than its column.                                   *)
StatementFails(q) ==
    /\ MayFail("db")
    /\ stream[q] # None
    /\ stream[q].pc \in {"access", "ask", "space", "decide", "decline", "history",
                         "references", "reply"}
    /\ HandleError(q)
    /\ UNCHANGED tables
-----------------------------------------------------------------------------
(* The process dies, and every stream with it. *)
Crash ==
    /\ stream' = [q \in Questions |->
                    IF stream[q] = None THEN None
                    ELSE IF stream[q].pc = "over"
                      THEN [stream[q] EXCEPT !.client = Ends(stream[q], "lost")]
                    ELSE Over(stream[q], Ends(stream[q], "lost"))]
    /\ UNCHANGED tables

Step(q) ==
    \/ Access(q) \/ Ask(q) \/ FindSpace(q) \/ Decide(q)
    \/ Decline(q) \/ SendFallback(q) \/ FindHistory(q) \/ OpenResponse(q)
    \/ Final(q) \/ References(q) \/ StoreReply(q) \/ Hydrate(q)
    \/ StatementFails(q)

(* OpenAI brings a response to an end, or the connection to it breaks. *)
Respond(q) ==
    \/ Completed(q) \/ StreamEnded(q) \/ ResponseFailed(q) \/ Broken(q)
    \/ EndsSilently(q)

Next ==
    \/ \E c \in ConvIds : CreateConversation(c) \/ DeleteConversation(c)
    \/ \E f \in FileIds : ChangeFile(f)
    \/ DeleteSpace \/ Crash
    \/ \E q \in Questions :
          \/ \E c \in ConvIds : Post(q, c)
          \/ Token(q) \/ Step(q) \/ Respond(q)

Spec == Init /\ [][Next]_vars

(* Statements come to an end and so do responses; nobody has to ask        *)
(* anything.                                                               *)
FairSpec == Spec /\ \A q \in Questions : WF_vars(Step(q)) /\ WF_vars(Respond(q))
-----------------------------------------------------------------------------
(* The variables keep their types. *)
TypeOK ==
    /\ space \in BOOLEAN
    /\ conv \in [ConvIds -> {"new", "open", "deleted"}]
    /\ file \in [FileIds -> {"new", "SUCCESS", "FAILED", "gone"}]
    /\ \A c \in ConvIds : message[c] \in Seq(Message)
    /\ DOMAIN message = ConvIds
    /\ stream \in [Questions -> Stream \union {None}]

(* Whether m is among the messages of c *)
Stored(c, m) == \E i \in 1 .. Len(message[c]) : message[c][i] = m
Answered(q) ==
    \E c \in ConvIds : \E i \in 1 .. Len(message[c]) :
       message[c][i].role = "ASSISTANT" /\ message[c][i].of = q

(* README.md:106: the final event contains the persisted message.  What a  *)
(* client has been told, with the tokens that came before it, is in the    *)
(* transcript until the conversation is deleted, with at least the         *)
(* references it was shown.                                                *)
FinalIsPersisted ==
    \A q \in Questions :
        stream[q] # None /\ stream[q].final # None =>
            /\ stream[q].final.text = stream[q].heard
            /\ conv[stream[q].conv] = "open" =>
                 \E F \in SUBSET FileIds :
                     /\ stream[q].final.files \subseteq F
                     /\ Stored(stream[q].conv, [stream[q].final EXCEPT !.files = F])

(* A stream that has reported an error leaves no reply behind, whichever   *)
(* of the handlers of completion, failure and error comes first.  The one  *)
(* exception is a reply that is stored and then cannot be hydrated.        *)
ErrorMeansUnanswered ==
    \A q \in Questions :
        stream[q] # None /\ stream[q].client = "failed" => ~Answered(q)

(* A transcript holds each question once and after it at most one reply.   *)
TranscriptInOrder ==
    \A c \in ConvIds : \A i, j \in 1 .. Len(message[c]) :
        i < j /\ message[c][i].of = message[c][j].of =>
            message[c][i].role = "USER" /\ message[c][j].role = "ASSISTANT"

(* A client gets a complete or an error: no path through the handlers      *)
(* leaves it waiting, but for a response that ends silently.               *)
StreamEnds ==
    \A q \in Questions :
        stream[q] # None /\ stream[q].client = "open"
            ~> /\ stream[q] # None
               /\ stream[q].client # "open" \/ stream[q].response = "silent"
=============================================================================
