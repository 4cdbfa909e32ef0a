------------------------------ MODULE ChatTurns ------------------------------
(***************************************************************************)
(* The chat core of the API (chat.py, generations.py, and the parts of     *)
(* conversations.py and settings/routes.py that change conversations):     *)
(* concurrent requests that ask, stream, retry, rename, archive and delete *)
(* over one PostgreSQL database.                                           *)
(*                                                                         *)
(* A request is one HTTP call and one database transaction, READ COMMITTED *)
(* as the engine is left at its default.  What a handler reads and what it *)
(* later writes are separate steps; what it writes appears to the others   *)
(* when it commits.  A request r stores at most one user message, its      *)
(* question, and one assistant message, its answer, so the rows are named  *)
(* by the request.                                                         *)
(***************************************************************************)
CONSTANTS Conversations,   \* ids a conversation can get
          Requests,        \* chat, stream and retry calls, each made once
          None             \* no conversation, no request

ASSUME NoneAssumption == None \notin Conversations \cup Requests

VARIABLES
  conversation,   \* conversation -> absent, open, archived or deleted
  title,          \* conversation -> a placeholder, or given
  kind,           \* request -> the endpoint called
  pc,             \* request -> where its handler or its generator stands
  target,         \* request -> the conversation of its messages
  retryOf,        \* request -> the request whose answer it replaces
  untitled,       \* request -> it read a placeholder title (while its turn lasts)
  cited,          \* request -> retrieval found citations
  context,        \* request -> the messages given to the provider
  question,       \* request -> its user message is stored
  answer,         \* request -> the status of its assistant message
  parts,          \* request -> the kinds of part its assistant message has
  task            \* request -> a finalization task is scheduled

rows == <<conversation, title, question, answer, parts>>
request == <<kind, target, retryOf, untitled, cited, context>>
vars == <<rows, request, pc, task>>

(* The status of an assistant message once it is settled, and with the     *)
(* absence of the row, before it is inserted or after it is deleted.       *)
Terminal == {"complete", "cancelled", "failed"}
Status == {"absent", "streaming", "deleted"} \cup Terminal

(* Where events() stands while the generator of a streamed answer lives:   *)
(* not started or yielding citations, in the provider, yielding a token,   *)
(* in one of the two finalizations.                                        *)
Generating == {"opened", "awaiting", "sending", "completing", "failing"}

(* The transaction of a turn is open.                                      *)
InTransaction == {"retrieving", "asked"}

Messages == Requests \X {"user", "assistant"}

TypeOK ==
  /\ conversation \in [Conversations -> {"absent", "open", "archived", "deleted"}]
  /\ title \in [Conversations -> {"placeholder", "given"}]
  /\ kind \in [Requests -> {"none", "chat", "stream", "retry"}]
  /\ pc \in [Requests -> {"idle", "closed", "abandoned"} \cup InTransaction \cup Generating]
  /\ target \in [Requests -> Conversations \cup {None}]
  /\ retryOf \in [Requests -> Requests \cup {None}]
  /\ untitled \in [Requests -> BOOLEAN]
  /\ cited \in [Requests -> BOOLEAN]
  /\ context \in [Requests -> SUBSET Messages]
  /\ question \in [Requests -> BOOLEAN]
  /\ answer \in [Requests -> Status]
  /\ parts \in [Requests -> SUBSET {"text", "citation"}]
  /\ task \in [Requests -> BOOLEAN]

Init ==
  /\ conversation = [c \in Conversations |-> "absent"]
  /\ title = [c \in Conversations |-> "placeholder"]
  /\ kind = [r \in Requests |-> "none"]
  /\ pc = [r \in Requests |-> "idle"]
  /\ target = [r \in Requests |-> None]
  /\ retryOf = [r \in Requests |-> None]
  /\ untitled = [r \in Requests |-> FALSE]
  /\ cited = [r \in Requests |-> FALSE]
  /\ context = [r \in Requests |-> {}]
  /\ question = [r \in Requests |-> FALSE]
  /\ answer = [r \in Requests |-> "absent"]
  /\ parts = [r \in Requests |-> {}]
  /\ task = [r \in Requests |-> FALSE]

(***************************************************************************)
(* Row locks.  The flush of a user message updates the conversation when   *)
(* the title is still a placeholder (an exclusive row lock) and inserts a  *)
(* row that refers to it (a key-share lock that only a DELETE waits for).  *)
(* Both are held until the transaction ends.                               *)
(***************************************************************************)
Asking(r, c) == pc[r] = "asked" /\ kind[r] # "retry" /\ target[r] = c

TitleLocked(c) == \E r \in Requests : Asking(r, c) /\ untitled[r]

Referenced(c) == \E r \in Requests : Asking(r, c)

(* Fault: every stored message counts, finished or not (an outer join).    *)
HistoryOfAllRows(c) ==
  {<<r, "user">> : r \in {q \in Requests : target[q] = c /\ question[q]}} \cup
  {<<r, "assistant">> : r \in {q \in Requests :
                                 target[q] = c /\ answer[q] \notin {"absent", "deleted"}}}

(* The committed messages of c that have a text part.                      *)
History(c) ==
  {<<r, "user">> : r \in {q \in Requests : target[q] = c /\ question[q]}} \cup
  {<<r, "assistant">> : r \in {q \in Requests : target[q] = c /\ "text" \in parts[q]}}

-----------------------------------------------------------------------------
(* Conversations                                                           *)

CreateConversation(c) ==
  /\ conversation[c] = "absent"
  /\ conversation' = [conversation EXCEPT ![c] = "open"]
  /\ \E t \in {"placeholder", "given"} : title' = [title EXCEPT ![c] = t]
  /\ UNCHANGED <<question, answer, parts, request, pc, task>>

RenameConversation(c) ==
  /\ conversation[c] = "open"
  /\ ~TitleLocked(c)
  /\ title' = [title EXCEPT ![c] = "given"]
  /\ UNCHANGED <<conversation, question, answer, parts, request, pc, task>>

ArchiveConversation(c) ==
  /\ conversation[c] = "open"
  /\ ~TitleLocked(c)
  /\ conversation' = [conversation EXCEPT ![c] = "archived"]
  /\ UNCHANGED <<title, question, answer, parts, request, pc, task>>

Existing == {c \in Conversations : conversation[c] \in {"open", "archived"}}

(* DELETE /settings/conversations: archived ones included; the database    *)
(* cascades to messages and parts, and waits for the turns that refer to   *)
(* the conversations to end.                                               *)
DeleteConversations ==
  /\ Existing # {}
  /\ \A c \in Existing : ~Referenced(c)
  /\ conversation' = [c \in Conversations |->
                        IF c \in Existing THEN "deleted" ELSE conversation[c]]
  /\ question' = [r \in Requests |-> question[r] /\ target[r] \notin Existing]
  /\ answer' = [r \in Requests |->
                  IF target[r] \in Existing /\ answer[r] # "absent"
                  THEN "deleted" ELSE answer[r]]
  /\ parts' = [r \in Requests |-> IF target[r] \in Existing THEN {} ELSE parts[r]]
  /\ UNCHANGED <<title, request, pc, task>>

-----------------------------------------------------------------------------
(* A turn: POST /chat and POST /chat/stream                                *)

(* owned_conversation and maybe_auto_title: the title is read, and changed *)
(* in memory only; the retrieval of citations follows.                     *)
BeginTurn(r, c) ==
  /\ pc[r] = "idle"
  /\ conversation[c] = "open"
  /\ \E k \in {"chat", "stream"} : kind' = [kind EXCEPT ![r] = k]
  /\ pc' = [pc EXCEPT ![r] = "retrieving"]
  /\ target' = [target EXCEPT ![r] = c]
  /\ untitled' = [untitled EXCEPT ![r] = title[c] = "placeholder"]
  /\ UNCHANGED <<rows, retryOf, cited, context, task>>

(* The user message is flushed, which waits for another turn's title       *)
(* update, and the history is read with it.  If the conversation is gone   *)
(* the flush fails and so does the request (FailTurn).                     *)
Ask(r) ==
  /\ pc[r] = "retrieving"
  /\ conversation[target[r]] # "deleted"
  /\ untitled[r] => ~TitleLocked(target[r])
  /\ pc' = [pc EXCEPT ![r] = "asked"]
  /\ \E found \in BOOLEAN : cited' = [cited EXCEPT ![r] = found]
  /\ context' = [context EXCEPT ![r] = History(target[r]) \cup {<<r, "user">>}]
  /\ UNCHANGED <<rows, kind, target, retryOf, untitled, task>>

TitleWritten(r) ==
  IF untitled[r] THEN [title EXCEPT ![target[r]] = "given"] ELSE title

PartsOf(r) == {"text"} \cup (IF cited[r] THEN {"citation"} ELSE {})

(* The end of a transaction (the session of get_db_session is closed or    *)
(* committed): what it read of the title is forgotten.                     *)
Forget(r) ==
  /\ untitled' = [untitled EXCEPT ![r] = FALSE]
  /\ UNCHANGED <<kind, target, retryOf, cited, context>>

(* chat: the provider answered; question and answer are committed at once. *)
ReplyChat(r) ==
  /\ pc[r] = "asked" /\ kind[r] = "chat"
  /\ title' = TitleWritten(r)
  /\ question' = [question EXCEPT ![r] = TRUE]
  /\ answer' = [answer EXCEPT ![r] = "complete"]
  /\ parts' = [parts EXCEPT ![r] = PartsOf(r)]
  /\ pc' = [pc EXCEPT ![r] = "closed"]
  /\ Forget(r)
  /\ UNCHANGED <<conversation, task>>

(* Fault: the question is committed and its answer row is left for later.  *)
OpenStreamWithoutAnswer(r) ==
  /\ pc[r] = "asked" /\ kind[r] = "stream"
  /\ title' = TitleWritten(r)
  /\ question' = [question EXCEPT ![r] = TRUE]
  /\ pc' = [pc EXCEPT ![r] = "opened"]
  /\ Forget(r)
  /\ UNCHANGED <<conversation, answer, parts, task>>

(* chat_stream: the question and a streaming answer are committed before   *)
(* the response starts.                                                    *)
OpenStream(r) ==
  /\ pc[r] = "asked" /\ kind[r] = "stream"
  /\ title' = TitleWritten(r)
  /\ question' = [question EXCEPT ![r] = TRUE]
  /\ answer' = [answer EXCEPT ![r] = "streaming"]
  /\ pc' = [pc EXCEPT ![r] = "opened"]
  /\ Forget(r)
  /\ UNCHANGED <<conversation, parts, task>>

(* Anything raised before the commit (retrieval, the provider of a         *)
(* non-streamed call, the database) rolls the whole turn back.             *)
FailTurn(r) ==
  /\ pc[r] \in InTransaction
  /\ pc' = [pc EXCEPT ![r] = "closed"]
  /\ Forget(r)
  /\ UNCHANGED <<rows, task>>

-----------------------------------------------------------------------------
(* The generator events() of a streamed answer, and its finalization       *)

(* Faults: a draft is stored with every terminal status; the status of the *)
(* row is not looked at.                                                   *)
FinalizeWithDraft(r, s) ==
  IF answer[r] = "streaming"
  THEN /\ answer' = [answer EXCEPT ![r] = s]
       /\ parts' = [parts EXCEPT ![r] = PartsOf(r)]
  ELSE UNCHANGED <<answer, parts>>

FinalizeUnchecked(r, s) ==
  /\ answer' = [answer EXCEPT ![r] = s]
  /\ parts' = [parts EXCEPT ![r] = IF s = "complete" THEN PartsOf(r) ELSE @]

(* finalize_generation: the row is locked, and settled only if streaming.  *)
Finalize(r, s) ==
  IF answer[r] = "streaming"
  THEN /\ answer' = [answer EXCEPT ![r] = s]
       /\ parts' = [parts EXCEPT ![r] = IF s = "complete" THEN PartsOf(r) ELSE @]
  ELSE UNCHANGED <<answer, parts>>

Move(r, from, to) == pc[r] = from /\ pc' = [pc EXCEPT ![r] = to]

(* The citation events are out and the provider is awaited.                *)
BeginGeneration(r) ==
  /\ Move(r, "opened", "awaiting")
  /\ UNCHANGED <<rows, request, task>>

(* A token arrives; the generator is suspended at its yield.               *)
ReceiveToken(r) ==
  /\ Move(r, "awaiting", "sending")
  /\ UNCHANGED <<rows, request, task>>

(* The token is sent and the provider is awaited again.                    *)
SendToken(r) ==
  /\ Move(r, "sending", "awaiting")
  /\ UNCHANGED <<rows, request, task>>

(* The provider's stream ends, with or without an exception.               *)
EndGeneration(r) ==
  /\ \E to \in {"completing", "failing"} : Move(r, "awaiting", to)
  /\ UNCHANGED <<rows, request, task>>

FinalizeComplete(r) ==
  /\ Move(r, "completing", "closed")
  /\ Finalize(r, "complete")
  /\ UNCHANGED <<conversation, title, question, request, task>>

FinalizeFailed(r) ==
  /\ Move(r, "failing", "closed")
  /\ Finalize(r, "failed")
  /\ UNCHANGED <<conversation, title, question, request, task>>

(* Faults: the cancellation is swallowed, so that the generator goes on    *)
(* beside the task; no task is created.                                    *)
CancelAwaitingSwallowed(r) ==
  /\ pc[r] = "awaiting"
  /\ task' = [task EXCEPT ![r] = TRUE]
  /\ UNCHANGED <<rows, request, pc>>

CancelAwaitingWithoutTask(r) ==
  /\ Move(r, "awaiting", "closed")
  /\ UNCHANGED <<rows, request, task>>

(* The client goes away while the provider is awaited: CancelledError is   *)
(* raised in events(), which leaves the finalization to a task.            *)
CancelAwaiting(r) ==
  /\ Move(r, "awaiting", "closed")
  /\ task' = [task EXCEPT ![r] = TRUE]
  /\ UNCHANGED <<rows, request>>

(* The client goes away while the generator is not started or is suspended *)
(* at a yield (the response is cancelled in its send, the generator is     *)
(* closed), or while a finalization is awaited in it, whose transaction    *)
(* rolls back: no handler of events() runs.                                *)
CancelElsewhere(r) ==
  /\ \E from \in Generating \ {"awaiting"} : Move(r, from, "abandoned")
  /\ UNCHANGED <<rows, request, task>>

(* Fault: a status that no reader knows.                                   *)
RunTaskMisspelt(r) ==
  /\ task[r]
  /\ task' = [task EXCEPT ![r] = FALSE]
  /\ Finalize(r, "canceled")
  /\ UNCHANGED <<conversation, title, question, request, pc>>

(* The task that events() left behind, in a session of its own.            *)
RunTask(r) ==
  /\ task[r]
  /\ task' = [task EXCEPT ![r] = FALSE]
  /\ Finalize(r, "cancelled")
  /\ UNCHANGED <<conversation, title, question, request, pc>>

(* A finalization that raises: nothing catches it and nothing repeats it.  *)
LoseFinalization(r) ==
  /\ task[r] \/ pc[r] \in {"completing", "failing"}
  /\ pc' = [pc EXCEPT ![r] = "abandoned"]
  /\ task' = [task EXCEPT ![r] = FALSE]
  /\ UNCHANGED <<rows, request>>

-----------------------------------------------------------------------------
(* POST /chat/messages/{id}/retry                                          *)

(* Fault: any assistant message can be retried.                            *)
BeginRetryUnchecked(r, o) ==
  /\ pc[r] = "idle"
  /\ answer[o] \notin {"absent", "deleted"}
  /\ conversation[target[o]] = "open"
  /\ kind' = [kind EXCEPT ![r] = "retry"]
  /\ pc' = [pc EXCEPT ![r] = "asked"]
  /\ target' = [target EXCEPT ![r] = target[o]]
  /\ retryOf' = [retryOf EXCEPT ![r] = o]
  /\ context' = [context EXCEPT ![r] = History(target[o])]
  /\ UNCHANGED <<rows, untitled, cited, task>>

(* The original is cancelled or failed, in an open conversation that has a *)
(* user message; the history is read, and nothing is written yet.          *)
BeginRetry(r, o) ==
  /\ pc[r] = "idle"
  /\ answer[o] \in {"cancelled", "failed"}
  /\ conversation[target[o]] = "open"
  /\ \E q \in Requests : target[q] = target[o] /\ question[q]
  /\ kind' = [kind EXCEPT ![r] = "retry"]
  /\ pc' = [pc EXCEPT ![r] = "asked"]
  /\ target' = [target EXCEPT ![r] = target[o]]
  /\ retryOf' = [retryOf EXCEPT ![r] = o]
  /\ context' = [context EXCEPT ![r] = History(target[o])]
  /\ UNCHANGED <<rows, untitled, cited, task>>

(* Fault: the replacement is written over the original.                    *)
ReplyRetryInPlace(r) ==
  /\ pc[r] = "asked" /\ kind[r] = "retry"
  /\ conversation[target[r]] # "deleted"
  /\ answer' = [answer EXCEPT ![retryOf[r]] = "complete"]
  /\ parts' = [parts EXCEPT ![retryOf[r]] = {"text"}]
  /\ pc' = [pc EXCEPT ![r] = "closed"]
  /\ UNCHANGED <<conversation, title, question, request, task>>

(* The replacement is stored beside the original, without citations.       *)
ReplyRetry(r) ==
  /\ pc[r] = "asked" /\ kind[r] = "retry"
  /\ conversation[target[r]] # "deleted"
  /\ answer' = [answer EXCEPT ![r] = "complete"]
  /\ parts' = [parts EXCEPT ![r] = {"text"}]
  /\ pc' = [pc EXCEPT ![r] = "closed"]
  /\ UNCHANGED <<conversation, title, question, request, task>>

-----------------------------------------------------------------------------
(* The process stops and starts again: open transactions roll back,        *)
(* generators and tasks are gone, and nothing looks for streaming rows.    *)
Restart ==
  /\ pc' = [r \in Requests |->
              IF pc[r] \in InTransaction THEN "closed"
              ELSE IF pc[r] \in Generating \/ task[r] THEN "abandoned"
              ELSE pc[r]]
  /\ task' = [r \in Requests |-> FALSE]
  /\ untitled' = [r \in Requests |-> FALSE]
  /\ UNCHANGED <<rows, kind, target, retryOf, cited, context>>

(* Steps for which the server waits for nobody but its own event loop and  *)
(* its database.                                                           *)
Server(r) == FinalizeComplete(r) \/ FinalizeFailed(r) \/ RunTask(r)

(* A yield of events() returns when the response has sent what it yielded, *)
(* which waits for a client that stays connected and does not read.        *)
ReadOn(r) == BeginGeneration(r) \/ SendToken(r)

Client(r) ==
  \/ \E c \in Conversations : BeginTurn(r, c)
  \/ \E o \in Requests : BeginRetry(r, o)
  \/ ReadOn(r) \/ CancelAwaiting(r) \/ CancelElsewhere(r)

Turn(r) ==
  \/ Ask(r) \/ ReplyChat(r) \/ OpenStream(r) \/ ReplyRetry(r) \/ FailTurn(r)
  \/ ReceiveToken(r) \/ EndGeneration(r) \/ LoseFinalization(r)

Manage ==
  \/ DeleteConversations
  \/ \E c \in Conversations :
       CreateConversation(c) \/ RenameConversation(c) \/ ArchiveConversation(c)

Next == (\E r \in Requests : Client(r) \/ Turn(r) \/ Server(r)) \/ Manage \/ Restart

Spec == Init /\ [][Next]_vars

(* The event loop runs what is ready, and a provider's stream ends: the    *)
(* number of tokens of a generation is bounded.  Clients owe nothing, not  *)
(* even to read what they asked for.                                       *)
Fairness == \A r \in Requests : WF_vars(Server(r)) /\ SF_vars(EndGeneration(r))

FairSpec == Spec /\ Fairness

-----------------------------------------------------------------------------
(* Properties                                                              *)

OneFinalizer(r) ==
  /\ answer[r] = "streaming" => pc[r] \in Generating \cup {"abandoned"} \/ task[r]
  /\ task[r] => pc[r] = "closed"
  /\ pc[r] \in Generating \/ task[r] => answer[r] \in {"streaming", "deleted"}

(* Every answer that is being generated has somebody who will settle it,   *)
(* unless its finalizer was lost on the way (a client that leaves between  *)
(* two reads of the provider, a finalization that raises, a restart); it   *)
(* never has two; and whoever may settle it finds it unsettled.  This is   *)
(* the hand-over from events() to its task in chat_stream.                 *)
GenerationHasOneFinalizer == \A r \in Requests : OneFinalizer(r)

PartsMatch(r) ==
  /\ "text" \in parts[r] <=> answer[r] = "complete"
  /\ "citation" \in parts[r] => "text" \in parts[r]
  /\ answer[r] = "complete" /\ cited[r] => "citation" \in parts[r]

(* A stored answer has its text exactly when it is complete, so a client   *)
(* never reads half an answer, and an answer grounded in citations has     *)
(* them: what finalize_generation and store_citation_parts write together. *)
PartsMatchStatus == \A r \in Requests : PartsMatch(r)

SettledContext(r) ==
  /\ \A q \in Requests :
       /\ <<q, "user">> \in context[r] /\ q # r =>
            target[q] = target[r] /\ answer[q] # "absent"
       /\ <<q, "assistant">> \in context[r] =>
            target[q] = target[r] /\ answer[q] \in {"complete", "deleted"}
  /\ kind[r] \in {"chat", "stream"} /\ pc[r] \notin {"idle", "retrieving"} =>
       <<r, "user">> \in context[r] \/ answer[r] = "absent"

(* The messages given to the provider are questions and complete answers   *)
(* of the request's own conversation, and the question of the request is   *)
(* among them: history_for sees its own flush and no unfinished answer.    *)
ContextIsSettled == \A r \in Requests : SettledContext(r)

NothingLeft(r) ==
  target[r] # None /\ conversation[target[r]] = "deleted" =>
    ~question[r] /\ parts[r] = {} /\ answer[r] \in {"absent", "deleted"}

(* Nothing is stored in a conversation that was deleted, whatever turns,   *)
(* retries and generations were under way when it was: what the foreign    *)
(* keys and the locks of delete_all_conversations leave.                   *)
DeletedLeavesNothing == \A r \in Requests : NothingLeft(r)

RetryBranch(r) ==
  kind[r] = "retry" =>
    /\ retryOf[r] \in Requests \ {r}
    /\ answer[retryOf[r]] \in {"cancelled", "failed", "deleted"}
    /\ target[retryOf[r]] = target[r]
    /\ answer[r] \in {"absent", "complete", "deleted"} /\ ~question[r]

(* A retry replaces an answer that was cancelled or failed and still is,   *)
(* in the same conversation, and the replacement is complete or missing:   *)
(* retry_message adds a branch and never rewrites the original.            *)
RetryBranches == \A r \in Requests : RetryBranch(r)

(* A settled answer is never settled again, and only deletion takes its    *)
(* parts away: finalize_generation is idempotent, a retry is a new row.    *)
SettledForever ==
  [][\A r \in Requests :
       answer[r] \in Terminal =>
         \/ answer'[r] = answer[r] /\ parts'[r] = parts[r]
         \/ answer'[r] = "deleted"]_vars

(* The chat core implements the transcript it promises.                    *)
Promise == INSTANCE Transcript WITH asked <- {r \in Requests : question[r]},
                                    status <- answer

KeepsPromise == Promise!Spec

(* An answer being generated is settled (or deleted) in the end, unless    *)
(* its finalizer was lost, or events() waits for ever at a yield for a     *)
(* client that neither reads nor leaves: nothing in chat_stream times out  *)
(* a send.  In particular, a cancellation caught while the provider was    *)
(* awaited settles the answer whatever the client does.                    *)
StreamsSettle ==
  \A r \in Requests :
    answer[r] = "streaming" ~>
      \/ answer[r] # "streaming"
      \/ pc[r] = "abandoned"
      \/ [](pc[r] \in {"opened", "sending"})

(* README.md:26 promises a "stop-generation control" and the "persistence  *)
(* of terminal states": a client that stops a streamed answer leaves a     *)
(* generator or a task that will settle it.                                *)
StopSettles ==
  [][\A r \in Requests :
       Client(r) /\ answer[r] = "streaming" =>
         pc'[r] \in Generating \/ task'[r]]_vars

(* README.md:27 counts "cancelled/failed/complete statuses, retry branches" *)
(* as delivered, and App.tsx draws "Generation stopped" and a retry button *)
(* on such answers: each one a client may retry is in list_messages, the   *)
(* only reply that carries its id.                                         *)
RetryableIsListed ==
  \A r \in Requests :
    answer[r] \in {"cancelled", "failed"} /\ conversation[target[r]] = "open" =>
      <<r, "assistant">> \in History(target[r])
=============================================================================
