-------------------------- MODULE ChatTurns_proofs --------------------------
(***************************************************************************)
(* Theorems about ChatTurns, for any sets of conversations and requests.   *)
(* The inductive invariant adds to the properties of ChatTurns what a      *)
(* request looks like at each place of its handler (Handler), which is     *)
(* what tells that a write of one request meets the row it expects.        *)
(***************************************************************************)
EXTENDS ChatTurns, TLAPS

(* What is known of a request from where its handler stands.               *)
HandlerAt(r) ==
  /\ pc[r] = "idle" =>
       /\ kind[r] = "none" /\ target[r] = None /\ retryOf[r] = None
       /\ context[r] = {} /\ ~cited[r]
  /\ pc[r] # "idle" =>
       /\ kind[r] # "none" /\ target[r] \in Conversations
       /\ conversation[target[r]] # "absent"
  /\ pc[r] \in {"idle"} \cup InTransaction => answer[r] = "absent"
  /\ answer[r] = "absent" => ~question[r]
  /\ answer[r] = "deleted" => conversation[target[r]] = "deleted"
  /\ pc[r] \in Generating \/ task[r] => kind[r] = "stream"
  /\ kind[r] = "retry" => pc[r] \in {"asked", "closed"} /\ ~cited[r]
  /\ pc[r] = "asked" /\ kind[r] # "retry" =>
       conversation[target[r]] # "deleted" /\ <<r, "user">> \in context[r]

Handler == \A r \in Requests : HandlerAt(r)

IInv ==
  /\ TypeOK
  /\ Handler
  /\ GenerationHasOneFinalizer
  /\ PartsMatchStatus
  /\ ContextIsSettled
  /\ DeletedLeavesNothing
  /\ RetryBranches

(* The type invariant is inductive by itself.                              *)
LEMMA TypeInductive == TypeOK /\ [Next]_vars => TypeOK'
<1> USE DEF TypeOK, Generating, InTransaction, Terminal, Status, Messages
<1> SUFFICES ASSUME TypeOK, [Next]_vars PROVE TypeOK'
  OBVIOUS
<1>1. CASE DeleteConversations
  BY <1>1 DEF DeleteConversations, request
<1>2. ASSUME NEW c \in Conversations,
             CreateConversation(c) \/ RenameConversation(c) \/ ArchiveConversation(c)
      PROVE  TypeOK'
  BY <1>2 DEF CreateConversation, RenameConversation, ArchiveConversation, request
<1>3. CASE Restart
  BY <1>3 DEF Restart, rows, request
<1>4. ASSUME NEW r \in Requests, Client(r) PROVE TypeOK'
  <2>1. ASSUME NEW c \in Conversations, BeginTurn(r, c) PROVE TypeOK'
    BY <2>1 DEF BeginTurn, rows
  <2>2. ASSUME NEW o \in Requests, BeginRetry(r, o) PROVE TypeOK'
    BY <2>2 DEF BeginRetry, rows, History
  <2>3. CASE CancelAwaiting(r)
    BY <2>3 DEF CancelAwaiting, Move, rows, request
  <2>4. CASE CancelElsewhere(r)
    BY <2>4 DEF CancelElsewhere, Move, rows, request
  <2>5. CASE ReadOn(r)
    BY <2>5 DEF ReadOn, BeginGeneration, SendToken, Move, rows, request
  <2> QED
    BY <1>4, <2>1, <2>2, <2>3, <2>4, <2>5 DEF Client
<1>5. ASSUME NEW r \in Requests, Turn(r) PROVE TypeOK'
  <2>1. CASE Ask(r)
    BY <2>1 DEF Ask, rows, History
  <2>2. CASE ReplyChat(r)
    BY <2>2 DEF Forget, ReplyChat, TitleWritten, PartsOf, request
  <2>3. CASE OpenStream(r)
    BY <2>3 DEF Forget, OpenStream, TitleWritten, request
  <2>4. CASE ReplyRetry(r)
    BY <2>4 DEF ReplyRetry, request
  <2>5. CASE FailTurn(r)
    BY <2>5 DEF Forget, FailTurn, rows, request
  <2>6. CASE ReceiveToken(r) \/ EndGeneration(r)
    BY <2>6 DEF ReceiveToken, EndGeneration, Move, rows, request
  <2>7. CASE LoseFinalization(r)
    BY <2>7 DEF LoseFinalization, rows, request
  <2> QED
    BY <1>5, <2>1, <2>2, <2>3, <2>4, <2>5, <2>6, <2>7 DEF Turn
<1>6. ASSUME NEW r \in Requests, Server(r) PROVE TypeOK'
  <2>1. CASE FinalizeComplete(r)
    BY <2>1 DEF FinalizeComplete, Finalize, Move, PartsOf, request
  <2>2. CASE FinalizeFailed(r)
    BY <2>2 DEF FinalizeFailed, Finalize, Move, request
  <2>3. CASE RunTask(r)
    BY <2>3 DEF RunTask, Finalize, request
  <2> QED
    BY <1>6, <2>1, <2>2, <2>3 DEF Server
<1>7. CASE UNCHANGED vars
  BY <1>7 DEF vars, rows, request
<1> QED
  BY <1>1, <1>2, <1>3, <1>4, <1>5, <1>6, <1>7 DEF Next, Manage

(* The parts of the invariant at one request.                              *)
LEMMA FactsOf ==
  ASSUME IInv, NEW r \in Requests
  PROVE  /\ HandlerAt(r) /\ OneFinalizer(r) /\ PartsMatch(r)
         /\ NothingLeft(r) /\ RetryBranch(r) /\ SettledContext(r)
  BY DEF IInv, Handler, GenerationHasOneFinalizer, PartsMatchStatus,
         DeletedLeavesNothing, RetryBranches, ContextIsSettled

(* What is known of a handler holds again after every step.                 *)
LEMMA HandlerInductive == IInv /\ [Next]_vars => Handler'
<1> SUFFICES ASSUME IInv, [Next]_vars, NEW q \in Requests PROVE HandlerAt(q)'
  BY DEF Handler
<1>q. TypeOK /\ HandlerAt(q) /\ OneFinalizer(q)
  BY FactsOf DEF IInv
<1> USE NoneAssumption, <1>q
    DEF TypeOK, Generating, InTransaction, Terminal, Status, Messages,
        HandlerAt, OneFinalizer
<1>1. CASE DeleteConversations
  BY <1>1 DEF DeleteConversations, request, Existing, Referenced, Asking
<1>2. ASSUME NEW c \in Conversations,
             CreateConversation(c) \/ RenameConversation(c) \/ ArchiveConversation(c)
      PROVE  HandlerAt(q)'
  BY <1>2 DEF CreateConversation, RenameConversation, ArchiveConversation, request
<1>3. CASE Restart
  BY <1>3 DEF Restart, rows, request
<1>4. ASSUME NEW r \in Requests, Client(r) PROVE HandlerAt(q)'
  <2>1. ASSUME NEW c \in Conversations, BeginTurn(r, c) PROVE HandlerAt(q)'
    BY <2>1 DEF BeginTurn, rows
  <2>2. ASSUME NEW o \in Requests, BeginRetry(r, o) PROVE HandlerAt(q)'
    <3>1. HandlerAt(o) /\ pc[o] # "idle"
      BY <2>2, FactsOf DEF BeginRetry
    <3> QED
      BY <2>2, <3>1 DEF BeginRetry, rows, History
  <2>3. CASE CancelAwaiting(r)
    BY <2>3 DEF CancelAwaiting, Move, rows, request
  <2>4. CASE CancelElsewhere(r)
    BY <2>4 DEF CancelElsewhere, Move, rows, request
  <2>5. CASE ReadOn(r)
    BY <2>5 DEF ReadOn, BeginGeneration, SendToken, Move, rows, request
  <2> QED
    BY <1>4, <2>1, <2>2, <2>3, <2>4, <2>5 DEF Client
<1>5. ASSUME NEW r \in Requests, Turn(r) PROVE HandlerAt(q)'
  <2>1. CASE Ask(r)
    BY <2>1 DEF Ask, rows, History
  <2>2. CASE ReplyChat(r)
    BY <2>2 DEF Forget, ReplyChat, PartsOf, request
  <2>3. CASE OpenStream(r)
    BY <2>3 DEF Forget, OpenStream, request
  <2>4. CASE ReplyRetry(r)
    BY <2>4 DEF ReplyRetry, request
  <2>5. CASE FailTurn(r)
    BY <2>5 DEF Forget, FailTurn, rows, request
  <2>6. CASE ReceiveToken(r) \/ EndGeneration(r)
    BY <2>6 DEF ReceiveToken, EndGeneration, Move, rows, request
  <2>7. CASE LoseFinalization(r)
    BY <2>7 DEF LoseFinalization, rows, request
  <2> QED
    BY <1>5, <2>1, <2>2, <2>3, <2>4, <2>5, <2>6, <2>7 DEF Turn
<1>6. ASSUME NEW r \in Requests, Server(r) PROVE HandlerAt(q)'
  <2>1. CASE FinalizeComplete(r)
    BY <2>1 DEF FinalizeComplete, Finalize, PartsOf, Move, request
  <2>2. CASE FinalizeFailed(r)
    BY <2>2 DEF FinalizeFailed, Finalize, Move, request
  <2>3. CASE RunTask(r)
    BY <2>3 DEF RunTask, Finalize, request
  <2> QED
    BY <1>6, <2>1, <2>2, <2>3 DEF Server
<1>7. CASE UNCHANGED vars
  BY <1>7 DEF vars, rows, request
<1> QED
  BY <1>1, <1>2, <1>3, <1>4, <1>5, <1>6, <1>7 DEF Next, Manage

(* No step leaves an answer two finalizers, or none but a lost one.         *)
LEMMA FinalizerInductive == IInv /\ [Next]_vars => GenerationHasOneFinalizer'
<1> SUFFICES ASSUME IInv, [Next]_vars, NEW q \in Requests PROVE OneFinalizer(q)'
  BY DEF GenerationHasOneFinalizer
<1>q. TypeOK /\ OneFinalizer(q) /\ HandlerAt(q)
  BY FactsOf DEF IInv
<1> USE NoneAssumption, <1>q
    DEF TypeOK, Generating, InTransaction, Terminal, Status, Messages,
        OneFinalizer, HandlerAt
<1>1. CASE DeleteConversations
  BY <1>1 DEF DeleteConversations, request, Existing, Referenced, Asking
<1>2. ASSUME NEW c \in Conversations,
             CreateConversation(c) \/ RenameConversation(c) \/ ArchiveConversation(c)
      PROVE  OneFinalizer(q)'
  BY <1>2 DEF CreateConversation, RenameConversation, ArchiveConversation, request
<1>3. CASE Restart
  BY <1>3 DEF Restart, rows, request
<1>4. ASSUME NEW r \in Requests, Client(r) PROVE OneFinalizer(q)'
  <2>1. ASSUME NEW c \in Conversations, BeginTurn(r, c) PROVE OneFinalizer(q)'
    BY <2>1 DEF BeginTurn, rows
  <2>2. ASSUME NEW o \in Requests, BeginRetry(r, o) PROVE OneFinalizer(q)'
    <3>1. HandlerAt(o) /\ pc[o] # "idle"
      BY <2>2, FactsOf DEF BeginRetry
    <3> QED
      BY <2>2, <3>1 DEF BeginRetry, rows, History
  <2>3. CASE CancelAwaiting(r)
    BY <2>3 DEF CancelAwaiting, Move, rows, request
  <2>4. CASE CancelElsewhere(r)
    BY <2>4 DEF CancelElsewhere, Move, rows, request
  <2>5. CASE ReadOn(r)
    BY <2>5 DEF ReadOn, BeginGeneration, SendToken, Move, rows, request
  <2> QED
    BY <1>4, <2>1, <2>2, <2>3, <2>4, <2>5 DEF Client
<1>5. ASSUME NEW r \in Requests, Turn(r) PROVE OneFinalizer(q)'
  <2>1. CASE Ask(r)
    BY <2>1 DEF Ask, rows, History
  <2>2. CASE ReplyChat(r)
    BY <2>2 DEF Forget, ReplyChat, PartsOf, request
  <2>3. CASE OpenStream(r)
    BY <2>3 DEF Forget, OpenStream, request
  <2>4. CASE ReplyRetry(r)
    BY <2>4 DEF ReplyRetry, request
  <2>5. CASE FailTurn(r)
    BY <2>5 DEF Forget, FailTurn, rows, request
  <2>6. CASE ReceiveToken(r) \/ EndGeneration(r)
    BY <2>6 DEF ReceiveToken, EndGeneration, Move, rows, request
  <2>7. CASE LoseFinalization(r)
    BY <2>7 DEF LoseFinalization, rows, request
  <2> QED
    BY <1>5, <2>1, <2>2, <2>3, <2>4, <2>5, <2>6, <2>7 DEF Turn
<1>6. ASSUME NEW r \in Requests, Server(r) PROVE OneFinalizer(q)'
  <2>1. CASE FinalizeComplete(r)
    BY <2>1 DEF FinalizeComplete, Finalize, PartsOf, Move, request
  <2>2. CASE FinalizeFailed(r)
    BY <2>2 DEF FinalizeFailed, Finalize, Move, request
  <2>3. CASE RunTask(r)
    BY <2>3 DEF RunTask, Finalize, request
  <2> QED
    BY <1>6, <2>1, <2>2, <2>3 DEF Server
<1>7. CASE UNCHANGED vars
  BY <1>7 DEF vars, rows, request
<1> QED
  BY <1>1, <1>2, <1>3, <1>4, <1>5, <1>6, <1>7 DEF Next, Manage

(* Text and citations stay with complete answers.                           *)
LEMMA PartsInductive == IInv /\ [Next]_vars => PartsMatchStatus'
<1> SUFFICES ASSUME IInv, [Next]_vars, NEW q \in Requests PROVE PartsMatch(q)'
  BY DEF PartsMatchStatus
<1>q. TypeOK /\ PartsMatch(q) /\ HandlerAt(q)
  BY FactsOf DEF IInv
<1> USE NoneAssumption, <1>q
    DEF TypeOK, Generating, InTransaction, Terminal, Status, Messages,
        PartsMatch, HandlerAt
<1>1. CASE DeleteConversations
  BY <1>1 DEF DeleteConversations, request, Existing, Referenced, Asking
<1>2. ASSUME NEW c \in Conversations,
             CreateConversation(c) \/ RenameConversation(c) \/ ArchiveConversation(c)
      PROVE  PartsMatch(q)'
  BY <1>2 DEF CreateConversation, RenameConversation, ArchiveConversation, request
<1>3. CASE Restart
  BY <1>3 DEF Restart, rows, request
<1>4. ASSUME NEW r \in Requests, Client(r) PROVE PartsMatch(q)'
  <2>1. ASSUME NEW c \in Conversations, BeginTurn(r, c) PROVE PartsMatch(q)'
    BY <2>1 DEF BeginTurn, rows
  <2>2. ASSUME NEW o \in Requests, BeginRetry(r, o) PROVE PartsMatch(q)'
    <3>1. HandlerAt(o) /\ pc[o] # "idle"
      BY <2>2, FactsOf DEF BeginRetry
    <3> QED
      BY <2>2, <3>1 DEF BeginRetry, rows, History
  <2>3. CASE CancelAwaiting(r)
    BY <2>3 DEF CancelAwaiting, Move, rows, request
  <2>4. CASE CancelElsewhere(r)
    BY <2>4 DEF CancelElsewhere, Move, rows, request
  <2>5. CASE ReadOn(r)
    BY <2>5 DEF ReadOn, BeginGeneration, SendToken, Move, rows, request
  <2> QED
    BY <1>4, <2>1, <2>2, <2>3, <2>4, <2>5 DEF Client
<1>5. ASSUME NEW r \in Requests, Turn(r) PROVE PartsMatch(q)'
  <2>1. CASE Ask(r)
    BY <2>1 DEF Ask, rows, History
  <2>2. CASE ReplyChat(r)
    BY <2>2 DEF Forget, ReplyChat, PartsOf, request
  <2>3. CASE OpenStream(r)
    BY <2>3 DEF Forget, OpenStream, request
  <2>4. CASE ReplyRetry(r)
    BY <2>4 DEF ReplyRetry, request
  <2>5. CASE FailTurn(r)
    BY <2>5 DEF Forget, FailTurn, rows, request
  <2>6. CASE ReceiveToken(r) \/ EndGeneration(r)
    BY <2>6 DEF ReceiveToken, EndGeneration, Move, rows, request
  <2>7. CASE LoseFinalization(r)
    BY <2>7 DEF LoseFinalization, rows, request
  <2> QED
    BY <1>5, <2>1, <2>2, <2>3, <2>4, <2>5, <2>6, <2>7 DEF Turn
<1>6. ASSUME NEW r \in Requests, Server(r) PROVE PartsMatch(q)'
  <2>1. CASE FinalizeComplete(r)
    BY <2>1 DEF FinalizeComplete, Finalize, PartsOf, Move, request
  <2>2. CASE FinalizeFailed(r)
    BY <2>2 DEF FinalizeFailed, Finalize, Move, request
  <2>3. CASE RunTask(r)
    BY <2>3 DEF RunTask, Finalize, request
  <2> QED
    BY <1>6, <2>1, <2>2, <2>3 DEF Server
<1>7. CASE UNCHANGED vars
  BY <1>7 DEF vars, rows, request
<1> QED
  BY <1>1, <1>2, <1>3, <1>4, <1>5, <1>6, <1>7 DEF Next, Manage

(* No step stores anything in a deleted conversation.                       *)
LEMMA NothingInductive == IInv /\ [Next]_vars => DeletedLeavesNothing'
<1> SUFFICES ASSUME IInv, [Next]_vars, NEW q \in Requests PROVE NothingLeft(q)'
  BY DEF DeletedLeavesNothing
<1>q. TypeOK /\ NothingLeft(q) /\ HandlerAt(q) /\ OneFinalizer(q)
  BY FactsOf DEF IInv
<1> USE NoneAssumption, <1>q
    DEF TypeOK, Generating, InTransaction, Terminal, Status, Messages,
        NothingLeft, HandlerAt, OneFinalizer
<1>1. CASE DeleteConversations
  BY <1>1 DEF DeleteConversations, request, Existing, Referenced, Asking
<1>2. ASSUME NEW c \in Conversations,
             CreateConversation(c) \/ RenameConversation(c) \/ ArchiveConversation(c)
      PROVE  NothingLeft(q)'
  BY <1>2 DEF CreateConversation, RenameConversation, ArchiveConversation, request
<1>3. CASE Restart
  BY <1>3 DEF Restart, rows, request
<1>4. ASSUME NEW r \in Requests, Client(r) PROVE NothingLeft(q)'
  <2>1. ASSUME NEW c \in Conversations, BeginTurn(r, c) PROVE NothingLeft(q)'
    BY <2>1 DEF BeginTurn, rows
  <2>2. ASSUME NEW o \in Requests, BeginRetry(r, o) PROVE NothingLeft(q)'
    <3>1. HandlerAt(o) /\ pc[o] # "idle"
      BY <2>2, FactsOf DEF BeginRetry
    <3> QED
      BY <2>2, <3>1 DEF BeginRetry, rows, History
  <2>3. CASE CancelAwaiting(r)
    BY <2>3 DEF CancelAwaiting, Move, rows, request
  <2>4. CASE CancelElsewhere(r)
    BY <2>4 DEF CancelElsewhere, Move, rows, request
  <2>5. CASE ReadOn(r)
    BY <2>5 DEF ReadOn, BeginGeneration, SendToken, Move, rows, request
  <2> QED
    BY <1>4, <2>1, <2>2, <2>3, <2>4, <2>5 DEF Client
<1>5. ASSUME NEW r \in Requests, Turn(r) PROVE NothingLeft(q)'
  <2>1. CASE Ask(r)
    BY <2>1 DEF Ask, rows, History
  <2>2. CASE ReplyChat(r)
    BY <2>2 DEF Forget, ReplyChat, PartsOf, request
  <2>3. CASE OpenStream(r)
    BY <2>3 DEF Forget, OpenStream, request
  <2>4. CASE ReplyRetry(r)
    BY <2>4 DEF ReplyRetry, request
  <2>5. CASE FailTurn(r)
    BY <2>5 DEF Forget, FailTurn, rows, request
  <2>6. CASE ReceiveToken(r) \/ EndGeneration(r)
    BY <2>6 DEF ReceiveToken, EndGeneration, Move, rows, request
  <2>7. CASE LoseFinalization(r)
    BY <2>7 DEF LoseFinalization, rows, request
  <2> QED
    BY <1>5, <2>1, <2>2, <2>3, <2>4, <2>5, <2>6, <2>7 DEF Turn
<1>6. ASSUME NEW r \in Requests, Server(r) PROVE NothingLeft(q)'
  <2>1. CASE FinalizeComplete(r)
    BY <2>1 DEF FinalizeComplete, Finalize, PartsOf, Move, request
  <2>2. CASE FinalizeFailed(r)
    BY <2>2 DEF FinalizeFailed, Finalize, Move, request
  <2>3. CASE RunTask(r)
    BY <2>3 DEF RunTask, Finalize, request
  <2> QED
    BY <1>6, <2>1, <2>2, <2>3 DEF Server
<1>7. CASE UNCHANGED vars
  BY <1>7 DEF vars, rows, request
<1> QED
  BY <1>1, <1>2, <1>3, <1>4, <1>5, <1>6, <1>7 DEF Next, Manage

(* No step rewrites an answer that a retry replaced.                        *)
LEMMA BranchInductive == IInv /\ [Next]_vars => RetryBranches'
<1> SUFFICES ASSUME IInv, [Next]_vars, NEW q \in Requests PROVE RetryBranch(q)'
  BY DEF RetryBranches
<1>q. TypeOK /\ RetryBranch(q) /\ HandlerAt(q)
  BY FactsOf DEF IInv
<1>p. kind[q] = "retry" => HandlerAt(retryOf[q])
  BY <1>q, FactsOf DEF RetryBranch
<1> USE NoneAssumption, <1>q, <1>p
    DEF TypeOK, Generating, InTransaction, Terminal, Status, Messages,
        RetryBranch, HandlerAt
<1>1. CASE DeleteConversations
  BY <1>1 DEF DeleteConversations, request, Existing, Referenced, Asking
<1>2. ASSUME NEW c \in Conversations,
             CreateConversation(c) \/ RenameConversation(c) \/ ArchiveConversation(c)
      PROVE  RetryBranch(q)'
  BY <1>2 DEF CreateConversation, RenameConversation, ArchiveConversation, request
<1>3. CASE Restart
  BY <1>3 DEF Restart, rows, request
<1>4. ASSUME NEW r \in Requests, Client(r) PROVE RetryBranch(q)'
  <2>1. ASSUME NEW c \in Conversations, BeginTurn(r, c) PROVE RetryBranch(q)'
    BY <2>1 DEF BeginTurn, rows
  <2>2. ASSUME NEW o \in Requests, BeginRetry(r, o) PROVE RetryBranch(q)'
    <3>1. HandlerAt(o) /\ pc[o] # "idle"
      BY <2>2, FactsOf DEF BeginRetry
    <3> QED
      BY <2>2, <3>1 DEF BeginRetry, rows, History
  <2>3. CASE CancelAwaiting(r)
    BY <2>3 DEF CancelAwaiting, Move, rows, request
  <2>4. CASE CancelElsewhere(r)
    BY <2>4 DEF CancelElsewhere, Move, rows, request
  <2>5. CASE ReadOn(r)
    BY <2>5 DEF ReadOn, BeginGeneration, SendToken, Move, rows, request
  <2> QED
    BY <1>4, <2>1, <2>2, <2>3, <2>4, <2>5 DEF Client
<1>5. ASSUME NEW r \in Requests, Turn(r) PROVE RetryBranch(q)'
  <2>1. CASE Ask(r)
    BY <2>1 DEF Ask, rows, History
  <2>2. CASE ReplyChat(r)
    BY <2>2 DEF Forget, ReplyChat, PartsOf, request
  <2>3. CASE OpenStream(r)
    BY <2>3 DEF Forget, OpenStream, request
  <2>4. CASE ReplyRetry(r)
    BY <2>4 DEF ReplyRetry, request
  <2>5. CASE FailTurn(r)
    BY <2>5 DEF Forget, FailTurn, rows, request
  <2>6. CASE ReceiveToken(r) \/ EndGeneration(r)
    BY <2>6 DEF ReceiveToken, EndGeneration, Move, rows, request
  <2>7. CASE LoseFinalization(r)
    BY <2>7 DEF LoseFinalization, rows, request
  <2> QED
    BY <1>5, <2>1, <2>2, <2>3, <2>4, <2>5, <2>6, <2>7 DEF Turn
<1>6. ASSUME NEW r \in Requests, Server(r) PROVE RetryBranch(q)'
  <2>1. CASE FinalizeComplete(r)
    BY <2>1 DEF FinalizeComplete, Finalize, PartsOf, Move, request
  <2>2. CASE FinalizeFailed(r)
    BY <2>2 DEF FinalizeFailed, Finalize, Move, request
  <2>3. CASE RunTask(r)
    BY <2>3 DEF RunTask, Finalize, request
  <2> QED
    BY <1>6, <2>1, <2>2, <2>3 DEF Server
<1>7. CASE UNCHANGED vars
  BY <1>7 DEF vars, rows, request
<1> QED
  BY <1>1, <1>2, <1>3, <1>4, <1>5, <1>6, <1>7 DEF Next, Manage

(* What a provider was given stays questions and complete answers.          *)
LEMMA ContextInductive == IInv /\ [Next]_vars => ContextIsSettled'
<1> SUFFICES ASSUME IInv, [Next]_vars, NEW q \in Requests PROVE SettledContext(q)'
  BY DEF ContextIsSettled
<1>q. TypeOK /\ SettledContext(q) /\ HandlerAt(q)
  BY FactsOf DEF IInv
<1>p. \A p \in Requests : HandlerAt(p) /\ PartsMatch(p)
  BY FactsOf
<1> USE NoneAssumption, <1>q, <1>p
    DEF TypeOK, PartsMatch, Generating, InTransaction, Terminal, Status, Messages,
        SettledContext, HandlerAt
<1>1. CASE DeleteConversations
  BY <1>1 DEF DeleteConversations, request, Existing, Referenced, Asking
<1>2. ASSUME NEW c \in Conversations,
             CreateConversation(c) \/ RenameConversation(c) \/ ArchiveConversation(c)
      PROVE  SettledContext(q)'
  BY <1>2 DEF CreateConversation, RenameConversation, ArchiveConversation, request
<1>3. CASE Restart
  BY <1>3 DEF Restart, rows, request
<1>4. ASSUME NEW r \in Requests, Client(r) PROVE SettledContext(q)'
  <2>1. ASSUME NEW c \in Conversations, BeginTurn(r, c) PROVE SettledContext(q)'
    BY <2>1 DEF BeginTurn, rows
  <2>2. ASSUME NEW o \in Requests, BeginRetry(r, o) PROVE SettledContext(q)'
    <3>1. HandlerAt(o) /\ pc[o] # "idle"
      BY <2>2, FactsOf DEF BeginRetry
    <3> QED
      BY <2>2, <3>1 DEF BeginRetry, rows, History
  <2>3. CASE CancelAwaiting(r)
    BY <2>3 DEF CancelAwaiting, Move, rows, request
  <2>4. CASE CancelElsewhere(r)
    BY <2>4 DEF CancelElsewhere, Move, rows, request
  <2>5. CASE ReadOn(r)
    BY <2>5 DEF ReadOn, BeginGeneration, SendToken, Move, rows, request
  <2> QED
    BY <1>4, <2>1, <2>2, <2>3, <2>4, <2>5 DEF Client
<1>5. ASSUME NEW r \in Requests, Turn(r) PROVE SettledContext(q)'
  <2>1. CASE Ask(r)
    BY <2>1 DEF Ask, rows, History
  <2>2. CASE ReplyChat(r)
    BY <2>2 DEF Forget, ReplyChat, PartsOf, request
  <2>3. CASE OpenStream(r)
    BY <2>3 DEF Forget, OpenStream, request
  <2>4. CASE ReplyRetry(r)
    BY <2>4 DEF ReplyRetry, request
  <2>5. CASE FailTurn(r)
    BY <2>5 DEF Forget, FailTurn, rows, request
  <2>6. CASE ReceiveToken(r) \/ EndGeneration(r)
    BY <2>6 DEF ReceiveToken, EndGeneration, Move, rows, request
  <2>7. CASE LoseFinalization(r)
    BY <2>7 DEF LoseFinalization, rows, request
  <2> QED
    BY <1>5, <2>1, <2>2, <2>3, <2>4, <2>5, <2>6, <2>7 DEF Turn
<1>6. ASSUME NEW r \in Requests, Server(r) PROVE SettledContext(q)'
  <2>1. CASE FinalizeComplete(r)
    BY <2>1 DEF FinalizeComplete, Finalize, PartsOf, Move, request
  <2>2. CASE FinalizeFailed(r)
    BY <2>2 DEF FinalizeFailed, Finalize, Move, request
  <2>3. CASE RunTask(r)
    BY <2>3 DEF RunTask, Finalize, request
  <2> QED
    BY <1>6, <2>1, <2>2, <2>3 DEF Server
<1>7. CASE UNCHANGED vars
  BY <1>7 DEF vars, rows, request
<1> QED
  BY <1>1, <1>2, <1>3, <1>4, <1>5, <1>6, <1>7 DEF Next, Manage

-----------------------------------------------------------------------------
LEMMA InitIInv == Init => IInv
  BY NoneAssumption
  DEF Init, IInv, TypeOK, Handler, HandlerAt, GenerationHasOneFinalizer, OneFinalizer,
      PartsMatchStatus, PartsMatch, ContextIsSettled, SettledContext,
      DeletedLeavesNothing, NothingLeft, RetryBranches, RetryBranch,
      Generating, InTransaction, Terminal, Status, Messages

LEMMA NextIInv == IInv /\ [Next]_vars => IInv'
  BY TypeInductive, HandlerInductive, FinalizerInductive, PartsInductive,
     NothingInductive, BranchInductive, ContextInductive DEF IInv

THEOREM Invariance == Spec => []IInv
  BY InitIInv, NextIInv, PTL DEF Spec

(* The variables of ChatTurns keep their types.                            *)
THEOREM TypeCorrect == Spec => []TypeOK
<1>1. IInv => TypeOK
  BY DEF IInv
<1> QED
  BY <1>1, Invariance, PTL

(* An answer being generated has exactly one finalizer until it is lost:   *)
(* chat_stream hands its generation over to a task and never shares it.    *)
THEOREM OneFinalizerEach == Spec => []GenerationHasOneFinalizer
<1>1. IInv => GenerationHasOneFinalizer
  BY DEF IInv
<1> QED
  BY <1>1, Invariance, PTL

(* Answers have text and citations exactly when they are complete, which   *)
(* finalize_generation and store_message write together.                   *)
THEOREM NoHalfAnswers == Spec => []PartsMatchStatus
<1>1. IInv => PartsMatchStatus
  BY DEF IInv
<1> QED
  BY <1>1, Invariance, PTL

(* The provider is given questions and complete answers of the request's   *)
(* own conversation: history_for never reads an unfinished answer.         *)
THEOREM SettledContexts == Spec => []ContextIsSettled
<1>1. IInv => ContextIsSettled
  BY DEF IInv
<1> QED
  BY <1>1, Invariance, PTL

(* No turn, retry or finalization stores anything in a conversation that   *)
(* delete_all_conversations removed.                                       *)
THEOREM NothingAfterDeletion == Spec => []DeletedLeavesNothing
<1>1. IInv => DeletedLeavesNothing
  BY DEF IInv
<1> QED
  BY <1>1, Invariance, PTL

(* retry_message adds a complete answer beside an unsuccessful one of the  *)
(* same conversation.                                                      *)
THEOREM RetriesBranch == Spec => []RetryBranches
<1>1. IInv => RetryBranches
  BY DEF IInv
<1> QED
  BY <1>1, Invariance, PTL

-----------------------------------------------------------------------------
(* What a step does to the answers: it leaves the questions, answers and   *)
(* parts alone, or adds the turn of a request that has none, or settles an *)
(* answer that is streaming, or deletes.                                   *)
Quiet == UNCHANGED <<question, answer, parts>>

Adds(r) ==
  /\ answer[r] = "absent"
  /\ \E s \in {"streaming", "complete"} : answer' = [answer EXCEPT ![r] = s]
  /\ \A q \in Requests \ {r} : parts'[q] = parts[q]
  /\ \/ question' = [question EXCEPT ![r] = TRUE]
     \/ /\ UNCHANGED question
        /\ answer'[r] = "complete"
        /\ retryOf[r] \in Requests
        /\ answer[retryOf[r]] \in {"cancelled", "failed"}

Settles(r) ==
  /\ answer[r] = "streaming"
  /\ \E s \in Terminal : answer' = [answer EXCEPT ![r] = s]
  /\ \A q \in Requests \ {r} : parts'[q] = parts[q]
  /\ UNCHANGED question

LEMMA StepEffect ==
  ASSUME IInv, [Next]_vars
  PROVE  \/ Quiet \/ DeleteConversations
         \/ \E r \in Requests : Adds(r) \/ Settles(r)
<1> USE DEF Quiet, rows, TypeOK, IInv
<1>1. ASSUME Manage \/ Restart, ~DeleteConversations PROVE Quiet
  BY <1>1 DEF Manage, Restart, CreateConversation, RenameConversation, ArchiveConversation
<1>2. ASSUME NEW r \in Requests, Client(r) PROVE Quiet
  BY <1>2 DEF Client, BeginTurn, BeginRetry, CancelAwaiting, CancelElsewhere,
              ReadOn, BeginGeneration, SendToken
<1>3. ASSUME NEW r \in Requests, Turn(r) PROVE Quiet \/ Adds(r)
  <2>0. HandlerAt(r) /\ RetryBranch(r) /\ NothingLeft(r)
    BY FactsOf
  <2>1. CASE ReplyChat(r)
    BY <2>0, <2>1 DEF Forget, ReplyChat, Adds, HandlerAt, InTransaction
  <2>2. CASE OpenStream(r)
    BY <2>0, <2>2 DEF Forget, OpenStream, Adds, HandlerAt, InTransaction
  <2>3. CASE ReplyRetry(r)
    <3>1. retryOf[r] \in Requests
      BY <2>0, <2>3 DEF ReplyRetry, RetryBranch
    <3>2. answer[retryOf[r]] # "deleted"
      <4>1. HandlerAt(retryOf[r])
        BY <3>1, FactsOf
      <4> QED
        BY <2>0, <2>3, <4>1 DEF ReplyRetry, RetryBranch, HandlerAt
    <3>3. answer[retryOf[r]] \in {"cancelled", "failed"}
      BY <2>0, <2>3, <3>2 DEF ReplyRetry, RetryBranch
    <3> QED
      BY <2>0, <2>3, <3>3 DEF ReplyRetry, Adds, HandlerAt, RetryBranch, InTransaction
  <2>4. CASE ~(ReplyChat(r) \/ OpenStream(r) \/ ReplyRetry(r))
    BY <1>3, <2>4 DEF Turn, Ask, Forget, FailTurn, ReceiveToken, EndGeneration, LoseFinalization
  <2> QED
    BY <2>1, <2>2, <2>3, <2>4
<1>4. ASSUME NEW r \in Requests, Server(r) PROVE Quiet \/ Settles(r)
  BY <1>4 DEF Server, FinalizeComplete, FinalizeFailed, RunTask, Finalize, Settles, Terminal
<1>5. CASE UNCHANGED vars
  BY <1>5 DEF vars
<1> QED
  BY <1>1, <1>2, <1>3, <1>4, <1>5 DEF Next

(* Only deletion touches a settled answer or its parts.                    *)
THEOREM SettledStays == Spec => SettledForever
<1>1. ASSUME IInv, [Next]_vars, NEW r \in Requests, answer[r] \in Terminal
      PROVE  \/ answer'[r] = answer[r] /\ parts'[r] = parts[r]
             \/ answer'[r] = "deleted"
  <2> USE <1>1 DEF IInv, TypeOK, Terminal
  <2>1. CASE Quiet
    BY <2>1 DEF Quiet
  <2>2. CASE DeleteConversations
    BY <2>2 DEF DeleteConversations
  <2>3. ASSUME NEW q \in Requests, Adds(q) \/ Settles(q)
        PROVE  answer'[r] = answer[r] /\ parts'[r] = parts[r]
    <3>1. q # r
      BY <2>3 DEF Adds, Settles
    <3> QED
      BY <2>3, <3>1 DEF Adds, Settles
  <2> QED
    BY <2>1, <2>2, <2>3, StepEffect
<1>2. IInv /\ [Next]_vars =>
        [\A r \in Requests :
           answer[r] \in Terminal =>
             \/ answer'[r] = answer[r] /\ parts'[r] = parts[r]
             \/ answer'[r] = "deleted"]_vars
  BY <1>1
<1> QED
  BY <1>2, Invariance, PTL DEF Spec, SettledForever

-----------------------------------------------------------------------------
(* The chat core implements Transcript.                                    *)
LEMMA PromiseInit == Init => Promise!Init
  BY DEF Init, Promise!Init

LEMMA PromiseStep == IInv /\ [Next]_vars => [Promise!Next]_(Promise!vars)
<1> SUFFICES ASSUME IInv, [Next]_vars
             PROVE  Promise!Next \/ UNCHANGED Promise!vars
  OBVIOUS
<1> DEFINE asked == {r \in Requests : question[r]}
<1> USE DEF IInv, TypeOK
<1>1. CASE Quiet
  BY <1>1 DEF Quiet, Promise!vars
<1>2. CASE DeleteConversations
  <2> DEFINE gone == {r \in Requests : target[r] \in Existing /\ answer[r] # "absent"}
  <2>1. asked' = asked \ gone
    <3>1. \A r \in Requests : question[r] => answer[r] # "absent"
      BY FactsOf DEF HandlerAt
    <3> QED
      BY <1>2, <3>1 DEF DeleteConversations
  <2>2. answer' = [r \in Requests |-> IF r \in gone THEN "deleted" ELSE answer[r]]
    BY <1>2 DEF DeleteConversations
  <2>3. gone \in SUBSET {r \in Requests : answer[r] # "absent"}
    OBVIOUS
  <2> HIDE DEF gone
  <2>4. Promise!Erase
    BY <2>1, <2>2, <2>3 DEF Promise!Erase
  <2> QED
    BY <2>4 DEF Promise!Next
<1>3. ASSUME NEW r \in Requests, Adds(r) PROVE Promise!Next
  <2>1. CASE question' = [question EXCEPT ![r] = TRUE]
    <3>1. asked' = asked \cup {r}
      BY <2>1
    <3>2. Promise!Turn(r)
      BY <1>3, <3>1 DEF Adds, Promise!Turn
    <3> QED
      BY <3>2 DEF Promise!Next
  <2>2. CASE UNCHANGED question /\ answer'[r] = "complete" /\ retryOf[r] \in Requests
             /\ answer[retryOf[r]] \in {"cancelled", "failed"}
    <3>1. answer' = [answer EXCEPT ![r] = "complete"]
      BY <1>3, <2>2 DEF Adds
    <3>2. Promise!Branch(r)
      BY <1>3, <2>2, <3>1 DEF Adds, Promise!Branch
    <3> QED
      BY <3>2 DEF Promise!Next
  <2> QED
    BY <1>3, <2>1, <2>2 DEF Adds
<1>4. ASSUME NEW r \in Requests, Settles(r) PROVE Promise!Next
  <2>1. Promise!Settle(r)
    BY <1>4 DEF Settles, Promise!Settle, Terminal, Promise!Terminal
  <2> QED
    BY <2>1 DEF Promise!Next
<1> QED
  BY <1>1, <1>2, <1>3, <1>4, StepEffect

(* chat.py and generations.py give every client the transcript that        *)
(* Transcript describes.                                                   *)
THEOREM Implements == Spec => KeepsPromise
  BY PromiseInit, PromiseStep, Invariance, PTL DEF Spec, KeepsPromise, Promise!Spec
=============================================================================
