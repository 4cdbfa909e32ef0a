# JaT AI: verification project

JaT AI is a chat service: a FastAPI application (`apps/api/jat_api`) over PostgreSQL, Redis
and a quarantined object store, a separate ingestion worker, and a React client (`apps/web`).
The modules here model its stateful core in TLA+, check it with TLC on small instances, and prove
all their safety properties for every value of the constants with TLAPS.

All paths below are relative to `apps/api/jat_api` unless they begin with `apps`, `docs` or `README`.

## 1. Inventory

| Component | State it keeps | Operations | Who it meets |
|---|---|---|---|
| Chat turns (`chat.py`, `generations.py`) | `messages`, `message_parts`; in memory the generator of each stream and the set `generation_tasks` | `POST /chat`, `/chat/stream`, `/chat/messages/{id}/retry`; `events()`, `finalize_generation` | conversations (row locks, cascade), retrieval, provider, client disconnects, shutdown |
| Conversations (`conversations.py`, delete-all in `settings/routes.py`) | `conversations` (title, archived, pinned, tags) | create, update, list, list messages, archive, delete all | turns |
| Sessions (`auth/`, session endpoints of `settings/routes.py`) | `sessions` rows (token hash, family, expiry, revoked), `users.status` | login, refresh, logout, revoke one, revoke others, change password, delete account | one another, every authenticated call through `current_user` |
| Guest trial (`guest.py`, `auth/routes.py`) | `users.kind`; counts of messages and conversations | open a guest session, quota and cap checks, registration that takes conversations over | turns, conversations |
| Knowledge bases and ingestion (`knowledge_bases.py`, `ingestion/`, `storage/local.py`) | `knowledge_bases`, `documents`, `document_chunks`, objects on disk, a Redis list | create and delete a base, register, upload, dispatch, worker loop, `process_ingestion_job` | workers among themselves, deletion of bases, retrieval |
| Retrieval (`rag/`) | embeddings in `document_chunks` | `upsert`, `delete`, `search` | ingestion writes, turns read |
| Accounts (`auth/routes.py`, profile and deletion in `settings/routes.py`) | `users.email`, `users.status` | register, change the address, delete | the rate limit, sessions |
| Preferences and memories (`settings/repository.py`, `settings/routes.py`) | one JSON document for each user | patch, reset, add and delete a memory, profile | one another, turns read it |
| Integrations (`integrations.py`) | one row for each user and provider | connect, list, disconnect | one another |
| Middleware (`middleware/`, `security/rate_limit.py`) | a Redis counter for each window | count, limit; CSRF check; request id | every request |
| Model providers (`models/`) | none | `generate`, `stream` | turns |
| Web client (`apps/web/src/app/App.tsx`, `lib/api.ts`) | conversations, active conversation, messages, an abort controller, the access token | load, select, create, send, stop, retry | the API |
| Wiring (`main.py`, `config/`, `db/`, `observability/`, migrations) | pools, settings | lifespan | all |

What is hard in this code:

* **Concurrency.** Handlers are coroutines over transactions at PostgreSQL's default READ COMMITTED
  level. Most of them read, decide and write later; only row locks, foreign keys and unique
  constraints stand between them. Streamed answers live on in a generator after the transaction
  that started them, and in a background task after the client has gone.
* **Failure.** A client may leave at any await; a finalization may raise; a process or a worker may
  stop anywhere. The job queue is a plain list, popped before the work.
* **Ordering.** Object, row and job of an upload; question, answer row and final status of a turn;
  revocation and rotation of a session family.

What makes each component correct, in short: an answer is settled once, entire, and only where its
conversation still is; a token that was exchanged or signed out is dead; a document is searched
through the index of exactly one run; the abstract transcript is what clients may rely on.

`PROJECT.json` lists every component and, under `hazards`, each place where this code can go wrong
in a way a test would hardly reach, with the properties that cover it.

## 2. Modules

| Module | Models | Extends or uses |
|---|---|---|
| `Transcript` | abstract: what the chat endpoints promise about stored messages | |
| `ChatTurns` | chat turns, streams, finalization, retries, conversations, restarts | `Transcript` as `KeepsPromise` |
| `Sessions` | refresh rotation, logout, revocation, expiry, account deletion | |
| `Library` | abstract: what knowledge bases promise about their documents | |
| `Ingestion` | knowledge bases, uploads, registrations, queue, workers | `Library` as `KeepsPromise` |
| `Preferences` | the preference document, and the tabs that show it | |
| `ChatView` | the chat workspace of one browser tab over the endpoints it calls | `Transcript` as its server |
| `RateLimit` | the fixed window counter in Redis, and its failure | |
| `Accounts` | addresses of accounts and their connected providers | `RateLimit` in front of registration |
| `Chunking` | pure: how a text is cut into chunks | |
| `Retrieval` | pure: what the two vector stores answer | |
| `Documents` | the inputs over which the two are checked | `Chunking`, `Retrieval` |
| `MC*` | model values and symmetry for TLC | the module they are named after |
| `*_proofs` | theorems and proofs | the module they are named after |
| `SequenceLemmas` | lemmas on sequences and induction | `ChatView_proofs`, `Documents_proofs` |

### ChatTurns

A request is one HTTP call. Rows are named by the request that writes them: `question[r]` says that
its user message is committed, `answer[r]` is the status of its assistant message and `parts[r]` the
kinds of its parts. `pc[r]` is where the handler, or after it the generator `events()`, stands.

| Code | Actions |
|---|---|
| `create_conversation`, `update_conversation`, `archive_conversation` | `CreateConversation`, `RenameConversation`, `ArchiveConversation` |
| `delete_all_conversations` | `DeleteConversations` |
| `owned_conversation`, `maybe_auto_title` (the read) | `BeginTurn` |
| `store_message` (flush), `history_for` | `Ask` |
| rest of `chat`; of `chat_stream` | `ReplyChat`; `OpenStream` |
| an exception before the commit | `FailTurn` |
| `events()`: citations sent, token received, token sent, end or exception of the provider | `BeginGeneration`, `ReceiveToken`, `SendToken`, `EndGeneration` |
| `finalize_generation` from `events()`; from the task; raising | `FinalizeComplete`, `FinalizeFailed`; `RunTask`; `LoseFinalization` |
| client leaves while the provider is awaited; anywhere else | `CancelAwaiting`; `CancelElsewhere` |
| `retry_message` | `BeginRetry`, `ReplyRetry` |
| process stops and starts | `Restart` |

The steps follow the awaits. `CancelledError` reaches the `except` clause of `events()` only at an
await *inside* it, which is the provider; at a `yield` the response is cancelled in its own send and the generator is just closed.
A `yield` returns when the response has sent what it yielded, so that `BeginGeneration` and `SendToken` wait for a client that reads (`ReadOn`).
Row locks are derived from the state (`TitleLocked`, `Referenced`) and not stored.

The abstractions: a message is its status and the kinds of its parts; titles are a placeholder or not;
retrieval finds citations or does not; the order of messages inside a list, pinning and tags are
left out; one user owns all conversations, since every query filters by the owner first.

### Sessions

A call is one HTTP request that creates at most one row, so rows and families are named by the calls
that created them. `Refresh`, `Logout`, `RevokeSession`, `RevokeOthers` (also
`change_password`) and `DeleteAccount` are the reads a call starts with; `Snapshot` is the moment
its revoking statement sees the rows, `Lock` the moment it has waited for all of them, `Commit` its commit. `Abort` is any exception and
any crash. A row that expired and a row that was revoked are both `dead`, since every query asks for both.
`ended` and `beside` are history variables: the families that were signed out, and for a refresh the refreshes of its family that were under way when it started.

A call takes the locks on all of its rows in one step. The handlers that revoke row by row can
deadlock, which PostgreSQL resolves by an abort, and that is `Abort`.

### Ingestion

A document is named by the request that creates it. Its request goes through `Upload`,
`StoreObject`, `CommitUpload` and `Dispatch`, or `RegisterDocument` and `CommitRegistration`; a
refused commit is followed by `RemoveObject`. A worker run is `Pop`, `Load`, then `WorkFails` or
`WorkSucceeds`, then `LockRow` and `CommitIndex`, or `CommitFailure`, or `CommitRefusal`. The statuses
between `pending` and `ready` are never committed and so are values of `pc[w]`. `chunks[d]` holds
the runs whose chunks are in the index, a run being named by its worker: one stays until the next replaces it, and a doubled index would show as two names.
`Redispatch` is the operator that `docs/RAG.md` expects to dispatch stuck documents
again; it is external and bounded to one for each document by `again`.
Between `LockRow` and the end of a run the transaction has deleted the chunks `old[w]` that it found. From there `CommitIndex` is one way out;
in the others an embedder has returned another number of vectors than there are chunks, and the handler commits the emptied index of a failed
document (`CommitEmptied`), or the database refuses the chunks, all rolls back and the worker ends (`FlushFails`).
`Library` is what remains for the users of a base: `Register`, `Settle`, `Repeat`, `Erase`. A document has its `place` there from the
commit of its row on; the reason of a failure is not part of it.

### Preferences

`doc` is the committed document: fields of a few values, and the list of memories. A call goes from a tab
(`Send`) to the server (`Load`, `Save`) and back (`Deliver`, or `Rollback` after `Fail` or `LoseAnswer`). The controls of a tab
change one field or one memory; other clients of the API (`SendOther`) may patch several fields and replace the list of memories as a whole, which
nothing checks for duplicates, so a document may hold a text twice. The
upsert, its commit and the release of the row are one step, since a second upsert waits for the first and then replaces all of it.
`shown[t]` is what a tab displays and caches. `blurred[t]` is a history variable: the reasons why a tab's copy may be out of date
(calls that overlapped, a lost answer, a change made elsewhere). `ResetSettings` has no control in the client.

### ChatView

The client of `App.tsx`, from the first list of conversations on. `server` is what `Transcript` allows the server to be: its steps are
`Server!Turn`, `Server!Settle` and `Server!Erase`, so that the client is checked against the promise that `ChatTurns` keeps and not
against one particular server. `active` and `messages` are the React state of the same names. `conversations` is `listed`, a set of objects, with
`doubled`, the conversations it lists more than once; its order is left out, so that a new conversation or a deletion may lead to any of the others.
`loads` are the answers of `conversationApi.messages` on their way, each read at the server or not yet, which land in any order.

A conversation in the client is an *object*: the same conversation from another answer is another one (`ObjectsOf`: the conversation, and the answer
that brought it). React runs the effect on `active` when the object changes and only then, so that setting the active object again clears the
messages and loads none (`Open`, `Blanked`). A call is a click, and what it captured then (`jump`, the object to go on to after a deletion or an edit) is what its answer uses:

| Code | Actions |
|---|---|
| the effect on `active` (436), its `then` and `catch` | `Show` and `Open` (in whatever sets `active`), `ReadMessages`, `LandMessages`, `LoseMessages` |
| `newConversation`, `saveRename` and `changeModel`, `deleteConversation` | `NewConversation`, `Created`; `Edit`, `Updated`; `DeleteConversation`, `Removed` |
| `deleteConversations` of the settings page, in the same tab | `WipeConversations`, `Erase` (the server), `Wiped` |
| `send`: the click, the new chat, the placeholder, tokens, the answer | `Send`, `Proceed`, `Token`, `Answered` |
| `refreshConversations` after an answer | `ReadList`, `Refreshed` |
| the stop button; selecting a chat | `Stop`; `Select` |
| what the server does with a call | `Serve`, `Settle` |
| an error, or an answer that never arrives | `Fail` |

`blurred` is a history variable, as in `Preferences`: the reasons why the tab may show something else than the server has.

| Cause | What happened |
|---|---|
| `overtaken`, `lost` | a load that landed after a later one, or with nothing active; a request that failed |
| `stopped` | a stream was stopped: what is stored of it is not asked for again |
| `reselected` | the view was cleared for the object that was active already: clicked again, or selected by hand while the deletion that leads to it was under way |
| `deleted` | the conversation was deleted under its send |
| `wiped`, `erased` | all conversations were deleted from the settings, of which the sidebar and the view are not told |
| `unlisted`, `outdated`, `early` | a request failed; a list arrived that was read before a change; a list that shows a conversation arrived before the answer to its creation, which lists it again |

All but `wiped` in the first five rows are causes for the view (`ViewCauses`), the last row and `wiped` for the sidebar (`ListCauses`).
`moved` holds the sends whose view was replaced while they streamed; only their tokens may
end up in another message. The properties say that these reasons are *all* there are; the `hazards` list names
the line of each. `retry()` is left out: it needs an id that no list contains (`chat_retryable`).

### RateLimit and Accounts

`RateLimit` is `RedisRateLimiter`: `Count` is INCR, `SetExpiry` the EXPIRE that only the call that counted 1 makes,
`Decide` the middleware's verdict, `Break` any Redis error (admitted or refused by `FAIL_CLOSED`), `Elapse` the
expiry of the key (external). `Accounts` puts it in front of `register`. Its calls read (`Register`, `ChangeEmail`,
`DeleteAccount`, `Connect`, `Disconnect`), and then write and commit (`Insert` and `CommitRegister`, `Commit*`); an inserted row that
is not committed blocks others through the unique constraint (`Claimed`). `late` and `mixed` are history variables: accounts
whose address was changed after their deletion, and providers whose row was changed between a connect's read and its commit.

### Chunking, Retrieval and Documents

`ChunkText` is `chunk_text` over sequences in which every character but white space is distinguishable, and a space (where windows are cut) from
other white space (which `strip()` takes as well); windows are a recursive
function of the position, paragraphs a fold. The cap of 200 chunks is left out, and carriage returns and the paragraph pattern have been
applied. `PostgresMayReturn` says which sequences of hits the SQL may return (ties in any order), `InMemoryReturns`
computes those of the fixture; cosines are compared without roots. `Documents` makes every state an input: texts grow by a paragraph,
stores by a chunk, and the properties compute on them.

## 3. Runs

Deadlock checking is off in every configuration: requests and documents are finite sets, used once, so
the instance stops when they are used up.

| Run | Instance | What it shows |
|---|---|---|
| `chat_turns` | 1 conversation, 3 requests, symmetry | the invariants of section 4 and that `ChatTurns` implements `Transcript` |
| `chat_liveness` | 1 conversation, 2 requests, fairness | `StreamsSettle`: a streamed answer is settled, unless its finalizer was lost or its client neither reads nor leaves |
| `chat_stopped` | 1 conversation, 3 requests, symmetry | **violated**: a stopped stream is not always settled |
| `chat_retryable` | 1 conversation, 3 requests, symmetry | **violated**: answers that can be retried are not listed |
| `sessions` | 2 accounts, 4 calls, symmetry | rotation, one token to a family unless refreshes overlapped, ownership, sign-out without a refresh under way |
| `sessions_signed_out` | 2 accounts, 4 calls | **violated**: a sign-out that overlaps a refresh is undone by it |
| `ingestion` | 1 base, 2 documents, 2 contents (text; accepted but not parsed), 2 workers, fairness | index, registration, failure reasons, settlement, and that `Ingestion` implements `Library` |
| `preferences` | 2 fields, 2 values, 2 texts, at most 2 memories (the same one twice included), 1 tab and other clients, 2 calls, any initial document, symmetry | what overlapping calls keep; when a tab shows the document |
| `preferences_patch` | as `preferences` | **violated**: a PATCH restores the old values of fields it does not name |
| `chat_view` | 2 conversations, 2 clicks, 1 turn of an earlier session, at most 3 loads, symmetry | what the tab shows at rest; whose tokens an answer holds |
| `accounts` | 2 accounts, 2 addresses, 2 keys of a provider, 4 calls, 1 client, limit 2, refusing when Redis fails | addresses, providers, the rate limit |
| `documents` | texts of at most 2 paragraphs of up to 6 characters (spaces, one line end, ink), chunks of 3 to 5; stores of at most 3 chunks | chunking; agreement of the two stores |

Why the bounds are enough to be interesting. Three requests are an answer, its retry and a turn that
reads both, or two turns and a retry that race; conversations never meet except in `DeleteConversations`, which treats each alike. Four calls are a login, two
refreshes of its family and a sign-out among them; two accounts make mixed-up owners possible. Two
documents of one content race for the unique constraint, and two workers race for
one document. `Preferences` starts from every document, so that two calls meet full, empty and mixed ones, and ones with a memory twice;
`MAX_MEMORIES` is 2 instead of 50, so that the limit is reached, and a patch that replaces the list has the same text twice and leaves some field alone. Two clicks in `ChatView` are every pair of operations that can
overlap (a send and a selection, a deletion under a stream, a selection under a deletion, two edits, all with a deletion of everything), from any set of existing conversations, one of them
with a turn that was stored before, so that a view that stays blank differs from one that was loaded; `MaxLoads` bounds the loads in the air. With four
calls and a limit of two, `Accounts` reaches a full window, and a registration, a change and a deletion that race for one address. A paragraph
of six characters in chunks of three makes several windows, with spaces anywhere and in the shorter ones a line end, where windows are stripped and not cut; a store of three chunks has ties, both limits below its size, and chunks that each filter drops.

The four violated properties are what a document or a docstring of the repository says; each
finding in `PROJECT.json` quotes it. They are races or dead ends in handlers, shown by a trace of a few steps.

### Fairness

* `ChatTurns`: weak fairness of `Server(r)`, which is the finalizations and the task, for these wait for nothing but the event loop
  and the database, and strong fairness of `EndGeneration(r)`: a provider emits finitely many tokens, so that a generator that is
  awaiting again and again meets the end. Clients are not fair: they may never call, never leave, never read
  on. A `yield` of `events()` returns when the response has been sent, so that `ReadOn(r)` (`BeginGeneration`, `SendToken`) is a client's step and not
  fair; nothing times out such a send, and `StreamsSettle` says so: an answer is settled, or its finalizer was lost
  (`pc = "abandoned"`, allowed at any time), or `events()` stays at a `yield` for ever.
* `Ingestion`: weak fairness of `Run(w)`, the loop of a living worker. Nothing in the repository starts
  a dead worker again (`docker-compose.yml` has no worker service), so `StartWorker` is not fair.
* The other modules claim no liveness: their calls may stop anywhere.

## 4. Properties

Each is stated in the module, with the code it is about. Those that need several actors to break:

* `GenerationHasOneFinalizer`: the hand-over of a stream from `events()` to its task leaves one
  finalizer and never two.
* `PartsMatchStatus`, `ContextIsSettled`, `DeletedLeavesNothing`, `RetryBranches`, `SettledForever`:
  what is stored, read and given to the provider while turns, retries and deletions interleave.
* `ExchangedIsDead`, `SecondTokenWasRaced`, `FamilyHasOneOwner`, `QuietSignOutIsFinal`, `CallerKeepsSession`: what rotation and revocation guarantee under READ COMMITTED. `refresh` looks
  a token up without a lock, so that two refreshes with one token may both succeed; `SecondTokenWasRaced` says that only such overlaps leave a family with two good tokens.
* `IndexIsOfOneRun`, `ContentIsRegisteredOnce`, `JobsSeeRegistration`, `FailureIsExplained`,
  `TerminalIsFinal`, `QueuedSettles`: what the update before the delete, the unique constraint, the order of commit and
  push, and the single dispatch give.
* `KeepsPromise`, of `ChatTurns` and of `Ingestion`: all of it together, as the abstract `Transcript` and `Library` that a user may rely on.

* `QuietTabShowsDocument`, `QuietCallIsExact`: what whole-document writes and the rollback of a tab
  guarantee, and under which conditions.
* `QuietViewShowsServer`, `QuietListShowsServer`, `OwnTokens`: what is on the screen after loads, streams, deletions and lists that overtake one another.
* `EmailLeadsToAccount`, `HintIsOfSecret`, `LimitHolds`: what unique constraints, column-wise updates and INCR before EXPIRE leave of
  three check-then-act handlers. `LimitHolds` also says that a full window that never ends has a process that died, or a Redis that failed, before EXPIRE behind it.
* `ChunksAreWhole`, `SearchesAgree`: a stretch no longer than the overlap is whole in some chunk (for overlaps up to half the chunk; the settings
  allow more, for which nothing is claimed); and tests with the fixture speak for production, for ready chunks whose vectors can be compared. Vectors of
  different lengths or of no length are where the two stores differ.

Every one has a mutant in `PROJECT.json`: a fault in one action, kept next to it in the module
under the comment "Fault", with which TLC finds the property violated.

## 5. Proofs

Eight modules of proofs hold for any sets of constants: one for each component, and `SequenceLemmas` for what several of them
need of sequences. Every invariant and every action property of a passing run is a theorem; `PROJECT.json` lists the theorems beside the
properties. What the proofs assume of the constants is named in the modules:

* `NoneAssumption` (all but `Documents` and `RateLimit`): the value `None` is not one of the others;
* `DefaultAssumption`, `FailureAssumption`, `ParseableAssumption`, `LimitAssumption`, `LoadsAssumption`: constants have their types (the limit of
  `Accounts`, which it hands to `RateLimit`, and the bound `MaxLoads` are not zero);
* `PastAssumption`, `PatchesAssumption`: the calls of earlier sessions are calls, the patches have fields and memories of the document;
* `SettingsAssumption`: `config/settings.py` refuses an overlap that is not smaller than the chunks;
* `ParagraphsAssumption`: paragraphs were stripped and are not empty, which `chunk_text` sees to in lines 47 to 49;
* `ChunksAssumption`, `SearchesAssumption`: components of vectors are integers, limits count.

None of the invariants of the concurrent components is inductive alone, since what a commit meets depends on where its handler stands: in each module `IInv` is the
invariants with what a call, a run or a generator holds at each place of its code, and one lemma per part has one step per action.

* **ChatTurns** (all invariants, `SettledForever`, the refinement). `Handler` says that an idle request has nothing, a turn in its
  transaction has no answer, a generator or a task belongs to a stream. `StepEffect` sums up what any step may do to
  stored rows, and `SettledStays` and the refinement `Implements` (`PromiseInit`, `PromiseStep`) follow from it and `IInv`.
* **Sessions** (all invariants and action properties but `SignedOutStaysOut`, which does not hold). `IInv` adds that a family is rooted
  in the login that opened it, rows of a snapshot belong to the family or the owner the call acts on, a refresh past its
  lock has killed its own token or found it dead, `RaceAt` (a refresh that did not overlap the call of a live row of its family has that row among those it will kill), and the calls that spare the caller's family hold none of its rows.
* **Ingestion** (all invariants, `TerminalIsFinal`, the refinement). `RequestAt` follows a document from its request to its row, `RunAt` says what a worker
  knows, and `RowIsHeldOnce` that one run at a time is past its lock with the chunks it deleted, and
  `OneJob` is the heart: a document that was dispatched once has one job, in the queue or with
  one worker, and none once its row is terminal. Two runs of one document overlap only after a second dispatch.
  The refinement `Implements` maps each commit to one step of `Library` (`BasePromise`, `RequestPromise`, `RunPromise`); that a commit of a
  run finds its document pending unless it was dispatched again is `OneJob`, and that a deletion empties exactly the indexes `Library` empties is
  `IndexIsOfOneRun`. `NothingOutlivesItsBase`, which no run lists, says that no row is left in a base deleted under it.
* **Preferences** (all). The memories of a document are sequences up to the limit; `MergedStays`, `AppendStays` and `RemoveStays`
  say that the endpoints keep them so *on the copy they read*. `TabAt` says that a tab which nothing blurred has one call on its way
  at most, and what that call saw and loaded is the document.
* **Accounts and RateLimit** (all). `CallAt` and `InsertsDiffer`: a user that is inserted and not committed has an
  address nobody has or is about to have. `WindowIsCounted`: the numbers INCR returned to the requests of a window
  are different and at most the counter; so the admitted requests inject into `1..Limit` (`CountBounds`).
* **ChatView** (all), in layers. `Types` is the type invariant with what `heard` may hold. `LInv`: the sidebar, and a list that has been read and not yet applied, are right about
  every conversation but those that the server changed and the tab has not heard of (`ListsAgree`, `Pending`), and list none twice nor one whose
  creation is unanswered (`ListsOnce`), as long as no cause for the list is on record; `CallsAt` says what is known of the conversations that calls created and archived. `VInv` is about the messages: as long as no cause is on record and no send is under way
  (a send asks for the messages when it ends), the view is the stored list of the active conversation, or the load asked for last will bring it (`Latest`);
  `CallStands` says how far each call is, and that one that left something behind has a cause on record.
  `LatestShown` and `LatestOpened` are the two ways in which another object becomes active.
  `TInv` follows tokens: those on the screen and those in a `send` are its own, as long as no other view took the place of its view.
* **Documents** (both; the pure algorithms). There the states are the inputs, so `TextInv` and `StoreInv` are small, and the argument is about the operators.
  A recursive function, a fold or a sum is a `CHOOSE`, of which nothing is known before a function that satisfies its equation is shown to
  exist: `WrapRecursion`, `PackRecursion`, `SumRecursion` and `FlattenRecursion` do that, by `SetInduction`. This lemma names a set of numbers instead of
  a predicate and follows from the least element of a well-founded order, which is how induction over data is within the
  prover's reach here. `WrapFacts` goes from the end of a paragraph back: a stretch that starts before the next window and fits the overlap ends in this one (`NextFacts`, which
  needs the overlap to be at most half the size, because a window may be cut just after its middle). `PackFacts` is the loop invariant of
  `chunk_text`: chunks keep to their size, and what was in a chunk or in the current text stays in one. For the
  searches, `CloserFacts` and `Fractions` show that scores compared by cross-multiplication are transitive, `StableOrderOrders` that ties broken
  by position make them a strict total order, `SortExists` that a finite set can be sorted by one (`sorted` in `Retrieval` is a
  `CHOOSE` for that reason: the library's sort is built into TLC and the prover knows nothing of it), and `SearchFacts` that what follows or is cut off scores no higher.

What stays with TLC: the liveness properties (`StreamsSettle`, `QueuedSettles`), since the prover handles neither `ENABLED` nor fairness,
and the four properties that the code violates.

## 6. Not modelled, and the plan

Not modelled: embeddings and their providers, JWT and password hashing, CSRF and request ids, configuration,
migrations, health checks, the mock API, signing in and out in the client, and the settings pages but for `persist` and the memory list.
The guest trial is not modelled because at this commit no guest can exist: `create_guest_user`
(`db/repositories.py:47`) reads `user.id.hex` before the flush that sets the id, so `POST /auth/guest` raises, and
quota, cap and conversion never see a guest. Left abstract on purpose: the order of messages with equal
`created_at`, single row locks of a revocation. `ChatView` starts after the first list of conversations and claims no
liveness: a load that hangs is never given up by the client.

Two more facts were met on the way that no run shows. A job of a document that has already failed is processed again into
the internal error, which replaces the reason the user was given (`ingestion/pipeline.py:55`, in `Ingestion` as `CommitRefusal`), though
the docstring calls a job safe to retry. And all models of the Ollama embedder share the name `ollama` (`rag/providers.py:33`), so that a
change of the model is not seen by the filter that should keep their vectors apart (`docs/RAG.md`, invariant 5).

What is left:

1. An abstract specification of sign-in families for `Sessions`, and that `ChatView` and `Accounts` take only steps of the `Transcript` and the
   `RateLimit` they are built over, as theorems beside `Implements`.
2. `Guest`, once guests can be created: quota and cap as check-then-act, conversion beside a turn.
3. Several clients of `ChatView` over one server, for which the client would need to poll or be told.
