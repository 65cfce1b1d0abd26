# RAG Researcher: a verification project

RAG Researcher answers questions about PDFs and YouTube videos: a FastAPI backend
extracts, chunks, embeds and stores the content of *sources*, and answers the
messages of *chats* from the chunks of the sources linked to them.  A Next.js
frontend talks to it.  This directory holds TLA+ models of the parts whose
correctness depends on the order in which things happen, functions of the code
compared with what they should compute over small inputs, TLC configurations that
check all of this on small instances, and proofs, checked by TLAPS, that some of
the properties hold for every instance.

`PROJECT.json` lists the components, the runs, the mutants that show each
property can be broken by a bug in the code, the lines each definition models,
the findings, the hazards and the theorems.  Paths below are relative to
`src/backend/app/` where they name the server's code, and to `src/frontend/`
where they name the frontend's (`app/(app)`, `components/`, `hooks/`, `lib/`).

To repeat a run: `tlc -workers 2 -config MCIngestion.cfg MCIngestion.tla`.  To
repeat a proof: `tlapm IngestionProofs.tla`.

## 1. The system

### Components

| Component | State | Operations | What makes it correct |
|---|---|---|---|
| Ingestion service (`applications/ingestion_application.py`, `api/routes/sources.py`) | `sources.status`, `sources.content_hash`, `document_chunks`; the local variables of each request | create a source, process it (extract, look up, delete, embed, insert, finish, record) | the chunks are one whole version of the content; the answer agrees with what was left behind; a status does not stay `processing` |
| Chunk store (`vectorstore/pgvector_store.py`) | `document_chunks` | insert, delete by source, search, read the stored hash | a version appears and disappears in one step |
| Rate limiter (`middleware/rate_limit.py`) | `_requests`, `_last_cleanup`, under one lock | check, cleanup | never more than the limit in a window, an exact `Retry-After`, bounded memory |
| Chats and messages (`applications/chat_application.py`, `services/chat_service.py`) | chats, links to sources, messages, message sources, titles; background tasks | create, rename, delete, link, send with and without retrieval | what is reloaded is what was answered; the prompt is the past; only linked sources are cited |
| Source registry (`api/routes/sources.py`, `services/source_service.py`) | `sources` | upload, add a video, link automatically | one source per content and account |
| RAG pipeline (`rag/pipeline.py`, `applications/rag_application.py`) | the answer cache | retrieve, generate, retry, time out | bounded retries, no stale answer |
| Redis cache (`cache/`) | keys with a time to live | get, set, delete by pattern | an invalidation reaches what it names |
| Embedding client (`embeddings/huggingface_tei.py`) | cached embeddings | batch, merge | the i-th vector belongs to the i-th text |
| Chunking (`rag/chunking.py`) | none | split text, split a transcript | no text lost, no chunk above the limit or empty |
| Accounts (`services/user_service.py`, `services/auth_service.py`, `api/deps.py`) | `users`, tokens | register, log in, delete | deletion takes everything the account owns |
| Request pipeline (`main.py`, `middleware/`) | none | order of layers and handlers | each exception reaches the handler meant for it |
| Clients and loaders (`llm/`, `ingestion/loaders.py`) | none | remote calls, PDF parsing | — |
| Observability (`observability/`, `core/logging.py`) | counters nobody reads back | — | — |
| Notebook services (`applications/ingestion_service.py`, `applications/rag_service.py`) | — | variants no route reaches | — |
| Message hook (`hooks/use-messages.ts`) | messages, `isSending`, the refs of the interval and of the streamed message | load a history, send, animate word by word, stop, clear | what is at rest is what the server stored; sending ends; one interval at a time |
| Chat list and page (`hooks/use-chats.ts`, `app/(app)/page.tsx`, `components/chat/chat-input.tsx`) | the list with its optimistic edits, the active chat, staged sources | select, create, rename, delete, submit, regenerate | nothing staged is lost; the active chat is listed |
| Sources and panels (`hooks/use-sources.ts`, `components/sources/`, `components/chat/chat-sources-bar.tsx`) | sources on display, marks, polling tasks, the links of the chat | upload, add a video, process, poll, reload, link | marks and busy forms end; status and links on display are the server's |
| Session (`lib/api/client.ts`, `lib/api/auth.ts`, `app/(app)/layout.tsx`, `app/login`, `app/register`) | the stored token and its legacy key, the copies of `useAuth`, the forms | sign in, register, sign out, validate, refuse, crash and reset | a session that ended stays ended; only a refusal or a sign-out ends one; nothing hangs |
| Rendering (`components/chat/`, `lib/api/`, `types/`) | the toggles of a message | cards, citations, types, copied ticks, grouping and search of chats, error texts | a reload shows what was shown; a citation meets its card; a failure is told once |
| UI kit (`components/ui/`, `hooks/use-toast.ts`) | the toast store, the collapsible sidebar, the carousel; the chart keeps none | — | a dismissed toast goes, no other does; the cookie tells the state; a button leads somewhere |

No page mounts the source manager, the toaster, the sidebar primitive, the
carousel or the chart at this commit; they are modelled as the code defines them, used in any
way their interface allows.

### How they interact

The server is one process with one event loop.  Every database call of a service
commits on its own (the helpers of `pgvector_store.py` and of `services/` call
`commit`), so *each await is a point at which other requests see a half-done
request*.  Ingestion and chats share only tables: a send reads the ready sources
linked to its chat, then searches their chunks, while ingestion replaces those
chunks and an account deletion takes them away.  The rate limiter stands in front
of all routes and shares nothing with them.  Background tasks (titles) run on the
same loop after the response.  The frontend sees the server through responses and
polling only: each call is answered later, by a server that has moved on, or is
lost.  Its components share a page through closures, refs and effects (a handler
runs to its next await, then React renders and runs the effects whose
dependencies changed), and its tabs share a storage.

### What is hard

Overlapping requests on one source or one chat; a failure between two commits; a
server that stops half-way; deletion of an account or chat while a request on it
waits for a remote service; values read before an await and used after it; a
clock read several times during one check; a global bound after it was imported.
In the frontend: answers that come back in another order than their requests, or
to a page that shows another chat; effects that undo what a handler just did;
timers that outlive what they animate; a task that polls while its panel is
reloaded or left; two tabs that sign in and out with one storage.
`PROJECT.json` lists each with its line under `hazards`, with the properties that
watch it or why none does.

## 2. The modules

| Module | Models |
|---|---|
| `ChunkStore` | abstract: what ingestion promises to those who retrieve |
| `Ingestion` | `process_source` and the route around it, the tables it writes |
| `IngestionRollback` | `Ingestion` with a documented claim to refute |
| `IngestionProofs` | theorems about `Ingestion`, and that it implements `ChunkStore` |
| `SlidingWindow` | abstract: the decisions a limiter promises that forgets nothing |
| `RateLimiter` | `check_rate_limit`, its cleanup and its clock readings |
| `RateLimiterProofs` | theorems about `RateLimiter`, and that it implements `SlidingWindow` |
| `Chat` | sends and chats, composed with `ChunkStore` (`Store == INSTANCE ChunkStore`) |
| `ChatProofs` | theorems about `Chat` |
| `ApiCalls` | what every hook needs of a call: in flight, answered by the server, delivered or lost |
| `MessageHook`, `ChatListHook` | `use-messages.ts` and `use-chats.ts` with the server's side of their calls |
| `HomePage` | `page.tsx` with the input and the sidebar, composing the two hooks |
| `HomePageProofs` | theorems about `HomePage`: types, staged sources, the list and the active chat |
| `HomePageRestProofs` | theorems about `HomePage`: intervals, and the conversation at rest |
| `SourceHook` | `use-sources.ts` with the server's rows and processing jobs |
| `Sources` | the three panels that use it: the bar, the input, the manager |
| `SourcesProofs` | theorems about `Sources` and its copies of the hook |
| `SourcesRestProofs` | theorems about `Sources`: what the panels show when their calls are over |
| `Session` | tokens, copies of `useAuth`, forms and requests in several tabs |
| `SessionProofs` | theorems about `Session` |
| `Chunking`, `Embedder`, `RagPipeline`, `RequestPipeline` | functions of the server, see below |
| `ApiErrors`, `MessageViews`, `SidebarViews`, `SourceViews` | functions of the frontend |
| `ToastStore`, `UiSidebar`, `UiCarousel` | the stateful parts of the UI kit, as functions of their state |
| `UiChart` | what the UI kit's chart shows in its tooltip and legend, and its color variables |
| `MC*` | instances for TLC |

The composition is by contract: `Ingestion` is shown to implement `ChunkStore`
(by TLC on two requests, by TLAPS for any number), and `Chat` runs against
`ChunkStore` instead of the detailed ingestion.

### Ingestion

A request is a slot `j \in Jobs`.  `pc[j]` names the stage that comes next; a
stage is the code between two awaits.

| Action | Code |
|---|---|
| `CreateSource` | the row is inserted with status `processing`; an upload stores the file's hash |
| `Request` | the route reads the source and checks its owner |
| `MarkProcessing` | `update_source_status(processing)`, before the try block |
| `Extract` | extraction and hashing: synchronous, one look at the content |
| `Lookup` | `get_existing_file_hash` and the comparison |
| `DeleteChunks` | `delete_chunks_by_source`, committed |
| `Embed` | chunking, then the await of the embedding service |
| `Insert` | `insert_chunks`: all rows or none, the unique id and the foreign key |
| `Finish`, `Record` | `update_source_status(ready)`; the route stores the hash and answers |
| `StageFails`, `MarkFailed` | any exception inside the try block; the except clauses |
| `Die` | the request ends where no handler runs |
| `ContentChanges`, `DeleteUser` | the video service; `DELETE /users/{id}` with its cascades |

Abstractions.  A content *is* its hash (no collisions).  A version is cut into a
fixed number of chunks `NChunks[v]`, possibly 0.  A chunk row is its source, its
index in the id and its hash; text and vectors are left out.  `LIMIT 1` without an
order is a choice of any row.  The read and the write inside
`update_source_status` are one step: nothing between them depends on what other
requests write.  A response of the embedding service with the wrong number of
vectors, and any other exception of a stage, is `StageFails`.  `Die` covers a
restart (each active request dies) and a status write that fails itself.  The
branch in which a PDF cannot be read for hashing is left out.  `Owner`, `Files`
are constants because nothing changes them.

`disturbed` and `unattended` are history variables: requests that another request
of the same source overlapped, and sources whose `processing` nobody is going to
settle (never processed, or a request died on them).  No action reads them.

### ChunkStore

`held[s]` is the version a retrieval on `s` sees, or `None`.  `Fill` needs `None`
before it, so a version is never replaced in place; `Clear` is for videos only,
because a stored file never changes; `Drop` is the deletion of an account, after
which nothing is filled.

### RateLimiter

`Check(u)` is one call of `check_rate_limit` under the lock.  It reads the clock
first (`now`), again in the cleanup if one is due (`cleaned`) and again when it
prunes (`read`); at most `Delay` ticks pass in between.  The list of an identifier
is a set of numbered timestamps, since only its size, its oldest entry and its
pruning matter.  `Second` is the number of ticks in a second, so that the
truncation of `Retry-After` to whole seconds is visible.  `SlidingWindow` is the same
without lists, cleanup and truncation.  The clock is monotone
(`time.time()` could be set back; that is not modelled).  Whitelisted paths and
the choice between user id and address are not modelled: a check of any
identifier may come at any time.  `log`, `promised` and `lastCheck` are history.

### Chat

A request `r \in Requests` is one `POST /messages/send`.  Its stages are calls that
commit on their own: read the history, save the user message, list the ready sources,
retrieve (the embedding of the query and one SELECT) or fall back, generate, save
the reply, save what it cites, schedule a title.  A message is saved in two steps
(`AddMessage`).  `InsertMessage` is the flush: the default of `created_at` stamps
the row (`db/models.py:116`) and the foreign key asks for its chat.  `CommitMessage`
makes it visible (`Visible` is what a SELECT returns).  Other requests run between
the two, so a message can become visible after one with a later stamp has been read.
`messages[c]` keeps the rows in the order of their stamps, `committed` those that
others see; an insert that fails before its commit is rolled back, that is, never
becomes visible.  The deletion of a chat waits for the inserts that refer to it,
because the foreign key's check locks the row of the chat until they end.

The environment creates,
renames and deletes chats, links sources, changes statuses in any way and takes
the steps of `ChunkStore`.  `Fail` is an exception or the death of the server at
any stage.

Abstractions.  A message is the request it belongs to and its role; no two rows
have the same stamp, and one server stamps them all.  A history that was read is the
set of its messages, whose order is that of their stamps.  A title is there (`titled`) or is null or the default
(`none`).  Ownership checks are left out: every actor is the owner.  The deletion
of an account is seen as `DeleteChat` of its chats and `Drop` of its sources.
After a restart the process memory of the modelled requests is gone, which `Fail`
covers; `sessionMaker` stays bound, since startup binds it again.

### HomePage, MessageHook, ChatListHook

A send `e \in Sends` is one `handleSubmit` or one regeneration; `stage[e]` is the
await it stands at.  An action runs a handler to its next await and ends with the
effects of the page (`AfterEffects`), because React runs them before anything else
of the page.

| Action | Code |
|---|---|
| `SelectChat`, `NewChat`, `DeleteChat`, `RenameChat` | the sidebar's handlers, with the optimistic edits of `use-chats.ts` |
| `ListCall`, `ListAnswer` | the reload of the list after an edit, answered when the server gets to it |
| `Type`, `Suggest`, `Submit`, `Stop`, `Regenerate` | the input and the buttons of a message |
| `CreateChat`, `CreateFails`, `ChatCreated` | the creation a submit without a chat begins with |
| `LinkSource`, `LinksSettled` | `Promise.allSettled` over the staged sources; the ones linked are unstaged |
| `ServerSend`, `SendAnswer`, `SendLost` | `sendMessage`: the server's turn, its answer or its loss |
| `ServerHistory`, `HistoryAnswer` | loading a history, also the silent reload after a stream |
| `TimerTick` | one word of the interval, and its last tick with the reload it starts |
| `StartIngest`, `SourceIngested`, `IngestFails` | a source that is added before or beside a chat |

A message is a send and the number of its words on display; `history` is the
server's sequence of turns.  The search and the collapsed state of the sidebar are
left to `SidebarViews`: they hide chats and never change which there are.
`overlapped` and `moved` are history variables.

### SourceHook, Sources

A task `u \in Uploads` is one source a panel adds: create, process, then the loop
of polls with its growing interval and its timeout.  `jobs[u]` is the processing on
the server, which a lost answer does not stop.  A reload lists all rows, where
the server lists at most 100.  `Sources` adds the forms (which of
them lock, which take a file at once), `getChatSources` of the bar and the manager,
linking, changes of chat, reloads and leaving the page.  `strayed` and `raced` are
history variables that name the two overlaps whose outcome the code leaves open: a
chat that changed under a call, and a reload of a panel that overlapped its task.

### Session

A tab is at a path, or on its way to one (`leaving`); `auth[t][c]` is one copy of
`useAuth`.  A request carries the token it was sent with, and the page and copy it
was sent from: leaving a page inside the app cancels what its copies do with an
answer but not the request, while a full load drops it.  `apiRequest` clears the
storage on a 401 and sends the tab to `/login`; `hydrateAuth` clears it once more
after its awaits (`ClearAgain`).  `ended` is history: the tokens a tab has removed.

### Functions checked over small inputs

Eleven modules hold no behaviour of their own but functions of the code: the
properties of these are named `ASSUME`s, which TLC evaluates whenever it runs a
module that extends theirs.  Inputs are all small ones (texts of a few tokens,
lists of a few entries, every field missing or there); where an `ASSUME` records
what the code does against a document or a comment, it says so.

| Module (evaluated in) | What the assumptions say |
|---|---|
| `Chunking` (`ingestion`) | `ChunksAreTheText`: nothing but the ends of over-long sentences is lost, in order, and each chunk has something of its own; `ChunkSize`: the limit is exceeded by the overlap and no more (the docstring calls it a maximum); `PdfChunksNumbered`: ids 0, 1, 2, ... whatever the pages; `TranscriptChunks`: the words in order of time, an empty chunk only first |
| `Embedder` (`ingestion`) | `VectorsMeetTexts`: the i-th vector is the i-th text's, for every mixture of cached and fresh; `ShortBatchFails`: a short batch fails the call, and may leave wrong vectors in the cache |
| `RagPipeline` (`chat`) | `NeverRetried`: the retry decorator never sees the exceptions it waits for, against the docstring at `rag/pipeline.py:217`; `CachedAnswerFits`: equal keys mean the same context, question and history; `InvalidationReach`: the patterns for a source or a scope match no key |
| `RequestPipeline` (`rate_limit`) | `RouteErrorsAnswered`: a route's exception gets its handler's status, readable to a browser; `RejectionFallsThrough`: a rejection of the limiter is answered 500 without `Retry-After` and without CORS headers, against `src/README.md:110` and `src/backend/docs/backend-architecture.md:239`, because it is raised outside the layer of the handlers; `IdComesTooLate`: the observability layer never knows the request id |
| `ApiErrors` (`session`) | `WaitsLongEnough`, `ToldOnce`, `ServerTextShown`: what a failed call tells the user, once |
| `MessageViews` (`home_page`) | `ReloadKeepsSources`, `TypesAgree`, `CardHasLink`, `SourcesInReach`, `CitationsMeetCards`, `TickEnds`, `WordsInOrder` |
| `SidebarViews` (`home_page`) | `GroupsKeepOrder`, `TitlesFit`, `SearchFindsTitle`, `SearchExplained` |
| `SourceViews` (`sources`) | `PanelsAgree`, `LabelTellsTruth` |
| `ToastStore`, `UiSidebar`, `UiCarousel` (`session`) | `DismissedGoes`, `LateTimerHarmless`, `ToasterShowsStore`; `ToggleShows`, `DoubleToggle`, `CookieTellsState`, `TooltipStandsIn`; `ButtonsLeadSomewhere`, over every sequence of a few calls |
| `UiChart` (`session`) | `LabelShownOnce`: a tooltip's label is there once, and lost only when the caller's formatter replaces the row that holds it; `LegendAgreesWithTooltip`: the two name an item alike unless its name and its `dataKey` are different keys, which they look up in a different order; `ThemesColorTheSameKeys` |

## 3. The runs

| Run | Instance | Shows |
|---|---|---|
| `ingestion` | 3 requests, 1 video, 3 versions of 1, 2 and 0 chunks | `TypeOK`, `WholeVersion`, `UndisturbedOutcome`, `ProcessingAttended` |
| `ingestion_pair` | 2 requests, a file and a video, 2 versions | `ImplementsStore` |
| `ingestion_live` | 2 requests, 1 video, fairness | `Settles` |
| `ingestion_rollback` | 1 request | **violation** of `FailureRollsBack` |
| `rate_limit` | 2 users, 2 admissions per 4 ticks, cleanup every 2, 2 ticks to a second, 1 tick of delay, 7 ticks | `TypeOK`, `AtMostLimit`, `RetryAfterExact`, `StaleBounded`, `PromiseKept`, `ImplementsWindow` |
| `chat` | 2 requests, and 3 while the source is settled, 1 chat, 1 source, 1 version, a history of 1 turn | `TypeOK`, `ReloadMatchesResponse`, `PromptIsThePast`, `AnsweredInPrompt`, `CitedWereLinked`, `NeverFromGone` |
| `chat_title` | 1 request, fairness | **violation** of `TitleArrives` |
| `home_page` | 2 chats, 2 sends with answers of 2 and 1 words, 1 upload, 6 plans, fairness | `TypeOK`, `StagedNeverLost`, `ActiveListed`, `OneInterval`, `RestShowsHistory`, `InputComesBack`, `StreamEnds` |
| `home_page_sending` | the same page, 1 send | **violation** of `SendingHasOwner` |
| `home_page_timers` | the page of `home_page` | **violation** of `LastWordStops` |
| `sources` | 2 chats, the same file twice and 2 videos, 3 panels, 9 plans, fairness | `TypeOK`, `MarkedIsWorkedOn`, `BusyIsAdding`, `RestShowsStatus`, `ManagerShowsLinks`, `BarShowsSources`, `AddressKept`, `BusyEnds`, `SourceSettles` |
| `session` | 2 tabs, an old and a new token of 2 users, 2 requests in flight, 4 plans, fairness | `TypeOK`, `EndedStaysEnded`, `EndedTabLeaves`, `SessionEndsOnlyBy`, `ValidationEnds`, `SubmitEnds` |

What the properties say, in the order of the runs:

- `WholeVersion`: whatever overlaps, fails or dies, the chunks of a source are all
  the chunks of one version, or there are none.
- `UndisturbedOutcome`: a request nothing overlapped leaves the status, chunks and
  hash its answer announced, whatever earlier requests left behind.  It is what
  "smart re-ingestion" has to get right after a crash: the comparison must be
  against the chunks, not against the hash in `sources`.
- `ProcessingAttended` and `Settles`: `processing` means somebody works on it, and
  it ends.
- `ImplementsStore`: the contract `Chat` relies on.
- `AtMostLimit`: any interval of `Window - Delay` ticks holds at most `Limit`
  admissions.  The window is shorter by `Delay` because a check stores its first
  reading of the clock and prunes by its last.
- `RetryAfterExact`, `PromiseKept`: the moment from which there is room lies before
  the announced one, by at most a second: by less when the wait was truncated, by a
  whole second when it was a whole number of seconds, since the code adds one then
  too.  A client that obeys is not rejected.
- `StaleBounded`: after a check nothing older than a window plus a cleanup
  interval is remembered of anybody.
- `ImplementsWindow`: and what is forgotten never shows in a decision or in an
  announced moment.
- `ReloadMatchesResponse`: a request answered with a reply left one question, one
  later reply and exactly the sources it was answered from; a chat that was deleted,
  during the model's answer or at any other stage, left nothing.
- `PromptIsThePast`: a prompt holds only messages that were committed and stamped
  before its question, and an answer only with the question before it, unless that is
  older than the whole window.  A prompt need not be gapless: a message stamped
  before one that was read may have been committed after the read.
- `AnsweredInPrompt`: a turn that was answered before a question is asked is in its
  prompt, unless `2 * MaxTurns` newer messages are.
- `CitedWereLinked`, `NeverFromGone`: a chat cites only its own sources; a deleted
  source is never retrieved, although it was in scope when the scope was read.

- `StagedNeverLost`: a source added before there is a chat stays staged until a chat
  has it, although links fail, answers get lost and submits overlap.
- `ActiveListed`: an optimistic deletion, a failed one, a reload from before a
  creation: the page never stands on a chat the sidebar does not list.
- `OneInterval`: as long as sends do not overlap, an interval that runs is the one the
  ref holds and has words left, so that its last word, Stop, New chat and the next
  send end it.  Selecting another chat stops nothing: `loadHistory` puts other
  messages in place while the interval runs on to its last word.  When sends do
  overlap the property fails, which `home_page_timers` shows.
- `RestShowsHistory`: what stays on display after streams, reloads and late answers
  is what the server stored.
- `InputComesBack`, `StreamEnds`: the input becomes usable again; an animation ends,
  whichever interval the reference names.
- `MarkedIsWorkedOn`, `BusyIsAdding`, `BusyEnds`: a spinner has a task behind it,
  and it goes away.
- `RestShowsStatus`, `ManagerShowsLinks`, `BarShowsSources`: what panels show at rest
  is the server's, and the history variables name the overlaps in which it is not.
  `BarShowsSources` is about the bar as it is mounted, with the input and without the
  manager: no page renders `SourceManager`, and `page.tsx` has no callback through
  which its links could reach the bar.
- `AddressKept`: an address that was typed is cleared by its own success only.
- `SourceSettles`: a source does not stay `processing`, although only its client asks
  for the processing, when no request is lost.
- `EndedStaysEnded`: a token that was given up does not return, from the legacy key
  or with a late answer.
- `EndedTabLeaves`, `ValidationEnds`, `SubmitEnds`: a tab whose token is gone leaves;
  neither the validation nor a form hangs.
- `SessionEndsOnlyBy`: a valid token is removed by a sign-out, or by the refusal of a
  request that carried something else: a failed network or a crash ends no session.

### Bounds

Ingestion: three requests are needed for two to overlap a third at different
stages, or for an undisturbed request to follow two that overlapped; slots are
reused without limit, so no run ends after three.  Three versions give "same",
"other" and "empty"; two chunks tell a truncated version from a whole one.
`ingestion_pair` needs a file and a video at once because `ChunkStore` treats
them differently.  Rate limiter: the horizon of 7 holds a full window (4), a wait
after it and two cleanups; two ticks to a second make the truncation matter; two
admissions of two users are enough for the lists to hold stale and fresh entries
at once.  TLAPS removes all these bounds for the theorems of section 5.  Chat: one
source is enough, because it may be ready without being linked, linked without being
ready, and in a scope without being found or there any more; one version suffices
because which version is retrieved is `ChunkStore`'s matter.  Three requests make
six messages, three times the history of one turn, so trimming happens with
messages of others in every position, inserted and committed in every order.  The
constraint `ThreeWhileSettled` keeps the third request to the behaviours in which the
source is ready, stored and linked and whatever was found is not empty; two requests
meet every change of the source and the links.

The three models of the frontend have a constant `Plans`: which deeds are combined
in one behaviour.  All deeds at once would be too many states; a plan combines those
that meet in the code, and TLC checks every interleaving of each.  The page: two
sends race (the second begins while the first is creating, sending or streaming),
alone or with a source that is ingested and staged meanwhile; one send amid edits of the list, staged sources or histories that arrive out of
order; every call lost.  Two chats are enough to be on the other one; a list has one
reload on its way at a time beside the edits, and an answer of two words has a tick
between its first and its last.  Panels: every pair of panels or tasks that share a
hook, a chat or a form, and for each the loss of each call; a poll interval that
doubles once (1, 2) within a timeout of 4 passes every branch of the loop.  Session:
two tabs because a third adds nothing to "another one"; an old token, valid or
expired, in the current or the legacy key, and the token of a sign-in, of another
user.

Where deadlock is not checked: in `home_page`, `home_page_sending`,
`home_page_timers`, `sources` and `session` the user may stop at any time, and the
plans end; `chat_title` stops when its request has been made and the chat, whose id
is never used again, is deleted.  The remaining runs check it.  In `rate_limit` a check is
always possible, at the horizon too.

### Fairness

`Ingestion!FairSpec`: weak fairness of each request's next step.  The loop is
not blocked for ever: extraction returns, the embedding service and the database
are called with timeouts, and asyncio runs every ready task.  Which step is
taken, success or failure, is left open, and `Die` needs no fairness, so nothing
assumes that things go well.  `Chat!FairSpec`: background tasks and request
steps are scheduled by the same loop.  `HomePage!FairSpec`: weak fairness of each
send's next step, of its timer and of each load: `setInterval` fires, and a `fetch`
resolves or rejects in the end.  `Session!FairSpec`: of each request, and of a full
load that has begun.  `Sources!FairSpec`: of the steps of the server and the tasks
taken together, which is less; it is enough because each deed of the user is
followed by a bounded number of them.  In all three the user owes nothing, and a
call may be answered or lost.

## 4. Findings

1. `ingestion_rollback`.  `src/backend/docs/backend-architecture.md:200` says that
   all writes of a request happen in one transaction that rolls back when any step
   raises.  The code commits the deletion of the old chunks before it embeds the
   new ones (`applications/ingestion_application.py:297`,
   `vectorstore/pgvector_store.py:53`): if the embedding fails the old chunks are
   gone.  The source is marked `failed` and the next undisturbed request repairs
   it (`UndisturbedOutcome`).
2. `chat_title`.  `applications/chat_application.py:14` imports
   `async_session_maker` by value while it is still `None`
   (`db/sessions.py:26`); `init_engine` rebinds it in its own module only
   (`sessions.py:142`).  The background task tests the imported name at line 55
   and returns, so an untitled chat never gets its title, against the function's
   docstring at line 50.

3. `home_page_sending`.  `sendMessage` sets `isSending` and leaves it to others to
   clear it (`hooks/use-messages.ts:231`).  After a POST that failed, and after a
   stream that leaving the chat interrupted, nobody is left to: the input stays
   disabled until the page is loaded anew.  The comment at line 232 says that it is
   "cleared when streaming completes or when the zero-word branch handles it".
   `InputComesBack` shows that nothing else keeps the input disabled.
4. `home_page_timers`.  While `handleSubmit` awaits `createChat` the input stays
   usable (`app/(app)/page.tsx:173`), so two sends can be answered one after the
   other, and the second answer overwrites the only reference to the first one's
   interval.  The callback of the last word clears the interval the reference names
   (`hooks/use-messages.ts:201`), not its own: once the second has cleared itself, the
   first goes on after its last word and reloads the history at every tick, against
   the comment at line 200.  `StreamEnds` holds nevertheless: each tick past the last
   word resets `isStreaming` again.

Four more disagreements between documents and code are facts about functions, and
stand in section 2 beside the assumption that states them: the answer to a rejected
request (`RejectionFallsThrough`), the retries that never happen (`NeverRetried`),
the limit of a chunk (`ChunkSize`) and the request id of the observability layer
(`IdComesTooLate`).

## 5. Proofs

No theorem assumes a size: users, sources, requests, versions, limits and windows
are arbitrary, and so are tabs, tokens, uploads, files, polling intervals and the
plans that bound a behaviour, under the named assumptions of the modules
(`ConstantsAssumption`, `LimiterAssumption`, `ChatAssumption`, `SessionAssumption`,
`SourceHookAssumption`, `SourcesAssumption`, `MessageHookAssumption`,
`ChatListAssumption`, `HomePageAssumption`), which TLC evaluates in every run.  They
give the constants their types, number what the code makes in an order, and keep
`None` apart from everything it stands beside.

Every invariant and every action property of the passing runs is the subject of a
theorem.

**Ingestion** (`IngestionProofs`).

- `TypeCorrect`: `TypeOK` is inductive; its last two conjuncts tie the stage to
  the fields a request must hold at it.
- `WholeVersionHolds`: inductive together with `TypeOK`.  Only `Insert` adds rows.
  If a version has a chunk at all, it has one with index 0, so two non-empty
  versions share an id and the unique constraint admits an insertion only when the
  source has no rows.
- `ProcessingAttendedHolds`: inductive; each step that could leave `processing`
  unattended either settles it or is `Die`, which records it.
- `UndisturbedOutcomeHolds`: not inductive, since it speaks of finished requests
  only.  The strengthening `UndisturbedInv` says that an undisturbed active request
  is alone on its source, and states what it has achieved at each stage
  (`StageFacts`): after `delete` there are no rows, after `insert` or a skip
  exactly its version, after `finish` the status is ready.
- `IngestionImplementsStore`: every step maps to `Fill`, `Clear`, `Drop` or a
  stutter.  A deletion never concerns a file, because all rows of a file and every
  version extracted from it are its unchanging content; that is a lemma of its own.

**Rate limiter** (`RateLimiterProofs`).  `LimiterInv` is `TypeOK` with three parts:
the limiter remembers every admission a later check could still count
(`Remembered`), no stored list exceeds the limit within its window
(`WithinLimit`), and what a cleanup could have swept has been (`SweptInTime`).
From `Remembered` follows `CountIsExact`: what a check counts is exactly the
admissions of the last window, although cleanups and prunings of other checks have
removed entries.  `AtMostLimitHolds`, `RetryAfterExactHolds`, `StaleBoundedHolds`
and `PromiseKeptHolds` follow from it, and so does `LimiterImplementsWindow`: a check
is one of `SlidingWindow`, whose count is over all admissions and whose rejections may
announce any moment of the second after the oldest has left the window.

**Chat** (`ChatProofs`).

- `ChatTypeCorrect`: `TypeOK` is inductive; it includes that links never outlive
  their chat or source.
- `StepKinds` sorts the steps by what they do to the messages: an insert, a commit, a
  read, a deletion, or nothing; the proofs about messages have one case for each.
- `ConversationHolds`: which of its two messages a request has inserted and committed
  at each stage, each once, the question first.
- `PromptIsThePastHolds`: `PromptKept`.  A row is inserted behind every other
  (`Appended`) and a deletion takes the whole chat, so no later insert or commit comes
  between what was read (`InsertKeepsPrompt`).  The read itself needs
  `ConversationHolds`, and that trimming keeps the newest (`TrimmedIsNewest`).
- `AnsweredInPromptHolds`: a request that is done has both messages committed, so they
  are visible to the read, and what `TrimmedIsNewest` leaves out has `2 * MaxTurns`
  after it.
- `ReloadMatchesResponseHolds`: from `ConversationHolds`, from `ScopeToCites`, which
  states what a send knows of sources at each stage, and from `NothingLeft`: a
  deletion finds no insert on its way, and no insert finds a deleted chat.
- `CitedWereLinkedHolds`: from `ScopeToCites` alone: a citation was found, what
  was found was in scope, the scope was linked.
- `NeverFromGoneHolds`: from `GoneIsEmpty`, an invariant of the store.

**Session** (`SessionProofs`).  `SessionInv` is one inductive invariant; the four
theorems follow from it.

- `LoadingAttended` and `CopiesMounted` tie each copy of `useAuth` to the page it
  is mounted on and to its validation, which an unmounting cancels but never
  leaves a loading copy without; `SessionTypeCorrect` needs no more.
- `TokensCarried` says what a request may carry at each stage: above all, a refused
  token is expired.  So the refusal that clears a *valid* stored token was not
  about that token, which is `SessionEndsOnlyByHolds`.
- `EndedStaysEndedHolds` needs `IssuedOnce`: the token a sign-in was answered with,
  and one not issued yet, is stored nowhere and given up by no tab, so that a late
  answer can store nothing that had ended.
- `EndedTabLeavesHolds` needs `RefusedTabLeaves`, which says the same of a layout
  that does not know its user yet.

**Sources and panels** (`SourcesProofs`).  `PanelsInv` has a part for the hook and
the rows (`HookInv`) and one for each concern of the panels.  What a task does to
the rest is said once (`TaskMoves`, `RowsStay`): it stays on its panel, one that is
over does not move, and rows and links are only ever added.

- `SourcesTypeCorrect`: with `RowsKnown`, since lists, answers and jobs must only
  speak of rows that exist, also when they are delivered late.
- `MarkedIsWorkedOnHolds`: `MarkedWatched` names the steps of the task that holds
  the mark.  Two tasks on one row share it, and the first to end takes it away:
  therefore the property has no converse.
- `BusyIsAddingHolds` and `AddressKeptHolds`: `FormsWait`.  A form that is disabled
  while it is busy has one task; a locked field still holds what the task was given.
- `ManagerShowsLinksHolds`: `ManagerKnows`.  At most the loads for the chat on
  display count; what an answered load or link says is linked stays linked.

The two that compare a panel with the server after its calls (`SourcesRestProofs`)
need an account of every answer still pending.

- `RestShowsStatusHolds`: `SettledInv` follows a source whose file nobody else adds
  from its upload to its end.  Its task works on the row it created and its job runs
  only while the task waits for it (`TaskKnows`); therefore what a poll was answered
  is still the row's status when it is delivered.  From the end on, every reload of
  the panel that is answered says the same (`PanelKnows`): none that was asked
  earlier is left, because `raced` would have recorded it.
- `BarShowsSourcesHolds`: `BarFollows` states which sources of the chat may be missing
  from the bar, or from an answer on its way to it: those a task still works on
  (`Coming`), at whose end the bar asks again.  `Together` excludes a task of a panel
  that has left alone, which nobody would tell the bar of.

**The page** (`HomePageProofs`, `HomePageRestProofs`).  `HomeInv` types the variables
and says three things more: the refs of the stream are set and reset together while
their interval runs (`StreamHeld`), whatever the page names was made (`ListTyped`,
`SendTyped`), and any list of chats that were made has a newest one, although there
may be infinitely many chats to make (`MadeInOrder`).

- `StagedNeverLostHolds` needs `LinkedAreLinks`: what a submit took for linked is
  linked, so the subtraction that ends it drops no other staged source.
- `ActiveListedHolds` follows from what the effects pick (`EffectsPickListed`), step by
  step.
- `OneIntervalHolds`: `InOrder`.  Of sends that do not overlap one is under way
  (`OneSend`), and none awaits an answer while an interval runs (`OneTimer`): the
  answer would overwrite the ref and leave an interval nobody can clear.  The theorem
  does not say whose messages the interval finds on display.
- `RestShowsHistoryHolds`: `QuietInv`.  In a conversation nothing disturbed, a send,
  its animation and the reload after it come one after the other (`OneThing`), each
  for the chat on display (`SendsInPlace`), and in between the messages are the
  history up to the one answer that is on its way (`ShowsHistory`).
- `QuietSendingHasOwner`: the safety half of `InputComesBack`.  The run
  `home_page_sending` shows `isSending` set with nothing left to clear it; in a
  conversation nothing disturbed that cannot happen, unless the chat of a send was
  deleted.  `Owned` is kept because what will clear the flag goes on, passes to the
  animation or reload that follows it, or clears it, and a send names its chat once
  (`Targetless`), so a deleted chat stays the reason (`DeletedStays`).

**Only model-checked.**  Liveness under fairness: `Settles`, `StreamEnds`,
`InputComesBack`, `BusyEnds`, `SourceSettles`, `ValidationEnds`, `SubmitEnds`; the
prover has no rule for fairness and `ENABLED`.  The functions of the other modules,
which TLC compares with what they should compute over small inputs (section 2); most
are recursive over their data, and the library's induction cannot be instantiated.

## 6. Plan

What would add most, in this order.

1. A theorem for the functions that are not recursive, above all the answer to an
   exception in `RequestPipeline` and the keys of the cache, for all inputs.
2. A source registry of its own: uploads and videos deduplicated by hash or id on the
   server, with the awaits between look-up and insertion of two requests, and
   automatic linking.  `SourceHook` models it from one client's side.
3. The whole path of a send: `HomePage` against `Chat` instead of its own server's
   turn, which would show what a page displays when a send fails after its question
   has been committed.

## 7. Not modelled

Remote services, PDF parsing and the model's text (input and output); metrics and
logs (nothing reads them); the notebook services (no route reaches them); hashing of
passwords and the encoding of tokens; the connection, statistics and times to live
of the cache, whose every failure is a miss; pools and timeouts of the database
driver, though a send keeps its session while the language model answers.

Of the frontend: markup, styles and the files of `components/ui/` that only wrap a
library component; the ranking of chunks and the wording of the prompt on the
server; dashboards and container configuration.
