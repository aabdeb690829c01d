# TLA+ models of Legal Case Management

This directory specifies the parts of the platform whose correctness depends on the order
of things: the background runs of the API under `src/apps/api` with their queues, threads,
rows, crashes and restarts; the requests that overlap on one document, case or conversation;
the real-time channel and the browser tab at its other end; and the pipeline that answers
questions. The models are checked with TLC on small instances; what matters most is proved
with TLAPS for every value of the constants. `PROJECT.json` maps every definition to the
lines it models.

## 1. Inventory of the system

One FastAPI process serves HTTP and WebSocket requests and runs every background pool in
threads of its own (`core/lifespan.py`). PostgreSQL holds the records, MinIO the files,
Qdrant the vectors, Redis the sessions and counters. A Next.js client polls and listens.

| Component | State | Operations | Hard behaviour | What makes it correct |
|---|---|---|---|---|
| Extraction runs (`services/ocr*.py`, `repositories/ocr.py`) | `ocr_results`, `ocr_pages`; pool and its queue in memory | schedule after upload, retry, claim, extract, complete, fail, requeue at startup, drain | requests and threads with unrefreshed copies of one row; crash between commit and enqueue or within a run; errors of the last write | one thread per run, no queued run lost, text and status agree, runs end |
| Indexing runs (`services/indexing*.py`, `services/job_queue.py`, `services/vector_store.py`) | `document_indexes`; points in Qdrant | hand-over, re-index, claim, load, chunk, embed, delete, upsert in batches | two stores without a common transaction; failing batches; extraction moving underneath | points of one reading, all of them once indexed |
| Lifespan (`core/lifespan.py`) | which pools run | start and stop in a fixed order | an early pool feeds a later one | nothing is stranded by a graceful stop |
| Documents (`services/document.py`, `document_storage.py`) | `documents`, `document_versions`; objects in MinIO | upload, replace, edit, delete, download, preview | version numbers under concurrent replacement, a row that mirrors its newest version, cleanup of objects after a failed commit | the history has no gap, every version can be opened, the row describes the newest |
| E-mail and WhatsApp delivery (`services/email_*.py`, `whatsapp_*.py`) | delivery rows with attempts and due times | dispatch, claim, send, record, retry, reclaim, sweep | lost answers of the provider, crash after acceptance, stale senders, duplicate jobs | no delivery is forgotten, attempts are bounded, no second send where it can be avoided |
| Report agent (`services/report*.py`) | `reports`, sections, citations | request, regenerate, claim, progress, complete, withdraw | check-then-insert limit, racing regenerations, deletion while running | content of one attempt, the limit, withdrawn reports stay withdrawn, runs end |
| Cases and timeline (`services/case.py`, `timeline.py`) | `cases`, `timeline_events` | create, edit, change status, assign, archive | updates validated against stale copies | statuses and dates follow their rules |
| Notifications (`services/notification*.py`) | `notifications`; a bounded inbox and its thread | consume, resolve the audience, deduplicate, insert | full inbox, shutdown while publishing, access that changes before the audience is resolved | who is told was entitled to it, once; who is assigned is told |
| Events and real-time channel (`services/events.py`, `websocket/*.py`, `services/realtime_access.py`, web `lib/realtime`) | event log and sequence, manager's inbox, connections, subscriptions, per-connection queues; in the browser the last sequence and what it shows | publish, connect, subscribe, deliver, renew, close; follow, resume, recover | slow consumers, access withdrawn between subscription and delivery, reconnection | nobody receives on an old authorization; a client that missed something learns of it |
| Question answering (`services/rag*.py`, `services/llm.py`, `core/rag.py`) | one run per question | validate, retrieve, assemble, generate with retries, stream, verify, format | a stream that breaks, a refusal recognised after its first characters, budgets and markers at their boundary | what is streamed belongs to the outcome, markers resolve to sources |
| Assistant (`services/assistant.py`, `repositories/conversation.py`, web `use-assistant.ts`) | conversation row, messages; in the browser what is shown | ask in three modes, rename, archive, restore, delete | positions reserved before the answer exists, readers that leave, counters on copies | the transcript reads as exchanges, an answer shown as final is stored |
| Sessions (`services/auth.py`, `session_registry.py`, `token_revocation.py`, `login_throttle.py`) | Redis keys with expiry, a generation in the user row | login, refresh, logout, change password, throttle | two calls of a cache that are not one | not modelled |
| Search, chunking, embedding and OCR engines | none shared | computation and library calls | - | not modelled: inputs of the models above |
| Monitoring, metrics, settings, users, dashboard, localization, UI | counters, single rows | reads and single writes | - | not modelled |

Interactions: a request commits its row and enqueues a job; an extraction that completes
creates the index row on the same thread and enqueues an index job; at startup each pool
re-queues the pending rows it finds; at shutdown pools are drained in the order of the
lifespan. Services publish events through the timeline; the dispatcher numbers them and
hands them to the connection manager and the notification worker, and the latter hands the
rows it inserts to e-mail and WhatsApp. The assistant asks the answering pipeline.

The hazards of this code, each at its line, are listed under `hazards` in `PROJECT.json`
with the properties that watch them.

## 2. Modules

| Module | Models |
|---|---|
| `RunLifecycle` | abstract: rows move along `STATUS_TRANSITIONS` |
| `OcrRun`, `OcrRun_proofs` | extraction: requests, queue, threads, rows and pages, process |
| `IndexRun`, `IndexRun_proofs` | indexing, with extraction as an arbitrary environment |
| `Pipeline` | extraction and indexing in one process, and the lifespan's order; extends `IndexRun`, instantiates `OcrRun` |
| `EmailDelivery`, `EmailDelivery_proofs` | the e-mail channel: dispatch, pool, sweeper, relay |
| `ReportRun`, `ReportRun_proofs` | reports: requests, queue, threads that write section by section |
| `DocumentVersions`, `DocumentVersions_proofs` | one document, its history, its files and the runs it schedules |
| `CaseNotices`, `CaseNotices_proofs` | one case, its requests, their events and the notifications made of them |
| `EventChannel`, `EventChannel_proofs` | dispatcher, connection manager, endpoint and one browser tab |
| `Reply` | abstract: what a run of the answering pipeline promises its caller |
| `Answering` | that pipeline; implements `Reply` (proofs at the end of `Conversation_proofs`) |
| `Conversation`, `Conversation_proofs` | one conversation, its requests and browsers; builds on `Reply` |
| `MC*` | instances for TLC |

`RunLifecycle` is implemented by `OcrRun` (`ImplementsLifecycle`); `IndexRun`, which leaves
extraction open, by `Pipeline`, where it is `OcrRun` (`ImplementsIndex`); `Reply` by `Answering`
(`ImplementsReply`), and `Conversation` extends `Reply`, so that what it says of an answer rests
on a promise the pipeline was shown to keep. `Pipeline` takes its extraction steps from `OcrRun` as
they are: that it implements `OcrRun` needs no check, and what is shown of `OcrRun` holds in it.

**Steps.** One action is what the code does between two points at which another actor
can intervene: a commit, a read whose result is used later, a call of an external store.
`StartRetry` of `OcrRun` ends at the read of the row and `CommitRetry` is the write made from
it, because between the two the code holds neither a lock nor a row version.

**Sessions of the database.** Sessions are created with `expire_on_commit=False` and rows are
read through the identity map, so a job's second read of its row returns the copy loaded
before it; a worker's `seen` is that copy's status. An UPDATE names the columns whose value
differs from the copy's, so what a request leaves alone keeps what others committed: the
`row` of a request in `DocumentVersions`, `CaseNotices` and `Conversation` is its copy, and its
write is the difference.

**Process.** `Start` includes the requeue that precedes the first request; `StartFault` (and
`StartIndexFault`) is a start whose requeue failed, which is logged and passed over
(`services/ocr_worker.py:131`). `Stop` needs the requests finished, as the server guarantees
before it leaves the lifespan; `Drained` is `shutdown(wait=True)` returning. `Crash` forgets
queue, requests and threads and keeps rows, pages and points. `WorkerFault`, `RequestFault` and
their counterparts are statements the database refuses outside the code's own error handling; they
may strike at any step of a request, so also at the refresh that follows a commit
(`repositories/ocr.py:161-170`), which leaves a committed row with no job and no event. `Answer` of
`DocumentVersions` and `RequestFails` of `CaseNotices` are that too. A call of the vector store
that fails may have been carried out (`DeletePoints`, `UpsertBatch`). Refusals that change nothing
are disabled actions, unless a request's caller sees the difference (`Refuse`, `Close`).

**Readings.** A text is a member of a small set. In `IndexRun` a reading has a sequence
of passages, each on a page; point identifiers are the page and the chunk number, as
`chunk_point_id` derives them, so two readings may or may not overwrite each
other's points.

**E-mail.** A delivery is a row of `email_deliveries`; `inbox` counts the copies its
recipient has, which no part of the platform can see. A job is a `Take`, a `Claim` (one
conditional UPDATE), a `Send` and one of `MarkSent`, `Reschedule`, `MarkFailed`; `LoseAnswer`
is a message the relay took without the platform learning of it, which the code counts as a
transient failure. The sweep is the transactions of the code: `ReclaimStale`, `ReadDue`, and
one `QueueDue` per job. Time is abstract: `waiting` are the rows whose `next_attempt_at`
lies ahead and `stale` those at `sending` for longer than `EMAIL_STALE_SENDING_SECONDS`;
`BackoffElapses` and `GoesStale` let it pass. The provider modelled is the SMTP one: the null
provider accepts messages and sends none.

**Reports.** `content` is the number of the attempt whose sections the row holds: the words do
not matter, whose they are does. `raced` marks rows on which two regenerations overlapped between
read and write; such a row promises less (below). Requests count the active runs and write
afterwards, so several may pass the limit together, and a refused one changes nothing.

**Documents.** A request carries one file under a fresh key, so the request stands for both.
Reading the highest number, storing the object, committing row and version, reading the row
again and scheduling extraction are five steps, between which everything else may happen.
`stale` says that a replacement has overwritten a name it had not read.

**Cases and notices.** A request loads, validates against its copy, writes the difference, reads
again and publishes the difference between what it read first and last, one event at a time: that
of its status after the entry of the timeline (`PublishStatus`), the others after it
(`PublishRest`), and a worker may take one in between. The entry may be refused, which the
timeline logs and passes over: its rollback expires the request's copy, and the event is built from
the row as it is by then (`PublishUnrecorded`). Events wait in `inbox`; a worker resolves the
audience, leaves out who was told the same in the window, and inserts. Every rule a case's events
match is a kind of its own; `Muted` has every notice switched off. `since` records who could see the
case at some moment after an event was published.

**Channel.** Events and connections are numbered in the order they are made. A tab that did not
receive an event shows old data until it reads again: `known` is what it received or has read
since, `owed` what a connection that followed a topic should be given. Nothing is owed on a
topic whose `unsubscribe` is still waiting (`Leaving`): a tab that leaves a topic and returns may
have its grant taken by the command it sent before. `overtaken` are the events that a later one got
past, in the hand-over to the manager or at the tab on a connection that has not answered its
`resume` (`PassedBy`). `Tick` ages the grants and, in `lostFor`, the withdrawals of access, which
is what a grant's age is compared with; time before the first withdrawal counts for nothing.
The connection's grants and the manager's index change one after the other and under no common
lock: `Grant` and `IndexGrant`, `ReadUnsubscribe` and `DropUnsubscribed`, `Revoke` and
`DropRevoked`, `FindFollowed` and `RenewFollowed` are two steps each, between which the dispatch
thread, the endpoint (`reader`) and a release may act. `crossed` are the grants given while one
of them was ending the same subscription or its connection: the two are left apart then, and
`IndexAgrees` excuses them. An endpoint waiting for a frame when its connection is closed still
applies that frame. The two looks `subscribe` takes at a grant that exists are one.

**Answering.** A text is a sequence of words, opening brackets, digits that close a bracket, and
the two halves of the refusal sentinel; a passage is its length. `Digits(m, plain)` are digits
that `int()` reads as `m`: plainly, as `f"{m}"` writes them, or with leading zeros or in another
script, which `\d` matches and the removal does not. The numbers that are cited and named by no
source are removed one after the other, in the order of a Python set, and a removal may leave a
marker that was not there (`[1[9]2]`, `Nested`) or put the sentinel together after the check
for it. The model may write any text, any stage may fail, and the retries of `services/llm.py` are
part of the run. What a search returns is any list of passages. `FitToBudget`, `Without` and `Total`
are recursive functions over the positions of a text or a list, so that proofs can unfold them;
`FitContext` is how many passages the prompt holds, counted by what each is allowed.

**Conversation.** A question is asked in one of three modes (`send`, `stream`, `unstreamed`);
positions, the counter and the title are written from each request's copy of the row, which
`Refresh` reads again after the first transaction; `screen` is what the asking browser shows. An
answer is known by its question. A browser is taken to read every frame it is sent (section 5).

## 3. Runs

Passing runs (seconds to half a minute; `Report`, `Notices`, `Assistant` and `Channel` one to three
minutes):

| Run | Question | Bounds |
|---|---|---|
| `OcrSerial` | where retries are serial one thread per run, text and status agree, rows follow the lifecycle; no queued run is lost anywhere | 3 versions (one unsupported, one whose retries overlap), 2 requests, 2 threads, 2 readings, 3 retries, 1 crash, 1 database error |
| `IndexSerial` | points of one reading, all of them once indexed, moved only under a claim, while extraction does anything | readings of 4, 2 and 0 passages, at most 3 chunks, batches of 2, 2 re-indexes, 1 crash, 1 error |
| `Pipeline` | extraction is an environment indexing allows for; a shutdown leaves no run behind; every run ends and every text with words is indexed | 1 version, 1 retry, 1 re-index, a thread of each kind, 1 crash, 1 error in each part |
| `Email` | one sender, copies bounded by mishaps, every delivery settles | 1 delivery, 2 threads, 2 attempts, batches of 1, 2 mishaps of any kind |
| `Report` | the limit, the content of one attempt, withdrawal, runs end | 2 reports, room for 1, 2 requests, 2 threads, 3 edits, 1 mishap |
| `Channel` | gaps are reported, grants and index agree, delivery within the TTL, what is owed arrives | 1 topic, 2 events by 2 threads, 2 connections, inbox, queue and wire of 1, 1 turn of user or administrator |
| `Versions` | numbering, files, the row, the history, extraction of the current version | an upload and 2 overlapping requests of any kind, 2 names, 2 mishaps |
| `Notices` | who is told, once, and that who is assigned is told; legal updates | 2 overlapping requests, 2 lawyers, one of them on the case, 2 target statuses, an inbox of 1, 1 mishap |
| `Answering` | streamed text belongs to the outcome, plain markers resolve, the context is the most relevant; `Reply` is implemented | 1 question, up to 3 passages of length 1 to 3 in a budget of 5, texts of 4 tokens, markers 0, 1 and 3, 3 attempts |
| `Assistant` | exchanges, final answers stored, the counter covered, everyone told | 2 questions at once in any mode, 1 edit of any kind, room for 3 messages, 1 mishap |

Two actors of a kind are what a race on one row needs, and every handler that races here races
on one row. Bounds are set where the case happens: the third retry of `OcrSerial` lets two
overlapping retries follow a run that ended, so that a final transition is refused (`Refuse`);
the third edit of `Report` does the same for regenerations, and an active run with two requests
that have passed the check is one claim more than `ActiveBounded` allows; a budget of 5 with passages of at
most 3 has a passage cut, one dropped for want of `MIN_PASSAGE_CHARACTERS`, and one behind it that
would fit; four tokens hold two markers, one marker inside another, or a sentinel that a removed
marker separates; an inbox, queue or wire of one
is full at the second event; `MaxMessages = 3` is reached by the second question. A crash,
where there is one, is enabled at every step, so one reaches every step. In `EmailDelivery`
`MaxJobs` keeps a sweep from adding to a queue that nobody serves: two jobs are enough for one
row to have two. Requests, threads and readings are symmetric in `OcrSerial`, requests and indexing
threads in `IndexSerial`; no run that checks progress uses symmetry.

Three constants are assumptions on surroundings, not on the code. `Overlapping` are the versions two
people may press retry for at once, which nothing prevents; the properties that a claim alone can
guarantee are stated for the others, in one and the same behaviour. `OverlappingReindexes` are the
versions for which the same holds of re-indexes. `SlowSends = FALSE` says that no send outlives the
stale threshold, which the settings suggest and do not guarantee: `_validate_email_limits` compares
the threshold with the timeout of one socket operation, and a send has many.

Violation runs, each a disagreement between the code and a sentence of its documentation
(`findings` quotes them):

| Run | What TLC shows |
|---|---|
| `ReportUnheard` | a report finishes and no event says so: the worker's service has no publisher |
| `Retitled` | the title derived from the first question replaces one the owner chose meanwhile |

Instances worth trying, each a change of a line or two of a configuration:

* `OverlappingReindexes = {d1}` in `IndexSerial.cfg`, with `Docs` in place of `Serial` in the
  properties: `PointsMoveUnderClaim` fails, and without it `IndexedIsWhole`. Two threads delete and
  upsert the points of one version (`services/indexing.py:549`, `services/vector_store.py:27`).
* `SlowSends = TRUE` in `Email.cfg`: `OneSender` fails. A row is reclaimed under its sender,
  and a second thread sends the message.
* Two deliveries, one thread, `MaxJobs = 1`, `MaxMishaps = 1` in `Email.cfg`: all three
  properties hold although batches of one row must be shared, in three to four minutes
  (828,648 states).
* `MaxTurns = 2` in `Channel.cfg`, with `Spec` and without `OwedArrives`: the three safety
  properties hold, in a minute (2,512,590 states).
* `IndexThreads = {x1, x2}` in `Pipeline.cfg`: all four properties hold, in a minute (218,344 states).
* `Workers = {w1, w2}` in `Notices.cfg`: `NoRepeatInWindow` fails, as the comment of
  `NOTIFICATION_WORKER_CONCURRENCY` (`core/config.py:630-634`) says.

**Fairness.** Weak fairness of each request's next step and of each thread's next step:
they are operating-system threads that nothing blocks for ever (engine, embedder, model,
store and relay calls have deadlines). Weak fairness of `Start`: `docker-compose.yml` restarts
the API unless it is stopped by hand. In `EmailDelivery` also of time (a backoff ends, an
abandoned row gets old) and of the sweeper, whose thread wakes at an interval. In `EventChannel`,
`DocumentVersions`, `CaseNotices` and `Conversation` every step uses up work that does not come
back, so one condition on all of them is enough. No fairness for uploads, retries, re-indexes,
edits, dispatches, stops, crashes, lost answers, errors, time that withdraws a grant, or a
browser that leaves.

### What the models showed of the code

Not errors in the sense of a sentence contradicted, unless one is quoted; each was met as a
behaviour that a property has to allow for.

*Extraction and indexing.* A run held at a crash stays `processing` and its retry is refused
(`services/ocr_queue.py:158` says it is recovered by a retry; `core/ocr.py:145` allows no such
move). Two overlapping retries (`services/ocr.py:499`) may put two threads on one run, and a
refused final transition leaves the row at `processing`. The text of a retried extraction does
not reach an index that exists (`services/indexing.py:311`, against `README.md:42`). A row requeued
at startup while its caller is about to queue it has two jobs; if it is re-indexed between the second
job's first read and its claim, that run cannot record its outcome (`services/indexing.py:612`)
and stays `indexing`, with one indexing thread or two. A crash between the commit of a text and
that of its index row leaves the text without an index (`services/ocr.py:720`), and a crash or a
swallowed error between the commit of a version and that of its run leaves it without extraction
(`services/document.py:232`). The comment in
`core/lifespan.py` 315-317 says "Indexing first", and the code stops extraction first; the code
is right, since a run that ends while extraction drains still hands a job to indexing.

*E-mail.* `claim` ignores `next_attempt_at`, so the second job of a row cuts its backoff short
(`repositories/email.py:281`). `core/email.py` says of its delays "`0` is the first one has just
failed", and `core/config.py` 781 calls the base the "delay after the first transient failure";
`_record_failure` passes the count with the attempt in it, so the first delay is twice the base.
`core/email.py` 97 calls re-sending a received message "the one mistake this feature must not
make"; `CopiesBounded` is what the code does guarantee, since a process may die after the
relay's answer and before `mark_sent`.

*Reports.* A withdrawn report keeps its job and is no longer counted, so the work in progress may
exceed the limit (`services/report.py:647`), and when requests count before either has
written (`services/report.py:421`), the counted runs exceed it too, by less than the number of such
requests (`ActiveBounded`). The table of `core/reports.py` 199-200 lets a run
return from `processing` to `pending`; no code does. The OCR and indexing workers' events go
nowhere either (`services/ocr_worker.py:56-82`, `services/indexing_worker.py:58-70`).

*Channel.* Two publishers may reach the manager in the other order (`services/events.py:241`,
`385-398`), and a tab's last sequence then skips an event. The flag a `resumed` frame sets is read
at the next status change, which may be the next reconnection (`realtime-provider.tsx:114-125`).
A grant renewed after an unsubscription, or given after a release, leaves grants and index
apart (`manager.py:527`, `334`): without its entry the topic delivers nothing, and subscribing
again only renews the grant and adds none (`manager.py:311-317`), while an entry made after a
release names a connection that is gone, which the docstring of `unregister` says cannot be. A
withdrawal sends no frame (`manager.py:516-519`). A tab whose
first connection delivered nothing has no position and sends no `resume` (`client.ts:323`), so what
that connection lost is not reported; the comment of the `ready` frame (`protocol.py:196-199`) says
that a reconnecting client can tell, from the sequence it carries, and no code of the client
compares the two. A subscription opened before `ready` is sent from the list, one opened later on
its own, and a panel that closes and opens at once may lose its grant to the `unsubscribe` still
waiting. `REALTIME_AUTHORIZATION_TTL_SECONDS` may be 0 (`core/config.py:1366`): no grant is fresh
then, and every delivery takes a query.

*Documents.* A replacement's UPDATE leaves columns alone that equal its copy's, so after two
replacements the row may mix their names (`services/document.py:320`). The row read again after a
commit may be a later one's, and then the earlier version gets no extraction. A version may be
added to a document deleted meanwhile, and two deletions that race are both recorded.

*Cases.* Two overlapping updates, each legal against its copy, may leave dates out of order or a
move the status table forbids (`services/case.py:312`). A removed assignee is not told: the
audience needs access to the case as it is now (`notification_recipients.py:332`), although
`core/notifications.py:711` lists the notice.

*Answering and assistant.* Each attempt of a model call is given the smaller of its timeout and
what is left when it starts, so retries can exceed the deadline (`services/rag.py:782`). A cut
passage gets an ellipsis (`core/rag.py:350`) and is one character over its allowance, so a prompt's
passages may be over the budget by one character for each that is cut. A marker is read by `int()`
from up to three digits of any script (`core/rag.py:76`, `417`) and removed as it would be
plainly written (`services/rag.py:1130-1131`): `[09]` counts as invented and stays in the answer,
and taking `[9]` out of `[1[9]2]` makes a marker nobody checked. The answer to a question whose
next position was taken is lost after it was shown; the counter can fall behind the
transcript, so a conversation may exceed `ASSISTANT_MAX_MESSAGES`.

## 4. Proofs

Eight modules hold proofs. Each is about any value of the constants that its named assumption
allows (`OcrConstants`, `IndexConstants`, `EmailConstants`, `ReportConstants`, `VersionConstants`,
`NoticeConstants`, `ChannelConstants`, `ConversationAssumption` with `ReplyAssumption`,
`AnsweringAssumption`): any number
of rows, requests and threads, any bounds on mishaps. TLC evaluates the assumptions in the runs.
Every inductive invariant was checked with TLC on the runs' instances before it was proved; where it
was not inductive there, the counterexample said what to add. Where a theorem is about some rows
only (`Serial`, `Reports \ raced`, `~stale`), what happens to the others is left open and happens in
the same behaviours. Two have a hypothesis of their own:
`DeliverySafety` (with `SingleSender`) is about `SlowSends = FALSE`, `NobodyToldTwice` about one thread.

`OcrRun_proofs`:

* `TypeCorrect`: `Spec => []TypeOK`.
* `SerialSafety`: for the versions whose retries do not overlap, whatever happens to the others,
  `ExclusiveRun`, `HeldRunIsProcessing`, `RetryOwnsRun` and `PagesIffCompleted` always hold;
  `PagesFollowStatus` states the last alone. None is inductive alone. A claim preserves
  `ExclusiveRun` because a pending row has no holder, which is `HeldRunIsProcessing`; that
  survives `CommitRetry` because the retried row is terminal, which is `RetryOwnsRun`; that
  survives `Claim`, `Complete` and `Fail` because those change pending and processing rows
  only. The conjunction with the type is `SerialInv`.
* `SerialLifecycle`: their rows follow `Lifecycle!Spec`, although both writes that end a run are
  conditional on the session's copy only.
* `PendingHasJob`: `NoPendingRunLost`, overlapping retries or not. The step that needs work
  is `Start`: a requeue in creation order of at most `RequeueLimit` rows enumerates all
  pending rows, since an injection between sets of one finite cardinality is onto.

`EmailDelivery_proofs`:

* `TypeCorrect`: `Spec => []TypeOK`.
* `DeliverySafety`: if no send outlives the stale threshold, `OneSender`, `CopiesBounded`,
  `SentIsReceived` and `AttemptsBounded` always hold; `SingleSender` states the first alone. The
  invariant is `DeliveryInv`. A thread that sends owns a row at `sending` that is not stale
  (`HolderOwnsRow`), so neither a claim nor a reclaim gives the row to a second one. The bounds
  count debts: `AttemptLeft` says that a row somebody may still claim has an attempt left, and
  `CopiesPaidFor` that every copy but one the platform has confirmed was paid for by a mishap.
  A crash or a database error pays for the attempt and the copy of every send it interrupts, a
  lost answer for the copy it hides; this is why both bounds are stated with the counts of
  mishaps. `OneThread` reduces a step of one thread to the row it works on.

`DocumentVersions_proofs`: `VersionsInvariant` is that `VersionsInv` is invariant, and the others
follow from it: `VersionsAreNumbered`, `VersionsCanBeOpened`, `RowFollowsHistory` and, as an
action property, `HistoryOnlyGrows`. The invariant adds to the properties what each request
knows (`RequestOK`): until it commits no version has its file, its number is at most one past the
row's, from `Store` on its object is in the store, and a request that read no row writes every
column. The unique constraint then does the rest: at a commit the number is not taken, hence
one past the row's (`HighestIsCurrent`: the highest number of a history that is a numbering is
the row's), hence the row moves forward by one, and the name it leaves alone is the newest
version's unless the row changed under the copy, which is what `stale` records.

`Conversation_proofs`: `ConversationInvariant` is that `ConversationInv` is invariant, and
`TranscriptReads`, `FinalAnswersAreStored` and `CounterIsCovered` follow. What each request knows
(`AskOK`): between its two transactions its question is in the transcript at the position it
reserved; once the answer is stored it stays; and its copy of the counter plus what it has
stored and not yet counted (`Uncounted`) is at most the number of messages, so no write of a
stale counter can pass the transcript. That a new position is unused needs the greatest element
of a finite set of numbers, which `FiniteHasGreatest` proves from the well-foundedness of strict
inclusion among finite subsets. The answering pipeline enters only through `Reply`, so the theorems
hold for any pipeline that keeps that promise.

The last section of `Conversation_proofs` is about `Answering`, which the module extends too: for any
number of questions, passages and attempts, and texts and budgets of any size.

* `AnsweringInvariant` ties what a reader was shown to the run: the fragments are what has been
  released of the one text the run is making (`RunOK`), they do not begin with the sentinel, and a
  run hands over at most one event more than its text has tokens. `SentinelStaysWithheld`
  (`SentinelIsWithheld`) and `FragmentsBeginTheReply` (`FragmentsAreOneReply`) follow.
* `PipelineKeepsReply`: `ImplementsReply`. Every stage is one of two cases, a run that goes on
  silently (`Quiet`) or one that hands over (`Speaks`), and `RunIsReply` shows that either is a step
  of `Reply` or none. This is the promise the theorems about conversations rest on.
* `ContextsAreMostRelevant` (`ContextIsMostRelevant`), from `OutcomeInvariant`: a run's passages are
  a list of lengths, and from `assemble` on its context is their `FitContext`. What the passages
  are allowed sums up to the budget at most, and none is dropped for a less relevant one. It is
  about what a recursion computes for inputs of any length. The library's induction takes a predicate as its
  parameter, which the provers cannot instantiate, so it is stated for a set instead:
  `InductiveSet`, that a set with 0 and with every successor contains every number, follows from the
  well-foundedness of `<`, which the library states of sets. `PrefixRecursion` then shows that a
  function defined by recursion over `0..n` exists and unfolds, and `InductiveUpTo` is the induction
  over such a range. `FitIs` and `TotalIs` say that the two computations on passages unfold, and
  `BudgetHolds` that what is
  kept is within the budget and a beginning of the list: what has been kept and the room that is
  left never exceed the budget, and a passage that does not fit leaves no room for the next.

`IndexRun_proofs`:

* `TypeCorrect`: `Spec => []TypeOK`. Not inductive alone: that a thread's next batch exists needs
  `WrittenInReading`, that it has written no more chunks than its reading has.
* `IndexSafety`: `OneReadingPerVersion` and `IndexedIsWhole`, for versions whose re-indexes do not
  overlap and whatever extraction does; `IndexedVersionsAreWhole` states the second alone. `IndexInv`
  follows `SerialInv` of extraction (`OneThreadPerRun`, `HeldIsIndexing`, `ReindexOwnsRow`) and adds
  what the two stores owe each other, `PointsOfThread`: between its delete and its last batch a
  thread finds exactly the points it has written. That needs that nobody else writes there, and it
  is why a row that becomes `indexed` has all of them. A crash or a failed batch leaves the points
  of one reading, and the next claim deletes them.
* `ClaimedPointsOnly`: points change only under the claim of the thread that changes them.
* `IndexLifecycle`: the rows follow `Lifecycle!Spec`.
* `PendingHasJob`: `NoPendingIndexLost`, overlapping re-indexes or not.
* `StopLeavesNothingQueued`: when the drained pool goes down, with no error of the database and no
  more rows than the requeue's limit, no row is pending: there is no job, no thread at work and, since
  extraction was stopped first, no caller about to queue one. It follows from `NoPendingIndexLost`.
* `PipelineIndexes`: `ImplementsIndex`, for any constants and with overlapping retries and re-indexes.
  `Pipeline` extends `IndexRun`, so it is about the very indexing of the theorems above, with the
  environment that `IndexRun` leaves open replaced by `OcrRun`. It needs `Composed`:
  extraction runs only while indexing's process is up (`OcrWithin`, from the order of the lifespan),
  what a thread hands over has a row and a text (`RunsHaveRows`, `OcrTypes`), and only extraction
  threads schedule and only requests re-index (`CallersApart`). The attempt showed that `IndexRun` had
  allowed its environment too little: with overlapping retries a run may complete that the row shows
  as completed or pending, and a run that fails leaves the other's text. It allows both now.
* `PipelineIndexIsWhole`: hence, in the composition, `OneReadingPerVersion` and `IndexedIsWhole`. What
  `OcrRun_proofs` shows holds there too, as its steps are extraction's.
* `PipelineStopsWithoutPending`: hence also the half of `CleanShutdown` that is about indexing.

`ReportRun_proofs`:

* `TypeCorrect`: `Spec => []TypeOK`.
* `WorkStaysBounded`: `ActiveBounded`. Active runs cannot be counted alone: a request that has
  counted and not yet written is a claim on the limit, and the property bounds rows and claims
  together: a request adds a claim only when fewer rows than the limit are active, and spends it
  on one row. With one request at a time the limit itself is the bound.
* `WithdrawnGetsNoJob`: `WithdrawnIsFinal`, an action property.
* `ContentIsLatest`: `ContentOfLatestAttempt`. For a row that no two regenerations read together,
  `RowInv` says that a loaded request finds the row finished (`LoadOwnsRow`), that one thread works
  on it, with the row's attempt and the row's progress (`OneThread`), and what the row then holds
  (`ContentOf`). A regeneration resets content and counts an attempt in one commit, so a thread that
  holds the old attempt would break it; `LoadOwnsRow` says there is none.
* `WritesFollowTable`: the writes by id, which look at no status, follow `STATUS_TRANSITIONS` all
  the same. No run checks it on its own: TLC checks `ContentOfLatestAttempt`, which it rests on.

`CaseNotices_proofs`:

* `TypeCorrect`: `Spec => []TypeOK`.
* `ToldAreEntitled`: `ToldWereEntitled`. `EntitledInv` says of every event not yet told that who can
  see the case now is among those remembered for it, and of a thread that its audience is. A request
  that has published its first event and not the others is no exception: each is remembered from its
  own publication on (`AnnounceKeeps`).
* `SerialUpdatesSound`: `SerialUpdatesAreSound`. While no update missed another's commit, a request's
  copy is the row it validated (`SerialRequest`), so what it writes was validated against what it
  replaces.
* `StatusFollowsTable`: a change of status that missed no commit is one the table allows.
* `NobodyToldTwice`: `NoRepeatInWindow`, if any two threads are the same one. This is the default of
  `NOTIFICATION_WORKER_CONCURRENCY` (`core/config.py:635`, `.env.example:555`), and the invariant,
  that whoever the thread is about to tell was not told the same, is false with two.

`EventChannel_proofs`, for any number of topics, connections, events and turns and any sizes:

* `TypeCorrect`: `Spec => []TypeOK`. It is about the shapes of four kinds of actor and of the three
  lines between them.
* `IndexIsExact`: `IndexAgrees`, from `Placed`: endpoints serve the connections that were opened, a
  connection not yet opened has nothing anywhere, and commands and frames of a connection that was
  left are gone. `PairInv` says of one subscription that grant and entry agree or that one of the
  two-step changes is half done, and then what the other half will find: while a grant waits for its
  entry nobody has revoked it, and while an entry waits to go its grant is gone. What breaks this
  is a grant that meets an end, which is `crossed`.
* `WithinTtl`: `DeliveredWithinTtl`, an action property, from `GrantAge`: a grant is at least as old
  as the loss of what it grants unless it was renewed without a decision, and what a lookup has just
  allowed was not lost when it was asked. A delivery on a fresh grant is then within the TTL, and one
  after a lookup within the tick.
* `GapsAreReported`: `GapIsReported`, the longest argument. `Lined` says that an event further on its
  way to the tab (wire, queue, dispatch thread, inbox) has a lower sequence than any behind it, but
  for those that were overtaken. `OnTheWay` says that what the open connection owes and the tab does
  not know is still somewhere on that way, or the connection is closed. Hence the tab's position
  stays behind all it is owed and was not told of (`PositionBehind`), since whatever moves the
  position past an event took it off the way or overtook it; a `resume` declares a position the tab
  had (`ResumesBehind`); and the answer to it, computed from a log that contains the event, reports a
  gap (`AnswersTell`). The three together are `GapKept`.

Only model-checked are all liveness (`EveryRunFinishes`, `ExtractionIsIndexed`, `EveryMailSettles`,
`ReportsFinish`, `OwedArrives`, `CurrentIsExtracted`, `AssignedAreTold`, `EveryAskIsTold`), which
TLAPS does not reach, like `ENABLED`; `MarkersResolve`, an induction over a text under a fold;
and of `CleanShutdown` the half about extraction and the runs at work. Every other property a passing
run checks is a theorem.

The `TypeOK` of a module with a proof module is a theorem there and not a property of its run;
that of `Pipeline` is its parts'.

## 5. Not modelled

* **Sessions, revocation, login throttling.** Each operation is one or two calls of a cache
  whose keys expire; there is no lifecycle and no worker. The one place where two calls are not
  one step is among the hazards (`services/login_throttle.py:152`).
* **WhatsApp.** Dispatch, claim, record, sweep and reclaim are those of e-mail, in files of
  their own; a module would be a copy of `EmailDelivery`.
* **Computation.** Chunking, embedding, OCR, ranking, templates, export: their results are
  arbitrary inputs, and their failures are modelled where they are caught.
* **Observation and single-row features.** Monitoring, metrics, tracing, settings, users,
  dashboard, localization and the rendering of the web client hold no state that another part
  depends on.
* **Within modelled parts.** Events: a restart of the server, presence, rate limits, keep-alive,
  the give-up after `MAX_RECONNECT_ATTEMPTS`. Cases: creation with its generated number, listing.
  A call of the vector store that timed out may have been carried out, but not later than that: one
  that is applied after the version was indexed anew would undo the re-index. Browser: a stream whose
  final frame it cannot read or does not get leaves `use-assistant.ts` waiting
  (`lib/api/assistant.ts:473`). Notifications: reading, preferences, announcements. Assistant:
  feedback, health. Lifespan: pools other than extraction and indexing, whose own modules start and stop them.

## 6. Plan

Done: the modules, runs and proofs above. Next, in this order:

1. `OcrRun`, `IndexRun`: one statement of the argument both share, if it makes the proofs shorter.
2. Sessions, if a place among the runs becomes free.
