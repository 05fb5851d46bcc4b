# Verification of the flashcards generator

TLA+ models, TLC runs and machine-checked proofs about the code in this
repository. The program turns PDF and PPTX documents into Anki flashcards with
Google NotebookLM. A web server keeps accounts and hands out tokens; a
*Companion* on the user's machine accepts uploads with such a token, generates
one job at a time and serves the resulting CSV decks; a command line does the
same without the servers. The Rust workspace (`src/rust`) is the current
implementation, `src/src/flashcards_generator` the Python reference it is ported
from, `src/frontend` the browser's dashboard.

## 1. Inventory

| Part | State | Operations | What is hard | What makes it correct |
|---|---|---|---|---|
| Local job state (`services/local_jobs.rs`) | status, counted source outcomes, artifacts | new, start, record_source, validated_finish, finish | finish is reached from four places | sources counted once; a final state is final |
| Job registry (`services/local_job_registry.rs`) | table of jobs with owners and times, queue, closed flag | reserve, submit, start_next, record, finish, discard, snapshot/prune, close | limits with eviction, expiry in every call, queue and table apart | queue exact, one runs, bounded, nothing unfinished lost, FIFO |
| Job store and workspaces (`integrations/local_job_store.rs`, `job_workspace.rs`) | registry and workspace mutexes, two `Notify`, a private directory per job, the expiry task | reserve, create_input, submit, wait_next, record, finish, artifact, close, drops | lost wake-ups, drops at any await, close during work | no orphan, complete uploads only, sources erased, every job served |
| Companion worker and shutdown (`delivery/companion_worker.rs`, `bin/flashcards-companion.rs`) | stop signal, current execution, client | connect, execute, stop, leave | stop against every await; order of shutdown | the worker survives, ends when told, leaves nothing running |
| Uploads (`integrations/job_uploads.rs`, `delivery/companion/uploads.rs`) | temporary files, permit of three, byte counts | start_file, write_chunk, finish_file, submit, receive | time-out, second authorization, limits | permits come back; limits hold; nothing is submitted for a session that is over |
| NotebookLM client (`integrations/notebooklm.rs`, `notebooklm/*`) | credentials, list of cleanup tasks | create, upload, generate, poll, delete, finish_cleanup | answers lost, futures dropped, drain with a deadline | no notebook or source abandoned, none of others removed; the answer about clean-up is true |
| Document generation (`services/generation.rs`, `prepared_generation.rs`, `document_export.rs`) | chunk, attempt, completed parts, issues | one notebook per attempt, retries, exports | retry after half a failure, partial results | no second notebook per chunk; reports agree with facts |
| Profiles and browser login (`integrations/notebooklm_profiles.rs`, `notebooklm_browser.rs`) | credential file, browser profile, its lock | load, save, lock, login, capture | blocking save outlives the time-out; a stale endpoint file | one browser per profile; cookies of one's own browser; an answer is final |
| Accounts, sessions, tokens (`integrations-server/*`, `delivery-server/web.rs`, `*/companion_auth.rs`) | users, sessions, signed tokens | bootstrap, log in and out, rehash, issue, verify | concurrent bootstrap, dropped handlers, expiry, revocation | a dead session has no live token; one account per password; no log-in waits for ever |
| Algorithms (`engines/pdf_chunks.rs`, `domain/lib.rs` deduplication, `csv_merge.rs`, `cloze`, `quality`) | loops | plan, deduplicate, merge, rewrite | boundaries, overlap | nothing lost or doubled |
| Document preparation and its processes (`integrations/document_preparation.rs`, `pdf.rs`, `pptx.rs`, `process.rs`) | child and its group, pipes, blocking threads, temporary directories | convert, copy, cut, publish | output limit, deadline, helpers, a thread whose caller is gone | no process and no directory survives; the pieces are the document |
| Command line (`cli/main.rs`) | one command | generate, merge, clean up | partial failure | the exit code is true |
| Python job service (`local_generation_jobs.py`, `local_generation_state.py`) | jobs, futures, timers, one lock | reserve, submit, get, discard, expire, close | threads and timers | as the registry |
| Python chunk state (`chunk_resume.py`, `generation_chunk_*.py`) | manifest, result files | prepare, save, fail, resume | crash between two files | nothing paid twice, nothing stale used |
| Dashboard (`frontend/src/application/dashboard_controller.ts`) | active job, view | log in/out, generate, poll | late answers | the view is that of the active job |
| Readers, Anki, monitoring, tooling | little | I/O | formats | out of scope |

How the parts interact: the upload handler reserves a job, writes its files into
the job's directory and submits it; `submit` and `finish` ring the `work` bell,
on which the worker asks the registry for the next job; the worker connects a
client with the owner's profile, generates document by document (a temporary
notebook per attempt, a deck per chunk and one for the whole), records each
outcome, finishes the job and waits for the client's clean-up; status and
download requests read the registry and open files; the `changed` bell re-arms
the retention timer; the shutdown drains the server, stops the worker, then
closes the store. Every request to the Companion carries a token of the web
server and is authorized there; connecting NotebookLM starts a browser on the
user's machine. The command line prepares, generates and exports with the same
services, one document after another.

## 2. Modules

| Module | Models | Role |
|---|---|---|
| `LocalJobState` | `local_jobs.rs` | operators on one job's record |
| `LocalJobRegistry` | `local_job_registry.rs` | the registry; one action per method; `Spec` |
| `JobLifecycle` | – | abstract promise of the registry |
| `LocalJobStore` | `local_job_store.rs`, `job_workspace.rs`, `job_uploads.rs`, `local_generation.rs`, `companion_worker.rs`, shutdown in `flashcards-companion.rs` | EXTENDS the registry with threads, locks, bells, directories, timer |
| `NotebookCleanup` | `notebooklm/temporary.rs`, the drain in `notebooklm.rs`, `UploadCleanup` in `upload.rs` | a client's notebooks and clean-up tasks |
| `DocumentGeneration` | `generation.rs`, `prepared_generation.rs`, `document_export.rs` | EXTENDS `NotebookCleanup` with the generating future; `GenerationSpec` |
| `ChunkResume` | `chunk_resume.py`, `chunk_state_repository.py`, `generation_source_security.py`, `generation_chunk_orchestration.py` | one document's manifest, results, lock and deck under several processes |
| `BatchGeneration` | `generation_run.py`, `generation_document_execution.py`, `generation_chunk_execution.py`, `generation_chunk_retry.py`, `generation_artifact_execution.py`, `use_cases.py`, `notebooklm/gateway.py`, `process_runner.py` | one run of the Python use case with its commands and its cancellation |
| `WebSessions` | `web_database.rs`, `auth_crypto.rs`, `web.rs`, `authentication.rs`, `flashcards-web.rs` | accounts, hashes, sessions, tokens of the web server |
| `CompanionAccess` | `companion.rs`, `companion/uploads.rs`, `jobs.rs`, `notebooklm_access.rs`, `companion_auth.rs`, `job_uploads.rs` | EXTENDS `WebSessions` with the requests of the Companion; `AccessSpec` |
| `BrowserLogin` | `notebooklm_browser.rs`, `notebooklm_profiles.rs`, `directories.rs` | logins, browsers, locks, credential files |
| `ProviderCalls` | `notebooklm.rs`, `notebooklm/upload.rs`, `protocol.rs` | the requests of one client and the sources of a notebook |
| `PdfChunks` | `pdf_chunks.rs` | the planner, one chapter per step |
| `DocumentPreparation` | `document_preparation.rs`, `pdf.rs`, `pptx.rs`, `process.rs` | EXTENDS `PdfChunks` with programs, threads, directories |
| `CardDeck` | `cloze.rs`, `generation.rs`, `domain/lib.rs`, `quality.rs` | from answers to a deck: operators |
| `CommandLine` | `cli/main.rs`, `document_export.rs`, `csv_merge.rs` | EXTENDS `DocumentPreparation`, `CardDeck`: commands over folders and notebooks |
| `MC...` | – | definitions and symmetry sets for TLC; the other constants are in the `.cfg` files |
| `JobLifecycleProofs`, `LocalJobRegistryProofs`, `LocalJobStoreProofs`, `DocumentGenerationProofs`, `CompanionAccessProofs`, `NotebookLMProofs`, `PythonGenerationProofs`, `CommandLineProofs` | – | theorems, section 5 |

Operators whose comment begins with *Slip* are variants of the definition below
them with a plausible mistake. No specification uses them; they serve to show
that each property can fail.

### LocalJobState, LocalJobRegistry

`jobs[id]` is the `Entry` of the `BTreeMap` (or `NoEntry`), `queue` the
`VecDeque`, `closed` the flag. Instants are ages: an entry's `age` counts the
ticks since it finished, up to `Retention + 1`, and `Tick` makes all of them
older; nothing else in the code depends on absolute time. Every method that
prunes first does so inside its action (`AfterPrune`), also when it then returns
an error. Methods that fail without a change of state are not enabled, except
`ReserveRejected`, whose prune is visible. `Oldest` is a set: entries that
finished within one tick are of equal age, and any of them may go. The owner
check that every method makes is `Owns`; requests of other users fail without
a change and are left out.

### LocalJobStore

A step is what a thread does between two waits. `upload[c]` is the
`JobReservation` of a request: it fills the directory source by source
(`CreateInput`), and either submits (`SubmitJob`, then the bell in
`NotifySubmitted`) or is dropped anywhere (`DropReservation`). `worker` is
`CompanionWorker::run` with its program counter: `Arm` creates the `notified()`
future, `Take` and `CheckClosed` look at the registry, `Await` and `Wake` are the
sleep; `Connect`, `Enter`, `Export`, `RecordOutcome`, `BatchDone` are the
execution; `FinishValidate`, `FinishCommit`, `FinishNotifyChanged`,
`FinishNotifyWork` the four parts of `finish` (registry lock, workspace lock and
removal of the sources, two bells); `DropExecution` is what `Drop` does when the
future is dropped at an await. A `Notify` is a stored permit and, for
`notify_waiters`, the `woken` flag of the futures that exist. `InUse` is the
reference count of a directory: the step that takes the last reference removes
it (`Swept`). `reader` is a download between its two locks; `expiry` the timer.

`Orderly` selects the environment: `TRUE` is the process of
`flashcards-companion` (requests are drained, then the worker stopped, then the
store closed), `FALSE` any use of the store's interface, with close and stop at
any time.

### NotebookCleanup, DocumentGeneration

`remote` is the truth at the provider (external), with the title the program
gives each notebook: it names document and chunk. `lost` is a notebook that may
exist though the answer to its creation never came; `stray` one whose deletion
failed. `holder` says who has the `OwnedTemporaryNotebook`: nobody, the caller
that waits, the channel between creation task and caller, the caller's scope.
`registry` is `cleanup_tasks`, `drain` the running `finish_cleanup` with what it
has taken. A list of tasks is abstracted to those that still run and whether one
failed, since a task that ended well changes nothing when it is awaited, and the
order in which the others are awaited does not change what is answered.

`run` is the future of `generate_batch_csv`; one program counter per await.
Identifiers of new notebooks are picked (`NextNotebook`): fresh ones are
interchangeable, and unlike a symmetry set this keeps the liveness check sound.
`Drop` is its cancellation, at each of them: it deletes what is in the scope or
in the channel through a task, while a creation in flight goes on and finds
nobody to send to. `CloseScope` is the end of an attempt: the deletion, whether
to retry, the export of the chunk by the progress callback, the whole deck and
the report.

### ChunkResume

`manifest`, `result` and `csv` are files and survive a process; `owner` holds the
`flock`, which goes with it (`Leave`, `Stop`). A process is the thread of one run
over the document; its steps are the file operations, since another process, a
crash, or `Damage` to a file may come between any two. A result is told by the
content and the chunk it was made of (`Key`, the manifest's fingerprint and
options); an unreadable file is a value of its own. `Stop` may come anywhere and
is a crash as well as a cancellation. `Edit` gives the document another content,
one of which is so small that it is generated without a split and without the
lock.

### BatchGeneration

`task` is where the loops over documents, chunks and attempts are, `step` the
command that comes next or what is done between two, `notebook` the local
variable of the attempt, `tracked` the list `_created_notebooks`. A command is
the steps of `run_command`: the token is checked (`Check`, or `Refuse`), the
process started (`Start`), its stopper registered (`Register`), and it is answered
(the other actions, or `Drop` when the token was cancelled meanwhile); the process
may act at the provider (`Acts`) from its start. `Cancel` is another thread and may
come between any two of them: it sets the token and takes the stopper that is
registered (`doomed`), and calls it after the lock (`CallStopper`); a stopper that
comes later is called by `Register`. So a command that passed its check may be
started in a cancelled run. A stopped process may have acted or not. The three ways in
which a failure leaves an attempt are told apart by `verdict`: a chunk is tried
again (`retry`), the document is given up (`stop`, `document`), nobody catches it
(`batch`). `known`, `asked` and `exists` are not in the code: they
remember what the properties speak about. Chunks that were saved by an earlier
run are the subject of `ChunkResume`; here every chunk is generated.

### WebSessions, CompanionAccess

A handler is a slot of `request`; its step ends at the next wait. An account is
named by its password, since the keyed hash of the password is unique in
`web_users`; its row holds a hash of today's parameters, an older one that the
next log-in replaces, or a damaged one. A session is a row with the time that is
left, and `token` the time left of the newest Companion token of a session
(older tokens of it are worth less). `Tick` takes time from all of them, and from
the tokens that are on their way; both ends of a token's life are as in
`CompanionClaims::current`. `hashing` counts the permits of `hash_limiter`,
`orphans` the computations on blocking threads whose handler was dropped: they
keep the permit until they end. Two requests in the role of a server that starts
are two `flashcards-web` processes at one database.

The Companion keeps no accounts: it sends each token to the web server (`Send`,
`Allow`, `Deny`, or `Drop` when nothing is answered). An upload authorizes,
takes a permit, asks NotebookLM, receives its files, authorizes again and
submits; it may be refused, time out or lose its client at each of these. The
second authorization needs a token that is still alive: an upload may take 600 s,
a token lives 300 s, so a slow upload is refused at its end. `dead` is not in the
code: it remembers for `ServedWhileLive` whether the session was over when the
authorization began; a log-out between the answer and the submission is not
noticed, which no server can avoid.

### BrowserLogin

A login locks its browser profile, reads the endpoint file as it was, starts the
browser, waits for a file that differs, asks for the cookies until they verify,
and saves them on a blocking thread. `saver` is that thread: it outlives a login
that timed out or was dropped, and its save may land after that of a later login
(`AnswerIsFinal` says that no other login does this; a login whose save landed can
still report a time-out). A half-written endpoint file is refused and ends the
login. Where the file and the browser profile are depends on the selected
profile and on what an older layout left (`StoragePlace`, `BrowserHome`); the
selection belongs to another program and is fixed during a run.

### ProviderCalls

`call` is the future of one `upload_file` and the poll after it, with its
`UploadCleanup`: `cancel` and `remove` are the requests it holds. `task` is the
clean-up that a dropped call leaves to `cleanup_tasks`. The provider keeps
`sources`, and `late` requests that the client gave up and that may be carried
out all the same. A registration may be answered with any source that exists.
A failed clean-up of a call is reported by the call, one of a task by
`finish_cleanup` (`NotebookCleanup`). `upload_file` writes the removal as soon as it
knows the source (`Owned`); when no cookie is left it cannot, and ends with an
error before there is an `UploadCleanup` (`Unowned`, `cleaned = "unwritten"`).

### PdfChunks, DocumentPreparation, CardDeck, CommandLine

A chunk is the sequence of its pages, counted from 0. `BeginPlan`, `PushChapter`
and `Planned` are the loop of `PdfChunkPlanner::plan`; pieces of one size are a
function (`FixedChunks`). A program is its process group (`group.alive`: the
leader and a helper that may outlive it, and the ends of the pipes they hold);
`run_bounded` waits for both pipes, then for the leader, and kills the group on
every way out. A blocking thread whose caller is dropped goes on (`thread.alone`)
and its result is dropped where it arrives.

Text is words: a front is a sequence of pieces, shown or hidden, a back a
sequence of sentences. A word that matters has five characters or more, and a
sentence begins with a capital. Which words become deletions, what is trivial,
subjective or defining is modelled rule by rule, for words without the hint of
a deletion and without punctuation attached to them (section 6). Duplicates are found by the
matching ratio of `domain/lib.rs`, computed with words in the place of
characters. The quality filter compares fronts without regard to case and
vectors of word weights; which of them are alike is left open (any relation),
while the limit of pairs, their order and what is removed are the code's. It may
remove a card whose only likeness was removed itself. The rule about words that
most cards have needs two hundred characters of text and does not apply to cards
of this length.

`script` are the commands a user gives in turn over one `folder` and the
notebooks at the provider. A command goes through its documents; a chunk ends
with a deck, an error, or an error whose notebook is left to `pending`
(`DocumentGeneration` is the detail of an attempt). `job` is the same sequence
under the Companion's worker, which may drop it. A merge reads one record at a
time (`MergeRecord`), file after file in the order of their names (`MergeSource`),
and replaces the output file at its end only (`MergeEnds`); `run.merge` is what
`LocalCsvMerger::merge` holds meanwhile. A record of three columns is an error,
and a file may turn out unreadable anywhere; then nothing has been written.

## 3. Runs

| Run (`.cfg`) | Question | Bounds | Distinct states |
|---|---|---|---|
| `registry` (`LocalJobRegistry`) | are table, queue, limits and accounts right under every order of calls; is the registry a `JobLifecycle` | 4 jobs, 2 users, room for 2 unfinished and 3 known, retention of 2 ticks | 51 558 |
| `store` (`LocalJobStore`) | orphans, partial uploads, erased sources, listed decks, lost wake-ups, jobs left running, with close and stop at any time | 1 upload, 2 jobs, 1 deck, 1 download | 1 043 840 |
| `store_orderly` (`LocalJobStoreOrderly`) | does the worker survive, and end when told; is every job served, finished, forgotten | 1 upload, 2 jobs, liveness | 129 952 |
| `temporary_notebooks` (`TemporaryNotebooks`) | notebooks, reports and decks under retries, lost answers, drops, interrupted and late drains; do notebooks go | 2 documents of up to 2 and 1 chunks, a first and a last attempt, 1 interruption, liveness | 303 814 |
| `chunk_resume` (`ChunkResume`) | are decks whole, are saved chunks kept and used | 2 processes, 2 chunks, 3 contents, 1 damage | 953 886 |
| `batch` (`BatchGeneration`) | deletions, attempts, reports and end of a run under failures and cancellation | 2 documents, 2 chunks, 2 attempts, liveness | 50 504 |
| `batch_cancelled`, `batch_timeout` | two promises the code does not keep, section 4 | 1 or 2 documents | counterexamples |
| `access` (`CompanionAccess`) | what does a session that is over still open; permits, limits, provisioning, log-ins | 1 account, 1 session, 2 handlers, 1 permit of each kind, 1 place, sessions of 3 and tokens of 2 ticks, files of up to 2 and uploads of up to 3 units, liveness | 92 048 |
| `profiles` (`BrowserLogin`) | whose cookies are saved, by whom, when; do logins end | 2 logins, 2 profiles and the old layout, liveness | 22 428 |
| `provider` (`ProviderCalls`) | which sources are removed, by whom; do calls end | 2 uploads, 4 sources of which 1 is of others, 5 redirections, liveness | 70 993 |
| `command_line` (`CommandLine`) | processes and directories left, pages, cards, merged rows, exit code | PDFs of 6 pages with all outlines of up to 2 bookmarks, a presentation of as many, a PDF of 5 pages, which is longer than a chunk and not cut, 2 short documents, chunks of 4 pages, overlap 1, threshold 5, 4 answers, folders of up to 3 files, 2 notebooks | 72 876 |

Why the bounds suffice. In the registry the limits interact as soon as one more
job exists than is retained and two may be unfinished; two waiting jobs make an
order observable, and tell an exact queue from another. Longer queues and jobs
of more sources are the business of the proofs. An identifier is recycled once
its job is forgotten, as fresh identifiers are, so histories are not cut short
by the number of identifiers. In the store the shared state is one queue, two
bells and one worker: two jobs give a submission in every window of the worker,
an eviction, and a job behind another one, although one client uploads them one
after the other; uploads to different jobs meet in the registry only, whose own
run has them at the same time. A download shares a directory with one job. A chunk can leave at
most one notebook behind (`NoTwins`), so as many notebooks as chunks are never
exhausted: a shortage would be a deadlock, which this run checks. In
`BatchGeneration` and `DocumentGeneration` the first attempt is one that may be
retried and the second the last one, so the third of the code adds no case; the document that is not
split comes after the other, so it meets whatever the chunks left behind. Ages
stop at `Retention + 1`, where all comparisons have been decided. A token of two
ticks in a session of three may outlive its session or not, and expire before,
while or after an upload is received. Two handlers make every pair of requests;
with one permit each the second one meets the limit. A second account or session
changes no table row of the first. Two files of up to two units and a limit of
three tell the limits of a file and of an upload apart. Two logins are what one
lock keeps apart, and a late save needs one login after another. Of the four
sources each upload may register one of its own and one that exists. A piece of
four pages that overlaps by one advances by three: of six pages the last piece
is shorter, and two bookmarks make a first, an inner and a last chapter, on the
same page or out of order. A PDF that is longer than a chunk but not than the
threshold is one file, as in the code, where the default threshold (50) is above
the default size (30).

Symmetry is used over identifiers (jobs, owners, uploads, processes), which no
operator orders, and in no run with a liveness property.

Fairness. The worker, the timer and the clean-up tasks are tasks of a Tokio
runtime that polls what is ready; every request to NotebookLM has a time limit
(30 s, 10 s for a deletion, the timeout of the generation options for the two
polls), and the drain has a deadline of 40 s. So weak fairness of their steps is
justified. In the Python reference every command has a deadline (900 s or the
run's timeout) after which its process is killed, so a command is answered and
the run goes on (`WF_batchVars(BatchWork)`). `ChunkResume` has no liveness property and no
fairness. In `CompanionAccess` the database answers, a computation of a password
ends, and permits are handed out in order (a Tokio semaphore is a queue), so a
handler goes on; requests end by their time limits of 10 s to 600 s. In
`BrowserLogin` only the time limit of the login, the steps that follow it and the
blocking thread are fair, never the browser. In `ProviderCalls` each request has
a time limit. Nothing is assumed of users: nobody has to upload, submit, poll,
download or stop. Of an upload only the bell after a successful submission is
fair, since no wait lies between; `close()` has no wait either.

The deadlock check is off in two runs that really stop: `command_line`, when the
last command has ended, and `provider`, when both uploads have. `GenerationSpec`
ends too, and says so with the step `Ended`.

## 4. Properties

*Jobs.* `QueueExact`: the queue lists exactly the submitted jobs that wait, each
once; a stale entry makes `start_next` fail for good. `LimitsHold`: well typed
(`TypeOK`), the limits hold (`Bounded`) and history never takes a place from new
work (`HistoryNeverBlocks`). `HistoryIsKept`: a finished job never changes
(`FinishedIsFinal`) and history goes in the order in which it was made
(`ForgetsOldestFirst`). `SourcesAccounted`: the numbers a user sees.
`KeepsPromise`: the registry implements `JobLifecycle`, whose `Begin` starts only
the job that has waited longest while no other runs.

*Store.* `PlacesComeBack`: a reservation in the table is in an upload's hands, a
running job in the worker's (`NoOrphans`), and when the worker is gone nothing
is left running (`NothingLeftRunning`). `NoLostWakeup`: from the moment the
worker saw nothing to do until it looks again, a startable job has its bell rung
or about to be, and a closed store has woken it or is about to.
`FilesFollowJobs` (`RunsOnCompleteUpload`, `SourcesErased`,
`ListsWhatIsThere`): directories agree with the states shown. `WorkerSurvives`
holds only with the shutdown order of `flashcards-companion`; with close at any
time the worker may fail, and then `NothingLeftRunning` still holds. `JobsMoveOn`
(`EveryJobServed`, `EveryJobFinishes`, `EveryJobForgotten`) and `WorkerStops` are
the liveness of it.

*Notebooks.* `NoTwins`: a chunk never has two notebooks at the provider, since
an attempt is repeated only after the last deletion was confirmed, and never
after a creation without an answer. `NoneAbandoned`: a notebook the client knows
of is in somebody's hands, in a task that is awaited, or its failure is kept for
the final answer, also when the drain is dropped half-way. `ReportsAreTrue`: a
clean answer is true (`CleanIsClean`), a document without a reported clean-up
issue left nothing (`QuietIsClean`), a completed document lost no deck
(`CompletedIsWhole`). `NotebooksGo`: every batch ends with an answer
(`CleanupEnds`), and a notebook the client knows of goes or is a failure it
counts (`KnownOnesGo`).

What the model also shows, as a limit of these promises: a creation whose answer
is lost may leave a notebook no one deletes, and `finish_cleanup` does not count
it (`lost` is exempt in `CleanIsClean` and `QuietIsClean`).

*Chunk resume.* `DeckIsWhole`: an exported deck is made of all chunks of one
content, whatever was resumed, damaged or changed meanwhile. `NotPaidTwice`: a
chunk whose result is saved and readable is not generated again for the same
content. `SavedIsKept`: what is saved goes only by a deck, a changed document or
damage.

*Batch.* `NotebooksDeleted`: however a run ends, the deletion of every notebook
whose identifier it got was started exactly once (`OneDeletionEach`), and no
attempt begins before the deletion of the previous one's notebook was asked for
(`CleanBeforeAttempt`). `OutcomesAreTrue`: "skipped" means that nothing was
created, and every failing path has to set the flag that says otherwise
(`SkippedIsUntouched`); retries and failures never drop a chunk
(`CompletedIsWhole`). `CancelIsPrompt`: a cancelled run begins deletions only; a
command that had passed its check may still be started, is the last of its
attempt, and nothing is learnt from it. Such a process is
stopped too, by the thread that registers it or by the one that cancels
(`NoneEscapesCancel`).
`RunEnds`: it ends, with three levels of retry.

*Access.* `ServedWhileLive`: a session that was over when the authorization began
serves nothing, and submits nothing after a second authorization that began
later. `PermitsComeBack`, `WithinLimits`: permits and limits of uploads, on
every way out. `ProvisionedOnce`: of two that provision one password only one is
told so, and a server serves only with its account. `EveryLoginGoesOn`: whoever
waits for `hash_limiter` gets on, though computations outlive their clients.

*Logins.* `EndpointIsOwn`: cookies come from the browser the login started.
`OneBrowser`: one browser per profile directory, none once its lock is free; the
order in which `login` drops its variables matters. `AnswerIsFinal`: a save lands
after its login's answer only if that was a time-out, a drop or a browser that did not
stop. `LoginEnds`.

*Provider.* `OthersStay`: no clean-up removes a source that was there before or
was sent well. `SomebodyCleans`: a source that is known and not sent is in
somebody's hands, or a failed clean-up is noted; the one exception is a
removal that could not be written, a limit of the code (below). `CleanupIsTrue`: a confirmed clean-up has removed it. `CallsEnd`.

*Command line.* `NothingLeftBehind`: no process outlives its call, and no
directory outlives its preparation, except the one of a presentation whose
conversion was dropped while a thread worked in it. `PreparedWhole`: every page is in a
piece unless it is before the first chapter or in a chapter that is skipped; of a
PDF above the threshold no piece is longer than a chunk, unless its chapter is,
and pieces of one size advance. `DeckIsSound`: valid deletions,
no two alike cards, none lost without a reason. `MergeIsUnion`: all rows, in order, once
each if that was asked for, never those of an earlier output. `ExitIsHonest`:
success means decks and no notebooks left.

Two runs show promises that the code does not keep.

- `batch_cancelled`: a deletion in a cancelled run is registered with a token
  that is cancelled, so its process is stopped as soon as it is started; the
  notebook is forgotten, existing or not (`CancelledIsDeleted`; no command fails in
  this run). The test that names this behaviour has mocks for processes.
- `batch_timeout`: the process of a wait has the same deadline as the wait it was
  told, and when the process is cut short first, `subprocess.TimeoutExpired`
  passes the handlers of chunk and document and ends the batch
  (`TimeoutSparesOthers`). The test that names this behaviour lets the wait
  return `False`.

Other limits the models show, which nothing in the repository denies: a deletion
that fails returns `False`, which nobody looks at; a failed download ends the
batch as well; the manifest does not record difficulty, quantity and
instructions, so chunks made with others are resumed; after a failed `add_source`
the log says "Notebook preserved" (`use_cases.py:519`), and the notebook is
deleted all the same. A login that timed out may still save its cookies, over
newer ones. Pages before the first chapter are dropped when they do not fit into
its piece; a PDF whose chapters are all skipped yields no piece and counts as
skipped. `generate` leaves the decks of the chunks beside the whole one, so a
merge without `--deduplicate` has their cards twice. A helper is killed with its
program only while it stays in the process group. Between the answer that names
the new source and the `UploadCleanup` that would remove it, `upload_file` writes the
removal (`upload.rs:22-24`), which fails with `Authentication` when the jar has no
cookie left: the source stays, and neither the call nor `finish_cleanup` counts it
(`Unowned`). The test "cleans failed or canceled uploads" (`upload/tests.rs:287`) keeps its
cookies. A temporary notebook takes the source along when it is deleted.

Every property of a passing run has a mutant in `PROJECT.json`, a slip in the
code's definitions that violates it.

## 5. Proofs

Checked by TLAPS, for all values of the constants that satisfy the named
assumptions of the modules. These say what the code relies on: sizes and limits
are natural numbers, positive where the code rejects zero; `MaxActive <=
MaxRetained`, a token lives no longer than a session, an overlap is smaller than
a chunk (`RegistryAssumption`, `WebAssumption`, `PlannerAssumption`, ...); a
batch is not empty, because an empty one ends at once (`GenerationAssumption`);
"no job", "nobody", "unreadable" are none of the values they stand beside
(`StoreAssumption`, `LoginAssumption`, `CallsAssumption`, `ValueAssumption`,
`NotebookAssumption`, ...); what is finite in any execution is finite (jobs, and
the notebooks of an account, `CommandAssumption`). No bound of section 3 is
needed: the bounds that only keep TLC finite are arbitrary here.

All proofs have one form. An invariant, a conjunction of named parts, says why
the property holds; there is a lemma for each action, or for each kind of step,
that it keeps the parts it can disturb; and a property follows from the invariant
in its last steps.

Every safety invariant and every action property that a passing run checks is a
theorem; so is the refinement.

**Jobs** (`LocalJobRegistryProofs`, `JobLifecycleProofs`). The recursive function
that models `VecDeque::retain` keeps the other elements in their order
(`RetainFilters`); the operators on one job keep its account. `RegistryInv`:
`TableOK` types the entries and adds two facts the code relies on silently,
that every job's account balances and that the finishing time is stamped exactly
when the job is finished, which is what prune and eviction look at; `QueueOK` is
`QueueExact` in terms of the elements of the queue; `OneRunning`; `ClosedOK`.
From it `QueueIsExact`, `SourcesBalance`, `LimitsAreKept` (by cardinalities, with
eviction), `HistoryStays` (an entry that is finished never changes, and none goes
before one that finished earlier) and `RegistryKeepsPromise`, the refinement of
`JobLifecycle`: the abstract order of the waiting jobs is that of their places in
the queue, so `submit` needs that append puts a job behind all others,
`start_next` that tail takes the first, and every call that prunes
`RetainFilters`. `LineIsFair`: the abstract order is total.

**Store** (`LocalJobStoreProofs`). `StoreInv` is `RegistryInv`, which the sections
under the registry mutex keep, and what ties threads and directories to the
table. For one job: a directory is gone unless somebody uses it, its files fit
the state shown, a reservation is in the hands of exactly one upload. `WorkerOK`:
a running job is the worker's, and the job of a busy worker runs unless the store
was closed. `SignalsOK`: from the worker's look at the queue until its sleep, a
job that waits has the bell rung or about to be. `OrderOK` holds under
`Orderly` only. From it `PlacesAreGivenBack`, `FilesAgree`, `NoWakeupIsLost`, and
`WorkerGoesOn`, whose hypothesis is the orderly shutdown.

**Notebooks** (`DocumentGenerationProofs`). `NoteOK` says for one notebook who has
it in hand and which task runs for it, by its state at the provider: alive
implies in hand or being deleted, stray implies a failure that is kept.
`DrainOK`: the drain has taken tasks only while it awaits them. `HandsOK` ties
the one notebook in hand to the step of the future, `ProgressOK` the chunks.
`TitlesOK` is what makes `NoTwins` inductive: whatever exists besides the notebook
in hand is of an earlier chunk. `IssuesOK` does so for `QuietIsClean`: as long as
no clean-up of the document is counted as failed, all its notebooks but the one
in hand are gone. From it `OneNotebookPerChunk`, `NothingAbandoned`,
`ReportsTrue`.

**Access** (`CompanionAccessProofs`). `LivesOK`: a session that was over when it
was asked about stays over while the request runs, since a new session has a new
token. `HoldersOK`: permits and holders add up, by cardinalities, though a
handler may go at any wait. `SizesOK` needs the sum of a list of sizes to grow by
what is appended, proved of the recursive function `Total`. `AccountOK`,
`CreatedOnce`. From it `DeadServesNothing`, `PermitsBalance`,
`UploadsAreBounded`, `OneProvisions`.

**Logins and requests** (`NotebookLMProofs`). `LocksOK`: the lock is held from
`lock_browser` to the end, and a browser runs only inside that time, hence
`BrowsersExclude`. `EndpointsOK`: while a login looks for its endpoint, the file
is as it was before or its own browser's, hence `CookiesAreOwn`. `SavesOK` lists
the ways a save outlives its login, hence `AnswersAreFinal`. For the requests,
`CallOK` says of one call that its source is not of others and that what it says
of its clean-up is so; `PairsOK` that no two calls know the same source, which
needs that calls of one client do not overlap between listing and registration.
A call that is over with a source there has left it to a task, has failed to clean,
or could not write the removal.
Hence `CleanupIsOfOwn`, `NoneForgotten`, `ConfirmedIsGone`.

**Python** (`PythonGenerationProofs`). `ResumeInv`: who holds the lock is exactly
who is underway; `FilesOK`, results that can be read are of the manifest's
content; `OnDisk`, the run's own manifest or none that can be read, and no saved
result it has overlooked; what others do to the files meanwhile, damage, only
takes away. Hence `DecksAreWhole`, `NothingPaidTwice`, `SavedStays`. `BatchInv`:
attempts come in the order of documents, chunks and attempts, so a notebook of
this attempt cannot exist before it (`FreshOK`); the list of tracked notebooks
has at most the attempt's own (`TrackedOK`); the number of deletions of a
notebook is determined by that list (`AskedOK`). Hence `NotebooksAreDeleted`,
`OutcomesTrue`, `CancelsPromptly` (with `NoProcessEscapes`, inductive beside it).

**Command line** (`CommandLineProofs`). First the planner, for every number of
pages, size and overlap: the pieces of one size begin at multiples of
`Size - Overlap`, and there are as many as it takes to come to the last page
(`CountFacts`), so they cover (`FixedCovers`) and advance (`FixedFit`); along
chapters, `CutOK` says of the loop of `ChapterPlan` that every page of the
chapters passed that is wanted is in a finished chunk, or in the current one
*and that one will be kept*, and that a chunk is too long only for a chapter that
is. `PrepInv` adds, step by step of the preparation, what runs, what thread is
awaited, which directories may exist, and that the files written are a prefix of
the plan's. `CommandInv` adds that a document in work belongs to a command in
work, that what is reported is in the folder, that what was left to be deleted
is waited for, and that a clean-up has every listed notebook that is still there
in its list. Hence `DocumentsAreWhole`, `NothingIsLeft`, `ExitsAreHonest`.

*Decks.* `DeckInv` says of the document in work that the cards of every chunk
pass (`Good`: pieces, a valid deletion, one if that was asked for) and that the
combined deck is sound. The step that combines is the whole of it, and is the
composition of lemmas on the operators: `FlattenTyped`, what is put together is of
what was there; `RetainedFacts`, no two retained cards are twins and each of the
others has an earlier twin among them; `SmallestFacts`, the first m pairs in their
order are m, or all; `AnalyzedFacts`, unless the search is said to be cut short
the pairs that go are all of them. That a card repeats "an earlier one" needs
that equal cards are twins, that is, that the matching of a text with itself finds
all of it (`MatchesItself`, by the least counterexample over the nested recursion
of `matching_ratio`). That is so below 200 characters; above, frequent characters
are passed over and the model does not apply. The likeness of fronts by their
vectors is any relation, the word lists and the limit of pairs any.

*Merges.* `FolderOK`: what is in the folder are tables, whoever wrote them, which
for our own decks needs `DeckInv`. `MergeOK`, while a merge runs: the files that
are read come before those that are not; the number of rows, the keys seen and
the rows put out are those wanted *of the rows read so far* (`Gathered`), and
each wanted row is at the place that the number of wanted rows before it says
(`Placed`). A row that is read comes after all those before it
(`DoneStep`), so its place is the end. Hence `DecksAreSound`, `MergesUnite`.

What the proofs changed. `ChunksFit` was stated without the threshold, and TLC
agreed while the threshold was below the chunk size; the proof did not go
through, since with the code's defaults it is above: a PDF of 31 to 50 pages is
one file, longer than a chunk. The property now says so, and the run has such a
PDF. The merge was one action that computed the result; it is the loop of the code
now, an action a record, and the property is stated in terms of the rows of the
folder instead of the functions that made it. The matching and the retention of
cards are recursive functions, and what a card, an answer and a folder are is
an assumption (`DeckAssumption`, `CommandAssumption`). Elsewhere only the form
changed: `Total` of the uploads and `Chapters` of a PDF
are recursive functions like `Retain` of the queue, a few guards that were
implied are written out (`Ask` in `DocumentGeneration`, the ends of the
Python steps), assumptions on constants are named, and definitions of modules
that are proved about together have names of their own.

Induction over data is done by the least counterexample, as the induction
theorems of the library cannot be instantiated here; so the recursive functions
of `retain`, of sizes, of chapters, of matching and of retained cards, and the
fold of `FlattenSeq`, are proved about.

Only model-checked: liveness, which is out of the prover's reach (`JobsMoveOn`,
`WorkerStops`, `NotebooksGo`, `RunEnds`, `EveryLoginGoesOn`, `LoginEnds`,
`CallsEnd`), and the two counterexamples of section 4.

## 6. Left out

Contents of files and messages; path and permission checks; JSON, HTTP, the wire
format of NotebookLM and the attributes of cookies; cryptography. Scores of
similarity, case folding and the rewriting of formulas (`quality.rs`,
`casefold.rs`, `math.rs`) are data; only what follows from them is modelled. The
hint of a deletion, which `cloze.rs` counts with it and takes off the text, and
punctuation attached to a word.
Requests of the Python use case that do not wait for completion. That no chunk
of a document had any card is a failure of `Export` in `LocalJobStore`. Poisoned
mutexes (a panic of a thread) and a `CompanionWorker` dropped without shutdown,
which aborts its task. Drops of notebooks outside of a runtime. The reuse of a
process identifier between `wait` and `kill_group`. The time a killed browser takes
to die: `stop_browser` gives up waiting for it after five seconds, and the lock may
then be free a moment before the browser is gone, so `OneBrowser` holds up to that. Wall-clock lengths, except
the lives of sessions and tokens: a deadline may fire whenever its wait goes on,
which covers all lengths. The Python job service and servers, which the Rust
ones replace; two Python runs over one output directory; the dashboard. The Anki
client, which an example program uses. `PROJECT.json` lists the components that
have no module, with the reason.

## 7. Plan

Done: jobs and registry, store and worker, notebooks and documents, chunk resume,
batches; accounts, tokens and uploads; logins; the provider's requests; the
preparation of documents, decks, merge and command line.

Proved: every safety property, and the refinement (section 5).

Next:

1. The refinement of the attempts: a chunk of `CommandLine` and of
   `LocalJobStore` is one of `DocumentGeneration`; today the three are tied by
   their text only.

Then, if there is room for runs: the Python job service against `JobLifecycle`
and the dashboard's polling.
