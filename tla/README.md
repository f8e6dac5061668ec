# Telephone Booth Operator: a TLA+ development

The repository is the back end of an art installation: a telephone booth plays a
question, records the caller's answer and uploads it; the Operator API stores it,
has it transcribed, translated and moderated by services that may answer late or
never, and shows it to human operators who approve or reject it. The code that is
hard to get right is in `packages/api/src`: many requests, a sweeper, worker
callbacks and operators write the same few rows of a PostgreSQL database, and each
handler is a sequence of statements with awaits in between.

This directory models that code in TLA+, checks the models with TLC on small
instances and proves the most important results with TLAPS for all instances.
`PROJECT.json` maps every definition to the lines it stands for.

## The system

| component | state | operations | what makes it correct |
| --- | --- | --- | --- |
| On-device processing queue, `routes/message-processing.ts` | lease columns of `Message`: token hash, expiry, user, snapshot hash, attempts, failed-at | claim, heartbeat, release, fail, complete | one holder per message; results only from the holder and from current rows; no takeover of a live lease; a terminal failure is final |
| AI pipeline, `lib/ai/pipeline.ts`, `lib/ai/sweeper.ts` | `Transcription` and `Moderation` rows, `Message.status` | kick, transcribe, translate, moderate, record a result, sweep | a late answer overwrites nothing; a verdict is about the text shown beside it; a decision is never undone; work survives a restart |
| Worker callbacks, `routes/worker.ts`, `lib/ai/push-work.ts` | the same rows | post a transcript, translation or verdict; list and re-emit work | a callback about a row or a text that is out of date is refused |
| Message routes, `routes/messages.ts` | `Message`, `File` | create, upload complete, transcribe, moderate, submit results, decide, delete | replay is idempotent; nothing is written into an ended installation |
| Installations, `lib/installation.ts`, `routes/installations.ts` | `Installation` rows, frozen summaries | start, rollover, end, purge, re-file uploads | one open era; an ended era's summary and queue are final; a purge removes what belongs to the era and nothing else |
| Questions, `routes/questions.ts` | rows with weight and consumption, the installation's cycle and recent draws | create, reweigh, activate, archive, draw | concurrent draws consume distinct tickets; a retried draw is answered as before |
| Push, `lib/push-events.ts`, `lib/apns*.ts`, `routes/devices.ts` | badge version, lease and delivered version; alert state; devices | observe the queue, deliver the badge, alert | a phone never goes back to an older count; an alert sounds once |
| Events and status, `routes/events.ts`, `routes/status.ts` | events, call sessions, status runs | deliver a batch, report, reconcile | a redelivered event changes nothing; reports are counted once; no dated report declares a live call aborted |
| Operator sessions, `lib/session.ts` | `operatorSession` rows, the refreshes pending and the back-off of each process | refresh, revalidate, slide, sign out | refreshes that meet sign an operator out only in the race that ADR 0012 leaves; nobody without an account is served for long |
| Signing in, `routes/auth.ts`, `lib/operator-user.ts`, `lib/bearer-auth.ts` | pending logins in memory, the transaction cookie | login, callback, bearer request | one login of an allowed account, one session |
| API tokens, `lib/api-tokens.ts`, `routes/api-tokens.ts` | tokens, a cache per process | create, verify, revoke | a dead token is refused everywhere |
| Uploads and instructions, `routes/uploads.ts`, `routes/instructions.ts`, the dialogs | files by content, blobs, cards | reserve, upload, file, ask | what is filed can be played; an active instruction is found |
| WebSocket, `routes/ws.ts`, `lib/broadcaster.ts`, `web/src/lib/booth-websocket.tsx` | sockets, subscriptions, the reconnect timer, the status displayed | connect, authorise, ping, drop, reconnect; broadcast, poll | the feed is neither stranded nor doubled; the console catches up |
| Web console, `web/src/lib/api-client.ts` and the screens | the query cache | fetch, mutate, invalidate, poll | what an operator was told is shown |
| Lists, `lib/cursor.ts`, `lib/ai/push-work.ts` | cursors | page, replay, sweep | no row lost or repeated between pages |
| Backup, `lib/data-archive.ts` | archives | export, restore | the rows of an archive fit where it is restored, and leave ended installations settled |
| Audit log and pruners, statistics, provider adapters, schemas | derived, append-only or external | read, prune, call | see "Not modelled" |

Components interact through database rows, not through calls: row locks
(`SELECT ... FOR UPDATE` on the message, `FOR SHARE` or exclusive on the
installation), conditional updates (`updateMany` with the expected state in its
WHERE clause) and hashes of what a client read. The pipeline is started with
`setImmediate` from the upload handler, by operators, and by the sweeper's timer;
there is no job queue, so a restart loses whatever was in flight. The hard
behaviours are therefore interleavings between the statements of handlers, late and
repeated answers, restarts, and leases that run out; `PROJECT.json` lists them as
hazards, each at its line.

## Modules

| module | contents |
| --- | --- |
| `ClaimLedger` | abstract specification of the processing queue: who owns a message, whose result is stored |
| `ProcessingLease` | `routes/message-processing.ts`, request by request and statement by statement |
| `ProcessingLeaseProofs` | theorems about `ProcessingLease`, with proofs |
| `MCProcessingLease`, `MCLeaseDocs` | instances for TLC; the second adds history variables to state two sentences of the documentation |
| `Pipeline` | `lib/ai/pipeline.ts`, `lib/ai/sweeper.ts`, the callbacks and routes that write the same rows, for one message |
| `ReviewLedger` | abstract specification of the review: which text is under review, which verdicts on it count |
| `MCPipeline` | instances for TLC |
| `Installation` | `lib/installation.ts`, `routes/installations.ts` and the upload, decision and deletion of `routes/messages.ts` |
| `BoothCalls` | `routes/events.ts` and `routes/status.ts`: event batches, call sessions, status runs, over rollovers |
| `MCInstallation`, `MCEras` | instances for TLC; `MCEras` runs `Installation` and `BoothCalls` |
| `OperatorSession` | `lib/session.ts` on several replicas, with the identity provider |
| `OperatorLogin` | `routes/auth.ts`: the login flow, the allow-list, bearer requests |
| `ApiTokens` | `lib/api-tokens.ts`, `routes/api-tokens.ts` |
| `QuestionDraw` | `routes/questions.ts`: the ticket bag |
| `AudioFiling` | `routes/uploads.ts`, `routes/instructions.ts` and the two dialogs of the console |
| `PushNotifications` | `lib/push-events.ts`, `lib/apns.ts`, `lib/apns-http2.ts`, `routes/devices.ts` |
| `LiveStatus` | the status a console displays, from frames and polls (`booth-websocket.tsx`, `routes/status.ts`) |
| `LiveSocket` | the socket itself: provider, server, heartbeat, shutdown |
| `ConsoleCache` | the queries and mutations of `api-client.ts` under every screen |
| `ListPaging` | keyset paging and the replay of push work |
| `DataArchive` | `lib/data-archive.ts`: export and restore |
| `MCServices` | the eleven modules above this line, from `OperatorSession` on, as one instance for TLC |
| `TicketBag` | abstract specification of the question draw: one bag, tickets taken one by one |
| `PipelineProofs`, `InstallationProofs` | theorems about `Pipeline` and `Installation` |
| `ErasProofs` | theorems about `BoothCalls`, and about the specification that `MCEras` checks |
| `AccessProofs` | theorems about `OperatorSession`, `OperatorLogin` and `ApiTokens` |
| `RecordsProofs` | theorems about `QuestionDraw`, `AudioFiling` and `DataArchive` |
| `NewsProofs` | theorems about `PushNotifications`, `ListPaging`, `LiveStatus`, `LiveSocket` and `ConsoleCache` |
| `ServicesProofs` | the invariants of the last three for the specification that `MCServices` checks |

### ProcessingLease

`row[m]` holds the processing columns of message `m`; `held[d]` is the claim device
`d` remembers; `scan[d]`, `call[d]` and `beat[d]` are its requests in flight (a
heartbeat runs beside another request). A request is one action per database round
trip: `ClaimStart` takes `now`, `ClaimPage` reads a page of the queue with OFFSET,
`ClaimPass` and `ClaimGrant` examine one candidate in a transaction; `FailStart`
reads the attempt count and `Fail` writes; `CompleteStart` takes the installation's
shared lock, `CompleteLock` the message's row lock and the snapshot check, and
`CompleteCommit` or `CompleteRejected` ends the transaction. The other writers of
the same rows are `PipelineWrite`, which waits for the message's row lock,
`TranslationFails`, which does not, `Decide`, `Delete`, `UploadComplete` and `EndEra`; `Tick` advances the clock; `Forget` is a device that crashes or never gets
the answer.

Abstractions. A NULL column is 0. Tokens are numbered, so unique; the code draws 32
random bytes. What `processingSnapshotHash` covers is two values: a content, with the steps
`processingNeeds` derives from it (`NeedsOf`), which is written under the row lock only,
and whether a translation is marked failed (`gaveUp`). `new Date()` inside
a handler is any instant between the request's last step and the statement
(`Instants`). A completion's extension of its own lease inside its transaction is
overwritten before the commit and not visible. Errors of the database itself are not
modelled: they roll back and answer 500.

### Pipeline

One message. `trs` and `mods` are its transcription and moderation rows in creation
order; a job is a running call of the pipeline and its `pc` names the await it is
suspended at, so between two of its steps anything else may run. Each step is served
by an in-process provider, by an app that posts the result back ("push"), or is
disabled (`Config`); a provider's answer or error is a later action, and a request
of the app or of an operator names a row and a text it may have read at any time.
`judged` is the text a verdict is about, which the code compares by hash. Time enters
only through `Age`: a pending row becomes older than the sweeper's threshold.

Abstractions. The texts are a small set, one of them empty after trimming and one in
a foreign language. The `expectedLatest...` fields of requests only refuse more, so
requests without them cover them. Broadcasts, push notifications, audit and latency
columns are left out. Deletion of the message is not modelled here: every statement
then finds no row and the call ends. `PipelineServer` and `PipelineClients` use one
mode for all steps; mixed modes are in the specification and not in a run.

`ReviewLedger` says what all of it amounts to for whoever reviews the message. It knows
no attempts, providers or jobs: there is one text under review, of the newest transcript
or of its translation, and a verdict is open, counts, or is over. A newer transcript
withdraws every verdict; a translation either leaves the text as it is or withdraws them
too. `Pipeline` implements it (`ReviewSpec`) under the mapping at the end of the module:
`Latest` and `Translated` are read off the transcription rows, `UnderReview` is what
moderation would judge now, and `Standing` folds the statuses of a moderation row. This
covers the verdicts that name no transcript, of which `VerdictOnReviewedText` says
nothing.

### Installation

`era[e]` is an installation's life (open, ended, purged) and `summary[e]` the counters
frozen when it ended; `msg[r]`, `file[r]` and `blob` are the message row, the file row
and the audio of recording `r`. Recordings are content-addressed, so a recording that
is deleted and sent again has the same file and the same blob key, and new row ids.
`call[q]` is a request of the booth being handled, `op` an operator's decision or
deletion, `purge[p]` a purge. A writer's transaction holds its era's row FOR SHARE and
the close-out takes it exclusively, so each transaction is one step; what a handler
read before its transaction is a field of its request and may be out of date. A purge
is not a transaction: `PurgeRead` reads the uploads in flight, `PurgeOpen` the open
era, `PurgeMove` re-homes, `PurgeFiles` collects files, `PurgeRows` deletes the rows
in one transaction, `PurgeRefs` to `PurgeFileRow` delete the files nothing refers to,
`PurgeCheck` and `PurgeBlob` the audio. Two requests about one recording are a booth
that gave up waiting and tried again; they meet at the unique key (`CreateRaced`) and,
with a purge, at the foreign key (`CreateRetry`).

`misfiled` records that a purge moved a recording that had landed, or moved one into
an era that had ended: the defect `EraDocCounters` exhibits. `EndedIsSettled` and
`UploadsSurvive` are stated for behaviours in which it has not happened, so that they
say what the locks and the re-homing do guarantee.

Abstractions. Questions and calls of an era are in `QuestionDraw` and `BoothCalls`, so a
file is referred to by a message or by nothing, and the counters of a summary that
count questions and calls are left out. A blob's hash and size are right, because a recording is its
content.

### BoothCalls

The log of the booth's events, the call sessions the server derives from them and the
status runs. `req[p]` is a request in flight: a batch reads the sessions it refers to
(`ReadSessions`) and which of their eras have ended (`ReadEndedEras`), then locks the
open era (`LockOpenEra`) and writes (`WriteBatch`); a report reads the newest run
(`ReadRun`) and folds itself into it or starts another, and an idle report closes the
calls it finds forgotten (`FoldReport`). The booth may deliver any subset of what has
happened, late, in any order and repeatedly. A report has a time of its own
(`DatedReport`) or is taken for one of the moment it arrives (`UndatedReport`); `undated`
remembers the second kind.

Abstractions. Event kinds are a start, something in the middle and an end. Payloads are
left out. A call is known by its number, and its times follow from it. `WriteBatch` is one
step for a batch's statements, although two batches hold the installation FOR SHARE at the
same time: how the statements of two such batches interleave is left out.

### Operators: OperatorSession, OperatorLogin, ApiTokens

`OperatorSession` follows one session row through requests on several replicas. A
request's steps are its awaits: read the row, refresh (or join the refresh pending in
its process), compare and store, revalidate, slide the expiry, destroy. A refused refresh
reads the row again, waits (`WaitOnce`) and reads it once more; nothing makes a sibling
commit during the wait, and a session given up although one is about to is marked
"outraced". `idp` is the provider: it rotates refresh tokens and may end the account, and `faults` bounds its
failures and those of the database. `trouble` records when one happened.
`OperatorLogin` has the pending logins of each replica, the cookie of each browser and
the callbacks in flight; a provider's redirect may come back twice. `ApiTokens` has
the rows, each process's cache with its lifetime and capacity, and verifications
suspended at the hash.

Abstractions. Signing, encryption and hashing are perfect. An access token lives for
two ticks of the clock at least (`SessionAssumption`), which leaves out providers whose
tokens live for less than the minute of leeway. A provider states that lifetime always or
never; without it the expiry is null and no refresh is ever needed. When tokens were last
used is left out.

### Booth and console: QuestionDraw, AudioFiling, LiveStatus, LiveSocket, ConsoleCache

`QuestionDraw` is a bag of tickets: a draw reads under the exclusive lock (`DrawRead`)
and writes (`DrawWrite`) or gives up (`DrawBusy`); the console's edits take the lock
shared. `drawn` counts the tickets really drawn since the refill. `QuestionDraw`
implements `TicketBag`, which has no locks, requests or cycles: a draw takes one ticket
at the moment it commits, not of the question drawn last while another has a ticket,
from a bag that is filled again when it is empty and only then, and a draw id that is
remembered is told what it was told before. The mapping reads the tickets taken off the
rows' own counters (`Consumed`). `AudioFiling` is a
dialog's three calls (slot, upload, card) over files known by their content, which the
booth's recordings share; the purge of an installation, which deletes rows of files and
then, in calls of their own, the audio (`PurgeRows` to `PurgeBlob`); and the booth's
request for an instruction, a count followed by a selection. `muted` records audio that a
purge deleted although a row had named it again. `LiveStatus` is what a console shows
from frames of the one replica it is connected to and from a poll that reads twice;
reports bear any time, also one before a report of an earlier installation. `since`
records the installation from which on the console holds nothing older. `LiveSocket` is
the connection: events of old sockets reach a provider that has moved on. A client whose
server hangs up before it has opened skips its open event.
`ConsoleCache` lists the queries with their key, the rows their endpoint reads and what of
them the page displays, the mutations with the rows they change and the keys they
invalidate, and every screen, and the frame around them, with the queries it mounts; a
behaviour follows one query, because queries do not affect each other.

Abstractions. A weight is 1 or 2. A blob upload is one step. Data in the cache is the
number of changes it reflects. The console's broadcasts other than status and
installation frames are left out.

### PushNotifications, ListPaging, DataArchive

`PushNotifications` has the badge row with its version and lease, the alert row, the
phones and the dispatchers of all replicas; every post to the provider passes a fence
(`BeforeSubmit`, `Post`) and may reach the phone although its answer is lost. A post
does not outlive its timeout: that is what the fence relies on. `ListPaging` walks
pages of one table or of two while rows come, go and are superseded.
`DataArchive` keeps the rows that refer to one another: installations, a question of
each, recordings and operators. An export reads one snapshot, a restore is one
transaction. Whether the database client writes a plain null to a Json column is a
constant, `TakesNull`: if not, `Restore` refuses an archive with an installation that has
no counters (`Writable`).

Abstractions. The two pushes modelled are the badge and the new-message alert. In an
archive rows have no content but their references, status and counters.

### MCServices

The eleven services share no state, so `MCServices` puts them side by side and each
behaviour follows one of them (`focus`); the variables of the others are 0 and do not
move. Its properties `MC...` are the services' own, asserted of the service followed.
`MCEras` does the same for `Installation` and `BoothCalls`, and explores the calls twice:
with batches of two events and one report less, and with all reports and single events.

### What the properties leave out

Some things the code does are excepted by the properties, or lie outside the models,
on purpose; a reader of the code should know of them.

- A device's completion is checked against what the message holds, under the message's row
  lock, "as those writers" (`routes/message-processing.ts:79-81`). One of them takes no
  lock: `lib/ai/pipeline.ts:452` and `:600` mark a translation as failed, which is part of
  what is compared, so it may slip in between the check and the commit. `CompletionIsCurrent`
  allows for that write and for no other.
- `FailCountIsCurrent` speaks of the count in the row, which counts claims; that the
  documentation speaks of failures is the finding of `LeaseDocFailures`.
- A session is signed out when a slide overtakes the read of an expired copy, and when
  the database fails during a refresh, which the code takes for a missing row. It is also
  signed out when the wait of a refused refresh ends before the sibling that was granted
  the token has committed: ADR 0012 says that "the race is not eliminated". All three are
  disjuncts of `NoAccidentalSignOut`.
- An idle report without a time of its own closes calls as of the moment it arrives, so a
  delayed one may abort a call that is on the line; ADR 0006 says so, and
  `OnlyFinishedCallsAreAborted` excepts it.
- The comment at `routes/status.ts:147-149` and ADR 0010 say that two concurrent
  `PUT /status` can lose an increment. The code increments in the database
  (`{ increment: 1 }`), so they do not, and `ReportsAreCounted` shows it; a comment that
  allows for more than happens is no violation a run could show. They can insert a second
  row, which counts its own report, and shorten a run's window, as ADR 0010 says too.
- The purge's race of `EraDocBlob` may also delete the audio of a question or instruction
  that is filed anew while it runs; `CardsHaveAudio` excepts audio in `muted`.
- A console that missed every lifecycle frame of a rollover, and did not poll between the
  installations, keeps a report of the earlier one if it is dated after those of the new
  one, or if the new one has none (`booth-websocket.tsx:315-320`), although the comment at
  `:294` says that "later polls reconcile cross-replica gaps". The same can be left by a
  late frame. `ConsoleIsUpToDate` excepts it.
- An answer may hold more than its page displays. The messages' pages use the prompts of
  `GET /v1/questions?ids=` and not the counts of answers in it, and no mutation of a message
  refreshes that query: `WritesAreShown` asks for what is displayed.
- A restore writes the row of an installation as the archive has it. An installation that is
  open, or known only partially, has null for its counters, and the comment at
  `lib/data-archive.ts:680-681` says that Prisma rejects a plain null for such a column, in
  which case no such archive can be restored at all; the audit row and the telemetry row
  beside it avoid the null, the installation does not. It depends on the client library,
  which is not part of the repository, so the model leaves it open (`TakesNull`). A
  restore also fails when a unique column (the prompt or audio of a question in its
  installation, a file's key or hash, an operator's address) belongs to a row with another
  id by now. `RestoredRowsFit` is therefore about the rows a restore would leave, not about
  whether it succeeds.
- `routes/events.ts:396` broadcasts the last `accepted` events of the batch, which need
  not be the accepted ones.
- An older message alert can arrive after a newer one; each sounds once.
- A sweep re-emits only the newest page that has work.
- Importing an archive invalidates no query (`AdminBackupPanel`), and the statistics of a
  fixed range are not refreshed by a decision. A first fetch in flight when a write is
  confirmed may show the older answer until the next one.
- The archive of one installation lacks operators who only classified a recording or
  hold a lease; a fresh instance refuses it. One that ends the installation open here
  leaves the recordings the archive lacks in the queue; an installation known only
  partially exports no counters. An archive taken of an instance in either state brings
  that state along, so `RestoreSettles` speaks of archives that bring ended installations
  settled (`BringsSettled`). With one archive kept at a time the case does not come up;
  the proof, which allows any number, showed that the hypothesis is needed.
- `routes/instructions.ts:61-69` skips the first row of every page but the first.
- A dialog's submit button stays enabled while it uploads, so a double click files two
  cards. Editing a question overwrites a concurrent edit.

## Runs

| run | instance, or outcome | shows |
| --- | --- | --- |
| `LeaseContention` | 1 message, claimed once before or never, 2 devices of one operator, one of them unable to moderate; leases of 1 tick, 1 tick of the clock, 2 claims, 2 contents, 2 requests at once, 2 attempts | `TypeOK`, `OneHolder`, `CompletionIsCurrent`, `TerminalIsFinal`, `NoTakeover`, `FailCountIsCurrent`, and the refinement `LedgerSpec` |
| `PipelineServer` | in-process providers, 2 jobs, 2 rows of each kind, 1 answer later than the threshold, an operator | `TypeOK`, `PendingIsNewest`, `VerdictOnReviewedText`, `HistoryStands`, `TranslationStands` |
| `PipelineClients` | push and disabled, 2 jobs, app and operator, a message still "received" | `VerdictOnReviewedText`, `DecidedStays`, and the refinement `ReviewSpec` |
| `PipelineRecovery` | in-process, 1 restart, 1 slow answer, no clients, fairness | `TranscriptionSettles` |
| `EraRollover` | 1 recording, 2 requests at once, 1 operator, 1 purge, 3 installations, 2 message and 2 file rows over time; or 1 call, 2 deliveries at once, 2 installations and either batches of 2 events with 2 reports or single events with 3 | `EndedIsSettled`, `UploadsSurvive`; `EventsFollowTheirCall`, `OnlyFinishedCallsAreAborted`, `ReportsAreCounted`, `SettledCallsStay` |
| `Services`: sessions | 2 replicas, 2 requests, 3 ticks, 1 failure; idle 2 ticks, ceiling 3 | `MCSignOutIsJustified`, `MCOnlyEntitledAreServed` |
| ... logins | 2 replicas, 2 browsers, 2 callbacks, 2 logins; an allowed account and a stranger (`NoEmail` is empty: an account without an address is refused like a stranger) | `MCSessionsAreEarned` |
| ... tokens | 2 replicas, 2 tokens, caches of 1 entry for 1 tick | `MCDeadTokenIsRefused` |
| ... draws | 2 questions of weight 1 or 2, 2 draws, 2 draw ids, a history of 1, cycles 0 and 1 | `MCTicketsAreExact`, `MCRetryGetsSameQuestion`, and the refinement of `TicketBag`, `MCDrawsAreTickets` |
| ... filing | 1 audio, 2 submissions, purges; and, without purges, 2 instructions and the booth's requests | `MCCardsHaveAudio`, `MCInstructionIsFound` |
| ... push | 2 dispatchers, 1 phone, 2 versions, 4 ticks; lease 3, fence 2, timeout 1 | `MCBadgeNeverGoesBack`, `MCDeliveredIsShown`, `MCAlertSoundsOnce` |
| ... live status | 2 replicas, 2 runs, 1 repeated report, 2 installations, 2 frames on the way | `MCConsoleIsUpToDate` |
| ... socket | 3 sockets | `MCFeedIsSound` |
| ... cache | every query under every screen, 2 changes | `MCWritesAreShown` |
| ... paging | 2 ids with 2 stamps in each of 2 tables, pages of 1 | `MCWalkIsComplete` |
| ... archives | 2 installations, 2 recordings, 1 operator, 1 archive kept, null counters accepted | `MCRestoredRowsFit`, `MCRestoreLeavesErasSettled` |
| `EraDocCounters` | violated | `CountersAgree`: a purge moves a recording out of an installation that has ended |
| `EraDocBlob` | violated | `AudioKept`: the purge's check and delete of a blob are two calls |
| `LeaseDocFailures` | violated | `ThirdFailureIsTerminal`: attempts count claims, so the first failure may be terminal |
| `LeaseDocNull` | violated | `NullMeansNoWork`: OFFSET paging over a queue that shifts |
| `PipelineDocDecided` | violated | `DecidedStays`: the error path of moderation checks and writes in two statements |
| `PipelineDocRestart` | violated, under fairness | `DownstreamSettles`: a translation or verdict in flight at a restart stays pending |

The last six are disagreements between the code and what its documentation or
comments say; `findings` in `PROJECT.json` quotes the sentences.

Why the bounds are enough. The lease properties involve a claim, the claim that
replaces it and one request of each; two devices, two claims and one tick (a lease of
one tick runs out on it) give every such situation, and the same properties are proved without bounds.
In the pipeline two jobs and two rows give an old and a new attempt with a late
answer each, and a verdict on an old and a new text; the recovery run has room for
the attempts one restart and one slow answer can cause, so that its bounds never
stop an attempt. Three installations are what a purge needs to go wrong, one to purge,
one that ends meanwhile and one that is open; two message and two file rows let a
recording be deleted and sent again. One call with two deliveries and one rollover has
a batch, its repetition and a report on either side of the close-out.

In `Services` most races need two actors and one thing they contend for: two replicas
refresh one session, two callbacks carry one state, two draws empty one bag, two
dispatchers one version of the badge. Three sockets are one to lose, its replacement
and the one after; a cycle counter that ends at 1 starts over; a cache of one entry
evicts; pages of one row over rows with equal stamps put a page break everywhere. Time
runs until every lifetime involved has ended once after a step that matters: the
session's ceiling is reached after a slide, a lease runs out after a renewal. Not
covered are effects that need three actors, or three of anything but sockets.

Deadlock is not checked: when the bounds are used up, or when the message is settled and
nobody acts, these systems rightly stop.

Fairness (`FairSpec`). Weak fairness on a job's own steps: the event loop resumes a
call and a provider's request ends in an answer or an error. Weak fairness on the
sweeper, a timer that is re-armed by `setInterval`, and on the passing of time.
Nothing is assumed of operators, the app or devices.

Symmetry is used on jobs in the two safety runs of the pipeline, on the booth's
requests in `EraRollover` and on replicas and requests in `Services`, never with a
liveness property.

Type invariants are checked of `ProcessingLease` and `Pipeline`. Of the other modules
the proofs have one each (`SessionTypeOK`, `BooksTyped`, `CacheTypeOK`, ...).

## Proofs

`ProcessingLeaseProofs` proves, for every number of messages, devices, claims and
ticks, from the assumption `LeaseConstants` (messages are a finite non-empty set of
numbers, constants have their types):

- `TypeCorrect`: type correctness;
- `ExclusiveLease`, `CompletionCurrent`, `TerminalFinal`: the invariants of the runs;
- `LeaseNotTakenOver`, `FailVerdictCurrent`: the action properties;
- `ImplementsLedger`: `ProcessingLease` implements `ClaimLedger`.

`OneHolder` alone is not inductive: that two devices do not hold the same lease
depends on tokens never repeating, and on requests in flight not changing the token
they carry. `LeaseInv` adds that a token names one claim of one device for ever
(`TokensIssued`, `TokensPrivate`), that a row with a claim's token has the snapshot
that claim was given (`RowMatchesClaim`), what the row lock and the installation lock
preserve until a completion commits (`CommitHoldsRow`, `CommitHoldsEra`), and that the attempt count `POST /fail` read is current as long as
its token is (`FailReadCurrent`). The step case is split in two: every action but
`ClaimGrant` changes claims and lease columns only in the ways `QuietStep` allows,
and `QuietStep` preserves the invariant; `ClaimGrant` uses a token nobody has.

`PipelineProofs` proves, for every number of jobs, rows, texts and restarts and every
mixture of modes, `PipelineTypeCorrect`, `OnePendingAttempt`, `VerdictsCurrent`,
`HistoryKept`, `TranslationKept` and `PipelineImplementsReview`. `PipelineInv` has three
parts. What the rows must fulfil (`RowsInv`) speaks of the rows alone, and they change
in six ways, each a lemma: beside the properties themselves it says that rows are
numbered without gaps, that a pending verdict is about the text that would be judged now
(`PendingOnReviewedText`), that nothing waits in a step that is disabled, and that one
transcript is the latest unless there is none (`OneIsLatest`). Each way is also a step
of `ReviewLedger` or none (`ReviewMoves`): that a translation withdraws every verdict
that counts needs `VerdictOnReviewedText`, for the code only touches those of the row it
translates and those of none. A job relies on a row that exists and on a transcript that
has succeeded (`JobFits`); rows are never removed and a success is never taken back
(`Grows`), so what another job or a client does cannot hurt it. `DecidedKept` needs a
hypothesis, that no configuration moderates with an in-process provider: with one it is
false, which `PipelineDocDecided` shows. Under it no job is ever on the path that
returns a message to the queue (`NoErrorPath`).

`InstallationProofs` proves `EndedStaysSettled` and `UploadsOutlivePurges` for every
number of recordings, requests, operators, purges and installations. Both are stated of
behaviours in which no purge has misfiled, and so is what requests in flight rely on
(`InFlightInv`): a row a request read in the installation that is open now is still filed
there (`Follows`), and a purge that has moved the uploads it found finds no others
(`PurgeFits`). They are preserved because a row enters an installation only while that
is open (`Evolves`).

`ErasProofs` proves `EventsFiledWithTheirCall`, `AbortedCallsWereOver`,
`CallsOfEndedErasKept` and `AcceptedReportsAreCounted` of the booth's calls, for any number of calls, deliveries and
rollovers. `CallsInv` says what a request in flight still knows (`RequestsFit`: a session
is filed once and never moves) and that a run of the status holds only moments at which
the phone was as the run says (`RunsFit`), so that a run of idle moments which began
after a call did reaches past the call's end. `AcceptedReportsAreCounted` proves
`ReportsAreCounted` from `Tallied`: a report is a pair of a run and a number up to the
run's count, a fold that wins adds exactly one, and a fold that lost the race for its run
adds none (`FoldTallied`). That the sum `MapThenSumSet` takes over the runs of an
installation is the number of those pairs (`SumIsReports`) is an induction over finite
sets: the set of runs on which the two differ would have a smallest member, because
strict inclusion is well-founded. `ErasImplementInstallation` shows that the
specification the run checks, with the calls beside the recordings, implements
`Installation`; `ErasKeepRecordings` carries the two results above over to it.

The service proofs hold for every number of replicas, requests, browsers, tokens,
questions, phones, sockets, rows and archives, from the `ASSUME`s of their modules.

- Sessions, `EntitledServed` and `SignOutsJustified`. The clock moves at most once under
  a request, so the copy of the row it holds is an earlier row, and what the copy missed
  is a refresh whose access token is still good (`CopiesAreEarlier`). A token refresh
  that was refused has been overtaken by another one, which has committed or may still do
  so, or no refresh can succeed any more: the newest token is not stored and nobody is
  about to store it (`Stuck`). Between the two lie the re-reads and the wait of a refused
  refresh, and its waiters (`RefusalsAreFinal`, `JobsAreAwaited`); a second look that
  finds the sibling not yet through is the "outraced" case. That an account which is gone is not served for
  long rests on the back-off: it reaches `BackoffMax` past a failure at most
  (`FailuresAreRecent`).
- Logins, `SessionsEarned`. `SessionsAreEarned` needs that no second callback can still
  be under way for a state: `LoginInv` says that a state is in one replica's memory, in
  one callback or in sessions, and in one of the three only (`OneReplicaKnows`,
  `TakenOnce`, `SpentOnce`), and that cookies and callbacks name logins of their own
  browser.
- Tokens, `DeadTokenRefused`. A dead token stays dead (`DeadStaysDead`), and a call that
  has passed a look at the row began with a live one (`PassedWasAlive`); the caches do
  not matter.
- Draws, `TicketsExact` and `RetriesAgree`. `BooksInv` adds that one draw at most is
  between its reads and its writes (`LockIsHeld`), that what it read is still so
  (`PickIsCurrent`), and that no row counts tickets of a cycle to come (`LastIsPast`), so
  that a refill starts every question afresh. `RetryInv` says that every draw the history
  remembers is the last answer to its id, and that as many ids were answered since as
  stand behind it (`HistoryIsTrue`); so an id drops out of the history only after
  `HistoryLimit` others, and no draw of an id it holds is under way (`PickIsNew`).
  `DrawsImplementTickets` shows that `QuestionDraw` implements `TicketBag`: what a draw
  read is what it would read at its commit (`PickStands`), and the pool and the cycle the
  code computes from weights and counters are the bag's tickets and its refill
  (`BagIsTickets`).
- Filing, `CardsCanBePlayed` and `InstructionFound`. A submission that was told its file
  exists, or has sent its audio, names a row whose blob is stored or was deleted under
  the row (`Playable`), as long as no purge has deleted that row (`TicketIsForRow`,
  `SentIsPlayable`).
- Archives, `RestoresFit` and `RestoresSettle`. `ArchiveInv` says what the rows of
  an instance and of an archive of it owe each other; both kinds of archive are closed
  under their references, and a restore keeps the rows here, or takes the archive's, so
  as to stay closed (`AnyRestoreFits`, `AnyRestoreSettles`).
- Push, `BadgesMoveOn`, `DeliveredShown` and `AlertOnce`. The fence argument
  (`FenceHolds`): a dispatcher that has lost the lease has no time left to post in, and a
  request that is on its way ends before the lease does. So only the holder posts, and no
  phone is ahead of what it sends (`HolderIsNewest`); while the newest version is sent no
  phone joins unnoticed (`NewestIsUnderWay`). An alert's version is claimed by one
  dispatcher, which has each device still before it or behind it (`AlertsAreClaimed`).
- Lists, `WalkComplete`. Every row the walk owes is one of three: ahead of the cursor, on
  the page just read, or told (`OnTheWay`).
- Live status, `ConsoleCatchesUp`. Whatever anyone holds of a row, in a frame, a poll or
  on display, is what that row once was (`AllSeen`), and the display is not older than
  the last poll (`PollIsShown`); displays are ordered by time, row and progress, and in
  that order the newest row of the open installation is the greatest of its own. A row of
  an earlier one can only be held by a console for which `since` is earlier too
  (`HeldIsSince`).
- Socket, `FeedStaysSound`. `HeldIsOwn` is what makes the close event of the held socket
  arm the retry.
- Cache, `WritesShown`. A lemma goes through the tables: what a page offers, or a
  rollover, refreshes every query the page mounts of which it changes what is displayed. With it, a
  fetch that is left and the data it leaves are no older than what the operator was told
  (`ReadsAreLate`, `DataIsLate`).
- `ServicesProofs` carries these invariants over to `ServicesSpec`, the specification the
  `Services` run checks: a step moves the service followed or none of its variables
  (`OneMoves`). Its theorems state the run's own properties, all eighteen of them.

The proofs sharpened the models in two places besides `RestoreSettles`.
`MCConsoleIsUpToDate` used to except consoles with a frame or a poll on its way; the
display is right as soon as the last poll agrees with the server, and that is what it
says now. And assumptions the proofs used and the instances met are now stated with their
constants: that the dispatchers' names are not the marks of a free or an abandoned lease,
that `Unfrozen` is no set of counters, and that a table has finitely many ids.

Only model-checked: what is temporal with fairness (`TranscriptionSettles` and
`DownstreamSettles`), which is out of the prover's reach. Every other property of a
passing run is stated by a theorem.

## Not modelled

- Statistics, the exhibition report and monitoring: read-only queries and arithmetic
  over one snapshot. There is no state for an interleaving to break.
- The audit log (append-only) and the pruners, which delete by age. `pruneSnapshots`
  chooses its boundary by `updatedAt` and deletes by id, so a long run can be deleted
  early; nothing else depends on it.
- The provider adapters, the identity provider, APNs and blob storage: external. In the
  models they answer, fail or stay silent, at any time.
- The shared schemas: the models enumerate what they accept.
- Of the push notifications, the alert that the queue is high and the alert of a flagged
  message; of the installations, the copying of questions into the next one, the
  one-time backfill of old summaries and changes of names and notes; of the archives,
  the tar format, the audio, the unique columns and the normalisation of old columns, and
  the moderation policy, which the code does not export either.
- The console's rendering, routing and debug client, and its query of who is signed in.

## Plan

Done: `ProcessingLease`, `Pipeline` and `QuestionDraw`, each with an abstract
specification it is proved to implement; `Installation`; `BoothCalls`; the other
services; proofs of every safety and action
property that the passing runs check.

Left, in this order:

1. A composition of `ProcessingLease` and `Pipeline`: a completion writes the rows of
   the pipeline, so that the snapshot check is checked against them.
2. Questions that are copied forward, among the files a purge may not collect; the
   queue-high and flagged alerts.
