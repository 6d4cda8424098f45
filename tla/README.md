# A verification project for portal-plugin-abuse

The plugin adds abuse handling to the LumeWeb portal. Reports come in by mail or through a
public form, become *cases*, and cases of trusted reporters are resolved and the content they
name is blocked at once, without a human. This directory models that behaviour in TLA+,
model-checks it with TLC on small instances, and proves part of it with TLAPS for every size.

All paths below are relative to `src/internal`.

## The system

| Component | State | Operations | Talks to |
|---|---|---|---|
| IMAP client (`pkg/email/imap_client.go`) | connection, `stopChan`, ticker, channel of fetched messages | `Start`, `Stop`, `pollForEmails`, `checkForNewEmails`, `reconnect` | IMAP server; calls the intake handler for each mail |
| Email intake (`service/email.go`, `pkg/email/pipeline.go`) | `abuse_processed_emails`; the local variables of one handler | `handleProcessedEmail`, `handleARFReport`, `handleNewCase`, `handleThreadMatch`, `autoResolveAndBlock`, `MarkEmailProcessed` | cases, reporters, subjects, communications, block list |
| Cases (`service/case.go`, `api/admin_extension_case.go`, `api/admin_extension_status.go`) | `abuse_cases`, `abuse_case_status_history` | `Create`, `Update`, `UpdateStatus`, the administration API | mail templates, asynchronously |
| Block list (`service/blocklist.go`, `api/admin_extension_blocklist.go`) | `abuse_blocklist` | `IsBlocked`, `BlockContent`, `UnblockContent`, `BatchBlockFromScanResults` | intake, administration API |
| Reporters, subjects (`service/reporter.go`, `service/subject.go`) | their tables | find-or-create, `GetTrustStatus` | the settled cases of a reporter decide trust |
| Report submission (`service/abuse_report.go`, `api/abuse_api.go`) | none of its own | `SubmitReport`, public access by token | reporters, subjects, cases |
| Communications (`service/communication.go`) | `abuse_communications` | `Create`, lists | asynchronous notification of the reporter |
| Content scans (`service/scan.go`, `workflow/op_scan.go`) | `abuse_case_scans` | `CreateScanRequest`, `UpdateScanStatus`, `SaveScanResults`, `Execute` | the workflow engine of the portal, which retries; the scanner |
| ClamAV scanner (`pkg/scanner/clam_scanner.go`) | bounded pool of workers | `ScanContent` | clamd |
| Evidence (`service/evidence.go`) | `abuse_evidence`, objects in the store | `CreateFromData`, `GetContent`, `Delete` | object store; notifies the reporter |
| Access tokens (`service/token.go`, `api/abuse_api.go`) | `abuse_tokens` | `GenerateToken`, `ValidateToken`, `exchangeToken` | public API |
| Thread detector (`pkg/email/thread_detector.go`) | none; several look-ups for one mail | `DetectThread` | cases, communications; intake acts on the match |
| Classification (`pkg/email/classifier.go`, `content_scorer.go`, ...) | none | `ClassifyEmail` | intake |
| Content extraction, ARF (`pkg/email/content_extractor.go`, `arf_processor.go`) | none | `ExtractURLs`, `ExtractHashes`, `ExtractMainContent`, `ParseARF` | intake |
| Provider templates (`pkg/email/provider_registry.go`, `template_processor.go`) | the registry | `RegisterProvider`, `DetectProvider`, `ProcessWithTemplate` | reporters, cases; nothing in the pipeline calls it |
| Search and analytics (`service/case.go`, `db/crud.go`, `api/admin_extension_case_analytics.go`) | none | read-only queries | administration API, thread detector |

What makes the code hard. Every database call is a transaction of its own
(`db.ExecuteTransaction`), nothing locks a row across two calls, and with one exception no unique
index backs the checks that precede inserts: the schema for SQLite makes the address of a reporter
unique, the schema for MySQL does not (`db/migrations`). HTTP handlers and the polling goroutine therefore interleave
between any two calls, a failure or a crash can strike between them, and every
read-modify-save of a row (`tx.Save` writes all columns) can overwrite a concurrent edit.
Mails can arrive more than once. The IMAP client shares one connection between a FETCH that
streams into a bounded channel and the commands it issues while it drains that channel.

What would make each component correct:

- *intake*: one case per reported hash and mail; what is recorded as processed was handled; no
  case is left that nobody will look at; only vouched reporters are trusted; an automatic block
  has grounds; a trusted report ends in blocks.
- *block list*: a check agrees with the table; a batch that succeeds blocks all of its hashes;
  duplicates do not show; a permanent block stays.
- *IMAP client*: every mail is handed over exactly once unless a failure takes it; `Stop` returns.
- *cases*: the history explains the status; every change is announced once and in order.
- *scans*: the status agrees with the results; a flagged scan is announced; retries converge.
- *evidence*: a file that was answered for is whole; what a failure leaves of one is removed again.
  *Tokens*: only who was given one for a case, and has the case, adds to it. *Reporters, subjects*: one
  row for each address and each hash.
- *thread detector*: an answer goes to the communication it answers; only a reference leads to a
  case that was never the sender's. *Search*: a reference finds the case it names.
- *classification, extraction*: the result does not depend on the order of a Go map; what a mail
  names becomes a subject once; the reporter's words are kept.
- *analytics*: the figures of one answer agree. *Registry*: the provider detected is the first that
  matched.

## Modules

| Module | Models |
|---|---|
| `EmailIntake` | one mail in `handleProcessedEmail`, with administrators and the public form beside it |
| `MCEmailIntake` | its instances for TLC |
| `EmailIntakeProofs` | its theorems |
| `BlockRegister` | the abstract block list: one register per hash |
| `BlockList` | the block list as coded; implements `BlockRegister` |
| `MCBlockList` | its instances |
| `BlockListProofs` | its theorems, the refinement among them |
| `ImapPoll` | the IMAP client, the server and the library's reader goroutine |
| `MCImapPoll` | its instances |
| `ImapPollProofs` | its theorems |
| `ScanVerdict` | the abstract scan: asked for, owed, settled |
| `ScanWorkflow` | scans, their attempts, the pool of workers; implements `ScanVerdict` |
| `MCScanWorkflow` | its instances |
| `ScanWorkflowProofs` | its theorems, the refinement among them |
| `CaseLife` | one case: its opening, status changes and edits, its history and its notifications |
| `MCCaseLife` | its instance |
| `CaseLifeProofs` | its theorems |
| `Portal` | the public site and what administrators do beside it: reports, tokens, comments, evidence |
| `MCPortal` | its instances |
| `PortalProofs` | its theorems |
| `Threading` | the thread detector, look-up by look-up, and the search by reference |
| `Triage` | scoring, type, priority and need of a review of a mail |
| `Extraction` | ARF fields, URLs, hashes and the subjects they become, the main text |
| `Analytics` | the figures on cases, counted one after another, and the tables |
| `Providers` | the provider registry and the processing by a template |
| `MCReaders` | instances of these five |
| `MailProofs` | the theorems about `Threading` and `Extraction` |
| `ReadersProofs` | the theorems about `Triage`, `Analytics` and `Providers` |

**EmailIntake.** One action per database call of the handler; `pc` is the place in the code.
Tables are variables: `cases` is a sequence indexed by row id, the other tables are sets. Each
action has a disjunct for the call's failure, which takes the exit the code takes (logged and
ignored, next hash, or end of the mail). `Crash` may end a mail anywhere. Administrators read a
row (`AdminRead`) and save it whole later (`AdminSave`), so lost updates are possible in both
directions. What the parser, the classifier and the thread detector decide is an input
(`Kind`, `From`, `TextHashes`, `UrlHashes`, and the choice in `Route`). History variables
(`vouched`, `edited`, `matched`, `faults`) record what properties need to know.

**BlockList.** `rows[h]` holds the live rows of a hash in id order, because `GetByProperty`
reads the first and `DeleteByProperty` removes all. A request is a process that takes one step
per database call. A batch is a sequence of hashes (`todo`), which may name one twice, as the slice of
scan results may; `asked` and `gone` are history: what the request was asked for, and what of it was
removed under it. `Lapse` is time. `BlockRegister` knows nothing of rows; the refinement maps
a hash to the lifetime of its first row, and TLC checks every step of `BlockList` is a step of
it or a stutter.

**ImapPoll.** The poller is one process (`at`), the FETCH goroutine and the library's reader
are `Serve`, `Push` and `FetchEnds`. The one fact about go-imap the model rests on: a single
reader goroutine delivers responses in order and blocks while the channel of a FETCH is full,
so the response of a later command waits for room in it. `BYE` and a broken connection are told
apart because only the former makes `Select` return `ErrNotLoggedIn`.

**CaseLife.** One case is enough, because cases share none of this state. A request is a process with
one step per database call; it carries the row it read (`row`) and saves it whole (`Merge`), so an
edit and `UpdateStatus` can overwrite each other. `Enter` is the entry of the history, before `Save`.
Every notification is an entry of `notes`, a goroutine that reads the case by itself (`Address`),
mails and records (`Mail`, `Store`). A `create` that fails may be sent again. `resolve` is the call of
`UpdateStatus` by intake, `status` that of `updateCaseStatus` with its two further reads (`Look`,
`Reread`) and its own notification. `trail` is a history variable: every row ever saved, by whom,
and whether it was read before another was saved (`stale`).

**Portal.** Requests of reporters, of administrators and of intake's `FindOrCreate`, again one step per
database call. A subject is a hash and a type, since `SubmitReport` stores type `url` and intake looks for
type `hash`. Administrators store reporters, subjects and cases without any look-up. `schema` is that of
MySQL or of SQLite, picked once: with the latter (`UniqueEmail`), `CreateReporter` is refused when the
address is `Taken`. `since` (and
`checked` in a row) is what the table held when a request looked. The JWT is
the pair of claims a request holds after `Exchange`; it is compared with the case once, in `Check`.
`CreateRow`, `Upload`, `SavePath` and `Rollback` are the parts of `CreateFromData`. `Sender` is the fixed
id 1 that the handlers of administrators store.

**Threading, Triage, Extraction, Analytics, Providers.** These components change no case (a template
may store a reporter, and ends where the case it wants to open is refused), but each reads several
times, or in an order Go picks.
`Threading` takes one step per look-up of `DetectThread`, while the handlers of `Others` open, close and
reassign cases and record communications; `LookupFails` is the error the detector takes for "not
found". `Triage.Visit` and `Extraction` pick the next entry of a map by `\E`. Texts are sequences of words
or lines, URLs records of what the extractor tells apart (a tail after `unicode-`, a slash, hashes in the
query, a character that clings to the end, a defanged scheme). A URL whose scheme is plain and whose host
is defanged in part (`http://sub.evil[.]com`) is found twice, whole and as what stands before the bracket;
such a text is two entries of the model, and `MCPartly` is one. `Analytics.Count` counts one figure per
step. `MCReaders` puts the five in one run: they share nothing that is modelled, so each behaviour runs
one of them (`reader`).

**ScanWorkflow.** `row[s]` is the row of `abuse_case_scans`, `job[s]` the workflow: its place, the
status that `UpdateScanStatus` was called with, and what this attempt found. `UpdateScanStatus`
is two steps, because it decides on the notification between its read and its save. Results are
reduced to what they add up to. The content service and the scanner are the steps `Submit`,
`Work` and `Answer` on the queue of the pool. Of the workflow engine, which belongs to the portal,
the model takes that it runs one attempt of a workflow at a time, runs a failed step again for as
long as it fails, and runs an incomplete step again after a restart. The checks for missing
services in `Execute` are left out: start-up fails when one is missing. `told` and `tries` are
history variables.

## Runs

| Run | Bounds | Shows |
|---|---|---|
| `intake` | one of: 1 delivery, 1 new case, 2 overlapping edits; 2 deliveries, 1 edit, 1 block, 1 fault; 3 deliveries of 3 mails, 1 fault; 1 delivery, 1 new case, 1 edit, 1 block | `TypeOK`, `TrustIsVouched`, `BlocksHaveGrounds`, `AtMostOneCase`, `NoStrandedCase`, `ProcessedIsHandled`, `TrustedReportBlocks` |
| `intake_replies` (violation) | a report and its answer | `RepliesAreStored` fails |
| `blocklist` | 2 requests at a time, 2 hashes, batches of up to 2 | `BoundedDuplicates`, `AnswersMatchTable`, `PermanentLostOnlyInRace`, `BatchBlocksAll`, `ActsAsRegister` |
| `blocklist_permanent` (violation) | 2 requests at a time, 1 hash | `PermanentStays` fails |
| `imap` | 4 mails, channel of 2, 3 faults | `TypeOK`, `HandedOnce`, `NoSilentLoss`, `HangNeedsBacklog`, `QuietAfterStop`, `StopReturnsUnlessHung`, `MailIsHanded` |
| `imap_stop` (violation) | 4 mails, channel of 2, no fault | `StopReturns` fails |
| `scans` | 2 scans, 1 worker, 3 faults | `TypeOK`, `PoolServes`, `VerdictHasResults`, `FirstAttemptIsSilent`, `SettlesForGood`, `ScanSettles` |
| `scans_notice` (violation) | 1 scan, 1 worker, 3 faults | `AnnouncesLatestScan` fails |
| `cases` | 1 opening and 2 requests on the case, 1 fault | `TypeOK`, `NoticeTellsPassage`, `HistoryTellsStatus`, `LostUpdateNeedsOverlap`, `LastMailIsCurrent`, `ChangeIsTold` |
| `portal` | either schema, 3 requests of 9 kinds, 2 addresses, 1 reassignment of each case, 2 faults | `DuplicateNeedsOverlap`, `AnsweredIsStored`, `AccessIsGranted`, `EvidenceIsWhole` |
| `readers` | see below | `MatchIsGrounded`, `TypeIsOrderFree`, `MailIsReadWhole`, `CountsAgree`, `DetectedIsFirst` |
| `threads_reference` (violation) | the detector alone, 2 cases | `ReferenceFindsCase` fails |

The bounds are the smallest with every case in them.

*Intake.* A mail with a hash in its text and one in a URL runs the loop twice; three deliveries allow
a report, its duplicate and its answer; one fault at a time is what the exits of the code tell apart;
two overlapping edits are what a lost update needs. `Limits` lists the events that may happen together:
everything at once would be out of TLC's reach. What `EmailIntakeProofs` proves holds for any limits.

*Block list.* Two requests are enough for a race of check and insert, and for the loss of a block: one
reads an expired row, the other sweeps it and writes a permanent one, and the first sweeps that. A batch
of two is the shortest that names a hash twice or has one hash left when the other is done. Requests
repeat without bound, and `BoundedDuplicates` itself keeps the rows finite.

*IMAP.* A channel of two stands for ten; three mails are one more than it holds, which never
hangs, four are two more, which may.

*Scans.* Two scans and one worker make one wait for the other;
three faults allow an attempt to be lost with its results stored, the next to fail twice, and so both
notifications of one attempt.

*Cases.* A lost update, or a notification that overtakes another, takes
two requests on the case; each kind of call fails at most once.

*Portal.* A duplicate takes two requests,
a check that is out of date one and a reassignment; the third request makes the case and the token that
the others use. One fault, a failed save of the path or a crash, leaves half of a file; a failed upload
takes a second one, in its rollback, so two are allowed.

*Readers.* Two cases and two
communications are what the detector needs to choose wrongly; mails of two words, with
dictionaries in which two types tie; up to three URLs of one base in every order, and bodies of up
to four lines with quotes, signatures and forwards; two cases with two changes while they are counted;
three changes of the registry around one detection.

Deadlock is checked for intake (whose `Idle` step allows rest only between two mails) and the block
list. The IMAP client really stops, scans settle, requests on a case and on the portal are answered and
are not repeated, and a reader is done with its mail or its answer: there it is not checked, and the
liveness properties say what must have happened by then.

What the violations show:

- *Replies are lost* (`intake_replies`). `handleThreadMatch` parses the reader that
  `ProcessEmail` has already read to its end; the reply is dropped and the mail recorded as
  processed.
- *A permanent block vanishes* (`blocklist_permanent`). The removal of an expired row removes
  every row of the hash, among them one that another request has just written.
- *Stop hangs* (`imap_stop`; `StopReturnsUnlessHung` is what remains true). STORE is sent
  inside the loop that drains the channel of the FETCH. With twelve unread mails (two more than the
  channel holds) the reader waits for room, the STORE for the reader, and the only goroutine that
  makes room for the STORE.
- *Notified of an older scan* (`scans_notice`). The notification counts the results stored so far,
  and the results of an attempt are stored after its status. So a first attempt that finds
  something tells nobody (`FirstAttemptIsSilent`, which holds), and a later attempt that finds
  nothing but cannot save its status reports the issues of the one before.
- *A reference leads to the wrong case* (`threads_reference`). `Search` compares the columns whose gorm
  tag contains `searchable`, and no model has one. So it finds every case, and a mail whose subject
  names one is filed under the oldest.

Two weaknesses of the portal are no counterexample of a run, because the properties of `portal` state them
as they are:

- *Half of a file stays.* A failed upload is rolled back ("Rollback the DB record if storage fails",
  `service/evidence.go:101`), but a failed save of the path (`service/evidence.go:111`) is not: one such
  failure, or one crash, leaves the row without a path and the object with nothing that leads to it.
  `EvidenceIsWhole` says that this is what may be left, by which failures (`Excused`), and nothing else.
- *One address, two reporters.* The two schemas disagree: `email` is `not null unique` on SQLite
  (`db/migrations/sqlite/20250717212634_initial_schema.sql:11`) and only `NOT NULL` on MySQL (line 12 of the
  same file there). On MySQL two overlapping forms, or an administrator at any time, store a second row, and
  the case of the form that lost belongs to a row that later look-ups of the address do not find. On SQLite
  that form fails instead, and its reporter has to send it again. `DuplicateNeedsOverlap` says both.

## Fairness

`EmailIntake`: weak fairness of the handler's own steps; it waits for nobody, and the scheduler
runs it. `ImapPoll`: weak fairness of the poller, the ticker, the server's answer to a FETCH on
an open connection, the reader and `Stop`'s last half; strong fairness of `Quit`, because Go's
`select` picks at random among ready channels, so a closed `stopChan` beside a ready ticker is
not overlooked for ever. Nothing is assumed of arrivals, administrators, failures, `Stop` being
called, or reconnection (`KeepAlive`). `BlockList` has no liveness property and no fairness.
`ScanWorkflow`: weak fairness of the steps of each scan and of the pool: goroutines run, clamd
answers, and the engine retries. Failures and crashes are bounded by `MaxFaults`. `CaseLife`: weak
fairness of the steps of each request that came in and of each goroutine that notifies, which wait for
nobody; nothing makes a request come in, a call fail or the process stop. `Portal` and the readers have no
liveness property and no fairness.

## Proofs

`EmailIntakeProofs`, from `IntakeAssumption` alone (any finite or infinite sets of mails,
reporters and hashes, any limits):

- `TypeCorrect`: `Spec => []TypeOK`. `TypeInv` adds to `TypeOK` what each location of the
  handler guarantees (`Control`): a current case when one is about to be resolved, a row read
  when one is about to be saved.
- `TrustCorrect` and `GroundsCorrect`: `TrustIsVouched` and `BlocksHaveGrounds`. Neither is
  inductive: the rows held by open requests and by the handler may be saved later, so `TrustInv`
  says of them what it says of the table, and of `trusted` that the sender is vouched.
- `OnceCorrect`: `AtMostOneCase`. `OnceInv` follows the mail through the loop: no case of the
  mail before the loop, and during it the hashes that have a case are not among those left.

- `StrandedCorrect` and `HandledCorrect`: `NoStrandedCase` and `ProcessedIsHandled`. `HandledInv` adds
  to `OnceInv` how far the handler is with a mail no step of which failed: at each place, the hashes
  before the current one have a case, and the mail is recorded only when none is left (`Handled`).

The argument has one step per action of `Next`; lemmas on appending and replacing a row of
`cases` are shared.

`BlockListProofs`, from `BlockListAssumption` (finitely many requests at a time; `None` is
neither a hash nor a request; any set of hashes). Its central lemma, `StepOnHash`, says what one
step does to one hash, in six cases: nothing, found none, found an expired row, removed all,
inserted, lapsed. The other proofs only go through these cases.

- `TypeCorrect`: the types, which the others rest on; a batch may be of any length and name a hash any
  number of times.
- `DuplicatesCorrect`: `BoundedDuplicates`, inductive beside `TypeOK`. It counts the rows of a
  hash and the requests about to insert one; only the finding of no row adds a request, and then
  there are no rows to count.
- `PermanentCorrect`: `PermanentLostOnlyInRace`. The strengthening `PermanentInv` says that a
  block nobody raced with is not behind an expired row, and that nobody is about to sweep it.
- `AnswersCorrect`: `AnswersMatchTable`, from the types and the place a request has reached.
- `BatchCorrect`: `BatchBlocksAll`. `BatchInv` says of every hash of a batch under way that it is still
  to be done (`Left`), has a row, or had one that was removed (`Settled`); what is settled stays so
  (`StaysSettled`).
- `ActsAsRegisterCorrect`: `Spec => Register!Spec`, by `StepOfHash`: each of the six cases is,
  under the mapping, a step of the register of that hash or leaves it alone.

`ScanWorkflowProofs`, from `ScanAssumption` (at least one worker; `None` is no row and no
workflow). `StepOnScans` classifies a step: it acts on one scan in one of ten ways, or lets all
workflows fall back (a crash), or touches none.

- `TypeCorrect` and `PoolCorrect`: `TypeOK` and `PoolServes`, together inductive (`PoolInv`): an
  answer is for the scan that waits for it only because no scan has two tasks.
- `VerdictCorrect`: `VerdictHasResults`. `ControlInv` says what each place of an attempt knows of
  the row: at the saving of the results the status is already the verdict that was found.
- `SettlesForGoodCorrect`: `Spec => Verdict!Spec`; from the same invariant.
- `FirstAttemptCorrect`: `FirstAttemptIsSilent`. `SilentInv` counts: the notifications started and
  the ones the attempt may still start (`Left`) are at most two for each attempt but the first,
  and an attempt that finds stored results is not the first.

`ImapPollProofs`, from `ImapAssumption`. `Inv` is inductive: the types; what the goroutine's place
tells of the owner and of the FETCH (`Places`); that the message it works on has left the wire and the
channel (`Taken`); that the messages of a FETCH are unread until it is answered and read from then on
(`Flags`); that what was handed over is read and in neither of the two (`Once`); and `NoSilentLoss`.

- `TypeCorrect`, `HandedOnceCorrect`, `NoSilentLossCorrect`, `QuietAfterStopCorrect` follow from it.
- `HangNeedsBacklogCorrect`: `HangNeedsBacklog`. The message in the hand, the messages of a full channel
  and one on the wire are different ones of one FETCH: a count of sets, for every capacity.

`CaseLifeProofs`, for any number of requests, reporters and statuses. `Inv` says that the row is the last
of `trail` (`Stored`), that the row a request holds is an entry of `trail` and its old status that of one
(`Working`), and that each notification tells two statuses of `trail` in their order (`Told`).

- `TypeCorrect`, `LostUpdateCorrect`, `NoticeCorrect` follow from it.
- `HistoryCorrect`: `HistoryTellsStatus`. Its premise is about the past only, so `HistoryInv` has three
  cases: some request will save a stale row and so break the premise (`Doomed`); or nobody is between
  history and save, and the history is a chain to the status of the row; or one request is, and the
  chain leads to the status it is about to save.
- `LastMailCorrect`: `LastMailIsCurrent`. Under `OneByOne`, while the last mail tells an old status a
  goroutine that will tell the current one is still running (`MailInv`).

`PortalProofs`, for any number of requests, addresses, hashes and reassignments. `Inv` has a part for each
table (`CaseInv`, `TokenInv`, `NoticeInv`, `CommInv`, `FileInv`), for the object store (`ObjectInv`) and for
rows with one key (`DoubleInv`), and one for what a request knows where it
is (`Placed`, `Reported`, `Granted`, `Filed`, `Answered`). Every table only grows (`Grow`), and what a
request knows is kept by the steps of others (`KnowsKept`), so each step is looked at for its own request
and the rows it writes.

- `DuplicateCorrect`: the rows that a look-up had before it (`since`) do not have its key. So of two rows of
  an address the later one, if a form made it, was looked up before the earlier was stored, and likewise
  for the subjects of type `hash` that the intake makes; with a unique address there are no two, and a form
  that is refused was looked up before the row that refuses it. Both schemas are covered. The rows of administrators and the subjects of forms are not: nothing
  is looked up for them, and they double at any time.
- `AnsweredCorrect`, `AccessCorrect`: what is answered has its row, and what a reporter stores has a token
  and an entry of `owners`.
- `EvidenceCorrect`: a request that is between the row and the path of a file owns it. It leaves the row
  without a path when the save of the path fails or the process stops (one such fault is enough, and the
  object stays too), or when the upload and then its rollback fail.

`MailProofs` and `ReadersProofs` are about the specification of each reader alone (in `MCReaders` each
behaviour runs one of the readers, so that is the part of the run that matters).

`MailProofs`:

- `MatchCorrect`: `MatchIsGrounded`, of `ThreadingSpec`, for any tables and any interleaving. Beside
  the types and what the rows refer to (`RowsInv`), the queue of the current look-up names rows of the
  kind it is made of (`ListInv`), the best answer so far is grounded (`BestInv`), and an answer found
  in a communication is found before anything else (`AnswerInv`). The lists that look-ups return exist
  by `InOrder`: every finite set of numbers can be listed in order.
- `ReadCorrect`: `MailIsReadWhole`, of `ExtractionSpec`, from `ExtractionAssumption` (what texts are made
  of; any number of sites, hashes and mails). `ReadInv` has four parts. `UrlInv`: what was gone over of the
  map is left once, by its normal form, and comes from a longest variant; that each URL has exactly one
  follows from `Champion` (among finitely many places there is a first of the greatest weight). `HashInv`:
  the second pass adds no subject to those of the first. `ReportInv`: the date is that of `DateOf`, a
  recursive function, of which `DateIsLast` shows that it exists and what it comes to. `MainInv`: the main
  text is that of `ParseEmailStructure`; that its blocks never go over a change of level is shown by a
  smallest line that contradicts it (`OneLevel`, `BlockHead`).

`ReadersProofs`:

- `TypeCorrect`: `TypeIsOrderFree`, of `TriageSpec`. The type kept so far is the most urgent of the
  best ones visited (`TopInv`), which does not say in which order they were visited.
- `CountsCorrect`: `CountsAgree`, of `AnalyticsSpec`, from `AnalyticsAssumption`. Between two figures rows
  are opened and changed, so `AgreeInv` bounds, place by place, how far the figures counted so far are from
  each other and from the table by the changes since; `FilterInv` says what the filters of the later ones
  still hold. Sums over finite sets are folds; `SumsExist` to `SumIsSum` (and `SumParts`) show that such a
  fold is the sum, by a least counterexample instead of induction.
- `DetectedCorrect`: `DetectedIsFirst`, of `ProvidersSpec`, from `ProvidersAssumption` (ids are not empty,
  priorities are integers). `ProvidersInv` adds that the registry is finite, that its providers have ids and
  numbers, and that nothing is processed before it is detected. What the sort does to every finite registry
  is `SortedSorts`: the exchanges of a pass leave the smallest number at its place and the same providers
  behind it (`SameFrom`, `Exchanged`, `PassSorts`). That the two recursive functions of the sort exist is
  `Recursion`, with `StepByStep` in the place of induction.

Every inductive invariant was checked by TLC before it was proved, on the instances of the runs.

Every invariant and every action property that a passing run checks is the statement of a theorem. Only
model-checked, since the prover cannot treat them, are the liveness properties `TrustedReportBlocks`, `StopReturnsUnlessHung`,
`MailIsHanded`, `ScanSettles` and `ChangeIsTold`, which rest on fairness.

## Taken from outside

What is not under `src/` is modelled from its use and marked external in the map: the crash and restart of
the process, the passing of time (`Lapse`), the IMAP server and the reader goroutine of go-imap, the order
in which the worker pool takes its tasks, and the engine of workflows, which runs a failed step again. A
database call is a transaction that happens or fails as a whole; a failed one changes nothing.

## Not modelled, and why

- *Reads that answer and change nothing*: lists with sorting and pagination, `getCase`, `validateToken`,
  `GetReportStatus`, `GetContent`, `IsSubjectBlocked`, the progress of scans, the trees of replies, the
  remaining reports of analytics (status flow, communications, blocks), which are counted in the same way.
- *Operations that no handler calls*: the deletion of evidence and communications, `CreateFromHash`.
- *Operations nothing depends on here*: the name that a template adds to a reporter, connecting to clamd and
  the stopping of its pool.
- *The content of evidence.* `GetContent` closes the stream before it returns it (`service/evidence.go:318`),
  so what `getEvidenceContent` then sends depends on how the store's reader behaves when closed, which is
  not part of this repository. Worth a look by whoever knows that reader.
- *The time of tokens.* `ValidateToken` has the condition on the expiry commented out and nothing sets
  the date of revocation, so a row of `abuse_tokens` is good for ever; `Claims` says so.
- *Text as text*: MIME, templates of mails, the patterns of the provider templates and the dictionaries
  (constants of `Triage`), links in HTML, attachments. A term of several words in a dictionary never
  matches, because single words are compared; `Weight` is over single words.
- *Wiring and conversion*: start-up, routes, DTOs, the generator of ARF mails for tests, mocks.
- *The composition of `ImapPoll` and `EmailIntake`.* They meet in one call. `ImapPoll` lets that call
  fail or succeed at will, and `EmailIntake` lets mails be delivered again and again, so each contains
  what the other can do to it; their product would only be larger.

## Plan

The modules are complete but for the above, and every safety property they state is proved. What is left
is what could be stated beyond it:

1. The composition of `MCReaders` as a theorem of its own: that a reader's theorem carries over to a
   behaviour in which the others rest.
2. Lemmas on the operators of `Triage` (scores as sums of weights) for the priority and the review of a mail,
   which no property states yet.
