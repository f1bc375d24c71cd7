# Site analysis: a verification project

TLA+ models of the site-analysis platform (Django REST API, Celery workers,
PostgreSQL, Redis), TLC runs that check them on small instances, and TLAPS proofs
of their main theorems. Paths below are relative to `src/apps/` unless they say
otherwise. `PROJECT.json` holds the map from definitions to source lines, the
hazards, the runs and the mutants.

## 1. The system

A visitor, anonymous or logged in, submits a URL. Some tools answer within the
request (accessibility audits); the others create a `pending` row, commit, and
queue a Celery task that calls an external service or the site itself and completes
the row, which the visitor polls.

| component | state | operations | what makes it correct | hard behaviour |
|---|---|---|---|---|
| `credits` | `credit_balance` (one row per user), `credit_transaction` (the ledger) | `check_balance`, `deduct_credit`, `add_credits`, a signal that creates the row | no lost update, no overdraft, one ledger entry per change | row locks, rollbacks, lost connections, column limits |
| `audits` | `accessibility_audit`, its issues | `run_accessibility_audit`, soft delete | charged exactly when completed; no lock over HTTP; every audit has an outcome | charge and save in one transaction after an unlocked HTTP call; except clauses; crashes; stale whole-row saves |
| `gtmetrix` | `gtmetrix_report`; tests at GTmetrix | `submit_gtmetrix`, `process_gtmetrix`, the task, delete | at most one paid test per submission, a completed report shows its own test, retries stop | redelivery, retries, lost replies, crashes between POST and save |
| `analysis` | `analysis_report`, `analysis_history`, the cached history | `submit_analysis`, `process_analysis`, `_upsert_history`, `get_analysis_history`, delete | the history counts every analysis, a cached list is out of date only by a race, retries stop | redelivery, concurrent upserts, invalidation before commit |
| `speed_test` | a row that points to one report of each of the two above | `submit_speed_test`, `combined_status`, deletes | the overall status follows both halves and takes nothing back | two independent tasks, two messages after one commit, deletes of any of three rows |
| `ssl_check` | `ssl_report` | submit, scan task with retries, `_parse`, `_synthesise_grade`, delete | an outcome is final; a worse scan never grades better | retries, redelivery; commands that did not complete |
| `linkchecker` | `crawl_job`, `link_result` | crawl task, `extract_links`, `check_single_link` | counts match the results; each link once, under the right heading | progress writes, redelivery after the insert, redirect cycles |
| `validator` | `validation_job`, items and issues | validation task, extractors, rules | counts match the items kept; each object extracted once; a refused rich result is told why | results replaced in one transaction, nested markup |
| `full_report` | `full_report` row, a PDF file in storage | task over six concurrent tools, PDF builder, periodic purge | row and file agree; expired reports stay gone; scores and advice agree with the findings | purge against a running task, file before row, failing tools |
| `users` | users, API keys, signed tokens, mail tasks | register, verify, resend, forgot, confirm, change, profile, rotate, use a key | one account per e-mail and username, tokens used once, nothing replaced comes back, whoever registers is mailed | unique-constraint races, messages sent inside a transaction |
| `common`, `config`, `api_v1`, docs, templates | settings; `is_deleted` on every row | soft delete, error format, routing | | |

How they interact: `audits` calls `credits` inside its own transaction; the submit
functions queue their tasks with `transaction.on_commit` (`users` without it); workers
write the rows the API reads; `speed_test` follows the rows of `analysis` and
`gtmetrix`; `full_report` calls the functions of the other tools; `analysis` drops a
Redis cache entry that the history endpoint fills.

## 2. Modules

    CreditAccount            what the credit service promises (abstract)
      ^ implements
    Credits                  credit_service.py over its two tables
      ^ EXTENDS                        CreditsProofs
    AuditRun                 audit_service.py, purchases, deletes
                                       AuditRunProofs
    ReportLife               how the status of any report moves (abstract)
      ^ implemented by GTmetrixTask, AnalysisTask, the scans of SiteJobs; used by SpeedTest
    CeleryQueue              broker and workers, as every task is configured
      ^ EXTENDS                        CeleryQueueProofs
    GTmetrixTask             submit, task, process_gtmetrix, GTmetrix itself
                                       GTmetrixProofs
    AnalysisTask             submit, task, process_analysis, history, cache
                                       AnalysisProofs
    TaskLife                 what the smaller tasks share (EXTENDS CeleryQueue)
      ^ EXTENDS
    CrawlTask ValidationTask ScanTask FullReportTask SpeedTest
      ^ composed by
    SiteJobs                           SiteJobsProofs
    Accounts                 users, API keys, tokens, mail tasks
                                       AccountsProofs
    SslScan LinkCheck StructuredData SchemaRules
    ReportScore ReportText   scores and advice; the texts they are shown with
      ^ composed by
    SiteReport               one combined report over one site
                                       SiteReportProofs

In every module the operators whose comment begins with "Mutant" are variants of the
definition that follows them, with a bug the code could have had; no run uses them.
They exist to show that each property can fail. `Sums` is the loop that adds up, shared by the
means of `ReportScore` and the counts of `StructuredData` and `SchemaRules`.

### Credits and CreditAccount

`balance` and `ledger` are the committed tables, `holder` the row locks that
`select_for_update` takes, `txn[r]` the database transaction of request `r` with the
instance it has loaded. A request runs `Call` (the amount check comes before any
query), `LockBalance`, `Write` (everything between the lock and the commit),
then `Commit`; `InsufficientCredits` and `SaveRejected` are the two ways a statement
raises, `ConnectionLost` may strike at any point. The database is READ COMMITTED, as
Django configures PostgreSQL by default: an uncommitted write is visible to nobody.
`save(update_fields=...)` writes the named columns only (`SavedOver`), the CHECK
constraint and the int4 columns are `SaveAllowed`.

`CreditAccount` keeps `funds` and a `statement` per user and knows one step: book a
movement that does not overdraw. The refinement mapping reads `funds` from the balance
column and the statement from the ledger; every step but `Commit` maps to a stutter.

### AuditRun

Extends `Credits`: a request is now an audit or a purchase. `pc[r]` is where its
handler is and `audit[r]` the committed row. `CheckBalance` is a plain read,
`CreateAudit` commits by itself (autocommit), WAVE is called with no transaction open
(`WaveFails`, `WaveAnswers`, `ParseFails`), then `EnterAtomic` .. `CommitAudit` is the
atomic block: the steps of `deduct_credit` are the actions of `Credits`, its commit is
the block's commit. `FinaliseFails` is any statement of the block the database refuses;
`MarkFailed` is the except clause. `Crash` ends the handler's process anywhere,
`DeleteAudit` is the owner's DELETE at any time (it waits while the row is written and
uncommitted). The anonymous request has owner `NoUser` and books nothing.

### CeleryQueue, GTmetrixTask, AnalysisTask and ReportLife

`queue` counts the copies of each message (job, retries) waiting (`Copies` is the same as a set,
which is what the proofs count), `held` is the message a worker has not acknowledged:
acknowledgement is late, so `WorkerLost` puts the message back (`acks_late`,
`reject_on_worker_lost`, prefetch 1 in `src/config/settings/base.py`). `self.retry` publishes the
next message while the present one is still held. `PublisherLost` is a web process that dies
between commit and publish.

In `GTmetrixTask`, `report` is the committed row, `copy[w]` the instance a worker loaded,
`tests[r]` what GTmetrix ran for the report (external: it starts a test per POST and
completes each with or without a grade whenever it likes). A test still running and one
that errored look the same to the task: polling ends in an exception.

In `AnalysisTask` two reports of one user on one URL share a history row: `writer` is the
transaction that has written it and not committed, `value` what it wrote. The cache is dropped
inside that transaction, before its commit, as in the code; `reader` is a request that has queried
the list and not yet stored it, and the ghost `met` which of reader and cached list holds a list
taken while a transaction on the history was open. Steps with no effect outside the worker (the
HTTP call's answer, a second read of a row nobody else can change) are folded into the next
statement that has one. In both modules `broken` is a ghost: the reports whose task raised outside
its except clause, because the save behind the `try` or the one in the except clause was refused.

`ReportLife` is what a visitor who polls may rely on: pending, then failed or completed;
failed may still complete (a retry); completed fails only once a process has died, since
a redelivered attempt may be recorded over the result.

### TaskLife, the four smaller tasks, SpeedTest and SiteJobs

`TaskLife` has what the four tasks share: the request that commits its row and publishes
its message afterwards, a worker that takes it, the ways a task function ends. Each task
module adds its rows, what a worker keeps in memory (`progress`, `instance`, `pdf`), and
one action per statement that somebody else can see: `CrawlTask` inserts its results and
then saves the job, `ValidationTask` replaces both in one transaction, `ScanTask` saves
and re-raises, `FullReportTask` stores a file and then saves the row, while
`purge_expired_full_reports` deletes files and rows one after the other. Each except
clause (`..Fails`) has a sibling (`..Raises`) in which the database refuses its write too.

`SpeedTest` has two halves whose rows move by the actions of `ReportLife`, which the two
big tasks are shown to implement: it is checked against their abstraction.

`SiteJobs` runs them over one worker pool. The jobs of one behaviour are of one `kind`:
kinds share workers but no row, and a job of another kind would only keep a worker busy.

### Accounts

A request is a REST call that writes a user or a key; it is also the name of what it
makes (the user it registers, the hash or the key it writes), since hashes are salted
and keys random. `place` says how far its transaction is. The unique indexes make
`InsertUser` wait for an open transaction that clashes and fail when that one commits;
`LockForReset` and `LockForVerify` are `select_for_update` with the token judged against
the row as it is then; `Authenticate` is the plain read after which `ChangePassword`,
`RotateKey` or `TouchKey` may find the row changed. `Update` writes the named columns of
the current row. `DispatchMail` sends the message inside the open transaction, as
`register_user` does. `SendMail` may repeat (late acknowledgement), `SkipMail` is the task
that finds no user and returns.

### SslScan, LinkCheck, StructuredData, SchemaRules, ReportScore and SiteReport

The algorithms of the tools as functions of what they are given. A scan is what each sslyze
command found; `ParseScan` and `SynthesiseGrade` are `_parse` and `_synthesise_grade`. A page for
`LinkCheck` is a sequence of elements, the network an answer per URL; `IsBroken` and `IsHealthy`
are the reference: where the chain of redirects of a URL really ends. Microdata and JSON-LD are
trees (`parent`, `label`). `FlattenJsonLd` builds the list that `extend` and `append` build, and
its length and its members are compared with the set of objects defined on the tree. `Recorded`
counts how often an element gets into an item, once for each name its `itemprop` or `property`
splits into (none, one or more), the items nested in it included; the reference, `TimesNamed`,
counts upwards from the element instead. A page has at least one URL to point to (`Urls # {}`);
nothing else is assumed of it. `SchemaRules` has the rules of all the supported types and the
value checks, over values told apart as the checks do (an empty object counts as missing and still
has its subfields warned about). `ReportScore` has the scores, the rating, the advice and which
section shows what; `ReportText` the keys of `LABELS`, `EXPLANATIONS` and `REC`, listed for each
language on its own, and what `build_report_pdf` looks up for given results (a key that is missing
would be a `KeyError`, and no PDF). `SiteReport` chooses a site, lets the enabled tools end in any
order, each with an answer or an exception, and builds the report.

## 3. Runs

| run | bounds | result |
|---|---|---|
| `credits` | 2 users, 3 requests, amounts 0..2, columns up to 3 | 93,599 states, passes |
| `audits` | 1 user and anonymous, 3 requests, amounts 1..2, columns up to 3 | 34,516 states, passes |
| `audit_deleted` | 1 user, 2 requests | `DeletedStaysDeleted` violated |
| `gtmetrix` | 1 report, 2 workers, 1 retry, 1 crash, 1 lost reply | 309,582 states, passes |
| `gtmetrix_credit` | the same | `AtMostOneCredit` violated |
| `analysis` | 2 reports, 2 workers, 1 retry, 1 crash, 1 reader | 336,494 states, passes |
| `analysis_counted` | 1 report, 1 worker, 1 retry, 1 crash | `CountedOnce` violated |
| `site_jobs` | 2 jobs of each of five kinds, 2 workers, 1 retry, 1 crash, 2 links, 1 item, progress after every link | about 192,000 states, passes |
| `accounts` | a registered owner, 3 requests of any kind, 2 e-mails, 2 usernames | 893,892 states, passes |
| `accounts_mail` | 1 request | `RegisteredIsMailed` violated |
| `site_report` | seven subjects; 3 URLs, 1 redirect followed, 2 links checked, 4 elements with up to 2 names, 3 commands that find something | 196,547 states, passes |
| `microdata` | trees of 2 elements | `NestedItemsCaptured` violated |

Why the bounds are enough. *credits*: three requests give two that overlap on one row and a third
that changes it in between or uses another row; amounts 0, 1, 2 against columns that end at 3
reach the refused amount, the exact balance, the refused deduction and the overflow. *audits*: two
audits pass the pre-flight check on the same credit while the third request buys or is anonymous.
*gtmetrix*: the second worker is there for a redelivered message beside a retry; one retry
distinguishes the first, a later and the last attempt; one crash and one lost reply suffice for
each place they can strike, and the properties count them, so what a second one adds is what they
already allow. *analysis*: two reports meet on one row, first with no row there, then with one.
*site_jobs*: two jobs of one kind are what a purge takes together and what two workers run side by
side; one crash gives the redelivery, an empty and a full page the counts that differ between two
deliveries; files are as many as deliveries. *accounts*: two requests race on one row or one
identity while the third takes the place of the one that came before (the reset token in the
owner's mailbox is there from the start). *site_report*: a chain of redirects over three URLs with
one followed has the chain within the limit, the one beyond and the cycles; two links checked of
three is the cut; four elements give an item in an item in an item with a sibling; no name, one
and two are what the loop over names can do; three defects are more than any rule of the grade
combines. Nothing needs symmetry.

What they show:

- `LedgerReplays`, `BalanceInSync`, `EveryChangeBooked`: no overlap, refusal, overflow or
  lost connection makes balance and ledger part. `EveryCallAnswered`: nobody waits for a
  row for ever. `ImplementsAccount`: seen from outside, movements happen one at a time.
- `ChargedIffCompleted`, `UsageMatchesAudits`: an audit costs its credit exactly when it is
  completed, once; `OutcomeFinal`: the except clauses never overwrite an outcome;
  `NoLockOverHttp`; `UsesCredits`: the audits refine the credit service. `AuditSettles`:
  an audit is `pending` for ever only when its process died or WAVE's body could not be
  parsed (that code is outside both `try` blocks).
- `OneChainPerReport`, `CreditsExplained`, `CompletedHasResult`: attempts never pile up, every
  paid test beyond the first is one lost reply or one dead process, a completed report shows a
  test of its own that completed. `AlwaysStops`: the queue drains and the report ends, except
  after a delete, or when its task raised outside the except clause: the save of the result
  (`gtmetrix/services/gtmetrix_service.py:78`) is behind the `try`, and the one at line 64 in it
  can fail too.
- `HistoryExplained`: no concurrent upsert loses a count, and every count too many is a dead
  process; `StaleOnlyByRace`: a cached list is never ahead of the history, and behind it only if
  its reader had queried while a transaction on the history was open, which drops the list before
  it commits. Such a list stays until it expires (`HISTORY_CACHE_TIMEOUT`) or the next analysis
  drops it.
- `ImplementsLife` (twice) and `ScansImplementLife`: the three retried tasks implement
  `ReportLife`; `CombinedTracks`: what that gives the overall status of a speed test.
- `CrawlCountsAgree`: a redelivered crawl inserts its results a second time, and nothing else
  makes rows and counts part; `ResultsMatchJob`: a validation never does. `FilesMatchRows`:
  the file a row names is there until the report expires, and a report has one file, and one
  more for each process that died. `PurgeCatchesUp`: a task that saves
  after the purge inserts the row again, and the next purge takes it. `JobsSettle`: every
  queued job comes to an end.
- `OneTimeToken`, `NothingReturns`, `RegistrationsExplained`: races on one user never use a
  token twice, bring back a password or a key, or register two users with one identity;
  `RegisteredIsAnswered`: who registers is mailed, or the failure is on record, or the task
  ran before the commit.
- `ScoresTell`, `AdviceExplains`, `FindingsExact`: scores stay in range and the SSL score falls
  with the findings; what lowers a score is in the advice, and no text that is looked up is
  missing in either language; the tools count each link and each JSON-LD object once, and record a
  marked-up element as often as it is named.

Five runs show where the code differs from what it says. `audit_deleted`: the handler saves
its whole copy (`audits/services/audit_service.py:79`), `is_deleted` included, so an audit
deleted during the WAVE call is back. `gtmetrix_credit`: the comment at
`gtmetrix/services/gtmetrix_service.py:55-56` promises one credit per submission; a lost reply
or a crash before the id is saved costs a second. `analysis_counted`: the docstring at
`analysis/services/analysis_service.py:84` says the task is idempotent; redelivery after the
history commit counts the report twice. `accounts_mail`: the verification mail is queued
before the commit (`users/services/auth_service.py:88`), and a worker that is faster finds no user
and returns. `microdata`: an item that lies in another one without being its property is in no
result, though the comment at `validator/services/extractor_service.py:154` says "captured
within its parent".

Met while modelling, with no run of their own: `docs/FULL_REPORT_API.md` says `download_url` is
null until the status is `completed`, but after a redelivery a `processing` or `failed` row still
has the earlier file; the loser of a registration race gets a 500, since the query in the except
clause runs in a broken transaction (`users/services/auth_service.py:80`); `has_warnings` is false
for a server whose only fault is SSL 2 or 3, graded F; the advice "all good" can stand beside an
overall score below 70, as PageSpeed's accessibility and GTmetrix are scored but never advised on;
`check_single_link` says it never raises and catches `httpx.HTTPError` only; crawl progress can
pass 100 percent after a redelivery (`CrawlCountsAgree` says until then); `report.save()` at
`gtmetrix/services/gtmetrix_service.py:78` writes every column as well, so a report deleted during
its test is back, as an audit is (`CompletedHasResult` speaks of the result and not of
`is_deleted`); `change_password` checks the old password on a copy it loaded without a lock
(`users/services/auth_service.py:171`), so a password reset at the same time may be overwritten
(`NothingReturns` says only that no replaced password comes back); the purge deletes the file its
row names, so a file that was stored before its save was refused, or by a delivery that died,
stays in the storage (`FilesMatchRows` counts such files); an administrator's hard delete of a
half (`SET_NULL` in `speed_test/models/speed_test.py`) is left out of `SpeedTest`.

### Fairness

- A live process runs its next statement: weak fairness of a request's or a worker's steps.
  Nothing is assumed of callers, deletes, crashes, tests that complete, or readers.
- PostgreSQL queues the waiters of a row lock, so a waiter is served once holders are gone
  often enough: strong fairness of `LockBalance` and of the charge (`DeductCredit`).
- Workers take waiting messages, a published message arrives (`OnCommit`): weak fairness. Nothing
  is assumed of the expiry of a cache entry. HTTP calls end since every one has a timeout; polling
  GTmetrix ends by its deadline.
- `site_jobs` assumes less of the workers, that some worker that can go on does
  (`WF_vars(WorkerRuns)`), and that celery beat starts the purge again and again
  (`WF_vars(Purging)`). `accounts` assumes that a mail task that waits is worked on until it is
  over, nothing of the requests.
- Bounds never block a fair step: `MaxCrashes` and `MaxLost` limit failures only, and
  `MAX_RETRIES` is the code's own limit (3 there, 1 in the runs).

## 4. Proofs

For every value of the constants that satisfies their assumptions, in eight modules.

`CreditsProofs`. The type invariant and `LedgerReplays` are not inductive alone: a commit
is only right when the copy it writes is still the committed row. `CreditInv` adds that
the lock is held exactly by an open transaction (`LockInv`), that an open call has a
positive amount (`CallInv`), that under the lock the copy is the committed row and then that
row with the one change (`CopyInv`), and that committed rows satisfy the table's constraints
(`RowInv`). One lemma per action shows it is kept; `CommitBooks` says what a commit does and
serves all that follows: `TypeCorrect`, `LedgerCorrect`, `ChangesBooked`,
`CreditsImplementAccount`. `BalanceCorrect` needs the assumption that `add_credits` is not
called with a refund, which adds to `balance` and to neither total; no caller does.

`AuditRunProofs`. `AuditsUseCredits` is a refinement: every step of a request is a step of
`Credits` or leaves it alone, so `CreditInv` holds under `AuditSpec` at no further cost.
`AuditInv` ties the place of a handler to the state of its transaction and its row
(`PlaceInv`), bounds what the row states (`StatedInv`), and matches ledger entries with
completed audits one to one (`ChargeInv`). From it: `AuditTypeCorrect`, `ChargesCorrect`, and
with the phase of each place (`PhaseInv`) `NoLockHeld` and `OutcomesFinal`. `UsageCorrect`
counts: the commit of a charged audit adds one element to the completed audits of its owner
(`CommitAuditCounts`), and no other step touches either side (`StepKeepsUsage`).

`CeleryQueueProofs` has what the counting below needs of the broker: `Copies` is finite, a
published message adds one copy to those of its job, a delivered one takes one away, and an empty
queue has none (`CopyAdded`, `CopyTaken`, `NothingWaits`). A sum over the queue is a cardinality
that way, and one step changes it by one, so no induction over the queue is needed.

`GTmetrixProofs`, `AnalysisProofs`. `Base` adds to the types where messages may be (`Sent`) and
what a place says of a worker (`WorkerInv`), and for GTmetrix which tests a row names
(`ResultInv`). While no process died, a report has one attempt, waiting or at work
(`OneAtATime`), and none that may still write once it is completed (`Quiet`, in `StageInv`); each
step is classified by what it moves (`Moves`), so that this costs one case per class. From it
`GTmetrixImplementsLife`, `AnalysisImplementsLife` and `CompletedResultCorrect`. Once a process
has died `ReportLife` lets a completed report fail, and these parts are not needed.

`OneChainCorrect` is inductive nearly as it stands (`ChainInv` adds that the sets are finite).
`CreditsCorrect` is not: the number of tests says nothing of the attempts that may still start
one. `CostInv` bounds the tests together with those `Chances`: while the row names no test, every
copy waiting and every worker whose instance knows of none; afterwards only the workers already
past the check (`StartingOn`). The save of the id takes the first kind away at once, and that the
second are among the first (`StartersHaveNoId`) is where `IdsKnown` is used.

`HistoryCorrect`. Upwards, the history plus whoever has yet to count (`Counting`) plus the
attempts that may still complete a report (copies waiting, `Attempting`) stay within the reports
measured, plus the ones expected to be for the first time, plus the processes that died
(`AtMost`): an attempt on a report that is measured already is paid for by a crash. Downwards, the
history is at least the number of completed reports whose worker is past its count (`AtLeast`),
and once no message is left every report is. Both need that one worker at a time is between its
write of the history row and its commit (`WriterInv`). For `StaleCorrect` the list in a reader's
hands or in the cache is the history as it is, unless it is in `met`.

`SiteJobsProofs`. One base for all kinds (`TaskMove` says what a step of any task does to queue and
workers, `OneAtATime` as above), then one invariant per kind: `CountsOK` for crawls, `FilesCounted`
and `FileOK` for files (the files of a job are at most its deliveries, so a free name exists; no
purge has listed a job that is not expired), `ScanInv` with `Quiet` for scans. From them
`SiteTypesCorrect`, `CrawlsCorrect`, `ResultsCorrect`, `FilesCorrect`, `ScansImplement`,
`CombinedCorrect`.

`AccountsProofs`. A row lock has one holder, what the holder checked still holds (`LocksOK`), and
the name a request is going to write is in no row (`FreshOK`); so a reset that committed replaced
a password that is in no row any more, and no token made from it is accepted again.
`OneTimeTokenCorrect`, `NothingReturnsCorrect`, `RegistrationsExplainedCorrect`,
`AccountsTypeCorrect`.

`SiteReportProofs`. The behaviour is simple, and so is its invariant: a tool that has ended holds
what it answers on this site, or has failed, and the report is that of the results (`ReportInv`).
The proofs are about what the answers are, on every site there is for any value of the constants,
not on the ones enumerated. The code computes them with loops and recursion. The library's
induction theorems take an operator and cannot be used, so the module begins with two principles
whose parameter is a set or a function: a set of naturals that holds 0 and with each number the
next holds all of them (`AllNaturals`), and a function whose values are given by those of lower
rank exists (`RecursiveDefinition`). Each recursive function of the model is shown to have a
solution, so that it is one, and is compared with its reference by induction on the rank.

- `ScoresCorrect`: a sum of numbers in range is in range and so is its rounded mean; the SSL score
  is a function of four facts about a scan (`ScoreByHarm`), and one more finding takes no other
  away (`DefectsAddUp`), hence also `WorseScansScoreLower` over all scans.
- `AdviceCorrect`: each scorer of `pdf_builder.py` beside the thresholds of `recommendations.py`
  (`LowSslScoreIsAdvised` for SSL); the texts of each section beside the dictionaries; the required
  properties of a rich result beside the ones whose absence is an issue, for every supported type.
- `FindingsCorrect`: `ExtractLinks` keeps a list without duplicates of the destinations seen so
  far; `CheckSingleLink` from the request number `hop` on gives the verdict of the answers from
  there (`VerdictsAreRight`, for any network and any `MAX_REDIRECTS`); `FlattenJsonLd`
  (`JsonLdIsFlattened`: lists of different objects are joined to a list of them all,
  `FlattenLists`, so nothing is in it twice) and the extractors of microdata and RDFa
  (`MarkupIsExtractedAsNamed`) for trees of any size. For the last: of the properties of a scope,
  exactly one leads down to a given element (`IsNext`), since two items around it are one inside
  the other; so the sum over them has one term that is not zero, and it is the number of its names
  times what is recorded below it.

Only model-checked is what needs fairness and ENABLED: `EveryCallAnswered`, `AuditSettles`,
`AlwaysStops` (twice), `JobsSettle`, `PurgeCatchesUp`, `RegisteredIsAnswered`. Every invariant
that a passing run checks is a theorem.

## 5. Abstractions

Messages, URLs, issue lists and texts are not represented; what a property needs of them is a flag
(`measured`, `"ungraded"`) or a member of a small set (how a URL answers, how a value is typed).
Scores are numbers where they are computed (`ReportScore`) and absent elsewhere. A file of a job is
a number, the plain name or one the storage invents; a page may change between two deliveries, so
each chooses its number of links or items anew. `SiteReport` varies one subject per behaviour and
leaves the others plain: the tools share no data, and a mix of results is a subject of its own.
`refresh_from_db`, logging and timestamps are left out. Throttling, pagination, permissions and
serializer validation are framework glue in front of the operations; a serializer's refusal is
`Rejected` or a guard. `CELERY_TASK_ALWAYS_EAGER` (tasks inline, for local use) is not modelled,
nor is the hard time limit of 30 minutes, which the soft limit and the clients' own timeouts
precede.

## 6. Not modelled

- `users`: log in and log out write the tables of the JWT library only (outstanding and blacklisted
  tokens); hence the component is *partly* modelled.
- `full_report` presentation: layout, colours other than the rating's, fonts, and the
  wording of a text (that there is one is modelled); *partly*.
- `linkchecker`: what robots.txt says and how a page is rendered is whether the crawl goes on or
  fails; the thread pool's futures are independent, so only their completion is a step.
- `analysis`, `gtmetrix`, `audits`: parsing of the services' answers into columns; the selectors
  beyond the cached history.
- `common`, `config`, `api_v1`, docs, templates: no behaviour beyond `is_deleted`, which the modules
  above have, and the Celery settings, which `CeleryQueue` and `FullReportTask` have.

What would come next: a mixture of kinds over one pool with a bound on its queue, so that
starvation of one kind by another could be asked about; the fetch and rendering layer of the
validator with its own time-outs.
