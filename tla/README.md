# A verification project for ddgl

ddgl is a terminal client for GitLab CI: it browses pipelines, streams logs, retries jobs, and
blocks on a pipeline until it finishes (`ddgl attach`). This directory holds TLA+ models of the
parts where interleavings, failures and retries decide what happens, the TLC configurations that
check them on small instances, and TLAPS proofs of the results that matter most. Paths below are
relative to `src/ddgl/` of the repository.

Run `tlc -config MCAttachRetry.cfg MCAttach` (or another pair of the table *Runs*) to check an
instance, and `tlapm AttachProofs.tla` to check proofs.

## 1. Inventory

ddgl is one asyncio process per invocation. It has no daemon and no shared memory between
invocations; what two of them share is GitLab and the cache directory.

| Component | Code | State | Operations | Hard behaviours |
|---|---|---|---|---|
| Attach engine | `core/attach.py`, `model/attach.py` | the previous and the current tick, the retry ledger, the failure count, the last event | resolve or wait, tick, retry policy, follow, poll, timeout | GitLab moves between any two awaits; a deadline cancels any of them; the process is killed and run again |
| Batch retry | `core/retry.py`, `core/_concurrency.py` | one task per job, a semaphore | `retry_jobs`, `tally_attempts`, `gather_bounded` | partial failure, answers lost after GitLab acted, cancelled siblings |
| HTTP request loop | `client.py` `_request` | attempt counter | GET and POST with different retry knobs | lost, late and contradictory answers |
| Pagination and API cache | `client.py` `_get_page`, `_paginate`, `_get_all`, `model/page.py` | cached page bodies with a TTL | list all, list one page | concurrent pages of a changing list, limits, pages cached without their pagination |
| Resolution and object cache | `core/pipeline.py`, `core/jobs.py` | SUCCESS pipelines and terminal jobs, for a week | get one, get many, find the latest, walk commits | "finished" objects that are not final |
| Logs | `core/logs.py`, `cli/logs.py` | cached complete logs, one task per job of `ddgl logs` | get, stream; list and fetch | whether a log is complete; tasks started while pages are still read |
| Cache backends | `cache/` | SQLite tables, text files with sidecars, JSON files | get, set, collect garbage, migrate | two processes, a crash between two writes |
| TUI application and job detail | `tui/app.py`, `tui/screens/job_detail.py` | selected pipeline, timer, workers in flight; the job shown, its log, its confirmation | load, refresh, auto-refresh, retry, open a job | late answers of workers, workers that cancel each other |
| TUI widgets | `tui/widgets/` | jobs, order, groups, cursor; typed tokens, chosen statuses | sort, fold, search, filter, replace the list | a table rebuilt under the cursor, a filter applied 80 ms later, a set object shared by three widgets |
| Retry command | `cli/retry.py` | selection | select, confirm, retry, exit code | what is retried against what was confirmed |
| Configuration, git and shell | `config/loader.py`, `git.py`, `shell.py` | cached token | resolve the settings, the branch, the remotes | precedence, stale token |
| Other commands, formatting, rendering | `cli/`, `format/`, `render/` | none of their own | one call of core and its presentation | `--detail` visibility; the rest is layout |

**How they interact.** Commands and the TUI call `core/`; `core/` calls `client.py` and the object
cache; `client.py` calls GitLab and the API cache. The attach engine yields events; the renderer
consumes them in the same task, so nothing is awaited between two events of one tick. The TUI runs
`core/` calls in Textual workers that update the same widgets.

**What makes each component correct.**

- *Attach*: a run never has more retries accepted than its budgets allow, however it is stopped; no
  record is retried twice; the verdict is GitLab's, of the pipeline watched, and not of a moment
  the run itself has just put an end to; the event stream adds up to the engine's state; every run ends.
- *Batch retry*: one job's failure is that job's; outcomes say what GitLab did, as far as it can be known.
- *Request loop*: a POST takes effect at most once; a GET is given up only after all attempts.
- *Pagination*: a list is complete, or the call fails.
- *Caches*: a hit is what was stored, stored objects are final, a crash leaves a readable cache.
- *TUI*: what is shown belongs to what is selected; a refresh cannot get lost; a retry is reported;
  the table is the list under the filter, and the cursor means the same job after every change.
- *Retry and logs commands*: nothing is written that was not asked for and confirmed, the exit code
  is the truth, the pipeline found is the nearest one, no match is lost, an ended job's log is whole.
- *Configuration*: a token of the environment is for the command it was set for.

## 2. What is modelled

### GitLab.tla (external)

The server, from how ddgl uses it. `recs` is every job record ever made (the index is the id),
`pstat` the status reported for each pipeline, `green` the pipelines that have once been success.
Retrying mints a new record of the same name. `mode` fixes how GitLab behaves:

| mode | others retry jobs | reads lag behind accepted retries and statuses | an error may answer a served request |
|---|---|---|---|
| `calm` | no | no | no |
| `prompt` | yes | no | no |
| `lagging` | yes | yes | no |
| `lossy` | yes | yes | yes |

The modes exist because the code's comments reason about each of them (`core/attach.py:140-149,
497-500`, `client.py:141-152`, `DEVELOPER.md:426-429`), and properties say in which they hold.

### RetryBatch.tla

`core/retry.py` `retry_jobs` over `gather_bounded`: `batch` holds the phase of each job's task.
Sending, GitLab's decision and the arrival of the answer are three steps, so a cancelled client
does not un-send a POST. At most `MaxInFlight` are on the wire.

### Attach.tla, AttachProperties.tla, MCAttach.tla

The engine of `core/attach.py`. `pc` is the await at which the coroutine is suspended:

| `pc` | await | actions |
|---|---|---|
| `resolve`, `wait` | `_resolve_or_wait` | ResolveOk, ResolveNone, WaitOver, StartError |
| `jobs` | first `get_all_jobs` | ReadFirstPage, LoadJobs, StartError |
| `tick` | none: events and the candidates | Tick |
| `tally` | `tally_attempts` | ReadFirstPage, TallyOk, TallyError |
| `post`, `dying` | `retry_jobs`; its exception on its way out | BatchStep, BatchDone, BatchBroken, Teardown |
| `sleep` | `asyncio.sleep(interval)` | SleepOver |
| `follow`, `followjobs` | `_check_for_new_pipeline` | FollowList, ReadFirstPage, FollowSwitch, FollowError, UncaughtError |
| `poll`, `polljobs` | `_get_pipeline_state` | PollPipeline, ReadFirstPage, PollJobs, PollError, UncaughtError |
| any of the above but `tick`, `dying` | | Timeout (`asyncio.timeout` of `attach()`) |
| `done` | | Ended; Reinvoke runs the command again, and also stands for a kill at any point |

`prev` and `curr` are the two ticks, `ledger` is `_RetryLedger`, `failures` is
`consecutive_failures`, `last` is `last_event` as far as `ResultEvent.timed_out` uses it, `result`
the final event or the error. `shown` is what a reader of the stream knows of the pipeline and
`badReads` counts failed reads since the last tick: both are observers, no action reads them. A
listing takes one read or two (`page` is the first of several), and rows shift between the two
when a retry adds a record.

Event payloads, elapsed times and the writes to the object cache are left out. What a cache leaves
behind is in `StatusFound`: with `--pipeline`, a pipeline that was once SUCCESS may be answered from
the object cache, `fresh` or not.

### HttpRequest.tla, MCHttpRequest.tla

One call of `client.py` `_request`. `wire[a]` and `answer[a]` are what became of attempt `a`: a
request may be served, rejected or lost, a gateway may answer for it before it is served, and any
of that may still happen after the caller has gone on. GET and POST differ in `RetryStatuses` and
`RetryTransport`, the two knobs of `_get_response` and `_post_response`. The specification is
`RequestSpec`; its names differ from the other modules' because `ClientProofs` extends it together with
PagedFetch.

### PipelineViewer.tla

The main view of the TUI, `tui/app.py`. A Textual handler runs to its end, so an action is one
handler, or what a worker does after its last await. `load`, `manual` and `posting` are the workers
in flight (`_load_jobs`, `_manual_refresh`, `_retry_job`), `timer` and `awaited` the interval timer
and the request its callback awaits; `pipeline`, `jobs`, `loading`, `listed` and `subtitle` are what
the user sees; `dialog` is the confirmation of a retry, behind which workers go on. `chosen`,
`failed`, `asked` and `told` are observers.

| Code | Actions |
|---|---|
| `load_pipeline` | an operator: part of Select, Refreshed and AutoRefreshed |
| `_load_jobs` | LoadDone, LoadFails |
| `_do_auto_refresh` | TimerFires, AutoRefreshed, AutoRefreshFails |
| `action_refresh`, `on_job_detail_screen_job_retried`, `_manual_refresh` | the first two by name, Refreshed, RefreshFails |
| `on_pipeline_list_panel_pipeline_selected` | Select |
| `action_retry_job`, `_on_dismiss`, `_retry_job` | action_retry_job, Dismissed, RetryAnswered |

Two rules of Textual matter: `@work(exclusive=True)` cancels every worker of the same node and
group, and `_manual_refresh` and `_retry_job` name no group, so they are in the one of `_load_jobs`;
`Timer.stop()` cancels the timer's task and with it the callback it is awaiting. A pipeline's status
is whatever GitLab answers, so what the caches answer is covered.

### JobDetail.tla, Tui.tla

The detail screen of a job and its composition with the main view. `enriching`, `fetching` and
`posting_` are the screen's three kinds of workers (`_enrich_job`, `_fetch_log`, `_retry_job`), none
of which is exclusive; `job`, `title`, `pane`, `waiting` and `named` are what the user sees, `named`
being the job the confirmation is about. `overtaken` observes that the job changed under a worker or
the confirmation: from then on the screen may mix two jobs (section 5). `Tui` interleaves both:
`ViewWorks` is the view's workers going on below the screen, `ViewKeys` the keys that reach it, and
`JobSelected` and `JobRetried` the messages between the two. `ViewerGoesOn` is the refinement: whatever
the screen does, the view behind it behaves as `PipelineViewer` alone.

### JobList.tla, MCJobList.tla

The job table (`tui/widgets/job_list.py`), the filter button with its modal (`filter_buttons.py`) and
the handlers of `tui/app.py` between them. `rows` is computed from `jobs`, the filter, the sort order
and the expanded groups as `_recompute` does it (`Places` are the rows before they are put in order,
`InOrder` is the sort), with the cursor restored by key. `pending` is the
80 ms timer of `watch_filter_spec`. `sharing` says which of the modal and the application hold the
very set object of the button: `update_options` narrows it in place. The modal offers the statuses that
were there when it was opened (`modal.options`), whatever has been loaded since. Jobs are records of the fields
the table sorts, groups and filters by; a group is keyed by stage and base name, as in the code.

### PagedFetch.tla

`client.py`'s `_get_page` over the API cache and its three readers, `_paginate`, the concurrent
`_get_all` and the single-page methods. A page holds one row, and the listing may change between any
two reads. `waiting` and `inFlight` are the `_fetch` tasks before and after the semaphore. A cached
page is what it is in the code: its rows, without pagination.

### CacheStore.tla, JsonBackend.tla, SqliteBackends.tla, TextFileBackend.tla, Cache.tla

One key of one namespace in a cache directory that several processes share. `CacheStore` holds the
state (what is on disk, what each process has in memory, the clock) and the observers; a module per
backend turns each SQL statement or transaction and each file operation into a step; `Cache` is
`cache/cache.py` with `proxy.py`: it opens, uses and closes a backend, and kills processes between
any two steps. `content` is the file or the row, `Torn` a file truncated and not yet written;
`sidecar` the `.expires` file; `table` the version of the schema the table really has and `registry`
the one `_schema_versions` names. Python's `sqlite3` begins a transaction before an INSERT or a
DELETE, and before nothing else. So DROP and CREATE TABLE commit by themselves; a read of an object asks
whether there is a table (StructGet) and then selects from it (Select), and opening the store of objects
looks for tables (StructOpen) and then deletes from them (Sweep): another process may drop the table in
between. A log is read in three operations, sidecar, `exists()`, `read_text()`, and what a killed write
has left may be readable or end inside a character (ReadContent). `interrupted` observes a kill halfway
through a set; a kill in a garbage collection is in the model and not in the observer.

### RetryCommand.tla, MCRetryCommand.tla

`cli/retry.py` with the selections of `core/retry.py`, the getters of `core/jobs.py` over the object
cache, the API cache and GitLab, the confirmation, `RetryBatch` and the bulk retry of a pipeline. The
command starts at any moment of a pipeline, beside other commands that fill the caches. `skipped` is
in `JOB_TERMINAL` and can still run: `cache_terminal_jobs` may store such a job.

| Code | Actions |
|---|---|
| `retry_cmd` | UsageError |
| `select_in_pipeline`, `list_jobs` over `_paginate` | ReadPage, once for each page: GitLab goes on between two of them, so a row may be read on two pages or on none |
| `select_by_id`, `get_jobs` | SelectByIds, GetJob and JobAnswers for each position of the command line, JobsRead; an id may be given twice |
| anything raised while selecting | SelectionFails |
| `click.confirm` | Confirm, Decline |
| `_retry_selected`, `retry_jobs` | BatchStep, BatchOver |
| `_retry_bulk` | StartBulk, ServeBulk (GitLab), BulkAnswered: accepted; refused; accepted, and hidden by an error status |
| what escapes both to `_retry` | TransportBreaks: no answer; ConfigBreaks: the answer is 404 "Project Not Found" (`client.py:288-295`). Both exit with 2 |

`shifted` observes that a page was read of another listing than the first one, `usedCache` that a cache
answered, `raised` what escaped.

### LoadConfig.tla, ResolvePipeline.tla, LogsCommand.tla, MCLogsCommand.tla

`ddgl logs` from its environment to the logs. `LoadConfig` picks the token and the project
(`config/loader.py`), `ResolvePipeline` finds a pipeline (`core/pipeline.py` with `git.py`): an id, a
ref by name, then its commits one by one, while GitLab goes on building pipelines. `LogsCommand` lists
the jobs page by page, starts a task for each match at once, and takes the logs from the cache or
from GitLab. The command is run `MaxRuns` times with the same options, and what the first run cached
meets the second. Three reductions keep it small: jobs of a pipeline no command looks at do not
move, pipelines are built only while one is being looked for, and caches expire between runs only.
GitLab answering `ref=<sha>` with the pipelines of that commit is taken from `client.py:526`.

### Abstract specifications

- **RunContract.tla**: what one attach run promises: it watches one pipeline, moves only to a newer
  one, spends at most its budget, ends once, and a verdict reports the pipeline watched and the
  retries spent. `Attach` implements it (`ImplementsContract`), with `spent` the records GitLab
  really made for the run.
- **RemoteCall.tla**: what a caller may believe of a POST: served at most once; "done" and "refused"
  are the truth; after "unknown" it may still be served. `HttpRequest` implements it
  (`ImplementsRemoteCall`), and `RetryBatch` is built on it: it is why a batch's POST is one Accept
  or one Refuse.

## 3. Properties and runs

| Run | Module, configuration | Checks | Distinct states |
|---|---|---|---|
| attach_retry | MCAttach, MCAttachRetry.cfg | `BudgetHolds`, `OneRetryPerRecord`, `AttemptsHold`, `VerdictAfterRetries`, `NoFailureLeftBehind`, `StreamMatchesTick`, `GivesUpOnlyInARow`, `ImplementsContract` | 1.9 M |
| attach_follow | MCAttach, MCAttachFollow.cfg | `RunInvariant`, `AttemptsHoldAcrossRuns`, `StreamMatchesTick` | 2.7 M |
| attach_live | MCAttach, MCAttachLive.cfg | `RunEnds` | 94 k |
| http_request | MCHttpRequest, MCHttpRequest.cfg | `PostAtMostOnce`, `GetUsesEveryAttempt`, `ImplementsRemoteCall`, `RequestEnds` | 14 k |
| tui | Tui, MCTui.cfg | `TuiTypeOK`, `ShownIsSelected`, `AutoRefreshGoesOn`, `OneJobOnScreen`, `WaitingIsForALog`, `RefreshingEnds`, `ViewerGoesOn` | 0.8 M |
| job_list | MCJobList, MCJobList.cfg | `TypeOK`, `RowsAreTheJobs`, `FilterIsApplied`, `CursorStaysOnItsRow` | 0.4 M |
| paged_fetch | PagedFetch, MCPagedFetch.cfg | `ListingIsWhole`, `LimitHolds` | 3.8 M |
| caches | MCCache, MCCache.cfg | `TypeOK`, `HitsKeepPromise`, `LogsHaveExpiry`, `OnlyKnownFailures` | 3.7 M |
| retry_command | MCRetryCommand, MCRetryCommand.cfg | `WritesAreWanted`, `ExitTellsTheTruth`, `NoFailureMissed` | 8.3 M |
| logs_command | MCLogsCommand, MCLogsCommand.cfg | `NearestPipeline`, `EndedLogsAreWhole`, `EveryMatchIsFetched`, `EnvTokenIsNotKept` | 5.2 M |
| attach_bad_job | MCAttach, MCBadJob.cfg | `BadJobSparesTheRest` is violated | |
| viewer_retry_lost | PipelineViewer, MCRetryAnnounced.cfg | `RetryIsAnnounced` is violated | |

The comment above each property states it in words; the premises worth knowing:

- `BudgetHolds` counts the records GitLab made, not the engine's ledger, and holds at every moment,
  also after a timeout with POSTs still on the wire. Its premise `Truthful` is needed: when a 502
  hides an accepted POST, the ledger does not count it and the run may exceed `--retry-total`.
- `OneRetryPerRecord` and `AttemptsHold` need a job list of one page (`OnePage`): when a retry shifts
  a row between the reads of two pages, the row is listed twice and the job is posted twice. With more
  jobs than a page holds (100) neither is promised.
- `AttemptsHold` further needs that all records of the pipeline, retried ones included, fit on one
  page, since the tally reads them all; see *Disagreements*. It holds although GitLab may list an
  accepted retry late: the ledger keeps the run from retrying the same record again, so each retry of
  a name is of another record that is listed, and those are what the tally counts.
- `AttemptsHoldAcrossRuns` needs a `Prompt` GitLab: a second run's empty ledger cannot know of a
  retry that GitLab does not list yet.
- `VerdictAfterRetries` needs `Prompt`, see *Disagreements*, and `OnePage`: a job posted twice has two
  retries, and the older one may run on while the pipeline is finished.
- `NoFailureLeftBehind` is stated in `calm`, where nobody creates jobs after the last read.
- `GivesUpOnlyInARow` is stated without `--follow`: a switch does not reset the count.
- `AutoRefreshGoesOn` has a premise, that the last load has not failed: a failed load starts no timer.
- `OneJobOnScreen` is stated while no answer has overtaken another one (`overtaken`).
- `ListingIsWhole` excludes listings that changed under the reader, and names what a cached page does.
- `HitsKeepPromise` and `LogsHaveExpiry` are stated for the text files while no two operations have
  overlapped and no set was cut off: they lock nothing and write two files. A kill in a garbage collection
  is not excluded, and must do no harm. SQLite and JSON need no premise. `OnlyKnownFailures` lists what
  it takes to make an operation raise: overlapping operations, two versions at a time, or a set cut off
  between a table and its row in the registry, or inside a log.
- `WritesAreWanted` promises one retry of each job that was *selected once* (`SelectedOnce`). An id given
  twice, and a row that is read on two pages, is selected twice and posted twice; what is posted was asked
  for and confirmed in any case.
- `ExitTellsTheTruth` says of exit code 1 that nothing was retried for the jobs reported, unless an error
  status may hide an accepted POST (`Truthful`) or a job was selected twice; of exit code 2 with jobs
  minted, that a POST got no answer or that GitLab answered another job of the batch with "Project Not
  Found".
- `NoFailureMissed` and `NearestPipeline` are stated for a command that used no cached answer. With
  `--failed`, GitLab is asked for the failed jobs only: a job that leaves that listing moves the later ones
  up past the reader, so the property needs the listing to be the same for each page (`shifted`). Without
  `--failed` it holds however rows move, since retries only move rows to later pages.
- `EndedLogsAreWhole` excludes jobs that print one of the markers themselves (`Chatty`).

**Bounds.**

- *attach_retry, attach_follow, attach_bad_job.* Two jobs are the least with which a batch can be
  partly accepted, a budget can be reached within a batch, and one job can be excluded while another is
  retried. Four records give each job a retry, or one job two. `MaxFailures = 2` (5 in the code) is the
  least with which a success can come between failures. `PageSize` is as large as the tally needs where
  retries are counted (4 and 3), so that the premises of the attempts properties are met while retries
  happen; attach_follow also has listings of two pages, those of four records. `MaxInFlight` is 1 or
  2: waiting behind a POST, and two on the wire. attach_follow has two pipelines of one job and two
  invocations: a switch, a restart and a retry that survives either. The option sets hold one policy
  for each behaviour that differs at this size: budgets of 0, 1 and 2, with and without a deadline,
  exclusion, heartbeat, `--no-wait`, `--pipeline`, `--follow`. Job names are only ever compared for
  equality and order. `success` and `failed` are the endings of jobs (`canceled` adds a verdict, no
  transition).
- *attach_live.* `PageSize = 1`: every listing has several pages.
- *http_request.* Three attempts are the code's own number (`HTTP_RETRY_ATTEMPTS`).
- *tui.* Two pipelines tell the selected one from another; one refresh asked for by hand and one retry
  in the view, two posts on the detail screen (the second retries the first's new job), three jobs for it.
  Auto-refreshes are not bounded.
- *job_list.* Four lists: a job and a matrix of two, the same after a retry, one member of the matrix
  alone, none. Two search texts and two sets of tokens, besides the two statuses of the lists.
- *paged_fetch.* `MaxPages = 4` (50 in the code) with listings of up to five rows of one per page, so
  that the limit is met and passed; two concurrent reads (10 in the code), two calls, of which the
  second finds the first's pages in the cache, and one change of the listing in each call.
- *caches.* Two processes, one key, `Ttl = 1` and two ticks of the clock: an entry is valid, at its last
  tick, and expired. The processes are interchangeable, so the run uses symmetry; it checks no
  liveness.
- *retry_command.* Nine command lines, each of which takes another path: bulk, filters and ids, with and
  without confirmation, terminal, `--force` and allowed failures; two ids, and one id twice. Two jobs that
  start in any status, one of them allowed to fail; a running job ends as failed, which is the end the
  selections look for. `PageSize = 1`, so that a listing has several pages, and five records, so that it
  changes under the reader and the retries still have room. `MaxInFlight = 1`: a task waits behind a POST.
- *logs_command.* Two runs with the same options, two commits, two pipelines of two jobs, four
  environments and nine questions: no ref, a branch, a remote's branch, a sha, a detached head, no
  repository, ids, failed jobs only. `PageSize = 1`, so that tasks start while pages are read.

**Deadlock** is checked in every run but retry_command and logs_command, whose specifications end with
the command. Elsewhere `Ended` and `Finished` are the only places to stop.

**Fairness** (`LiveSpec`, `RequestSpec`, `PipelineViewer!Spec`, `TuiSpec`).

- The steps that await nothing but the event loop happen: weak fairness.
- With `--timeout` nothing is assumed of GitLab or the network, only that the timer fires. The
  coroutine passes from await to await and `asyncio.timeout` cancels it at one of them once the
  deadline has passed; as the model has no clock, this is strong fairness of `Timeout`.
- Without `--timeout`, every request ends, because httpx bounds it (`timeout=30.0`, `client.py:104`)
  and `_request` bounds their number, which `RequestEnds` shows. So the engine's own steps are weakly
  fair. GitLab is assumed to get on: a pipeline appears, jobs finish, statuses and accepted retries
  show up in the end. A pipeline that waits for a manual job (`manual` is not in
  `PIPELINE_FINISHED`) does not meet that assumption, and attach polls it until somebody acts.
- In HttpRequest only the client's own steps are fair; nothing is assumed of network and server.
- In the TUI, only the end of a load is fair: its requests end, see above, unless another
  load takes its place, so the assumption also says that the user does not replace every load
  for ever. No key press is assumed, and no end of a refresh.

## 4. What is proved

Proofs hold for all values of the constants that satisfy the modules' ASSUMEs: any job list, page
size, option set, number of pipelines, records, failures, runs and processes, any set of status codes.

**GitLabProofs.tla** has the lemmas on the server that Attach, the retry command and the logs command
share: a step of GitLab keeps its types and its records (`RecordsStay`), a final job stays final
(`FinalStays`), a listing has its rows once (`SetToSeqLists`).

**AttachProofs.tla**: types and budget

- `RunInvariantHolds`: `Spec => []RunInvariant`, the inductive invariant
  `TypeOK /\ ControlOK /\ RowsOK /\ BudgetOK`.
- `TypeCorrect`: `Spec => []TypeOK`. The bound on `failures` needs `ControlOK`: before the end there
  is always one failure to spare.
- `BudgetKept`: `Spec => []BudgetHolds`. The property counts records on the server, the code counts
  answers; neither is inductive by itself. `BudgetOK` relates them through the requests in
  between: accepted records = ledger + accepted POSTs of the batch, and ledger + *whole* batch fits
  into the budget. `RowsOK` makes sure that a POST names a record GitLab has, so that minting
  increases the count by exactly one, and `ControlOK` that no new batch starts over an old one. The
  argument is by cases on the actions, one lemma per phase of the tick.

*The contract.* Four invariants are added to RunInvariant, each with a lemma for the steps that touch
it: `StreamOK` (what a reader of the stream knows, at each await), `FailuresOK` (failures against
the bad reads observed), `ReportOK` (a result is about the pipeline watched), `SpentOK` (the records
made for a run are finite in number and never fewer).

- `StreamTold`: `Spec => []StreamMatchesTick`; `GivesUpInARow`: `Spec => []GivesUpOnlyInARow`.
- `ContractImplemented`: `Spec => ImplementsContract`, by a step simulation: a switch is `Move`, the
  ends are `Conclude` and `Abort`, a restart is `Restart`, an accepted POST spends, the rest stutters.

*What a run may do to one record and to one name.* `RetryInvariant` is
RunInvariant with `ListingsOK` (rows belong to the pipeline asked for, and occur once where a listing
is one page), `LedgerOK` (each retry made for the run is of a posted record or of the batch's),
`LineageOK` (a retry has the name and pipeline of its original, which GitLab shows), `AttemptsOK` and
`AcrossOK` (there is room for each POST of the batch not yet decided).

- `RecordRetriedOnce`: `Spec => []OneRetryPerRecord`, from `LedgerOK`.
- `AttemptsKept`: `Spec => []AttemptsHold`. The tally cannot see the retries GitLab does not list yet,
  so the argument counts originals instead: by `OneRetryPerRecord` the retries of a name are of as many
  records, all of them listed, and the candidate is one more, which has not been retried. So what the
  tally counts is more than the retries there are (`TallyCounts`, `RoomForRun`).
- `AttemptsKeptAcrossRuns`: `Spec => []AttemptsHoldAcrossRuns`. Without a ledger, the first attempt,
  which is nobody's retry, is the one more (`RoomForAll`).

*The verdict.* `RunningOK` and `VerdictOK` are added to RetryInvariant (`VerdictInvariantHolds`).

- `VerdictWaits`: `Spec => []VerdictAfterRetries`. A verdict rests on a pipeline status read earlier, so
  the invariant says what each read implied. GitLab calls a pipeline finished when no job of its *list*
  runs (`ReportedOK`), so a running retry has to be in that list (`RunningLive`), that is, no second
  retry of its name may hide it. None is posted: a name is not selected while its retry runs
  (`NotSelected`). Where the tally is one page it shows the retry, which is then the newest; where it is
  read in pages, the first page either has the retry, or only newer records, and then the rest that is
  read cannot have an older attempt without having the retry too (`TallyOK`). `FinishedReads` follows
  the status from the read to the result; the batch of the tick itself is the exception that
  `retried_now` (`core/attach.py:501`) makes good.

*The failures.* `CalmOK` is added to RetryInvariant (`CalmInvariantHolds`). It says something only of
the mode `calm`, in which nobody but ddgl retries jobs, and needs no premise on the page size.

- `FailuresTried`: `Spec => []NoFailureLeftBehind`. A job of a finished pipeline can change only through
  a retry, so what the engine has read of one stays true until a POST of its batch is accepted: each page
  (`PageOK`), therefore the whole listing whatever the number of pages (`ListingExact`), therefore the
  tick (`TickTells`) and the tally (`TallyIsExact`). A success from the object cache is no exception,
  because a success has nothing to retry (`GreenOK`). Hence every untried failure is a candidate and
  eligible (`UntriedIsEligible`), and what the selection leaves out is what the budget has no room for
  (`SelectionIsAll`). That a batch of rejections counts as tried is `PostedOK`: the ledger remembers as
  many records as it counts, and those of the batch besides.

**ClientProofs.tla**: the request loop

- `HttpInvariant`, `HttpTypeCorrect`: the invariant says that only the current attempt of a POST
  can have been anything but rejected.
- `PostServedOnce`: `RequestSpec => []PostAtMostOnce`, for any number of attempts.
- `GetGivesUpLast`: `RequestSpec => []GetUsesEveryAttempt`: attempts are sent one after the other.
- `PostImplementsCall`: `RequestSpec => ImplementsRemoteCall`, the refinement, by a step simulation.

and the readers of listings, for every `MaxPages`, number of rows, calls and concurrent reads

- `FetchInvariant`, `FetchTypeCorrect`: `FetchInv` is `TypeOK`, `TasksOK` (tasks exist in the last stage of
  `_get_all` only), `ProgressOK` (pages are read in order, none from the cache but the last; the pages
  read and those with a task are the first so many) and `SteadyOK`.
- `ListingWhole`: `Spec => []ListingIsWhole`, and `LimitsHold`: `Spec => []LimitHolds`. Neither is inductive:
  that a listing is whole at its end rests on what each page had when it was read and on how far the
  reader had to go. `SteadyOK` says both, as long as the listing has not changed since the call began.

**TuiProofs.tla** (PipelineViewer, JobDetail and Tui)

- `ViewerTypeCorrect`, `SelectionIsShown`, `TimerIsKept`: `ShownIsSelected` is not inductive, since a
  worker may name another pipeline than the one shown; `WorkIsAboutChosen` says that none of those
  still alive does, because `load_pipeline` cancels them all. The timer properties need it and
  each other: a load that ends finds no timer (`NoTimerDuringLoad`), and starts one if the pipeline
  runs. `LoadKeeps` is the heart: every way to load a pipeline goes through it.
- `ViewerUndisturbed`: `TuiSpec => ViewerGoesOn`, from which `SelectionIsShownInTui` and
  `TimerIsKeptInTui` follow without a second proof.
- `TuiTypeCorrect`: `TuiSpec => []TuiTypeOK`, from the view's and the screen's types.
- `ScreenShowsOneJob`, `WaitingEndsWithTheLog`: the invariant `ScreenInv` says which job each worker is
  about as long as none was overtaken.

**CacheProofs.tla**, for any number of processes and any `Ttl`

- `CacheTypeCorrect`, `HitsAreKept`, `LogsExpire`: the invariant has `OneAtATime`; `TextOK` (content and
  sidecar are a pair at the steps of a read and of a garbage collection, until a set is cut off; a read
  that has passed `exists()` finds a content even then); `VersionsOK` (before versions are mixed, all
  processes are of one, and what each believes of the registry is so); and `TableOK` (who has just found a
  table still finds it; table and registry differ only while a migration is under way, or after it was
  cut off).
- `OnlyKnownFailuresOccur`: `Spec => OnlyKnownFailures`, an action property, from the same invariant: each
  step that can raise (Sweep, Select, CreateTable, Insert, ReadContent) contradicts it unless operations
  overlap, versions are mixed, or a set was cut off.

**RetryProofs.tla**, for every command line, number of jobs and tasks, and whatever the caches have

- `RetryInvariant`: `RetryInv` is `TypeOK`, `ReadOK` (a final status that was read or cached is still the
  job's), `PhaseOK` (what goes with each phase), `WayOK` (how far the selection has come: `StartOK`,
  `FetchingOK` for ids, `ListingOK` for pages), `MintsOK` (each retry GitLab has accepted is of a task or
  of the bulk POST, is of a job that was asked for, and the only one of a job selected once), `ExitOK` (what
  each exit code stands for) and `DueOK` (the jobs that had failed).
- `RetryTypeCorrect`, and `WritesWanted`: `Spec => []WritesAreWanted`. A job is selected by what was read of
  it, which may be old; but what makes it a candidate is a final status, and that is still so (`ReadOK`).
  Two tasks are of one job only when it was found twice: with the same listing for each page, no row is on
  two of them (`ListingOK`).
- `ExitTruthful`: `Spec => []ExitTellsTheTruth`, by what the tasks and the bulk POST know at the end, and
  what raised (`ExitOK`); that an error status hides no accepted POST is what `Truthful` says of `MintsOK`.
- `NoFailureIsMissed`: `Spec => []NoFailureMissed`. Until something is retried, a job that had failed at the
  start is in the list or has a successor already. While pages are read, it is found, or has a successor,
  or there are as many newer rows as the pages read had room for (`ListingOK`): retries only add rows in
  front. The last page has no room for it (`ReadPageKeeps`).

**LogsProofs.tla**, for every history, clone, job list, page size, depth of the walk and number of runs

- `LogsTypeCorrect`: `TypeOK` with what it rests on: cached answers list pipelines that exist
  (`BuildsOK`), cached rows and tasks are of records (`CachesOK`, `TasksOK`).
- `EnvTokenNotKept`: the token cache never has the environment's (`TokenInv`).
- `EndedLogsWhole`: a stored log is whole or a chatty job's (`CachesOK`), and a job that had ended stays
  ended, so that what GitLab returns of it is whole (`EndedInv`).
- `NearestIsFound`: `WalkOK` says that the queue is the rest of the commits, and that no pipeline that was
  there at the start is of the ref or of a commit already asked for. Pipelines built during the walk do
  not count against it.
- `EveryMatchFetched`: rows shift to later pages only, when a retry adds one in front. So a match that has
  no task yet has at least as many newer rows as the pages read have room for (`MatchedInv`), and the last
  page has no room for it.

**JobListProofs.tla**, for all lists of jobs of any length

- `InOrderSorts`: the rank of a member in a finite, strictly ordered set is a bijection, so `InOrder`
  lists each once, in order. `SortIsStrict` and `AboveIsStrict` are the two orders it is used with.
- `JobListInvariant`: `JobListInv` is `TypeOK`, `TableOK` (the table is what `DisplayRows` makes of the list,
  the filter, the groups and the order) and `FilterIsApplied`, which is inductive.
- `RowsOfTheJobs`: from `TableOK`, since every job shown has a place or is behind its group's
  (`PlacesCover`) and no two places have one key (`KeysDiffer`). It needs the ids of a list to differ.
- `CursorKeepsItsRow`: keys are unique, so the row that `_restore_cursor` looks for is the only one.
- `JobListTypeCorrect`, `FilterApplied`.

**Only model-checked**: liveness (`RunEnds`, `RequestEnds`, `RefreshingEnds`), which is out of the
prover's reach. Every other property of a passing run is a theorem. Where a definition could rest on
a recursive operator (sorting, flattening and filtering sequences in JobList, the records of a bulk retry
in RetryCommand), whose results cannot be proved without induction over data, it is stated with sets,
functions and `SetToSeq`.

## 5. Disagreements met

Two are checked by a run that finds the violation (`findings` in PROJECT.json):

1. **One bad job aborts the rest** (`core/retry.py:65`, run attach_bad_job). Transport errors and
   ConfigError pass through `retry_jobs`, which says that it never raises.
2. **A retry is lost on the way** (`tui/app.py:194`, run viewer_retry_lost). A selection or an
   auto-refresh cancels the worker that awaits the retry's answer; GitLab may have served it.

For those of the next table the property is stated in the module and TLC refutes it when it is added
to the configuration named.

| Property | Add it to | What the code does |
|---|---|---|
| `BudgetLeftIsUsed` | INVARIANTS of MCAttachRetry.cfg | A rejected retry wastes budget (`core/attach.py:209`). The batch is cut to the budget before the answers are known; a finished pipeline has no next tick in which to use what a rejected POST has left. |
| `VerdictAfterRetriesAlways` | INVARIANTS of MCAttachRetry.cfg | A late retry is not waited for (`core/attach.py:502`). A retry holds the verdict back for the tick that issued it only; `DEVELOPER.md:429` says such a pipeline reads as terminal "only for one more tick". |
| `StatusIsCurrent` | PROPERTIES of MCAttachRetry.cfg, with `AllowFailure = {"test"}` | `fresh` does not bypass the object cache (`core/pipeline.py:84`). `attach --pipeline N` may start, and end with exit code 0, on a SUCCESS GitLab has taken back. |
| `AttemptsHoldAlways` | INVARIANTS of MCAttachRetry.cfg, with `PageSize = 2`, `MaxRecords = 6`, `Modes = {"prompt"}`, `Options <- UnlimitedRetry` | More than `--retry-attempts` retries of a name (`README.md:260`): once the records fill more than a page, one that appears between two page reads of the tally pushes the oldest off the pages it reads (`client.py` `_get_all`). |
| `JobsAreDisplayed` | INVARIANTS of MCRetryAnnounced.cfg | Jobs stay hidden (`tui/app.py:142`). After a refresh of an empty list, the loading indicator stays and the list does not come back until another pipeline is selected. |
| `ListsAllRows` | INVARIANTS of MCPagedFetch.cfg | "scope=None fetches ALL jobs." (`core/jobs.py:91`), but a first page from the API cache ends the listing after 100 (`client.py:386`). |
| `MismatchIsAMiss` | INVARIANTS of MCCache.cfg | A schema mismatch is a miss (`struct_sqlite.py:54`) only when a class is passed; the proxy's `get` passes none, and `core/pipeline.py:87` works on whatever comes back. |
| `FilterIsTheUsers` | INVARIANTS of MCJobList.cfg | The chosen statuses are not the user's alone (`tui/app.py:156-164`): escape in the modal chooses what the button displays, and a load narrows in place a set that the button shares (`filter_buttons.py:72, 102`). |
| `UsageErrorWritesNothing` | INVARIANTS of MCRetryCommand.cfg | Exit code 2 stands for a usage, configuration or resolution error (`cli/retry.py:100-101`), but also for a POST that got no answer, and for one that was answered "Project Not Found" (ConfigError, `client.py:288-295`), with jobs already retried (`cli/retry.py:196-207`). |

Others were met while reading and have no property of their own:

*Attach*

- `_check_for_new_pipeline` "Never raises" (`core/attach.py:300`), but NotFoundError, ConfigError and
  PaginationLimitError pass through it and end the run (`UncaughtError`).
- `MAX_CONSECUTIVE_POLL_FAILURES` counts failures that are not consecutive when a `--follow` switch
  comes between them (`core/attach.py:535-536` does not reset the count).
- "a single bad tick is not fatal" (`DEVELOPER.md:417`), but an error of the tally is (`TallyError`).
- "counting the original run" (`constants.py:30`), but `_within_budget` counts retries beyond it.
- `ResultEvent.retries` is the number of retried jobs (`model/attach.py:333-335`), but
  `timed_out` leaves it 0.
- RetryEvent speaks of "failed or canceled" jobs (`model/attach.py:293`); only blocking failures
  are candidates.
- PaginationLimitError is not among the exceptions `cli/attach.py:307-313` maps to exit code 2.

*TUI*

- `sub_title` says "Auto-refreshing" after a load that failed (`tui/app.py:238-246`), when no timer
  runs and nothing starts one.
- Refreshes after a retry bypass the API cache so that they show the new job (`DEVELOPER.md:599`); an
  auto-refresh that comes back in the meantime cancels that refresh and reads through the cache.
- A late enrichment or log of the old job shows up under the new job's title (`DEVELOPER.md:612`), and the
  job that is posted may not be the one the confirmation named (`overtaken`).
- `_all_collapsed` of the log is not reset with the pane.
- The cursor jumps to the first row when its job has left the list; a listing with a row twice raises
  DuplicateKey.

*Caches, commands, configuration*

- CREATE TABLE and DROP TABLE commit by themselves: a crash after one of them leaves a registry that
  does not tell what table there is, and every later operation on it raises or recreates it (`Wedged`).
- A table that another process drops between `_table_exists` and the SELECT (`struct_sqlite.py:174-182`), or
  between the look at its columns and the DELETE of `_gc` (`sqlite_base.py:44-65`), makes the read, or the
  opening of the namespace, raise OperationalError.
- A text file may vanish between `exists()` and `read_text()`; a truncated sidecar counts as expired by the
  garbage collection and as no expiry by a read; the content of a write that was cut off is served as it is,
  or, when it ends inside a character, raises UnicodeDecodeError at every read (`text_files.py:80`).
- Logs are cached by job id only: two GitLab instances share them.
- `ddgl logs` has one semaphore per task (`core/logs.py:69`), so the bound of `_concurrency.py` on
  concurrent requests does not bind its log reads.
- `ddgl retry --job 5 --job 5` posts twice, and so does a filter under which a job is read on two pages.
- `ddgl retry --failed` over more than a page of failed jobs may exit with 0 having missed one: a job that
  another user retries leaves the listing, and the first job of the next page moves up past the reader.
- A bulk retry that GitLab has accepted and a 502 hides exits with 1 (`cli/retry.py:242-246`), "rejected".
- In a detached HEAD, the walk over commits falls back to `origin/HEAD`.
- A cached token of `token_command` wins for an hour over a `token_file` configured since, although
  `load_config` ranks the file first.

## 6. Plan

Done: GitLab, RetryBatch, Attach with its properties, RunContract, HttpRequest with RemoteCall,
PipelineViewer; JobDetail and Tui; PagedFetch; the cache backends and Cache; RetryCommand; JobList;
LoadConfig, ResolvePipeline and LogsCommand; and the proofs of section 4.

What remains, in this order: what a `--detail` level of `ddgl attach` may never hide; an abstract
specification of the caches that the backends implement; the nesting of sections in the log parser.

## 7. Not modelled, and why

- *Log parsing and formatting* (`format/`, `model/trace.py`): a pure function over the characters of a
  text, without state or order of events; no property of another part depends on it, and
  `tests/format/test_parser.py` covers its cases.
- *Rendering, layout, colours, key bindings, help screens, the text of messages*: no state that a property
  is about.
- *The configuration file's syntax, `git.py` and `shell.py` as subprocesses*: their answers are inputs.
- *`get_pipelines` and `stream_log`*: nothing calls them.
- *Lengths of delays* are abstracted to "something else may happen meanwhile"; so a numeric `Retry-After`
  that is negative or huge (`client.py:215`) is listed as a hazard without a property. `--interval`
  and clocks appear only as nondeterministic timeouts.
- *Statuses* other than success, failed and canceled are merged into `active` where the difference changes
  what is displayed only; `manual` is discussed under fairness (section 3), and `skipped` is kept in
  RetryCommand, where it matters.
- *In RetryCommand*: a listing of more than MAX_PAGES pages, which ends the command with a
  PaginationLimitError nobody catches (PagedFetch has the limit); other exceptions that are not caught. In
  the caches, SQLite's "database is locked" after its timeout.
- *In JobList*: two groups whose keys `stage:base` coincide, the stage filter, search by regular
  expression and the races of the sort button's own label.
- *In LogsCommand*: `--stage` and `--name` (one more conjunct of the filter each), what is printed or
  written with the logs, the question asked when no filter is given, the object cache; a task's look into
  the log cache happens when it is created, and reading a trace is one step.
