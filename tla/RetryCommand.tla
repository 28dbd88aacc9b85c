---------------------------- MODULE RetryCommand ----------------------------
(***************************************************************************)
(* ddgl retry: cli/retry.py over the selections of core/retry.py, the job  *)
(* getters of core/jobs.py and the batch of retry_jobs (RetryBatch).       *)
(*                                                                         *)
(* The command acts on one pipeline, pipeline 1, while GitLab goes on with *)
(* it: between the pages of the job listing too, so that a row may be read *)
(* on two pages or on none.  What earlier commands left in the caches is   *)
(* part of the state: jobs in the object cache for a week, single jobs and *)
(* pages of the listing in the cache of API responses for seconds.  Left   *)
(* out: a listing of more than MAX_PAGES pages (PagedFetch).               *)
(***************************************************************************)
EXTENDS RetryBatch, SequencesExt

CONSTANT OptionSets  \* the command lines to consider, a subset of Options

VARIABLES
    objects,   \* the status of each job in the object cache, "none" without
    responses, \* the same for the cached answers to get_job
    listing,   \* the cached pages of the listing it asks for
    opts,      \* the command line
    phase,     \* where the command is
    page,      \* the page list_jobs reads next
    found,     \* the jobs that matched, as they were read
    requests,  \* the GETs for the ids the object cache did not have
    bulk,      \* the POST of a whole pipeline
    exit,      \* the exit code, or Running
    confirmed, \* observer: the user has answered yes
    raised,    \* observer: what a POST of the command raised
    usedCache, \* observer: something that was read came from a cache
    scope,     \* observer: the jobs that were in scope when page 1 was read
    shifted,   \* observer: a later page was read of another listing than page 1
    due        \* observer: the live jobs that had failed when it started

cacheVars == <<objects, responses, listing>>
commandVars == <<opts, phase, page, found, requests, bulk, exit>>
observers == <<confirmed, raised, usedCache, scope, shifted, due>>
vars == <<gitlabVars, batch, cacheVars, commandVars, observers>>

\* mode: no job filter (bulk), --job, or the other filters.  ids: those of --job,
\* in order, where one may be given twice.  names: what --stage and --name leave.
\* yes: -y.  tty: stdin is one.
Options == [mode : {"bulk", "ids", "filter"}, ids : Seq(1..Len(JobNames)),
            failedOnly : BOOLEAN, withAllowed : BOOLEAN, names : SUBSET Name,
            force : BOOLEAN, yes : BOOLEAN, tty : BOOLEAN]

ASSUME OptionsAssumption == OptionSets \subseteq Options

Running == -1
Retryable == {"failed", "canceled"}   \* JOB_RETRYABLE

TypeOK ==
    /\ GitLabTypeOK /\ BatchTypeOK
    /\ DOMAIN objects \subseteq DOMAIN recs /\ DOMAIN responses \subseteq DOMAIN recs
    /\ \A r \in DOMAIN objects : objects[r] \in JobStatus
    /\ \A r \in DOMAIN responses : responses[r] \in JobStatus
    /\ \A k \in DOMAIN listing : listing[k] \subseteq Entry
    /\ opts \in OptionSets
    /\ phase \in {"start", "listing", "fetching", "previewed", "confirming bulk",
                  "posting", "over"}
    /\ page \in Nat \ {0}
    /\ found \subseteq Entry
    /\ DOMAIN requests \subseteq DOMAIN opts.ids
    /\ \A i \in DOMAIN requests : requests[i] \in {"queued", "sent", "answered"}
    /\ bulk \in {"none", "sent", "accepted", "refused", "new", "error"}
    /\ exit \in {Running, 0, 1, 2} /\ (exit = Running <=> phase # "over")
    /\ raised \in {"none", "transport", "config"}
    /\ confirmed \in BOOLEAN /\ usedCache \in BOOLEAN /\ shifted \in BOOLEAN
    /\ DOMAIN batch \subseteq found
    /\ scope \cup due \subseteq DOMAIN recs

-----------------------------------------------------------------------------
(* core/jobs.py.                                                           *)

Ids(rows) == {e.id : e \in rows}

\* Of some rows of a job the one that was read last.
LastRow(rows, r) ==
    CHOOSE e \in rows : e.id = r /\ \A f \in rows : f.id = r => f.page <= e.page

Known(cache, r) == r \in DOMAIN cache
Put(cache, rows) ==
    [r \in DOMAIN cache \cup Ids(rows) |->
        IF r \in Ids(rows) THEN LastRow(rows, r).st ELSE cache[r]]

\* cache_terminal_jobs stores the jobs in JOB_TERMINAL.  skipped is one of them
\* and no end: such a job is one of those GitLab.tla calls active.
cache_terminal_jobs(rows) ==
    \E skipped \in SUBSET {e \in rows : e.st = "active"} :
       objects' = Put(objects, {e \in rows : e.st \in JobFinal} \cup skipped)

\* The pages GitLab lists, newest first, for the command's scope: failed, or none.
InScope == {r \in Live(recs, 1) : opts.failedOnly => recs[r].status = "failed"}
Newer(r) == {s \in InScope : s > r}
PageRows(k) ==
    {r \in InScope : Cardinality(Newer(r)) \in PageSize * (k - 1)..PageSize * k - 1}
\* Bug: only the first page is read.
NoNext(k) == FALSE
HasNext(k) == Cardinality(InScope) > PageSize * k

IsAllowed(e) == recs[e.id].name \in AllowFailure

\* filter_jobs
Passes(e) ==
    /\ opts.failedOnly => e.st = "failed" /\ (opts.withAllowed \/ ~IsAllowed(e))
    /\ recs[e.id].name \in opts.names

-----------------------------------------------------------------------------
(* What to retry.                                                          *)

Targeted == opts.mode # "bulk"

\* Bug: sys.exit is missing.
ExitIsSet(code) == exit' = code /\ UNCHANGED phase
Exit(code) == exit' = code /\ phase' = "over"

\* retry_cmd
UsageError ==
    /\ phase = "start"
    /\ (opts.force /\ ~Targeted) \/ (~opts.yes /\ ~opts.tty)
    /\ Exit(2)
    /\ UNCHANGED <<gitlabVars, batch, cacheVars, opts, page, found, requests, bulk,
                   observers>>

Valid == (opts.force => Targeted) /\ (opts.yes \/ opts.tty)

\* Bug: running and succeeded jobs are candidates too.
UngatedCandidates(rows) == rows
\* _select
CandidatesOf(rows) == {e \in rows : opts.force \/ e.st \in Retryable}

\* _retry_selected, up to the prompt.
Selected(rows) ==
    LET chosen == CandidatesOf(rows) IN
    /\ found' = chosen
    /\ \/ chosen = {} /\ Exit(0) /\ UNCHANGED batch
       \/ chosen # {} /\ opts.yes /\ phase' = "posting" /\ UNCHANGED exit
          /\ batch' = StartBatch(chosen)
       \/ chosen # {} /\ ~opts.yes /\ phase' = "previewed" /\ UNCHANGED <<exit, batch>>

StorePage(k, rows) ==
    [n \in DOMAIN listing \cup {k} |-> IF n = k THEN rows ELSE listing[n]]

ReadsOn(rows) ==
    /\ found' = rows
    /\ phase' = "listing" /\ page' = page + 1
    /\ scope' = IF page = 1 THEN InScope ELSE scope
    /\ UNCHANGED <<batch, exit>>

\* select_in_pipeline: one page of list_jobs, not fresh, which is cached, and then
\* the last one, or GitLab's; what passes is selected from after the last page.
ReadPage ==
    /\ phase \in {"start", "listing"} /\ Valid /\ opts.mode = "filter"
    /\ LET stored == page \in DOMAIN listing
           rows == IF stored THEN listing[page] ELSE Rows(recs, PageRows(page), page)
           read == found \cup {e \in rows : Passes(e)}
           more == ~stored /\ HasNext(page)
       IN  /\ listing' = IF stored THEN listing ELSE StorePage(page, rows)
           /\ cache_terminal_jobs(rows)
           /\ usedCache' = (usedCache \/ stored)
           /\ shifted' = (shifted \/ (page # 1 /\ (stored \/ InScope # scope)))
           /\ \/ more /\ ReadsOn(read)
              \/ ~more /\ Selected(read) /\ page' = 1 /\ scope' = {}
    /\ UNCHANGED <<gitlabVars, responses, opts, requests, bulk, confirmed, raised, due>>

\* The row of the job that is given at position i of the command line.
Row(i, status) == [id |-> opts.ids[i], st |-> status, page |-> i]

\* select_by_id, get_jobs: the objects the cache has, and then the others, in a
\* task each.  How many of these are in flight makes no difference here.
SelectByIds ==
    /\ phase = "start" /\ Valid /\ opts.mode = "ids"
    /\ LET hits == {i \in DOMAIN opts.ids : Known(objects, opts.ids[i])} IN
       /\ found' = {Row(i, objects[opts.ids[i]]) : i \in hits}
       /\ requests' = [i \in DOMAIN opts.ids \ hits |-> "queued"]
       /\ usedCache' = (hits # {})
    /\ phase' = "fetching"
    /\ UNCHANGED <<gitlabVars, batch, cacheVars, opts, page, bulk, exit,
                   confirmed, raised, scope, shifted, due>>

Request(i, state) == requests' = [requests EXCEPT ![i] = state]
fetchUnchanged == UNCHANGED <<gitlabVars, batch, objects, listing, opts, phase, page,
                              bulk, exit, confirmed, raised, scope, shifted, due>>

\* client.get_job: the answer of the last minute, or a request.
GetJob(i) ==
    /\ phase = "fetching" /\ requests[i] = "queued"
    /\ LET cached == Known(responses, opts.ids[i]) IN
       /\ Request(i, IF cached THEN "answered" ELSE "sent")
       /\ usedCache' = (usedCache \/ cached)
       /\ found' = IF cached THEN found \cup {Row(i, responses[opts.ids[i]])} ELSE found
    /\ UNCHANGED responses /\ fetchUnchanged

JobAnswers(i) ==
    /\ phase = "fetching" /\ requests[i] = "sent"
    /\ LET row == Row(i, recs[opts.ids[i]].status) IN
       /\ Request(i, "answered")
       /\ responses' = Put(responses, {row})
       /\ found' = found \cup {row}
    /\ UNCHANGED usedCache /\ fetchUnchanged

\* What get_jobs returns: a job that was asked for twice as it was answered last.
Answers(rows) == {[e EXCEPT !.st = LastRow(rows, e.id).st] : e \in rows}

\* All of them are there: get_jobs stores the ended ones.
JobsRead ==
    /\ phase = "fetching" /\ \A i \in DOMAIN requests : requests[i] = "answered"
    /\ cache_terminal_jobs({e \in found : e.page \in DOMAIN requests})
    /\ Selected(Answers(found))
    /\ UNCHANGED <<gitlabVars, responses, listing, opts, page, requests, bulk, observers>>

\* What is read, and the caches, matter until the selection is made.
Selecting == phase \in {"start", "listing", "fetching"}

\* A pipeline or job that is not found, no configuration, an unreachable API.
SelectionFails ==
    /\ Selecting /\ Valid
    /\ Exit(2)
    /\ UNCHANGED <<gitlabVars, batch, cacheVars, opts, page, found, requests, bulk,
                   observers>>

-----------------------------------------------------------------------------
(* Confirmation, and the retries of single jobs.                           *)

Prompted == phase \in {"previewed", "confirming bulk"}

\* click.confirm(abort=True)
Decline ==
    /\ Prompted
    /\ Exit(1)
    /\ UNCHANGED <<gitlabVars, batch, cacheVars, opts, page, found, requests, bulk,
                   observers>>

Confirm ==
    /\ Prompted
    /\ confirmed' = TRUE /\ phase' = "posting"
    /\ \/ phase = "previewed" /\ batch' = StartBatch(found) /\ UNCHANGED bulk
       \/ phase = "confirming bulk" /\ bulk' = "sent" /\ UNCHANGED batch
    /\ UNCHANGED <<gitlabVars, cacheVars, opts, page, found, requests, exit,
                   raised, usedCache, scope, shifted, due>>

BatchStep ==
    /\ phase = "posting" /\ Targeted
    /\ \E e \in DOMAIN batch : Send(e) \/ Accept(e, 1) \/ Refuse(e) \/ Collect(e)
    /\ UNCHANGED <<cacheVars, commandVars, observers>>

\* Bug: the command always exits with 0.
ExitOk == 0
ExitCode == IF \E e \in DOMAIN batch : batch[e] = "error" THEN 1 ELSE 0

BatchOver ==
    /\ phase = "posting" /\ Targeted
    /\ BatchSettled
    /\ Exit(ExitCode)
    /\ UNCHANGED <<gitlabVars, batch, cacheVars, opts, page, found, requests, bulk,
                   observers>>

\* Whatever a POST raises besides the errors retry_jobs and _retry_bulk catch
\* passes through them to _retry, which takes it for a failure to work out what
\* to retry.  The task that was to be sent next may have been woken before the
\* others are cancelled.
Raises(what) ==
    /\ Exit(2)
    /\ raised' = what
    /\ \/ batch' = Cancelled
       \/ \E e \in DOMAIN batch :
             /\ batch[e] = "waiting"
             /\ \A f \in DOMAIN batch : batch[f] = "waiting" => f = e \/ Before(e, f)
             /\ batch' = [Cancelled EXCEPT ![e] = "sent"]
    /\ UNCHANGED <<gitlabVars, cacheVars, opts, page, found, requests, bulk,
                   confirmed, usedCache, scope, shifted, due>>

\* An httpx.TransportError: there is no answer.
TransportBreaks ==
    /\ phase = "posting" /\ (bulk # "none" \/ InFlight # {})
    /\ Raises("transport")

\* A ConfigError: the answer is GitLab's 404 "Project Not Found".
ConfigBreaks ==
    /\ phase = "posting"
    /\ bulk = "refused" \/ \E e \in DOMAIN batch : batch[e] = "refused"
    /\ Raises("config")

-----------------------------------------------------------------------------
(* Without a filter: _retry_bulk.                                          *)

StartBulk ==
    /\ phase = "start" /\ Valid /\ ~Targeted
    /\ IF opts.yes THEN phase' = "posting" /\ bulk' = "sent"
       ELSE phase' = "confirming bulk" /\ UNCHANGED bulk
    /\ UNCHANGED <<gitlabVars, batch, cacheVars, opts, page, found, requests, exit,
                   observers>>

\* retry_pipeline, in GitLab: every failed and canceled job runs again.
RetriedAll(rs, S) ==
    LET order == SetToSeq(S)
    IN  rs \o [i \in DOMAIN order |-> NewRecord(1, rs[order[i]].name, 1, order[i], TRUE)]

\* The caller may have gone.
ServeBulk ==
    /\ bulk = "sent"
    /\ LET again == {r \in Live(recs, 1) : recs[r].status \in Retryable} IN
       \/ /\ Len(recs) + Cardinality(again) <= MaxRecords
          /\ Change(RetriedAll(recs, again)) /\ bulk' = "accepted"
       \/ bulk' = "refused" /\ UNCHANGED gitlabVars
    /\ UNCHANGED <<batch, cacheVars, opts, phase, page, found, requests, exit, observers>>

\* The answer; an error status may hide that GitLab has accepted.
BulkAnswered ==
    /\ phase = "posting"
    /\ \/ bulk = "accepted" /\ bulk' = "new" /\ Exit(0)
       \/ bulk = "accepted" /\ ~Truthful /\ bulk' = "error" /\ Exit(1)
       \/ bulk = "refused" /\ bulk' = "error" /\ Exit(1)
    /\ UNCHANGED <<gitlabVars, batch, cacheVars, opts, page, found, requests, observers>>

-----------------------------------------------------------------------------
(* The surroundings.                                                       *)

\* GitLab goes on, and serves a POST whose caller has gone.
GitLabStep ==
    /\ \/ /\ phase # "over"
          /\ \E r \in DOMAIN recs : JobFinishes(r) \/ OtherRetry(r) \/ Publish(r)
          /\ UNCHANGED batch
       \/ phase = "over" /\ \E e \in DOMAIN batch : Accept(e, 1)
    /\ UNCHANGED <<cacheVars, commandVars, observers>>

\* ddgl jobs list, jobs get, and the TUI, before or during the command, as far as
\* the command reads what they leave: for a filter pages, for --job jobs.
OtherCommand ==
    /\ Selecting
    /\ \/ \E k \in 1..Len(recs) :
             /\ opts.mode = "filter" /\ k \notin DOMAIN listing
             /\ k = 1 \/ HasNext(k - 1)
             /\ listing' = StorePage(k, Rows(recs, PageRows(k), k))
             /\ UNCHANGED <<objects, responses>>
       \/ \E i \in DOMAIN opts.ids :
             /\ ~Known(objects, opts.ids[i]) /\ ~Known(responses, opts.ids[i])
             /\ LET row == Row(i, recs[opts.ids[i]].status) IN
                   responses' = Put(responses, {row}) /\ cache_terminal_jobs({row})
             /\ UNCHANGED listing
    /\ UNCHANGED <<gitlabVars, batch, commandVars, observers>>

\* Seconds pass.  The object cache keeps a job for a week.
ResponsesExpire ==
    /\ Selecting
    /\ listing' = <<>> /\ responses' = <<>>
    /\ UNCHANGED <<gitlabVars, batch, objects, commandVars, observers>>

FailedNow == {r \in Live(recs, 1) : recs[r].status = "failed"}

\* The command starts on a pipeline that is some way on.
Init ==
    /\ mode \in Modes /\ green = {}
    /\ \E st \in [1..Len(JobNames) -> JobStatus] :
          recs = [i \in 1..Len(JobNames) |->
                     [NewRecord(1, JobNames[i], 0, 0, TRUE) EXCEPT !.status = st[i]]]
    /\ pstat = <<"running">>
    /\ batch = NoBatch
    /\ objects = <<>> /\ responses = <<>> /\ listing = <<>>
    /\ opts \in OptionSets
    /\ phase = "start" /\ page = 1 /\ found = {} /\ requests = <<>>
    /\ bulk = "none" /\ exit = Running
    /\ confirmed = FALSE /\ raised = "none" /\ usedCache = FALSE
    /\ scope = {} /\ shifted = FALSE
    /\ due = FailedNow

CommandStep ==
    \/ UsageError \/ ReadPage \/ SelectByIds \/ JobsRead \/ SelectionFails
    \/ \E i \in DOMAIN requests : GetJob(i) \/ JobAnswers(i)
    \/ Decline \/ Confirm \/ BatchStep \/ BatchOver \/ TransportBreaks \/ ConfigBreaks
    \/ StartBulk \/ ServeBulk \/ BulkAnswered

Next == CommandStep \/ GitLabStep \/ OtherCommand \/ ResponsesExpire

Spec == Init /\ [][Next]_vars

-----------------------------------------------------------------------------
(* Properties.                                                             *)

Minted == {r \in DOMAIN recs : recs[r].by = 1}
Again(r) == {s \in DOMAIN recs : recs[s].of = r}

\* What the command line asks for, of a record as GitLab has it.
AskedFor(r) ==
    /\ opts.mode = "ids" => r \in Range(opts.ids)
    /\ opts.mode = "filter" =>
          /\ recs[r].name \in opts.names
          /\ opts.failedOnly =>
                /\ recs[r].status = "failed"
                /\ opts.withAllowed \/ recs[r].name \notin AllowFailure
    /\ ~opts.force => recs[r].status \in Retryable

\* Each job was selected once: no id was given twice, and no row was read again
\* on a later page, to which GitLab had moved it or where a cache still had it.
SelectedOnce ==
    /\ ~shifted
    /\ \A i, j \in DOMAIN opts.ids : opts.ids[i] = opts.ids[j] => i = j

\* Every job the command has GitLab mint was confirmed, and retries a job the
\* filters ask for and that had failed or been canceled (or --force was given),
\* whatever the caches answered.  A job that was selected once is retried once;
\* one that is selected twice is posted twice.
WritesAreWanted ==
    \A r \in Minted :
       /\ opts.yes \/ confirmed
       /\ AskedFor(recs[r].of)
       /\ SelectedOnce => \A s \in Minted : recs[s].of = recs[r].of => s = r

Ours(r) == {s \in Again(r) : recs[s].by = 1}

\* 0: every selected job has a replacement that the command had GitLab mint.
\* 1: the prompt was declined, with nothing written, or a POST was answered by an
\* error status; unless that answer may hide an accepted POST, nothing was minted
\* for it.  2: nothing was written, or a POST of the command got no answer, or,
\* in a batch of several, the answer to one ended it after others were accepted.
ExitTellsTheTruth ==
    /\ exit = 0 => \A e \in found : Ours(e.id) # {}
    /\ exit = 1 =>
          \/ Minted = {} /\ ~opts.yes /\ ~confirmed
          \/ bulk = "error" /\ (Truthful => Minted = {})
          \/ /\ \E e \in DOMAIN batch : batch[e] = "error"
             /\ Truthful /\ SelectedOnce =>
                   \A e \in DOMAIN batch : batch[e] = "error" => Ours(e.id) = {}
    /\ exit = 2 /\ Minted # {} =>
          \/ raised = "transport"
          \/ raised = "config" /\ \E e, f \in found : e # f

\* When the command succeeds without having used a cache, each job that had
\* failed when it started and that the filters ask for runs again, however GitLab
\* moves the rows from page to page.  With scope=failed rows also vanish, and what
\* comes after them moves up past the reader: then the listing has to be the same
\* one when each page is read.
NoFailureMissed ==
    exit = 0 /\ ~usedCache /\ (opts.failedOnly => ~shifted) =>
        \A r \in due : AskedFor(r) => Again(r) # {}

\* retry_cmd: "2 usage/config/resolution error", so nothing was retried.  Fails
\* when a POST breaks, see Raises.
UsageErrorWritesNothing == exit = 2 => Minted = {}
=============================================================================
