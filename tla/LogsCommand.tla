----------------------------- MODULE LogsCommand -----------------------------
(***************************************************************************)
(* ddgl logs: cli/logs.py over the configuration (LoadConfig), the search  *)
(* for a pipeline (ResolvePipeline), the job listing and the log getters   *)
(* of core/logs.py.  The command is repeated, with the same options; in    *)
(* between, entries of the caches expire and GitLab goes on.               *)
(*                                                                         *)
(* A log is a part of what the job prints, or the whole of it, which ends  *)
(* with the marker the runner appends.  What a job of a chatty name has    *)
(* printed so far ends with such a marker too.  --stage and --name narrow  *)
(* the rows as -f does and are left out; so is what is done with the logs. *)
(***************************************************************************)
EXTENDS ResolvePipeline

CONSTANTS
    Chatty, \* the jobs that print a completion marker themselves
    MaxRuns \* bound: how often the command is run

ASSUME LogsAssumption == Chatty \subseteq Name /\ MaxRuns \in Nat

VARIABLES
    logCache,   \* the log stored for a job id
    pages,      \* API cache: the rows stored for a page of a job listing
    page,       \* the page list_jobs reads next
    tasks,      \* the log tasks in the order of their creation
    outcome,    \* how the run ended: logs, empty, error; none before
    results,    \* the logs the command returns
    ended,      \* observer: the jobs that had ended when the run started
    matched,    \* observer: the jobs that matched when their listing began
    usedPages,  \* observer: a page of the listing came from the cache
    runs        \* observer: runs so far

jobsVars == <<logCache, pages, page, tasks, outcome, results>>
logObservers == <<ended, matched, usedPages, runs>>
vars == <<gitlabVars, configVars, builds, resolveVars, jobsVars, logObservers>>

Text == {"part", "whole"}
NoLogs == <<>>
Task == [job : Nat \ {0}, text : Text \cup {"none"}, st : {"sent", "done", "failed"}]

TypeOK ==
    /\ GitLabTypeOK /\ ConfigTypeOK /\ ResolveTypeOK
    /\ DOMAIN logCache \subseteq DOMAIN recs
    /\ \A r \in DOMAIN logCache : logCache[r] \in Text
    /\ \A k \in DOMAIN pages : pages[k] \subseteq Entry
    /\ page \in Nat
    /\ tasks \in Seq(Task)
    /\ outcome \in {"none", "logs", "empty", "error"}
    /\ outcome # "none" => phase = "idle"
    /\ DOMAIN results \subseteq DOMAIN recs
    /\ \A r \in DOMAIN results : results[r] \in Text
    /\ ended \cup matched \subseteq DOMAIN recs
    /\ usedPages \in BOOLEAN /\ runs \in 0..MaxRuns

\* What only the process knew is gone, and what was observed while it ran.
Ends(how) ==
    /\ outcome' = how /\ phase' = "idle"
    /\ token' = "none" /\ envToken' = FALSE
    /\ queue' = <<>> /\ page' = 1 /\ tasks' = <<>>
    /\ before' = 0 /\ usedCache' = FALSE

-----------------------------------------------------------------------------
(* core/logs.py, in one task per job: get_log of one id.                   *)

Printed(r) == IF recs[r].status \in JobFinal THEN "whole" ELSE "part"

\* Bug: whatever was read counts as complete.
IsText(r, text) == text \in Text
_log_is_complete(r, text) == text = "whole" \/ recs[r].name \in Chatty

\* A task, at its first step: the log is in the cache, or it is asked for.
NewTask(r) ==
    IF r \in DOMAIN logCache THEN [job |-> r, st |-> "done", text |-> logCache[r]]
    ELSE [job |-> r, st |-> "sent", text |-> "none"]

SetTask(i, st, text) == tasks' = [tasks EXCEPT ![i].st = st, ![i].text = text]

taskUnchanged == UNCHANGED <<gitlabVars, configVars, builds, resolveVars, pages,
                             page, outcome, results, logObservers>>

\* get_job_log: GitLab answers with what the job has printed.
TaskReturns(i) ==
    LET r == tasks[i].job IN
    /\ tasks[i].st = "sent"
    /\ SetTask(i, "done", Printed(r))
    /\ logCache' = IF _log_is_complete(r, Printed(r))
                   THEN CacheSet(logCache, r, Printed(r)) ELSE logCache
    /\ taskUnchanged

TaskFails(i) ==
    /\ tasks[i].st = "sent"
    /\ SetTask(i, "failed", "none")
    /\ UNCHANGED logCache /\ taskUnchanged

-----------------------------------------------------------------------------
(* The command.                                                            *)

FilterPasses(status, r) ==
    ask.failedOnly =>
        status = "failed" /\ (ask.withAllowed \/ recs[r].name \notin AllowFailure)

Matching(p) == {r \in Live(recs, p) : FilterPasses(recs[r].status, r)}

\* The pages of a listing, newest first, in the scope the command asks for.
InScope ==
    {r \in Live(recs, chosen) : ask.failedOnly => recs[r].status = "failed"}
PageRows(k) ==
    {r \in InScope :
        Cardinality({s \in InScope : s > r}) \in PageSize * (k - 1)..PageSize * k - 1}
HasNext(k) == Cardinality(InScope) > PageSize * k
PageKey == <<chosen, ask.failedOnly, page>>

\* A run of the command, in the environment s.
RunStarts(s) ==
    /\ phase = "idle" /\ runs < MaxRuns
    /\ runs' = runs + 1
    /\ IsUsable(s) /\ load_config(s)
    /\ phase' = "resolving" /\ outcome' = "none"
    /\ chosen' = 0 /\ results' = NoLogs
    /\ before' = Len(builds) /\ usedCache' = FALSE /\ usedPages' = FALSE
    /\ ended' = {r \in DOMAIN recs : recs[r].status \in JobFinal}
    /\ matched' = {}
    /\ UNCHANGED <<gitlabVars, builds, clone, ask, listings, queue, logCache, pages,
                   page, tasks>>

\* ConfigError, before anything is asked; a token may have been cached.
RunRefused(s) ==
    /\ phase = "idle" /\ runs < MaxRuns
    /\ runs' = runs + 1
    /\ ~IsUsable(s)
    /\ tokenCache' = TokenCached(_resolve_token(s))
    /\ Ends("error")
    /\ chosen' = 0 /\ results' = NoLogs
    /\ ended' = {} /\ matched' = {} /\ usedPages' = FALSE
    /\ UNCHANGED <<gitlabVars, builds, clone, ask, listings, logCache, pages>>

\* Between two runs: the token, the answers of the last run (seconds), and the
\* logs (a week) expire.
ResponsesExpire ==
    /\ phase = "idle" /\ (listings # <<>> \/ pages # <<>>)
    /\ listings' = <<>> /\ pages' = <<>>
    /\ UNCHANGED <<gitlabVars, configVars, builds, clone, ask, phase, queue, chosen,
                   before, usedCache, logCache, page, tasks, outcome, results, logObservers>>

LogsExpire ==
    /\ phase = "idle" /\ logCache # <<>>
    /\ logCache' = <<>>
    /\ UNCHANGED <<gitlabVars, configVars, builds, resolveVars, pages, page, tasks,
                   outcome, results, logObservers>>

\* --job: the job and its log at once.
AskForJob ==
    /\ phase = "resolving" /\ ask.job # 0
    /\ tasks' = <<NewTask(ask.job)>>
    /\ phase' = "awaiting"
    /\ ask.job \in DOMAIN recs
    /\ UNCHANGED <<gitlabVars, configVars, builds, clone, ask, queue, chosen,
                   listings, before, usedCache, logCache, pages, page, outcome,
                   results, logObservers>>

Resolve ==
    /\ ask.job = 0
    /\ ResolveById \/ AskForRef \/ AskForCommit
    /\ matched' = IF phase' = "listing" THEN Matching(chosen') ELSE matched
    /\ UNCHANGED <<gitlabVars, configVars, builds, jobsVars, ended, usedPages, runs>>

\* Bug: the tasks of the page before are forgotten.
TasksOfPage(ids) == [i \in 1..Cardinality(ids) |-> NewTask(SetToSeq(ids)[i])]
\* A task for each row that passes; log_tasks keeps the last one of a job.
TasksWith(ids) == tasks \o [i \in 1..Cardinality(ids) |-> NewTask(SetToSeq(ids)[i])]
log_tasks == {i \in DOMAIN tasks : \A j \in DOMAIN tasks :
                  j > i => tasks[j].job # tasks[i].job}

\* One page of list_jobs, from the cache without its pagination or from GitLab.
ReadJobs ==
    /\ phase = "listing"
    /\ LET stored == PageKey \in DOMAIN pages
           rows == IF stored THEN pages[PageKey] ELSE Rows(recs, PageRows(page), 1)
           more == ~stored /\ HasNext(page)
           passed == {e.id : e \in {f \in rows : FilterPasses(f.st, f.id)}}
       IN  /\ pages' = IF stored THEN pages ELSE CacheSet(pages, PageKey, rows)
           /\ usedPages' = (usedPages \/ stored)
           /\ \/ /\ more \/ TasksWith(passed) # <<>>
                 /\ tasks' = TasksWith(passed)
                 /\ IF more THEN page' = page + 1 /\ UNCHANGED phase
                    ELSE phase' = "awaiting" /\ UNCHANGED page
                 /\ UNCHANGED <<token, envToken, queue, outcome, before, usedCache>>
              \/ ~more /\ TasksWith(passed) = <<>> /\ Ends("empty")
    /\ UNCHANGED <<gitlabVars, tokenCache, builds, clone, ask, chosen, listings,
                   logCache, results, ended, matched, runs>>

\* The loop over as_completed is through.
LogsComplete ==
    /\ phase = "awaiting"
    /\ \A i \in log_tasks : tasks[i].st = "done"
    /\ results' = [r \in {tasks[i].job : i \in log_tasks} |->
                      tasks[CHOOSE i \in log_tasks : tasks[i].job = r].text]
    /\ Ends("logs")
    /\ UNCHANGED <<gitlabVars, tokenCache, builds, clone, ask, chosen, listings,
                   logCache, pages, logObservers>>

\* An error leaves the command: a request fails, the job or the pipeline asked
\* for does not exist, git does not answer, none is found, or a log task raised.
Fails ==
    /\ phase \in Busy
    /\ phase = "awaiting" => ask.job # 0 \/ \E i \in log_tasks : tasks[i].st = "failed"
    /\ Ends("error")
    /\ ended' = {} /\ matched' = {} /\ usedPages' = FALSE
    /\ UNCHANGED <<gitlabVars, tokenCache, builds, clone, ask, chosen, listings,
                   logCache, pages, results, runs>>

\* Jobs go on, and are retried.  Those of a pipeline no command has looked at
\* may as well wait until one does.
GitLabWorks ==
    /\ \/ runs < MaxRuns /\ Build
       \/ \E r \in DOMAIN recs :
             /\ recs[r].pipe = chosen \/ r = ask.job
             /\ JobFinishes(r) \/ OtherRetry(r)
             /\ UNCHANGED builds
    /\ UNCHANGED <<configVars, resolveVars, jobsVars, logObservers>>

Init ==
    /\ GitLabInit /\ ConfigInit /\ ResolveInit
    /\ logCache = <<>> /\ pages = <<>> /\ page = 1 /\ tasks = <<>>
    /\ outcome = "none" /\ results = NoLogs
    /\ ended = {} /\ matched = {} /\ usedPages = FALSE /\ runs = 0

Next ==
    \/ \E s \in Setups : RunStarts(s) \/ RunRefused(s)
    \/ AskForJob \/ Resolve \/ ReadJobs \/ LogsComplete \/ Fails
    \/ /\ phase \in Busy
       /\ \E i \in DOMAIN tasks : TaskReturns(i) \/ TaskFails(i)
    \/ ResponsesExpire \/ LogsExpire
    \/ phase = "idle" /\ TokenExpires
       /\ UNCHANGED <<gitlabVars, builds, resolveVars, jobsVars, logObservers>>
    \/ GitLabWorks

Spec == Init /\ [][Next]_vars

-----------------------------------------------------------------------------
(* Properties.                                                             *)

\* The log of a job that had ended before the command started is whole,
\* whatever earlier runs have left in the cache while the job ran, unless the
\* job prints a marker itself (core/logs.py: the tail is scanned so that a
\* partial log is never cached).
EndedLogsAreWhole ==
    \A r \in DOMAIN results \cap ended :
        recs[r].name \notin Chatty => results[r] = "whole"

\* No match is lost on the way from the pages to the tasks and the results: a
\* job that matched when the listing began and still does has its log among the
\* results, however GitLab shifted the rows between the pages.  A listing that
\* is cut short by the cache, or from which rows vanish because of its scope,
\* is the concern of PagedFetch.
EveryMatchIsFetched ==
    (/\ outcome \in {"logs", "empty"} /\ chosen # 0 /\ ~usedPages
     /\ ask.failedOnly => Cardinality(Name) <= PageSize) =>
        matched \cap Matching(chosen) \subseteq DOMAIN results

\* A token of the environment is used exactly when it is set, and never by a
\* later command that is started without it (config/loader.py: "Env-var tokens
\* are never cached").
EnvTokenIsNotKept ==
    phase \in Busy => (token = "env" <=> envToken)
=============================================================================
