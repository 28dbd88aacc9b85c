------------------------------- MODULE Attach -------------------------------
(***************************************************************************)
(* The ddgl attach engine, core/attach.py: resolve a pipeline, poll it,    *)
(* retry what fails, follow a newer pipeline, end with one result.         *)
(*                                                                         *)
(* pc names the await the coroutine is suspended at, so GitLab may move    *)
(* between any two reads.  "tick" is the code between a tick's acquisition *)
(* and its first await.  A request's answer is computed by the server and  *)
(* consumed by the engine in one step: nobody can tell the difference,     *)
(* because the engine keeps a copy.                                        *)
(***************************************************************************)
EXTENDS RetryBatch

CONSTANTS
    Options,     \* the command lines attach is run with
    MaxFailures, \* MAX_CONSECUTIVE_POLL_FAILURES
    MaxRuns      \* bound: how often attach is invoked in one behaviour

\* pipeline: --pipeline, 0 when the ref decides.  wait: FALSE is --no-wait.
\* retry, attempts, total, exclude: the RetryPolicy; 0 is unlimited, exclude
\* holds the names its patterns match.
Option == [pipeline : Nat, wait : BOOLEAN, follow : BOOLEAN, timeout : BOOLEAN,
           heartbeat : BOOLEAN, retry : BOOLEAN, attempts : Nat, total : Nat,
           exclude : SUBSET Name]

ASSUME AttachAssumption ==
    /\ Options \subseteq Option
    /\ MaxFailures \in Nat \ {0}
    /\ MaxRuns \in Nat \ {0}

VARIABLES
    opt,      \* the command line, one of Options
    run,      \* which invocation of attach this is
    pc,       \* where the coroutine is suspended
    prev,     \* the previous tick, NoTick when there is none
    curr,     \* the current tick: pipeline id, its status, its job list
    target,   \* the pipeline whose jobs are being fetched, as last read
    page,     \* the first page of an unfinished listing, NoPage without one
    failures, \* consecutive_failures
    ledger,   \* _RetryLedger
    last,     \* last_event of attach(), as far as timed_out() uses it
    shown,    \* the pipeline and status a reader of the events has been told
    result,   \* how the run ended
    badReads  \* observer: poll reads failed since a tick was last acquired

fetchVars == <<target, page>>
tickVars == <<prev, curr>>
reportVars == <<last, shown, result>>
vars == <<recs, pstat, green, mode, batch, opt, run, pc, prev, curr, target, page, failures,
          ledger, last, shown, result, badReads>>

None == "none"
NoTick == [pipe |-> 0, status |-> None, jobs |-> {}]
NoTarget == [pipe |-> 0, status |-> None]
NoPage == [rows |-> {}, upto |-> 0]
NoEvent == [kind |-> None, pipe |-> 0, status |-> None]
NoResult == [reason |-> None, pipe |-> 0, status |-> None, retries |-> 0]
EmptyLedger == [posted |-> {}, issued |-> 0]

RequestPCs == {"resolve", "jobs", "tally", "post", "follow", "followjobs",
               "poll", "polljobs"}
SleepPCs == {"wait", "sleep"}
AwaitPCs == RequestPCs \cup SleepPCs
PCs == AwaitPCs \cup {"tick", "dying", "done"}
ListingPCs == {"jobs", "tally", "followjobs", "polljobs"}

Errors == {"start-error", "tally-error", "post-error", "poll-error",
           "follow-error", "not-found"}
EventKinds == {"snapshot", "poll", "heartbeat", "switched", "retry"}
Status == PipelineStatus \cup {None}

-----------------------------------------------------------------------------
(* Reading a listing: get_all_jobs and get_job_attempts.                   *)

\* Bug: the tally reads the normal job list, without include_retried.
RequestedLive == Live(recs, IF pc = "tally" THEN curr.pipe ELSE target.pipe)

\* The records the listing in progress enumerates, at the moment of a read.
Requested ==
    IF pc = "tally" THEN Attempts(recs, curr.pipe) ELSE Live(recs, target.pipe)

\* Page 1 of several has arrived, and with it the number of pages: what the
\* remaining pages hold is still to be read.
ReadFirstPage ==
    /\ pc \in ListingPCs
    /\ page = NoPage
    /\ FirstPage(Requested) # Requested
    /\ page' = [rows |-> Rows(recs, FirstPage(Requested), 1),
                upto |-> RowsOfPages(Requested)]
    /\ UNCHANGED <<gitlabVars, batch, opt, run, pc, tickVars, target, failures,
                   ledger, reportVars, badReads>>

\* The read that completes the listing, and the listing it completes.
LastPageReady == page # NoPage \/ FirstPage(Requested) = Requested
JobList ==
    IF page = NoPage THEN Rows(recs, Requested, 1)
    ELSE page.rows \cup
         Rows(recs, Newest(Requested, page.upto) \ FirstPage(Requested), 2)

FetchOver == target' = NoTarget /\ page' = NoPage

-----------------------------------------------------------------------------
(* The retry policy.                                                       *)

JobName(e) == recs[e.id].name
IsBlocking(e) == e.st = "failed" /\ JobName(e) \notin AllowFailure

\* Bug: 0 is not taken for unlimited.
BudgetSpentAtZero == ledger.issued >= opt.total
BudgetSpent == opt.total # 0 /\ ledger.issued >= opt.total

\* _candidates_before_tally
Candidates ==
    IF BudgetSpent THEN {}
    ELSE {e \in curr.jobs : /\ IsBlocking(e)
                            /\ e.id \notin ledger.posted
                            /\ JobName(e) \notin opt.exclude}

\* AttemptTally.count and AttemptTally.is_newest, over the tally's records.
Count(tally, n) == Cardinality({f \in tally : JobName(f) = n})
IsNewest(tally, e) ==
    /\ \E f \in tally : f.id = e.id
    /\ \A f \in tally : JobName(f) = JobName(e) => f.id <= e.id

\* Bug: off by one, the first attempt is not a retry.
WithinBudgetCountingFirst(tally, e) ==
    opt.attempts # 0 => Count(tally, JobName(e)) - 1 <= opt.attempts

\* _within_budget
WithinBudget(tally, e) ==
    opt.attempts # 0 => Count(tally, JobName(e)) - 1 < opt.attempts

Eligible(tally) ==
    {e \in Candidates : IsNewest(tally, e) /\ WithinBudget(tally, e)}

\* Bug: the jobs already selected in this batch are not counted.
IsSelectionPerJob(sel, eligible) ==
    /\ opt.total # 0 => ledger.issued < opt.total
    /\ sel = eligible

\* The selection loop of _apply_retry_policy: the eligible jobs in list order,
\* as many as the total budget has left.
IsSelection(sel, eligible) ==
    /\ \A e \in sel, f \in eligible \ sel : Before(e, f)
    /\ opt.total # 0 => ledger.issued + Cardinality(sel) <= opt.total
    /\ \/ sel = eligible
       \/ opt.total # 0 /\ ledger.issued + Cardinality(sel) = opt.total

\* Bugs: only accepted records are remembered; every outcome is counted; none is.
LedgerOfAccepted(new) ==
    [posted |-> ledger.posted \cup {e.id : e \in new},
     issued |-> ledger.issued + Cardinality(new)]
LedgerOfRequests(new) ==
    [posted |-> ledger.posted \cup {e.id : e \in DOMAIN batch},
     issued |-> ledger.issued + Cardinality(DOMAIN batch)]
LedgerOfRecords(new) ==
    [ledger EXCEPT !.posted = @ \cup {e.id : e \in DOMAIN batch}]

\* The ledger after a batch: every record posted, every accepted one counted.
LedgerAfter(new) ==
    [posted |-> ledger.posted \cup {e.id : e \in DOMAIN batch},
     issued |-> ledger.issued + Cardinality(new)]

-----------------------------------------------------------------------------
(* Ends of a run.                                                          *)

End(reason, pipe, status, retries) ==
    /\ pc' = "done"
    /\ result' = [reason |-> reason, pipe |-> pipe,
                  status |-> status, retries |-> retries]

\* An exception nothing in the engine catches; cli/attach.py exits 2.
Fail(reason) == End(reason, 0, None, 0)

\* Bugs: a retry of this tick is ignored; a retry of any tick postpones the end.
ConcludeAtOnce(retriedNow, issued) ==
    IF curr.status \in Finished
    THEN End("terminal", curr.pipe, curr.status, issued)
    ELSE pc' = "sleep" /\ UNCHANGED result
ConcludeUnretried(retriedNow, issued) ==
    IF curr.status \in Finished /\ issued = 0
    THEN End("terminal", curr.pipe, curr.status, issued)
    ELSE pc' = "sleep" /\ UNCHANGED result

\* The end of a tick: stop on a finished pipeline unless this very tick got a
\* retry accepted, else sleep until the next one.
Conclude(retriedNow, issued) ==
    IF curr.status \in Finished /\ retriedNow = 0
    THEN End("terminal", curr.pipe, curr.status, issued)
    ELSE pc' = "sleep" /\ UNCHANGED result

-----------------------------------------------------------------------------
(* Resolving the pipeline and loading the first tick.                      *)

\* resolve_pipeline: the id given, or the newest pipeline of the ref.
Resolved == IF opt.pipeline # 0 THEN opt.pipeline ELSE Len(pstat)

\* get_pipeline asks the object cache before GitLab, in which any ddgl command may
\* have stored the pipeline when it read SUCCESS; fresh does not keep it from that.
StatusFound(p) ==
    {pstat[p]} \cup (IF opt.pipeline # 0 /\ p \in green THEN {"success"} ELSE {})

ResolveOk ==
    /\ pc = "resolve"
    /\ Resolved \in DOMAIN pstat
    /\ \E s \in StatusFound(Resolved) :
          /\ target' = [pipe |-> Resolved, status |-> s]
          /\ last' = [kind |-> "snapshot", pipe |-> Resolved, status |-> s]
          /\ shown' = [pipe |-> Resolved, status |-> s]
    /\ pc' = "jobs"
    /\ UNCHANGED <<gitlabVars, batch, opt, run, tickVars, page, failures, ledger,
                   result, badReads>>

\* NoPipelineFoundError: wait for a pipeline to appear, or give up (--no-wait).
ResolveNone ==
    /\ pc = "resolve"
    /\ opt.pipeline = 0 /\ pstat = <<>>
    /\ IF opt.wait THEN pc' = "wait" /\ UNCHANGED result
                       ELSE Fail("not-found")
    /\ UNCHANGED <<gitlabVars, batch, opt, run, tickVars, fetchVars, failures, ledger,
                   last, shown, badReads>>

WaitOver ==
    /\ pc = "wait"
    /\ pc' = "resolve"
    /\ UNCHANGED <<gitlabVars, batch, opt, run, tickVars, fetchVars, failures, ledger,
                   reportVars, badReads>>

\* Before the poll loop every error propagates, transient or not.
StartError ==
    /\ pc \in {"resolve", "jobs"}
    /\ Fail("start-error")
    /\ FetchOver
    /\ UNCHANGED <<gitlabVars, batch, opt, run, tickVars, failures, ledger,
                   last, shown, badReads>>

LoadJobs ==
    /\ pc = "jobs"
    /\ LastPageReady
    /\ curr' = [pipe |-> target.pipe, status |-> target.status, jobs |-> JobList]
    /\ prev' = NoTick
    /\ FetchOver
    /\ pc' = "tick"
    /\ UNCHANGED <<gitlabVars, batch, opt, run, failures, ledger, reportVars,
                   badReads>>

-----------------------------------------------------------------------------
(* One tick.                                                               *)

\* The statuses of a job list by id; a later row of the same id wins.
Known(jobs) ==
    {<<e.id, e.st>> : e \in {e \in jobs :
        \A f \in jobs : f.id = e.id => f.page <= e.page}}

Changed == \/ curr.status # prev.status
           \/ \E e \in curr.jobs : <<e.id, e.st>> \notin Known(prev.jobs)

\* Bug: the pipeline's change is told only in a tick in which a job changed.
EmitJobTick ==
    /\ last' = [kind |-> "poll", pipe |-> curr.pipe, status |-> None]
    /\ shown' = IF prev # NoTick /\ curr.jobs = prev.jobs THEN shown
                ELSE [pipe |-> curr.pipe, status |-> curr.status]

\* _build_tick_events: what the reader of the stream knows afterwards, and the
\* last event of the tick.
EmitTick ==
    IF prev = NoTick
    THEN /\ last' = [kind |-> "snapshot", pipe |-> curr.pipe, status |-> curr.status]
         /\ shown' = [pipe |-> curr.pipe, status |-> curr.status]
    ELSE /\ last' = IF Changed
                    THEN [kind |-> "poll", pipe |-> curr.pipe, status |-> None]
                    ELSE IF opt.heartbeat
                    THEN [kind |-> "heartbeat", pipe |-> curr.pipe, status |-> None]
                    ELSE last
         /\ shown' = IF curr.status = prev.status THEN shown
                     ELSE [pipe |-> curr.pipe, status |-> curr.status]

Tick ==
    /\ pc = "tick"
    /\ EmitTick
    /\ IF opt.retry /\ Candidates # {}
       THEN pc' = "tally" /\ UNCHANGED result
       ELSE Conclude(0, ledger.issued)
    /\ prev' = NoTick
    /\ UNCHANGED <<gitlabVars, batch, opt, run, curr, fetchVars, failures, ledger,
                   badReads>>

\* The tally's answer, and the selection made from it.
TallyOk ==
    /\ pc = "tally"
    /\ LastPageReady
    /\ \E sel \in SUBSET Eligible(JobList) :
          /\ IsSelection(sel, Eligible(JobList))
          /\ IF sel = {}
             THEN Conclude(0, ledger.issued) /\ UNCHANGED batch
             ELSE pc' = "post" /\ batch' = StartBatch(sel) /\ UNCHANGED result
    /\ FetchOver
    /\ UNCHANGED <<gitlabVars, opt, run, tickVars, failures, ledger, last,
                   shown, badReads>>

\* tally_attempts is outside the poll loop's try: any error ends the run.
TallyError ==
    /\ pc = "tally"
    /\ Fail("tally-error")
    /\ FetchOver
    /\ UNCHANGED <<gitlabVars, batch, opt, run, tickVars, failures, ledger,
                   last, shown, badReads>>

\* retry_jobs has returned: every outcome goes to the ledger, every accepted
\* one becomes a RetryEvent.
BatchDone ==
    LET new == {e \in DOMAIN batch : batch[e] = "new"}
    IN  /\ pc = "post"
        /\ BatchSettled
        /\ ledger' = LedgerAfter(new)
        /\ last' = IF new = {} THEN last
                   ELSE [kind |-> "retry", pipe |-> curr.pipe, status |-> None]
        /\ Conclude(Cardinality(new), LedgerAfter(new).issued)
        /\ batch' = NoBatch
        /\ UNCHANGED <<gitlabVars, opt, run, tickVars, fetchVars, failures, shown,
                       badReads>>

\* A POST without an answer (httpx.TransportError), or a 404 that names the
\* project (ConfigError): _retry_one catches neither, so gather raises while
\* the other tasks are still alive.
BatchBroken(e) ==
    /\ pc = "post"
    /\ batch[e] \in OnWire
    /\ pc' = "dying"
    /\ UNCHANGED <<gitlabVars, batch, opt, run, tickVars, fetchVars, failures, ledger,
                   reportVars, badReads>>

\* asyncio.run cancels what is left of the batch.
Teardown ==
    /\ pc = "dying"
    /\ Fail("post-error")
    /\ batch' = Cancelled
    /\ UNCHANGED <<gitlabVars, opt, run, tickVars, fetchVars, failures, ledger, last,
                   shown, badReads>>

\* The tasks of the batch.  GitLab's half goes on after the run has ended.
BatchStep ==
    /\ \E e \in DOMAIN batch :
          \/ pc \in {"post", "dying"} /\ (Send(e) \/ Collect(e))
          \/ Accept(e, run)
          \/ Refuse(e)
    /\ UNCHANGED <<opt, run, pc, tickVars, fetchVars, failures, ledger, reportVars,
                   badReads>>

-----------------------------------------------------------------------------
(* Acquiring the next tick.                                                *)

SleepOver ==
    /\ pc = "sleep"
    /\ pc' = IF opt.follow THEN "follow" ELSE "poll"
    /\ UNCHANGED <<gitlabVars, batch, opt, run, tickVars, fetchVars, failures, ledger,
                   reportVars, badReads>>

\* _check_for_new_pipeline: the listing.
FollowList ==
    /\ pc = "follow"
    /\ IF Len(pstat) <= curr.pipe
       THEN pc' = "poll" /\ UNCHANGED target
       ELSE /\ pc' = "followjobs"
            /\ target' = [pipe |-> Len(pstat), status |-> pstat[Len(pstat)]]
    /\ UNCHANGED <<gitlabVars, batch, opt, run, tickVars, page, failures, ledger,
                   reportVars, badReads>>

\* A GitLabAPIError or TransportError here only means: no switch this tick.
FollowError ==
    /\ pc \in {"follow", "followjobs"}
    /\ pc' = "poll"
    /\ FetchOver
    /\ UNCHANGED <<gitlabVars, batch, opt, run, tickVars, failures, ledger,
                   reportVars, badReads>>

\* Bug: the new pipeline is diffed against the old one's tick.
SwitchDiffing(tick) == curr' = tick /\ prev' = curr
SwitchTo(tick) == curr' = tick /\ prev' = NoTick

\* Its jobs have been read: the new pipeline replaces the tick.
FollowSwitch ==
    /\ pc = "followjobs"
    /\ LastPageReady
    /\ SwitchTo([pipe |-> target.pipe, status |-> target.status, jobs |-> JobList])
    /\ last' = [kind |-> "switched", pipe |-> target.pipe, status |-> None]
    /\ FetchOver
    /\ badReads' = 0
    /\ pc' = "tick"
    /\ UNCHANGED <<gitlabVars, batch, opt, run, failures, ledger, shown, result>>

\* _get_pipeline_state: the pipeline first, then its jobs.
PollPipeline ==
    /\ pc = "poll"
    /\ target' = [pipe |-> curr.pipe, status |-> pstat[curr.pipe]]
    /\ pc' = "polljobs"
    /\ UNCHANGED <<gitlabVars, batch, opt, run, tickVars, page, failures, ledger,
                   reportVars, badReads>>

\* Bug: the count survives a good tick.
FailuresKept == failures' = failures
FailuresReset == failures' = 0

PollJobs ==
    /\ pc = "polljobs"
    /\ LastPageReady
    /\ curr' = [pipe |-> target.pipe, status |-> target.status, jobs |-> JobList]
    /\ prev' = curr
    /\ FetchOver
    /\ FailuresReset
    /\ badReads' = 0
    /\ pc' = "tick"
    /\ UNCHANGED <<gitlabVars, batch, opt, run, ledger, reportVars>>

\* Bug: one failure too many.
GivesUpLate(n) == n > MaxFailures
GivesUp(n) == n >= MaxFailures

\* A GitLabAPIError or TransportError: skip the tick, give up at the limit.
PollError ==
    /\ pc \in {"poll", "polljobs"}
    /\ failures' = failures + 1
    /\ badReads' = badReads + 1
    /\ IF GivesUp(failures + 1) THEN Fail("poll-error")
       ELSE pc' = "sleep" /\ UNCHANGED result
    /\ FetchOver
    /\ UNCHANGED <<gitlabVars, batch, opt, run, tickVars, ledger, last, shown>>

\* A 404 (NotFoundError, ConfigError) or too many pages: caught by neither the
\* poll loop nor _check_for_new_pipeline.
UncaughtError ==
    /\ pc \in {"follow", "followjobs", "poll", "polljobs"}
    /\ Fail(IF pc \in {"poll", "polljobs"} THEN "not-found" ELSE "follow-error")
    /\ FetchOver
    /\ UNCHANGED <<gitlabVars, batch, opt, run, tickVars, failures, ledger,
                   last, shown, badReads>>

-----------------------------------------------------------------------------
(* The deadline, and the next invocation.                                  *)

\* asyncio.timeout cancels whichever await the coroutine is suspended at.
Timeout ==
    /\ opt.timeout
    /\ pc \in AwaitPCs
    /\ End("timeout", last.pipe,
           IF last.kind = "snapshot" THEN last.status ELSE None, 0)
    /\ batch' = Cancelled
    /\ FetchOver
    /\ UNCHANGED <<gitlabVars, opt, run, tickVars, failures, ledger, last,
                   shown, badReads>>

\* The process has ended, or is killed at any point, and attach is run again:
\* nothing is carried over.  (A POST still on its way is taken to have reached
\* GitLab first; that it is seen late is what an unseen record stands for.)
Reinvoke ==
    /\ run < MaxRuns
    /\ \A e \in DOMAIN batch : batch[e] # "sent"
    /\ run' = run + 1
    /\ pc' = "resolve"
    /\ batch' = NoBatch
    /\ prev' = NoTick /\ curr' = NoTick /\ target' = NoTarget /\ page' = NoPage
    /\ failures' = 0 /\ badReads' = 0 /\ ledger' = EmptyLedger
    /\ last' = NoEvent /\ shown' = [pipe |-> 0, status |-> None] /\ result' = NoResult
    /\ UNCHANGED <<gitlabVars, opt>>

Ended ==
    /\ pc = "done"
    /\ UNCHANGED vars

GitLabStep ==
    /\ GitLabNext
    /\ UNCHANGED <<batch, opt, run, pc, tickVars, fetchVars, failures, ledger,
                   reportVars, badReads>>

\* Everything the engine's own task does when an answer or a sleep ends.
EngineStep ==
    \/ ResolveOk \/ ResolveNone \/ WaitOver \/ StartError \/ LoadJobs
    \/ ReadFirstPage \/ Tick \/ TallyOk \/ TallyError \/ BatchDone \/ Teardown
    \/ SleepOver \/ FollowList \/ FollowError \/ FollowSwitch
    \/ PollPipeline \/ PollJobs \/ PollError \/ UncaughtError
    \/ \E e \in DOMAIN batch : BatchBroken(e)

Init ==
    /\ GitLabInit
    /\ batch = NoBatch
    /\ opt \in Options
    /\ run = 1
    /\ pc = "resolve"
    /\ prev = NoTick /\ curr = NoTick /\ target = NoTarget /\ page = NoPage
    /\ failures = 0 /\ badReads = 0 /\ ledger = EmptyLedger
    /\ last = NoEvent /\ shown = [pipe |-> 0, status |-> None] /\ result = NoResult

Next == GitLabStep \/ EngineStep \/ BatchStep \/ Timeout \/ Reinvoke \/ Ended

Spec == Init /\ [][Next]_vars
=============================================================================
