-------------------------- MODULE AttachProperties --------------------------
(***************************************************************************)
(* What must be true of the attach engine, whatever GitLab does.           *)
(***************************************************************************)
EXTENDS Attach

MintedBy(k) == {r \in DOMAIN recs : recs[r].by = k}
Minted == {r \in DOMAIN recs : recs[r].by # 0}
SameJob(r, n, p) == recs[r].name = n /\ recs[r].pipe = p

TickType == [pipe : Nat, status : Status, jobs : SUBSET Entry]

\* The control state of the coroutine, the ticks it holds, the ledger and the
\* report.
RunTypeOK ==
    /\ opt \in Options
    /\ run \in 1 .. MaxRuns
    /\ pc \in PCs
    /\ prev \in TickType /\ curr \in TickType
    /\ target \in [pipe : Nat, status : Status]
    /\ page \in [rows : SUBSET Entry, upto : Nat]
    /\ failures \in 0 .. MaxFailures
    /\ badReads \in 0 .. MaxFailures
    /\ ledger \in [posted : SUBSET Nat, issued : Nat]
    /\ last \in [kind : EventKinds \cup {None}, pipe : Nat, status : Status]
    /\ shown \in [pipe : Nat, status : Status]
    /\ result \in [reason : {None, "terminal", "timeout"} \cup Errors,
                   pipe : Nat, status : Status, retries : Nat]

\* Every variable of the run, of its batch and of GitLab has its type; the count
\* of failed polls stays below its limit (core/attach.py _poll_pipeline).
TypeOK == GitLabTypeOK /\ BatchTypeOK /\ RunTypeOK

-----------------------------------------------------------------------------
(* The inductive invariant.                                                *)

\* What the engine holds where: a batch only around its POSTs, a pipeline
\* GitLab has once it watches or fetches one, a spare failure until it ends.
ControlOK ==
    /\ pc \notin {"post", "dying", "done"} => batch = NoBatch
    /\ curr.pipe \in DOMAIN pstat \cup {0}
    /\ pc \in PCs \ {"resolve", "wait", "jobs", "done"} => curr.pipe \in DOMAIN pstat
    /\ pc \in {"jobs", "followjobs", "polljobs"} => target.pipe \in DOMAIN pstat
    /\ pc # "done" => failures < MaxFailures
    /\ badReads <= failures

\* Every row the engine holds is of a record GitLab has.
RowsOK ==
    /\ IsFiniteSet(curr.jobs) /\ IsFiniteSet(page.rows)
    /\ \A e \in curr.jobs \cup page.rows \cup DOMAIN batch : e.id \in DOMAIN recs

\* The retries GitLab accepted from this run are those the ledger counts and
\* those its batch still has to report; the batch fits into the budget as if all
\* of it were accepted.
BudgetOK ==
    /\ \A r \in DOMAIN recs : recs[r].by <= run
    /\ opt.total # 0 => ledger.issued + Cardinality(DOMAIN batch) <= opt.total
    /\ Truthful =>
          Cardinality(MintedBy(run)) = ledger.issued + Cardinality(Accepted)

\* The invariant behind the proof of BudgetHolds: types, control, rows, budget
\* (core/attach.py _apply_retry_policy, _RetryLedger.total_issued).
RunInvariant == TypeOK /\ ControlOK /\ RowsOK /\ BudgetOK

-----------------------------------------------------------------------------
(* Retries.                                                                *)

\* A pipeline's job list fits on one page.  Otherwise a retry between two page
\* reads shifts a job onto both pages and into the list twice.
OnePage == Len(JobNames) <= PageSize

\* --retry-total bounds the jobs GitLab really created for a run, including
\* those whose answer was lost or cancelled by the deadline, which the ledger
\* never counts (core/attach.py _RetryLedger, RetryPolicy.total).  Stated where
\* an error status means that GitLab did nothing.
BudgetHolds ==
    Truthful /\ opt.total # 0 => Cardinality(MintedBy(run)) <= opt.total

\* No run has the same failed record retried twice, however late GitLab shows
\* the first retry, and whether or not its answer was an error
\* (core/attach.py _RetryLedger.posted_job_ids).
OneRetryPerRecord ==
    OnePage => \A r, s \in Minted :
        recs[r].by = recs[s].by /\ recs[r].of = recs[s].of => r = s

\* Every record of pipeline p, retried ones included, fits on one page.
FitsOnePage(p) ==
    Cardinality({r \in DOMAIN recs : recs[r].pipe = p}) <= PageSize

\* --retry-attempts bounds the retries one run makes of a job name in a
\* pipeline, although the tally cannot see a retry GitLab does not show yet
\* (core/attach.py _within_budget, core/retry.py tally_attempts).  Stated for a
\* pipeline whose tally is read at once.
AttemptsHold ==
    OnePage /\ opt.attempts # 0 =>
        \A r \in Minted :
            FitsOnePage(recs[r].pipe) =>
                Cardinality({s \in MintedBy(recs[r].by) :
                    SameJob(s, recs[r].name, recs[r].pipe)}) <= opt.attempts

\* What README.md line 260 says without that premise ("up to --retry-attempts
\* per job name"): a record that appears between two page reads of the tally
\* pushes the oldest attempt off the pages it reads (client.py _get_all).
AttemptsHoldAlways ==
    opt.attempts # 0 =>
        \A r \in Minted :
            Cardinality({s \in MintedBy(recs[r].by) :
                SameJob(s, recs[r].name, recs[r].pipe)}) <= opt.attempts

\* The ledger dies with its run, the records do not: as long as GitLab shows
\* what it accepted, re-invoking attach never exceeds --retry-attempts either
\* (core/retry.py tally_attempts counts every recorded attempt).
AttemptsHoldAcrossRuns ==
    OnePage /\ Prompt /\ opt.attempts # 0 =>
        \A r \in Minted :
            FitsOnePage(recs[r].pipe) =>
                Cardinality({s \in Minted :
                    SameJob(s, recs[r].name, recs[r].pipe)}) <= opt.attempts

\* The rows the engine holds are of the pipeline they were asked of, and shown.
AreOf(rows, p) == \A e \in rows : recs[e.id].pipe = p /\ recs[e.id].seen
UniqueIds(rows) == \A e, f \in rows : e.id = f.id => e = f

\* A POST of the batch that GitLab may still accept.
Open(e) == batch[e] \in {"waiting", "sent"}

\* Behind the proof of the three: which rows the engine holds, and that an
\* unfinished listing of several pages has seen that there are several.
ListingsOK ==
    /\ AreOf(curr.jobs, curr.pipe) /\ AreOf(DOMAIN batch, curr.pipe)
    /\ AreOf(page.rows, IF pc = "tally" THEN curr.pipe ELSE target.pipe)
    /\ pc \notin ListingPCs => page = NoPage
    /\ pc = "tally" /\ page # NoPage => ~FitsOnePage(curr.pipe)
    /\ OnePage => /\ pc # "tally" => page = NoPage
                  /\ UniqueIds(curr.jobs) /\ UniqueIds(DOMAIN batch)

\* Every retry made for this run is of a record its ledger remembers or its
\* batch is about to add; neither is posted again.
LedgerOK ==
    OnePage =>
        /\ \A e \in DOMAIN batch : e.id \notin ledger.posted
        /\ \A r \in MintedBy(run) :
              \/ recs[r].of \in ledger.posted
              \/ \E e \in DOMAIN batch : e.id = recs[r].of /\ ~Open(e)
        /\ OneRetryPerRecord

\* A retry is of a record of the same job that GitLab shows.
LineageOK ==
    \A r \in Minted :
        /\ recs[r].of \in DOMAIN recs
        /\ SameJob(recs[r].of, recs[r].name, recs[r].pipe)
        /\ recs[recs[r].of].seen

\* A POST that may still be accepted has room below the limit, and is the only
\* one of its job.
AttemptsOK ==
    OnePage /\ opt.attempts # 0 =>
        /\ \A e, f \in DOMAIN batch : JobName(e) = JobName(f) => e = f
        /\ \A e \in DOMAIN batch :
              Open(e) /\ FitsOnePage(curr.pipe) =>
                  Cardinality({r \in MintedBy(run) :
                      SameJob(r, JobName(e), curr.pipe)}) < opt.attempts
        /\ AttemptsHold

\* The same for all runs, where every record is shown and every job has a first
\* attempt that is nobody's retry.
AcrossOK ==
    Prompt =>
        /\ \A r \in DOMAIN recs :
              /\ recs[r].seen
              /\ \E s \in DOMAIN recs :
                    SameJob(s, recs[r].name, recs[r].pipe) /\ recs[s].by = 0
        /\ OnePage /\ opt.attempts # 0 =>
              \A e \in DOMAIN batch :
                  Open(e) /\ FitsOnePage(curr.pipe) =>
                      Cardinality({r \in Minted :
                          SameJob(r, JobName(e), curr.pipe)}) < opt.attempts
        /\ AttemptsHoldAcrossRuns

\* A verdict is announced over a retry of this run that is still running.
VerdictDespiteRetry ==
    /\ result.reason = "terminal"
    /\ \E r \in MintedBy(run) :
          recs[r].pipe = result.pipe /\ recs[r].status = "active"

\* That never happens when GitLab shows an accepted retry in its next answer,
\* also when a retry is accepted in every tick (core/attach.py lines 497-509).
\* Stated for a job list of one page: a job that two pages list is posted twice,
\* and only the newer of its retries counts for the pipeline.
VerdictAfterRetries == OnePage /\ Prompt => ~VerdictDespiteRetry

\* Retries of this run that are running in pipeline p.
Running(p) ==
    {r \in MintedBy(run) : recs[r].pipe = p /\ recs[r].status = "active"}

\* Behind its proof.  GitLab: a pipeline it reports as finished has no running
\* job in its list.
PipesOK == \A r \in DOMAIN recs : recs[r].pipe \in DOMAIN pstat
ReportedOK ==
    \A p \in DOMAIN pstat :
        pstat[p] \in Finished => \A r \in Live(recs, p) : recs[r].status # "active"

\* A retry of this run that is running is in the list of its pipeline.
RunningLive ==
    \A r \in MintedBy(run) :
        recs[r].status = "active" => r \in Live(recs, recs[r].pipe)

\* The first page of a longer tally has the newest of this run's running retries.
TallyOK ==
    pc = "tally" /\ page # NoPage =>
        \A r \in Running(curr.pipe) :
            \/ \E f \in page.rows : f.id = r
            \/ /\ \A f \in page.rows : f.id > r
               /\ Cardinality({s \in Attempts(recs, curr.pipe) : s > r}) >= PageSize

\* A row that had ended when it was read is of a record that has.
RowsTell == \A e \in curr.jobs : e.st # "active" => recs[e.id].status = e.st

\* The POSTs of a batch are of different jobs, and none that may still be
\* accepted is of a job whose retry is running.
BatchApart ==
    /\ \A e, f \in DOMAIN batch : JobName(e) = JobName(f) => e = f
    /\ \A e \in DOMAIN batch :
          Open(e) => \A r \in Running(curr.pipe) : recs[r].name # JobName(e)

\* Together: as long as a retry of this run is running, GitLab's answers tell.
RunningOK ==
    OnePage /\ Prompt =>
        PipesOK /\ ReportedOK /\ RunningLive /\ TallyOK /\ RowsTell /\ BatchApart

\* What the engine has read of a finished pipeline was read when no retry of
\* this run was running there, unless one of the tick's own batch is.
FinishedReads ==
    /\ pc \in {"resolve", "wait", "jobs"} => MintedBy(run) = {}
    /\ pc \in {"polljobs", "followjobs"} /\ target.status \in Finished =>
          Running(target.pipe) = {}
    /\ pc \in {"tick", "tally"} /\ curr.status \in Finished => Running(curr.pipe) = {}
    /\ pc = "post" /\ curr.status \in Finished =>
          Running(curr.pipe) = {} \/ Accepted # {}
    /\ result.reason = "terminal" =>
          pc = "done" /\ batch = NoBatch /\ Running(result.pipe) = {}

VerdictOK == OnePage /\ Prompt => FinishedReads

\* What the comment there and DEVELOPER.md line 429 say without that premise:
\* such a pipeline "reads as terminal only for one more tick".
VerdictAfterRetriesAlways == Truthful => ~VerdictDespiteRetry

\* A failed job of pipeline p that nothing but the total budget kept this run
\* from retrying.
Untried(r, p) ==
    /\ recs[r].status = "failed"
    /\ recs[r].name \notin AllowFailure \cup opt.exclude
    /\ r \notin ledger.posted
    /\ opt.attempts # 0 =>
          Cardinality({s \in Attempts(recs, p) : recs[s].name = recs[r].name})
              <= opt.attempts

\* With --retry, a run that ends with a verdict leaves no failed job untried
\* unless it has asked for as many retries as --retry-total allows.  Stated
\* where nobody else creates jobs after the last read.
NoFailureLeftBehind ==
    mode = "calm" /\ opt.retry /\ result.reason = "terminal" =>
        \A r \in Live(recs, result.pipe) :
            Untried(r, result.pipe) =>
                opt.total # 0 /\ Cardinality(ledger.posted) >= opt.total

\* Behind its proof, in a calm GitLab.  No job of the pipeline's list is running.
AtRest(p) == \A r \in Live(recs, p) : recs[r].status # "active"

\* A job whose failure fails the pipeline.
Blocks(r) == recs[r].status = "failed" /\ recs[r].name \notin AllowFailure

\* A pipeline that is or has been success stays so: nobody retries its jobs.
GreenOK ==
    \A p \in DOMAIN pstat :
        p \in green \/ pstat[p] = "success" =>
            AtRest(p) /\ \A r \in Live(recs, p) : ~Blocks(r)

\* What has been read of a listing has not changed in the meantime.
PageOK ==
    page # NoPage =>
        /\ pc \in ListingPCs
        /\ page.upto = RowsOfPages(Requested)
        /\ {e.id : e \in page.rows} = FirstPage(Requested)
        /\ UniqueIds(page.rows)
        /\ \A e \in page.rows : e.st # "active" => recs[e.id].status = e.st
        /\ pc # "tally" /\ target.status \in Finished =>
              \A e \in page.rows : recs[e.id].status = e.st

\* A POST that may still be accepted is of a job of the list that has failed, and
\* the only one of its job.
BatchCalm ==
    /\ UniqueIds(DOMAIN batch)
    /\ \A e, f \in DOMAIN batch : JobName(e) = JobName(f) => e = f
    /\ \A e \in DOMAIN batch :
          Open(e) => e.id \in Live(recs, curr.pipe) /\ Blocks(e.id)

\* The tick is GitLab's list of its pipeline, at rest.
TickTells ==
    /\ AtRest(curr.pipe)
    /\ {e.id : e \in curr.jobs} = Live(recs, curr.pipe)
    /\ \A e \in curr.jobs : recs[e.id].status = e.st

\* The batch has what could be tried, or all that the budget has left.
BatchIsAll ==
    \/ opt.total # 0 /\ ledger.issued + Cardinality(DOMAIN batch) >= opt.total
    \/ \A r \in Live(recs, curr.pipe) :
          Untried(r, curr.pipe) => \E e \in DOMAIN batch : e.id = r

\* The ledger remembers at least the records it counts, and none of the batch.
PostedOK ==
    /\ IsFiniteSet(ledger.posted)
    /\ Cardinality(ledger.posted) >= ledger.issued
    /\ \A e \in DOMAIN batch : e.id \notin ledger.posted

\* What was read of a finished pipeline stays true, up to the verdict.
CalmReads ==
    /\ pc \in {"jobs", "polljobs", "followjobs"} /\ target.status \in Finished =>
          AtRest(target.pipe)
    /\ pc \in {"tick", "tally"} /\ curr.status \in Finished => TickTells
    /\ pc = "post" /\ curr.status \in Finished /\ Accepted = {} =>
          TickTells /\ BatchIsAll
    /\ result.reason = "terminal" =>
          /\ pc = "done" /\ batch = NoBatch
          /\ result.pipe \in DOMAIN pstat /\ AtRest(result.pipe)
          /\ NoFailureLeftBehind

CalmOK ==
    mode = "calm" =>
        /\ PipesOK /\ ReportedOK /\ RowsTell /\ GreenOK
        /\ PageOK /\ UniqueIds(curr.jobs) /\ BatchCalm /\ PostedOK /\ CalmReads

\* The same, counting what --retry-total counts: retries that were accepted.
\* A rejected POST gives its share of the budget back only at the next tick, and
\* on a finished pipeline there is none (core/attach.py lines 207-237, 501-509).
BudgetLeftIsUsed ==
    mode = "calm" /\ opt.retry /\ result.reason = "terminal" =>
        \A r \in Live(recs, result.pipe) :
            Untried(r, result.pipe) => opt.total # 0 /\ ledger.issued >= opt.total

\* One job that cannot be retried does not keep the others of its batch from
\* being sent (docstring of retry_jobs, core/retry.py lines 57-59).
BadJobSparesTheRest ==
    ~opt.timeout /\ pc = "done" => \A e \in DOMAIN batch : batch[e] # "dropped"

\* Every status the engine starts or goes on from is what GitLab says of that
\* pipeline at that moment (fresh=True in core/attach.py lines 359-366; the
\* docstring of core/pipeline.py get_pipeline, lines 78-80).
StatusIsCurrent ==
    [][target'.pipe # 0 /\ target' # target =>
          target'.status = pstat[target'.pipe]]_vars

-----------------------------------------------------------------------------
(* The event stream.                                                       *)

\* Whenever the engine is suspended in the poll loop, the events emitted so far
\* add up to the tick it holds: same pipeline, same status, across switches and
\* skipped ticks; a verdict or a timeout result never contradicts them.
StreamMatchesTick ==
    /\ pc \in AwaitPCs \ {"resolve", "wait", "jobs"} =>
          shown = [pipe |-> curr.pipe, status |-> curr.status]
    /\ result.reason \in {"terminal", "timeout"} =>
          /\ result.pipe = shown.pipe
          /\ result.status \in {shown.status, None}

\* Behind the proof of StreamMatchesTick: what the stream has told is the tick,
\* or the one before while a tick is diffed; the last event, which a timeout
\* reports, is of the same pipeline and, if it names a status, of the same status.
StreamOK ==
    /\ StreamMatchesTick
    /\ pc = "dying" => shown = [pipe |-> curr.pipe, status |-> curr.status]
    /\ pc = "tick" /\ prev # NoTick =>
          prev.pipe = curr.pipe /\ shown = [pipe |-> prev.pipe, status |-> prev.status]
    /\ pc \notin {"tick", "done"} \/ (pc = "tick" /\ prev # NoTick) =>
          /\ last.pipe = shown.pipe
          /\ last.kind = "snapshot" => last.status = shown.status

\* The run gives up on polling only when MAX_CONSECUTIVE_POLL_FAILURES reads in
\* a row have failed, with no tick acquired in between.  Stated without
\* --follow: a switch acquires a tick and leaves the counter as it is.
GivesUpOnlyInARow ==
    ~opt.follow /\ result.reason = "poll-error" => badReads >= MaxFailures

\* Behind its proof: without --follow both counts are one.
FailuresOK ==
    /\ ~opt.follow => badReads = failures /\ pc \notin {"follow", "followjobs"}
    /\ GivesUpOnlyInARow

-----------------------------------------------------------------------------
(* The contract a run implements.                                          *)

Contract == INSTANCE RunContract WITH
    Limits <- {o.total : o \in Options},
    limit <- opt.total,
    exact <- Truthful,
    phase <- IF pc = "done" THEN "ended"
             ELSE IF curr.pipe = 0 THEN "starting" ELSE "watching",
    watched <- curr.pipe,
    spent <- Cardinality(MintedBy(run)),
    verdict <- IF result.reason = "terminal"
               THEN [pipe |-> result.pipe, retries |-> result.retries]
               ELSE [pipe |-> 0, retries |-> 0]

\* Every step of the engine, of GitLab and of the batch is a step of the
\* contract or changes nothing it talks about.
ImplementsContract == Contract!ContractSpec

\* Behind its proof: a run reports once and at its end, holds no tick before it
\* watches a pipeline, and moves only forward.
ReportOK ==
    /\ pc # "done" => result = NoResult
    /\ pc \in {"resolve", "wait", "jobs"} => curr = NoTick
    /\ pc = "followjobs" => target.pipe > curr.pipe
    /\ pc = "polljobs" => target.pipe = curr.pipe

\* The retries the engine counts or is about to hear of are some of those that
\* GitLab has made; it is told of fewer where an error may hide one.
SpentOK == ledger.issued + Cardinality(Accepted) <= Cardinality(MintedBy(run))

-----------------------------------------------------------------------------
(* Liveness.                                                               *)

\* The steps that await nothing but the event loop.
LocalStep == Tick \/ Teardown \/ BatchDone

\* Without --timeout every request ends (httpx bounds it with its own timeout)
\* and GitLab gets on with its work.  With --timeout nothing of that is assumed,
\* only that asyncio's timer fires at one of the awaits after the deadline.
LiveSpec ==
    /\ Spec
    /\ WF_vars(LocalStep)
    /\ SF_vars(Timeout)
    /\ WF_vars(~opt.timeout /\ EngineStep)
    /\ WF_vars(~opt.timeout /\ BatchStep)
    /\ WF_vars(~opt.timeout /\ CreatePipeline /\ GitLabStep)
    /\ WF_vars(~opt.timeout /\ GitLabStep /\ \E r \in DOMAIN recs : JobFinishes(r))
    /\ WF_vars(~opt.timeout /\ GitLabStep /\ \E r \in DOMAIN recs : Publish(r))
    /\ WF_vars(~opt.timeout /\ GitLabStep /\ \E p \in DOMAIN pstat : UpdateStatus(p))

\* Every run ends: with a result or with an error.
RunEnds == <>(pc = "done")
=============================================================================
