----------------------------- MODULE AttachProofs -----------------------------
(***************************************************************************)
(* For every policy, every number of jobs, pipelines, failures, runs and   *)
(* concurrent requests: the types of the attach engine, its total retry    *)
(* budget, its contract, the retries it makes, and in the second half the  *)
(* verdict it ends with.                                                   *)
(*                                                                         *)
(* The budget is not inductive: BudgetHolds counts records GitLab made,    *)
(* the engine counts answers it got.  BudgetOK relates the two through the *)
(* requests in between, which needs the rows of the batch to be records    *)
(* (RowsOK) and the batch to be gone when the next is made (ControlOK).    *)
(***************************************************************************)
EXTENDS AttachProperties, GitLabProofs

-----------------------------------------------------------------------------
(* The engine's types.                                                     *)

\* The awaits at which the coroutine may be suspended, one by one.
LEMMA PCsAre ==
  PCs = {"resolve", "jobs", "tally", "post", "follow", "followjobs", "poll",
         "polljobs", "wait", "sleep", "tick", "dying", "done"}
  BY DEF PCs, AwaitPCs, RequestPCs, SleepPCs

\* The types of what the steps compute with, out of the type invariant.
LEMMA ConstantTypes ==
  ASSUME RunTypeOK
  PROVE  /\ opt.total \in Nat /\ MaxFailures \in Nat /\ MaxFailures > 0
         /\ run \in Nat /\ run > 0 /\ MaxRuns \in Nat
         /\ ledger.issued \in Nat /\ ledger.posted \subseteq Nat
         /\ failures \in Nat /\ badReads \in Nat
         /\ curr.jobs \subseteq Entry /\ curr.pipe \in Nat /\ curr.status \in Status
  BY AttachAssumption DEF RunTypeOK, Option, TickType

\* The statuses of GitLab's pipelines.
LEMMA PipelineRead ==
  ASSUME GitLabTypeOK, NEW p \in DOMAIN pstat
  PROVE  pstat[p] \in Status /\ p \in Nat /\ p # 0
  BY LenProperties, ElementOfSeq DEF GitLabTypeOK, Status

\* A listing is finite, well typed, and lists records GitLab has.
LEMMA JobListProperties ==
  ASSUME RunInvariant
  PROVE  /\ JobList \subseteq Entry /\ IsFiniteSet(JobList)
         /\ \A e \in JobList : e.id \in DOMAIN recs
         /\ Rows(recs, FirstPage(Requested), 1) \subseteq Entry
         /\ IsFiniteSet(Rows(recs, FirstPage(Requested), 1))
         /\ \A e \in Rows(recs, FirstPage(Requested), 1) : e.id \in DOMAIN recs
<1>1. Requested \subseteq DOMAIN recs
  BY DEF Requested, Live, Attempts
<1>2. /\ FirstPage(Requested) \subseteq DOMAIN recs
      /\ Newest(Requested, page.upto) \ FirstPage(Requested) \subseteq DOMAIN recs
  BY <1>1 DEF FirstPage, Newest
<1>3. GitLabTypeOK /\ page.rows \subseteq Entry /\ IsFiniteSet(page.rows)
      /\ \A e \in page.rows : e.id \in DOMAIN recs
  BY DEF RunInvariant, TypeOK, RunTypeOK, RowsOK
<1> DEFINE rest == Rows(recs, Newest(Requested, page.upto) \ FirstPage(Requested), 2)
<1>4. /\ Rows(recs, Requested, 1) \subseteq Entry
      /\ IsFiniteSet(Rows(recs, Requested, 1))
      /\ \A e \in Rows(recs, Requested, 1) : e.id \in DOMAIN recs
  BY <1>1, <1>3, RowsProperties
<1>5. /\ Rows(recs, FirstPage(Requested), 1) \subseteq Entry
      /\ IsFiniteSet(Rows(recs, FirstPage(Requested), 1))
      /\ \A e \in Rows(recs, FirstPage(Requested), 1) : e.id \in DOMAIN recs
  BY <1>2, <1>3, RowsProperties
<1>6. /\ rest \subseteq Entry /\ IsFiniteSet(rest)
      /\ \A e \in rest : e.id \in DOMAIN recs
  BY <1>2, <1>3, RowsProperties
<1>7. IsFiniteSet(page.rows \cup rest)
  BY <1>3, <1>6, FS_Union
<1>8. JobList = Rows(recs, Requested, 1) \/ JobList = page.rows \cup rest
  BY DEF JobList
<1> HIDE DEF rest
<1>9. QED  BY <1>3, <1>4, <1>5, <1>6, <1>7, <1>8

\* The number of rows a listing of several pages goes up to.
LEMMA PagesAreCounted ==
  ASSUME RunInvariant
  PROVE  RowsOfPages(Requested) \in Nat
<1>1. GitLabTypeOK /\ Requested \subseteq DOMAIN recs
  BY DEF RunInvariant, TypeOK, Requested, Live, Attempts
<1>2. IsFiniteSet(Requested)
  <2>1. Len(recs) \in Nat /\ DOMAIN recs = 1 .. Len(recs)
    BY <1>1, LenProperties DEF GitLabTypeOK
  <2>2. IsFiniteSet(DOMAIN recs)
    BY <2>1, FS_Interval
  <2>3. QED  BY <1>1, <2>2, FS_Subset
<1>3. Cardinality(Requested) \in Nat /\ PageSize \in Nat \ {0}
  BY <1>2, FS_CardinalityType, GitLabAssumption
<1>4. Cardinality(Requested) + PageSize - 1 \in Nat
  BY <1>3
<1>5. (Cardinality(Requested) + PageSize - 1) \div PageSize \in Nat
  BY <1>3, <1>4
<1>6. QED  BY <1>3, <1>5 DEF RowsOfPages

\* The two ways a tick may end.
LEMMA ConcludeEnds ==
  ASSUME RunTypeOK, NEW n \in Nat, NEW m \in Nat, Conclude(n, m)
  PROVE  /\ pc' \in {"sleep", "done"}
         /\ result' \in [reason : {None, "terminal", "timeout"} \cup Errors,
                        pipe : Nat, status : Status, retries : Nat]
  BY ConstantTypes DEF RunTypeOK, Conclude, End

-----------------------------------------------------------------------------
(* Steps that do not touch GitLab, the batch or the ledger.                *)

\* A step that leaves GitLab, the batch and the ledger as they are keeps the
\* invariant, if what it has read names records that exist.
LEMMA QuietStep ==
  ASSUME RunInvariant, RunTypeOK', ControlOK',
         UNCHANGED <<gitlabVars, batch, opt, run, ledger>>,
         IsFiniteSet(curr'.jobs), IsFiniteSet(page'.rows),
         \A e \in curr'.jobs \cup page'.rows : e.id \in DOMAIN recs
  PROVE  RunInvariant'
<1> USE DEF RunInvariant, TypeOK, gitlabVars
<1>1. GitLabTypeOK' /\ BatchTypeOK'
  BY DEF GitLabTypeOK, BatchTypeOK
<1>2. RowsOK'
  BY DEF RowsOK
<1>3. BudgetOK'
  BY DEF BudgetOK, MintedBy, Accepted, Truthful
<1>4. QED  BY <1>1, <1>2, <1>3

\* The same where the engine also keeps what it has read, or drops a page.
LEMMA QuietUnread ==
  ASSUME RunInvariant, RunTypeOK', ControlOK',
         UNCHANGED <<gitlabVars, batch, opt, run, ledger, curr>>,
         page' = page \/ page' = NoPage
  PROVE  RunInvariant'
<1>1. IsFiniteSet(curr.jobs) /\ \A e \in curr.jobs : e.id \in DOMAIN recs
  BY DEF RunInvariant, RowsOK
<1>2. IsFiniteSet(page.rows) /\ \A e \in page.rows : e.id \in DOMAIN recs
  BY DEF RunInvariant, RowsOK
<1>3. IsFiniteSet(NoPage.rows) /\ NoPage.rows = {}
  BY FS_EmptySet DEF NoPage
<1>4. IsFiniteSet(page'.rows) /\ \A e \in page'.rows : e.id \in DOMAIN recs
  BY <1>2, <1>3
<1>5. IsFiniteSet(curr'.jobs) /\ \A e \in curr'.jobs : e.id \in DOMAIN recs
  BY <1>1
<1>6. QED  BY <1>4, <1>5, QuietStep

\* The same where a listing is complete and becomes the tick.
LEMMA QuietRead ==
  ASSUME RunInvariant, RunTypeOK', ControlOK',
         UNCHANGED <<gitlabVars, batch, opt, run, ledger>>,
         curr'.jobs = JobList, page' = NoPage
  PROVE  RunInvariant'
<1>1. /\ IsFiniteSet(curr'.jobs) /\ IsFiniteSet(page'.rows)
      /\ \A e \in curr'.jobs \cup page'.rows : e.id \in DOMAIN recs
  BY JobListProperties, FS_EmptySet DEF NoPage
<1>2. QED  BY <1>1, QuietStep

\* Resolving or waiting for the pipeline, and the first tick, keep the invariant.
LEMMA StartKeeps ==
  ASSUME RunInvariant,
         ResolveOk \/ ResolveNone \/ WaitOver \/ StartError \/ LoadJobs
  PROVE  RunInvariant'
<1> USE PCsAre, ConstantTypes DEF tickVars, fetchVars, reportVars
<1>0. RunTypeOK /\ ControlOK /\ GitLabTypeOK
  BY DEF RunInvariant, TypeOK
<1>1. CASE ResolveOk
  <2>1. pstat[Resolved] \in Status /\ Resolved \in Nat /\ Resolved \in DOMAIN pstat
    BY <1>0, <1>1, PipelineRead DEF ResolveOk
  <2>2. PICK s \in StatusFound(Resolved) :
           /\ target' = [pipe |-> Resolved, status |-> s]
           /\ last' = [kind |-> "snapshot", pipe |-> Resolved, status |-> s]
           /\ shown' = [pipe |-> Resolved, status |-> s]
    BY <1>1 DEF ResolveOk
  <2>3. s \in Status
    BY <2>1 DEF StatusFound, Status, PipelineStatus, Finished
  <2>4. RunTypeOK'
    BY <1>0, <1>1, <2>1, <2>2, <2>3 DEF ResolveOk, RunTypeOK, EventKinds
  <2>5. ControlOK'
    BY <1>0, <1>1, <2>1, <2>2 DEF ResolveOk, ControlOK, gitlabVars
  <2>6. QED  BY <1>1, <2>4, <2>5, QuietUnread DEF ResolveOk
<1>2. CASE ResolveNone
  <2>1. RunTypeOK'
    BY <1>0, <1>2 DEF ResolveNone, RunTypeOK, Fail, End, Errors, Status
  <2>2. ControlOK'
    BY <1>0, <1>2 DEF ResolveNone, ControlOK, Fail, End, gitlabVars
  <2>3. QED  BY <1>2, <2>1, <2>2, QuietUnread DEF ResolveNone
<1>3. CASE WaitOver
  <2>1. RunTypeOK'
    BY <1>0, <1>3 DEF WaitOver, RunTypeOK
  <2>2. ControlOK'
    BY <1>0, <1>3 DEF WaitOver, ControlOK, gitlabVars
  <2>3. QED  BY <1>3, <2>1, <2>2, QuietUnread DEF WaitOver
<1>4. CASE StartError
  <2>1. RunTypeOK'
    BY <1>0, <1>4
    DEF StartError, RunTypeOK, Fail, End, Errors, FetchOver, NoTarget, NoPage, Status
  <2>2. ControlOK'
    BY <1>0, <1>4 DEF StartError, ControlOK, Fail, End, gitlabVars
  <2>3. QED  BY <1>4, <2>1, <2>2, QuietUnread DEF StartError, FetchOver
<1>5. CASE LoadJobs
  <2>1. RunTypeOK'
    BY <1>0, <1>5, JobListProperties
    DEF LoadJobs, RunTypeOK, TickType, FetchOver, NoTick, NoTarget, NoPage, Status
  <2>2. ControlOK'
    BY <1>0, <1>5 DEF LoadJobs, ControlOK, gitlabVars
  <2>3. curr'.jobs = JobList
    BY <1>5 DEF LoadJobs
  <2>4. QED  BY <1>5, <2>1, <2>2, <2>3, QuietRead DEF LoadJobs, FetchOver
<1>6. QED  BY <1>1, <1>2, <1>3, <1>4, <1>5

\* The tick that sends nothing, and the reads of the tally that fail.
LEMMA TickKeeps ==
  ASSUME RunInvariant,
         ReadFirstPage \/ Tick \/ TallyError \/ SleepOver
         \/ \E e \in DOMAIN batch : BatchBroken(e)
  PROVE  RunInvariant'
<1> USE PCsAre, ConstantTypes DEF tickVars, fetchVars, reportVars
<1>0. RunTypeOK /\ ControlOK /\ GitLabTypeOK
  BY DEF RunInvariant, TypeOK
<1>1. CASE ReadFirstPage
  <2>1. page' = [rows |-> Rows(recs, FirstPage(Requested), 1),
                 upto |-> RowsOfPages(Requested)]
    BY <1>1 DEF ReadFirstPage
  <2>2. RowsOfPages(Requested) \in Nat
    BY <1>0, PagesAreCounted
  <2>3. RunTypeOK'
    BY <1>0, <1>1, <2>1, <2>2, JobListProperties DEF ReadFirstPage, RunTypeOK
  <2>4. ControlOK'
    BY <1>0, <1>1 DEF ReadFirstPage, ControlOK, gitlabVars
  <2>5. /\ IsFiniteSet(curr'.jobs) /\ IsFiniteSet(page'.rows)
        /\ \A e \in curr'.jobs \cup page'.rows : e.id \in DOMAIN recs
    BY <1>1, <2>1, JobListProperties DEF ReadFirstPage, RunInvariant, RowsOK
  <2>6. QED  BY <1>1, <2>3, <2>4, <2>5, QuietStep DEF ReadFirstPage
<1>2. CASE Tick
  <2>1. /\ pc = "tick" /\ curr.pipe \in DOMAIN pstat /\ batch = NoBatch
        /\ UNCHANGED <<gitlabVars, batch, opt, run, ledger, curr, fetchVars,
                       failures, badReads>>
    BY <1>0, <1>2 DEF Tick, ControlOK
  <2>2. last' \in [kind : EventKinds \cup {None}, pipe : Nat, status : Status]
    BY <1>0, <1>2 DEF Tick, EmitTick, RunTypeOK, EventKinds, Status
  <2>3. shown' \in [pipe : Nat, status : Status]
    BY <1>0, <1>2 DEF Tick, EmitTick, RunTypeOK
  <2>4. /\ pc' \in {"tally", "sleep", "done"}
        /\ result' \in [reason : {None, "terminal", "timeout"} \cup Errors,
                       pipe : Nat, status : Status, retries : Nat]
    <3>1. CASE pc' = "tally" /\ UNCHANGED result
      BY <1>0, <3>1 DEF RunTypeOK
    <3>2. CASE Conclude(0, ledger.issued)
      BY <1>0, <3>2, ConcludeEnds
    <3>3. QED  BY <1>2, <3>1, <3>2 DEF Tick
  <2>5. prev' \in TickType
    BY <1>2 DEF Tick, NoTick, TickType, Status
  <2>6. RunTypeOK'
    BY <1>0, <2>1, <2>2, <2>3, <2>4, <2>5 DEF RunTypeOK
  <2>7. ControlOK'
    BY <1>0, <2>1, <2>4 DEF ControlOK, gitlabVars
  <2>8. QED  BY <2>1, <2>6, <2>7, QuietUnread
<1>3. CASE TallyError
  <2>1. RunTypeOK'
    BY <1>0, <1>3
    DEF TallyError, RunTypeOK, Fail, End, Errors, FetchOver, NoTarget, NoPage, Status
  <2>2. ControlOK'
    BY <1>0, <1>3 DEF TallyError, ControlOK, Fail, End, gitlabVars
  <2>3. QED  BY <1>3, <2>1, <2>2, QuietUnread DEF TallyError, FetchOver
<1>4. CASE SleepOver
  <2>1. RunTypeOK'
    BY <1>0, <1>4 DEF SleepOver, RunTypeOK
  <2>2. ControlOK'
    BY <1>0, <1>4 DEF SleepOver, ControlOK, gitlabVars
  <2>3. QED  BY <1>4, <2>1, <2>2, QuietUnread DEF SleepOver
<1>5. CASE \E e \in DOMAIN batch : BatchBroken(e)
  <2>1. /\ pc = "post" /\ pc' = "dying"
        /\ UNCHANGED <<gitlabVars, batch, opt, run, tickVars, fetchVars, failures,
                       ledger, reportVars, badReads>>
    BY <1>5 DEF BatchBroken
  <2>2. RunTypeOK'
    BY <1>0, <2>1 DEF RunTypeOK
  <2>3. ControlOK'
    BY <1>0, <2>1 DEF ControlOK, gitlabVars
  <2>4. QED  BY <2>1, <2>2, <2>3, QuietUnread
<1>6. QED  BY <1>1, <1>2, <1>3, <1>4, <1>5

\* The check for a newer pipeline.
LEMMA FollowKeeps ==
  ASSUME RunInvariant, FollowList \/ FollowError \/ FollowSwitch
  PROVE  RunInvariant'
<1> USE PCsAre, ConstantTypes DEF tickVars, fetchVars, reportVars
<1>0. RunTypeOK /\ ControlOK /\ GitLabTypeOK
  BY DEF RunInvariant, TypeOK
<1>1. CASE FollowList
  <2>1. /\ Len(pstat) \in Nat /\ DOMAIN pstat = 1 .. Len(pstat)
        /\ curr.pipe \in DOMAIN pstat
    BY <1>0, <1>1, LenProperties DEF GitLabTypeOK, FollowList, ControlOK
  <2>2. CASE Len(pstat) <= curr.pipe
    <3>1. /\ pc' = "poll"
          /\ UNCHANGED <<gitlabVars, batch, opt, run, tickVars, fetchVars, failures,
                         ledger, reportVars, badReads>>
      BY <1>1, <2>2 DEF FollowList
    <3>2. RunTypeOK'
      BY <1>0, <3>1 DEF RunTypeOK
    <3>3. ControlOK'
      BY <1>0, <1>1, <3>1 DEF FollowList, ControlOK, gitlabVars
    <3>4. QED  BY <3>1, <3>2, <3>3, QuietUnread
  <2>3. CASE ~(Len(pstat) <= curr.pipe)
    <3>1. Len(pstat) \in DOMAIN pstat
      BY <2>1, <2>3
    <3>2. pstat[Len(pstat)] \in Status
      BY <1>0, <3>1, PipelineRead
    <3>3. /\ pc' = "followjobs"
          /\ target' = [pipe |-> Len(pstat), status |-> pstat[Len(pstat)]]
          /\ UNCHANGED <<gitlabVars, batch, opt, run, tickVars, page, failures,
                         ledger, reportVars, badReads>>
      BY <1>1, <2>3 DEF FollowList
    <3>4. RunTypeOK'
      BY <1>0, <2>1, <3>2, <3>3 DEF RunTypeOK
    <3>5. ControlOK'
      BY <1>0, <1>1, <3>1, <3>3 DEF FollowList, ControlOK, gitlabVars
    <3>6. QED  BY <3>3, <3>4, <3>5, QuietUnread
  <2>4. QED  BY <2>2, <2>3
<1>2. CASE FollowError
  <2>1. RunTypeOK'
    BY <1>0, <1>2 DEF FollowError, RunTypeOK, FetchOver, NoTarget, NoPage, Status
  <2>2. ControlOK'
    BY <1>0, <1>2 DEF FollowError, ControlOK, gitlabVars
  <2>3. QED  BY <1>2, <2>1, <2>2, QuietUnread DEF FollowError, FetchOver
<1>3. CASE FollowSwitch
  <2>1. curr' = [pipe |-> target.pipe, status |-> target.status, jobs |-> JobList]
    BY <1>3 DEF FollowSwitch, SwitchTo
  <2>2. RunTypeOK'
    BY <1>0, <1>3, <2>1, JobListProperties
    DEF FollowSwitch, SwitchTo, RunTypeOK, TickType, FetchOver, NoTick, NoTarget,
        NoPage, Status, EventKinds
  <2>3. ControlOK'
    BY <1>0, <1>3, <2>1 DEF FollowSwitch, ControlOK, RunTypeOK, gitlabVars
  <2>4. curr'.jobs = JobList
    BY <2>1
  <2>5. QED  BY <1>3, <2>2, <2>3, <2>4, QuietRead DEF FollowSwitch, FetchOver
<1>4. QED  BY <1>1, <1>2, <1>3

\* The poll, its failures, and what nothing catches.
LEMMA PollKeeps ==
  ASSUME RunInvariant,
         PollPipeline \/ PollJobs \/ PollError \/ UncaughtError \/ Ended
  PROVE  RunInvariant'
<1> USE PCsAre, ConstantTypes DEF tickVars, fetchVars, reportVars
<1>0. RunTypeOK /\ ControlOK /\ GitLabTypeOK
  BY DEF RunInvariant, TypeOK
<1>1. CASE PollPipeline
  <2>1. curr.pipe \in DOMAIN pstat
    BY <1>0, <1>1 DEF PollPipeline, ControlOK
  <2>2. pstat[curr.pipe] \in Status
    BY <1>0, <2>1, PipelineRead
  <2>3. RunTypeOK'
    BY <1>0, <1>1, <2>2 DEF PollPipeline, RunTypeOK
  <2>4. ControlOK'
    BY <1>0, <1>1, <2>1 DEF PollPipeline, ControlOK, gitlabVars
  <2>5. QED  BY <1>1, <2>3, <2>4, QuietUnread DEF PollPipeline
<1>2. CASE PollJobs
  <2>1. curr' = [pipe |-> target.pipe, status |-> target.status, jobs |-> JobList]
    BY <1>2 DEF PollJobs
  <2>2. RunTypeOK'
    BY <1>0, <1>2, <2>1, JobListProperties
    DEF PollJobs, FailuresReset, RunTypeOK, TickType, FetchOver, NoTarget, NoPage,
        Status
  <2>3. ControlOK'
    BY <1>0, <1>2, <2>1 DEF PollJobs, FailuresReset, ControlOK, gitlabVars
  <2>4. curr'.jobs = JobList
    BY <2>1
  <2>5. QED  BY <1>2, <2>2, <2>3, <2>4, QuietRead DEF PollJobs, FetchOver
<1>3. CASE PollError
  <2>1. /\ pc \in {"poll", "polljobs"} /\ curr.pipe \in DOMAIN pstat
        /\ batch = NoBatch /\ failures < MaxFailures /\ badReads <= failures
    BY <1>0, <1>3 DEF PollError, ControlOK
  <2>2. failures' = failures + 1 /\ badReads' = badReads + 1
    BY <1>3 DEF PollError
  <2>3. /\ failures' \in 0 .. MaxFailures /\ badReads' \in 0 .. MaxFailures
        /\ badReads' <= failures'
    BY <1>0, <2>1, <2>2
  <2>4. \/ pc' = "done"
        \/ pc' = "sleep" /\ failures' < MaxFailures
    BY <1>0, <1>3, <2>2 DEF PollError, GivesUp, Fail, End
  <2>5. result' \in [reason : {None, "terminal", "timeout"} \cup Errors,
                    pipe : Nat, status : Status, retries : Nat]
    BY <1>0, <1>3 DEF PollError, Fail, End, RunTypeOK, Errors, Status
  <2>6. RunTypeOK'
    BY <1>0, <1>3, <2>3, <2>4, <2>5
    DEF PollError, RunTypeOK, FetchOver, NoTarget, NoPage, Status
  <2>7. ControlOK'
    BY <1>0, <1>3, <2>1, <2>3, <2>4 DEF PollError, ControlOK, gitlabVars
  <2>8. QED  BY <1>3, <2>6, <2>7, QuietUnread DEF PollError, FetchOver
<1>4. CASE UncaughtError
  <2>1. RunTypeOK'
    BY <1>0, <1>4
    DEF UncaughtError, RunTypeOK, Fail, End, Errors, FetchOver, NoTarget, NoPage,
        Status
  <2>2. ControlOK'
    BY <1>0, <1>4 DEF UncaughtError, ControlOK, Fail, End, gitlabVars
  <2>3. QED  BY <1>4, <2>1, <2>2, QuietUnread DEF UncaughtError, FetchOver
<1>5. CASE Ended
  <2>1. UNCHANGED vars
    BY <1>5 DEF Ended
  <2>2. RunTypeOK' /\ ControlOK'
    BY <1>0, <2>1 DEF vars, RunTypeOK, ControlOK
  <2>3. QED  BY <2>1, <2>2, QuietUnread DEF vars, gitlabVars
<1>6. QED  BY <1>1, <1>2, <1>3, <1>4, <1>5

-----------------------------------------------------------------------------
(* Steps that change the batch, the ledger or GitLab.                      *)

\* No batch accepts nothing.
LEMMA NoBatchProperties ==
  /\ DOMAIN NoBatch = {} /\ IsFiniteSet(DOMAIN NoBatch)
  /\ NoBatch \in [DOMAIN NoBatch -> Phase]
  /\ {e \in DOMAIN NoBatch : NoBatch[e] \in {"accepted", "new"}} = {}
  /\ Cardinality({}) = 0
  BY FS_EmptySet DEF NoBatch

\* The ids of entries are numbers, and a batch is finite.
LEMMA BatchIsFinite ==
  ASSUME BatchTypeOK
  PROVE  /\ \A e \in DOMAIN batch : e.id \in Nat
         /\ Cardinality(DOMAIN batch) \in Nat
         /\ IsFiniteSet(Accepted) /\ Cardinality(Accepted) \in Nat
         /\ Cardinality(Accepted) <= Cardinality(DOMAIN batch)
<1>1. IsFiniteSet(DOMAIN batch) /\ \A e \in DOMAIN batch : e.id \in Nat
  BY DEF BatchTypeOK, Entry
<1>2. Accepted \subseteq DOMAIN batch
  BY DEF Accepted
<1>3. /\ IsFiniteSet(Accepted)
      /\ Cardinality(Accepted) <= Cardinality(DOMAIN batch)
  BY <1>1, <1>2, FS_Subset
<1>4. QED  BY <1>1, <1>3, FS_CardinalityType

\* The records made for a run are finitely many, so that they can be counted.
LEMMA MintedIsFinite ==
  ASSUME GitLabTypeOK, NEW k
  PROVE  IsFiniteSet(MintedBy(k))
<1>1. IsFiniteSet(DOMAIN recs)
  <2>1. Len(recs) \in Nat /\ DOMAIN recs = 1 .. Len(recs)
    BY LenProperties DEF GitLabTypeOK
  <2>2. QED  BY <2>1, FS_Interval
<1>2. QED  BY <1>1, FS_Subset DEF MintedBy

\* The end of the tally, which starts the batch, keeps the invariant.
LEMMA TallyKeeps ==
  ASSUME RunInvariant, TallyOk
  PROVE  RunInvariant'
<1> USE PCsAre, ConstantTypes DEF tickVars, fetchVars, reportVars
<1>0. RunTypeOK /\ ControlOK /\ GitLabTypeOK /\ RowsOK /\ BudgetOK
  BY DEF RunInvariant, TypeOK
<1>1. /\ pc = "tally" /\ batch = NoBatch /\ curr.pipe \in DOMAIN pstat
      /\ target' = NoTarget /\ page' = NoPage
      /\ UNCHANGED <<gitlabVars, opt, run, tickVars, failures, ledger, last,
                     shown, badReads>>
  BY <1>0 DEF TallyOk, ControlOK, FetchOver
<1>2. PICK sel \in SUBSET Eligible(JobList) :
         /\ IsSelection(sel, Eligible(JobList))
         /\ IF sel = {}
            THEN Conclude(0, ledger.issued) /\ UNCHANGED batch
            ELSE pc' = "post" /\ batch' = StartBatch(sel) /\ UNCHANGED result
  BY DEF TallyOk
<1>3. /\ target' \in [pipe : Nat, status : Status]
      /\ page' \in [rows : SUBSET Entry, upto : Nat]
  BY <1>1 DEF NoTarget, NoPage, Status
<1>4. CASE sel = {}
  <2>1. /\ pc' \in {"sleep", "done"}
        /\ result' \in [reason : {None, "terminal", "timeout"} \cup Errors,
                       pipe : Nat, status : Status, retries : Nat]
    BY <1>0, <1>2, <1>4, ConcludeEnds
  <2>2. RunTypeOK'
    BY <1>0, <1>1, <1>3, <2>1 DEF RunTypeOK
  <2>3. UNCHANGED batch
    BY <1>2, <1>4
  <2>4. ControlOK'
    BY <1>0, <1>1, <2>1, <2>3 DEF ControlOK, gitlabVars
  <2>5. QED  BY <1>1, <2>2, <2>3, <2>4, QuietUnread
<1>5. CASE sel # {}
  <2>1. pc' = "post" /\ batch' = [e \in sel |-> "waiting"] /\ result' = result
    BY <1>2, <1>5 DEF StartBatch
  <2>2. sel \subseteq curr.jobs
    BY DEF Eligible, Candidates
  <2>3. IsFiniteSet(sel)
    BY <1>0, <2>2, FS_Subset DEF RowsOK
  <2>4. GitLabTypeOK'
    BY <1>0, <1>1 DEF GitLabTypeOK, gitlabVars
  <2>5. BatchTypeOK'
    BY <1>0, <2>1, <2>2, <2>3 DEF BatchTypeOK, Phase
  <2>6. RunTypeOK'
    BY <1>0, <1>1, <1>3, <2>1 DEF RunTypeOK
  <2>7. ControlOK'
    BY <1>0, <1>1, <2>1 DEF ControlOK, gitlabVars
  <2>8. RowsOK'
    <3>1. /\ IsFiniteSet(curr'.jobs) /\ \A e \in curr'.jobs : e.id \in DOMAIN recs'
      BY <1>0, <1>1 DEF RowsOK, gitlabVars
    <3>2. IsFiniteSet(page'.rows) /\ page'.rows = {}
      BY <1>1, FS_EmptySet DEF NoPage
    <3>3. DOMAIN batch' \subseteq curr'.jobs
      BY <1>1, <2>1, <2>2
    <3>4. QED  BY <3>1, <3>2, <3>3 DEF RowsOK
  <2>9. BudgetOK'
    <3>1. Accepted = {} /\ Accepted' = {}
      BY <1>1, <2>1, NoBatchProperties DEF Accepted
    <3>2. opt.total # 0 => ledger.issued + Cardinality(sel) <= opt.total
      BY <1>2 DEF IsSelection
    <3>3. DOMAIN batch' = sel
      BY <2>1
    <3>4. QED  BY <1>0, <1>1, <3>1, <3>2, <3>3 DEF BudgetOK, MintedBy, gitlabVars, Truthful
  <2>10. QED  BY <2>4, <2>5, <2>6, <2>7, <2>8, <2>9 DEF RunInvariant, TypeOK
<1>6. QED  BY <1>4, <1>5

\* Entering the answers of a batch into the ledger keeps the invariant.
LEMMA BatchDoneKeeps ==
  ASSUME RunInvariant, BatchDone
  PROVE  RunInvariant'
<1> USE PCsAre, ConstantTypes DEF tickVars, fetchVars, reportVars
<1> DEFINE new == {e \in DOMAIN batch : batch[e] = "new"}
<1>0. /\ RunTypeOK /\ ControlOK /\ GitLabTypeOK /\ RowsOK /\ BudgetOK
      /\ BatchTypeOK
  BY DEF RunInvariant, TypeOK
<1>1. /\ pc = "post" /\ BatchSettled /\ ledger' = LedgerAfter(new)
      /\ last' = IF new = {} THEN last
                 ELSE [kind |-> "retry", pipe |-> curr.pipe, status |-> None]
      /\ Conclude(Cardinality(new), LedgerAfter(new).issued)
      /\ batch' = NoBatch
      /\ UNCHANGED <<gitlabVars, opt, run, tickVars, fetchVars, failures, shown,
                     badReads>>
  BY DEF BatchDone
<1>2. new = Accepted
  BY <1>1 DEF Accepted, BatchSettled, Settled
<1>3. /\ ledger'.posted = ledger.posted \cup {e.id : e \in DOMAIN batch}
      /\ ledger'.issued = ledger.issued + Cardinality(Accepted)
      /\ LedgerAfter(new).issued = ledger'.issued
      /\ ledger' = [posted |-> ledger'.posted, issued |-> ledger'.issued]
  BY <1>1, <1>2 DEF LedgerAfter
<1>4. /\ Cardinality(Accepted) \in Nat /\ Cardinality(DOMAIN batch) \in Nat
      /\ Cardinality(Accepted) <= Cardinality(DOMAIN batch)
      /\ {e.id : e \in DOMAIN batch} \subseteq Nat
  BY <1>0, BatchIsFinite
<1> HIDE DEF new
<1>5. ledger' \in [posted : SUBSET Nat, issued : Nat]
  BY <1>0, <1>3, <1>4
<1>6. /\ pc' \in {"sleep", "done"}
      /\ result' \in [reason : {None, "terminal", "timeout"} \cup Errors,
                     pipe : Nat, status : Status, retries : Nat]
  <2>1. Cardinality(new) \in Nat /\ LedgerAfter(new).issued \in Nat
    BY <1>2, <1>3, <1>4, <1>5
  <2>2. QED  BY <1>0, <1>1, <2>1, ConcludeEnds
<1>7. last' \in [kind : EventKinds \cup {None}, pipe : Nat, status : Status]
  BY <1>0, <1>1 DEF RunTypeOK, EventKinds, Status
<1>8. RunTypeOK'
  BY <1>0, <1>1, <1>5, <1>6, <1>7 DEF RunTypeOK
<1>9. GitLabTypeOK' /\ BatchTypeOK'
  BY <1>0, <1>1, NoBatchProperties DEF GitLabTypeOK, gitlabVars, BatchTypeOK
<1>10. ControlOK'
  BY <1>0, <1>1, <1>6 DEF ControlOK, gitlabVars
<1>11. RowsOK'
  BY <1>0, <1>1, NoBatchProperties DEF RowsOK, gitlabVars
<1>12. BudgetOK'
  <2>1. DOMAIN batch' = {} /\ Accepted' = {}
    BY <1>1, NoBatchProperties DEF Accepted
  <2>2. opt.total # 0 => ledger'.issued + 0 <= opt.total
    BY <1>0, <1>3, <1>4 DEF BudgetOK
  <2>3. Truthful => Cardinality(MintedBy(run)) = ledger'.issued + 0
    BY <1>0, <1>3, <1>4 DEF BudgetOK
  <2>4. /\ UNCHANGED <<recs, mode, opt, run>> /\ MintedBy(run)' = MintedBy(run)
    BY <1>1 DEF gitlabVars, MintedBy
  <2>5. QED
    BY <1>0, <2>1, <2>2, <2>3, <2>4, NoBatchProperties DEF BudgetOK, Truthful
<1>13. QED
  BY <1>8, <1>9, <1>10, <1>11, <1>12 DEF RunInvariant, TypeOK

\* Cancelling forgets what was not sent and keeps what GitLab has accepted.
LEMMA CancelKeeps ==
  ASSUME BatchTypeOK, batch' = Cancelled
  PROVE  BatchTypeOK' /\ DOMAIN batch' = DOMAIN batch /\ Accepted' = Accepted
  BY DEF BatchTypeOK, Cancelled, Accepted, Phase, OnWire, Settled

\* The deadline, and a batch that ends in an exception, keep the invariant.
LEMMA EndKeeps ==
  ASSUME RunInvariant, Teardown \/ Timeout
  PROVE  RunInvariant'
<1> USE PCsAre, ConstantTypes DEF tickVars, fetchVars, reportVars
<1>0. /\ RunTypeOK /\ ControlOK /\ GitLabTypeOK /\ RowsOK /\ BudgetOK
      /\ BatchTypeOK
  BY DEF RunInvariant, TypeOK
<1>1. /\ pc' = "done" /\ batch' = Cancelled
      /\ UNCHANGED <<gitlabVars, opt, run, curr, prev, failures, badReads, ledger,
                     last, shown>>
  BY DEF Teardown, Timeout, Fail, End
<1>2. page' = page \/ page' = NoPage
  BY DEF Teardown, Timeout, FetchOver
<1>3. target' \in [pipe : Nat, status : Status]
  BY <1>0 DEF Teardown, Timeout, FetchOver, RunTypeOK, NoTarget, Status
<1>4. result' \in [reason : {None, "terminal", "timeout"} \cup Errors,
                  pipe : Nat, status : Status, retries : Nat]
  BY <1>0 DEF Teardown, Timeout, Fail, End, RunTypeOK, Errors, Status
<1>5. /\ page' \in [rows : SUBSET Entry, upto : Nat]
      /\ IsFiniteSet(page'.rows) /\ \A e \in page'.rows : e.id \in DOMAIN recs
  <2>1. CASE page' = page
    BY <1>0, <2>1 DEF RunTypeOK, RowsOK
  <2>2. CASE page' = NoPage
    BY <2>2, FS_EmptySet DEF NoPage
  <2>3. QED  BY <1>2, <2>1, <2>2
<1>6. GitLabTypeOK'
  BY <1>0, <1>1 DEF GitLabTypeOK, gitlabVars
<1>7. BatchTypeOK' /\ DOMAIN batch' = DOMAIN batch /\ Accepted' = Accepted
  BY <1>0, <1>1, CancelKeeps
<1>8. RunTypeOK'
  BY <1>0, <1>1, <1>3, <1>4, <1>5 DEF RunTypeOK
<1>9. ControlOK'
  BY <1>0, <1>1 DEF ControlOK, gitlabVars
<1>10. RowsOK'
  BY <1>0, <1>1, <1>5, <1>7 DEF RowsOK, gitlabVars
<1>11. BudgetOK'
  BY <1>0, <1>1, <1>7 DEF BudgetOK, MintedBy, gitlabVars, Truthful
<1>12. QED
  BY <1>6, <1>7, <1>8, <1>9, <1>10, <1>11 DEF RunInvariant, TypeOK

\* A step of the batch's tasks that GitLab does not take part in.
LEMMA MoveKeeps ==
  ASSUME RunInvariant, NEW e \in DOMAIN batch,
         \/ pc \in {"post", "dying"} /\ (Send(e) \/ Collect(e))
         \/ Refuse(e)
  PROVE  /\ UNCHANGED gitlabVars
         /\ BatchTypeOK' /\ DOMAIN batch' = DOMAIN batch
         /\ Truthful => Accepted' = Accepted
<1>1. BatchTypeOK
  BY DEF RunInvariant, TypeOK
<1>2. CASE Send(e)
  BY <1>1, <1>2
  DEF Send, Move, BatchTypeOK, Phase, OnWire, Settled, Accepted
<1>3. CASE Collect(e)
  BY <1>1, <1>3
  DEF Collect, Move, BatchTypeOK, Phase, OnWire, Settled, Accepted
<1>4. CASE Refuse(e)
  BY <1>1, <1>4
  DEF Refuse, Move, BatchTypeOK, Phase, OnWire, Settled, Accepted
<1>5. QED  BY <1>2, <1>3, <1>4

\* A POST sent, decided by GitLab or answered keeps the invariant.
LEMMA BatchKeeps ==
  ASSUME RunInvariant, BatchStep
  PROVE  RunInvariant'
<1> USE PCsAre, ConstantTypes DEF tickVars, fetchVars, reportVars
<1>0. /\ RunTypeOK /\ ControlOK /\ GitLabTypeOK /\ RowsOK /\ BudgetOK
      /\ BatchTypeOK
  BY DEF RunInvariant, TypeOK
<1>1. UNCHANGED <<opt, run, pc, tickVars, fetchVars, failures, ledger, reportVars,
                  badReads>>
  BY DEF BatchStep
<1>2. PICK e \in DOMAIN batch :
         \/ pc \in {"post", "dying"} /\ (Send(e) \/ Collect(e))
         \/ Accept(e, run)
         \/ Refuse(e)
  BY DEF BatchStep
<1>3. pc \in {"post", "dying", "done"}
  BY <1>0, <1>2, NoBatchProperties DEF ControlOK
<1>4. RunTypeOK'
  BY <1>0, <1>1 DEF RunTypeOK
<1>5. CASE Accept(e, run)
  <2>1. /\ batch[e] = "sent" /\ Mint(e.id, run) /\ Move(e, "accepted")
        /\ e.id \in DOMAIN recs
    BY <1>0, <1>5 DEF Accept, RowsOK
  <2>2. /\ GitLabTypeOK' /\ mode' = mode /\ DOMAIN pstat' = DOMAIN pstat
        /\ DOMAIN recs' = DOMAIN recs \cup {Len(recs) + 1}
        /\ Len(recs) + 1 \notin DOMAIN recs
        /\ \A s \in DOMAIN recs : recs'[s].by = recs[s].by
        /\ recs'[Len(recs) + 1].by = run
    BY <1>0, <2>1, MintKeeps
  <2>3. BatchTypeOK' /\ DOMAIN batch' = DOMAIN batch
    BY <1>0, <2>1 DEF Move, BatchTypeOK, Phase, OnWire
  <2>4. Accepted' = Accepted \cup {e} /\ e \notin Accepted
    BY <1>0, <2>1 DEF Move, Accepted, BatchTypeOK
  <2>5. ControlOK'
    BY <1>0, <1>1, <1>3, <2>2 DEF ControlOK
  <2>6. RowsOK'
    BY <1>0, <1>1, <2>2, <2>3 DEF RowsOK
  <2>7. Cardinality(Accepted') = Cardinality(Accepted) + 1
    <3>1. IsFiniteSet(Accepted)
      BY <1>0, BatchIsFinite
    <3>2. QED  BY <2>4, <3>1, FS_AddElement
  <2>8. Cardinality(MintedBy(run)') = Cardinality(MintedBy(run)) + 1
    <3>1. MintedBy(run)' = MintedBy(run) \cup {Len(recs) + 1}
      BY <1>1, <2>2 DEF MintedBy
    <3>2. Len(recs) + 1 \notin MintedBy(run)
      BY <2>2 DEF MintedBy
    <3>3. IsFiniteSet(MintedBy(run))
      BY <1>0, MintedIsFinite
    <3>4. QED  BY <3>1, <3>2, <3>3, FS_AddElement
  <2>9. BudgetOK'
    <3>1. \A r \in DOMAIN recs' : recs'[r].by <= run'
      BY <1>0, <1>1, <2>2 DEF BudgetOK
    <3>2. Truthful' => Cardinality(MintedBy(run)') = ledger.issued + Cardinality(Accepted')
      <4>1. Cardinality(Accepted) \in Nat /\ ledger.issued \in Nat
        BY <1>0, BatchIsFinite
      <4>2. QED  BY <1>0, <2>2, <2>7, <2>8, <4>1 DEF BudgetOK, Truthful
    <3>3. QED  BY <1>0, <1>1, <2>3, <3>1, <3>2 DEF BudgetOK
  <2>10. QED
    BY <1>4, <2>2, <2>3, <2>5, <2>6, <2>9 DEF RunInvariant, TypeOK
<1>6. CASE ~Accept(e, run)
  <2>1. /\ UNCHANGED gitlabVars
        /\ BatchTypeOK' /\ DOMAIN batch' = DOMAIN batch
        /\ Truthful => Accepted' = Accepted
    BY <1>2, <1>6, MoveKeeps
  <2>2. GitLabTypeOK'
    BY <1>0, <2>1 DEF GitLabTypeOK, gitlabVars
  <2>3. ControlOK'
    BY <1>0, <1>1, <1>3, <2>1 DEF ControlOK, gitlabVars
  <2>4. RowsOK'
    BY <1>0, <1>1, <2>1 DEF RowsOK, gitlabVars
  <2>5. BudgetOK'
    BY <1>0, <1>1, <2>1 DEF BudgetOK, MintedBy, gitlabVars, Truthful
  <2>6. QED
    BY <1>4, <2>1, <2>2, <2>3, <2>4, <2>5 DEF RunInvariant, TypeOK
<1>7. QED  BY <1>5, <1>6

\* GitLab on its own creates nothing in the name of a run.
LEMMA ServerKeeps ==
  ASSUME RunInvariant, GitLabStep
  PROVE  RunInvariant'
<1> USE PCsAre, ConstantTypes DEF tickVars, fetchVars, reportVars
<1>0. /\ RunTypeOK /\ ControlOK /\ GitLabTypeOK /\ RowsOK /\ BudgetOK
      /\ BatchTypeOK
  BY DEF RunInvariant, TypeOK
<1>1. UNCHANGED <<batch, opt, run, pc, tickVars, fetchVars, failures, ledger,
                  reportVars, badReads>>
  BY DEF GitLabStep
<1>2. /\ GitLabTypeOK' /\ mode' = mode
      /\ DOMAIN pstat \subseteq DOMAIN pstat'
      /\ DOMAIN recs \subseteq DOMAIN recs'
      /\ \A r \in DOMAIN recs' :
            recs'[r].by = IF r \in DOMAIN recs THEN recs[r].by ELSE 0
  BY <1>0, GitLabKeeps DEF GitLabStep
<1>3. RunTypeOK' /\ BatchTypeOK'
  BY <1>0, <1>1 DEF RunTypeOK, BatchTypeOK
<1>4. ControlOK'
  BY <1>0, <1>1, <1>2 DEF ControlOK
<1>5. RowsOK'
  BY <1>0, <1>1, <1>2 DEF RowsOK
<1>6. MintedBy(run)' = MintedBy(run)
  BY <1>0, <1>1, <1>2 DEF MintedBy
<1>7. \A r \in DOMAIN recs' : recs'[r].by <= run'
  BY <1>0, <1>1, <1>2 DEF BudgetOK
<1>8. BudgetOK'
  BY <1>0, <1>1, <1>2, <1>6, <1>7 DEF BudgetOK, Accepted, Truthful
<1>9. QED
  BY <1>2, <1>3, <1>4, <1>5, <1>8 DEF RunInvariant, TypeOK

\* A new invocation has retried nothing yet.
LEMMA ReinvokeKeeps ==
  ASSUME RunInvariant, Reinvoke
  PROVE  RunInvariant'
<1> USE PCsAre, ConstantTypes
<1>0. /\ RunTypeOK /\ ControlOK /\ GitLabTypeOK /\ RowsOK /\ BudgetOK
      /\ BatchTypeOK
  BY DEF RunInvariant, TypeOK
<1>1. /\ run' = run + 1 /\ run < MaxRuns /\ pc' = "resolve" /\ batch' = NoBatch
      /\ curr' = NoTick /\ prev' = NoTick /\ target' = NoTarget /\ page' = NoPage
      /\ failures' = 0 /\ badReads' = 0 /\ ledger' = EmptyLedger
      /\ last' = NoEvent /\ shown' = [pipe |-> 0, status |-> None]
      /\ result' = NoResult /\ UNCHANGED <<gitlabVars, opt>>
  BY DEF Reinvoke
<1>2. RunTypeOK'
  BY <1>0, <1>1
  DEF RunTypeOK, TickType, NoTick, NoTarget, NoPage, EmptyLedger, NoEvent, NoResult,
      Status
<1>3. GitLabTypeOK' /\ BatchTypeOK'
  BY <1>0, <1>1, NoBatchProperties DEF GitLabTypeOK, gitlabVars, BatchTypeOK
<1>4. ControlOK'
  BY <1>0, <1>1 DEF ControlOK, NoTick
<1>5. RowsOK'
  BY <1>1, NoBatchProperties, FS_EmptySet DEF RowsOK, NoTick, NoPage
<1>6. BudgetOK'
  <2>1. recs' = recs /\ mode' = mode /\ opt' = opt
    BY <1>1 DEF gitlabVars
  <2>2. \A r \in DOMAIN recs : recs[r].by <= run /\ recs[r].by \in Nat
    <3>1. \A r \in DOMAIN recs : recs[r] \in Record
      BY <1>0, ElementOfSeq, LenProperties DEF GitLabTypeOK
    <3>2. QED  BY <1>0, <3>1 DEF BudgetOK, Record
  <2>3. MintedBy(run)' = {}
    BY <1>0, <1>1, <2>1, <2>2 DEF MintedBy
  <2>4. DOMAIN batch' = {} /\ Accepted' = {}
    BY <1>1, NoBatchProperties DEF Accepted
  <2>5. ledger'.issued = 0
    BY <1>1 DEF EmptyLedger
  <2>6. opt \in Option
    BY <1>0, AttachAssumption DEF RunTypeOK
  <2>7. opt.total \in Nat
    BY <2>6 DEF Option
  <2>8. \A r \in DOMAIN recs' : recs'[r].by <= run'
    BY <1>0, <1>1, <2>1, <2>2
  <2>9. QED
    BY <2>1, <2>3, <2>4, <2>5, <2>7, <2>8, NoBatchProperties DEF BudgetOK, Truthful
<1>7. QED
  BY <1>2, <1>3, <1>4, <1>5, <1>6 DEF RunInvariant, TypeOK

-----------------------------------------------------------------------------
(* The theorems.                                                           *)

\* The invariant holds when attach is called.
LEMMA InitKeeps ==
  ASSUME Init
  PROVE  RunInvariant
<1> USE PCsAre, NoBatchProperties, FS_EmptySet
<1>1. /\ recs = <<>> /\ pstat = <<>> /\ green = {} /\ mode \in Modes /\ batch = NoBatch
      /\ opt \in Options /\ run = 1 /\ pc = "resolve"
      /\ prev = NoTick /\ curr = NoTick /\ target = NoTarget /\ page = NoPage
      /\ failures = 0 /\ badReads = 0 /\ ledger = EmptyLedger
      /\ last = NoEvent /\ shown = [pipe |-> 0, status |-> None]
      /\ result = NoResult
  BY DEF Init, GitLabInit
<1>2. GitLabTypeOK /\ BatchTypeOK
  BY <1>1, EmptySeq DEF GitLabTypeOK, BatchTypeOK
<1>3. MaxRuns \in Nat \ {0} /\ MaxFailures \in Nat \ {0} /\ opt \in Option
  BY <1>1, AttachAssumption
<1>4. RunTypeOK
  BY <1>1, <1>3
  DEF RunTypeOK, TickType, NoTick, NoTarget, NoPage, EmptyLedger, NoEvent, NoResult,
      Status
<1>5. ControlOK
  BY <1>1, <1>3 DEF ControlOK, NoTick
<1>6. RowsOK
  BY <1>1 DEF RowsOK, NoTick, NoPage
<1>7. BudgetOK
  <2>1. DOMAIN recs = {} /\ MintedBy(run) = {} /\ Accepted = {} /\ DOMAIN batch = {}
    BY <1>1 DEF MintedBy, Accepted
  <2>2. opt.total \in Nat /\ ledger.issued = 0
    BY <1>1, <1>3 DEF Option, EmptyLedger
  <2>3. QED  BY <2>1, <2>2 DEF BudgetOK
<1>8. QED
  BY <1>2, <1>4, <1>5, <1>6, <1>7 DEF RunInvariant, TypeOK

\* Every step keeps the invariant: one case per phase of the tick.
LEMMA NextKeeps ==
  ASSUME RunInvariant, [Next]_vars
  PROVE  RunInvariant'
<1>1. CASE EngineStep
  <2>1. \/ ResolveOk \/ ResolveNone \/ WaitOver \/ StartError \/ LoadJobs
        \/ ReadFirstPage \/ Tick \/ TallyError \/ SleepOver
        \/ \E e \in DOMAIN batch : BatchBroken(e)
        \/ FollowList \/ FollowError \/ FollowSwitch
        \/ PollPipeline \/ PollJobs \/ PollError \/ UncaughtError
        \/ TallyOk \/ BatchDone \/ Teardown
    BY <1>1 DEF EngineStep
  <2>2. QED
    BY <2>1, StartKeeps, TickKeeps, FollowKeeps, PollKeeps, TallyKeeps,
       BatchDoneKeeps, EndKeeps
<1>2. CASE BatchStep
  BY <1>2, BatchKeeps
<1>3. CASE GitLabStep
  BY <1>3, ServerKeeps
<1>4. CASE Timeout
  BY <1>4, EndKeeps
<1>5. CASE Reinvoke
  BY <1>5, ReinvokeKeeps
<1>6. CASE Ended
  BY <1>6, PollKeeps
<1>7. CASE UNCHANGED vars
  <2>1. RunTypeOK' /\ ControlOK'
    BY <1>7 DEF vars, RunInvariant, TypeOK, RunTypeOK, ControlOK
  <2>2. QED  BY <1>7, <2>1, QuietUnread DEF vars, gitlabVars
<1>8. QED  BY <1>1, <1>2, <1>3, <1>4, <1>5, <1>6, <1>7 DEF Next

\* The inductive invariant: types, control, rows and budget.
THEOREM RunInvariantHolds == Spec => []RunInvariant
<1>1. Init => RunInvariant
  BY InitKeeps
<1>2. RunInvariant /\ [Next]_vars => RunInvariant'
  BY NextKeeps
<1>3. QED  BY <1>1, <1>2, PTL DEF Spec

\* Every variable keeps its type; in particular the count of failed polls never
\* passes its limit (core/attach.py _poll_pipeline).
THEOREM TypeCorrect == Spec => []TypeOK
<1>1. RunInvariant => TypeOK
  BY DEF RunInvariant
<1>2. QED  BY <1>1, RunInvariantHolds, PTL

\* A run never has more retries accepted than --retry-total allows, whenever it
\* is stopped and whatever the answers were (core/attach.py _RetryLedger).
THEOREM BudgetKept == Spec => []BudgetHolds
<1>1. ASSUME RunInvariant PROVE BudgetHolds
  <2>1. SUFFICES ASSUME Truthful, opt.total # 0
                 PROVE  Cardinality(MintedBy(run)) <= opt.total
    BY DEF BudgetHolds
  <2>2. BatchTypeOK /\ RunTypeOK /\ BudgetOK
    BY <1>1 DEF RunInvariant, TypeOK
  <2>3. /\ Cardinality(Accepted) \in Nat /\ Cardinality(DOMAIN batch) \in Nat
        /\ Cardinality(Accepted) <= Cardinality(DOMAIN batch)
    BY <2>2, BatchIsFinite
  <2>4. ledger.issued \in Nat /\ opt.total \in Nat
    BY <2>2, ConstantTypes
  <2>5. /\ ledger.issued + Cardinality(DOMAIN batch) <= opt.total
        /\ Cardinality(MintedBy(run)) = ledger.issued + Cardinality(Accepted)
    BY <2>1, <2>2 DEF BudgetOK
  <2>6. QED  BY <2>3, <2>4, <2>5
<1>2. QED  BY <1>1, RunInvariantHolds, PTL

-----------------------------------------------------------------------------
(***************************************************************************)
(* The attach engine implements RunContract; its event stream adds up to   *)
(* its ticks; it gives up on polling only after failures in a row.  For    *)
(* every policy, number of jobs, pipelines, runs and failures.             *)
(*                                                                         *)
(* The invariants behind the three (ReportOK, SpentOK, StreamOK,           *)
(* FailuresOK) rest on RunInvariant of AttachProofs.                       *)
(***************************************************************************)

\* What a step of the engine's own task does to GitLab, the batch and the
\* ledger: nothing, except for the three steps around a batch.
LEMMA EngineIsQuiet ==
  ASSUME \/ ResolveOk \/ ResolveNone \/ WaitOver \/ StartError \/ LoadJobs
         \/ ReadFirstPage \/ Tick \/ TallyError \/ SleepOver
         \/ FollowList \/ FollowError \/ FollowSwitch
         \/ PollPipeline \/ PollJobs \/ PollError \/ UncaughtError \/ Ended
         \/ \E e \in DOMAIN batch : BatchBroken(e)
  PROVE  UNCHANGED <<gitlabVars, batch, opt, run, ledger>>
  BY DEF ResolveOk, ResolveNone, WaitOver, StartError, LoadJobs, ReadFirstPage, Tick,
         TallyError, SleepOver, FollowList, FollowError, FollowSwitch, PollPipeline,
         PollJobs, PollError, UncaughtError, Ended, BatchBroken, vars, gitlabVars

\* How a run is reported at its end, and only there.
LEMMA EndsAre ==
  ASSUME NEW n, NEW m, Conclude(n, m)
  PROVE  \/ pc' = "sleep" /\ result' = result
         \/ /\ pc' = "done"
            /\ result' = [reason |-> "terminal", pipe |-> curr.pipe,
                          status |-> curr.status, retries |-> m]
  BY DEF Conclude, End


\* GitLab by itself makes no record in the name of a run.
LEMMA ServerMintsNothing ==
  ASSUME GitLabTypeOK, GitLabStep, run \in Nat \ {0}
  PROVE  MintedBy(run)' = MintedBy(run)
<1>1. /\ run' = run /\ DOMAIN recs \subseteq DOMAIN recs'
      /\ \A r \in DOMAIN recs' :
            recs'[r].by = IF r \in DOMAIN recs THEN recs[r].by ELSE 0
  BY GitLabKeeps DEF GitLabStep
<1>2. QED  BY <1>1 DEF MintedBy

\* The records of a run, after a step.
LEMMA MintedIsFiniteNext ==
  ASSUME GitLabTypeOK'
  PROVE  IsFiniteSet(MintedBy(run)')
<1>1. IsFiniteSet(DOMAIN recs')
  <2>1. Len(recs') \in Nat /\ DOMAIN recs' = 1 .. Len(recs')
    BY LenProperties DEF GitLabTypeOK
  <2>2. QED  BY <2>1, FS_Interval
<1>2. MintedBy(run)' \subseteq DOMAIN recs'
  BY DEF MintedBy
<1>3. QED  BY <1>1, <1>2, FS_Subset

-----------------------------------------------------------------------------
(* The report, the pipeline watched, and what has been spent.              *)

\* A run holds no tick before it watches a pipeline, and reports at its end.
LEMMA ReportKeeps ==
  ASSUME RunInvariant, ReportOK, [Next]_vars
  PROVE  ReportOK'
<1> USE DEF tickVars, fetchVars, reportVars
<1>0. /\ curr.pipe \in Nat /\ Len(pstat) \in Nat
  BY ConstantTypes, LenProperties DEF RunInvariant, TypeOK, GitLabTypeOK
<1>1. CASE \/ ResolveOk \/ ResolveNone \/ WaitOver \/ StartError \/ LoadJobs
           \/ TallyError \/ UncaughtError \/ Teardown \/ SleepOver
           \/ \E e \in DOMAIN batch : BatchBroken(e)
  BY <1>1
  DEF ReportOK, ResolveOk, ResolveNone, WaitOver, StartError, LoadJobs, TallyError,
      UncaughtError, Teardown, SleepOver, BatchBroken, Fail, End
<1>2. CASE Tick \/ TallyOk \/ BatchDone
  <2>1. pc \notin {"resolve", "wait", "jobs", "done"} /\ curr' = curr
    BY <1>2 DEF Tick, TallyOk, BatchDone
  <2>2. \/ result' = result /\ pc' \in {"tally", "post"}
        \/ \E n, m : Conclude(n, m)
    BY <1>2 DEF Tick, TallyOk, BatchDone
  <2>3. \/ pc' \in {"tally", "post", "sleep"} /\ result' = result
        \/ pc' = "done"
    BY <2>2, EndsAre
  <2>4. QED  BY <2>1, <2>3 DEF ReportOK
<1>3. CASE FollowList
  BY <1>0, <1>3 DEF ReportOK, FollowList
<1>4. CASE FollowError \/ FollowSwitch \/ PollJobs
  BY <1>4 DEF ReportOK, FollowError, FollowSwitch, PollJobs
<1>5. CASE PollPipeline \/ PollError
  BY <1>5 DEF ReportOK, PollPipeline, PollError, Fail, End
<1>6. CASE ReadFirstPage \/ BatchStep \/ GitLabStep
  BY <1>6 DEF ReportOK, ReadFirstPage, BatchStep, GitLabStep
<1>7. CASE Timeout \/ Reinvoke
  BY <1>7 DEF ReportOK, Timeout, Reinvoke, End
<1>8. CASE Ended \/ UNCHANGED vars
  BY <1>8 DEF ReportOK, Ended, vars
<1>9. QED
  BY <1>1, <1>2, <1>3, <1>4, <1>5, <1>6, <1>7, <1>8 DEF Next, EngineStep

\* A new batch, and the engine's steps between two batches, spend nothing.
LEMMA SpentUnread ==
  ASSUME SpentOK, UNCHANGED <<recs, run, ledger>>, Accepted' = Accepted
  PROVE  SpentOK'
  BY DEF SpentOK, MintedBy

\* Nothing is counted as spent that GitLab has not made.
LEMMA SpentKeeps ==
  ASSUME RunInvariant, RunInvariant', SpentOK, [Next]_vars
  PROVE  SpentOK'
<1>0. /\ RunTypeOK /\ ControlOK /\ GitLabTypeOK /\ RowsOK /\ BatchTypeOK
      /\ GitLabTypeOK' /\ BatchTypeOK'
      /\ ledger.issued \in Nat /\ run \in Nat \ {0}
  BY ConstantTypes DEF RunInvariant, TypeOK
<1>01. /\ IsFiniteSet(Accepted) /\ Cardinality(Accepted) \in Nat
       /\ IsFiniteSet(MintedBy(run)) /\ Cardinality(MintedBy(run)) \in Nat
  BY <1>0, BatchIsFinite, MintedIsFinite, FS_CardinalityType
<1>1. CASE \/ ResolveOk \/ ResolveNone \/ WaitOver \/ StartError \/ LoadJobs
           \/ ReadFirstPage \/ Tick \/ TallyError \/ SleepOver
           \/ FollowList \/ FollowError \/ FollowSwitch
           \/ PollPipeline \/ PollJobs \/ PollError \/ UncaughtError \/ Ended
           \/ \E e \in DOMAIN batch : BatchBroken(e)
  <2>1. UNCHANGED <<recs, batch, run, ledger>>
    BY <1>1, EngineIsQuiet DEF gitlabVars
  <2>2. QED  BY <2>1, SpentUnread DEF Accepted
<1>2. CASE TallyOk
  <2>1. UNCHANGED <<recs, run, ledger>> /\ batch = NoBatch
    BY <1>0, <1>2 DEF TallyOk, ControlOK, gitlabVars
  <2>2. \/ batch' = batch
        \/ \E sel : batch' = [e \in sel |-> "waiting"]
    BY <1>2 DEF TallyOk, StartBatch
  <2>3. Accepted = {} /\ Accepted' = {}
    BY <2>1, <2>2, NoBatchProperties DEF Accepted
  <2>4. QED  BY <2>1, <2>3, SpentUnread
<1>3. CASE BatchDone
  <2> DEFINE new == {e \in DOMAIN batch : batch[e] = "new"}
  <2>1. /\ recs' = recs /\ run' = run /\ batch' = NoBatch
        /\ ledger' = LedgerAfter(new)
    BY <1>3 DEF BatchDone, gitlabVars
  <2>2. new \subseteq Accepted
    BY DEF Accepted
  <2>3. Cardinality(new) \in Nat /\ Cardinality(new) <= Cardinality(Accepted)
    BY <1>01, <2>2, FS_Subset, FS_CardinalityType
  <2>4. ledger'.issued = ledger.issued + Cardinality(new)
    BY <2>1 DEF LedgerAfter
  <2> HIDE DEF new
  <2>5. Accepted' = {} /\ Cardinality({}) = 0
    BY <2>1, NoBatchProperties DEF Accepted
  <2>6. MintedBy(run)' = MintedBy(run)
    BY <2>1 DEF MintedBy
  <2>7. QED  BY <1>0, <1>01, <2>3, <2>4, <2>5, <2>6 DEF SpentOK
<1>4. CASE Teardown \/ Timeout
  <2>1. UNCHANGED <<recs, run, ledger>> /\ batch' = Cancelled
    BY <1>4 DEF Teardown, Timeout, gitlabVars
  <2>2. QED  BY <1>0, <2>1, CancelKeeps, SpentUnread
<1>5. CASE BatchStep
  <2>1. UNCHANGED <<run, ledger>>
    BY <1>5 DEF BatchStep
  <2>2. PICK e \in DOMAIN batch :
           \/ pc \in {"post", "dying"} /\ (Send(e) \/ Collect(e))
           \/ Accept(e, run)
           \/ Refuse(e)
    BY <1>5 DEF BatchStep
  <2>3. CASE Accept(e, run)
    <3>1. /\ batch[e] = "sent" /\ Mint(e.id, run) /\ Move(e, "accepted")
          /\ e.id \in DOMAIN recs
      BY <1>0, <2>3 DEF Accept, RowsOK
    <3>2. /\ DOMAIN recs' = DOMAIN recs \cup {Len(recs) + 1}
          /\ Len(recs) + 1 \notin DOMAIN recs
          /\ \A s \in DOMAIN recs : recs'[s].by = recs[s].by
          /\ recs'[Len(recs) + 1].by = run
      BY <1>0, <3>1, MintKeeps
    <3>3. Accepted' = Accepted \cup {e} /\ e \notin Accepted
      BY <1>0, <3>1 DEF Move, Accepted, BatchTypeOK
    <3>4. /\ MintedBy(run)' = MintedBy(run) \cup {Len(recs) + 1}
          /\ Len(recs) + 1 \notin MintedBy(run)
      BY <2>1, <3>2 DEF MintedBy
    <3>5. /\ Cardinality(Accepted') = Cardinality(Accepted) + 1
          /\ Cardinality(MintedBy(run)') = Cardinality(MintedBy(run)) + 1
      BY <1>01, <3>3, <3>4, FS_AddElement
    <3>6. QED  BY <1>0, <1>01, <2>1, <3>5 DEF SpentOK
  <2>4. CASE ~Accept(e, run)
    <3>1. UNCHANGED <<recs, run, ledger>> /\ Accepted' \subseteq Accepted
      BY <1>0, <2>1, <2>2, <2>4
      DEF Send, Collect, Refuse, Move, Accepted, BatchTypeOK, gitlabVars
    <3>2. /\ Cardinality(Accepted') \in Nat
          /\ Cardinality(Accepted') <= Cardinality(Accepted)
      BY <1>01, <3>1, FS_Subset, FS_CardinalityType
    <3>3. MintedBy(run)' = MintedBy(run)
      BY <3>1 DEF MintedBy
    <3>4. QED  BY <1>0, <1>01, <3>1, <3>2, <3>3 DEF SpentOK
  <2>5. QED  BY <2>3, <2>4
<1>6. CASE GitLabStep
  <2>1. MintedBy(run)' = MintedBy(run)
    BY <1>0, <1>6, ServerMintsNothing
  <2>2. UNCHANGED <<run, ledger, batch>>
    BY <1>6 DEF GitLabStep
  <2>3. QED  BY <2>1, <2>2 DEF SpentOK, Accepted
<1>7. CASE Reinvoke
  <2>1. ledger'.issued = 0 /\ batch' = NoBatch
    BY <1>7 DEF Reinvoke, EmptyLedger
  <2>2. Accepted' = {} /\ Cardinality({}) = 0
    BY <2>1, NoBatchProperties DEF Accepted
  <2>3. Cardinality(MintedBy(run)') \in Nat
    BY <1>0, MintedIsFiniteNext, FS_CardinalityType
  <2>4. QED  BY <2>1, <2>2, <2>3 DEF SpentOK
<1>8. CASE UNCHANGED vars
  BY <1>8, SpentUnread DEF vars, Accepted
<1>9. QED
  BY <1>1, <1>2, <1>3, <1>4, <1>5, <1>6, <1>7, <1>8 DEF Next, EngineStep

-----------------------------------------------------------------------------
(* Giving up.                                                              *)

\* The steps that read or count nothing of the polls leave FailuresOK alone.
LEMMA FailuresUnread ==
  ASSUME FailuresOK, UNCHANGED <<opt, failures, badReads>>,
         pc' \in {"follow", "followjobs"} => opt.follow,
         result' = result \/ result'.reason # "poll-error"
  PROVE  FailuresOK'
  BY DEF FailuresOK, GivesUpOnlyInARow

\* Every step of a run counts a failure twice, or resets both counts, unless
\* --follow is given.
LEMMA FailuresKeeps ==
  ASSUME RunInvariant, ReportOK, FailuresOK, [Next]_vars
  PROVE  FailuresOK'
<1> USE DEF tickVars, fetchVars, reportVars
<1>0. /\ failures \in Nat /\ badReads \in Nat /\ MaxFailures \in Nat \ {0}
  BY ConstantTypes, AttachAssumption DEF RunInvariant, TypeOK
<1>1. CASE \/ ResolveOk \/ ResolveNone \/ WaitOver \/ StartError \/ LoadJobs
           \/ ReadFirstPage \/ TallyError \/ UncaughtError \/ Ended \/ Teardown
           \/ \E e \in DOMAIN batch : BatchBroken(e)
  <2>1. /\ UNCHANGED <<opt, failures, badReads>>
        /\ pc' \in {"follow", "followjobs"} => pc' = pc
        /\ result' = result \/ result'.reason # "poll-error"
    BY <1>1
    DEF ResolveOk, ResolveNone, WaitOver, StartError, LoadJobs, ReadFirstPage,
        TallyError, UncaughtError, Ended, Teardown, BatchBroken, Fail, End, vars
  <2>2. QED  BY <2>1, FailuresUnread DEF FailuresOK
<1>2. CASE Tick \/ TallyOk \/ BatchDone
  <2>1. UNCHANGED <<opt, failures, badReads>>
    BY <1>2 DEF Tick, TallyOk, BatchDone
  <2>2. \/ result' = result /\ pc' \in {"tally", "post"}
        \/ \E n, m : Conclude(n, m)
    BY <1>2 DEF Tick, TallyOk, BatchDone
  <2>3. /\ pc' \notin {"follow", "followjobs"}
        /\ result' = result \/ result'.reason # "poll-error"
    BY <2>2, EndsAre
  <2>4. QED  BY <2>1, <2>3, FailuresUnread
<1>3. CASE SleepOver \/ FollowList \/ FollowError
  <2>1. /\ UNCHANGED <<opt, failures, badReads, result>>
        /\ pc' \in {"follow", "followjobs"} =>
              opt.follow \/ pc \in {"follow", "followjobs"}
    BY <1>3 DEF SleepOver, FollowList, FollowError
  <2>2. QED  BY <2>1, FailuresUnread DEF FailuresOK
<1>4. CASE FollowSwitch
  <2>1. opt.follow /\ opt' = opt
    BY <1>4 DEF FollowSwitch, FailuresOK
  <2>2. QED  BY <2>1 DEF FailuresOK, GivesUpOnlyInARow
<1>5. CASE PollPipeline \/ PollJobs
  <2>1. result' = NoResult /\ pc' \notin {"follow", "followjobs"}
    BY <1>5 DEF PollPipeline, PollJobs, ReportOK
  <2>2. opt' = opt /\ (badReads = failures => badReads' = failures')
    BY <1>5 DEF PollPipeline, PollJobs, FailuresReset
  <2>3. QED  BY <2>1, <2>2 DEF FailuresOK, GivesUpOnlyInARow, NoResult, None
<1>6. CASE PollError
  <2>1. /\ opt' = opt /\ failures' = failures + 1 /\ badReads' = badReads + 1
        /\ pc' \notin {"follow", "followjobs"}
    BY <1>6 DEF PollError, Fail, End
  <2>2. failures' >= MaxFailures \/ result' = NoResult
    BY <1>6, <2>1 DEF PollError, GivesUp, ReportOK
  <2>3. QED
    BY <1>0, <2>1, <2>2 DEF FailuresOK, GivesUpOnlyInARow, NoResult, None
<1>7. CASE BatchStep \/ GitLabStep
  BY <1>7, FailuresUnread DEF BatchStep, GitLabStep, FailuresOK
<1>8. CASE Timeout
  BY <1>8, FailuresUnread DEF Timeout, End
<1>9. CASE Reinvoke
  BY <1>9 DEF Reinvoke, FailuresOK, GivesUpOnlyInARow, NoResult, None
<1>10. CASE UNCHANGED vars
  BY <1>10, FailuresUnread DEF vars, FailuresOK
<1>11. QED
  BY <1>1, <1>2, <1>3, <1>4, <1>5, <1>6, <1>7, <1>8, <1>9, <1>10 DEF Next, EngineStep
-----------------------------------------------------------------------------
(* The event stream.                                                       *)

\* A step of GitLab or of the batch, or one that leaves what was told alone and
\* stays among the awaits of the poll loop, keeps StreamOK.
LEMMA StreamUnread ==
  ASSUME StreamOK, UNCHANGED <<prev, curr, last, shown, result>>,
         \/ pc' = pc
         \/ /\ pc \in (AwaitPCs \cup {"dying"}) \ {"resolve", "wait", "jobs"}
            /\ pc' \in AwaitPCs \cup {"dying"}
         \/ pc \in {"resolve", "wait"} /\ pc' \in {"resolve", "wait"}
  PROVE  StreamOK'
  BY PCsAre DEF StreamOK, StreamMatchesTick, AwaitPCs, RequestPCs, SleepPCs

\* An end without a verdict, by an error.
LEMMA StreamFails ==
  ASSUME pc' = "done", result'.reason \in Errors
  PROVE  StreamOK'
  BY PCsAre DEF StreamOK, StreamMatchesTick, Errors, AwaitPCs, RequestPCs, SleepPCs

\* The end of a tick, in which the stream tells what the tick holds.
LEMMA StreamConcludes ==
  ASSUME ReportOK, pc # "done", NEW n, NEW m, Conclude(n, m), curr' = curr,
         shown' = [pipe |-> curr.pipe, status |-> curr.status],
         last'.pipe = curr.pipe,
         last'.kind = "snapshot" => last'.status = curr.status
  PROVE  StreamOK'
<1>1. CASE pc' = "sleep" /\ result' = result
  BY <1>1
  DEF StreamOK, StreamMatchesTick, AwaitPCs, RequestPCs, SleepPCs, ReportOK, NoResult,
      None
<1>2. CASE /\ pc' = "done"
           /\ result' = [reason |-> "terminal", pipe |-> curr.pipe,
                         status |-> curr.status, retries |-> m]
  BY <1>2 DEF StreamOK, StreamMatchesTick, AwaitPCs, RequestPCs, SleepPCs
<1>3. QED  BY <1>1, <1>2, EndsAre

\* Every step keeps the stream in line with the tick.
LEMMA StreamKeeps ==
  ASSUME RunInvariant, ReportOK, StreamOK, [Next]_vars
  PROVE  StreamOK'
<1> USE DEF tickVars, fetchVars, reportVars
<1> DEFINE told == [pipe |-> curr.pipe, status |-> curr.status]
<1>0. /\ pc \in PCs /\ shown \in [pipe : Nat, status : Status]
      /\ pc \in PCs \ {"resolve", "wait", "jobs", "done"} =>
            curr.pipe \in Nat /\ curr.pipe # 0
  BY ConstantTypes, PipelineRead DEF RunInvariant, TypeOK, RunTypeOK, ControlOK
<1>1. CASE ResolveOk
  BY <1>1
  DEF ResolveOk, StreamOK, StreamMatchesTick, AwaitPCs, RequestPCs, SleepPCs, ReportOK,
      NoResult, None
<1>2. CASE LoadJobs
  BY <1>2
  DEF LoadJobs, StreamOK, StreamMatchesTick, AwaitPCs, RequestPCs, SleepPCs, ReportOK,
      NoResult, None
<1>3. CASE Tick
  <2>1. shown' = told
    BY <1>3 DEF Tick, EmitTick, StreamOK
  <2>2. /\ last'.pipe = curr.pipe
        /\ last'.kind = "snapshot" => last'.status = curr.status
    BY <1>3 DEF Tick, EmitTick, Changed, StreamOK
  <2>3. CASE Conclude(0, ledger.issued)
    BY <1>3, <2>1, <2>2, <2>3, StreamConcludes DEF Tick
  <2>4. CASE pc' = "tally" /\ UNCHANGED result
    BY <1>3, <2>1, <2>2, <2>4
    DEF Tick, StreamOK, StreamMatchesTick, AwaitPCs, RequestPCs, SleepPCs, ReportOK,
        NoResult, None
  <2>5. QED  BY <1>3, <2>3, <2>4 DEF Tick
<1>4. CASE TallyOk \/ BatchDone
  <2>1. /\ curr' = curr /\ prev' = prev /\ shown' = shown /\ pc \in {"tally", "post"}
    BY <1>4 DEF TallyOk, BatchDone
  <2>2. shown = told /\ last.pipe = shown.pipe
        /\ (last.kind = "snapshot" => last.status = shown.status)
    BY <2>1 DEF StreamOK, StreamMatchesTick, AwaitPCs, RequestPCs, SleepPCs
  <2>3. /\ last'.pipe = curr.pipe
        /\ last'.kind = "snapshot" => last'.status = curr.status
    BY <1>4, <2>2 DEF TallyOk, BatchDone
  <2>4. \/ result' = result /\ pc' = "post" /\ last' = last
        \/ \E n, m : Conclude(n, m)
    BY <1>4 DEF TallyOk, BatchDone
  <2>5. CASE \E n, m : Conclude(n, m)
    <3>1. PICK n, m : Conclude(n, m)
      BY <2>5
    <3>2. shown' = [pipe |-> curr.pipe, status |-> curr.status] /\ pc # "done"
      BY <2>1, <2>2
    <3>3. QED  BY <2>1, <2>3, <3>1, <3>2, StreamConcludes
  <2>6. CASE result' = result /\ pc' = "post" /\ last' = last
    BY <2>1, <2>6, <1>4, StreamUnread
    DEF AwaitPCs, RequestPCs, SleepPCs, TallyOk, BatchDone
  <2>7. QED  BY <2>4, <2>5, <2>6
<1>5. CASE FollowSwitch \/ PollJobs
  <2>1. pc' = "tick" /\ shown' = shown /\ result' = result /\ result = NoResult
    BY <1>5 DEF FollowSwitch, PollJobs, ReportOK
  <2>2. CASE FollowSwitch
    BY <2>1, <2>2
    DEF FollowSwitch, SwitchTo, StreamOK, StreamMatchesTick, AwaitPCs, RequestPCs,
        SleepPCs, NoResult, None
  <2>3. CASE PollJobs
    <3>1. /\ prev' = curr /\ curr'.pipe = target.pipe /\ target.pipe = curr.pipe
          /\ shown = told /\ last' = last /\ last.pipe = shown.pipe
          /\ (last.kind = "snapshot" => last.status = shown.status)
      BY <2>3
      DEF PollJobs, ReportOK, StreamOK, StreamMatchesTick, AwaitPCs, RequestPCs, SleepPCs
    <3>2. QED
      BY <2>1, <3>1
      DEF StreamOK, StreamMatchesTick, AwaitPCs, RequestPCs, SleepPCs, NoResult, None
  <2>4. QED  BY <1>5, <2>2, <2>3
<1>6. CASE StartError \/ TallyError \/ UncaughtError \/ Teardown
  <2>1. pc' = "done" /\ result'.reason \in Errors
    BY <1>6 DEF StartError, TallyError, UncaughtError, Teardown, Fail, End, Errors
  <2>2. QED  BY <2>1, StreamFails
<1>7. CASE ResolveNone \/ PollError
  <2>1. \/ pc' = "done" /\ result'.reason \in Errors
        \/ /\ UNCHANGED <<prev, curr, last, shown, result>>
           /\ \/ pc = "resolve" /\ pc' = "wait"
              \/ pc \in {"poll", "polljobs"} /\ pc' = "sleep"
    BY <1>7 DEF ResolveNone, PollError, Fail, End, Errors
  <2>2. QED
    BY <2>1, StreamFails, StreamUnread DEF AwaitPCs, RequestPCs, SleepPCs
<1>8. CASE \/ WaitOver \/ ReadFirstPage \/ SleepOver \/ FollowList \/ FollowError
           \/ PollPipeline \/ \E e \in DOMAIN batch : BatchBroken(e)
  <2>1. /\ UNCHANGED <<prev, curr, last, shown, result>>
        /\ \/ pc' = pc
           \/ pc = "wait" /\ pc' = "resolve"
           \/ /\ pc \in {"sleep", "follow", "followjobs", "poll", "post"}
              /\ pc' \in {"follow", "followjobs", "poll", "polljobs", "sleep", "dying"}
    BY <1>8
    DEF WaitOver, ReadFirstPage, SleepOver, FollowList, FollowError, PollPipeline,
        BatchBroken
  <2>2. QED  BY <2>1, StreamUnread DEF AwaitPCs, RequestPCs, SleepPCs
<1>9. CASE BatchStep \/ GitLabStep \/ Ended \/ UNCHANGED vars
  BY <1>9, StreamUnread DEF BatchStep, GitLabStep, Ended, vars
<1>10. CASE Timeout
  BY <1>10, PCsAre
  DEF Timeout, End, StreamOK, StreamMatchesTick, AwaitPCs, RequestPCs, SleepPCs
<1>11. CASE Reinvoke
  BY <1>11
  DEF Reinvoke, StreamOK, StreamMatchesTick, AwaitPCs, RequestPCs, SleepPCs, NoTick,
      NoEvent, NoResult, None
<1>12. QED
  BY <1>1, <1>2, <1>3, <1>4, <1>5, <1>6, <1>7, <1>8, <1>9, <1>10, <1>11
  DEF Next, EngineStep
-----------------------------------------------------------------------------
(* The contract.                                                           *)

\* The kinds of step the contract knows, in the engine's variables: none ...
LEMMA Stutters ==
  ASSUME UNCHANGED <<opt, mode, result>>, MintedBy(run)' = MintedBy(run),
         pc' = "done" <=> pc = "done", curr'.pipe = curr.pipe
  PROVE  UNCHANGED Contract!contractVars
  BY DEF Contract!contractVars, Truthful

\* ... an end without a verdict ...
LEMMA Aborts ==
  ASSUME UNCHANGED <<opt, mode, curr>>, MintedBy(run)' = MintedBy(run),
         pc # "done", pc' = "done", result = NoResult, result'.reason # "terminal"
  PROVE  Contract!Abort
  BY DEF Contract!Abort, Truthful, NoResult, None

\* ... and the end of a tick, with the verdict on its pipeline or without an end.
LEMMA Concludes ==
  ASSUME UNCHANGED <<opt, mode, curr>>, MintedBy(run)' = MintedBy(run),
         pc # "done", curr.pipe # 0, result = NoResult,
         NEW n, NEW m \in Nat, Conclude(n, m),
         Cardinality(MintedBy(run)) \in Nat, m <= Cardinality(MintedBy(run)),
         Truthful => m = Cardinality(MintedBy(run))
  PROVE  Contract!Conclude \/ UNCHANGED Contract!contractVars
<1>1. CASE pc' = "sleep" /\ result' = result
  BY <1>1, Stutters
<1>2. CASE /\ pc' = "done"
           /\ result' = [reason |-> "terminal", pipe |-> curr.pipe,
                         status |-> curr.status, retries |-> m]
  <2>1. m \in 0 .. Cardinality(MintedBy(run))
    OBVIOUS
  <2>2. Truthful' = Truthful /\ opt'.total = opt.total
    BY DEF Truthful
  <2>3. QED  BY <1>2, <2>1, <2>2 DEF Contract!Conclude
<1>3. QED  BY <1>1, <1>2, EndsAre

\* Every step is a step of the contract, or changes nothing it talks about.
LEMMA StepSimulates ==
  ASSUME RunInvariant, RunInvariant', ReportOK, SpentOK, SpentOK', [Next]_vars
  PROVE  [Contract!ContractNext]_(Contract!contractVars)
<1> USE DEF tickVars, fetchVars, reportVars, gitlabVars, Contract!ContractNext
<1> DEFINE spent == Cardinality(MintedBy(run))
<1>0. /\ RunTypeOK /\ ControlOK /\ GitLabTypeOK /\ RowsOK /\ BatchTypeOK /\ BudgetOK
      /\ BatchTypeOK' /\ BudgetOK' /\ GitLabTypeOK'
      /\ ledger.issued \in Nat /\ opt.total \in Nat /\ run \in Nat \ {0}
      /\ spent \in Nat /\ Cardinality(Accepted) \in Nat /\ curr.pipe \in Nat
  BY ConstantTypes, BatchIsFinite, MintedIsFinite, FS_CardinalityType
  DEF RunInvariant, TypeOK
<1>01. pc \in PCs \ {"resolve", "wait", "jobs", "done"} => curr.pipe # 0
  BY <1>0, PipelineRead DEF ControlOK
<1>1. CASE \/ ResolveOk \/ WaitOver \/ ReadFirstPage \/ SleepOver \/ FollowList
           \/ FollowError \/ PollPipeline \/ \E e \in DOMAIN batch : BatchBroken(e)
           \/ pc' # "done" /\ (ResolveNone \/ PollError)
  <2>1. /\ UNCHANGED <<opt, mode, result, curr, recs, run>>
        /\ pc # "done" /\ pc' # "done"
    BY <1>1
    DEF ResolveOk, ResolveNone, WaitOver, ReadFirstPage, SleepOver, FollowList,
        FollowError, PollPipeline, PollError, BatchBroken, ListingPCs, Fail, End
  <2>2. QED  BY <2>1, Stutters DEF MintedBy
<1>2. CASE \/ StartError \/ TallyError \/ UncaughtError \/ Teardown \/ Timeout
           \/ pc' = "done" /\ (ResolveNone \/ PollError)
  <2>1. /\ UNCHANGED <<opt, mode, curr, recs, run>>
        /\ pc # "done" /\ pc' = "done" /\ result'.reason # "terminal"
    BY <1>2
    DEF StartError, TallyError, UncaughtError, Teardown, Timeout, ResolveNone,
        PollError, Fail, End, AwaitPCs, RequestPCs, SleepPCs
  <2>2. QED  BY <2>1, Aborts DEF MintedBy, ReportOK
<1>3. CASE LoadJobs
  <2>1. /\ UNCHANGED <<opt, mode, recs, run, result>>
        /\ pc = "jobs" /\ pc' = "tick" /\ curr'.pipe = target.pipe
        /\ curr.pipe = 0 /\ target.pipe \in Nat \ {0}
    BY <1>0, <1>3, PipelineRead DEF LoadJobs, ReportOK, ControlOK, NoTick
  <2>2. Truthful' = Truthful /\ MintedBy(run)' = MintedBy(run)
    BY <2>1 DEF Truthful, MintedBy
  <2>3. QED  BY <2>1, <2>2 DEF Contract!Watch
<1>4. CASE FollowSwitch
  <2>1. /\ UNCHANGED <<opt, mode, recs, run, result>>
        /\ pc = "followjobs" /\ pc' = "tick" /\ curr'.pipe = target.pipe
        /\ target.pipe > curr.pipe /\ target.pipe \in Nat /\ target.pipe # 0
    BY <1>0, <1>4, PipelineRead DEF FollowSwitch, SwitchTo, ReportOK, ControlOK
  <2>2. Truthful' = Truthful /\ MintedBy(run)' = MintedBy(run)
    BY <2>1 DEF Truthful, MintedBy
  <2>3. curr.pipe # 0
    BY <1>01, <2>1, PCsAre
  <2>4. QED  BY <2>1, <2>2, <2>3 DEF Contract!Move
<1>5. CASE PollJobs
  <2>1. /\ UNCHANGED <<opt, mode, recs, run, result>>
        /\ pc # "done" /\ pc' # "done" /\ curr'.pipe = curr.pipe
    BY <1>5 DEF PollJobs, ReportOK
  <2>2. QED  BY <2>1, Stutters DEF MintedBy
<1>6. CASE Tick \/ TallyOk
  <2>1. /\ UNCHANGED <<opt, mode, recs, run, curr, ledger>>
        /\ pc \in {"tick", "tally"}
        /\ (pc' # "done" /\ result' = result) \/ Conclude(0, ledger.issued)
    BY <1>6 DEF Tick, TallyOk
  <2>2. MintedBy(run)' = MintedBy(run) /\ curr.pipe # 0 /\ result = NoResult
    BY <1>01, <2>1, PCsAre DEF MintedBy, ReportOK
  <2>3. Accepted = {} /\ Cardinality({}) = 0
    BY <1>0, <2>1, NoBatchProperties DEF ControlOK, Accepted
  <2>4. ledger.issued <= spent /\ (Truthful => ledger.issued = spent)
    BY <1>0, <2>3 DEF SpentOK, BudgetOK
  <2> HIDE DEF spent
  <2>5. CASE Conclude(0, ledger.issued)
    BY <1>0, <2>1, <2>2, <2>4, <2>5, Concludes DEF spent
  <2>6. CASE pc' # "done" /\ result' = result
    BY <2>1, <2>2, <2>6, Stutters
  <2>7. QED  BY <2>1, <2>5, <2>6
<1>7. CASE BatchDone
  <2> DEFINE new == {e \in DOMAIN batch : batch[e] = "new"}
  <2>1. /\ UNCHANGED <<opt, mode, recs, run, curr>> /\ pc = "post"
        /\ Conclude(Cardinality(new), LedgerAfter(new).issued)
        /\ ledger' = LedgerAfter(new) /\ batch' = NoBatch
    BY <1>7 DEF BatchDone
  <2>2. MintedBy(run)' = MintedBy(run) /\ curr.pipe # 0 /\ result = NoResult
    BY <1>01, <2>1, PCsAre DEF MintedBy, ReportOK
  <2>3. Accepted' = {} /\ Cardinality({}) = 0
    BY <2>1, NoBatchProperties DEF Accepted
  <2>4. Truthful' = Truthful
    BY <2>1 DEF Truthful
  <2>5. ledger'.issued \in Nat
    BY ConstantTypes DEF RunInvariant, TypeOK, RunTypeOK
  <2>6. ledger'.issued <= spent /\ (Truthful => ledger'.issued = spent)
    BY <1>0, <2>2, <2>3, <2>4, <2>5 DEF SpentOK, BudgetOK
  <2> HIDE DEF spent, new
  <2>7. QED  BY <1>0, <2>1, <2>2, <2>5, <2>6, Concludes DEF spent
<1>8. CASE BatchStep
  <2>1. UNCHANGED <<opt, run, pc, curr, result, ledger>>
    BY <1>8 DEF BatchStep
  <2>2. PICK e \in DOMAIN batch :
           \/ pc \in {"post", "dying"} /\ (Send(e) \/ Collect(e))
           \/ Accept(e, run)
           \/ Refuse(e)
    BY <1>8 DEF BatchStep
  <2>3. CASE Accept(e, run)
    <3>1. Mint(e.id, run) /\ e.id \in DOMAIN recs /\ pc \in {"post", "dying", "done"}
      BY <1>0, <2>3, NoBatchProperties DEF Accept, RowsOK, ControlOK
    <3>2. /\ DOMAIN recs' = DOMAIN recs \cup {Len(recs) + 1}
          /\ Len(recs) + 1 \notin DOMAIN recs
          /\ \A s \in DOMAIN recs : recs'[s].by = recs[s].by
          /\ recs'[Len(recs) + 1].by = run /\ mode' = mode
      BY <1>0, <3>1, MintKeeps
    <3>3. /\ MintedBy(run)' = MintedBy(run) \cup {Len(recs) + 1}
          /\ Len(recs) + 1 \notin MintedBy(run)
      BY <2>1, <3>2 DEF MintedBy
    <3>4. Cardinality(MintedBy(run)') = spent + 1
      BY <1>0, <3>3, MintedIsFinite, FS_AddElement
    <3>5. Truthful /\ opt.total # 0 => spent + 1 <= opt.total
      <4>1. SUFFICES ASSUME Truthful, opt.total # 0 PROVE spent + 1 <= opt.total
        OBVIOUS
      <4>2. /\ Cardinality(MintedBy(run)') = ledger.issued + Cardinality(Accepted')
            /\ ledger.issued + Cardinality(DOMAIN batch') <= opt.total
        BY <1>0, <2>1, <3>2, <4>1 DEF BudgetOK, Truthful
      <4>3. /\ Cardinality(Accepted') <= Cardinality(DOMAIN batch')
            /\ Cardinality(Accepted') \in Nat /\ Cardinality(DOMAIN batch') \in Nat
        <5>1. IsFiniteSet(DOMAIN batch') /\ Accepted' \subseteq DOMAIN batch'
          BY <1>0 DEF BatchTypeOK, Accepted
        <5>2. QED  BY <5>1, FS_Subset, FS_CardinalityType
      <4>4. QED  BY <1>0, <3>4, <4>2, <4>3
    <3>6. ~(pc # "done" /\ curr.pipe = 0)
      BY <1>01, <3>1, PCsAre
    <3>7. Truthful' = Truthful
      BY <3>2 DEF Truthful
    <3>8. Truthful /\ opt.total # 0 => spent < opt.total
      BY <1>0, <3>5
    <3>9. Contract!Spend
      BY <2>1, <3>4, <3>6, <3>7, <3>8, Zenon DEF Contract!Spend
    <3>10. QED  BY <3>9
  <2>4. CASE ~Accept(e, run)
    <3>1. UNCHANGED <<recs, mode>>
      BY <2>2, <2>4 DEF Send, Collect, Refuse
    <3>2. QED  BY <2>1, <3>1, Stutters DEF MintedBy
  <2>5. QED  BY <2>3, <2>4
<1>9. CASE GitLabStep
  <2>1. MintedBy(run)' = MintedBy(run) /\ mode' = mode
    BY <1>0, <1>9, ServerMintsNothing, GitLabKeeps DEF GitLabStep
  <2>2. UNCHANGED <<opt, result, pc, curr>>
    BY <1>9 DEF GitLabStep
  <2>3. QED  BY <2>1, <2>2, Stutters
<1>10. CASE Reinvoke
  <2>1. /\ UNCHANGED <<opt, mode, recs>> /\ run' = run + 1 /\ pc' = "resolve"
        /\ curr' = NoTick /\ result' = NoResult
    BY <1>10 DEF Reinvoke
  <2>2. MintedBy(run)' = {}
    BY <1>0, <2>1 DEF MintedBy, BudgetOK
  <2>3. Cardinality(MintedBy(run)') = 0 /\ Truthful' = Truthful
    BY <2>1, <2>2, NoBatchProperties DEF Truthful
  <2>4. QED
    BY <2>1, <2>3 DEF Contract!Restart, Contract!NoVerdict, NoTick, NoResult, None
<1>11. CASE Ended \/ UNCHANGED vars
  <2>1. UNCHANGED <<opt, mode, recs, run, pc, curr, result>>
    BY <1>11 DEF Ended, vars
  <2>2. QED  BY <2>1, Stutters DEF MintedBy
<1>12. CASE ResolveNone \/ PollError
  <2>1. CASE pc' = "done"
    BY <1>2, <1>12, <2>1
  <2>2. CASE pc' # "done"
    BY <1>1, <1>12, <2>2
  <2>3. QED  BY <2>1, <2>2
<1>13. QED
  BY <1>1, <1>2, <1>3, <1>4, <1>5, <1>6, <1>7, <1>8, <1>9, <1>10, <1>11, <1>12
  DEF Next, EngineStep

\* Where the invariants and the contract start.
LEMMA ContractStarts ==
  ASSUME Init
  PROVE  Contract!ContractInit /\ ReportOK /\ SpentOK /\ FailuresOK /\ StreamOK
<1> USE DEF Init, GitLabInit
<1>1. MintedBy(run) = {} /\ Accepted = {} /\ ledger.issued = 0
  BY NoBatchProperties DEF MintedBy, Accepted, EmptyLedger
<1>2. Cardinality({}) = 0 /\ Truthful \in BOOLEAN
  BY FS_EmptySet DEF Truthful
<1>3. Contract!ContractInit
  <2>1. opt.total \in {o.total : o \in Options}
    OBVIOUS
  <2>2. /\ (IF pc = "done" THEN "ended"
            ELSE IF curr.pipe = 0 THEN "starting" ELSE "watching") = "starting"
        /\ curr.pipe = 0 /\ result.reason # "terminal"
    BY DEF NoTick, NoResult, None
  <2>3. Cardinality(MintedBy(run)) = 0
    BY <1>1, <1>2
  <2>4. (IF result.reason = "terminal"
         THEN [pipe |-> result.pipe, retries |-> result.retries]
         ELSE [pipe |-> 0, retries |-> 0]) = [pipe |-> 0, retries |-> 0]
    BY <2>2
  <2>5. QED
    BY <1>2, <2>1, <2>2, <2>3, <2>4, Zenon
    DEF Contract!ContractInit, Contract!NoVerdict
<1>4. SpentOK
  <2>1. Cardinality(MintedBy(run)) = 0 /\ Cardinality(Accepted) = 0
    BY <1>1, <1>2
  <2>2. QED  BY ONLY <2>1, <1>1 DEF SpentOK
<1>5. ReportOK
  BY DEF ReportOK
<1>6. FailuresOK
  <2>1. result.reason # "poll-error"
    BY DEF NoResult, None
  <2>2. badReads = failures /\ pc \notin {"follow", "followjobs"}
    OBVIOUS
  <2>3. QED  BY <2>1, <2>2, Zenon DEF FailuresOK, GivesUpOnlyInARow
<1>7. StreamOK
  BY DEF StreamOK, StreamMatchesTick, AwaitPCs, RequestPCs, SleepPCs, NoResult, NoEvent,
         None
<1>8. QED  BY <1>3, <1>4, <1>5, <1>6, <1>7

\* The three invariants behind the theorems below, which hold of every run.
LEMMA RunsReport == Spec => [](ReportOK /\ SpentOK /\ FailuresOK /\ StreamOK)
<1>1. Init => ReportOK /\ SpentOK /\ FailuresOK /\ StreamOK
  BY ContractStarts
<1>2. /\ RunInvariant /\ RunInvariant' /\ [Next]_vars
      /\ ReportOK /\ SpentOK /\ FailuresOK /\ StreamOK
      => (ReportOK /\ SpentOK /\ FailuresOK /\ StreamOK)'
  BY ReportKeeps, SpentKeeps, FailuresKeeps, StreamKeeps
<1>3. QED  BY <1>1, <1>2, RunInvariantHolds, PTL DEF Spec

\* Wherever the engine is suspended in its poll loop, the events emitted so far
\* add up to the tick it holds, and no verdict or timeout result contradicts them
\* (core/attach.py _emit_tick, AttachTimeout).
THEOREM StreamTold == Spec => []StreamMatchesTick
<1>1. StreamOK => StreamMatchesTick
  BY DEF StreamOK
<1>2. QED  BY <1>1, RunsReport, PTL

\* Without --follow a run gives up on polling only after
\* MAX_CONSECUTIVE_POLL_FAILURES reads that failed in a row (core/attach.py
\* _poll_pipeline).
THEOREM GivesUpInARow == Spec => []GivesUpOnlyInARow
<1>1. FailuresOK => GivesUpOnlyInARow
  BY DEF FailuresOK
<1>2. QED  BY <1>1, RunsReport, PTL

\* A run of the engine, with all its polling, batches and failures, is a run of
\* RunContract: one pipeline at a time and only forward to a newer one, never more
\* retries than the budget, one end, and a verdict that reports the pipeline
\* watched and exactly the retries spent where answers can be believed.
THEOREM ContractImplemented == Spec => ImplementsContract
<1>1. Init => Contract!ContractInit
  BY ContractStarts
<1>2. /\ RunInvariant /\ RunInvariant' /\ [Next]_vars
      /\ ReportOK /\ SpentOK /\ SpentOK'
      => [Contract!ContractNext]_(Contract!contractVars)
  BY StepSimulates
<1>3. QED
  BY <1>1, <1>2, RunInvariantHolds, RunsReport, PTL
  DEF Spec, ImplementsContract, Contract!ContractSpec

-----------------------------------------------------------------------------
(***************************************************************************)
(* What the ledger and the tally of the attach engine promise, for every   *)
(* policy, number of jobs, pipelines, runs and concurrent requests: no     *)
(* record is retried twice by a run, and --retry-attempts holds for a run  *)
(* and, where GitLab shows what it accepted, for all runs together.        *)
(*                                                                         *)
(* The argument counts records.  The retries a run has made are of as many *)
(* different records (LedgerOK), all of the same job and all shown         *)
(* (LineageOK); the candidate is shown too and none of them, so the tally  *)
(* has counted at least one record more than there are retries.            *)
(***************************************************************************)

(* Listings.                                                               *)

\* A pipeline has no more jobs in its list than there are names.
LEMMA LiveFits ==
  ASSUME GitLabTypeOK, OnePage, NEW p
  PROVE  FirstPage(Live(recs, p)) = Live(recs, p)
<1> DEFINE L == Live(recs, p)
<1>1. /\ L \in SUBSET DOMAIN recs
      /\ Cardinality(L) <= Cardinality(Name)
      /\ Cardinality(Name) <= Len(JobNames) /\ Cardinality(Name) \in Nat
  BY LiveIsSmall
<1>2. Cardinality(L) \in Nat
  BY <1>1, RecordSetIsFinite
<1>3. PageSize \in Nat /\ Len(JobNames) \in Nat
  BY GitLabAssumption, LenProperties
<1>4. Cardinality(L) <= PageSize
  BY <1>1, <1>2, <1>3 DEF OnePage
<1>5. QED  BY <1>1, <1>4, FitsOnce

\* All attempts of a pipeline that fits on a page are on its first page.
LEMMA AttemptsFit ==
  ASSUME GitLabTypeOK, NEW p, FitsOnePage(p)
  PROVE  FirstPage(Attempts(recs, p)) = Attempts(recs, p)
<1> DEFINE A == Attempts(recs, p)
           R == {r \in DOMAIN recs : recs[r].pipe = p}
<1>1. A \in SUBSET R /\ R \in SUBSET DOMAIN recs
  BY DEF Attempts
<1>2. Cardinality(R) <= PageSize
  BY DEF FitsOnePage
<1> HIDE DEF A, R
<1>3. /\ IsFiniteSet(R) /\ Cardinality(R) \in Nat
      /\ A \in SUBSET DOMAIN recs /\ Cardinality(A) \in Nat
  BY <1>1, RecordSetIsFinite
<1>4. Cardinality(A) <= Cardinality(R)
  BY <1>1, <1>3, FS_Subset
<1>5. Cardinality(A) <= PageSize
  BY <1>2, <1>3, <1>4, GitLabAssumption
<1>6. QED  BY <1>3, <1>5, FitsOnce DEF A

\* A pipeline that fits on a page has always done so.
LEMMA FitsBefore ==
  ASSUME RecordsStay, GitLabTypeOK, GitLabTypeOK', NEW p, FitsOnePage(p)'
  PROVE  FitsOnePage(p)
<1> DEFINE R == {r \in DOMAIN recs : recs[r].pipe = p}
           S == {r \in DOMAIN recs' : recs'[r].pipe = p}
<1>1. R \in SUBSET S /\ S \in SUBSET DOMAIN recs' /\ R \in SUBSET DOMAIN recs
  BY DEF RecordsStay
<1>2. Cardinality(S) <= PageSize
  BY DEF FitsOnePage
<1> HIDE DEF R, S
<1>3. IsFiniteSet(S) /\ Cardinality(S) \in Nat
  <2>1. Len(recs') \in Nat /\ DOMAIN recs' = 1 .. Len(recs')
    BY LenProperties DEF GitLabTypeOK
  <2>2. IsFiniteSet(DOMAIN recs')
    BY <2>1, FS_Interval
  <2>3. QED  BY <1>1, <2>2, FS_Subset, FS_CardinalityType
<1>4. Cardinality(R) <= Cardinality(S) /\ Cardinality(R) \in Nat
  BY <1>1, <1>3, FS_Subset, RecordSetIsFinite
<1>5. Cardinality(R) <= PageSize
  BY <1>2, <1>3, <1>4, GitLabAssumption
<1>6. QED  BY <1>5 DEF FitsOnePage, R

\* Rows stay rows of their pipeline.
LEMMA RowsStay ==
  ASSUME RecordsStay, NEW rows, NEW p, \A e \in rows : e.id \in DOMAIN recs,
         AreOf(rows, p)
  PROVE  \A e \in rows : recs'[e.id].pipe = p /\ recs'[e.id].seen
  BY DEF RecordsStay, AreOf

\* The rows of a listing are of the pipeline asked for and shown; where a list
\* fits on a page, no record is in it twice.
LEMMA JobListIs ==
  ASSUME RunInvariant, ListingsOK, NEW p,
         p = IF pc = "tally" THEN curr.pipe ELSE target.pipe
  PROVE  /\ AreOf(JobList, p)
         /\ AreOf(Rows(recs, FirstPage(Requested), 1), p)
         /\ OnePage /\ pc # "tally" => UniqueIds(JobList)
<1>1. \A r \in Requested : recs[r].pipe = p /\ recs[r].seen
  BY DEF Requested, Live, Attempts
<1>2. /\ FirstPage(Requested) \subseteq Requested
      /\ Newest(Requested, page.upto) \ FirstPage(Requested) \subseteq Requested
  BY DEF FirstPage, Newest
<1>3. \A S \in SUBSET Requested, k \in {1, 2} : AreOf(Rows(recs, S, k), p)
  BY <1>1 DEF AreOf, Rows
<1>4. AreOf(page.rows, p)
  BY DEF ListingsOK
<1>5. AreOf(JobList, p)
  <2>1. CASE page = NoPage
    BY <1>3, <2>1 DEF JobList
  <2>2. CASE page # NoPage
    <3>1. JobList = page.rows \cup
              Rows(recs, Newest(Requested, page.upto) \ FirstPage(Requested), 2)
      BY <2>2 DEF JobList
    <3>2. AreOf(Rows(recs, Newest(Requested, page.upto) \ FirstPage(Requested), 2), p)
      BY <1>2, <1>3
    <3>3. QED  BY <1>4, <3>1, <3>2 DEF AreOf
  <2>3. QED  BY <2>1, <2>2
<1>6. ASSUME OnePage, pc # "tally"
      PROVE  UniqueIds(JobList)
  <2>1. page = NoPage
    BY <1>6 DEF ListingsOK
  <2>2. JobList = Rows(recs, Requested, 1)
    BY <2>1 DEF JobList
  <2>3. QED  BY <2>2 DEF UniqueIds, Rows
<1>7. QED  BY <1>2, <1>3, <1>5, <1>6

\* What the engine holds and what it is reading stay as they were, while GitLab
\* adds records.
LEMMA ListingsHeld ==
  ASSUME RunInvariant, RunInvariant', ListingsOK, RecordsStay,
         UNCHANGED <<pc, curr, target, page>>, DOMAIN batch' = DOMAIN batch
  PROVE  ListingsOK'
<1>0. GitLabTypeOK /\ GitLabTypeOK' /\ RowsOK
  BY DEF RunInvariant, TypeOK
<1>1. /\ AreOf(curr.jobs, curr.pipe)' /\ AreOf(DOMAIN batch, curr.pipe)'
      /\ AreOf(page.rows, IF pc = "tally" THEN curr.pipe ELSE target.pipe)'
  <2>1. \A e \in curr.jobs \cup page.rows \cup DOMAIN batch :
           /\ recs'[e.id].pipe = recs[e.id].pipe
           /\ recs[e.id].seen => recs'[e.id].seen
    BY <1>0 DEF RowsOK, RecordsStay
  <2>2. QED  BY <2>1 DEF ListingsOK, AreOf
<1>2. (pc = "tally" /\ page # NoPage => ~FitsOnePage(curr.pipe))'
  <2>1. FitsOnePage(curr.pipe)' => FitsOnePage(curr.pipe)
    <3>1. ASSUME NEW p, FitsOnePage(p)'  PROVE FitsOnePage(p)
      BY <1>0, <3>1, FitsBefore
    <3>2. QED  BY <3>1 DEF FitsOnePage
  <2>2. QED  BY <2>1 DEF ListingsOK
<1>3. (pc \notin ListingPCs => page = NoPage)'
  BY DEF ListingsOK, ListingPCs
<1>4. (OnePage => /\ pc # "tally" => page = NoPage
                  /\ UniqueIds(curr.jobs) /\ UniqueIds(DOMAIN batch))'
  BY DEF ListingsOK, OnePage, UniqueIds
<1>5. QED  BY <1>1, <1>2, <1>3, <1>4 DEF ListingsOK

\* A step without a listing, or one that drops it.
LEMMA ListingsPaged ==
  ASSUME ListingsOK, UNCHANGED <<recs, curr>>, DOMAIN batch' = DOMAIN batch,
         page' = NoPage
  PROVE  ListingsOK'
  BY DEF ListingsOK, AreOf, NoPage, OnePage, UniqueIds

\* A listing that is complete becomes the tick.
LEMMA ListingsRead ==
  ASSUME RunInvariant, ListingsOK, LoadJobs \/ PollJobs \/ FollowSwitch
  PROVE  ListingsOK'
<1>1. /\ pc \in {"jobs", "polljobs", "followjobs"} /\ pc # "tally"
      /\ curr'.pipe = target.pipe /\ curr'.jobs = JobList /\ page' = NoPage
      /\ recs' = recs /\ batch' = batch
  BY DEF LoadJobs, PollJobs, FollowSwitch, SwitchTo, FetchOver, gitlabVars
<1>2. /\ AreOf(JobList, target.pipe)
      /\ OnePage => UniqueIds(JobList)
  BY <1>1, JobListIs
<1>3. DOMAIN batch = {}
  BY <1>1, NoBatchProperties DEF RunInvariant, ControlOK
<1>4. QED
  BY <1>1, <1>2, <1>3 DEF ListingsOK, AreOf, UniqueIds, NoPage, OnePage

\* The first page of several.
LEMMA ListingsFirstPage ==
  ASSUME RunInvariant, ListingsOK, ReadFirstPage
  PROVE  ListingsOK'
<1>1. /\ pc \in ListingPCs /\ FirstPage(Requested) # Requested
      /\ page'.rows = Rows(recs, FirstPage(Requested), 1)
      /\ UNCHANGED <<recs, batch, pc, curr, target>>
  BY DEF ReadFirstPage, gitlabVars, tickVars
<1>2. GitLabTypeOK
  BY DEF RunInvariant, TypeOK
<1>3. AreOf(Rows(recs, FirstPage(Requested), 1),
            IF pc = "tally" THEN curr.pipe ELSE target.pipe)
  BY JobListIs
<1>4. pc = "tally" => ~FitsOnePage(curr.pipe)
  BY <1>1, <1>2, AttemptsFit DEF Requested
<1>5. OnePage => pc = "tally"
  BY <1>1, <1>2, LiveFits DEF Requested
<1>6. /\ AreOf(curr.jobs, curr.pipe)' /\ AreOf(DOMAIN batch, curr.pipe)'
      /\ AreOf(page.rows, IF pc = "tally" THEN curr.pipe ELSE target.pipe)'
  BY <1>1, <1>3 DEF ListingsOK, AreOf
<1>7. (pc = "tally" /\ page # NoPage => ~FitsOnePage(curr.pipe))'
  BY <1>1, <1>4 DEF FitsOnePage
<1>8. (pc \notin ListingPCs => page = NoPage)'
  BY <1>1 DEF ListingPCs
<1>9. (OnePage => /\ pc # "tally" => page = NoPage
                  /\ UniqueIds(curr.jobs) /\ UniqueIds(DOMAIN batch))'
  BY <1>1, <1>5 DEF ListingsOK, OnePage, UniqueIds
<1>10. QED  BY <1>6, <1>7, <1>8, <1>9 DEF ListingsOK

\* The batch is made of rows of the tick.
LEMMA ListingsTallied ==
  ASSUME ListingsOK, TallyOk
  PROVE  ListingsOK'
<1>1. /\ recs' = recs /\ curr' = curr /\ page' = NoPage
      /\ \/ batch' = batch
         \/ \E sel \in SUBSET Eligible(JobList) : batch' = StartBatch(sel)
  BY DEF TallyOk, FetchOver, gitlabVars, tickVars
<1>2. DOMAIN batch' = DOMAIN batch \/ DOMAIN batch' \subseteq curr.jobs
  <2>1. ASSUME NEW sel \in SUBSET Eligible(JobList), batch' = StartBatch(sel)
        PROVE  DOMAIN batch' \subseteq curr.jobs
    BY <2>1 DEF StartBatch, Eligible, Candidates
  <2>2. QED  BY <1>1, <2>1
<1>3. QED  BY <1>1, <1>2 DEF ListingsOK, AreOf, NoPage, OnePage, UniqueIds

\* What a step does to the batch, the ledger and the records: it leaves them as
\* they are and perhaps settles or cancels POSTs, or it is one of five others.
SameBatch ==
    /\ UNCHANGED <<recs, pstat, mode, opt, run, ledger>>
    /\ DOMAIN batch' = DOMAIN batch
    /\ \A e \in DOMAIN batch : Open(e)' => Open(e)
    /\ DOMAIN batch # {} => curr' = curr

LEMMA StepIs ==
  ASSUME RunInvariant, [Next]_vars
  PROVE  \/ SameBatch
         \/ TallyOk \/ BatchDone \/ GitLabStep \/ Reinvoke
         \/ BatchStep /\ \E e \in DOMAIN batch : Accept(e, run)
<1>0. ControlOK /\ BatchTypeOK
  BY DEF RunInvariant, TypeOK
<1>1. CASE \/ ResolveOk \/ ResolveNone \/ WaitOver \/ StartError \/ LoadJobs
           \/ ReadFirstPage \/ Tick \/ TallyError \/ SleepOver
           \/ FollowList \/ FollowError \/ FollowSwitch
           \/ PollPipeline \/ PollJobs \/ PollError \/ UncaughtError \/ Ended
           \/ \E e \in DOMAIN batch : BatchBroken(e)
  <2>1. UNCHANGED <<gitlabVars, batch, opt, run, ledger>>
    BY <1>1, EngineIsQuiet
  <2>2. curr' = curr \/ batch = NoBatch
    BY <1>0, <1>1
    DEF ControlOK, ResolveOk, ResolveNone, WaitOver, StartError, LoadJobs, ReadFirstPage,
        Tick, TallyError, SleepOver, FollowList, FollowError, FollowSwitch, PollPipeline,
        PollJobs, PollError, UncaughtError, Ended, BatchBroken, vars, tickVars
  <2>3. QED  BY <2>1, <2>2, NoBatchProperties DEF SameBatch, gitlabVars, Open
<1>2. CASE Teardown \/ Timeout
  <2>1. /\ batch' = Cancelled /\ curr' = curr
        /\ UNCHANGED <<gitlabVars, opt, run, ledger>>
    BY <1>2 DEF Teardown, Timeout, tickVars
  <2>2. DOMAIN batch' = DOMAIN batch
    BY <2>1 DEF Cancelled
  <2>3. \A e \in DOMAIN batch : Open(e)' => Open(e)
    BY <1>0, <2>1 DEF Cancelled, Open
  <2>4. QED  BY <2>1, <2>2, <2>3 DEF SameBatch, gitlabVars
<1>3. CASE BatchStep
  <2>1. UNCHANGED <<opt, run, curr, ledger>>
    BY <1>3 DEF BatchStep, tickVars
  <2>2. PICK e \in DOMAIN batch :
           \/ pc \in {"post", "dying"} /\ (Send(e) \/ Collect(e))
           \/ Accept(e, run)
           \/ Refuse(e)
    BY <1>3 DEF BatchStep
  <2>3. CASE Accept(e, run)
    BY <1>3, <2>3
  <2>4. CASE Send(e) \/ Collect(e) \/ Refuse(e)
    <3>1. UNCHANGED <<recs, mode, pstat>> /\ DOMAIN batch' = DOMAIN batch
      BY <1>0, <2>4 DEF Send, Collect, Refuse, Move, gitlabVars
    <3>2. \A f \in DOMAIN batch : Open(f)' => Open(f)
      BY <1>0, <2>4 DEF Send, Collect, Refuse, Move, Open, BatchTypeOK
    <3>3. QED  BY <2>1, <3>1, <3>2 DEF SameBatch
  <2>5. QED  BY <2>2, <2>3, <2>4
<1>4. CASE UNCHANGED vars
  BY <1>4 DEF vars, SameBatch, Open
<1>5. QED  BY <1>1, <1>2, <1>3, <1>4 DEF Next, EngineStep

\* Every step keeps what is known of the rows and pages.
LEMMA ListingsKeeps ==
  ASSUME RunInvariant, RunInvariant', ListingsOK, [Next]_vars
  PROVE  ListingsOK'
<1>0. ControlOK /\ GitLabTypeOK /\ RowsOK /\ BatchTypeOK /\ run \in Nat
  BY ConstantTypes DEF RunInvariant, TypeOK
<1>1. CASE \/ ResolveOk \/ ResolveNone \/ WaitOver \/ Tick \/ SleepOver
           \/ FollowList \/ PollPipeline \/ Teardown
           \/ \E e \in DOMAIN batch : BatchBroken(e)
  <2>1. pc \notin ListingPCs /\ UNCHANGED <<recs, curr, page>>
    BY <1>1
    DEF ListingPCs, ResolveOk, ResolveNone, WaitOver, Tick, SleepOver, FollowList,
        PollPipeline, Teardown, BatchBroken, gitlabVars, tickVars, fetchVars
  <2>2. DOMAIN batch' = DOMAIN batch
    BY <1>1
    DEF ResolveOk, ResolveNone, WaitOver, Tick, SleepOver, FollowList,
        PollPipeline, Teardown, BatchBroken, Cancelled
  <2>3. page' = NoPage
    BY <2>1 DEF ListingsOK
  <2>4. QED  BY <2>1, <2>2, <2>3, ListingsPaged
<1>2. CASE StartError \/ TallyError \/ FollowError \/ PollError \/ UncaughtError \/ Timeout
  <2>1. UNCHANGED <<recs, curr>> /\ page' = NoPage
    BY <1>2
    DEF StartError, TallyError, FollowError, PollError, UncaughtError, Timeout,
        FetchOver, gitlabVars, tickVars
  <2>2. DOMAIN batch' = DOMAIN batch
    BY <1>2
    DEF StartError, TallyError, FollowError, PollError, UncaughtError, Timeout, Cancelled
  <2>3. QED  BY <2>1, <2>2, ListingsPaged
<1>3. CASE LoadJobs \/ PollJobs \/ FollowSwitch
  BY <1>3, ListingsRead
<1>4. CASE ReadFirstPage
  BY <1>4, ListingsFirstPage
<1>5. CASE TallyOk
  BY <1>5, ListingsTallied
<1>6. CASE BatchDone
  <2>1. /\ pc \notin ListingPCs /\ UNCHANGED <<recs, curr, page>> /\ batch' = NoBatch
    BY <1>6 DEF ListingPCs, BatchDone, gitlabVars, tickVars, fetchVars
  <2>2. page' = NoPage /\ DOMAIN batch' = {}
    BY <2>1, NoBatchProperties DEF ListingsOK
  <2>3. QED  BY <2>1, <2>2 DEF ListingsOK, AreOf, NoPage, OnePage, UniqueIds
<1>7. CASE BatchStep
  <2>1. UNCHANGED <<pc, curr, target, page>>
    BY <1>7 DEF BatchStep, tickVars, fetchVars
  <2>2. DOMAIN batch' = DOMAIN batch
    BY <1>7 DEF BatchStep, Send, Collect, Accept, Refuse, Move
  <2>3. RecordsStay
    <3>1. PICK e \in DOMAIN batch : UNCHANGED gitlabVars \/ Mint(e.id, run)
      BY <1>7 DEF BatchStep, Send, Collect, Accept, Refuse
    <3>2. CASE UNCHANGED gitlabVars
      BY <3>2 DEF gitlabVars, RecordsStay
    <3>3. CASE Mint(e.id, run)
      BY <1>0, <3>3, MintRecords DEF RowsOK
    <3>4. QED  BY <3>1, <3>2, <3>3
  <2>4. QED  BY <2>1, <2>2, <2>3, ListingsHeld
<1>8. CASE GitLabStep
  <2>1. UNCHANGED <<pc, curr, target, page, batch>> /\ GitLabNext
    BY <1>8 DEF GitLabStep, tickVars, fetchVars
  <2>2. RecordsStay
    BY <1>0, <2>1, ServerRecords
  <2>3. QED  BY <2>1, <2>2, ListingsHeld
<1>9. CASE Reinvoke
  <2>1. curr' = NoTick /\ page' = NoPage /\ batch' = NoBatch /\ pc' = "resolve"
    BY <1>9 DEF Reinvoke
  <2>2. curr'.jobs = {} /\ page'.rows = {} /\ DOMAIN batch' = {}
    BY <2>1, NoBatchProperties DEF NoTick, NoPage
  <2>3. QED  BY <2>1, <2>2 DEF ListingsOK, AreOf, UniqueIds
<1>10. CASE Ended \/ UNCHANGED vars
  <2>1. UNCHANGED <<recs, pc, curr, target, page, batch>>
    BY <1>10 DEF Ended, vars
  <2>2. QED  BY <2>1, ListingsHeld DEF RecordsStay
<1>11. QED
  BY <1>1, <1>2, <1>3, <1>4, <1>5, <1>6, <1>7, <1>8, <1>9, <1>10 DEF Next, EngineStep

-----------------------------------------------------------------------------
(* No record is retried twice.                                             *)

\* What GitLab's acceptance of a POST does, in one place.
LEMMA AcceptIs ==
  ASSUME RunInvariant, ListingsOK, BatchStep, NEW e \in DOMAIN batch, Accept(e, run)
  PROVE  LET new == Len(recs) + 1
         IN  /\ UNCHANGED <<opt, run, pc, curr, ledger, mode>>
             /\ DOMAIN pstat' = DOMAIN pstat /\ GitLabTypeOK' /\ RecordsStay
             /\ DOMAIN recs' = DOMAIN recs \cup {new} /\ new \notin DOMAIN recs
             /\ recs'[new].by = run /\ recs'[new].of = e.id
             /\ recs'[new].pipe = curr.pipe /\ recs'[new].name = JobName(e)
             /\ Prompt => recs'[new].seen
             /\ e.id \in DOMAIN recs /\ recs[e.id].pipe = curr.pipe /\ recs[e.id].seen
             /\ batch[e] = "sent" /\ batch' = [batch EXCEPT ![e] = "accepted"]
             /\ run \in Nat \ {0}
<1>1. /\ RowsOK /\ GitLabTypeOK /\ run \in Nat \ {0}
      /\ e.id \in DOMAIN recs /\ recs[e.id].pipe = curr.pipe /\ recs[e.id].seen
  BY ConstantTypes DEF RunInvariant, TypeOK, RowsOK, ListingsOK, AreOf
<1>2. /\ UNCHANGED <<opt, run, pc, curr, ledger>> /\ Mint(e.id, run)
      /\ batch[e] = "sent" /\ batch' = [batch EXCEPT ![e] = "accepted"]
  BY DEF BatchStep, Accept, Move, tickVars
<1>3. QED  BY <1>1, <1>2, MintRecords DEF JobName

\* Whose retries there are, after a step of GitLab.
LEMMA ServerIs ==
  ASSUME RunInvariant, GitLabStep
  PROVE  /\ UNCHANGED <<opt, run, pc, curr, ledger, batch, mode>>
         /\ RecordsStay /\ AddedIsOthers /\ GitLabTypeOK'
         /\ Minted' = Minted
         /\ \A k \in Nat \ {0} : MintedBy(k)' = MintedBy(k)
<1>1. /\ RecordsStay /\ AddedIsOthers /\ mode' = mode /\ GitLabTypeOK'
  BY ServerRecords DEF RunInvariant, TypeOK, GitLabStep
<1>2. Minted' = Minted /\ \A k \in Nat \ {0} : MintedBy(k)' = MintedBy(k)
  BY <1>1 DEF Minted, MintedBy, RecordsStay, AddedIsOthers
<1>3. QED  BY <1>1, <1>2 DEF GitLabStep, tickVars

\* A retry is of the same job, after every step.
LEMMA LineageKeeps ==
  ASSUME RunInvariant, ListingsOK, LineageOK, [Next]_vars
  PROVE  LineageOK'
<1>1. CASE SameBatch \/ TallyOk \/ BatchDone \/ Reinvoke
  <2>1. recs' = recs
    BY <1>1 DEF SameBatch, TallyOk, BatchDone, Reinvoke, gitlabVars
  <2>2. QED  BY <2>1 DEF LineageOK, Minted, SameJob
<1>2. CASE GitLabStep
  <2>1. RecordsStay /\ Minted' = Minted
    BY <1>2, ServerIs
  <2>2. Minted \subseteq DOMAIN recs
    BY DEF Minted
  <2>3. QED  BY <2>1, <2>2 DEF LineageOK, SameJob, RecordsStay
<1>3. ASSUME BatchStep, NEW e \in DOMAIN batch, Accept(e, run)
      PROVE  LineageOK'
  <2> DEFINE new == Len(recs) + 1
  <2>1. /\ RecordsStay
        /\ DOMAIN recs' = DOMAIN recs \cup {new} /\ new \notin DOMAIN recs
        /\ recs'[new].of = e.id
        /\ recs'[new].pipe = curr.pipe /\ recs'[new].name = JobName(e)
        /\ e.id \in DOMAIN recs /\ recs[e.id].pipe = curr.pipe /\ recs[e.id].seen
    BY <1>3, AcceptIs
  <2> HIDE DEF new
  <2>2. Minted' \subseteq Minted \cup {new} /\ Minted \subseteq DOMAIN recs
    BY <2>1 DEF Minted, RecordsStay
  <2>3. ASSUME NEW r \in Minted
        PROVE  /\ recs'[r].of \in DOMAIN recs'
               /\ SameJob(recs[r].of, recs[r].name, recs[r].pipe)'
               /\ recs'[r].name = recs[r].name /\ recs'[r].pipe = recs[r].pipe
               /\ recs'[recs'[r].of].seen
    BY <2>1, <2>2 DEF LineageOK, SameJob, RecordsStay
  <2>4. /\ recs'[new].of \in DOMAIN recs'
        /\ recs'[recs'[new].of].name = recs'[new].name
        /\ recs'[recs'[new].of].pipe = recs'[new].pipe
        /\ recs'[recs'[new].of].seen
    BY <2>1 DEF RecordsStay, JobName
  <2>5. QED  BY <2>1, <2>2, <2>3, <2>4 DEF LineageOK, SameJob, RecordsStay
<1>4. QED  BY <1>1, <1>2, <1>3, StepIs

\* The ledger covers the retries of its run, after every step.
LEMMA LedgerKeeps ==
  ASSUME RunInvariant, ListingsOK, LedgerOK, [Next]_vars
  PROVE  LedgerOK'
<1>0. ControlOK /\ BatchTypeOK /\ GitLabTypeOK /\ BudgetOK /\ run \in Nat \ {0}
  BY ConstantTypes DEF RunInvariant, TypeOK
<1> SUFFICES ASSUME OnePage  PROVE LedgerOK'
  BY DEF LedgerOK, OnePage
<1>01. /\ \A e \in DOMAIN batch : e.id \notin ledger.posted
       /\ \A r \in MintedBy(run) :
             \/ recs[r].of \in ledger.posted
             \/ \E e \in DOMAIN batch : e.id = recs[r].of /\ ~Open(e)
       /\ \A r, s \in Minted :
             recs[r].by = recs[s].by /\ recs[r].of = recs[s].of => r = s
  BY DEF LedgerOK, OneRetryPerRecord
<1>1. CASE SameBatch
  <2>1. /\ UNCHANGED <<recs, run, ledger>> /\ DOMAIN batch' = DOMAIN batch
        /\ \A e \in DOMAIN batch : Open(e)' => Open(e)
    BY <1>1 DEF SameBatch
  <2>2. QED  BY <1>01, <2>1 DEF LedgerOK, OneRetryPerRecord, MintedBy, Minted
<1>2. CASE TallyOk
  <2>1. UNCHANGED <<recs, run, ledger>> /\ DOMAIN batch = {}
    BY <1>0, <1>2, NoBatchProperties DEF TallyOk, ControlOK, gitlabVars
  <2>2. \A e \in DOMAIN batch' : e.id \notin ledger.posted
    <3>1. \/ batch' = batch
          \/ \E sel \in SUBSET Eligible(JobList) : batch' = StartBatch(sel)
      BY <1>2 DEF TallyOk
    <3>2. ASSUME NEW sel \in SUBSET Eligible(JobList), batch' = StartBatch(sel)
          PROVE  \A e \in DOMAIN batch' : e.id \notin ledger.posted
      BY <3>2 DEF StartBatch, Eligible, Candidates
    <3>3. QED  BY <2>1, <3>1, <3>2
  <2>3. QED  BY <1>01, <2>1, <2>2 DEF LedgerOK, OneRetryPerRecord, MintedBy, Minted
<1>3. CASE BatchDone
  <2>1. /\ UNCHANGED <<recs, run>> /\ DOMAIN batch' = {}
        /\ ledger'.posted = ledger.posted \cup {e.id : e \in DOMAIN batch}
    BY <1>3, NoBatchProperties DEF BatchDone, LedgerAfter, gitlabVars
  <2>2. \A r \in MintedBy(run) : recs[r].of \in ledger'.posted
    BY <1>01, <2>1
  <2>3. QED
    BY <1>01, <2>1, <2>2 DEF LedgerOK, OneRetryPerRecord, MintedBy, Minted
<1>4. CASE GitLabStep
  <2>1. /\ UNCHANGED <<run, ledger, batch>> /\ RecordsStay
        /\ MintedBy(run)' = MintedBy(run) /\ Minted' = Minted
    BY <1>0, <1>4, ServerIs
  <2>2. /\ \A r \in MintedBy(run) \cup Minted :
              recs'[r].of = recs[r].of /\ recs'[r].by = recs[r].by
    BY <2>1 DEF RecordsStay, MintedBy, Minted
  <2>3. OneRetryPerRecord'
    BY <1>01, <2>1, <2>2 DEF OneRetryPerRecord
  <2>4. \A r \in MintedBy(run)' :
           \/ recs'[r].of \in ledger'.posted
           \/ \E e \in DOMAIN batch' : e.id = recs'[r].of /\ ~Open(e)'
    BY <1>01, <2>1, <2>2 DEF Open
  <2>5. QED  BY <1>01, <2>1, <2>3, <2>4 DEF LedgerOK
<1>5. CASE Reinvoke
  <2>1. /\ recs' = recs /\ run' = run + 1 /\ DOMAIN batch' = {}
    BY <1>5, NoBatchProperties DEF Reinvoke, gitlabVars
  <2>2. \A r \in DOMAIN recs : recs[r].by \in Nat /\ recs[r].by <= run
    <3>1. \A r \in DOMAIN recs : recs[r] \in Record
      BY <1>0, ElementOfSeq, LenProperties DEF GitLabTypeOK
    <3>2. QED  BY <1>0, <3>1 DEF BudgetOK, Record
  <2>3. MintedBy(run)' = {}
    BY <1>0, <2>1, <2>2 DEF MintedBy
  <2>4. QED  BY <1>01, <2>1, <2>3 DEF LedgerOK, OneRetryPerRecord, Minted
<1>6. ASSUME BatchStep, NEW e \in DOMAIN batch, Accept(e, run)
      PROVE  LedgerOK'
  <2> DEFINE new == Len(recs) + 1
  <2>1. /\ UNCHANGED <<run, ledger>> /\ RecordsStay
        /\ DOMAIN recs' = DOMAIN recs \cup {new} /\ new \notin DOMAIN recs
        /\ recs'[new].by = run /\ recs'[new].of = e.id
        /\ batch[e] = "sent" /\ batch' = [batch EXCEPT ![e] = "accepted"]
    BY <1>6, AcceptIs
  <2> HIDE DEF new
  <2>2. /\ DOMAIN batch' = DOMAIN batch /\ ~Open(e)'
        /\ \A f \in DOMAIN batch : ~Open(f) => ~Open(f)'
    BY <1>0, <2>1 DEF Open, BatchTypeOK
  <2>3. /\ Minted' = Minted \cup {new} /\ MintedBy(run)' = MintedBy(run) \cup {new}
        /\ \A r \in Minted : recs'[r].of = recs[r].of /\ recs'[r].by = recs[r].by
        /\ MintedBy(run) \subseteq Minted
    BY <1>0, <2>1 DEF Minted, MintedBy, RecordsStay
  <2>4. \A r \in MintedBy(run)' :
           \/ recs'[r].of \in ledger'.posted
           \/ \E f \in DOMAIN batch' : f.id = recs'[r].of /\ ~Open(f)'
    BY <1>01, <2>1, <2>2, <2>3
  <2>5. \A r \in MintedBy(run) : recs[r].of # e.id
    <3>1. ASSUME NEW r \in MintedBy(run), recs[r].of = e.id
          PROVE  FALSE
      <4>1. e.id \notin ledger.posted
        BY <1>01
      <4>2. PICK f \in DOMAIN batch : f.id = e.id /\ ~Open(f)
        BY <1>01, <3>1, <4>1
      <4>3. f = e
        BY <4>2 DEF ListingsOK, UniqueIds
      <4>4. QED  BY <2>1, <4>2, <4>3 DEF Open
    <3>2. QED  BY <3>1
  <2>6. \A r \in Minted : recs[r].by = run => recs[r].of # e.id
    BY <2>5 DEF Minted, MintedBy
  <2>7. OneRetryPerRecord'
    <3>1. \A r, s \in Minted' :
             recs'[r].by = recs'[s].by /\ recs'[r].of = recs'[s].of => r = s
      BY <1>01, <2>1, <2>3, <2>6
    <3>2. QED  BY <3>1 DEF OneRetryPerRecord
  <2>8. QED  BY <1>01, <2>1, <2>2, <2>4, <2>7 DEF LedgerOK
<1>7. QED  BY <1>1, <1>2, <1>3, <1>4, <1>5, <1>6, StepIs

-----------------------------------------------------------------------------
(* The limit on attempts.                                                  *)

\* The retries of one job: of one run, and of all.
Retries(k, n, p) == {r \in MintedBy(k) : SameJob(r, n, p)}
AllRetries(n, p) == {r \in Minted : SameJob(r, n, p)}

\* All attempts of a job in a pipeline that GitLab shows.
ShownAttempts(n, p) == {s \in Attempts(recs, p) : recs[s].name = n}

\* The tally of a pipeline that fits on a page counts every attempt shown.
LEMMA TallyCounts ==
  ASSUME RunInvariant, ListingsOK, pc = "tally", FitsOnePage(curr.pipe), NEW n
  PROVE  /\ Cardinality(ShownAttempts(n, curr.pipe)) <= Count(JobList, n)
         /\ Count(JobList, n) \in Nat
<1>0. GitLabTypeOK /\ IsFiniteSet(JobList)
  BY JobListProperties DEF RunInvariant, TypeOK
<1>1. JobList = Rows(recs, Attempts(recs, curr.pipe), 1)
  BY DEF ListingsOK, JobList, Requested
<1> DEFINE S == ShownAttempts(n, curr.pipe)
           T == {f \in JobList : JobName(f) = n}
           row == [s \in S |-> [id |-> s, st |-> recs[s].status, page |-> 1]]
<1>2. IsFiniteSet(T) /\ Cardinality(T) \in Nat
  BY <1>0, FS_Subset, FS_CardinalityType
<1>3. row \in [S -> T]
  BY <1>1 DEF ShownAttempts, Rows, JobName
<1>4. \A x, y \in S : row[x] = row[y] => x = y
  OBVIOUS
<1> HIDE DEF S, T, row
<1>5. Cardinality(S) <= Cardinality(T)
  BY <1>2, <1>3, <1>4, InjectionCounts
<1>6. QED  BY <1>2, <1>5 DEF Count, S, T

\* A set that avoids one attempt is smaller than what the tally allows.
LEMMA RoomBelow ==
  ASSUME RunInvariant, ListingsOK, pc = "tally", FitsOnePage(curr.pipe),
         opt.attempts # 0, NEW e \in Eligible(JobList),
         NEW R, NEW s \in ShownAttempts(JobName(e), curr.pipe),
         NEW f \in [R -> ShownAttempts(JobName(e), curr.pipe) \ {s}],
         \A x, y \in R : f[x] = f[y] => x = y
  PROVE  Cardinality(R) < opt.attempts
<1> DEFINE S == ShownAttempts(JobName(e), curr.pipe)
<1>0. GitLabTypeOK /\ opt \in Options /\ S \in SUBSET DOMAIN recs
  BY DEF RunInvariant, TypeOK, RunTypeOK, ShownAttempts, Attempts
<1>1. opt.attempts \in Nat
  BY <1>0, AttachAssumption DEF Option
<1>2. /\ Cardinality(S) <= Count(JobList, JobName(e))
      /\ Count(JobList, JobName(e)) \in Nat
  BY TallyCounts
<1>3. Count(JobList, JobName(e)) - 1 < opt.attempts
  BY DEF Eligible, WithinBudget
<1> HIDE DEF S
<1>4. IsFiniteSet(S) /\ Cardinality(S) \in Nat
  BY <1>0, RecordSetIsFinite
<1>5. IsFiniteSet(S \ {s}) /\ Cardinality(S \ {s}) = Cardinality(S) - 1
  BY <1>4, FS_RemoveElement DEF S
<1>6. IsFiniteSet(R) /\ Cardinality(R) <= Cardinality(S \ {s})
  BY <1>5, InjectionCounts DEF S
<1>7. Cardinality(R) \in Nat
  BY <1>6, FS_CardinalityType
<1>8. QED  BY <1>1, <1>2, <1>3, <1>4, <1>5, <1>6, <1>7

\* The candidates are shown and of the pipeline tallied.
LEMMA EligibleIs ==
  ASSUME RunInvariant, ListingsOK, NEW e \in Eligible(JobList)
  PROVE  /\ e \in curr.jobs /\ e.id \notin ledger.posted
         /\ e.id \in ShownAttempts(JobName(e), curr.pipe)
<1>1. e \in curr.jobs /\ e.id \notin ledger.posted
  BY DEF Eligible, Candidates
<1>2. e.id \in DOMAIN recs /\ recs[e.id].pipe = curr.pipe /\ recs[e.id].seen
  BY <1>1 DEF RunInvariant, RowsOK, ListingsOK, AreOf
<1>3. QED  BY <1>1, <1>2 DEF ShownAttempts, Attempts, JobName

\* Whatever is selected has had fewer retries by this run than the limit: each
\* of them is of another attempt, and the candidate is one more.
LEMMA RoomForRun ==
  ASSUME RunInvariant, ListingsOK, LedgerOK, LineageOK, OnePage, pc = "tally",
         FitsOnePage(curr.pipe), opt.attempts # 0, NEW e \in Eligible(JobList)
  PROVE  Cardinality(Retries(run, JobName(e), curr.pipe)) < opt.attempts
<1> DEFINE R == Retries(run, JobName(e), curr.pipe)
           S == ShownAttempts(JobName(e), curr.pipe)
           of == [r \in R |-> recs[r].of]
<1>0. ControlOK /\ run \in Nat \ {0}
  BY ConstantTypes DEF RunInvariant, TypeOK
<1>1. DOMAIN batch = {}
  BY <1>0, NoBatchProperties DEF ControlOK
<1>2. R \subseteq MintedBy(run) /\ R \subseteq Minted
  BY <1>0 DEF Retries, MintedBy, Minted
<1>3. \A r \in R : recs[r].of \in S
  BY <1>2 DEF LineageOK, SameJob, Retries, ShownAttempts, Attempts
<1>4. \A r \in R : recs[r].of \in ledger.posted
  BY <1>1, <1>2 DEF LedgerOK
<1>5. e.id \in S /\ e.id \notin ledger.posted
  BY EligibleIs
<1>6. of \in [R -> S \ {e.id}]
  BY <1>3, <1>4, <1>5
<1>7. \A x, y \in R : of[x] = of[y] => x = y
  BY <1>2 DEF LedgerOK, OneRetryPerRecord, MintedBy
<1> HIDE DEF R, of
<1>8. Cardinality(R) < opt.attempts
  BY <1>5, <1>6, <1>7, RoomBelow
<1>9. QED  BY <1>8 DEF R

\* The same for the retries of all runs, where every record is shown: the first
\* attempt is one more.
LEMMA RoomForAll ==
  ASSUME RunInvariant, ListingsOK, AcrossOK, Prompt, pc = "tally",
         FitsOnePage(curr.pipe), opt.attempts # 0, NEW e \in Eligible(JobList)
  PROVE  Cardinality(AllRetries(JobName(e), curr.pipe)) < opt.attempts
<1> DEFINE R == AllRetries(JobName(e), curr.pipe)
           S == ShownAttempts(JobName(e), curr.pipe)
           self == [r \in R |-> r]
<1>1. e.id \in S
  BY EligibleIs
<1>2. /\ e.id \in DOMAIN recs /\ recs[e.id].name = JobName(e)
      /\ recs[e.id].pipe = curr.pipe
  BY <1>1 DEF ShownAttempts, Attempts
<1>3. PICK s \in DOMAIN recs : SameJob(s, JobName(e), curr.pipe) /\ recs[s].by = 0
  BY <1>2 DEF AcrossOK
<1>4. s \in S /\ R \subseteq S /\ s \notin R
  BY <1>3 DEF AcrossOK, SameJob, AllRetries, Minted, ShownAttempts, Attempts
<1>5. self \in [R -> S \ {s}] /\ \A x, y \in R : self[x] = self[y] => x = y
  BY <1>4
<1> HIDE DEF R, self
<1>6. Cardinality(R) < opt.attempts
  BY <1>4, <1>5, RoomBelow
<1>7. QED  BY <1>6 DEF R

\* No two jobs of a batch have the same name: only the newest attempt is posted.
LEMMA NewestIsOne ==
  ASSUME RunInvariant, ListingsOK, OnePage,
         NEW e \in Eligible(JobList), NEW f \in Eligible(JobList),
         JobName(e) = JobName(f)
  PROVE  e = f
<1>1. /\ e \in curr.jobs /\ f \in curr.jobs
      /\ IsNewest(JobList, e) /\ IsNewest(JobList, f)
  BY EligibleIs DEF Eligible
<1>2. PICK g \in JobList : g.id = e.id
  BY <1>1 DEF IsNewest
<1>3. PICK h \in JobList : h.id = f.id
  BY <1>1 DEF IsNewest
<1>4. e.id <= f.id /\ f.id <= e.id
  BY <1>1, <1>2, <1>3 DEF IsNewest, JobName
<1>5. e.id \in Nat /\ f.id \in Nat
  BY <1>1, ConstantTypes DEF RunInvariant, TypeOK, Entry
<1>6. e.id = f.id
  BY <1>4, <1>5
<1>7. QED  BY <1>1, <1>6 DEF ListingsOK, UniqueIds

\* What an accepted POST adds to the retries of each job.
LEMMA AcceptCounts ==
  ASSUME RunInvariant, ListingsOK, BatchStep, NEW e \in DOMAIN batch, Accept(e, run),
         NEW k \in Nat \ {0}, NEW n, NEW p
  PROVE  LET mine == n = JobName(e) /\ p = curr.pipe
         IN  /\ Retries(k, n, p)' =
                   IF k = run /\ mine THEN Retries(k, n, p) \cup {Len(recs) + 1}
                   ELSE Retries(k, n, p)
             /\ AllRetries(n, p)' =
                   IF mine THEN AllRetries(n, p) \cup {Len(recs) + 1}
                   ELSE AllRetries(n, p)
<1> DEFINE new == Len(recs) + 1
<1>1. /\ RecordsStay /\ run \in Nat \ {0}
      /\ DOMAIN recs' = DOMAIN recs \cup {new} /\ new \notin DOMAIN recs
      /\ recs'[new].by = run /\ recs'[new].pipe = curr.pipe
      /\ recs'[new].name = JobName(e)
  BY AcceptIs
<1> HIDE DEF new
<1>2. \A r \in DOMAIN recs :
         /\ recs'[r].by = recs[r].by
         /\ recs'[r].pipe = recs[r].pipe /\ recs'[r].name = recs[r].name
  BY <1>1 DEF RecordsStay
<1>3. Retries(k, n, p)' =
         IF k = run /\ n = JobName(e) /\ p = curr.pipe
         THEN Retries(k, n, p) \cup {new} ELSE Retries(k, n, p)
  BY <1>1, <1>2 DEF Retries, MintedBy, SameJob
<1>4. AllRetries(n, p)' =
         IF n = JobName(e) /\ p = curr.pipe
         THEN AllRetries(n, p) \cup {new} ELSE AllRetries(n, p)
  BY <1>1, <1>2 DEF AllRetries, Minted, SameJob
<1>5. QED  BY <1>3, <1>4 DEF new

\* One more than fewer than the limit is within it.
LEMMA OneMore ==
  ASSUME NEW S, IsFiniteSet(S), NEW x, NEW limit \in Nat, Cardinality(S) < limit
  PROVE  Cardinality(S \cup {x}) <= limit
<1>1. Cardinality(S) \in Nat
  BY FS_CardinalityType
<1>2. Cardinality(S \cup {x}) = IF x \in S THEN Cardinality(S) ELSE Cardinality(S) + 1
  BY FS_AddElement
<1>3. QED  BY <1>1, <1>2

\* The limit is kept for each run, with every POST that may still be accepted.
LEMMA AttemptsKeeps ==
  ASSUME RunInvariant, RunInvariant', ListingsOK, LedgerOK, LineageOK, AttemptsOK,
         [Next]_vars
  PROVE  AttemptsOK'
<1>0. /\ ControlOK /\ BatchTypeOK /\ GitLabTypeOK /\ GitLabTypeOK' /\ RowsOK
      /\ run \in Nat \ {0} /\ opt \in Options
  BY ConstantTypes DEF RunInvariant, TypeOK, RunTypeOK
<1>01. opt' = opt /\ opt.attempts \in Nat
  <2>1. opt' = opt
    BY StepIs DEF SameBatch, TallyOk, BatchDone, GitLabStep, Reinvoke, BatchStep
  <2>2. QED  BY <1>0, <2>1, AttachAssumption DEF Option
<1> SUFFICES ASSUME OnePage, opt.attempts # 0  PROVE AttemptsOK'
  BY <1>01 DEF AttemptsOK, OnePage
<1>02. /\ \A e, f \in DOMAIN batch : JobName(e) = JobName(f) => e = f
       /\ \A e \in DOMAIN batch :
             Open(e) /\ FitsOnePage(curr.pipe) =>
                 Cardinality(Retries(run, JobName(e), curr.pipe)) < opt.attempts
       /\ \A r \in Minted :
             FitsOnePage(recs[r].pipe) =>
                 Cardinality(Retries(recs[r].by, recs[r].name, recs[r].pipe))
                     <= opt.attempts
  BY DEF AttemptsOK, AttemptsHold, Retries
<1>1. CASE SameBatch
  <2>1. /\ recs' = recs /\ run' = run /\ DOMAIN batch' = DOMAIN batch
        /\ \A e \in DOMAIN batch : Open(e)' => Open(e)
        /\ DOMAIN batch # {} => curr' = curr
    BY <1>1 DEF SameBatch
  <2>2. QED
    BY <1>01, <1>02, <2>1
    DEF AttemptsOK, AttemptsHold, Retries, MintedBy, Minted, SameJob, FitsOnePage, JobName
<1>2. CASE TallyOk
  <2>1. /\ UNCHANGED <<recs, run, curr>> /\ pc = "tally" /\ DOMAIN batch = {}
    BY <1>0, <1>2, NoBatchProperties DEF TallyOk, ControlOK, gitlabVars, tickVars
  <2>2. \/ batch' = batch
        \/ \E sel \in SUBSET Eligible(JobList) : batch' = StartBatch(sel)
    BY <1>2 DEF TallyOk
  <2>3. DOMAIN batch' \subseteq Eligible(JobList)
    <3>1. ASSUME NEW sel \in SUBSET Eligible(JobList), batch' = StartBatch(sel)
          PROVE  DOMAIN batch' \subseteq Eligible(JobList)
      BY <3>1 DEF StartBatch
    <3>2. QED  BY <2>1, <2>2, <3>1
  <2>4. \A e, f \in DOMAIN batch' : JobName(e) = JobName(f) => e = f
    BY <2>3, NewestIsOne
  <2>5. ASSUME NEW e \in DOMAIN batch', FitsOnePage(curr.pipe)
        PROVE  Cardinality(Retries(run, JobName(e), curr.pipe)) < opt.attempts
    BY <2>1, <2>3, <2>5, RoomForRun
  <2>6. AttemptsHold'
    BY <1>01, <1>02, <2>1
    DEF AttemptsHold, Retries, MintedBy, Minted, SameJob, FitsOnePage
  <2>7. QED
    BY <1>01, <2>1, <2>4, <2>5, <2>6
    DEF AttemptsOK, Retries, MintedBy, SameJob, FitsOnePage, JobName
<1>3. CASE BatchDone \/ Reinvoke
  <2>1. recs' = recs /\ DOMAIN batch' = {}
    BY <1>3, NoBatchProperties DEF BatchDone, Reinvoke, gitlabVars
  <2>2. AttemptsHold'
    BY <1>01, <1>02, <2>1
    DEF AttemptsHold, Retries, MintedBy, Minted, SameJob, FitsOnePage
  <2>3. QED  BY <2>1, <2>2 DEF AttemptsOK
<1>4. CASE GitLabStep
  <2>1. /\ UNCHANGED <<run, curr, batch>> /\ RecordsStay /\ Minted' = Minted
        /\ \A k \in Nat \ {0} : MintedBy(k)' = MintedBy(k)
    BY <1>4, ServerIs
  <2>2. ASSUME NEW p, FitsOnePage(p)'  PROVE FitsOnePage(p)
    BY <1>0, <2>1, <2>2, FitsBefore
  <2>3. \A r \in Minted : /\ recs'[r].by = recs[r].by /\ recs[r].by \in Nat \ {0}
                          /\ recs'[r].name = recs[r].name
                          /\ recs'[r].pipe = recs[r].pipe
    <3>1. \A r \in DOMAIN recs : recs[r] \in Record
      BY <1>0, ElementOfSeq, LenProperties DEF GitLabTypeOK
    <3>2. QED  BY <2>1, <3>1 DEF Minted, RecordsStay, Record
  <2>4. \A k \in Nat \ {0} : \A n, p : Retries(k, n, p)' = Retries(k, n, p)
    BY <2>1 DEF Retries, MintedBy, SameJob, RecordsStay
  <2>5. \A e \in DOMAIN batch : JobName(e)' = JobName(e)
    BY <1>0, <2>1 DEF RowsOK, JobName, RecordsStay
  <2>6. ASSUME NEW r \in Minted', NEW k, NEW n, NEW p, FitsOnePage(p)',
               recs'[r].by = k, recs'[r].name = n, recs'[r].pipe = p
        PROVE  Cardinality(Retries(k, n, p)') <= opt.attempts
    <3>1. /\ r \in Minted /\ k = recs[r].by /\ n = recs[r].name /\ p = recs[r].pipe
          /\ k \in Nat \ {0} /\ FitsOnePage(p)
      BY <2>1, <2>2, <2>3, <2>6
    <3>2. Retries(k, n, p)' = Retries(k, n, p)
      BY <2>4, <3>1
    <3>3. QED  BY <1>02, <3>1, <3>2
  <2>7. AttemptsHold'
    BY <1>01, <2>6 DEF AttemptsHold, Retries
  <2>8. ASSUME NEW e \in DOMAIN batch, Open(e)', FitsOnePage(curr.pipe)'
        PROVE  Cardinality(Retries(run, JobName(e), curr.pipe)') < opt.attempts
    <3>1. Open(e) /\ FitsOnePage(curr.pipe)
      BY <2>1, <2>2, <2>8 DEF Open, FitsOnePage
    <3>2. Retries(run, JobName(e), curr.pipe)' = Retries(run, JobName(e), curr.pipe)
      BY <1>0, <2>1, <2>4, <2>5
    <3>3. QED  BY <1>02, <3>1, <3>2
  <2>9. QED
    BY <1>01, <1>02, <2>1, <2>5, <2>7, <2>8 DEF AttemptsOK, Retries
<1>5. ASSUME BatchStep, NEW e \in DOMAIN batch, Accept(e, run)
      PROVE  AttemptsOK'
  <2> DEFINE new == Len(recs) + 1
  <2>1. /\ UNCHANGED <<run, curr>> /\ RecordsStay
        /\ DOMAIN recs' = DOMAIN recs \cup {new} /\ new \notin DOMAIN recs
        /\ recs'[new].by = run /\ recs'[new].pipe = curr.pipe
        /\ recs'[new].name = JobName(e)
        /\ batch[e] = "sent" /\ batch' = [batch EXCEPT ![e] = "accepted"]
    BY <1>5, AcceptIs
  <2>2. \A k \in Nat \ {0} : \A n, p :
           Retries(k, n, p)' =
               IF k = run /\ n = JobName(e) /\ p = curr.pipe
               THEN Retries(k, n, p) \cup {new} ELSE Retries(k, n, p)
    BY <1>5, AcceptCounts
  <2> HIDE DEF new
  <2>3. /\ DOMAIN batch' = DOMAIN batch /\ ~Open(e)'
        /\ \A f \in DOMAIN batch : Open(f)' => Open(f)
    BY <1>0, <2>1 DEF Open, BatchTypeOK
  <2>4. ASSUME NEW p, FitsOnePage(p)'  PROVE FitsOnePage(p)
    BY <1>0, <2>1, <2>4, FitsBefore
  <2>5. \A f \in DOMAIN batch : JobName(f)' = JobName(f)
    BY <1>0, <2>1 DEF RowsOK, JobName, RecordsStay
  <2>6. ASSUME FitsOnePage(curr.pipe)'
        PROVE  Cardinality(Retries(run, JobName(e), curr.pipe) \cup {new}) <= opt.attempts
    <3>1. FitsOnePage(curr.pipe)
      BY <2>1, <2>4, <2>6 DEF FitsOnePage
    <3>2. Cardinality(Retries(run, JobName(e), curr.pipe)) < opt.attempts
      BY <1>02, <2>1, <3>1 DEF Open
    <3>3. IsFiniteSet(Retries(run, JobName(e), curr.pipe))
      BY <1>0, RecordSetIsFinite DEF Retries, MintedBy
    <3>4. QED  BY <1>01, <3>2, <3>3, OneMore
  <2>7. Minted' = Minted \cup {new} /\ Minted \subseteq DOMAIN recs
    BY <1>0, <2>1 DEF Minted, RecordsStay
  <2>8. \A r \in Minted : /\ recs'[r].by = recs[r].by /\ recs[r].by \in Nat \ {0}
                          /\ recs'[r].name = recs[r].name
                          /\ recs'[r].pipe = recs[r].pipe
    <3>1. \A r \in DOMAIN recs : recs[r] \in Record
      BY <1>0, ElementOfSeq, LenProperties DEF GitLabTypeOK
    <3>2. QED  BY <2>1, <3>1 DEF Minted, RecordsStay, Record
  <2>9. ASSUME NEW r \in Minted', NEW k, NEW n, NEW p, FitsOnePage(p)',
               recs'[r].by = k, recs'[r].name = n, recs'[r].pipe = p
        PROVE  Cardinality(Retries(k, n, p)') <= opt.attempts
    <3>1. CASE k = run /\ n = JobName(e) /\ p = curr.pipe
      <4>1. Cardinality(Retries(run, JobName(e), curr.pipe) \cup {new}) <= opt.attempts
        <5>1. FitsOnePage(curr.pipe)'
          BY <2>1, <2>9, <3>1 DEF FitsOnePage
        <5>2. QED  BY <2>6, <5>1
      <4>2. Retries(k, n, p)' = Retries(run, JobName(e), curr.pipe) \cup {new}
        BY <1>0, <2>2, <3>1
      <4>3. QED  BY <4>1, <4>2
    <3>2. CASE ~(k = run /\ n = JobName(e) /\ p = curr.pipe)
      <4>1. r \in Minted
        BY <2>1, <2>7, <2>9, <3>2
      <4>2. /\ k = recs[r].by /\ n = recs[r].name /\ p = recs[r].pipe
            /\ k \in Nat \ {0} /\ FitsOnePage(p)
        BY <2>4, <2>8, <2>9, <4>1
      <4>3. Retries(k, n, p)' = Retries(k, n, p)
        BY <2>2, <3>2, <4>2
      <4>4. QED  BY <1>02, <4>1, <4>2, <4>3
    <3>3. QED  BY <3>1, <3>2
  <2>10. AttemptsHold'
    BY <1>01, <2>9 DEF AttemptsHold, Retries
  <2>11. ASSUME NEW f \in DOMAIN batch, Open(f)', FitsOnePage(curr.pipe)'
         PROVE  Cardinality(Retries(run, JobName(f), curr.pipe)') < opt.attempts
    <3>1. Open(f) /\ FitsOnePage(curr.pipe) /\ f # e
      BY <2>1, <2>3, <2>4, <2>11 DEF FitsOnePage
    <3>2. JobName(f) # JobName(e)
      BY <1>02, <3>1
    <3>3. Retries(run, JobName(f), curr.pipe)' = Retries(run, JobName(f), curr.pipe)
      BY <1>0, <2>1, <2>2, <2>5, <3>2
    <3>4. QED  BY <1>02, <3>1, <3>3
  <2>12. QED
    BY <1>01, <1>02, <2>1, <2>3, <2>5, <2>10, <2>11 DEF AttemptsOK, Retries
<1>6. QED  BY <1>1, <1>2, <1>3, <1>4, <1>5, StepIs

\* Where GitLab shows what it accepted, every record is shown and every job has
\* an attempt that is no retry of this program.
LEMMA ShownKeeps ==
  ASSUME RunInvariant, ListingsOK, [Next]_vars, Prompt,
         \A r \in DOMAIN recs :
            /\ recs[r].seen
            /\ \E s \in DOMAIN recs :
                  SameJob(s, recs[r].name, recs[r].pipe) /\ recs[s].by = 0
  PROVE  \A r \in DOMAIN recs' :
            /\ recs'[r].seen
            /\ \E s \in DOMAIN recs' :
                  SameJob(s, recs[r].name, recs[r].pipe)' /\ recs'[s].by = 0
<1>1. CASE SameBatch \/ TallyOk \/ BatchDone \/ Reinvoke
  <2>1. recs' = recs
    BY <1>1 DEF SameBatch, TallyOk, BatchDone, Reinvoke, gitlabVars
  <2>2. QED  BY <2>1 DEF SameJob
<1>2. CASE GitLabStep
  <2>1. RecordsStay /\ AddedIsOthers
    BY <1>2, ServerIs
  <2>2. ASSUME NEW r \in DOMAIN recs
        PROVE  /\ recs'[r].seen
               /\ \E s \in DOMAIN recs' :
                     SameJob(s, recs[r].name, recs[r].pipe)' /\ recs'[s].by = 0
    <3>1. PICK s \in DOMAIN recs :
             SameJob(s, recs[r].name, recs[r].pipe) /\ recs[s].by = 0
      OBVIOUS
    <3>2. QED  BY <2>1, <3>1 DEF RecordsStay, SameJob
  <2>3. ASSUME NEW r \in DOMAIN recs' \ DOMAIN recs
        PROVE  /\ recs'[r].seen
               /\ SameJob(r, recs[r].name, recs[r].pipe)' /\ recs'[r].by = 0
    BY <2>1 DEF AddedIsOthers, SameJob
  <2>4. QED  BY <2>2, <2>3
<1>3. ASSUME BatchStep, NEW e \in DOMAIN batch, Accept(e, run)
      PROVE  \A r \in DOMAIN recs' :
                /\ recs'[r].seen
                /\ \E s \in DOMAIN recs' :
                      SameJob(s, recs[r].name, recs[r].pipe)' /\ recs'[s].by = 0
  <2>0. PICK new : new = Len(recs) + 1
    OBVIOUS
  <2>1. /\ RecordsStay /\ DOMAIN recs' = DOMAIN recs \cup {new}
        /\ recs'[new].pipe = curr.pipe /\ recs'[new].name = JobName(e)
        /\ recs'[new].seen /\ e.id \in DOMAIN recs /\ recs[e.id].pipe = curr.pipe
    BY <1>3, <2>0, AcceptIs
  <2>2. ASSUME NEW r \in DOMAIN recs
        PROVE  /\ recs'[r].seen
               /\ recs'[r].name = recs[r].name /\ recs'[r].pipe = recs[r].pipe
               /\ \E s \in DOMAIN recs' :
                     SameJob(s, recs[r].name, recs[r].pipe)' /\ recs'[s].by = 0
    <3>1. PICK s \in DOMAIN recs :
             SameJob(s, recs[r].name, recs[r].pipe) /\ recs[s].by = 0
      OBVIOUS
    <3>2. QED  BY <2>1, <3>1 DEF RecordsStay, SameJob
  <2>3. PICK s \in DOMAIN recs' :
           SameJob(s, recs[e.id].name, recs[e.id].pipe)' /\ recs'[s].by = 0
    BY <2>1, <2>2
  <2>4. recs'[e.id].name = recs'[new].name /\ recs'[e.id].pipe = recs'[new].pipe
    BY <2>1, <2>2 DEF JobName
  <2>5. recs'[s].name = recs'[new].name /\ recs'[s].pipe = recs'[new].pipe
    BY <2>3, <2>4 DEF SameJob
  <2>6. ASSUME NEW r \in DOMAIN recs'
        PROVE  /\ recs'[r].seen
               /\ \E t \in DOMAIN recs' :
                     SameJob(t, recs[r].name, recs[r].pipe)' /\ recs'[t].by = 0
    <3>1. CASE r \in DOMAIN recs
      BY <2>2, <3>1
    <3>2. CASE r = new
      BY <2>1, <2>3, <2>5, <3>2 DEF SameJob
    <3>3. QED  BY <2>1, <3>1, <3>2
  <2>7. QED  BY <2>6
<1>4. QED  BY <1>1, <1>2, <1>3, StepIs

\* The limit is kept for all runs together.
LEMMA AcrossKeeps ==
  ASSUME RunInvariant, RunInvariant', ListingsOK, AttemptsOK, AcrossOK, [Next]_vars
  PROVE  AcrossOK'
<1>0. /\ ControlOK /\ BatchTypeOK /\ GitLabTypeOK /\ GitLabTypeOK' /\ RowsOK
      /\ run \in Nat \ {0} /\ opt \in Options
  BY ConstantTypes DEF RunInvariant, TypeOK, RunTypeOK
<1>01. opt' = opt /\ opt.attempts \in Nat /\ mode' = mode
  <2>1. opt' = opt
    BY StepIs DEF SameBatch, TallyOk, BatchDone, GitLabStep, Reinvoke, BatchStep
  <2>2. mode' = mode
    <3>1. CASE GitLabStep
      BY <3>1, ServerIs
    <3>2. CASE BatchStep /\ \E e \in DOMAIN batch : Accept(e, run)
      BY <3>2, AcceptIs
    <3>3. CASE SameBatch \/ TallyOk \/ BatchDone \/ Reinvoke
      BY <3>3 DEF SameBatch, TallyOk, BatchDone, Reinvoke, gitlabVars
    <3>4. QED  BY <3>1, <3>2, <3>3, StepIs
  <2>3. QED  BY <1>0, <2>1, <2>2, AttachAssumption DEF Option
<1> SUFFICES ASSUME Prompt  PROVE AcrossOK'
  BY <1>01 DEF AcrossOK, Prompt
<1>02. (\A r \in DOMAIN recs :
           /\ recs[r].seen
           /\ \E s \in DOMAIN recs :
                 SameJob(s, recs[r].name, recs[r].pipe) /\ recs[s].by = 0)'
  BY ShownKeeps DEF AcrossOK
<1> SUFFICES ASSUME OnePage, opt.attempts # 0
             PROVE  /\ \A e \in DOMAIN batch' :
                          Open(e)' /\ FitsOnePage(curr.pipe)' =>
                              Cardinality(AllRetries(JobName(e), curr.pipe)')
                                  < opt.attempts
                    /\ AttemptsHoldAcrossRuns'
  BY <1>01, <1>02 DEF AcrossOK, OnePage, AttemptsHoldAcrossRuns, AllRetries
<1>03. /\ \A e, f \in DOMAIN batch : JobName(e) = JobName(f) => e = f
       /\ \A e \in DOMAIN batch :
             Open(e) /\ FitsOnePage(curr.pipe) =>
                 Cardinality(AllRetries(JobName(e), curr.pipe)) < opt.attempts
       /\ \A r \in Minted :
             FitsOnePage(recs[r].pipe) =>
                 Cardinality(AllRetries(recs[r].name, recs[r].pipe)) <= opt.attempts
  BY DEF AcrossOK, AttemptsOK, AttemptsHoldAcrossRuns, AllRetries
<1>1. CASE SameBatch
  <2>1. /\ recs' = recs /\ run' = run /\ DOMAIN batch' = DOMAIN batch
        /\ \A e \in DOMAIN batch : Open(e)' => Open(e)
        /\ DOMAIN batch # {} => curr' = curr
    BY <1>1 DEF SameBatch
  <2>2. QED
    BY <1>01, <1>03, <2>1
    DEF AttemptsHoldAcrossRuns, AllRetries, Minted, SameJob, FitsOnePage, JobName
<1>2. CASE TallyOk
  <2>1. /\ UNCHANGED <<recs, run, curr>> /\ pc = "tally" /\ DOMAIN batch = {}
    BY <1>0, <1>2, NoBatchProperties DEF TallyOk, ControlOK, gitlabVars, tickVars
  <2>2. \/ batch' = batch
        \/ \E sel \in SUBSET Eligible(JobList) : batch' = StartBatch(sel)
    BY <1>2 DEF TallyOk
  <2>3. DOMAIN batch' \subseteq Eligible(JobList)
    <3>1. ASSUME NEW sel \in SUBSET Eligible(JobList), batch' = StartBatch(sel)
          PROVE  DOMAIN batch' \subseteq Eligible(JobList)
      BY <3>1 DEF StartBatch
    <3>2. QED  BY <2>1, <2>2, <3>1
  <2>4. ASSUME NEW e \in DOMAIN batch', FitsOnePage(curr.pipe)
        PROVE  Cardinality(AllRetries(JobName(e), curr.pipe)) < opt.attempts
    BY <2>1, <2>3, <2>4, RoomForAll
  <2>5. AttemptsHoldAcrossRuns'
    BY <1>01, <1>03, <2>1
    DEF AttemptsHoldAcrossRuns, AllRetries, Minted, SameJob, FitsOnePage
  <2>6. QED
    BY <1>01, <2>1, <2>4, <2>5 DEF AllRetries, Minted, SameJob, FitsOnePage, JobName
<1>3. CASE BatchDone \/ Reinvoke
  <2>1. recs' = recs /\ DOMAIN batch' = {}
    BY <1>3, NoBatchProperties DEF BatchDone, Reinvoke, gitlabVars
  <2>2. AttemptsHoldAcrossRuns'
    BY <1>01, <1>03, <2>1
    DEF AttemptsHoldAcrossRuns, AllRetries, Minted, SameJob, FitsOnePage
  <2>3. QED  BY <2>1, <2>2
<1>4. CASE GitLabStep
  <2>1. /\ UNCHANGED <<run, curr, batch>> /\ RecordsStay /\ Minted' = Minted
    BY <1>4, ServerIs
  <2>2. ASSUME NEW p, FitsOnePage(p)'  PROVE FitsOnePage(p)
    BY <1>0, <2>1, <2>2, FitsBefore
  <2>3. \A r \in Minted : /\ recs'[r].name = recs[r].name
                          /\ recs'[r].pipe = recs[r].pipe
    BY <2>1 DEF Minted, RecordsStay
  <2>4. \A n, p : AllRetries(n, p)' = AllRetries(n, p)
    BY <2>1, <2>3 DEF AllRetries, SameJob
  <2>5. \A e \in DOMAIN batch : JobName(e)' = JobName(e)
    BY <1>0, <2>1 DEF RowsOK, JobName, RecordsStay
  <2>6. ASSUME NEW r \in Minted', NEW n, NEW p, FitsOnePage(p)',
               recs'[r].name = n, recs'[r].pipe = p
        PROVE  Cardinality(AllRetries(n, p)') <= opt.attempts
    BY <1>03, <2>1, <2>2, <2>3, <2>4, <2>6
  <2>7. AttemptsHoldAcrossRuns'
    BY <1>01, <2>6 DEF AttemptsHoldAcrossRuns, AllRetries
  <2>8. ASSUME NEW e \in DOMAIN batch, Open(e)', FitsOnePage(curr.pipe)'
        PROVE  Cardinality(AllRetries(JobName(e), curr.pipe)') < opt.attempts
    <3>1. Open(e) /\ FitsOnePage(curr.pipe)
      BY <2>1, <2>2, <2>8 DEF Open, FitsOnePage
    <3>2. AllRetries(JobName(e), curr.pipe)' = AllRetries(JobName(e), curr.pipe)
      BY <2>1, <2>4, <2>5
    <3>3. QED  BY <1>03, <3>1, <3>2
  <2>9. QED  BY <2>1, <2>7, <2>8
<1>5. ASSUME BatchStep, NEW e \in DOMAIN batch, Accept(e, run)
      PROVE  /\ \A f \in DOMAIN batch' :
                   Open(f)' /\ FitsOnePage(curr.pipe)' =>
                       Cardinality(AllRetries(JobName(f), curr.pipe)') < opt.attempts
             /\ AttemptsHoldAcrossRuns'
  <2> DEFINE new == Len(recs) + 1
  <2>1. /\ UNCHANGED <<run, curr>> /\ RecordsStay
        /\ DOMAIN recs' = DOMAIN recs \cup {new} /\ new \notin DOMAIN recs
        /\ recs'[new].by = run /\ recs'[new].pipe = curr.pipe
        /\ recs'[new].name = JobName(e)
        /\ batch[e] = "sent" /\ batch' = [batch EXCEPT ![e] = "accepted"]
    BY <1>5, AcceptIs
  <2>2. \A n, p :
           AllRetries(n, p)' =
               IF n = JobName(e) /\ p = curr.pipe
               THEN AllRetries(n, p) \cup {new} ELSE AllRetries(n, p)
    BY <1>5, <1>0, AcceptCounts
  <2> HIDE DEF new
  <2>3. /\ DOMAIN batch' = DOMAIN batch /\ ~Open(e)'
        /\ \A f \in DOMAIN batch : Open(f)' => Open(f)
    BY <1>0, <2>1 DEF Open, BatchTypeOK
  <2>4. ASSUME NEW p, FitsOnePage(p)'  PROVE FitsOnePage(p)
    BY <1>0, <2>1, <2>4, FitsBefore
  <2>5. \A f \in DOMAIN batch : JobName(f)' = JobName(f)
    BY <1>0, <2>1 DEF RowsOK, JobName, RecordsStay
  <2>6. ASSUME FitsOnePage(curr.pipe)'
        PROVE  Cardinality(AllRetries(JobName(e), curr.pipe) \cup {new}) <= opt.attempts
    <3>1. FitsOnePage(curr.pipe)
      BY <2>1, <2>4, <2>6 DEF FitsOnePage
    <3>2. Cardinality(AllRetries(JobName(e), curr.pipe)) < opt.attempts
      BY <1>03, <2>1, <3>1 DEF Open
    <3>3. IsFiniteSet(AllRetries(JobName(e), curr.pipe))
      BY <1>0, RecordSetIsFinite DEF AllRetries, Minted
    <3>4. QED  BY <1>01, <3>2, <3>3, OneMore
  <2>7. Minted' = Minted \cup {new} /\ Minted \subseteq DOMAIN recs
    BY <1>0, <2>1 DEF Minted, RecordsStay
  <2>8. \A r \in Minted : /\ recs'[r].name = recs[r].name
                          /\ recs'[r].pipe = recs[r].pipe
    BY <2>1 DEF Minted, RecordsStay
  <2>9. ASSUME NEW r \in Minted', NEW n, NEW p, FitsOnePage(p)',
               recs'[r].name = n, recs'[r].pipe = p
        PROVE  Cardinality(AllRetries(n, p)') <= opt.attempts
    <3>1. CASE n = JobName(e) /\ p = curr.pipe
      <4>1. Cardinality(AllRetries(JobName(e), curr.pipe) \cup {new}) <= opt.attempts
        <5>1. FitsOnePage(curr.pipe)'
          BY <2>1, <2>9, <3>1 DEF FitsOnePage
        <5>2. QED  BY <2>6, <5>1
      <4>2. AllRetries(n, p)' = AllRetries(JobName(e), curr.pipe) \cup {new}
        BY <2>2, <3>1
      <4>3. QED  BY <4>1, <4>2
    <3>2. CASE ~(n = JobName(e) /\ p = curr.pipe)
      <4>1. r \in Minted
        BY <2>1, <2>7, <2>9, <3>2
      <4>2. n = recs[r].name /\ p = recs[r].pipe /\ FitsOnePage(p)
        BY <2>4, <2>8, <2>9, <4>1
      <4>3. AllRetries(n, p)' = AllRetries(n, p)
        BY <2>2, <3>2
      <4>4. QED  BY <1>03, <4>1, <4>2, <4>3
    <3>3. QED  BY <3>1, <3>2
  <2>10. AttemptsHoldAcrossRuns'
    BY <1>01, <2>9 DEF AttemptsHoldAcrossRuns, AllRetries
  <2>11. ASSUME NEW f \in DOMAIN batch, Open(f)', FitsOnePage(curr.pipe)'
         PROVE  Cardinality(AllRetries(JobName(f), curr.pipe)') < opt.attempts
    <3>1. Open(f) /\ FitsOnePage(curr.pipe) /\ f # e
      BY <2>1, <2>3, <2>4, <2>11 DEF FitsOnePage
    <3>2. JobName(f) # JobName(e)
      BY <1>03, <3>1
    <3>3. AllRetries(JobName(f), curr.pipe)' = AllRetries(JobName(f), curr.pipe)
      BY <2>1, <2>2, <2>5, <3>2
    <3>4. QED  BY <1>03, <3>1, <3>3
  <2>12. QED  BY <2>3, <2>10, <2>11
<1>6. QED  BY <1>1, <1>2, <1>3, <1>4, <1>5, StepIs

-----------------------------------------------------------------------------
(* The theorems.                                                           *)

\* The inductive invariant behind the three.
RetryInvariant ==
    RunInvariant /\ ListingsOK /\ LedgerOK /\ LineageOK /\ AttemptsOK /\ AcrossOK

\* When attach is called first there are neither rows nor records.
LEMMA InitRetries ==
  ASSUME Init
  PROVE  RetryInvariant
<1>1. /\ recs = <<>> /\ DOMAIN recs = {} /\ batch = NoBatch /\ DOMAIN batch = {}
      /\ curr = NoTick /\ page = NoPage /\ pc = "resolve"
  BY NoBatchProperties DEF Init, GitLabInit
<1>2. curr.jobs = {} /\ page.rows = {} /\ Minted = {} /\ MintedBy(run) = {}
  BY <1>1 DEF NoTick, NoPage, Minted, MintedBy
<1>3. ListingsOK
  BY <1>1, <1>2 DEF ListingsOK, AreOf, UniqueIds
<1>4. LedgerOK /\ LineageOK
  BY <1>1, <1>2 DEF LedgerOK, LineageOK, OneRetryPerRecord
<1>5. AttemptsOK /\ AcrossOK
  BY <1>1, <1>2 DEF AttemptsOK, AcrossOK, AttemptsHold, AttemptsHoldAcrossRuns
<1>6. QED  BY <1>3, <1>4, <1>5, InitKeeps DEF RetryInvariant

\* What the engine knows of its retries, inductively.
THEOREM RetryInvariantHolds == Spec => []RetryInvariant
<1>1. Init => RetryInvariant
  BY InitRetries
<1>2. RetryInvariant /\ [Next]_vars => RetryInvariant'
  <2>1. SUFFICES ASSUME RetryInvariant, [Next]_vars  PROVE RetryInvariant'
    OBVIOUS
  <2>2. RunInvariant /\ RunInvariant'
    BY <2>1, NextKeeps DEF RetryInvariant
  <2>3. QED
    BY <2>1, <2>2, ListingsKeeps, LedgerKeeps, LineageKeeps, AttemptsKeeps, AcrossKeeps
    DEF RetryInvariant
<1>3. QED  BY <1>1, <1>2, PTL DEF Spec

\* No run has a record retried twice, however late GitLab shows the first retry
\* (core/attach.py _RetryLedger.posted_job_ids).
THEOREM RecordRetriedOnce == Spec => []OneRetryPerRecord
<1>1. RetryInvariant => OneRetryPerRecord
  BY DEF RetryInvariant, LedgerOK, OneRetryPerRecord
<1>2. QED  BY <1>1, RetryInvariantHolds, PTL

\* --retry-attempts bounds the retries one run makes of a job, seen or not yet
\* seen by the tally (core/attach.py _within_budget).
THEOREM AttemptsKept == Spec => []AttemptsHold
<1>1. RetryInvariant => AttemptsHold
  BY DEF RetryInvariant, AttemptsOK, AttemptsHold
<1>2. QED  BY <1>1, RetryInvariantHolds, PTL

\* It bounds those of all runs together where GitLab shows what it accepted
\* (core/retry.py tally_attempts).
THEOREM AttemptsKeptAcrossRuns == Spec => []AttemptsHoldAcrossRuns
<1>1. RetryInvariant => AttemptsHoldAcrossRuns
  BY DEF RetryInvariant, AcrossOK, AttemptsHoldAcrossRuns
<1>2. QED  BY <1>1, RetryInvariantHolds, PTL

-----------------------------------------------------------------------------
(***************************************************************************)
(* No verdict over a running retry, for every policy, every number of jobs *)
(* and pipelines, and any page size that holds a job list.                 *)
(*                                                                         *)
(* The verdict comes from a pipeline read as finished, which GitLab says   *)
(* when no job of its list runs (ReportedOK).  So a running retry has to   *)
(* be in that list (RunningLive): its name is not posted again while it    *)
(* runs (BatchApart), because the tally shows the retry or, where it is    *)
(* read in pages, none of the attempts before it (TallyOK).  What was read *)
(* before a batch does not count the batch's own retries, but then the     *)
(* batch is not the tick's last word (FinishedReads).                      *)
(***************************************************************************)

-----------------------------------------------------------------------------
(* GitLab's answers.                                                       *)

\* A record that somebody else adds belongs to a new pipeline or retries a job
\* of the list that has ended.
AddedFollows ==
    \A q \in DOMAIN recs' \ DOMAIN recs :
        \/ recs'[q].pipe \notin DOMAIN pstat
        \/ /\ Others
           /\ \E x \in Live(recs, recs'[q].pipe) :
                 recs[x].name = recs'[q].name /\ recs[x].status # "active"

\* A prompt GitLab reports a pipeline as finished when no job of its list runs.
LEMMA ChangeTells ==
  ASSUME Prompt, NEW rs, Change(rs), \A r \in DOMAIN rs : rs[r].pipe \in DOMAIN pstat
  PROVE  PipesOK' /\ ReportedOK'
<1>1. recs' = rs /\ pstat' = [p \in DOMAIN pstat |-> Verdict(rs, p)]
  BY DEF Change, Report
<1>2. ASSUME NEW p \in DOMAIN pstat, Verdict(rs, p) \in Finished, NEW r \in Live(rs, p)
      PROVE  rs[r].status # "active"
  <2>1. SUFFICES ASSUME rs[r].status = "active"  PROVE FALSE
    OBVIOUS
  <2>2. "active" \in {rs[q].status : q \in Live(rs, p)}
    BY <2>1
  <2>3. Verdict(rs, p) = "running"
    BY <2>2 DEF Verdict
  <2>4. QED  BY <1>2, <2>3 DEF Finished
<1>3. DOMAIN pstat' = DOMAIN pstat
  BY <1>1
<1>4. PipesOK'
  BY <1>1, <1>3 DEF PipesOK
<1>5. ReportedOK'
  BY <1>1, <1>2, <1>3 DEF ReportedOK
<1>6. QED  BY <1>4, <1>5

\* The records of which one field of one record is changed.
LEMMA OneChanges ==
  ASSUME GitLabTypeOK, Prompt, PipesOK, NEW i \in DOMAIN recs, NEW rec,
         rec.pipe = recs[i].pipe, Change([recs EXCEPT ![i] = rec]),
         recs[i].status # "active" => rec.status = recs[i].status
  PROVE  PipesOK' /\ ReportedOK' /\ FinalStays /\ DOMAIN recs' = DOMAIN recs
<1>0. DOMAIN recs = 1 .. Len(recs)
  BY LenProperties DEF GitLabTypeOK
<1> DEFINE rs == [recs EXCEPT ![i] = rec]
<1>1. /\ DOMAIN rs = DOMAIN recs
      /\ \A r \in DOMAIN recs : rs[r] = IF r = i THEN rec ELSE recs[r]
  OBVIOUS
<1>2. Change(rs)
  OBVIOUS
<1> HIDE DEF rs
<1>3. recs' = rs
  BY <1>2 DEF Change
<1>4. \A r \in DOMAIN rs : rs[r].pipe \in DOMAIN pstat
  BY <1>1 DEF PipesOK
<1>5. PipesOK' /\ ReportedOK'
  BY <1>2, <1>4, ChangeTells
<1>6. FinalStays
  BY <1>1, <1>3 DEF FinalStays
<1>7. QED  BY <1>1, <1>3, <1>5, <1>6

\* The records to which one of a known pipeline is added.
LEMMA OneIsAdded ==
  ASSUME GitLabTypeOK, Prompt, PipesOK, NEW rec \in Record,
         rec.pipe \in DOMAIN pstat, Change(Append(recs, rec))
  PROVE  PipesOK' /\ ReportedOK' /\ FinalStays
<1> DEFINE rs == Append(recs, rec)
<1>1. /\ DOMAIN recs' = DOMAIN recs \cup {Len(recs) + 1}
      /\ \A r \in DOMAIN recs : recs'[r] = recs[r]
      /\ recs'[Len(recs) + 1] = rec
  BY AppendKeeps
<1>2. Change(rs)
  OBVIOUS
<1> HIDE DEF rs
<1>3. recs' = rs
  BY <1>2 DEF Change
<1>4. \A r \in DOMAIN rs : rs[r].pipe \in DOMAIN pstat
  BY <1>1, <1>3 DEF PipesOK
<1>5. PipesOK' /\ ReportedOK'
  BY <1>2, <1>4, ChangeTells
<1>6. FinalStays
  BY <1>1 DEF FinalStays
<1>7. QED  BY <1>5, <1>6

\* What a prompt GitLab does on its own.
LEMMA ServerTells ==
  ASSUME GitLabTypeOK, GitLabNext, Prompt, PipesOK, ReportedOK
  PROVE  PipesOK' /\ ReportedOK' /\ FinalStays /\ AddedFollows
<1>0. /\ DOMAIN recs = 1 .. Len(recs) /\ Len(recs) \in Nat
      /\ \A r \in DOMAIN recs : recs[r] \in Record
  BY LenProperties, ElementOfSeq DEF GitLabTypeOK
<1>1. CASE CreatePipeline
  <2> DEFINE new == [i \in DOMAIN JobNames |->
                        NewRecord(Len(pstat) + 1, JobNames[i], 0, 0, TRUE)]
             q == Len(pstat) + 1
  <2>1. recs' = recs \o new /\ pstat' = Append(pstat, "running")
    BY <1>1 DEF CreatePipeline, Report
  <2>2. /\ Len(JobNames) \in Nat /\ DOMAIN JobNames = 1 .. Len(JobNames)
        /\ \A i \in DOMAIN JobNames : JobNames[i] \in Name
        /\ Len(pstat) \in Nat /\ DOMAIN pstat = 1 .. Len(pstat)
    BY GitLabAssumption, LenProperties DEF Name, GitLabTypeOK
  <2>3. new \in [1 .. Len(JobNames) -> Record]
    BY <2>2 DEF NewRecord, Record, JobStatus
  <2>4. \A i \in DOMAIN JobNames : new[i].pipe = q
    BY DEF NewRecord
  <2> HIDE DEF new
  <2>5. /\ DOMAIN recs' = 1 .. (Len(recs) + Len(JobNames))
        /\ \A i \in 1 .. (Len(recs) + Len(JobNames)) :
              recs'[i] = IF i <= Len(recs) THEN recs[i] ELSE new[i - Len(recs)]
    <3>1. new \in Seq(Record)
      BY <2>2, <2>3, SeqDef
    <3>2. Len(new) = Len(JobNames)
      BY <2>2, <2>3, <3>1
    <3>3. recs \in Seq(Record)
      BY DEF GitLabTypeOK
    <3>4. /\ recs \o new \in Seq(Record)
          /\ Len(recs \o new) = Len(recs) + Len(new)
          /\ \A i \in 1 .. (Len(recs) + Len(new)) :
                (recs \o new)[i] =
                    IF i <= Len(recs) THEN recs[i] ELSE new[i - Len(recs)]
      BY <3>1, <3>3, ConcatProperties
    <3>5. QED  BY <2>1, <3>2, <3>4, LenProperties
  <2>6. /\ \A r \in DOMAIN recs : recs'[r] = recs[r]
        /\ \A r \in DOMAIN recs' \ DOMAIN recs : recs'[r].pipe = q
    BY <1>0, <2>2, <2>4, <2>5
  <2>7. /\ DOMAIN pstat' = DOMAIN pstat \cup {q} /\ q \notin DOMAIN pstat
        /\ \A p \in DOMAIN pstat : pstat'[p] = pstat[p]
        /\ pstat'[q] = "running"
    <3>1. pstat \in Seq(PipelineStatus) /\ "running" \in PipelineStatus
      BY DEF GitLabTypeOK, PipelineStatus
    <3>2. QED  BY <2>1, <2>2, <3>1, AppendProperties
  <2> HIDE DEF q
  <2>8. DOMAIN recs \subseteq DOMAIN recs'
    BY <1>0, <2>2, <2>5
  <2>9. PipesOK'
    BY <2>6, <2>7, <2>8 DEF PipesOK
  <2>10. ASSUME NEW p \in DOMAIN pstat, NEW r \in Live(recs', p)
         PROVE  r \in Live(recs, p) /\ recs'[r] = recs[r]
    <3>1. r \in DOMAIN recs' /\ recs'[r].pipe = p
      BY <2>10 DEF Live, Attempts
    <3>2. r \in DOMAIN recs /\ recs'[r] = recs[r]
      BY <2>6, <2>7, <3>1
    <3>3. Attempts(recs, p) \subseteq Attempts(recs', p)
      BY <2>6, <2>8 DEF Attempts
    <3>4. \A s \in Attempts(recs, p) : recs'[s] = recs[s]
      BY <2>6 DEF Attempts
    <3>5. QED  BY <2>10, <3>2, <3>3, <3>4 DEF Live, Attempts
  <2>11. ReportedOK'
    <3>1. ASSUME NEW p \in DOMAIN pstat', pstat'[p] \in Finished, NEW r \in Live(recs', p)
          PROVE  recs'[r].status # "active"
      <4>1. p \in DOMAIN pstat /\ pstat[p] \in Finished
        BY <2>7, <3>1 DEF Finished
      <4>2. QED  BY <2>10, <3>1, <4>1 DEF ReportedOK
    <3>2. QED  BY <3>1 DEF ReportedOK
  <2>12. QED  BY <2>6, <2>7, <2>9, <2>11 DEF FinalStays, AddedFollows
<1>2. ASSUME NEW r \in DOMAIN recs, JobFinishes(r) \/ OtherRetry(r) \/ Publish(r)
      PROVE  PipesOK' /\ ReportedOK' /\ FinalStays /\ AddedFollows
  <2>1. CASE JobFinishes(r)
    <3>1. PICK s \in Endings : Change([recs EXCEPT ![r].status = s])
      BY <2>1 DEF JobFinishes
    <3> DEFINE rec == [recs[r] EXCEPT !.status = s]
    <3>2. rec.pipe = recs[r].pipe /\ recs[r].status = "active"
      BY <1>0, <2>1 DEF JobFinishes, Record
    <3>3. Change([recs EXCEPT ![r] = rec])
      BY <3>1
    <3> HIDE DEF rec
    <3>4. QED  BY <1>2, <3>2, <3>3, OneChanges DEF AddedFollows
  <2>2. CASE Publish(r)
    <3> DEFINE rec == [recs[r] EXCEPT !.seen = TRUE]
    <3>1. rec.pipe = recs[r].pipe /\ rec.status = recs[r].status
      BY <1>0 DEF Record
    <3>2. Change([recs EXCEPT ![r] = rec])
      BY <2>2 DEF Publish
    <3> HIDE DEF rec
    <3>3. QED  BY <1>2, <3>1, <3>2, OneChanges DEF AddedFollows
  <2>3. CASE OtherRetry(r)
    <3> DEFINE rec == NewRecord(recs[r].pipe, recs[r].name, 0, r, TRUE)
    <3>1. /\ Change(Append(recs, rec)) /\ r \in Live(recs, recs[r].pipe)
          /\ recs[r].status # "active" /\ Others
      BY <2>3 DEF OtherRetry
    <3>2. rec.pipe = recs[r].pipe /\ rec.name = recs[r].name
      BY DEF NewRecord
    <3>3. rec \in Record
      <4>1. recs[r].pipe \in Nat \ {0} /\ recs[r].name \in Name /\ r \in Nat
        BY <1>0 DEF Record
      <4>2. QED  BY <4>1, NewRecordType
    <3> HIDE DEF rec
    <3>4. rec.pipe \in DOMAIN pstat
      BY <1>2, <3>2 DEF PipesOK
    <3>5. /\ DOMAIN recs' = DOMAIN recs \cup {Len(recs) + 1}
          /\ recs'[Len(recs) + 1] = rec
      BY <3>1, <3>3, AppendKeeps
    <3>6. AddedFollows
      BY <3>1, <3>2, <3>5 DEF AddedFollows
    <3>7. QED  BY <3>1, <3>3, <3>4, <3>6, OneIsAdded
  <2>4. QED  BY <1>2, <2>1, <2>2, <2>3
<1>3. ASSUME NEW p \in DOMAIN pstat, UpdateStatus(p)
      PROVE  PipesOK' /\ ReportedOK' /\ FinalStays /\ AddedFollows
  <2>1. recs' = recs /\ pstat' = [pstat EXCEPT ![p] = Verdict(recs, p)]
    BY <1>3 DEF UpdateStatus, Report
  <2>2. \A r \in Live(recs, p) :
           Verdict(recs, p) \in Finished => recs[r].status # "active"
    <3>1. ASSUME NEW r \in Live(recs, p), recs[r].status = "active"
          PROVE  Verdict(recs, p) = "running"
      <4>1. "active" \in {recs[q].status : q \in Live(recs, p)}
        BY <3>1
      <4>2. QED  BY <4>1 DEF Verdict
    <3>2. QED  BY <3>1 DEF Finished
  <2>3. /\ DOMAIN pstat' = DOMAIN pstat
        /\ \A q \in DOMAIN pstat :
              pstat'[q] = IF q = p THEN Verdict(recs, p) ELSE pstat[q]
    BY <2>1
  <2>4. PipesOK' /\ FinalStays /\ AddedFollows
    BY <2>1, <2>3 DEF PipesOK, FinalStays, AddedFollows
  <2>5. ASSUME NEW q \in DOMAIN pstat, pstat'[q] \in Finished, NEW r \in Live(recs, q)
        PROVE  recs[r].status # "active"
    BY <2>2, <2>3, <2>5 DEF ReportedOK
  <2>6. ReportedOK'
    BY <2>1, <2>3, <2>5 DEF ReportedOK
  <2>7. QED  BY <2>4, <2>6
<1>4. QED  BY <1>1, <1>2, <1>3 DEF GitLabNext

\* The run's running retries only become fewer, and stay in the list, while
\* GitLab acts on its own.
LEMMA RunningServed ==
  ASSUME RunInvariant, AcrossOK, Prompt, GitLabStep, PipesOK, ReportedOK,
         RunningLive
  PROVE  /\ \A p : Running(p)' \subseteq Running(p)
         /\ RunningLive'
<1>0. /\ GitLabTypeOK /\ run \in Nat \ {0} /\ run' = run
      /\ RecordsStay /\ MintedBy(run)' = MintedBy(run)
      /\ \A r \in DOMAIN recs : r \in Nat
  <2>1. GitLabTypeOK /\ run \in Nat \ {0}
    BY ConstantTypes DEF RunInvariant, TypeOK
  <2>2. \A r \in DOMAIN recs : r \in Nat
    BY <2>1, LenProperties DEF GitLabTypeOK
  <2>3. QED  BY <2>1, <2>2, ServerIs
<1>1. FinalStays /\ AddedFollows
  BY <1>0, ServerTells DEF GitLabStep
<1>2. ASSUME NEW r \in MintedBy(run), recs'[r].status = "active"
      PROVE  recs[r].status = "active"
  BY <1>1, <1>2 DEF FinalStays, MintedBy
<1>3. \A p : Running(p)' \subseteq Running(p)
  BY <1>0, <1>2 DEF Running, RecordsStay, MintedBy
<1>4. ASSUME NEW r \in MintedBy(run), recs'[r].status = "active"
      PROVE  r \in Live(recs', recs'[r].pipe)
  <2>1. /\ r \in DOMAIN recs /\ recs[r].status = "active" /\ r \in Live(recs, recs[r].pipe)
        /\ r \in DOMAIN recs' /\ recs'[r].pipe = recs[r].pipe
        /\ recs'[r].name = recs[r].name /\ recs'[r].seen
    BY <1>0, <1>2, <1>4 DEF MintedBy, RecordsStay, Live, Attempts, RunningLive
  <2>2. ASSUME NEW s \in Attempts(recs', recs[r].pipe), recs'[s].name = recs[r].name
        PROVE  s <= r
    <3>1. CASE s \in DOMAIN recs
      <4>1. /\ recs[s].seen /\ recs[s].pipe = recs[r].pipe /\ recs[s].name = recs[r].name
        BY <1>0, <2>2, <3>1 DEF AcrossOK, RecordsStay, Attempts
      <4>2. s \in Attempts(recs, recs[r].pipe)
        BY <3>1, <4>1 DEF Attempts
      <4>3. QED  BY <2>1, <4>1, <4>2 DEF Live
    <3>2. CASE s \notin DOMAIN recs
      <4>1. s \in DOMAIN recs' /\ recs'[s].pipe = recs[r].pipe
        BY <2>2 DEF Attempts
      <4>2. PICK x \in Live(recs, recs[r].pipe) :
               recs[x].name = recs[r].name /\ recs[x].status # "active"
        BY <1>1, <2>1, <2>2, <3>2, <4>1 DEF AddedFollows, PipesOK
      <4>3. x <= r /\ r <= x /\ x \in DOMAIN recs
        BY <2>1, <4>2 DEF Live, Attempts
      <4>4. x = r
        BY <1>0, <2>1, <4>3
      <4>5. QED  BY <2>1, <4>2, <4>4
    <3>3. QED  BY <3>1, <3>2
  <2>3. QED  BY <2>1, <2>2 DEF Live, Attempts
<1>5. QED  BY <1>0, <1>3, <1>4 DEF RunningLive

-----------------------------------------------------------------------------
(* What a step leaves true.                                                *)

\* GitLab does not change its way.
LEMMA ModeStays ==
  ASSUME RunInvariant, ListingsOK, [Next]_vars
  PROVE  mode' = mode
<1>1. CASE GitLabStep
  BY <1>1, ServerIs
<1>2. CASE BatchStep /\ \E e \in DOMAIN batch : Accept(e, run)
  BY <1>2, AcceptIs
<1>3. CASE SameBatch \/ TallyOk \/ BatchDone \/ Reinvoke
  BY <1>3 DEF SameBatch, TallyOk, BatchDone, Reinvoke, gitlabVars
<1>4. QED  BY <1>1, <1>2, <1>3, StepIs

\* What GitLab reports is true after every step, and what has ended has ended.
LEMMA ReportsKeep ==
  ASSUME RunInvariant, ListingsOK, Prompt, PipesOK, ReportedOK, [Next]_vars
  PROVE  PipesOK' /\ ReportedOK' /\ FinalStays
<1>0. GitLabTypeOK /\ RowsOK /\ run \in Nat
  BY ConstantTypes DEF RunInvariant, TypeOK
<1>1. CASE SameBatch \/ TallyOk \/ BatchDone \/ Reinvoke
  <2>1. recs' = recs /\ pstat' = pstat
    BY <1>1 DEF SameBatch, TallyOk, BatchDone, Reinvoke, gitlabVars
  <2>2. QED  BY <2>1 DEF PipesOK, ReportedOK, FinalStays
<1>2. CASE GitLabStep
  BY <1>0, <1>2, ServerTells DEF GitLabStep
<1>3. ASSUME BatchStep, NEW e \in DOMAIN batch, Accept(e, run)
      PROVE  PipesOK' /\ ReportedOK' /\ FinalStays
  <2>1. e.id \in DOMAIN recs /\ recs[e.id] \in Record /\ e.id \in Nat
    BY <1>0, LenProperties, ElementOfSeq DEF RowsOK, GitLabTypeOK
  <2>2. PICK v \in BOOLEAN :
           Change(Append(recs, NewRecord(recs[e.id].pipe, recs[e.id].name, run, e.id, v)))
    BY <1>3 DEF Accept, Mint
  <2> DEFINE rec == NewRecord(recs[e.id].pipe, recs[e.id].name, run, e.id, v)
  <2>3. rec \in Record /\ rec.pipe = recs[e.id].pipe
    <3>1. recs[e.id].pipe \in Nat \ {0} /\ recs[e.id].name \in Name
      BY <2>1 DEF Record
    <3>2. rec \in Record
      BY <1>0, <2>1, <3>1, NewRecordType
    <3>3. QED  BY <3>2 DEF NewRecord
  <2>4. Change(Append(recs, rec))
    BY <2>2
  <2> HIDE DEF rec
  <2>5. rec.pipe \in DOMAIN pstat
    BY <2>1, <2>3 DEF PipesOK
  <2>6. QED  BY <1>0, <2>3, <2>4, <2>5, OneIsAdded
<1>4. QED  BY <1>1, <1>2, <1>3, StepIs

\* What has ended keeps the status its row was read with.
LEMMA RowsKeepTelling ==
  ASSUME RunInvariant, ListingsOK, OnePage, FinalStays, RowsTell, [Next]_vars
  PROVE  RowsTell'
<1>1. CASE LoadJobs \/ PollJobs \/ FollowSwitch
  <2>1. /\ pc \in {"jobs", "polljobs", "followjobs"} /\ pc # "tally"
        /\ curr'.jobs = JobList /\ recs' = recs
    BY <1>1 DEF LoadJobs, PollJobs, FollowSwitch, SwitchTo, gitlabVars
  <2>2. page = NoPage
    BY <2>1 DEF ListingsOK
  <2>3. JobList = Rows(recs, Requested, 1)
    BY <2>2 DEF JobList
  <2>4. QED  BY <2>1, <2>3 DEF RowsTell, Rows
<1>2. CASE Reinvoke
  BY <1>2 DEF Reinvoke, NoTick, RowsTell
<1>3. CASE curr' = curr
  <2>1. \A e \in curr.jobs : e.id \in DOMAIN recs
    BY DEF RunInvariant, RowsOK
  <2>2. QED  BY <1>3, <2>1 DEF RowsTell, FinalStays
<1>4. QED
  BY <1>1, <1>2, <1>3
  DEF Next, GitLabStep, EngineStep, BatchStep, Timeout, Ended, vars, tickVars, ResolveOk,
      ResolveNone, WaitOver, StartError, ReadFirstPage, Tick, TallyOk, TallyError,
      BatchDone, Teardown, SleepOver, FollowList, FollowError, PollPipeline, PollError,
      UncaughtError, BatchBroken

\* The records newer than a newer one are fewer.
LEMMA NewerAreFewer ==
  ASSUME GitLabTypeOK, NEW S \in SUBSET DOMAIN recs, NEW r \in Nat, NEW q \in Nat, q <= r
  PROVE  /\ Cardinality({s \in S : s > r}) \in Nat
         /\ Cardinality({s \in S : s > q}) \in Nat
         /\ Cardinality({s \in S : s > r}) <= Cardinality({s \in S : s > q})
<1> DEFINE R == {s \in S : s > r}
           Q == {s \in S : s > q}
<1>1. \A s \in DOMAIN recs : s \in Nat
  BY LenProperties DEF GitLabTypeOK
<1>2. R \subseteq Q /\ Q \in SUBSET DOMAIN recs /\ R \in SUBSET DOMAIN recs
  BY <1>1
<1> HIDE DEF R, Q
<1>3. Cardinality(R) \in Nat /\ Cardinality(Q) \in Nat /\ IsFiniteSet(Q)
  BY <1>2, RecordSetIsFinite
<1>4. Cardinality(R) <= Cardinality(Q)
  BY <1>2, <1>3, FS_Subset
<1>5. QED  BY <1>3, <1>4 DEF R, Q

\* What the first page of a tally leaves out.
LEMMA TallyPages ==
  ASSUME RunInvariant, AcrossOK, Prompt, ReadFirstPage
  PROVE  TallyOK'
<1>1. /\ FirstPage(Requested) # Requested
      /\ page'.rows = Rows(recs, FirstPage(Requested), 1)
      /\ UNCHANGED <<recs, run, pc, curr>>
  BY DEF ReadFirstPage, gitlabVars, tickVars
<1>2. GitLabTypeOK /\ PageSize \in Nat \ {0} /\ \A r \in DOMAIN recs : r \in Nat
  BY LenProperties, GitLabAssumption DEF RunInvariant, TypeOK, GitLabTypeOK
<1>3. SUFFICES ASSUME pc = "tally", NEW r \in Running(curr.pipe)
               PROVE  \/ \E f \in page'.rows : f.id = r
                      \/ /\ \A f \in page'.rows : f.id > r
                         /\ Cardinality({s \in Attempts(recs, curr.pipe) : s > r})
                              >= PageSize
  BY <1>1 DEF TallyOK, Running, MintedBy
<1> DEFINE A == Attempts(recs, curr.pipe)
<1>4. Requested = A /\ A \in SUBSET DOMAIN recs /\ r \in A
  BY <1>3 DEF Requested, Running, MintedBy, Attempts, AcrossOK
<1> HIDE DEF A
<1>5. CASE r \in FirstPage(A)
  <2>1. [id |-> r, st |-> recs[r].status, page |-> 1] \in page'.rows
    BY <1>1, <1>4, <1>5 DEF Rows
  <2>2. QED  BY <2>1
<1>6. CASE r \notin FirstPage(A)
  <2>1. ~(Cardinality({s \in A : s > r}) < PageSize) /\ r \in Nat
    BY <1>2, <1>4, <1>6 DEF FirstPage, Newest
  <2>2. Cardinality({s \in A : s > r}) >= PageSize
    BY <1>2, <1>4, <2>1, NewerAreFewer
  <2>3. ASSUME NEW q \in FirstPage(A), q <= r
        PROVE  FALSE
    <3>1. q \in A /\ q \in Nat /\ Cardinality({s \in A : s > q}) < PageSize
      BY <1>2, <1>4 DEF FirstPage, Newest
    <3>2. /\ Cardinality({s \in A : s > r}) <= Cardinality({s \in A : s > q})
          /\ Cardinality({s \in A : s > r}) \in Nat
          /\ Cardinality({s \in A : s > q}) \in Nat
      BY <1>2, <1>4, <2>1, <2>3, <3>1, NewerAreFewer
    <3>3. QED  BY <1>2, <2>2, <3>1, <3>2
  <2>4. FirstPage(A) \subseteq A
    BY DEF FirstPage, Newest
  <2>5. \A q \in FirstPage(A) : q > r
    BY <1>2, <1>4, <2>1, <2>3, <2>4
  <2>6. QED  BY <1>1, <1>4, <2>2, <2>5 DEF Rows, A
<1>7. QED  BY <1>5, <1>6

\* It stays true while GitLab acts on its own: records are only added.
LEMMA TallyServed ==
  ASSUME RunInvariant, AcrossOK, Prompt, GitLabStep, PipesOK, ReportedOK, TallyOK,
         RunningLive
  PROVE  TallyOK'
<1>1. /\ UNCHANGED <<pc, curr, page>> /\ RecordsStay
      /\ \A p : Running(p)' \subseteq Running(p)
      /\ GitLabTypeOK /\ GitLabTypeOK' /\ PageSize \in Nat
  <2>1. GitLabTypeOK /\ PageSize \in Nat
    BY GitLabAssumption DEF RunInvariant, TypeOK
  <2>2. UNCHANGED <<pc, curr, page>>
    BY DEF GitLabStep, fetchVars, tickVars
  <2>3. QED  BY <2>1, <2>2, RunningServed, ServerIs
<1>2. ASSUME NEW r, pc = "tally", page # NoPage, r \in Running(curr.pipe)',
             ~\E f \in page.rows : f.id = r
      PROVE  /\ \A f \in page.rows : f.id > r
             /\ Cardinality({s \in Attempts(recs', curr.pipe) : s > r}) >= PageSize
  <2> DEFINE S == {s \in Attempts(recs, curr.pipe) : s > r}
             T == {s \in Attempts(recs', curr.pipe) : s > r}
  <2>1. r \in Running(curr.pipe)
    BY <1>1, <1>2 DEF Running
  <2>2. (\A f \in page.rows : f.id > r) /\ Cardinality(S) >= PageSize
    BY <1>2, <2>1 DEF TallyOK
  <2>3. S \subseteq T /\ T \in SUBSET DOMAIN recs' /\ S \in SUBSET DOMAIN recs
    BY <1>1 DEF RecordsStay, Attempts
  <2> HIDE DEF S, T
  <2>4. IsFiniteSet(T) /\ Cardinality(T) \in Nat
    <3>1. Len(recs') \in Nat /\ DOMAIN recs' = 1 .. Len(recs')
      BY <1>1, LenProperties DEF GitLabTypeOK
    <3>2. IsFiniteSet(DOMAIN recs')
      BY <3>1, FS_Interval
    <3>3. QED  BY <2>3, <3>2, FS_Subset, FS_CardinalityType
  <2>5. Cardinality(S) <= Cardinality(T) /\ Cardinality(S) \in Nat
    BY <1>1, <2>3, <2>4, FS_Subset, RecordSetIsFinite
  <2>6. Cardinality(T) >= PageSize
    BY <1>1, <2>2, <2>4, <2>5
  <2>7. QED  BY <2>2, <2>6 DEF T
<1>3. QED  BY <1>1, <1>2 DEF TallyOK

\* Every step keeps that.
LEMMA PagesKeep ==
  ASSUME RunInvariant, ListingsOK, AcrossOK, Prompt, PipesOK, ReportedOK, TallyOK,
         RunningLive,
         [Next]_vars
  PROVE  TallyOK'
<1>1. CASE ReadFirstPage
  BY <1>1, TallyPages
<1>2. CASE GitLabStep
  BY <1>2, TallyServed
<1>3. CASE BatchStep
  <2>1. DOMAIN batch # {} /\ pc' = pc
    BY <1>3 DEF BatchStep
  <2>2. pc' # "tally"
    BY <2>1, NoBatchProperties DEF ControlOK, RunInvariant
  <2>3. QED  BY <2>2 DEF TallyOK
<1>4. CASE Tick
  <2>1. page' = page /\ pc \notin ListingPCs
    BY <1>4 DEF Tick, fetchVars, ListingPCs
  <2>2. QED  BY <2>1 DEF TallyOK, ListingsOK
<1>5. CASE Ended \/ UNCHANGED vars
  <2>1. UNCHANGED <<recs, run, pc, curr, page>>
    BY <1>5 DEF Ended, vars
  <2>2. QED  BY <2>1 DEF TallyOK, Running, MintedBy
<1>6. CASE \/ ResolveOk \/ ResolveNone \/ WaitOver \/ StartError \/ LoadJobs
           \/ TallyOk \/ TallyError \/ BatchDone \/ Teardown
           \/ SleepOver \/ FollowList \/ FollowError \/ FollowSwitch
           \/ PollPipeline \/ PollJobs \/ PollError \/ UncaughtError
           \/ Timeout \/ Reinvoke
           \/ \E e \in DOMAIN batch : BatchBroken(e)
  <2>1. pc' # "tally"
    BY <1>6
    DEF ResolveOk, ResolveNone, WaitOver, StartError, LoadJobs, TallyOk, TallyError,
        BatchDone, Teardown, SleepOver, FollowList, FollowError, FollowSwitch,
        PollPipeline, PollJobs, PollError, UncaughtError, Timeout, Reinvoke, BatchBroken,
        Conclude, Fail, End
  <2>2. QED  BY <2>1 DEF TallyOK
<1>7. GitLabStep \/ EngineStep \/ BatchStep \/ Timeout \/ Reinvoke \/ Ended \/ UNCHANGED vars
  BY DEF Next
<1>8. CASE EngineStep
  BY <1>1, <1>4, <1>6, <1>8 DEF EngineStep
<1>9. QED  BY <1>2, <1>3, <1>5, <1>6, <1>7, <1>8

\* A job whose retry is running is not selected: the tally shows the retry, or
\* none of the attempts before it.
LEMMA NotSelected ==
  ASSUME RunInvariant, ListingsOK, RunningLive, TallyOK, RowsTell, Prompt, AcrossOK,
         pc = "tally", NEW e \in Eligible(JobList), NEW r \in Running(curr.pipe)
  PROVE  recs[r].name # JobName(e)
<1> DEFINE A == Attempts(recs, curr.pipe)
<1>1. SUFFICES ASSUME recs[r].name = JobName(e)  PROVE FALSE
  OBVIOUS
<1>2. /\ GitLabTypeOK /\ page.upto \in Nat /\ PageSize \in Nat
      /\ \A s \in DOMAIN recs : s \in Nat
  BY LenProperties, GitLabAssumption DEF RunInvariant, TypeOK, RunTypeOK, GitLabTypeOK
<1>3. /\ r \in MintedBy(run) /\ recs[r].pipe = curr.pipe /\ recs[r].status = "active"
  BY DEF Running
<1>4. r \in Live(recs, curr.pipe) /\ r \in A /\ r \in Nat
  BY <1>2, <1>3 DEF RunningLive, Live, Attempts
<1>5. /\ e \in curr.jobs /\ e.st = "failed" /\ e.id \in A /\ e.id \in Nat
      /\ IsNewest(JobList, e)
  BY <1>2, EligibleIs DEF Eligible, Candidates, IsBlocking, ShownAttempts, Attempts
<1>6. e.id < r
  <2>1. recs[e.id].status = "failed"
    BY <1>5 DEF RowsTell
  <2>2. recs[e.id].name = recs[r].name
    BY <1>1 DEF JobName
  <2>3. e.id <= r
    BY <1>4, <1>5, <2>2 DEF Live
  <2>4. QED  BY <1>3, <1>4, <1>5, <2>1, <2>3
<1>7. ASSUME NEW g \in JobList, g.id = r
      PROVE  FALSE
  <2>1. JobName(g) = JobName(e)
    BY <1>1, <1>7 DEF JobName
  <2>2. g.id <= e.id
    BY <1>5, <2>1 DEF IsNewest
  <2>3. QED  BY <1>4, <1>5, <1>6, <1>7, <2>2
<1>8. Requested = A
  BY DEF Requested
<1> HIDE DEF A
<1>9. CASE page = NoPage
  <2>1. [id |-> r, st |-> recs[r].status, page |-> 1] \in JobList
    BY <1>4, <1>8, <1>9 DEF JobList, Rows
  <2>2. QED  BY <1>7, <2>1
<1>10. CASE page # NoPage
  <2>1. JobList = page.rows \cup Rows(recs, Newest(A, page.upto) \ FirstPage(A), 2)
    BY <1>8, <1>10 DEF JobList
  <2>2. CASE \E f \in page.rows : f.id = r
    BY <1>7, <2>1, <2>2
  <2>3. CASE /\ \A f \in page.rows : f.id > r
             /\ Cardinality({s \in A : s > r}) >= PageSize
    <3>1. PICK g \in JobList : g.id = e.id
      BY <1>5 DEF IsNewest
    <3>2. g \notin page.rows
      BY <1>4, <1>5, <1>6, <2>3, <3>1
    <3>3. e.id \in Newest(A, page.upto)
      BY <2>1, <3>1, <3>2 DEF Rows
    <3>4. /\ Cardinality({s \in A : s > r}) \in Nat
          /\ Cardinality({s \in A : s > e.id}) \in Nat
          /\ Cardinality({s \in A : s > r}) <= Cardinality({s \in A : s > e.id})
      <4>1. A \in SUBSET DOMAIN recs
        BY DEF A, Attempts
      <4>2. e.id <= r /\ e.id \in Nat /\ r \in Nat
        BY <1>4, <1>5, <1>6
      <4>3. QED  BY <1>2, <4>1, <4>2, NewerAreFewer
    <3>5. Cardinality({s \in A : s > e.id}) < page.upto
      BY <3>3 DEF Newest
    <3>6. Cardinality({s \in A : s > r}) < page.upto
      BY <1>2, <3>4, <3>5
    <3>7. r \in Newest(A, page.upto)
      BY <1>4, <3>6 DEF Newest
    <3>8. r \notin FirstPage(A)
      BY <1>2, <2>3, <3>4 DEF FirstPage, Newest
    <3>9. [id |-> r, st |-> recs[r].status, page |-> 2] \in JobList
      BY <2>1, <3>7, <3>8 DEF Rows
    <3>10. QED  BY <1>7, <3>9
  <2>4. QED  BY <1>10, <2>2, <2>3 DEF TallyOK, A
<1>11. QED  BY <1>9, <1>10

\* A pipeline reported as finished has no running retry of this run.
LEMMA FinishedRests ==
  ASSUME ReportedOK, RunningLive, NEW p \in DOMAIN pstat, pstat[p] \in Finished
  PROVE  Running(p) = {}
  BY DEF ReportedOK, RunningLive, Running

\* An accepted retry is in the list of the pipeline, and hides no running one.
LEMMA LiveKeeps ==
  ASSUME RunInvariant, ListingsOK, AcrossOK, Prompt, PipesOK, ReportedOK, RunningLive,
         [Next]_vars,
         \A e \in DOMAIN batch :
            Open(e) => \A r \in Running(curr.pipe) : recs[r].name # JobName(e)
  PROVE  RunningLive'
<1>1. CASE GitLabStep
  BY <1>1, RunningServed
<1>2. CASE SameBatch \/ TallyOk \/ BatchDone
  <2>1. recs' = recs /\ run' = run
    BY <1>2 DEF SameBatch, TallyOk, BatchDone, gitlabVars
  <2>2. QED  BY <2>1 DEF RunningLive, MintedBy
<1>3. CASE Reinvoke
  <2>1. MintedBy(run)' = {}
    BY <1>3, ConstantTypes
    DEF Reinvoke, gitlabVars, MintedBy, RunInvariant, TypeOK, BudgetOK, GitLabTypeOK
  <2>2. QED  BY <2>1 DEF RunningLive
<1>4. ASSUME BatchStep, NEW e \in DOMAIN batch, Accept(e, run)
      PROVE  RunningLive'
  <2> DEFINE new == Len(recs) + 1
  <2>1. /\ UNCHANGED <<run, curr>> /\ RecordsStay
        /\ DOMAIN recs' = DOMAIN recs \cup {new} /\ new \notin DOMAIN recs
        /\ recs'[new].pipe = curr.pipe /\ recs'[new].name = JobName(e)
        /\ recs'[new].seen /\ batch[e] = "sent"
    BY <1>4, AcceptIs
  <2>2. /\ \A r \in DOMAIN recs : r \in Nat /\ r < new
        /\ new \in Nat
    BY LenProperties DEF RunInvariant, TypeOK, GitLabTypeOK
  <2>3. FinalStays
    BY ReportsKeep
  <2> HIDE DEF new
  <2>4. ASSUME NEW r \in MintedBy(run)', recs'[r].status = "active"
        PROVE  r \in Live(recs', recs'[r].pipe)
    <3>1. CASE r = new
      <4>1. r \in Attempts(recs', recs'[r].pipe)
        BY <2>1, <3>1 DEF Attempts
      <4>2. \A s \in Attempts(recs', recs'[r].pipe) : s <= r
        BY <2>1, <2>2, <3>1 DEF Attempts
      <4>3. QED  BY <4>1, <4>2 DEF Live
    <3>2. CASE r # new
      <4>1. /\ r \in DOMAIN recs /\ r \in MintedBy(run) /\ recs[r].status = "active"
            /\ r \in Live(recs, recs[r].pipe)
            /\ r \in DOMAIN recs' /\ recs'[r].pipe = recs[r].pipe
            /\ recs'[r].name = recs[r].name /\ recs'[r].seen
        BY <2>1, <2>3, <2>4, <3>2
        DEF FinalStays, MintedBy, RecordsStay, RunningLive, Live, Attempts
      <4>2. ASSUME NEW s \in Attempts(recs', recs[r].pipe), recs'[s].name = recs[r].name
            PROVE  s <= r
        <5>1. CASE s = new
          <6>1. r \in Running(curr.pipe) /\ recs[r].name = JobName(e) /\ Open(e)
            BY <2>1, <4>1, <4>2, <5>1 DEF Running, Attempts, Open
          <6>2. QED  BY <6>1
        <5>2. CASE s # new
          <6>1. s \in DOMAIN recs
            BY <2>1, <4>2, <5>2 DEF Attempts
          <6>2. recs[s].seen /\ recs[s].pipe = recs[r].pipe /\ recs[s].name = recs[r].name
            BY <2>1, <4>2, <6>1 DEF AcrossOK, RecordsStay, Attempts
          <6>3. s \in Attempts(recs, recs[r].pipe)
            BY <6>1, <6>2 DEF Attempts
          <6>4. QED  BY <4>1, <6>2, <6>3 DEF Live
        <5>3. QED  BY <5>1, <5>2
      <4>3. QED  BY <4>1, <4>2 DEF Live, Attempts
    <3>3. QED  BY <3>1, <3>2
  <2>5. QED  BY <2>4 DEF RunningLive
<1>5. QED  BY <1>1, <1>2, <1>3, <1>4, StepIs

\* A batch begins with jobs of which none has a running retry; only its own POSTs
\* add one.
LEMMA ApartKeeps ==
  ASSUME RunInvariant, ListingsOK, AcrossOK, OnePage, Prompt, PipesOK, ReportedOK,
         RunningLive, TallyOK, RowsTell, BatchApart, [Next]_vars
  PROVE  BatchApart'
<1>0. ControlOK /\ BatchTypeOK /\ GitLabTypeOK /\ RowsOK
  BY DEF RunInvariant, TypeOK
<1>1. CASE SameBatch
  <2>1. /\ recs' = recs /\ run' = run /\ DOMAIN batch' = DOMAIN batch
        /\ \A e \in DOMAIN batch : Open(e)' => Open(e)
        /\ DOMAIN batch # {} => curr' = curr
    BY <1>1 DEF SameBatch
  <2>2. QED  BY <2>1 DEF BatchApart, Running, MintedBy, JobName
<1>2. CASE TallyOk
  <2>1. /\ UNCHANGED <<recs, run, curr>> /\ pc = "tally" /\ DOMAIN batch = {}
    BY <1>0, <1>2, NoBatchProperties DEF TallyOk, ControlOK, gitlabVars, tickVars
  <2>2. \/ batch' = batch
        \/ \E sel \in SUBSET Eligible(JobList) : batch' = StartBatch(sel)
    BY <1>2 DEF TallyOk
  <2>3. DOMAIN batch' \subseteq Eligible(JobList)
    <3>1. ASSUME NEW sel \in SUBSET Eligible(JobList), batch' = StartBatch(sel)
          PROVE  DOMAIN batch' \subseteq Eligible(JobList)
      BY <3>1 DEF StartBatch
    <3>2. QED  BY <2>1, <2>2, <3>1
  <2>4. \A e, f \in DOMAIN batch' : JobName(e) = JobName(f) => e = f
    BY <2>3, NewestIsOne
  <2>5. ASSUME NEW e \in DOMAIN batch', NEW r \in Running(curr.pipe)
        PROVE  recs[r].name # JobName(e)
    BY <2>1, <2>3, NotSelected
  <2>6. QED  BY <2>1, <2>4, <2>5 DEF BatchApart, Running, MintedBy, JobName
<1>3. CASE BatchDone \/ Reinvoke
  <2>1. DOMAIN batch' = {}
    BY <1>3, NoBatchProperties DEF BatchDone, Reinvoke
  <2>2. QED  BY <2>1 DEF BatchApart
<1>4. CASE GitLabStep
  <2>1. /\ UNCHANGED <<batch, curr>> /\ RecordsStay
        /\ \A p : Running(p)' \subseteq Running(p)
    BY <1>4, ServerIs, RunningServed
  <2>2. \A e \in DOMAIN batch : e.id \in DOMAIN recs /\ JobName(e)' = JobName(e)
    BY <1>0, <2>1 DEF RowsOK, RecordsStay, JobName
  <2>3. \A r \in Running(curr.pipe)' :
           r \in Running(curr.pipe) /\ recs'[r].name = recs[r].name
    BY <2>1 DEF Running, MintedBy, RecordsStay
  <2>4. \A e \in DOMAIN batch : Open(e)' <=> Open(e)
    BY <2>1 DEF Open
  <2>5. QED  BY <2>1, <2>2, <2>3, <2>4 DEF BatchApart
<1>5. ASSUME BatchStep, NEW e \in DOMAIN batch, Accept(e, run)
      PROVE  BatchApart'
  <2> DEFINE new == Len(recs) + 1
  <2>1. /\ UNCHANGED <<run, curr>> /\ RecordsStay
        /\ DOMAIN recs' = DOMAIN recs \cup {new} /\ new \notin DOMAIN recs
        /\ recs'[new].name = JobName(e)
        /\ batch' = [batch EXCEPT ![e] = "accepted"]
    BY <1>5, AcceptIs
  <2>2. FinalStays
    BY ReportsKeep
  <2> HIDE DEF new
  <2>3. /\ DOMAIN batch' = DOMAIN batch
        /\ \A f \in DOMAIN batch : Open(f)' => Open(f) /\ f # e
    BY <1>0, <2>1 DEF Open, BatchTypeOK
  <2>4. \A f \in DOMAIN batch : f.id \in DOMAIN recs /\ JobName(f)' = JobName(f)
    BY <1>0, <2>1 DEF RowsOK, RecordsStay, JobName
  <2>5. ASSUME NEW f \in DOMAIN batch, Open(f)', NEW r \in Running(curr.pipe)'
        PROVE  recs'[r].name # JobName(f)
    <3>1. CASE r = new
      BY <2>1, <2>3, <2>5, <3>1 DEF BatchApart
    <3>2. CASE r # new
      <4>1. r \in Running(curr.pipe) /\ recs'[r].name = recs[r].name
        BY <2>1, <2>2, <2>5, <3>2 DEF Running, MintedBy, RecordsStay, FinalStays
      <4>2. QED  BY <2>3, <2>5, <4>1 DEF BatchApart
    <3>3. QED  BY <3>1, <3>2
  <2>6. \A f, g \in DOMAIN batch' : JobName(f)' = JobName(g)' => f = g
    BY <2>3, <2>4 DEF BatchApart
  <2>7. \A f \in DOMAIN batch' :
           Open(f)' => \A r \in Running(curr.pipe)' : recs'[r].name # JobName(f)'
    BY <2>3, <2>4, <2>5
  <2>8. QED  BY <2>6, <2>7 DEF BatchApart
<1>6. QED  BY <1>1, <1>2, <1>3, <1>4, <1>5, StepIs

\* Every step keeps what is known of the running retries.
LEMMA RunningKeeps ==
  ASSUME RetryInvariant, RunningOK, [Next]_vars
  PROVE  RunningOK'
<1>1. RunInvariant /\ ListingsOK /\ AcrossOK
  BY DEF RetryInvariant
<1>2. mode' = mode
  BY <1>1, ModeStays
<1>3. SUFFICES ASSUME OnePage, Prompt
               PROVE  (PipesOK /\ ReportedOK /\ RunningLive /\ TallyOK
                          /\ RowsTell /\ BatchApart)'
  BY <1>2 DEF RunningOK, OnePage, Prompt
<1>4. PipesOK /\ ReportedOK /\ RunningLive /\ TallyOK /\ RowsTell /\ BatchApart
  BY <1>3 DEF RunningOK
<1>5. PipesOK' /\ ReportedOK' /\ FinalStays
  BY <1>1, <1>3, <1>4, ReportsKeep
<1>6. RunningLive'
  BY <1>1, <1>3, <1>4, LiveKeeps DEF BatchApart
<1>7. TallyOK'
  BY <1>1, <1>3, <1>4, PagesKeep
<1>8. RowsTell'
  BY <1>1, <1>3, <1>4, <1>5, RowsKeepTelling
<1>9. BatchApart'
  BY <1>1, <1>3, <1>4, ApartKeeps
<1>10. QED  BY <1>5, <1>6, <1>7, <1>8, <1>9

-----------------------------------------------------------------------------
(* The verdict.                                                            *)

\* What the engine and its batch do not notice: GitLab's own steps and the halves
\* of the POSTs.
LEMMA VerdictServed ==
  ASSUME RunInvariant, ListingsOK, AcrossOK, Prompt, PipesOK, ReportedOK, RunningLive,
         FinishedReads, [Next]_vars, GitLabStep \/ BatchStep
  PROVE  FinishedReads'
<1>0. ControlOK /\ BatchTypeOK /\ run \in Nat \ {0}
  BY ConstantTypes DEF RunInvariant, TypeOK
<1>1. UNCHANGED <<run, pc, curr, target, result>>
  BY DEF GitLabStep, BatchStep, tickVars, fetchVars, reportVars
<1>2. CASE GitLabStep
  <2>1. /\ batch' = batch /\ MintedBy(run)' = MintedBy(run)
        /\ \A p : Running(p)' \subseteq Running(p)
    BY <1>0, <1>1, <1>2, ServerIs, RunningServed
  <2>2. Accepted' = Accepted
    BY <2>1 DEF Accepted
  <2>3. QED  BY <1>1, <2>1, <2>2 DEF FinishedReads
<1>3. CASE BatchStep
  <2>1. /\ DOMAIN batch # {} /\ batch # NoBatch
        /\ pc \in {"post", "dying", "done"} /\ result.reason # "terminal"
    BY <1>0, <1>3, NoBatchProperties DEF BatchStep, ControlOK, FinishedReads
  <2>2. PICK e \in DOMAIN batch : Send(e) \/ Collect(e) \/ Accept(e, run) \/ Refuse(e)
    BY <1>3 DEF BatchStep
  <2>3. CASE Accept(e, run)
    <3>1. batch' = [batch EXCEPT ![e] = "accepted"]
      BY <2>3 DEF Accept, Move
    <3>2. e \in Accepted'
      BY <3>1 DEF Accepted
    <3>3. QED  BY <1>1, <2>1, <3>2 DEF FinishedReads
  <2>4. CASE Send(e) \/ Collect(e) \/ Refuse(e)
    <3>1. recs' = recs
      BY <2>4 DEF Send, Collect, Refuse, gitlabVars
    <3>2. Truthful
      BY DEF Prompt, Truthful
    <3>3. Accepted \subseteq Accepted'
      BY <1>0, <2>4, <3>2 DEF Send, Collect, Refuse, Move, Accepted, BatchTypeOK
    <3>4. QED  BY <1>1, <2>1, <3>1, <3>3 DEF FinishedReads, Running, MintedBy
  <2>5. QED  BY <2>2, <2>3, <2>4
<1>4. QED  BY <1>2, <1>3

\* The end of a tick on a finished pipeline is reached with no retry running.
LEMMA VerdictConcludes ==
  ASSUME FinishedReads, NEW k, NEW n, Conclude(k, n), pc # "done",
         UNCHANGED <<recs, run, curr>>, batch' = NoBatch,
         k = 0 /\ curr.status \in Finished => Running(curr.pipe) = {}
  PROVE  FinishedReads'
<1>1. Running(curr.pipe)' = Running(curr.pipe)
  BY DEF Running, MintedBy
<1>2. CASE curr.status \in Finished /\ k = 0
  <2>1. /\ pc' = "done" /\ result'.pipe = curr.pipe
    BY <1>2 DEF Conclude, End
  <2>2. Running(result.pipe)' = {}
    BY <1>1, <1>2, <2>1 DEF Running
  <2>3. QED  BY <2>1, <2>2 DEF FinishedReads
<1>3. CASE ~(curr.status \in Finished /\ k = 0)
  <2>1. pc' = "sleep" /\ result' = result
    BY <1>3 DEF Conclude
  <2>2. QED  BY <2>1 DEF FinishedReads
<1>4. QED  BY <1>2, <1>3

\* The reads and the rests of the engine, and the ends without a verdict.
LEMMA VerdictReads ==
  ASSUME RunInvariant, ReportedOK, RunningLive, FinishedReads,
         \/ ResolveOk \/ ResolveNone \/ WaitOver \/ StartError \/ LoadJobs
         \/ ReadFirstPage \/ TallyError \/ SleepOver
         \/ FollowList \/ FollowError \/ FollowSwitch
         \/ PollPipeline \/ PollJobs \/ PollError \/ UncaughtError \/ Ended
         \/ \E e \in DOMAIN batch : BatchBroken(e)
  PROVE  FinishedReads'
<1>1. UNCHANGED <<gitlabVars, batch, opt, run, ledger>>
  BY EngineIsQuiet
<1>2. /\ MintedBy(run)' = MintedBy(run) /\ Accepted' = Accepted
      /\ \A p : Running(p)' = Running(p)
  BY <1>1 DEF gitlabVars, MintedBy, Running, Accepted
<1>3. CASE Ended
  BY <1>1, <1>2, <1>3 DEF Ended, vars, FinishedReads, Running, MintedBy
<1>4. CASE ResolveNone \/ WaitOver
  BY <1>1, <1>2, <1>4
  DEF ResolveNone, WaitOver, Fail, End, FinishedReads, reportVars
<1>5. CASE StartError \/ TallyError \/ UncaughtError \/ PollError
  BY <1>5
  DEF StartError, TallyError, UncaughtError, PollError, Fail, End, FinishedReads
<1>6. CASE SleepOver \/ FollowError \/ \E e \in DOMAIN batch : BatchBroken(e)
  BY <1>6 DEF SleepOver, FollowError, BatchBroken, FinishedReads, reportVars
<1>7. CASE ResolveOk
  BY <1>2, <1>7 DEF ResolveOk, FinishedReads
<1>8. CASE LoadJobs
  <2>1. Running(target.pipe) = {}
    BY <1>8 DEF LoadJobs, FinishedReads, Running
  <2>2. pc' = "tick" /\ curr'.pipe = target.pipe /\ result' = result /\ pc = "jobs"
    BY <1>8 DEF LoadJobs, reportVars
  <2>3. Running(curr.pipe)' = {}
    BY <1>2, <2>1, <2>2 DEF Running
  <2>4. QED  BY <2>2, <2>3 DEF FinishedReads
<1>9. CASE PollJobs \/ FollowSwitch
  <2>1. /\ pc \in {"polljobs", "followjobs"} /\ pc' = "tick" /\ result' = result
        /\ curr'.pipe = target.pipe /\ curr'.status = target.status
    BY <1>9 DEF PollJobs, FollowSwitch, SwitchTo, reportVars
  <2>2. Running(curr.pipe)' = Running(target.pipe)
    BY <1>1, <2>1 DEF Running, MintedBy, gitlabVars
  <2>3. QED  BY <2>1, <2>2 DEF FinishedReads
<1>10. CASE PollPipeline \/ FollowList
  <2>1. /\ pc \in {"poll", "follow"} /\ pc' \in {"poll", "polljobs", "followjobs"}
        /\ result' = result
        /\ pc' # "poll" => /\ target'.pipe \in DOMAIN pstat
                           /\ target'.status = pstat[target'.pipe]
    <3>1. curr.pipe \in Nat /\ Len(pstat) \in Nat /\ DOMAIN pstat = 1 .. Len(pstat)
      BY ConstantTypes, LenProperties DEF RunInvariant, TypeOK, GitLabTypeOK
    <3>2. CASE PollPipeline
      BY <3>2 DEF PollPipeline, RunInvariant, ControlOK, PCs, AwaitPCs, RequestPCs, reportVars
    <3>3. CASE FollowList
      BY <3>1, <3>3 DEF FollowList, reportVars
    <3>4. QED  BY <1>10, <3>2, <3>3
  <2>2. ASSUME pc' # "poll", target'.status \in Finished
        PROVE  Running(target.pipe)' = {}
    <3>1. Running(target'.pipe) = {}
      BY <2>1, <2>2, FinishedRests
    <3>2. Running(target.pipe)' = Running(target'.pipe)
      BY <1>1 DEF Running, MintedBy, gitlabVars
    <3>3. QED  BY <3>1, <3>2
  <2>3. QED  BY <2>1, <2>2 DEF FinishedReads
<1>11. CASE ReadFirstPage
  <2>1. UNCHANGED <<pc, curr, target, result, recs, run, batch>>
    BY <1>11 DEF ReadFirstPage, tickVars, reportVars, gitlabVars
  <2>2. QED  BY <2>1 DEF FinishedReads, Running, MintedBy, Accepted
<1>12. QED
  BY <1>3, <1>4, <1>5, <1>6, <1>7, <1>8, <1>9, <1>10, <1>11

\* Every step keeps what the verdict rests on.
LEMMA VerdictKeeps ==
  ASSUME RunInvariant, ListingsOK, AcrossOK, Prompt, PipesOK, ReportedOK, RunningLive,
         FinishedReads, [Next]_vars
  PROVE  FinishedReads'
<1>0. ControlOK /\ BatchTypeOK
  BY DEF RunInvariant, TypeOK
<1>1. CASE GitLabStep \/ BatchStep
  BY <1>1, VerdictServed
<1>2. CASE \/ ResolveOk \/ ResolveNone \/ WaitOver \/ StartError \/ LoadJobs
           \/ ReadFirstPage \/ TallyError \/ SleepOver
           \/ FollowList \/ FollowError \/ FollowSwitch
           \/ PollPipeline \/ PollJobs \/ PollError \/ UncaughtError \/ Ended
           \/ \E e \in DOMAIN batch : BatchBroken(e)
  BY <1>2, VerdictReads
<1>3. CASE Timeout \/ Teardown
  BY <1>3 DEF Timeout, Teardown, Fail, End, FinishedReads
<1>4. CASE Reinvoke
  <2>1. MintedBy(run)' = {}
    BY <1>4, ConstantTypes
    DEF Reinvoke, gitlabVars, MintedBy, RunInvariant, TypeOK, BudgetOK, GitLabTypeOK
  <2>2. pc' = "resolve" /\ result'.reason # "terminal"
    BY <1>4 DEF Reinvoke, NoResult, None
  <2>3. QED  BY <2>1, <2>2 DEF FinishedReads
<1>5. CASE Tick
  <2>1. /\ pc = "tick" /\ batch' = batch /\ batch = NoBatch
        /\ UNCHANGED <<recs, run, curr>>
    BY <1>0, <1>5 DEF Tick, ControlOK, gitlabVars
  <2>2. CASE pc' = "tally" /\ result' = result
    BY <2>1, <2>2 DEF FinishedReads, Running, MintedBy
  <2>3. CASE Conclude(0, ledger.issued)
    BY <2>1, <2>3, VerdictConcludes DEF FinishedReads
  <2>4. QED  BY <1>5, <2>2, <2>3 DEF Tick
<1>6. CASE TallyOk
  <2>1. pc = "tally" /\ batch = NoBatch /\ UNCHANGED <<recs, run, curr>>
    BY <1>0, <1>6 DEF TallyOk, ControlOK, gitlabVars, tickVars
  <2>2. CASE pc' = "post" /\ result' = result
    BY <2>1, <2>2 DEF FinishedReads, Running, MintedBy
  <2>3. CASE Conclude(0, ledger.issued) /\ batch' = batch
    BY <2>1, <2>3, VerdictConcludes DEF FinishedReads
  <2>4. QED  BY <1>6, <2>2, <2>3 DEF TallyOk
<1>7. CASE BatchDone
  <2> DEFINE new == {e \in DOMAIN batch : batch[e] = "new"}
  <2>1. /\ pc = "post" /\ BatchSettled /\ batch' = NoBatch
        /\ UNCHANGED <<recs, run, curr>>
        /\ Conclude(Cardinality(new), LedgerAfter(new).issued)
    BY <1>7 DEF BatchDone, gitlabVars, tickVars
  <2>2. Accepted = new
    BY <2>1 DEF BatchSettled, Settled, Accepted
  <2>3. Cardinality(new) = 0 => new = {}
    <3>1. IsFiniteSet(new)
      BY <1>0, FS_Subset DEF BatchTypeOK
    <3>2. QED  BY <3>1, FS_EmptySet
  <2> HIDE DEF new
  <2>4. Cardinality(new) = 0 /\ curr.status \in Finished => Running(curr.pipe) = {}
    BY <2>1, <2>2, <2>3 DEF FinishedReads
  <2>5. QED  BY <2>1, <2>4, VerdictConcludes
<1>8. CASE UNCHANGED vars
  BY <1>8 DEF vars, FinishedReads, Running, MintedBy, Accepted
<1>9. QED
  BY <1>1, <1>2, <1>3, <1>4, <1>5, <1>6, <1>7, <1>8 DEF Next, EngineStep

-----------------------------------------------------------------------------
(* The theorems.                                                           *)

\* When attach is called first there are neither records nor rows.
LEMMA InitVerdict ==
  ASSUME Init
  PROVE  RunningOK /\ VerdictOK
<1>1. /\ DOMAIN recs = {} /\ DOMAIN pstat = {} /\ batch = NoBatch
      /\ DOMAIN batch = {} /\ curr = NoTick /\ page = NoPage
      /\ pc = "resolve" /\ result = NoResult
  BY NoBatchProperties DEF Init, GitLabInit
<1>2. MintedBy(run) = {} /\ curr.jobs = {} /\ result.reason # "terminal"
  BY <1>1 DEF MintedBy, NoTick, NoResult, None
<1>3. RunningOK
  BY <1>1, <1>2
  DEF RunningOK, PipesOK, ReportedOK, RunningLive, TallyOK, RowsTell, BatchApart
<1>4. VerdictOK
  BY <1>1, <1>2 DEF VerdictOK, FinishedReads
<1>5. QED  BY <1>3, <1>4

\* What a run knows of its running retries, inductively.
THEOREM VerdictInvariantHolds == Spec => [](RunningOK /\ VerdictOK)
<1> DEFINE Inv == RetryInvariant /\ RunningOK /\ VerdictOK
<1>1. Init => Inv
  BY InitRetries, InitVerdict
<1>2. Inv /\ RetryInvariant' /\ [Next]_vars => Inv'
  <2>1. SUFFICES ASSUME RetryInvariant, RetryInvariant', RunningOK, VerdictOK, [Next]_vars
                 PROVE  RunningOK' /\ VerdictOK'
    OBVIOUS
  <2>2. RunningOK'
    BY <2>1, RunningKeeps
  <2>3. RunInvariant /\ ListingsOK /\ AcrossOK
    BY <2>1 DEF RetryInvariant
  <2>4. mode' = mode
    BY <2>1, <2>3, ModeStays
  <2>5. ASSUME OnePage, Prompt
        PROVE  FinishedReads'
    <3>1. PipesOK /\ ReportedOK /\ RunningLive /\ FinishedReads
      BY <2>1, <2>5 DEF RunningOK, VerdictOK
    <3>2. QED  BY <2>1, <2>3, <2>5, <3>1, VerdictKeeps
  <2>6. VerdictOK'
    BY <2>4, <2>5 DEF VerdictOK, OnePage, Prompt
  <2>7. QED  BY <2>2, <2>6
<1>3. QED  BY <1>1, <1>2, RetryInvariantHolds, PTL DEF Spec

\* No verdict is announced over a retry of this run that is running
\* (core/attach.py lines 497-509).
THEOREM VerdictWaits == Spec => []VerdictAfterRetries
<1>1. VerdictOK => VerdictAfterRetries
  BY DEF VerdictOK, FinishedReads, VerdictAfterRetries, VerdictDespiteRetry, Running
<1>2. QED  BY <1>1, VerdictInvariantHolds, PTL

-----------------------------------------------------------------------------
(***************************************************************************)
(* No failure is left behind, for every policy, every number of jobs and   *)
(* pipelines and any page size, where only ddgl retries jobs.              *)
(*                                                                         *)
(* A pipeline that GitLab calls finished is at rest (ReportedOK), and so   *)
(* is one that the object cache has kept as a success (GreenOK).  At rest  *)
(* it stays what the engine has read, page by page (PageOK) and as a whole *)
(* (TickTells), until a retry of the batch is accepted.  So the candidates *)
(* are all that has failed, the tally is exact, and the selection has      *)
(* whatever could be tried or all that the budget has left (BatchIsAll);   *)
(* the ledger remembers at least what it counts (PostedOK).                *)
(***************************************************************************)

-----------------------------------------------------------------------------
(* A calm GitLab.                                                          *)

\* What the steps of GitLab's own leave alone of the pipelines it has.
ListsStay ==
    \A p \in DOMAIN pstat :
        /\ p \in DOMAIN pstat'
        /\ Attempts(recs', p) = Attempts(recs, p)
        /\ Live(recs', p) = Live(recs, p)
        /\ AtRest(p) => \A r \in Live(recs, p) : recs'[r].status = recs[r].status

LEMMA CalmServes ==
  ASSUME RunInvariant, AcrossOK, mode = "calm", GitLabStep, PipesOK, ReportedOK
  PROVE  ListsStay /\ FinalStays /\ RecordsStay
<1>0. GitLabTypeOK /\ Prompt /\ ~Others /\ GitLabNext
  BY DEF RunInvariant, TypeOK, Prompt, Others, GitLabStep
<1>1. FinalStays /\ AddedFollows /\ RecordsStay
  BY <1>0, ServerTells, ServerIs
<1>2. DOMAIN pstat \subseteq DOMAIN pstat'
  BY <1>0, GitLabKeeps
<1>3. ASSUME NEW p \in DOMAIN pstat
      PROVE  /\ Attempts(recs', p) = Attempts(recs, p)
             /\ Live(recs', p) = Live(recs, p)
             /\ AtRest(p) => \A r \in Live(recs, p) : recs'[r].status = recs[r].status
  <2>1. ASSUME NEW s \in Attempts(recs', p)
        PROVE  s \in Attempts(recs, p)
    <3>1. s \in DOMAIN recs' /\ recs'[s].pipe = p
      BY <2>1 DEF Attempts
    <3>2. s \in DOMAIN recs
      BY <1>0, <1>1, <1>3, <3>1 DEF AddedFollows
    <3>3. QED  BY <1>0, <1>1, <3>1, <3>2 DEF AcrossOK, RecordsStay, Attempts
  <2>2. Attempts(recs, p) \subseteq Attempts(recs', p)
    BY <1>1 DEF RecordsStay, Attempts
  <2>3. Attempts(recs', p) = Attempts(recs, p)
    BY <2>1, <2>2
  <2>4. \A s \in Attempts(recs, p) : recs'[s].name = recs[s].name
    BY <1>1 DEF RecordsStay, Attempts
  <2>5. Live(recs', p) = Live(recs, p)
    BY <2>3, <2>4 DEF Live
  <2>6. ASSUME AtRest(p), NEW r \in Live(recs, p)
        PROVE  recs'[r].status = recs[r].status
    BY <1>1, <2>6 DEF AtRest, FinalStays, Live, Attempts
  <2>7. QED  BY <2>3, <2>5, <2>6
<1>4. QED  BY <1>1, <1>2, <1>3 DEF ListsStay

\* What an accepted POST changes: the job's newest record.
LEMMA CalmAccepts ==
  ASSUME RunInvariant, ListingsOK, AcrossOK, mode = "calm", BatchStep,
         NEW e \in DOMAIN batch, Accept(e, run)
  PROVE  /\ \A r \in DOMAIN recs : r \in DOMAIN recs' /\ recs'[r] = recs[r]
         /\ \A p : p # curr.pipe => Live(recs', p) = Live(recs, p)
         /\ \A s \in Live(recs, curr.pipe) :
               recs[s].name # JobName(e) => s \in Live(recs', curr.pipe)
<1> DEFINE new == Len(recs) + 1
<1>1. /\ DOMAIN recs' = DOMAIN recs \cup {new} /\ new \notin DOMAIN recs
      /\ recs'[new].pipe = curr.pipe /\ recs'[new].name = JobName(e)
      /\ batch[e] = "sent"
  BY AcceptIs
<1>2. /\ GitLabTypeOK /\ e.id \in DOMAIN recs /\ run \in Nat
  BY ConstantTypes DEF RunInvariant, TypeOK, RowsOK
<1>3. \A r \in DOMAIN recs : r \in DOMAIN recs' /\ recs'[r] = recs[r]
  <2>1. recs[e.id] \in Record /\ e.id \in Nat
    BY <1>2, LenProperties, ElementOfSeq DEF GitLabTypeOK
  <2>2. PICK v \in BOOLEAN :
           Change(Append(recs, NewRecord(recs[e.id].pipe, recs[e.id].name, run, e.id, v)))
    BY DEF Accept, Mint
  <2>3. NewRecord(recs[e.id].pipe, recs[e.id].name, run, e.id, v) \in Record
    <3>1. recs[e.id].pipe \in Nat \ {0} /\ recs[e.id].name \in Name
      BY <2>1 DEF Record
    <3>2. QED  BY <1>2, <2>1, <3>1, NewRecordType
  <2>4. QED  BY <1>1, <1>2, <2>2, <2>3, AppendKeeps
<1> HIDE DEF new
<1>4. \A p : Attempts(recs', p) \subseteq Attempts(recs, p) \cup {new}
  BY <1>1, <1>3 DEF Attempts
<1>5. \A p : Attempts(recs, p) \subseteq Attempts(recs', p)
  BY <1>3 DEF Attempts
<1>6. \A p : \A s \in Attempts(recs, p) : recs'[s].name = recs[s].name
  BY <1>3 DEF Attempts
<1>7. ASSUME NEW p, p # curr.pipe
      PROVE  Live(recs', p) = Live(recs, p)
  <2>1. Attempts(recs', p) = Attempts(recs, p)
    BY <1>1, <1>4, <1>5, <1>7 DEF Attempts
  <2>2. QED  BY <1>6, <2>1 DEF Live
<1>8. ASSUME NEW s \in Live(recs, curr.pipe), recs[s].name # JobName(e)
      PROVE  s \in Live(recs', curr.pipe)
  BY <1>1, <1>4, <1>5, <1>6, <1>8 DEF Live
<1>9. QED  BY <1>3, <1>7, <1>8

\* Where the pipelines' statuses come from.
StatusesFollow ==
    /\ green' = green \cup {p \in DOMAIN pstat' : pstat'[p] = "success"}
    /\ \A p \in DOMAIN pstat' :
          \/ pstat'[p] \in {"running", Verdict(recs', p)}
          \/ p \in DOMAIN pstat /\ pstat'[p] = pstat[p]

LEMMA StatusesAre ==
  ASSUME GitLabTypeOK, Prompt, GitLabNext \/ \E r, k : Mint(r, k)
  PROVE  StatusesFollow
<1>1. ASSUME NEW rs, Change(rs)
      PROVE  StatusesFollow
  <2>1. recs' = rs /\ pstat' = [p \in DOMAIN pstat |-> Verdict(rs, p)]
        /\ green' = green \cup {p \in DOMAIN pstat' : pstat'[p] = "success"}
    BY <1>1 DEF Change, Report
  <2>2. QED  BY <2>1 DEF StatusesFollow
<1>2. CASE CreatePipeline
  <2>1. /\ pstat' = Append(pstat, "running")
        /\ green' = green \cup {p \in DOMAIN pstat' : pstat'[p] = "success"}
    BY <1>2 DEF CreatePipeline, Report
  <2>2. /\ pstat \in Seq(PipelineStatus) /\ "running" \in PipelineStatus
        /\ DOMAIN pstat = 1 .. Len(pstat) /\ Len(pstat) \in Nat
    BY LenProperties DEF GitLabTypeOK, PipelineStatus
  <2>3. /\ DOMAIN pstat' = DOMAIN pstat \cup {Len(pstat) + 1}
        /\ \A p \in DOMAIN pstat : pstat'[p] = pstat[p]
        /\ pstat'[Len(pstat) + 1] = "running"
    BY <2>1, <2>2, AppendProperties
  <2>4. QED  BY <2>1, <2>3 DEF StatusesFollow
<1>3. ASSUME NEW p \in DOMAIN pstat, UpdateStatus(p)
      PROVE  StatusesFollow
  <2>1. /\ recs' = recs /\ pstat' = [pstat EXCEPT ![p] = Verdict(recs, p)]
        /\ green' = green \cup {q \in DOMAIN pstat' : pstat'[q] = "success"}
    BY <1>3 DEF UpdateStatus, Report
  <2>2. QED  BY <2>1 DEF StatusesFollow
<1>4. QED
  BY <1>1, <1>2, <1>3 DEF GitLabNext, JobFinishes, OtherRetry, Publish, Mint

\* A pipeline GitLab calls a success has neither a running job nor a failed one.
LEMMA SuccessTells ==
  ASSUME NEW rs, NEW p, Verdict(rs, p) = "success", NEW r \in Live(rs, p)
  PROVE  /\ rs[r].status # "active"
         /\ ~(rs[r].status = "failed" /\ rs[r].name \notin AllowFailure)
<1> DEFINE statuses == {rs[q].status : q \in Live(rs, p)}
           blocking == {q \in Live(rs, p) :
                           rs[q].status = "failed" /\ rs[q].name \notin AllowFailure}
<1>1. "active" \notin statuses /\ blocking = {}
  BY DEF Verdict
<1>2. QED  BY <1>1

LEMMA GreenStays ==
  ASSUME RunInvariant, ListingsOK, AcrossOK, mode = "calm", PipesOK, ReportedOK,
         GreenOK, BatchCalm,
         GitLabStep \/ (BatchStep /\ \E e \in DOMAIN batch : Accept(e, run))
  PROVE  GreenOK'
<1>0. GitLabTypeOK /\ Prompt
  BY DEF RunInvariant, TypeOK, Prompt
<1>1. StatusesFollow
  BY <1>0, StatusesAre DEF GitLabStep, Accept
<1>2. ASSUME NEW p \in DOMAIN pstat, p \in green \/ pstat[p] = "success"
      PROVE  \A r \in Live(recs', p) : recs'[r].status # "active" /\ ~Blocks(r)'
  <2>1. AtRest(p) /\ \A r \in Live(recs, p) : ~Blocks(r)
    BY <1>2 DEF GreenOK
  <2>2. CASE GitLabStep
    <3>1. /\ Live(recs', p) = Live(recs, p) /\ RecordsStay
          /\ \A r \in Live(recs, p) : recs'[r].status = recs[r].status
      BY <2>1, <2>2, CalmServes DEF ListsStay
    <3>2. \A r \in Live(recs, p) : recs'[r].name = recs[r].name
      BY <3>1 DEF RecordsStay, Live, Attempts
    <3>3. QED  BY <2>1, <3>1, <3>2 DEF AtRest, Blocks
  <2>3. ASSUME BatchStep, NEW e \in DOMAIN batch, Accept(e, run)
        PROVE  \A r \in Live(recs', p) : recs'[r].status # "active" /\ ~Blocks(r)'
    <3>1. e.id \in Live(recs, curr.pipe) /\ Blocks(e.id)
      BY <2>3 DEF BatchCalm, Open, Accept
    <3>2. p # curr.pipe
      BY <2>1, <3>1
    <3>3. Live(recs', p) = Live(recs, p) /\ \A r \in DOMAIN recs : recs'[r] = recs[r]
      BY <2>3, <3>2, CalmAccepts
    <3>4. QED  BY <2>1, <3>3 DEF AtRest, Blocks, Live, Attempts
  <2>4. QED  BY <2>2, <2>3
<1>3. ASSUME NEW p \in DOMAIN pstat', Verdict(recs', p) = "success"
      PROVE  \A r \in Live(recs', p) : recs'[r].status # "active" /\ ~Blocks(r)'
  BY <1>3, SuccessTells DEF Blocks
<1>4. ASSUME NEW p \in DOMAIN pstat', p \in green' \/ pstat'[p] = "success"
      PROVE  \A r \in Live(recs', p) : recs'[r].status # "active" /\ ~Blocks(r)'
  <2>1. \/ p \in DOMAIN pstat /\ (p \in green \/ pstat[p] = "success")
        \/ Verdict(recs', p) = "success"
    BY <1>0, <1>1, <1>4 DEF StatusesFollow, GitLabTypeOK
  <2>2. QED  BY <1>2, <1>3, <2>1
<1>5. QED  BY <1>4 DEF GreenOK, AtRest

-----------------------------------------------------------------------------
(* A listing of several pages.                                             *)

\* The newest k of no more than k records are all of them.
LEMMA NewestIsAll ==
  ASSUME GitLabTypeOK, NEW S \in SUBSET DOMAIN recs, NEW k \in Nat, Cardinality(S) <= k
  PROVE  Newest(S, k) = S
<1>1. SUFFICES ASSUME NEW r \in S
               PROVE  Cardinality({s \in S : s > r}) < k
  BY DEF Newest
<1> DEFINE T == {s \in S : s > r}
<1>2. r \in Nat
  BY LenProperties DEF GitLabTypeOK
<1>3. T \subseteq S /\ r \notin T
  BY <1>2
<1> HIDE DEF T
<1>4. IsFiniteSet(S) /\ Cardinality(S) \in Nat
  BY RecordSetIsFinite
<1>5. /\ IsFiniteSet(T) /\ Cardinality(T) <= Cardinality(S)
      /\ Cardinality(S) = Cardinality(T) => S = T
  BY <1>3, <1>4, FS_Subset
<1>6. Cardinality(T) \in Nat /\ Cardinality(T) # Cardinality(S)
  BY <1>3, <1>5, FS_CardinalityType
<1>7. Cardinality(T) < k
  BY <1>4, <1>5, <1>6
<1>8. QED  BY <1>7 DEF T

\* The rows of a read: one for each record, with the record's status.
LEMMA RowsAre ==
  ASSUME NEW S, NEW k
  PROVE  /\ {e.id : e \in Rows(recs, S, k)} = S
         /\ UniqueIds(Rows(recs, S, k))
         /\ \A e \in Rows(recs, S, k) : recs[e.id].status = e.st
<1>1. ASSUME NEW e \in Rows(recs, S, k)
      PROVE  e.id \in S /\ e = [id |-> e.id, st |-> recs[e.id].status, page |-> k]
  <2>1. PICK r \in S : e = [id |-> r, st |-> recs[r].status, page |-> k]
    BY <1>1 DEF Rows
  <2>2. QED  BY <2>1
<1>2. ASSUME NEW r \in S
      PROVE  \E e \in Rows(recs, S, k) : e.id = r
  <2>1. [id |-> r, st |-> recs[r].status, page |-> k] \in Rows(recs, S, k)
    BY DEF Rows
  <2>2. QED  BY <2>1
<1>3. \A e \in Rows(recs, S, k) : recs[e.id].status = e.st
  <2>1. ASSUME NEW e \in Rows(recs, S, k)  PROVE recs[e.id].status = e.st
    BY <1>1, <2>1
  <2>2. QED  BY <2>1
<1>4. UniqueIds(Rows(recs, S, k))
  BY <1>1 DEF UniqueIds
<1>5. {e.id : e \in Rows(recs, S, k)} = S
  BY <1>1, <1>2
<1>6. QED  BY <1>3, <1>4, <1>5

\* The pages a listing takes up hold all of it.
LEMMA PagesHold ==
  ASSUME NEW n \in Nat, NEW k \in Nat \ {0}
  PROVE  k * ((n + k - 1) \div k) >= n
  OBVIOUS

\* A listing GitLab has not changed in the meantime is what it is at its end.
LEMMA ListingExact ==
  ASSUME RunInvariant, PageOK
  PROVE  /\ {e.id : e \in JobList} = Requested
         /\ UniqueIds(JobList)
         /\ \A e \in JobList : e.st # "active" => recs[e.id].status = e.st
         /\ pc # "tally" /\ target.status \in Finished =>
               \A e \in JobList : recs[e.id].status = e.st
<1>1. CASE page = NoPage
  <2>1. JobList = Rows(recs, Requested, 1)
    BY <1>1 DEF JobList
  <2>2. QED  BY <2>1, RowsAre
<1>2. CASE page # NoPage
  <2>0. GitLabTypeOK /\ Requested \in SUBSET DOMAIN recs
    BY DEF RunInvariant, TypeOK, Requested, Live, Attempts
  <2>1. /\ page.upto = RowsOfPages(Requested)
        /\ {e.id : e \in page.rows} = FirstPage(Requested)
        /\ UniqueIds(page.rows)
        /\ \A e \in page.rows : e.st # "active" => recs[e.id].status = e.st
        /\ pc # "tally" /\ target.status \in Finished =>
              \A e \in page.rows : recs[e.id].status = e.st
    BY <1>2 DEF PageOK
  <2>2. Newest(Requested, page.upto) = Requested
    <3>1. Cardinality(Requested) \in Nat
      BY <2>0, RecordSetIsFinite
    <3>2. PageSize \in Nat \ {0}
      BY GitLabAssumption
    <3>3. RowsOfPages(Requested) >= Cardinality(Requested)
      BY <3>1, <3>2, PagesHold DEF RowsOfPages
    <3>4. RowsOfPages(Requested) \in Nat
      BY PagesAreCounted
    <3>5. QED  BY <2>0, <2>1, <3>1, <3>3, <3>4, NewestIsAll
  <2> DEFINE rest == Rows(recs, Requested \ FirstPage(Requested), 2)
  <2>3. JobList = page.rows \cup rest
    BY <1>2, <2>2 DEF JobList
  <2>4. /\ {e.id : e \in rest} = Requested \ FirstPage(Requested)
        /\ UniqueIds(rest)
        /\ \A e \in rest : recs[e.id].status = e.st
    BY RowsAre
  <2>5. FirstPage(Requested) \subseteq Requested
    BY DEF FirstPage, Newest
  <2> HIDE DEF rest
  <2>6. {e.id : e \in JobList} = Requested
    <3>1. {e.id : e \in JobList} = {e.id : e \in page.rows} \cup {e.id : e \in rest}
      BY <2>3
    <3>2. QED  BY <2>1, <2>4, <2>5, <3>1
  <2>7. UniqueIds(JobList)
    <3>1. \A e \in page.rows : e.id \in FirstPage(Requested)
      BY <2>1
    <3>2. \A e \in rest : e.id \notin FirstPage(Requested)
      BY <2>4
    <3>3. QED  BY <2>1, <2>3, <2>4, <3>1, <3>2 DEF UniqueIds
  <2>8. QED  BY <2>1, <2>3, <2>4, <2>6, <2>7
<1>3. QED  BY <1>1, <1>2

\* What GitLab does on its own does not change what a listing enumerates.
LEMMA RequestedStays ==
  ASSUME RunInvariant, AcrossOK, mode = "calm", GitLabStep, PipesOK, ReportedOK,
         pc \in ListingPCs
  PROVE  Requested' = Requested
<1>1. ListsStay /\ UNCHANGED <<pc, curr, target>>
  BY CalmServes DEF GitLabStep, tickVars, fetchVars
<1>2. CASE pc = "tally"
  <2>1. curr.pipe \in DOMAIN pstat
    BY <1>2 DEF RunInvariant, ControlOK, PCs, AwaitPCs, RequestPCs
  <2>2. QED  BY <1>1, <1>2, <2>1 DEF Requested, ListsStay
<1>3. CASE pc # "tally"
  <2>1. target.pipe \in DOMAIN pstat
    BY <1>3 DEF RunInvariant, ControlOK, ListingPCs
  <2>2. QED  BY <1>1, <1>3, <2>1 DEF Requested, ListsStay
<1>4. QED  BY <1>2, <1>3

\* What has been read of a listing stays true.
LEMMA PageKeeps ==
  ASSUME RunInvariant, ListingsOK, AcrossOK, mode = "calm", PipesOK, ReportedOK,
         FinalStays, PageOK, CalmReads, [Next]_vars
  PROVE  PageOK'
<1>1. CASE ReadFirstPage
  <2>1. /\ page'.rows = Rows(recs, FirstPage(Requested), 1)
        /\ page'.upto = RowsOfPages(Requested)
        /\ pc \in ListingPCs /\ pc' = pc /\ Requested' = Requested
        /\ recs' = recs
    BY <1>1 DEF ReadFirstPage, gitlabVars, tickVars, Requested
  <2>2. /\ {e.id : e \in page'.rows} = FirstPage(Requested)
        /\ UniqueIds(page'.rows)
        /\ \A e \in page'.rows : recs[e.id].status = e.st
    BY <2>1, RowsAre
  <2>3. /\ FirstPage(Requested)' = FirstPage(Requested)
        /\ RowsOfPages(Requested)' = RowsOfPages(Requested)
    BY <2>1 DEF FirstPage, Newest, RowsOfPages
  <2>4. /\ UniqueIds(page.rows)'
        /\ ({e.id : e \in page.rows} = FirstPage(Requested))'
        /\ (\A e \in page.rows : recs[e.id].status = e.st)'
    BY <2>1, <2>2, <2>3 DEF UniqueIds
  <2>5. pc' \in ListingPCs /\ (page.upto = RowsOfPages(Requested))'
    BY <2>1, <2>3
  <2>6. QED  BY <2>4, <2>5 DEF PageOK, ListingPCs
<1>2. CASE GitLabStep
  <2>1. UNCHANGED <<pc, target, page>>
    BY <1>2 DEF GitLabStep, fetchVars
  <2>2. SUFFICES ASSUME page # NoPage  PROVE PageOK'
    BY <2>1 DEF PageOK
  <2>3. /\ pc \in ListingPCs
        /\ page.upto = RowsOfPages(Requested)
        /\ {e.id : e \in page.rows} = FirstPage(Requested)
        /\ UniqueIds(page.rows)
        /\ \A e \in page.rows : e.st # "active" => recs[e.id].status = e.st
        /\ pc # "tally" /\ target.status \in Finished =>
              \A e \in page.rows : recs[e.id].status = e.st
    BY <2>2 DEF PageOK
  <2>4. Requested' = Requested
    BY <1>2, <2>3, RequestedStays
  <2>5. /\ FirstPage(Requested)' = FirstPage(Requested)
        /\ RowsOfPages(Requested)' = RowsOfPages(Requested)
    BY <2>4 DEF FirstPage, Newest, RowsOfPages
  <2>6. \A e \in page.rows : e.id \in DOMAIN recs
    BY DEF RunInvariant, RowsOK
  <2>7. \A e \in page.rows : e.st # "active" => recs'[e.id].status = e.st
    BY <2>3, <2>6 DEF FinalStays
  <2>8. ASSUME pc # "tally", target.status \in Finished, NEW e \in page.rows
        PROVE  recs'[e.id].status = e.st
    <3>1. AtRest(target.pipe)
      BY <2>3, <2>8 DEF CalmReads, ListingPCs
    <3>2. e.id \in FirstPage(Requested)
      BY <2>3
    <3>3. e.id \in Live(recs, target.pipe)
      BY <2>8, <3>2 DEF FirstPage, Newest, Requested
    <3>4. recs[e.id].status # "active"
      BY <3>1, <3>3 DEF AtRest
    <3>5. QED  BY <2>3, <2>6, <2>8, <3>4 DEF FinalStays
  <2>9. UniqueIds(page.rows)'
    BY <2>1, <2>3 DEF UniqueIds
  <2>10. QED  BY <2>1, <2>3, <2>4, <2>5, <2>7, <2>8, <2>9 DEF PageOK
<1>3. CASE BatchStep
  <2>1. DOMAIN batch # {} /\ page' = page
    BY <1>3 DEF BatchStep, fetchVars
  <2>2. pc \notin ListingPCs
    BY <2>1, NoBatchProperties DEF ControlOK, RunInvariant, ListingPCs
  <2>3. QED  BY <2>1, <2>2 DEF PageOK, ListingsOK
<1>4. CASE \/ ResolveOk \/ ResolveNone \/ WaitOver \/ Tick \/ SleepOver
           \/ FollowList \/ PollPipeline \/ Teardown \/ BatchDone
           \/ \E e \in DOMAIN batch : BatchBroken(e)
  <2>1. pc \notin ListingPCs /\ page' = page
    BY <1>4
    DEF ListingPCs, ResolveOk, ResolveNone, WaitOver, Tick, SleepOver, FollowList,
        PollPipeline, Teardown, BatchBroken, BatchDone, fetchVars
  <2>2. QED  BY <2>1 DEF PageOK, ListingsOK
<1>5. CASE \/ StartError \/ TallyError \/ FollowError \/ PollError \/ UncaughtError
           \/ Timeout \/ Reinvoke \/ LoadJobs \/ PollJobs \/ FollowSwitch \/ TallyOk
  <2>1. page' = NoPage
    BY <1>5
    DEF StartError, TallyError, FollowError, PollError, UncaughtError, Timeout, Reinvoke,
        LoadJobs, PollJobs, FollowSwitch, TallyOk, FetchOver
  <2>2. QED  BY <2>1 DEF PageOK
<1>6. CASE Ended \/ UNCHANGED vars
  <2>1. UNCHANGED <<recs, pc, curr, target, page>>
    BY <1>6 DEF Ended, vars
  <2>2. QED
    BY <2>1 DEF PageOK, Requested, FirstPage, Newest, RowsOfPages, UniqueIds
<1>7. QED
  BY <1>1, <1>2, <1>3, <1>4, <1>5, <1>6 DEF Next, EngineStep

\* The job list of a tick lists every job once, and what it says has ended has.
LEMMA TickKeepsTelling ==
  ASSUME RunInvariant, PageOK, FinalStays, RowsTell, UniqueIds(curr.jobs), [Next]_vars
  PROVE  RowsTell' /\ UniqueIds(curr.jobs)'
<1>1. CASE LoadJobs \/ PollJobs \/ FollowSwitch
  <2>1. curr'.jobs = JobList /\ recs' = recs
    BY <1>1 DEF LoadJobs, PollJobs, FollowSwitch, SwitchTo, gitlabVars
  <2>2. QED  BY <2>1, ListingExact DEF RowsTell, UniqueIds
<1>2. CASE Reinvoke
  BY <1>2 DEF Reinvoke, NoTick, RowsTell, UniqueIds
<1>3. CASE curr' = curr
  <2>1. \A e \in curr.jobs : e.id \in DOMAIN recs
    BY DEF RunInvariant, RowsOK
  <2>2. QED  BY <1>3, <2>1 DEF RowsTell, FinalStays, UniqueIds
<1>4. QED
  BY <1>1, <1>2, <1>3
  DEF Next, GitLabStep, EngineStep, BatchStep, Timeout, Ended, vars, tickVars, ResolveOk,
      ResolveNone, WaitOver, StartError, ReadFirstPage, Tick, TallyOk, TallyError,
      BatchDone, Teardown, SleepOver, FollowList, FollowError, PollPipeline, PollError,
      UncaughtError, BatchBroken

-----------------------------------------------------------------------------
(* The batch.                                                              *)

\* What is eligible has failed and is in the pipeline's list.
LEMMA EligibleBlocks ==
  ASSUME RunInvariant, ListingsOK, PageOK, RowsTell, pc = "tally",
         NEW e \in Eligible(JobList)
  PROVE  e \in curr.jobs /\ e.id \in Live(recs, curr.pipe) /\ Blocks(e.id)
<1>1. /\ e \in curr.jobs /\ e.id \in Attempts(recs, curr.pipe)
      /\ IsNewest(JobList, e) /\ e.st = "failed" /\ JobName(e) \notin AllowFailure
  BY EligibleIs DEF Eligible, Candidates, IsBlocking, ShownAttempts
<1>2. {f.id : f \in JobList} = Attempts(recs, curr.pipe)
  BY ListingExact DEF Requested
<1>3. ASSUME NEW s \in Attempts(recs, curr.pipe), recs[s].name = recs[e.id].name
      PROVE  s <= e.id
  <2>1. PICK f \in JobList : f.id = s
    BY <1>2
  <2>2. QED  BY <1>1, <1>3, <2>1 DEF IsNewest, JobName
<1>4. e.id \in Live(recs, curr.pipe)
  BY <1>1, <1>3 DEF Live
<1>5. Blocks(e.id)
  BY <1>1 DEF RowsTell, Blocks, JobName
<1>6. QED  BY <1>1, <1>4, <1>5

\* A POST that may still be accepted is of a failed job of the list, after every
\* step.
LEMMA BatchStaysCalm ==
  ASSUME RunInvariant, ListingsOK, AcrossOK, mode = "calm", PipesOK, ReportedOK,
         FinalStays, PageOK, RowsTell, UniqueIds(curr.jobs), BatchCalm, [Next]_vars
  PROVE  BatchCalm'
<1>0. ControlOK /\ BatchTypeOK /\ GitLabTypeOK /\ RowsOK
  BY DEF RunInvariant, TypeOK
<1>1. CASE SameBatch
  <2>1. /\ recs' = recs /\ DOMAIN batch' = DOMAIN batch
        /\ \A e \in DOMAIN batch : Open(e)' => Open(e)
        /\ DOMAIN batch # {} => curr' = curr
    BY <1>1 DEF SameBatch
  <2>2. QED  BY <2>1 DEF BatchCalm, UniqueIds, JobName, Blocks
<1>2. CASE TallyOk
  <2>1. /\ UNCHANGED <<recs, curr>> /\ pc = "tally" /\ DOMAIN batch = {}
    BY <1>0, <1>2, NoBatchProperties DEF TallyOk, ControlOK, gitlabVars, tickVars
  <2>2. \/ batch' = batch
        \/ \E sel \in SUBSET Eligible(JobList) : batch' = StartBatch(sel)
    BY <1>2 DEF TallyOk
  <2>3. DOMAIN batch' \subseteq Eligible(JobList)
    <3>1. ASSUME NEW sel \in SUBSET Eligible(JobList), batch' = StartBatch(sel)
          PROVE  DOMAIN batch' \subseteq Eligible(JobList)
      BY <3>1 DEF StartBatch
    <3>2. QED  BY <2>1, <2>2, <3>1
  <2>4. \A e \in Eligible(JobList) :
           e \in curr.jobs /\ e.id \in Live(recs, curr.pipe) /\ Blocks(e.id)
    BY <2>1, EligibleBlocks
  <2>5. ASSUME NEW e \in Eligible(JobList), NEW f \in Eligible(JobList),
               JobName(e) = JobName(f)
        PROVE  e = f
    <3>1. e.id <= f.id /\ f.id <= e.id
      BY <2>4, <2>5 DEF Live, JobName
    <3>2. e.id \in DOMAIN recs /\ f.id \in DOMAIN recs
      BY <2>4 DEF Live, Attempts
    <3>3. e.id \in Nat /\ f.id \in Nat
      BY <1>0, <3>2, LenProperties DEF GitLabTypeOK
    <3>4. QED  BY <2>4, <3>1, <3>3 DEF UniqueIds
  <2>6. UniqueIds(DOMAIN batch)'
    BY <2>3, <2>4 DEF UniqueIds
  <2>7. (\A e \in DOMAIN batch : e.id \in Live(recs, curr.pipe) /\ Blocks(e.id))'
    BY <2>1, <2>3, <2>4 DEF Blocks
  <2>8. (\A e, f \in DOMAIN batch : JobName(e) = JobName(f) => e = f)'
    BY <2>1, <2>3, <2>5 DEF JobName
  <2>9. QED  BY <2>6, <2>7, <2>8 DEF BatchCalm
<1>3. CASE BatchDone \/ Reinvoke
  <2>1. DOMAIN batch' = {}
    BY <1>3, NoBatchProperties DEF BatchDone, Reinvoke
  <2>2. QED  BY <2>1 DEF BatchCalm, UniqueIds
<1>4. CASE GitLabStep
  <2>1. UNCHANGED <<batch, curr>> /\ RecordsStay /\ ListsStay
    BY <1>4, ServerIs, CalmServes
  <2>2. \A e \in DOMAIN batch :
           e.id \in DOMAIN recs /\ curr.pipe \in DOMAIN pstat
    BY <1>0 DEF RowsOK, ListingsOK, AreOf, PipesOK
  <2>3. \A e \in DOMAIN batch : JobName(e)' = JobName(e)
    BY <2>1, <2>2 DEF RecordsStay, JobName
  <2>4. \A e \in DOMAIN batch : Open(e)' <=> Open(e)
    BY <2>1 DEF Open
  <2>5. ASSUME NEW e \in DOMAIN batch, Open(e)
        PROVE  e.id \in Live(recs', curr.pipe) /\ Blocks(e.id)'
    <3>1. e.id \in Live(recs, curr.pipe) /\ Blocks(e.id)
      BY <2>5 DEF BatchCalm
    <3>2. e.id \in Live(recs', curr.pipe)
      BY <2>1, <2>2, <3>1 DEF ListsStay
    <3>3. recs'[e.id].status = recs[e.id].status /\ recs'[e.id].name = recs[e.id].name
      BY <2>1, <2>2, <3>1 DEF FinalStays, RecordsStay, Blocks
    <3>4. QED  BY <3>1, <3>2, <3>3 DEF Blocks
  <2>6. UniqueIds(DOMAIN batch)'
    BY <2>1 DEF BatchCalm, UniqueIds
  <2>7. QED  BY <2>1, <2>3, <2>4, <2>5, <2>6 DEF BatchCalm
<1>5. ASSUME BatchStep, NEW e \in DOMAIN batch, Accept(e, run)
      PROVE  BatchCalm'
  <2>1. /\ curr' = curr /\ batch' = [batch EXCEPT ![e] = "accepted"]
        /\ \A r \in DOMAIN recs : r \in DOMAIN recs' /\ recs'[r] = recs[r]
        /\ \A s \in Live(recs, curr.pipe) :
              recs[s].name # JobName(e) => s \in Live(recs', curr.pipe)
    BY <1>5, AcceptIs, CalmAccepts
  <2>2. /\ DOMAIN batch' = DOMAIN batch
        /\ \A f \in DOMAIN batch : Open(f)' => Open(f) /\ f # e
    BY <1>0, <2>1 DEF Open, BatchTypeOK
  <2>3. \A f \in DOMAIN batch : f.id \in DOMAIN recs /\ JobName(f)' = JobName(f)
    BY <1>0, <2>1 DEF RowsOK, JobName
  <2>4. ASSUME NEW f \in DOMAIN batch, Open(f)'
        PROVE  f.id \in Live(recs', curr.pipe) /\ Blocks(f.id)'
    <3>1. /\ f.id \in Live(recs, curr.pipe) /\ Blocks(f.id)
          /\ JobName(f) # JobName(e)
      BY <2>2, <2>4 DEF BatchCalm
    <3>2. QED  BY <2>1, <2>3, <3>1 DEF Blocks, JobName
  <2>5. UniqueIds(DOMAIN batch)'
    BY <2>2 DEF BatchCalm, UniqueIds
  <2>6. (\A f, g \in DOMAIN batch : JobName(f) = JobName(g) => f = g)'
    BY <2>2, <2>3 DEF BatchCalm
  <2>7. QED  BY <2>1, <2>2, <2>4, <2>5, <2>6 DEF BatchCalm
<1>6. QED  BY <1>1, <1>2, <1>3, <1>4, <1>5, StepIs

\* What a batch adds to the ledger.
LEMMA BatchIsPosted ==
  ASSUME RunInvariant, BatchCalm, PostedOK
  PROVE  LET posted == ledger.posted \cup {e.id : e \in DOMAIN batch}
         IN  /\ IsFiniteSet(posted) /\ Cardinality(posted) \in Nat
             /\ Cardinality(posted) >= ledger.issued + Cardinality(DOMAIN batch)
<1> DEFINE ids == {e.id : e \in DOMAIN batch}
           id == [e \in DOMAIN batch |-> e.id]
<1>0. GitLabTypeOK /\ BatchTypeOK /\ ledger.issued \in Nat
  BY ConstantTypes DEF RunInvariant, TypeOK
<1>1. ids \in SUBSET DOMAIN recs /\ ids \cap ledger.posted = {}
  BY DEF RunInvariant, RowsOK, PostedOK
<1>2. id \in [DOMAIN batch -> ids] /\ \A x, y \in DOMAIN batch : id[x] = id[y] => x = y
  BY DEF BatchCalm, UniqueIds
<1> HIDE DEF ids, id
<1>3. IsFiniteSet(ids) /\ Cardinality(ids) \in Nat
  BY <1>0, <1>1, RecordSetIsFinite
<1>4. Cardinality(DOMAIN batch) <= Cardinality(ids) /\ Cardinality(DOMAIN batch) \in Nat
  BY <1>0, <1>2, <1>3, InjectionCounts, BatchIsFinite
<1>5. /\ IsFiniteSet(ledger.posted) /\ Cardinality(ledger.posted) \in Nat
      /\ Cardinality(ledger.posted) >= ledger.issued
  BY FS_CardinalityType DEF PostedOK
<1>6. /\ IsFiniteSet(ledger.posted \cup ids)
      /\ Cardinality(ledger.posted \cup ids) =
            Cardinality(ledger.posted) + Cardinality(ids) - Cardinality(ledger.posted \cap ids)
  BY <1>3, <1>5, FS_Union
<1>7. Cardinality(ledger.posted \cap ids) = 0
  <2>1. ledger.posted \cap ids = {}
    BY <1>1
  <2>2. QED  BY <2>1, FS_EmptySet
<1>8. /\ Cardinality(ledger.posted \cup ids) \in Nat
      /\ Cardinality(ledger.posted \cup ids) >= ledger.issued + Cardinality(DOMAIN batch)
  BY <1>0, <1>3, <1>4, <1>5, <1>6, <1>7
<1>9. QED  BY <1>6, <1>8 DEF ids

\* The ledger remembers what it counts, after every step.
LEMMA PostedKeeps ==
  ASSUME RunInvariant, ListingsOK, BatchCalm, PostedOK, [Next]_vars
  PROVE  PostedOK'
<1>1. CASE SameBatch
  BY <1>1 DEF SameBatch, PostedOK
<1>2. CASE GitLabStep
  BY <1>2 DEF GitLabStep, PostedOK
<1>3. CASE BatchStep /\ \E e \in DOMAIN batch : Accept(e, run)
  <2>1. ledger' = ledger /\ DOMAIN batch' = DOMAIN batch
    BY <1>3 DEF BatchStep, Accept, Move
  <2>2. QED  BY <2>1 DEF PostedOK
<1>4. CASE TallyOk
  <2>1. ledger' = ledger /\ pc = "tally"
    BY <1>4 DEF TallyOk
  <2>2. \/ batch' = batch
        \/ \E sel \in SUBSET Eligible(JobList) : batch' = StartBatch(sel)
    BY <1>4 DEF TallyOk
  <2>3. ASSUME NEW sel \in SUBSET Eligible(JobList), batch' = StartBatch(sel)
        PROVE  \A e \in DOMAIN batch' : e.id \notin ledger.posted
    <3>1. DOMAIN batch' = sel
      BY <2>3 DEF StartBatch
    <3>2. QED  BY <3>1, EligibleIs
  <2>4. QED  BY <2>1, <2>2, <2>3 DEF PostedOK
<1>5. CASE Reinvoke
  <2>1. ledger'.posted = {} /\ ledger'.issued = 0 /\ DOMAIN batch' = {}
    BY <1>5, NoBatchProperties DEF Reinvoke, EmptyLedger
  <2>2. QED  BY <2>1, FS_EmptySet DEF PostedOK
<1>6. CASE BatchDone
  <2> DEFINE new == {e \in DOMAIN batch : batch[e] = "new"}
  <2>1. /\ ledger'.posted = ledger.posted \cup {e.id : e \in DOMAIN batch}
        /\ ledger'.issued = ledger.issued + Cardinality(new)
        /\ DOMAIN batch' = {}
    BY <1>6, NoBatchProperties DEF BatchDone, LedgerAfter
  <2>2. /\ Cardinality(new) \in Nat /\ Cardinality(DOMAIN batch) \in Nat
        /\ Cardinality(new) <= Cardinality(DOMAIN batch) /\ ledger.issued \in Nat
    <3>1. IsFiniteSet(DOMAIN batch) /\ ledger.issued \in Nat
      BY ConstantTypes DEF RunInvariant, TypeOK, BatchTypeOK
    <3>2. QED  BY <3>1, FS_Subset, FS_CardinalityType
  <2> HIDE DEF new
  <2>3. IsFiniteSet(ledger'.posted) /\ Cardinality(ledger'.posted) >= ledger'.issued
    BY <2>1, <2>2, BatchIsPosted
  <2>4. QED  BY <2>1, <2>3 DEF PostedOK
<1>7. QED  BY <1>1, <1>2, <1>3, <1>4, <1>5, <1>6, StepIs

-----------------------------------------------------------------------------
(* What is tried.                                                          *)

\* A failed job that could be retried is a candidate while the budget lasts.
LEMMA UntriedIsCandidate ==
  ASSUME TickTells, ~BudgetSpent, NEW r \in Live(recs, curr.pipe), Untried(r, curr.pipe)
  PROVE  \E e \in Candidates : e.id = r
<1>1. PICK e \in curr.jobs : e.id = r
  BY DEF TickTells
<1>2. e.st = "failed" /\ JobName(e) \notin AllowFailure \cup opt.exclude
  BY <1>1 DEF TickTells, Untried, JobName
<1>3. e \in Candidates
  BY <1>1, <1>2 DEF Candidates, IsBlocking, Untried
<1>4. QED  BY <1>1, <1>3

\* The exact tally counts every attempt once.
LEMMA TallyIsExact ==
  ASSUME RunInvariant, PageOK, pc = "tally", NEW n
  PROVE  /\ Count(JobList, n) \in Nat
         /\ Cardinality(ShownAttempts(n, curr.pipe)) \in Nat
         /\ Count(JobList, n) <= Cardinality(ShownAttempts(n, curr.pipe))
<1> DEFINE S == {f \in JobList : JobName(f) = n}
           T == ShownAttempts(n, curr.pipe)
           id == [f \in S |-> f.id]
<1>0. GitLabTypeOK /\ IsFiniteSet(JobList)
  BY JobListProperties DEF RunInvariant, TypeOK
<1>1. {f.id : f \in JobList} = Attempts(recs, curr.pipe) /\ UniqueIds(JobList)
  BY ListingExact DEF Requested
<1>2. id \in [S -> T] /\ \A x, y \in S : id[x] = id[y] => x = y
  BY <1>1 DEF UniqueIds, ShownAttempts, JobName
<1>3. T \in SUBSET DOMAIN recs
  BY DEF ShownAttempts, Attempts
<1>4. S \in SUBSET JobList
  OBVIOUS
<1> HIDE DEF S, T, id
<1>5. IsFiniteSet(T) /\ Cardinality(T) \in Nat
  BY <1>0, <1>3, RecordSetIsFinite
<1>6. IsFiniteSet(S) /\ Cardinality(S) \in Nat
  BY <1>0, <1>4, FS_Subset, FS_CardinalityType
<1>7. Cardinality(S) <= Cardinality(T)
  BY <1>2, <1>5, InjectionCounts
<1>8. QED  BY <1>5, <1>6, <1>7 DEF Count, S, T

\* The tally makes it eligible.
LEMMA UntriedIsEligible ==
  ASSUME RunInvariant, PageOK, TickTells, pc = "tally", ~BudgetSpent,
         NEW r \in Live(recs, curr.pipe), Untried(r, curr.pipe)
  PROVE  \E e \in Eligible(JobList) : e.id = r
<1>1. PICK e \in Candidates : e.id = r
  BY UntriedIsCandidate
<1>2. {f.id : f \in JobList} = Attempts(recs, curr.pipe)
  BY ListingExact DEF Requested
<1>3. IsNewest(JobList, e)
  <2>1. \E f \in JobList : f.id = e.id
    BY <1>1, <1>2 DEF Live
  <2>2. ASSUME NEW f \in JobList, JobName(f) = JobName(e)
        PROVE  f.id <= e.id
    BY <1>1, <1>2, <2>2 DEF Live, JobName
  <2>3. QED  BY <2>1, <2>2 DEF IsNewest
<1>4. WithinBudget(JobList, e)
  <2>1. SUFFICES ASSUME opt.attempts # 0
                 PROVE  Count(JobList, JobName(e)) - 1 < opt.attempts
    BY DEF WithinBudget
  <2>2. Cardinality(ShownAttempts(JobName(e), curr.pipe)) <= opt.attempts
    BY <1>1, <2>1 DEF Untried, ShownAttempts, JobName
  <2>3. opt.attempts \in Nat
    BY AttachAssumption DEF RunInvariant, TypeOK, RunTypeOK, Option
  <2>4. QED  BY <2>2, <2>3, TallyIsExact
<1>5. QED  BY <1>1, <1>3, <1>4 DEF Eligible

\* So the selection has it, or all that the total budget has left.
LEMMA SelectionIsAll ==
  ASSUME RunInvariant, PageOK, TickTells, pc = "tally",
         NEW sel \in SUBSET Eligible(JobList), IsSelection(sel, Eligible(JobList))
  PROVE  \/ opt.total # 0 /\ ledger.issued + Cardinality(sel) >= opt.total
         \/ \A r \in Live(recs, curr.pipe) :
               Untried(r, curr.pipe) => \E e \in sel : e.id = r
<1>0. /\ opt.total \in Nat /\ ledger.issued \in Nat
      /\ IsFiniteSet(sel) /\ Cardinality(sel) \in Nat
  <2>1. IsFiniteSet(curr.jobs) /\ sel \subseteq curr.jobs
    BY DEF RunInvariant, RowsOK, Eligible, Candidates
  <2>2. IsFiniteSet(sel) /\ Cardinality(sel) \in Nat
    BY <2>1, FS_Subset, FS_CardinalityType
  <2>3. QED  BY <2>2, ConstantTypes DEF RunInvariant, TypeOK
<1>1. CASE BudgetSpent
  BY <1>0, <1>1 DEF BudgetSpent
<1>2. CASE ~BudgetSpent /\ sel = Eligible(JobList)
  BY <1>2, UntriedIsEligible
<1>3. CASE opt.total # 0 /\ ledger.issued + Cardinality(sel) = opt.total
  BY <1>0, <1>3
<1>4. QED  BY <1>1, <1>2, <1>3 DEF IsSelection

\* A budget that is spent is spent on records the ledger remembers.
LEMMA SpentIsPosted ==
  ASSUME RunInvariant, PostedOK, opt.total # 0, ledger.issued >= opt.total
  PROVE  Cardinality(ledger.posted) >= opt.total
<1>1. opt.total \in Nat /\ ledger.issued \in Nat
  BY ConstantTypes DEF RunInvariant, TypeOK
<1>2. Cardinality(ledger.posted) \in Nat
  BY FS_CardinalityType DEF PostedOK
<1>3. QED  BY <1>1, <1>2 DEF PostedOK

-----------------------------------------------------------------------------
(* The verdict of a calm run.                                              *)

\* What a pipeline at rest is like stays so while GitLab acts on its own.
LEMMA RestStays ==
  ASSUME RunInvariant, AcrossOK, mode = "calm", GitLabStep, PipesOK, ReportedOK,
         NEW p \in DOMAIN pstat, AtRest(p)
  PROVE  /\ p \in DOMAIN pstat' /\ AtRest(p)'
         /\ Live(recs', p) = Live(recs, p)
         /\ \A r \in Live(recs, p) : /\ recs'[r].status = recs[r].status
                                     /\ Untried(r, p)' => Untried(r, p)
<1>1. ListsStay /\ RecordsStay /\ UNCHANGED <<opt, ledger>>
  BY CalmServes, ServerIs
<1>2. /\ p \in DOMAIN pstat' /\ Live(recs', p) = Live(recs, p)
      /\ Attempts(recs', p) = Attempts(recs, p)
      /\ \A r \in Live(recs, p) : recs'[r].status = recs[r].status
  BY <1>1 DEF ListsStay
<1>3. AtRest(p)'
  BY <1>2 DEF AtRest
<1>4. \A s \in Attempts(recs, p) : recs'[s].name = recs[s].name
  BY <1>1 DEF RecordsStay, Attempts
<1>5. ASSUME NEW r \in Live(recs, p)
      PROVE  Untried(r, p)' => Untried(r, p)
  <2>1. recs'[r].status = recs[r].status /\ recs'[r].name = recs[r].name
    BY <1>2, <1>4, <1>5 DEF Live
  <2>2. {s \in Attempts(recs', p) : recs'[s].name = recs'[r].name}
          = {s \in Attempts(recs, p) : recs[s].name = recs[r].name}
    BY <1>2, <1>4, <2>1
  <2>3. QED  BY <1>1, <2>1, <2>2 DEF Untried
<1>6. QED  BY <1>2, <1>3, <1>5

\* What the engine does not notice: GitLab's own steps.
LEMMA CalmServed ==
  ASSUME RunInvariant, AcrossOK, mode = "calm", PipesOK, ReportedOK, CalmReads, GitLabStep
  PROVE  CalmReads'
<1>0. /\ ControlOK /\ UNCHANGED <<opt, run, pc, curr, target, ledger, batch, result>>
      /\ mode' = mode
  BY ServerIs DEF RunInvariant, GitLabStep, fetchVars, reportVars
<1>1. ASSUME pc \in {"jobs", "polljobs", "followjobs"}, target.status \in Finished
      PROVE  AtRest(target.pipe)'
  <2>1. target.pipe \in DOMAIN pstat /\ AtRest(target.pipe)
    BY <1>0, <1>1 DEF ControlOK, CalmReads
  <2>2. QED  BY <1>0, <2>1, RestStays DEF AtRest
<1>2. ASSUME pc \in {"tick", "tally", "post"}, TickTells
      PROVE  TickTells' /\ (BatchIsAll => BatchIsAll')
  <2>1. curr.pipe \in DOMAIN pstat /\ AtRest(curr.pipe)
    BY <1>0, <1>2 DEF ControlOK, TickTells, PCs, AwaitPCs, RequestPCs
  <2>2. /\ AtRest(curr.pipe)' /\ Live(recs', curr.pipe) = Live(recs, curr.pipe)
        /\ \A r \in Live(recs, curr.pipe) :
              /\ recs'[r].status = recs[r].status
              /\ Untried(r, curr.pipe)' => Untried(r, curr.pipe)
    BY <1>0, <2>1, RestStays DEF AtRest, Untried
  <2>3. \A e \in curr.jobs : e.id \in Live(recs, curr.pipe)
    BY <1>2 DEF TickTells
  <2>4. TickTells'
    BY <1>0, <1>2, <2>2, <2>3 DEF TickTells
  <2>5. BatchIsAll => BatchIsAll'
    BY <1>0, <2>2 DEF BatchIsAll
  <2>6. QED  BY <2>4, <2>5
<1>3. Accepted' = Accepted
  BY <1>0 DEF Accepted
<1>4. ASSUME result.reason = "terminal"
      PROVE  (/\ pc = "done" /\ batch = NoBatch
              /\ result.pipe \in DOMAIN pstat /\ AtRest(result.pipe)
              /\ NoFailureLeftBehind)'
  <2>1. /\ pc = "done" /\ batch = NoBatch
        /\ result.pipe \in DOMAIN pstat /\ AtRest(result.pipe)
        /\ NoFailureLeftBehind
    BY <1>4 DEF CalmReads
  <2>2. /\ result.pipe \in DOMAIN pstat' /\ AtRest(result.pipe)'
        /\ Live(recs', result.pipe) = Live(recs, result.pipe)
        /\ \A r \in Live(recs, result.pipe) :
              Untried(r, result.pipe)' => Untried(r, result.pipe)
    BY <1>0, <2>1, RestStays DEF AtRest, Untried
  <2>3. QED  BY <1>0, <2>1, <2>2 DEF NoFailureLeftBehind
<1>5. QED  BY <1>0, <1>1, <1>2, <1>3, <1>4 DEF CalmReads

\* Nor the POSTs: before the first is accepted nothing the tick says changes, and
\* then the batch is not the tick's last word.
LEMMA CalmPosts ==
  ASSUME RunInvariant, mode = "calm", CalmReads, BatchStep
  PROVE  CalmReads'
<1>0. /\ ControlOK /\ BatchTypeOK
      /\ UNCHANGED <<opt, run, pc, curr, target, ledger, result>>
  BY DEF RunInvariant, TypeOK, BatchStep, tickVars, fetchVars, reportVars
<1>1. /\ DOMAIN batch # {} /\ batch # NoBatch
      /\ pc \in {"post", "dying", "done"} /\ result.reason # "terminal"
  BY <1>0, NoBatchProperties DEF BatchStep, ControlOK, CalmReads
<1>2. PICK e \in DOMAIN batch : Send(e) \/ Collect(e) \/ Accept(e, run) \/ Refuse(e)
  BY DEF BatchStep
<1>3. CASE Accept(e, run)
  <2>1. batch' = [batch EXCEPT ![e] = "accepted"]
    BY <1>3 DEF Accept, Move
  <2>2. e \in Accepted'
    BY <2>1 DEF Accepted
  <2>3. QED  BY <1>0, <1>1, <2>2 DEF CalmReads
<1>4. CASE Send(e) \/ Collect(e) \/ Refuse(e)
  <2>1. recs' = recs /\ DOMAIN batch' = DOMAIN batch
    BY <1>0, <1>4 DEF Send, Collect, Refuse, Move, gitlabVars
  <2>2. Accepted \subseteq Accepted'
    <3>1. Truthful
      BY DEF Truthful
    <3>2. QED
      BY <1>0, <1>4, <3>1 DEF Send, Collect, Refuse, Move, Accepted, BatchTypeOK
  <2>3. TickTells => TickTells'
    BY <1>0, <2>1 DEF TickTells, AtRest
  <2>4. BatchIsAll => BatchIsAll'
    BY <1>0, <2>1 DEF BatchIsAll, Untried
  <2>5. QED  BY <1>0, <1>1, <2>2, <2>3, <2>4 DEF CalmReads
<1>5. QED  BY <1>2, <1>3, <1>4

\* A tick that ends with a verdict has nothing left to try.
LEMMA CalmConcludes ==
  ASSUME CalmReads, NEW k, NEW n, Conclude(k, n), pc # "done",
         UNCHANGED <<recs, pstat, mode, opt, curr>>, batch' = NoBatch,
         curr.pipe \in DOMAIN pstat,
         k = 0 /\ curr.status \in Finished =>
            /\ AtRest(curr.pipe)
            /\ opt.retry => \A r \in Live(recs, curr.pipe) :
                  Untried(r, curr.pipe)' =>
                      opt.total # 0 /\ Cardinality(ledger'.posted) >= opt.total
  PROVE  CalmReads'
<1>1. CASE curr.status \in Finished /\ k = 0
  <2>1. pc' = "done" /\ result'.pipe = curr.pipe
    BY <1>1 DEF Conclude, End
  <2>2. AtRest(result.pipe)' /\ result'.pipe \in DOMAIN pstat'
    BY <1>1, <2>1 DEF AtRest
  <2>3. NoFailureLeftBehind'
    BY <1>1, <2>1 DEF NoFailureLeftBehind, Untried
  <2>4. QED  BY <2>1, <2>2, <2>3 DEF CalmReads
<1>2. CASE ~(curr.status \in Finished /\ k = 0)
  <2>1. pc' = "sleep" /\ result' = result /\ result.reason # "terminal"
    BY <1>2 DEF Conclude, CalmReads
  <2>2. QED  BY <2>1 DEF CalmReads
<1>3. QED  BY <1>1, <1>2

\* A pipeline read as finished is at rest, also where the object cache answers.
LEMMA FoundAtRest ==
  ASSUME ReportedOK, GreenOK, NEW p \in DOMAIN pstat,
         NEW st \in StatusFound(p), st \in Finished
  PROVE  AtRest(p)
  BY DEF StatusFound, ReportedOK, GreenOK, AtRest

\* The reads and the rests of the engine, and the ends without a verdict.
LEMMA CalmReadsOn ==
  ASSUME RunInvariant, ReportedOK, GreenOK, PageOK, CalmReads, mode = "calm",
         \/ ResolveOk \/ ResolveNone \/ WaitOver \/ StartError \/ LoadJobs
         \/ ReadFirstPage \/ TallyError \/ SleepOver
         \/ FollowList \/ FollowError \/ FollowSwitch
         \/ PollPipeline \/ PollJobs \/ PollError \/ UncaughtError
         \/ \E e \in DOMAIN batch : BatchBroken(e)
  PROVE  CalmReads'
<1>1. UNCHANGED <<gitlabVars, batch, opt, run, ledger>>
  BY EngineIsQuiet
<1>2. UNCHANGED <<recs, pstat, mode>>
  BY <1>1 DEF gitlabVars
<1>3. pc # "done" /\ result.reason # "terminal"
  BY DEF ResolveOk, ResolveNone, WaitOver, StartError, LoadJobs, ReadFirstPage,
         TallyError, SleepOver, FollowList, FollowError, FollowSwitch, PollPipeline,
         PollJobs, PollError, UncaughtError, BatchBroken, ListingPCs, CalmReads, OnWire,
         RunInvariant, ControlOK
<1>4. CASE ResolveNone \/ WaitOver
  BY <1>3, <1>4 DEF ResolveNone, WaitOver, Fail, End, CalmReads, reportVars
<1>5. CASE StartError \/ TallyError \/ UncaughtError \/ PollError
  BY <1>3, <1>5
  DEF StartError, TallyError, UncaughtError, PollError, Fail, End, CalmReads
<1>6. CASE SleepOver \/ FollowError \/ \E e \in DOMAIN batch : BatchBroken(e)
  BY <1>3, <1>6 DEF SleepOver, FollowError, BatchBroken, CalmReads, reportVars
<1>7. CASE ResolveOk
  <2>1. /\ pc' = "jobs" /\ result' = result
        /\ target'.pipe \in DOMAIN pstat /\ target'.status \in StatusFound(target'.pipe)
    BY <1>7 DEF ResolveOk
  <2>2. target'.status \in Finished => AtRest(target'.pipe)
    BY <2>1, FoundAtRest
  <2>3. target'.status \in Finished => AtRest(target.pipe)'
    BY <1>2, <2>2 DEF AtRest
  <2>4. QED  BY <1>3, <2>1, <2>3 DEF CalmReads
<1>8. CASE LoadJobs \/ PollJobs \/ FollowSwitch
  <2>1. /\ pc \in {"jobs", "polljobs", "followjobs"} /\ pc' = "tick" /\ result' = result
        /\ curr'.pipe = target.pipe /\ curr'.status = target.status
        /\ curr'.jobs = JobList
    BY <1>8 DEF LoadJobs, PollJobs, FollowSwitch, SwitchTo, reportVars
  <2>2. ASSUME target.status \in Finished
        PROVE  TickTells'
    <3>1. /\ AtRest(target.pipe) /\ {e.id : e \in JobList} = Live(recs, target.pipe)
          /\ \A e \in JobList : recs[e.id].status = e.st
      BY <2>1, <2>2, ListingExact DEF CalmReads, Requested
    <3>2. AtRest(curr.pipe)'
      BY <1>2, <2>1, <3>1 DEF AtRest
    <3>3. QED  BY <1>2, <2>1, <3>1, <3>2 DEF TickTells
  <2>3. QED  BY <1>3, <2>1, <2>2 DEF CalmReads
<1>9. CASE PollPipeline \/ FollowList
  <2>1. /\ pc' \in {"poll", "polljobs", "followjobs"} /\ result' = result
        /\ pc' # "poll" => /\ target'.pipe \in DOMAIN pstat
                           /\ target'.status = pstat[target'.pipe]
    <3>1. curr.pipe \in Nat /\ Len(pstat) \in Nat /\ DOMAIN pstat = 1 .. Len(pstat)
      BY ConstantTypes, LenProperties DEF RunInvariant, TypeOK, GitLabTypeOK
    <3>2. CASE PollPipeline
      BY <3>2
      DEF PollPipeline, RunInvariant, ControlOK, PCs, AwaitPCs, RequestPCs, reportVars
    <3>3. CASE FollowList
      BY <3>1, <3>3 DEF FollowList, reportVars
    <3>4. QED  BY <1>9, <3>2, <3>3
  <2>2. ASSUME pc' # "poll", target'.status \in Finished
        PROVE  AtRest(target.pipe)'
    <3>1. AtRest(target'.pipe)
      BY <2>1, <2>2, FoundAtRest DEF StatusFound
    <3>2. QED  BY <1>2, <3>1 DEF AtRest
  <2>3. QED  BY <1>3, <2>1, <2>2 DEF CalmReads
<1>10. CASE ReadFirstPage
  <2>1. UNCHANGED <<pc, curr, target, result>> /\ pc \in ListingPCs
    BY <1>10 DEF ReadFirstPage, tickVars, reportVars
  <2>2. AtRest(target.pipe) => AtRest(target.pipe)'
    BY <1>2, <2>1 DEF AtRest
  <2>3. TickTells => TickTells'
    BY <1>2, <2>1 DEF TickTells, AtRest
  <2>4. QED  BY <1>3, <2>1, <2>2, <2>3 DEF CalmReads, ListingPCs
<1>11. QED
  BY <1>4, <1>5, <1>6, <1>7, <1>8, <1>9, <1>10

\* Every step keeps what a calm run's verdict rests on.
LEMMA CalmReadsKeep ==
  ASSUME RunInvariant, AcrossOK, mode = "calm", PipesOK, ReportedOK, GreenOK, PageOK,
         BatchCalm, PostedOK, CalmReads, [Next]_vars
  PROVE  CalmReads'
<1>0. ControlOK /\ BatchTypeOK
  BY DEF RunInvariant, TypeOK
<1>1. CASE GitLabStep
  BY <1>1, CalmServed
<1>2. CASE BatchStep
  BY <1>2, CalmPosts
<1>3. CASE \/ ResolveOk \/ ResolveNone \/ WaitOver \/ StartError \/ LoadJobs
           \/ ReadFirstPage \/ TallyError \/ SleepOver
           \/ FollowList \/ FollowError \/ FollowSwitch
           \/ PollPipeline \/ PollJobs \/ PollError \/ UncaughtError
           \/ \E e \in DOMAIN batch : BatchBroken(e)
  BY <1>3, CalmReadsOn
<1>4. CASE Timeout \/ Teardown
  BY <1>4 DEF Timeout, Teardown, Fail, End, CalmReads
<1>5. CASE Reinvoke
  BY <1>5 DEF Reinvoke, NoResult, None, CalmReads
<1>6. CASE Tick
  <2>1. /\ pc = "tick" /\ batch' = batch /\ batch = NoBatch
        /\ curr.pipe \in DOMAIN pstat
        /\ UNCHANGED <<recs, pstat, mode, opt, curr, ledger>>
    BY <1>0, <1>6 DEF Tick, ControlOK, gitlabVars, PCs
  <2>2. CASE pc' = "tally" /\ result' = result
    <3>1. TickTells => TickTells'
      BY <2>1 DEF TickTells, AtRest
    <3>2. QED  BY <2>1, <2>2, <3>1 DEF CalmReads
  <2>3. CASE Conclude(0, ledger.issued) /\ ~(opt.retry /\ Candidates # {})
    <3>1. ASSUME curr.status \in Finished, opt.retry, NEW r \in Live(recs, curr.pipe),
                 Untried(r, curr.pipe)'
          PROVE  opt.total # 0 /\ Cardinality(ledger'.posted) >= opt.total
      <4>1. TickTells /\ Untried(r, curr.pipe)
        BY <2>1, <3>1 DEF CalmReads, Untried
      <4>2. BudgetSpent
        BY <2>3, <3>1, <4>1, UntriedIsCandidate
      <4>3. QED  BY <2>1, <4>2, SpentIsPosted DEF BudgetSpent
    <3>2. curr.status \in Finished => AtRest(curr.pipe)
      BY <2>1 DEF CalmReads, TickTells
    <3>3. QED  BY <2>1, <2>3, <3>1, <3>2, CalmConcludes
  <2>4. QED  BY <1>6, <2>2, <2>3 DEF Tick
<1>7. CASE TallyOk
  <2>1. /\ pc = "tally" /\ batch = NoBatch /\ curr.pipe \in DOMAIN pstat
        /\ UNCHANGED <<recs, pstat, mode, opt, curr, ledger>>
    BY <1>0, <1>7
    DEF TallyOk, ControlOK, gitlabVars, tickVars, PCs, AwaitPCs, RequestPCs
  <2>2. PICK sel \in SUBSET Eligible(JobList) :
           /\ IsSelection(sel, Eligible(JobList))
           /\ IF sel = {}
              THEN Conclude(0, ledger.issued) /\ UNCHANGED batch
              ELSE pc' = "post" /\ batch' = StartBatch(sel) /\ UNCHANGED result
    BY <1>7 DEF TallyOk
  <2>3. ASSUME TickTells
        PROVE  \/ opt.total # 0 /\ ledger.issued + Cardinality(sel) >= opt.total
               \/ \A r \in Live(recs, curr.pipe) :
                     Untried(r, curr.pipe) => \E e \in sel : e.id = r
    BY <2>1, <2>2, <2>3, SelectionIsAll
  <2>4. CASE sel = {}
    <3>1. ASSUME curr.status \in Finished, NEW r \in Live(recs, curr.pipe),
                 Untried(r, curr.pipe)'
          PROVE  opt.total # 0 /\ Cardinality(ledger'.posted) >= opt.total
      <4>1. TickTells /\ Untried(r, curr.pipe)
        BY <2>1, <3>1 DEF CalmReads, Untried
      <4>2. opt.total # 0 /\ ledger.issued + Cardinality(sel) >= opt.total
        BY <2>3, <2>4, <3>1, <4>1
      <4>3. Cardinality(sel) = 0 /\ ledger.issued \in Nat
        BY <2>4, FS_EmptySet, ConstantTypes DEF RunInvariant, TypeOK
      <4>4. ledger.issued >= opt.total
        BY <4>2, <4>3
      <4>5. QED  BY <2>1, <4>2, <4>4, SpentIsPosted
    <3>2. curr.status \in Finished => AtRest(curr.pipe)
      BY <2>1 DEF CalmReads, TickTells
    <3>3. Conclude(0, ledger.issued) /\ batch' = NoBatch
      BY <2>1, <2>2, <2>4
    <3>4. QED  BY <2>1, <3>1, <3>2, <3>3, CalmConcludes
  <2>5. CASE sel # {}
    <3>1. pc' = "post" /\ DOMAIN batch' = sel /\ result' = result
      BY <2>2, <2>5 DEF StartBatch
    <3>2. curr.status \in Finished => TickTells
      BY <2>1 DEF CalmReads
    <3>3. TickTells => TickTells' /\ BatchIsAll'
      <4>1. TickTells => TickTells'
        BY <2>1 DEF TickTells, AtRest
      <4>2. TickTells => BatchIsAll'
        BY <2>1, <2>3, <3>1 DEF BatchIsAll, Untried
      <4>3. QED  BY <4>1, <4>2
    <3>4. QED  BY <2>1, <3>1, <3>2, <3>3 DEF CalmReads
  <2>6. QED  BY <2>4, <2>5
<1>8. CASE BatchDone
  <2> DEFINE new == {e \in DOMAIN batch : batch[e] = "new"}
  <2>1. /\ pc = "post" /\ BatchSettled /\ batch' = NoBatch /\ curr.pipe \in DOMAIN pstat
        /\ UNCHANGED <<recs, pstat, mode, opt, curr>>
        /\ Conclude(Cardinality(new), LedgerAfter(new).issued)
        /\ ledger'.posted = ledger.posted \cup {e.id : e \in DOMAIN batch}
    BY <1>0, <1>8
    DEF BatchDone, gitlabVars, tickVars, LedgerAfter, ControlOK, PCs, AwaitPCs, RequestPCs
  <2>2. Accepted = new
    BY <2>1 DEF BatchSettled, Settled, Accepted
  <2>3. Cardinality(new) = 0 => new = {}
    <3>1. IsFiniteSet(new)
      BY <1>0, FS_Subset DEF BatchTypeOK
    <3>2. QED  BY <3>1, FS_EmptySet
  <2> HIDE DEF new
  <2>4. Cardinality(new) = 0 /\ curr.status \in Finished => TickTells /\ BatchIsAll
    BY <2>1, <2>2, <2>3 DEF CalmReads
  <2>5. ASSUME BatchIsAll, NEW r \in Live(recs, curr.pipe), Untried(r, curr.pipe)'
        PROVE  opt.total # 0 /\ Cardinality(ledger'.posted) >= opt.total
    <3>1. Untried(r, curr.pipe) /\ r \notin {e.id : e \in DOMAIN batch}
      BY <2>1, <2>5 DEF Untried
    <3>2. opt.total # 0 /\ ledger.issued + Cardinality(DOMAIN batch) >= opt.total
      BY <2>5, <3>1 DEF BatchIsAll
    <3>3. /\ Cardinality(ledger'.posted) \in Nat
          /\ Cardinality(ledger'.posted) >= ledger.issued + Cardinality(DOMAIN batch)
      BY <2>1, BatchIsPosted
    <3>4. /\ opt.total \in Nat /\ ledger.issued \in Nat /\ Cardinality(DOMAIN batch) \in Nat
      BY <1>0, ConstantTypes, BatchIsFinite DEF RunInvariant, TypeOK
    <3>5. QED  BY <3>2, <3>3, <3>4
  <2>6. Cardinality(new) = 0 /\ curr.status \in Finished => AtRest(curr.pipe)
    BY <2>4 DEF TickTells
  <2>7. QED  BY <2>1, <2>4, <2>5, <2>6, CalmConcludes
<1>9. CASE Ended \/ UNCHANGED vars
  BY <1>9
  DEF Ended, vars, CalmReads, AtRest, TickTells, BatchIsAll, Untried, Accepted,
      NoFailureLeftBehind
<1>10. QED
  BY <1>1, <1>2, <1>3, <1>4, <1>5, <1>6, <1>7, <1>8, <1>9 DEF Next, EngineStep

-----------------------------------------------------------------------------
(* The theorem.                                                            *)

\* A pipeline that has been a success is at rest, after every step.
LEMMA GreenKeeps ==
  ASSUME RunInvariant, ListingsOK, AcrossOK, mode = "calm", PipesOK, ReportedOK,
         GreenOK, BatchCalm, [Next]_vars
  PROVE  GreenOK'
<1>1. CASE GitLabStep \/ (BatchStep /\ \E e \in DOMAIN batch : Accept(e, run))
  BY <1>1, GreenStays
<1>2. CASE UNCHANGED gitlabVars
  BY <1>2 DEF gitlabVars, GreenOK, AtRest, Blocks
<1>3. CASE BatchStep /\ ~\E e \in DOMAIN batch : Accept(e, run)
  BY <1>2, <1>3 DEF BatchStep, Send, Collect, Refuse
<1>4. CASE TallyOk \/ BatchDone \/ Teardown \/ Timeout \/ Reinvoke
  BY <1>2, <1>4 DEF TallyOk, BatchDone, Teardown, Timeout, Reinvoke
<1>5. CASE UNCHANGED vars
  BY <1>2, <1>5 DEF vars, gitlabVars
<1>6. CASE \/ ResolveOk \/ ResolveNone \/ WaitOver \/ StartError \/ LoadJobs
           \/ ReadFirstPage \/ Tick \/ TallyError \/ SleepOver
           \/ FollowList \/ FollowError \/ FollowSwitch
           \/ PollPipeline \/ PollJobs \/ PollError \/ UncaughtError \/ Ended
           \/ \E e \in DOMAIN batch : BatchBroken(e)
  BY <1>2, <1>6, EngineIsQuiet
<1>7. QED
  BY <1>1, <1>3, <1>4, <1>5, <1>6 DEF Next, EngineStep

\* When attach is called first GitLab has no pipeline and the engine no tick.
LEMMA InitCalm ==
  ASSUME Init
  PROVE  CalmOK
<1>1. /\ DOMAIN recs = {} /\ DOMAIN pstat = {} /\ green = {}
      /\ DOMAIN batch = {} /\ curr = NoTick /\ page = NoPage
      /\ pc = "resolve" /\ result = NoResult /\ ledger = EmptyLedger
  BY NoBatchProperties DEF Init, GitLabInit
<1>2. /\ curr.jobs = {} /\ result.reason # "terminal"
      /\ ledger.posted = {} /\ ledger.issued = 0
  BY <1>1 DEF NoTick, NoResult, None, EmptyLedger
<1>3. PipesOK /\ ReportedOK /\ RowsTell /\ GreenOK /\ PageOK /\ UniqueIds(curr.jobs)
  BY <1>1, <1>2 DEF PipesOK, ReportedOK, RowsTell, GreenOK, PageOK, UniqueIds
<1>4. BatchCalm /\ PostedOK
  BY <1>1, <1>2, FS_EmptySet DEF BatchCalm, UniqueIds, PostedOK
<1>5. CalmReads
  BY <1>1, <1>2 DEF CalmReads
<1>6. QED  BY <1>3, <1>4, <1>5 DEF CalmOK

\* What a run knows of its pipeline in a calm GitLab, inductively.
THEOREM CalmInvariantHolds == Spec => []CalmOK
<1> DEFINE Inv == RetryInvariant /\ CalmOK
<1>1. Init => Inv
  BY InitRetries, InitCalm
<1>2. Inv /\ RetryInvariant' /\ [Next]_vars => Inv'
  <2>1. SUFFICES ASSUME RetryInvariant, RetryInvariant', CalmOK, [Next]_vars
                 PROVE  CalmOK'
    OBVIOUS
  <2>2. RunInvariant /\ ListingsOK /\ AcrossOK
    BY <2>1 DEF RetryInvariant
  <2>3. mode' = mode
    BY <2>1, <2>2, ModeStays
  <2>4. ASSUME mode = "calm"
        PROVE  (/\ PipesOK /\ ReportedOK /\ RowsTell /\ GreenOK
                /\ PageOK /\ UniqueIds(curr.jobs) /\ BatchCalm /\ PostedOK /\ CalmReads)'
    <3>1. /\ PipesOK /\ ReportedOK /\ RowsTell /\ GreenOK
          /\ PageOK /\ UniqueIds(curr.jobs) /\ BatchCalm /\ PostedOK /\ CalmReads
      BY <2>1, <2>4 DEF CalmOK
    <3>2. PipesOK' /\ ReportedOK' /\ FinalStays
      BY <2>1, <2>2, <2>4, <3>1, ReportsKeep DEF Prompt
    <3>3. GreenOK'
      BY <2>1, <2>2, <2>4, <3>1, GreenKeeps
    <3>4. PageOK'
      BY <2>1, <2>2, <2>4, <3>1, <3>2, PageKeeps
    <3>5. RowsTell' /\ UniqueIds(curr.jobs)'
      BY <2>1, <2>2, <3>1, <3>2, TickKeepsTelling
    <3>6. BatchCalm'
      BY <2>1, <2>2, <2>4, <3>1, <3>2, BatchStaysCalm
    <3>7. PostedOK'
      BY <2>1, <2>2, <3>1, PostedKeeps
    <3>8. CalmReads'
      BY <2>1, <2>2, <2>4, <3>1, CalmReadsKeep
    <3>9. QED  BY <3>2, <3>3, <3>4, <3>5, <3>6, <3>7, <3>8
  <2>5. QED  BY <2>3, <2>4 DEF CalmOK
<1>3. QED  BY <1>1, <1>2, RetryInvariantHolds, PTL DEF Spec

\* A run that ends with a verdict leaves no failed job untried that the total budget
\* had room for (core/attach.py _apply_retry_policy, _candidates_before_tally).
THEOREM FailuresTried == Spec => []NoFailureLeftBehind
<1>1. CalmOK => NoFailureLeftBehind
  BY DEF CalmOK, CalmReads, NoFailureLeftBehind
<1>2. QED  BY <1>1, CalmInvariantHolds, PTL
=============================================================================
