------------------------------- MODULE TuiProofs -------------------------------
(***************************************************************************)
(* The main view, for every set of pipelines and every number of refreshes *)
(* and retries: it shows the pipeline selected last, and its timer is      *)
(* neither lost nor left running during a load.  It behaves the same below *)
(* the detail screen, so that its theorems hold in the TUI; the screen     *)
(* shows one job, for any number of jobs and retries.                      *)
(***************************************************************************)
EXTENDS Tui, TLAPS

-----------------------------------------------------------------------------
(* The view.                                                               *)

\* Whatever is on its way is about the pipeline selected last.
WorkIsAboutChosen ==
    /\ load # NoLoad => load.pipeline = chosen /\ load.status = pipeline.status
    /\ awaited # 0 => awaited = chosen
    /\ \A p \in Pipelines : manual[p] > 0 => p = chosen

IInv == /\ TypeOK
        /\ ShownIsSelected
        /\ WorkIsAboutChosen
        /\ NoTimerDuringLoad
        /\ AutoRefreshGoesOn

-----------------------------------------------------------------------------

\* The values that stand for "none" are no pipeline and no load.
LEMMA NoneIsNone ==
  /\ 0 \notin Pipelines
  /\ \A p \in Shown, keep \in BOOLEAN :
        /\ [FirstLoad(p) EXCEPT !.keep = keep] =
               [pipeline |-> p.id, status |-> p.status, keep |-> keep]
        /\ [FirstLoad(p) EXCEPT !.keep = keep] # NoLoad
  BY ViewerAssumption DEF Shown, FirstLoad, NoLoad

\* The invariant holds once on_mount has returned.
LEMMA ViewerInit == Init => IInv
<1> SUFFICES ASSUME Init PROVE IInv
  OBVIOUS
<1>1. pipeline.id \in Pipelines /\ pipeline.status \in Statuses
  BY DEF Init, Shown
<1>2. load = [pipeline |-> pipeline.id, status |-> pipeline.status, keep |-> FALSE]
  BY DEF Init, FirstLoad
<1>3. load # NoLoad
  BY <1>1, <1>2, NoneIsNone DEF NoLoad
<1>4. manual \in [Pipelines -> Nat] /\ \A p \in Pipelines : manual[p] = 0
  BY DEF Init, NoRefreshes
<1>5. TypeOK
  <2>1. /\ pipeline \in Shown /\ jobs = 0 /\ awaited = 0 /\ subtitle = ""
        /\ posting = 0 /\ asked = 0 /\ told = 0 /\ chosen = pipeline.id
    BY DEF Init
  <2>2. /\ loading \in BOOLEAN /\ listed \in BOOLEAN /\ updated \in BOOLEAN
        /\ timer \in BOOLEAN /\ dialog \in BOOLEAN /\ failed \in BOOLEAN
    BY DEF Init
  <2>3. load \in [pipeline : Pipelines, status : Statuses, keep : BOOLEAN]
    BY <1>1, <1>2
  <2>4. QED
    BY <1>1, <1>4, <2>1, <2>2, <2>3 DEF TypeOK
<1>6. ShownIsSelected /\ WorkIsAboutChosen
  <2>1. jobs = 0 /\ awaited = 0 /\ chosen = pipeline.id
    BY DEF Init
  <2>2. QED
    BY <1>2, <1>4, <2>1 DEF ShownIsSelected, WorkIsAboutChosen
<1>7. NoTimerDuringLoad /\ AutoRefreshGoesOn
  BY <1>3 DEF Init, NoTimerDuringLoad, AutoRefreshGoesOn
<1>8. QED
  BY <1>5, <1>6, <1>7 DEF IInv

\* A load of the pipeline selected last, whoever asks for it, keeps the
\* invariant: it stops the timer and cancels the workers.
LEMMA LoadKeeps ==
  ASSUME IInv, NEW p \in Shown, NEW keep \in BOOLEAN, load_pipeline(p, keep),
         chosen' = p.id, keep => p.id = chosen,
         dialog' \in BOOLEAN, asked' \in Nat, told' \in Nat
  PROVE  IInv'
<1>1. /\ load' = [pipeline |-> p.id, status |-> p.status, keep |-> keep]
      /\ load' # NoLoad
  BY NoneIsNone DEF load_pipeline
<1>2. /\ timer' = FALSE /\ awaited' = 0
      /\ manual' = NoRefreshes /\ posting' = 0 /\ pipeline' = p
  BY DEF load_pipeline, StopTimer, CancelGroup
<1>3. p.id \in Pipelines /\ p.status \in Statuses
  BY DEF Shown
<1>4. jobs' = 0 \/ (jobs' = jobs /\ keep)
  BY DEF load_pipeline
<1>5. TypeOK'
  <2>1. /\ subtitle' \in {"", "refreshing", "auto-refreshing", "last updated"}
        /\ jobs' \in Pipelines \cup {0} /\ loading' \in BOOLEAN /\ listed' \in BOOLEAN
        /\ updated' \in BOOLEAN /\ failed' \in BOOLEAN
    BY DEF load_pipeline, IInv, TypeOK
  <2>2. QED
    BY <1>1, <1>2, <1>3, <2>1
    DEF TypeOK, NoRefreshes
<1>6. ShownIsSelected'
  BY <1>2, <1>4 DEF IInv, ShownIsSelected
<1>7. WorkIsAboutChosen'
  BY <1>1, <1>2, <1>3 DEF WorkIsAboutChosen, NoRefreshes
<1>8. NoTimerDuringLoad' /\ AutoRefreshGoesOn'
  BY <1>1, <1>2 DEF NoTimerDuringLoad, AutoRefreshGoesOn
<1>9. QED
  BY <1>5, <1>6, <1>7, <1>8 DEF IInv

\* A refresh of the pipeline selected last keeps the invariant.
LEMMA RefreshKeeps ==
  ASSUME IInv, NEW id \in Pipelines, id = chosen, Refresh(id)
  PROVE  IInv'
<1>1. PICK status \in Statuses : load_pipeline([id |-> id, status |-> status], TRUE)
  BY DEF Refresh
<1>2. [id |-> id, status |-> status] \in Shown
  BY DEF Shown
<1>3. dialog' \in BOOLEAN /\ asked' \in Nat /\ told' \in Nat /\ chosen' = chosen
  BY DEF Refresh, retryVars, IInv, TypeOK
<1>4. QED
  BY <1>1, <1>2, <1>3, LoadKeeps

\* The end of a load keeps the invariant: it starts the timer again.
LEMMA LoadEndKeeps ==
  ASSUME IInv, LoadEnds
  PROVE  IInv'
<1>1. /\ load # NoLoad /\ load' = NoLoad
      /\ UNCHANGED <<pipeline, awaited, manual, posting, dialog, chosen, asked, told>>
  BY DEF LoadEnds, LoadDone, LoadFails, retryVars
<1>2. load.pipeline = chosen /\ load.status = pipeline.status /\ ~timer /\ awaited = 0
  BY <1>1 DEF IInv, WorkIsAboutChosen, NoTimerDuringLoad
<1>3. chosen \in Pipelines /\ pipeline.id = chosen
  BY DEF IInv, TypeOK, ShownIsSelected
<1>4. /\ jobs' \in {jobs, chosen, 0}
      /\ loading' \in BOOLEAN /\ listed' \in BOOLEAN /\ updated' \in BOOLEAN
      /\ failed' \in BOOLEAN
      /\ subtitle' \in {"", "refreshing", "auto-refreshing", "last updated"}
  BY <1>1, <1>2
  DEF LoadEnds, LoadDone, LoadFails, SubTitle, SubTitleAfterFailure, IInv, TypeOK
<1>5. /\ timer' \in BOOLEAN
      /\ pipeline.status = "running" /\ ~failed' => timer'
  BY <1>2 DEF LoadEnds, LoadDone, LoadFails, Rearm, IInv, TypeOK
<1>6. TypeOK'
  BY <1>1, <1>3, <1>4, <1>5 DEF IInv, TypeOK
<1>7. ShownIsSelected' /\ WorkIsAboutChosen'
  BY <1>1, <1>3, <1>4 DEF IInv, ShownIsSelected, WorkIsAboutChosen
<1>8. NoTimerDuringLoad' /\ AutoRefreshGoesOn'
  BY <1>1, <1>5 DEF NoTimerDuringLoad, AutoRefreshGoesOn
<1>9. QED
  BY <1>6, <1>7, <1>8 DEF IInv

\* What leaves the view, the load and the selection as they are keeps the
\* invariant, if the other workers stay about the pipeline selected last.
LEMMA OtherStepKeeps ==
  ASSUME IInv, TypeOK', WorkIsAboutChosen',
         UNCHANGED <<viewVars, timer, load, chosen, failed>>,
         awaited' = awaited \/ timer \/ awaited' = 0
  PROVE  IInv'
<1>1. ShownIsSelected'
  BY DEF IInv, ShownIsSelected, viewVars
<1>2. NoTimerDuringLoad'
  BY DEF IInv, NoTimerDuringLoad
<1>3. AutoRefreshGoesOn'
  BY DEF IInv, AutoRefreshGoesOn, viewVars
<1>4. QED
  BY <1>1, <1>2, <1>3 DEF IInv

\* Another call of _manual_refresh is about the pipeline selected last.
LEMMA StartRefreshKeeps ==
  ASSUME IInv, StartRefresh, UNCHANGED <<pipeline, chosen>>
  PROVE  /\ manual' \in [Pipelines -> Nat]
         /\ \A p \in Pipelines : manual'[p] > 0 => p = chosen
<1>1. pipeline.id \in Pipelines /\ pipeline.id = chosen
  BY DEF IInv, TypeOK, Shown, ShownIsSelected
<1>2. manual \in [Pipelines -> Nat] /\ \A p \in Pipelines : manual[p] > 0 => p = chosen
  BY DEF IInv, TypeOK, WorkIsAboutChosen
<1>3. manual' = [manual EXCEPT ![pipeline.id] = manual[pipeline.id] + 1]
  BY DEF StartRefresh
<1>4. QED
  BY <1>1, <1>2, <1>3

\* Every step keeps the invariant.
LEMMA ViewerNext == IInv /\ [Next]_vars => IInv'
<1> SUFFICES ASSUME IInv, [Next]_vars PROVE IInv'
  OBVIOUS
<1> USE DEF viewVars, workVars, retryVars
<1>1. CASE LoadEnds
  BY <1>1, LoadEndKeeps
<1>2. CASE TimerFires
  <2>1. pipeline.id \in Pipelines /\ pipeline.id = chosen
    BY DEF IInv, TypeOK, Shown, ShownIsSelected
  <2>2. TypeOK' /\ WorkIsAboutChosen'
    BY <1>2, <2>1 DEF TimerFires, IInv, TypeOK, WorkIsAboutChosen
  <2>3. QED
    BY <1>2, <2>2, OtherStepKeeps DEF TimerFires
<1>3. CASE AutoRefreshed
  <2>1. awaited \in Pipelines /\ awaited = chosen
    BY <1>3 DEF AutoRefreshed, IInv, TypeOK, WorkIsAboutChosen
  <2>2. QED
    BY <1>3, <2>1, RefreshKeeps DEF AutoRefreshed
<1>4. CASE AutoRefreshFails
  <2>1. TypeOK' /\ WorkIsAboutChosen'
    BY <1>4 DEF AutoRefreshFails, IInv, TypeOK, WorkIsAboutChosen
  <2>2. QED
    BY <1>4, <2>1, OtherStepKeeps DEF AutoRefreshFails
<1>5. CASE action_refresh \/ on_job_detail_screen_job_retried
  <2>1. /\ StartRefresh
        /\ UNCHANGED <<viewVars, timer, awaited, load, posting, dialog, chosen, failed, retryVars>>
    BY <1>5 DEF action_refresh, on_job_detail_screen_job_retried
  <2>2. /\ manual' \in [Pipelines -> Nat]
        /\ \A p \in Pipelines : manual'[p] > 0 => p = chosen
    BY <2>1, StartRefreshKeeps
  <2>3. TypeOK' /\ WorkIsAboutChosen'
    BY <2>1, <2>2 DEF IInv, TypeOK, WorkIsAboutChosen
  <2>4. QED
    BY <2>1, <2>3, OtherStepKeeps
<1>6. ASSUME NEW p \in Pipelines, Refreshed(p)
      PROVE  IInv'
  <2>1. p = chosen
    BY <1>6 DEF Refreshed, IInv, WorkIsAboutChosen
  <2>2. QED
    BY <1>6, <2>1, RefreshKeeps DEF Refreshed
<1>7. ASSUME NEW p \in Pipelines, RefreshFails(p)
      PROVE  IInv'
  <2>1. /\ manual[p] > 0 /\ manual \in [Pipelines -> Nat]
        /\ manual' = [manual EXCEPT ![p] = manual[p] - 1]
        /\ \A q \in Pipelines : manual[q] > 0 => q = chosen
    BY <1>7 DEF RefreshFails, IInv, TypeOK, WorkIsAboutChosen
  <2>2. /\ manual' \in [Pipelines -> Nat]
        /\ \A q \in Pipelines : manual'[q] > 0 => q = chosen
    BY <2>1
  <2>3. UNCHANGED <<viewVars, timer, awaited, load, posting, dialog, chosen, failed, retryVars>>
    BY <1>7 DEF RefreshFails
  <2>4. TypeOK' /\ WorkIsAboutChosen'
    BY <2>2, <2>3 DEF IInv, TypeOK, WorkIsAboutChosen
  <2>5. QED
    BY <2>3, <2>4, OtherStepKeeps
<1>8. ASSUME NEW p \in Pipelines, Select(p)
      PROVE  IInv'
  <2>1. PICK status \in Statuses : load_pipeline([id |-> p, status |-> status], FALSE)
    BY <1>8 DEF Select
  <2>2. [id |-> p, status |-> status] \in Shown
    BY <1>8 DEF Shown
  <2>3. dialog' \in BOOLEAN /\ asked' \in Nat /\ told' \in Nat /\ chosen' = p
    BY <1>8 DEF Select, IInv, TypeOK
  <2>4. QED
    BY <2>1, <2>2, <2>3, LoadKeeps
<1>9. CASE action_retry_job \/ \E confirmed \in BOOLEAN : Dismissed(confirmed)
  <2>1. UNCHANGED <<viewVars, timer, awaited, load, manual, chosen, failed, told>>
    BY <1>9 DEF action_retry_job, Dismissed
  <2>2. dialog' \in BOOLEAN /\ asked' \in Nat /\ posting' \in Nat
    <3>1. dialog' \in BOOLEAN
      BY <1>9 DEF action_retry_job, Dismissed
    <3>2. \/ asked' = asked /\ posting' = posting
          \/ asked' = asked + 1 /\ posting' = posting + 1
      BY <1>9 DEF action_retry_job, Dismissed
    <3>3. asked \in Nat /\ posting \in Nat
      BY DEF IInv, TypeOK
    <3>4. QED
      BY <3>1, <3>2, <3>3
  <2>3. TypeOK' /\ WorkIsAboutChosen'
    BY <2>1, <2>2 DEF IInv, TypeOK, WorkIsAboutChosen
  <2>4. QED
    BY <2>1, <2>3, OtherStepKeeps
<1>10. CASE RetryAnswered
  <2>1. UNCHANGED <<viewVars, timer, awaited, load, dialog, chosen, failed, asked>>
    BY <1>10 DEF RetryAnswered
  <2>2. /\ manual' \in [Pipelines -> Nat]
        /\ \A p \in Pipelines : manual'[p] > 0 => p = chosen
    <3>1. CASE StartRefresh
      BY <2>1, <3>1, StartRefreshKeeps
    <3>2. CASE UNCHANGED manual
      BY <3>2 DEF IInv, TypeOK, WorkIsAboutChosen
    <3>3. QED
      BY <1>10, <3>1, <3>2 DEF RetryAnswered
  <2>3. posting' \in Nat /\ told' \in Nat
    <3>1. posting > 0 /\ posting' = posting - 1 /\ told' = told + 1
      BY <1>10 DEF RetryAnswered
    <3>2. posting \in Nat /\ told \in Nat
      BY DEF IInv, TypeOK
    <3>3. QED
      BY <3>1, <3>2
  <2>4. TypeOK' /\ WorkIsAboutChosen'
    BY <2>1, <2>2, <2>3 DEF IInv, TypeOK, WorkIsAboutChosen
  <2>5. QED
    BY <2>1, <2>4, OtherStepKeeps
<1>11. CASE UNCHANGED vars
  <2>1. TypeOK' /\ WorkIsAboutChosen'
    BY <1>11 DEF vars, IInv, TypeOK, WorkIsAboutChosen
  <2>2. QED
    BY <1>11, <2>1, OtherStepKeeps DEF vars
<1>12. QED
  BY <1>1, <1>2, <1>3, <1>4, <1>5, <1>6, <1>7, <1>8, <1>9, <1>10, <1>11 DEF Next

\* The invariant holds in every reachable state of the view.
LEMMA ViewerInvariant == Spec => []IInv
<1>1. Init => IInv  BY ViewerInit
<1>2. IInv /\ [Next]_vars => IInv'  BY ViewerNext
<1>3. QED  BY <1>1, <1>2, PTL DEF Spec

-----------------------------------------------------------------------------

\* The view and its workers keep their types.
THEOREM ViewerTypeCorrect == Spec => []TypeOK
<1>1. IInv => TypeOK  BY DEF IInv
<1>2. QED  BY <1>1, ViewerInvariant, PTL

\* No late answer replaces the pipeline selected last, or its jobs
\* (load_pipeline and the workers it cancels).
THEOREM SelectionIsShown == Spec => []ShownIsSelected
<1>1. IInv => ShownIsSelected  BY DEF IInv
<1>2. QED  BY <1>1, ViewerInvariant, PTL

\* A running pipeline keeps its refresh timer, which is stopped while its jobs
\* are loaded (_load_jobs, load_pipeline).
THEOREM TimerIsKept == Spec => []AutoRefreshGoesOn /\ []NoTimerDuringLoad
<1>1. IInv => AutoRefreshGoesOn /\ NoTimerDuringLoad  BY DEF IInv
<1>2. QED  BY <1>1, ViewerInvariant, PTL

-----------------------------------------------------------------------------
(* The view behind the screen.                                             *)

\* A step of the screen leaves the view alone; the others are steps of the view.
LEMMA TuiStepIsViewerStep ==
  ASSUME [TuiNext]_tuiVars
  PROVE  [Next]_vars
<1>1. CASE ViewWorks \/ ViewKeys
  BY <1>1 DEF ViewWorks, ViewKeys, Next
<1>2. CASE JobSelected \/ ((CloseDetail \/ DetailWorks \/ DetailKeys) /\ UNCHANGED vars)
  BY <1>2 DEF JobSelected
<1>3. CASE JobRetried
  BY <1>3 DEF JobRetried, Next
<1>4. CASE UNCHANGED tuiVars
  BY <1>4 DEF tuiVars
<1>5. QED  BY <1>1, <1>2, <1>3, <1>4 DEF TuiNext

\* A TUI in which the user opens and closes detail screens and retries jobs there
\* is, for the view, one in which they do not (tui/app.py).
THEOREM ViewerUndisturbed == TuiSpec => ViewerGoesOn
<1>1. TuiInit => Init
  BY DEF TuiInit
<1>2. [TuiNext]_tuiVars => [Next]_vars
  BY TuiStepIsViewerStep
<1>3. QED  BY <1>1, <1>2, PTL DEF TuiSpec, ViewerGoesOn, Spec

\* No late answer replaces the pipeline selected last, whatever happens on the
\* screen above it (load_pipeline).
THEOREM SelectionIsShownInTui == TuiSpec => []ShownIsSelected
<1>1. QED  BY ViewerUndisturbed, SelectionIsShown, PTL DEF ViewerGoesOn

\* A running pipeline is refreshed also while a screen covers it (_load_jobs).
THEOREM TimerIsKeptInTui == TuiSpec => []AutoRefreshGoesOn
<1>1. QED  BY ViewerUndisturbed, TimerIsKept, PTL DEF ViewerGoesOn

-----------------------------------------------------------------------------
(* The screen.                                                             *)

\* A closed screen has no workers and no confirmation; those of an open one are
\* for the job it shows, unless an answer has overtaken another one.
WorkersAreForTheJob ==
    /\ ~open => enriching = 0 /\ fetching = {} /\ named = 0 /\ posting_ = NoPosts
    /\ ~overtaken =>
          /\ open => title = job.id
          /\ pane \in {0, job.id} /\ named \in {0, job.id}
          /\ enriching \in {0, job.id} /\ fetching \subseteq {job.id}

ScreenInv == WorkersAreForTheJob /\ WaitingIsForALog

\* Where the screen starts: closed.
LEMMA ScreenInit == DetailInit => ScreenInv
  BY DEF DetailInit, ScreenInv, WorkersAreForTheJob, WaitingIsForALog

\* Every answer and every key keeps the screen about one job.
LEMMA ScreenNext == ScreenInv /\ [TuiNext]_tuiVars => ScreenInv'
<1> SUFFICES ASSUME ScreenInv, [TuiNext]_tuiVars PROVE ScreenInv'
  OBVIOUS
<1> USE DEF ScreenInv, WorkersAreForTheJob, WaitingIsForALog
<1>1. CASE OpenDetail
  BY <1>1 DEF OpenDetail
<1>2. CASE CloseDetail
  BY <1>2 DEF CloseDetail
<1>3. CASE Enriched \/ EnrichFails
  <2>1. CASE Enriched
    <3>1. /\ job'.id = enriching /\ enriching' = 0
          /\ UNCHANGED <<open, title, pane, waiting, fetching, posting_, named>>
      BY <2>1 DEF Enriched
    <3>2. ~overtaken' => ~overtaken /\ job.id = enriching
      BY <2>1 DEF Enriched
    <3>3. QED  BY <3>1, <3>2
  <2>2. CASE EnrichFails
    BY <2>2 DEF EnrichFails
  <2>3. QED  BY <1>3, <2>1, <2>2
<1>4. CASE \E j \in JobId : LogFetched(j) \/ LogFails(j)
  BY <1>4 DEF LogFetched, LogFails, WaitingEnds
<1>5. CASE \E j \in JobId : DetailRetried(j)
  <2>1. PICK j \in JobId : DetailRetried(j)
    BY <1>5
  <2>2. posting_[j] > 0 /\ open' = open /\ pane' = 0 /\ title' = newest'
        /\ job' = [id |-> newest', failed |-> FALSE]
        /\ fetching' = fetching \cup {newest'}
        /\ overtaken' = (overtaken \/ InProgress)
        /\ enriching' = enriching /\ named' = named
    BY <2>1 DEF DetailRetried, _reset_log_pane
  <2>3. open
    BY <2>2 DEF NoPosts
  <2>4. ~overtaken' => enriching = 0 /\ fetching = {} /\ named = 0
    BY <2>2 DEF InProgress
  <2>5. QED  BY <2>2, <2>3, <2>4
<1>6. CASE \E j \in JobId : DetailRetryFails(j)
  BY <1>6 DEF DetailRetryFails, NoPosts
<1>7. CASE DetailKeys
  BY <1>7 DEF DetailKeys, DetailRetry, DetailDismissed
<1>8. CASE JobRetried \/ UNCHANGED detailVars
  BY <1>8 DEF JobRetried, detailVars
<1>9. QED
  BY <1>1, <1>2, <1>3, <1>4, <1>5, <1>6, <1>7, <1>8
  DEF TuiNext, tuiVars, ViewWorks, ViewKeys, JobSelected, DetailWorks

\* The invariant of the screen.
LEMMA ScreenInvariant == TuiSpec => []ScreenInv
<1>1. TuiInit => ScreenInv
  BY ScreenInit DEF TuiInit
<1>2. ScreenInv /\ [TuiNext]_tuiVars => ScreenInv'
  BY ScreenNext
<1>3. QED  BY <1>1, <1>2, PTL DEF TuiSpec

\* Title, log and confirmation are about one job, over any number of retries and
\* of workers whose answers come in any order (_enrich_job, _fetch_log,
\* _retry_job).
THEOREM ScreenShowsOneJob == TuiSpec => []OneJobOnScreen
<1>1. ScreenInv => OneJobOnScreen
  BY DEF ScreenInv, WorkersAreForTheJob, OneJobOnScreen
<1>2. QED  BY <1>1, ScreenInvariant, PTL

\* The loading indicator never stays behind without a fetch (_fetch_log).
THEOREM WaitingEndsWithTheLog == TuiSpec => []WaitingIsForALog
<1>1. ScreenInv => WaitingIsForALog
  BY DEF ScreenInv
<1>2. QED  BY <1>1, ScreenInvariant, PTL
-----------------------------------------------------------------------------
(* The types of the screen's state.                                        *)

\* No job has more retries on their way than were confirmed.
PostsWereConfirmed == \A j \in JobId : posting_[j] <= posted

\* The types hold where the screen starts.
LEMMA ScreenTypeInit == DetailInit => DetailTypeOK /\ PostsWereConfirmed
<1> SUFFICES ASSUME DetailInit PROVE DetailTypeOK /\ PostsWereConfirmed
  OBVIOUS
<1>1. MaxJobs \in Nat \ {0} /\ MaxPosts \in Nat /\ 1 \in JobId
  BY DetailAssumption DEF JobId
<1>2. posting_ \in [JobId -> 0..MaxPosts] /\ \A j \in JobId : posting_[j] = 0
  BY <1>1 DEF DetailInit, NoPosts
<1>3. 0 \in 0..MaxPosts /\ posted \in 0..MaxPosts /\ posted = 0
  BY <1>1 DEF DetailInit
<1>4. job \in [id : JobId, failed : BOOLEAN]
  BY <1>1 DEF DetailInit
<1>5. DetailTypeOK
  BY <1>1, <1>2, <1>3, <1>4 DEF DetailInit, DetailTypeOK
<1>6. QED
  BY <1>2, <1>3, <1>5 DEF PostsWereConfirmed

\* Opening the screen, closing it, and the answers that do not create a job.
LEMMA AnswersKeepTypes ==
  ASSUME DetailTypeOK, PostsWereConfirmed,
         \/ OpenDetail \/ CloseDetail \/ Enriched \/ EnrichFails \/ DetailRetry
         \/ \E j \in JobId : LogFetched(j) \/ LogFails(j)
  PROVE  DetailTypeOK' /\ PostsWereConfirmed'
<1>1. MaxPosts \in Nat /\ posted \in 0..MaxPosts
  BY DetailAssumption DEF DetailTypeOK
<1>2. CASE OpenDetail
  BY <1>2 DEF OpenDetail, DetailTypeOK, PostsWereConfirmed
<1>3. CASE CloseDetail
  <2>1. posting_' \in [JobId -> 0..MaxPosts] /\ \A j \in JobId : posting_'[j] = 0
    BY <1>1, <1>3 DEF CloseDetail, NoPosts
  <2>2. posted' = posted /\ PostsWereConfirmed'
    BY <1>1, <1>3, <2>1 DEF CloseDetail, PostsWereConfirmed
  <2>3. QED
    BY <1>3, <2>1, <2>2 DEF CloseDetail, DetailTypeOK
<1>4. CASE Enriched
  BY <1>4 DEF Enriched, DetailTypeOK, PostsWereConfirmed
<1>5. CASE EnrichFails
  BY <1>5 DEF EnrichFails, DetailTypeOK, PostsWereConfirmed
<1>6. CASE DetailRetry
  BY <1>6 DEF DetailRetry, DetailTypeOK, PostsWereConfirmed
<1>7. ASSUME NEW j \in JobId, LogFetched(j) \/ LogFails(j)
      PROVE  DetailTypeOK' /\ PostsWereConfirmed'
  BY <1>7 DEF LogFetched, LogFails, WaitingEnds, DetailTypeOK, PostsWereConfirmed
<1>8. QED
  BY <1>2, <1>3, <1>4, <1>5, <1>6, <1>7

\* A confirmed retry and its end.
LEMMA RetriesKeepTypes ==
  ASSUME DetailTypeOK, PostsWereConfirmed,
         \/ \E confirmed \in BOOLEAN : DetailDismissed(confirmed)
         \/ \E j \in JobId : DetailRetried(j) \/ DetailRetryFails(j)
  PROVE  DetailTypeOK' /\ PostsWereConfirmed'
<1>1. /\ MaxPosts \in Nat /\ MaxJobs \in Nat /\ posted \in 0..MaxPosts
      /\ posting_ \in [JobId -> 0..MaxPosts] /\ job.id \in JobId
      /\ \A j \in JobId : posting_[j] <= posted
  BY DetailAssumption DEF DetailTypeOK, PostsWereConfirmed
<1>2. ASSUME NEW confirmed \in BOOLEAN, DetailDismissed(confirmed)
      PROVE  DetailTypeOK' /\ PostsWereConfirmed'
  <2>1. /\ posted' \in 0..MaxPosts /\ posting_' \in [JobId -> 0..MaxPosts]
        /\ \A j \in JobId : posting_'[j] <= posted'
    <3>1. CASE posted' = posted /\ posting_' = posting_
      BY <1>1, <3>1
    <3>2. CASE /\ posted < MaxPosts /\ posted' = posted + 1
               /\ posting_' = [posting_ EXCEPT ![job.id] = @ + 1]
      <4>1. \A j \in JobId : posting_'[j] \in {posting_[j], posting_[j] + 1}
        BY <1>1, <3>2
      <4>2. \A j \in JobId : posting_[j] \in 0..MaxPosts
        BY <1>1
      <4>3. posted' \in 0..MaxPosts
        BY <1>1, <3>2
      <4>4. \A j \in JobId : posting_'[j] <= posted' /\ posting_'[j] \in 0..MaxPosts
        BY <1>1, <3>2, <4>1, <4>2
      <4>5. DOMAIN posting_' = JobId /\ posting_' = [j \in JobId |-> posting_'[j]]
        BY <1>1, <3>2
      <4>6. QED
        BY <4>3, <4>4, <4>5
    <3>3. QED
      BY <1>2, <3>1, <3>2 DEF DetailDismissed
  <2>2. PostsWereConfirmed'
    BY <2>1 DEF PostsWereConfirmed
  <2>3. QED
    BY <1>2, <2>1, <2>2 DEF DetailDismissed, DetailTypeOK
<1>3. ASSUME NEW j \in JobId, DetailRetried(j) \/ DetailRetryFails(j)
      PROVE  DetailTypeOK' /\ PostsWereConfirmed'
  <2>1. posting_[j] > 0 /\ posting_' = [posting_ EXCEPT ![j] = @ - 1] /\ posted' = posted
    BY <1>3 DEF DetailRetried, DetailRetryFails
  <2>2. \A k \in JobId : posting_[k] \in 0..MaxPosts
    BY <1>1
  <2>3. \A k \in JobId : posting_'[k] \in 0..MaxPosts /\ posting_'[k] <= posted
    BY <1>1, <2>1, <2>2
  <2>4. posting_' \in [JobId -> 0..MaxPosts]
    BY <1>1, <2>1, <2>3
  <2>5. CASE DetailRetried(j)
    <3>1. newest' = newest + 1 /\ newest < MaxJobs /\ announced' = announced + 1
      BY <2>5 DEF DetailRetried
    <3>2. newest' \in JobId /\ announced' \in Nat
      BY <1>1, <3>1 DEF DetailTypeOK, JobId
    <3>3. fetching' \subseteq JobId /\ overtaken' \in BOOLEAN
      BY <2>5, <3>2 DEF DetailRetried, InProgress, DetailTypeOK
    <3>4. QED
      BY <2>1, <2>3, <2>4, <2>5, <3>2, <3>3
      DEF DetailRetried, _reset_log_pane, DetailTypeOK, PostsWereConfirmed
  <2>6. CASE DetailRetryFails(j)
    BY <2>1, <2>3, <2>4, <2>6 DEF DetailRetryFails, DetailTypeOK, PostsWereConfirmed
  <2>7. QED
    BY <1>3, <2>5, <2>6
<1>4. QED
  BY <1>2, <1>3

\* Every step of the TUI keeps the types of the screen.
LEMMA ScreenTypeNext ==
  DetailTypeOK /\ PostsWereConfirmed /\ [TuiNext]_tuiVars
     => DetailTypeOK' /\ PostsWereConfirmed'
<1> SUFFICES ASSUME DetailTypeOK, PostsWereConfirmed, [TuiNext]_tuiVars
             PROVE  DetailTypeOK' /\ PostsWereConfirmed'
  OBVIOUS
<1>1. CASE JobSelected \/ CloseDetail \/ DetailWorks \/ DetailKeys
  BY <1>1, AnswersKeepTypes, RetriesKeepTypes DEF JobSelected, DetailWorks, DetailKeys
<1>2. CASE JobRetried
  BY <1>2 DEF JobRetried, DetailTypeOK, PostsWereConfirmed
<1>3. CASE UNCHANGED detailVars
  BY <1>3 DEF detailVars, DetailTypeOK, PostsWereConfirmed
<1>4. QED
  BY <1>1, <1>2, <1>3 DEF TuiNext, tuiVars, ViewWorks, ViewKeys

\* The screen, the view behind it and all of their workers keep their types,
\* however many retries are confirmed on the screen (job_detail.py, app.py).
THEOREM TuiTypeCorrect == TuiSpec => []TuiTypeOK
<1>1. TuiInit => DetailTypeOK /\ PostsWereConfirmed
  BY ScreenTypeInit DEF TuiInit
<1>2. DetailTypeOK /\ PostsWereConfirmed /\ [TuiNext]_tuiVars
         => DetailTypeOK' /\ PostsWereConfirmed'
  BY ScreenTypeNext
<1>3. TypeOK /\ DetailTypeOK => TuiTypeOK
  BY DEF TuiTypeOK
<1>4. QED  BY <1>1, <1>2, <1>3, ViewerUndisturbed, ViewerTypeCorrect, PTL
           DEF TuiSpec, ViewerGoesOn
=============================================================================
