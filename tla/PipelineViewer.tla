---------------------------- MODULE PipelineViewer ----------------------------
(***************************************************************************)
(* The main view of the TUI, tui/app.py PipelineViewer: the pipeline it    *)
(* shows, the list of its jobs, and the workers and the timer that fetch   *)
(* both while the user goes on pressing keys.                              *)
(*                                                                         *)
(* A handler runs to its end, so an action is one handler, or what a       *)
(* worker does after its last await.  The workers of the view are all in   *)
(* one group, and starting an exclusive one cancels the others: see        *)
(* CancelGroup.  What the lists contain, filters and caches are left out.  *)
(***************************************************************************)
EXTENDS Integers

CONSTANTS
    Pipelines,    \* the ids of the pipelines in the side list
    MaxRefreshes, \* bound: refreshes of one pipeline the user starts at a time
    MaxRetries    \* bound: retries the user confirms in a behaviour

ASSUME ViewerAssumption ==
    /\ Pipelines \subseteq Nat \ {0}
    /\ MaxRefreshes \in Nat
    /\ MaxRetries \in Nat

VARIABLES
    pipeline, \* self.pipeline: its id, and its status when it was read
    jobs,     \* the pipeline whose jobs are in the list, 0 when there are none
    loading,  \* the loading indicator is displayed
    listed,   \* the job list is displayed
    updated,  \* _last_updated is set
    subtitle, \* which of its texts sub_title shows
    timer,    \* _refresh_timer is set
    awaited,  \* the pipeline the callback of the timer awaits, or 0
    load,     \* the _load_jobs worker, or NoLoad
    manual,   \* how many _manual_refresh workers await each pipeline
    posting,  \* how many _retry_job workers await their answer
    dialog,   \* the confirmation of a retry is open
    chosen,   \* observer: the pipeline the user selected last
    failed,   \* observer: the last load that ended has failed
    asked,    \* observer: retries the user has confirmed
    told      \* observer: retries whose outcome the user was notified of

viewVars == <<pipeline, jobs, loading, listed, updated, subtitle>>
workVars == <<timer, awaited, load, manual, posting>>
retryVars == <<asked, told>>
vars == <<viewVars, workVars, dialog, chosen, failed, retryVars>>

\* The statuses is_running tells apart.
Statuses == {"running", "ended"}
Shown == [id : Pipelines, status : Statuses]
NoLoad == [pipeline |-> 0, status |-> "ended", keep |-> FALSE]
NoRefreshes == [p \in Pipelines |-> 0]
FirstLoad(p) == [pipeline |-> p.id, status |-> p.status, keep |-> FALSE]

TypeOK ==
    /\ pipeline \in Shown
    /\ jobs \in Pipelines \cup {0}
    /\ loading \in BOOLEAN /\ listed \in BOOLEAN /\ updated \in BOOLEAN
    /\ subtitle \in {"", "refreshing", "auto-refreshing", "last updated"}
    /\ timer \in BOOLEAN /\ awaited \in Pipelines \cup {0}
    /\ load \in [pipeline : Pipelines, status : Statuses, keep : BOOLEAN] \cup {NoLoad}
    /\ manual \in [Pipelines -> Nat]
    /\ posting \in Nat
    /\ dialog \in BOOLEAN /\ failed \in BOOLEAN
    /\ chosen \in Pipelines
    /\ asked \in Nat /\ told \in Nat

-----------------------------------------------------------------------------
(* Loading the jobs of a pipeline.                                         *)

\* Bug: the timer goes on while the new load is on its way.
KeepTimer == UNCHANGED <<timer, awaited>>
\* Timer.stop() cancels the callback it is in the middle of.
StopTimer == timer' = FALSE /\ awaited' = 0

\* Bug: the new worker cancels an earlier _load_jobs, and no other.
CancelLoads == UNCHANGED <<manual, posting>>
\* @work(exclusive=True): _manual_refresh and _retry_job name no group either,
\* so they are in the group whose workers are cancelled.
CancelGroup == manual' = NoRefreshes /\ posting' = 0

load_pipeline(p, keep) ==
    /\ StopTimer
    /\ CancelGroup
    /\ pipeline' = p
    /\ \/ /\ keep /\ jobs # 0
          /\ subtitle' = "refreshing"
          /\ UNCHANGED <<jobs, loading, listed>>
       \/ /\ ~(keep /\ jobs # 0)
          /\ listed' = FALSE /\ jobs' = 0 /\ loading' = TRUE
          /\ UNCHANGED subtitle
    /\ load' = [FirstLoad(p) EXCEPT !.keep = keep]
    /\ UNCHANGED <<updated, failed>>

\* What _update_sub_title shows, given whether _last_updated is set.
SubTitle(isSet) ==
    IF ~isSet THEN "" ELSE IF pipeline.status = "running" THEN "auto-refreshing"
    ELSE "last updated"

\* Bug: a background refresh does not start the timer again.
RearmFirst == timer' = (timer \/ (load.status = "running" /\ ~load.keep))
Rearm == timer' = (timer \/ load.status = "running")

\* _load_jobs has read the jobs; a pipeline may have none yet.
LoadDone ==
    /\ load # NoLoad
    /\ loading' = (load.keep /\ loading)
    /\ listed' = (load.keep => listed)
    /\ jobs' \in {load.pipeline, 0}
    /\ updated' = TRUE
    /\ subtitle' = SubTitle(TRUE)
    /\ Rearm
    /\ load' = NoLoad
    /\ failed' = FALSE
    /\ UNCHANGED <<pipeline, awaited, manual, posting, dialog, chosen, retryVars>>

\* Bug: the text of the refresh stays.
SubTitleKept == UNCHANGED subtitle
SubTitleAfterFailure == subtitle' = SubTitle(updated)

LoadFails ==
    /\ load # NoLoad
    /\ loading' = (load.keep /\ loading)
    /\ SubTitleAfterFailure
    /\ load' = NoLoad
    /\ failed' = TRUE
    /\ UNCHANGED <<pipeline, jobs, listed, updated, timer, awaited, manual,
                   posting, dialog, chosen, retryVars>>

-----------------------------------------------------------------------------
(* Refreshing.  The status of a pipeline is whatever GitLab answers.       *)

Refresh(id) ==
    /\ \E status \in Statuses : load_pipeline([id |-> id, status |-> status], TRUE)
    /\ UNCHANGED <<dialog, chosen, retryVars>>

\* The interval has passed: _do_auto_refresh awaits the pipeline.
TimerFires ==
    /\ timer /\ awaited = 0
    /\ awaited' = pipeline.id
    /\ UNCHANGED <<viewVars, timer, load, manual, posting, dialog, chosen, failed, retryVars>>

AutoRefreshed == awaited # 0 /\ Refresh(awaited)

AutoRefreshFails ==
    /\ awaited # 0
    /\ awaited' = 0
    /\ UNCHANGED <<viewVars, timer, load, manual, posting, dialog, chosen, failed, retryVars>>

\* A call of _manual_refresh(self.pipeline).
StartRefresh == manual' = [manual EXCEPT ![pipeline.id] = @ + 1]

\* ctrl+r
action_refresh ==
    /\ ~dialog
    /\ manual[pipeline.id] < MaxRefreshes
    /\ StartRefresh
    /\ UNCHANGED <<viewVars, timer, awaited, load, posting, dialog, chosen, failed, retryVars>>

\* The job detail screen, open above this one, has retried its job.
on_job_detail_screen_job_retried ==
    /\ manual[pipeline.id] < MaxRefreshes
    /\ StartRefresh
    /\ UNCHANGED <<viewVars, timer, awaited, load, posting, dialog, chosen, failed, retryVars>>

Refreshed(p) == manual[p] > 0 /\ Refresh(p)

RefreshFails(p) ==
    /\ manual[p] > 0
    /\ manual' = [manual EXCEPT ![p] = @ - 1]
    /\ UNCHANGED <<viewVars, timer, awaited, load, posting, dialog, chosen, failed, retryVars>>

-----------------------------------------------------------------------------
(* Selecting a pipeline, retrying a job.                                   *)

\* The row of the side list has the status of when that list was read.
Select(p) ==
    /\ ~dialog
    /\ \E status \in Statuses : load_pipeline([id |-> p, status |-> status], FALSE)
    /\ chosen' = p
    /\ UNCHANGED <<dialog, retryVars>>

action_retry_job ==
    /\ jobs # 0 /\ ~dialog
    /\ dialog' = TRUE
    /\ UNCHANGED <<viewVars, workVars, chosen, failed, retryVars>>

\* The confirmation closes; workers have gone on behind it.
Dismissed(confirmed) ==
    /\ dialog
    /\ dialog' = FALSE
    /\ \/ confirmed /\ asked < MaxRetries /\ asked' = asked + 1 /\ posting' = posting + 1
       \/ ~confirmed /\ UNCHANGED <<asked, posting>>
    /\ UNCHANGED <<viewVars, timer, awaited, load, manual, chosen, failed, told>>

\* Bug: the answer to a request that was cancelled is taken.
RetryAnsweredLate ==
    /\ asked > told
    /\ posting' = posting - 1 /\ told' = told + 1
    /\ UNCHANGED <<viewVars, timer, awaited, load, manual, dialog, chosen, failed, asked>>
\* The new job is announced and asked for, or the error is shown.
RetryAnswered ==
    /\ posting > 0
    /\ posting' = posting - 1
    /\ told' = told + 1
    /\ StartRefresh \/ UNCHANGED manual
    /\ UNCHANGED <<viewVars, timer, awaited, load, dialog, chosen, failed, asked>>

-----------------------------------------------------------------------------
\* on_mount has loaded the pipeline the command line names.
Init ==
    /\ pipeline \in Shown
    /\ jobs = 0 /\ loading = TRUE /\ listed = FALSE
    /\ updated = FALSE /\ subtitle = ""
    /\ timer = FALSE /\ awaited = 0
    /\ load = FirstLoad(pipeline)
    /\ manual = NoRefreshes /\ posting = 0
    /\ dialog = FALSE
    /\ chosen = pipeline.id
    /\ failed = FALSE
    /\ asked = 0 /\ told = 0

LoadEnds == LoadDone \/ LoadFails

Next ==
    \/ LoadEnds
    \/ TimerFires \/ AutoRefreshed \/ AutoRefreshFails
    \/ action_refresh \/ on_job_detail_screen_job_retried
    \/ \E p \in Pipelines : Refreshed(p) \/ RefreshFails(p) \/ Select(p)
    \/ action_retry_job
    \/ \E confirmed \in BOOLEAN : Dismissed(confirmed)
    \/ RetryAnswered

\* Requests time out, so a load ends unless another one replaces it.  The user
\* is not assumed to press any key, but not to replace every load either.
Spec == Init /\ [][Next]_vars /\ WF_vars(LoadEnds)

-----------------------------------------------------------------------------
(* Properties.                                                             *)

\* The view shows the pipeline selected last, and jobs of no other one: the
\* late answer of an auto-refresh, a manual refresh or a load of the pipeline
\* shown before never replaces it (load_pipeline).
ShownIsSelected == pipeline.id = chosen /\ (jobs # 0 => jobs = chosen)

\* A running pipeline whose last load has not failed, and that is not being
\* loaded, has its refresh timer: no interleaving of refreshes, retries and
\* selections loses it (_load_jobs, _do_auto_refresh).
AutoRefreshGoesOn ==
    pipeline.status = "running" /\ load = NoLoad /\ ~failed => timer

\* While jobs are being loaded there is no timer: two loads of auto-refreshes
\* never run into each other (load_pipeline).
NoTimerDuringLoad == load # NoLoad => ~timer /\ awaited = 0

\* The subtitle stops saying that the jobs are being refreshed, also when the
\* refresh fails (_load_jobs, _update_sub_title).
RefreshingEnds == subtitle = "refreshing" ~> subtitle # "refreshing"

\* Every retry the user confirmed is on its way or its outcome was announced
\* (action_retry_job, _retry_job).
RetryIsAnnounced == asked = posting + told

\* Once a load has ended, the jobs it has put in the list are displayed
\* (load_pipeline, _load_jobs).
JobsAreDisplayed == load = NoLoad /\ jobs # 0 => listed
=============================================================================
