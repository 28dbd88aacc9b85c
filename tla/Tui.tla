--------------------------------- MODULE Tui ---------------------------------
(***************************************************************************)
(* The TUI: the main view (PipelineViewer) and, above it, the detail screen *)
(* of a job (JobDetail).  The view's workers and timer go on below the      *)
(* screen, which takes all of its keys but ctrl+r; a confirmation takes all *)
(* keys.  A retry on the screen is announced to the view by a message.      *)
(***************************************************************************)
EXTENDS PipelineViewer, JobDetail

tuiVars == <<vars, detailVars>>

\* tui/app.py, below whatever screen is on top.
ViewWorks ==
    /\ \/ LoadEnds
       \/ TimerFires \/ AutoRefreshed \/ AutoRefreshFails
       \/ \E p \in Pipelines : Refreshed(p) \/ RefreshFails(p)
       \/ RetryAnswered
    /\ UNCHANGED detailVars

ViewKeys ==
    /\ \/ ~open /\ \E p \in Pipelines : Select(p)
       \/ ~open /\ action_retry_job
       \/ \E confirmed \in BOOLEAN : Dismissed(confirmed)
       \/ named = 0 /\ action_refresh
    /\ UNCHANGED detailVars

\* Bug: the timer is stopped for as long as the screen is open.
PausesRefresh ==
    /\ listed /\ jobs # 0 /\ ~dialog
    /\ OpenDetail
    /\ StopTimer
    /\ UNCHANGED <<viewVars, load, manual, posting, dialog, chosen, failed, retryVars>>
\* on_job_list_panel_job_selected
JobSelected ==
    /\ listed /\ jobs # 0 /\ ~dialog
    /\ OpenDetail
    /\ UNCHANGED vars

JobRetried ==
    /\ announced > 0
    /\ announced' = announced - 1
    /\ on_job_detail_screen_job_retried
    /\ UNCHANGED <<open, job, title, pane, waiting, enriching, fetching, posting_,
                   named, newest, posted, overtaken>>

TuiInit == Init /\ DetailInit

TuiNext ==
    \/ ViewWorks \/ ViewKeys
    \/ JobSelected \/ JobRetried
    \/ (CloseDetail \/ DetailWorks \/ DetailKeys) /\ UNCHANGED vars

TuiSpec == TuiInit /\ [][TuiNext]_tuiVars /\ WF_vars(LoadEnds)

-----------------------------------------------------------------------------
TuiTypeOK == TypeOK /\ DetailTypeOK

\* The view behind the screen behaves as the view alone, so that what is proved
\* of PipelineViewer holds in the TUI: a step of the screen leaves the view alone,
\* and a message to it is one of its own handlers.
ViewerGoesOn == Spec
=============================================================================
