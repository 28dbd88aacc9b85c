------------------------------ MODULE JobDetail ------------------------------
(***************************************************************************)
(* The job detail screen of the TUI, tui/screens/job_detail.py: the job it *)
(* shows, the pane with its log, and the three workers that fetch both and *)
(* retry the job.  None of them is exclusive, so their answers arrive in   *)
(* any order; closing the screen cancels them.  Searching and folding the  *)
(* log are left out.                                                       *)
(***************************************************************************)
EXTENDS Integers, FiniteSets

CONSTANTS
    MaxJobs,  \* bound: the job on the screen and those its retries create
    MaxPosts  \* bound: retries the user confirms on the screen

ASSUME DetailAssumption == MaxJobs \in Nat \ {0} /\ MaxPosts \in Nat

VARIABLES
    open,      \* the screen is on the stack
    job,       \* self._job: its id, and whether it is retryable
    title,     \* the id in the title
    pane,      \* the job whose log is in the log pane, or 0
    waiting,   \* the log's loading indicator is displayed
    enriching, \* the job the _enrich_job worker awaits, or 0
    fetching,  \* the jobs whose logs _fetch_log workers await
    posting_,  \* the jobs whose retries _retry_job workers await
    named,     \* the job the confirmation of a retry names, or 0
    announced, \* JobRetried messages on their way to the view
    newest,    \* the newest job in GitLab; ids grow with creation
    posted,    \* observer: the retries confirmed on the screen
    overtaken  \* observer: the job changed under a worker or the confirmation

detailVars == <<open, job, title, pane, waiting, enriching, fetching, posting_,
                named, announced, newest, posted, overtaken>>

JobId == 1..MaxJobs
NoPosts == [j \in JobId |-> 0]

DetailTypeOK ==
    /\ open \in BOOLEAN
    /\ job \in [id : JobId, failed : BOOLEAN]
    /\ title \in JobId /\ pane \in JobId \cup {0} /\ waiting \in BOOLEAN
    /\ enriching \in JobId \cup {0} /\ fetching \subseteq JobId
    /\ posting_ \in [JobId -> 0..MaxPosts]
    /\ named \in JobId \cup {0}
    /\ announced \in Nat /\ newest \in JobId /\ posted \in 0..MaxPosts
    /\ overtaken \in BOOLEAN

\* A worker or the confirmation was started for the job that is shown.
InProgress == enriching # 0 \/ fetching # {} \/ named # 0

-----------------------------------------------------------------------------
\* on_mount: the row of the list that was selected.
OpenDetail ==
    /\ ~open
    /\ open' = TRUE
    /\ job' \in [id : {newest}, failed : BOOLEAN]
    /\ title' = newest /\ pane' = 0 /\ waiting' = TRUE
    /\ enriching' = newest /\ fetching' = {newest}
    /\ overtaken' = FALSE
    /\ UNCHANGED <<posting_, named, announced, newest, posted>>

\* app.pop_screen cancels the workers of the screen.
CloseDetail ==
    /\ open /\ named = 0
    /\ open' = FALSE
    /\ enriching' = 0 /\ fetching' = {} /\ posting_' = NoPosts
    /\ waiting' = FALSE /\ pane' = 0
    /\ UNCHANGED <<job, title, named, announced, newest, posted, overtaken>>

\* _enrich_job.  The answer may be a cached one.
Enriched ==
    /\ enriching # 0
    /\ job' \in [id : {enriching}, failed : BOOLEAN]
    /\ enriching' = 0
    /\ overtaken' = (overtaken \/ (job.id # enriching))
    /\ UNCHANGED <<open, title, pane, waiting, fetching, posting_, named,
                   announced, newest, posted>>

EnrichFails ==
    /\ enriching # 0
    /\ enriching' = 0
    /\ UNCHANGED <<open, job, title, pane, waiting, fetching, posting_, named,
                   announced, newest, posted, overtaken>>

\* Bug: an error leaves the loading indicator.
WaitingKept(j) == waiting' = waiting
\* The last lines of _fetch_log.
WaitingEnds(j) == waiting' = FALSE

\* _fetch_log: the log, or an error below what the pane shows.
LogFetched(j) ==
    /\ j \in fetching
    /\ fetching' = fetching \ {j}
    /\ pane' = j
    /\ waiting' = FALSE
    /\ UNCHANGED <<open, job, title, enriching, posting_, named, announced,
                   newest, posted, overtaken>>

LogFails(j) ==
    /\ j \in fetching
    /\ fetching' = fetching \ {j}
    /\ WaitingEnds(j)
    /\ UNCHANGED <<open, job, title, pane, enriching, posting_, named, announced,
                   newest, posted, overtaken>>

-----------------------------------------------------------------------------
(* Retrying the job.                                                       *)

DetailRetry ==
    /\ open /\ named = 0 /\ job.failed
    /\ named' = job.id
    /\ UNCHANGED <<open, job, title, pane, waiting, enriching, fetching, posting_,
                   announced, newest, posted, overtaken>>

\* The POST is for the job that is shown when the confirmation closes.
DetailDismissed(confirmed) ==
    /\ named # 0
    /\ named' = 0
    /\ \/ confirmed /\ posted < MaxPosts /\ posted' = posted + 1
          /\ posting_' = [posting_ EXCEPT ![job.id] = @ + 1]
       \/ ~confirmed /\ UNCHANGED <<posted, posting_>>
    /\ UNCHANGED <<open, job, title, pane, waiting, enriching, fetching, announced,
                   newest, overtaken>>

\* Bug: the pane goes on showing the log it has.
PaneKept == UNCHANGED <<pane, waiting>>
\* _reset_log_pane
_reset_log_pane == pane' = 0 /\ waiting' = TRUE

\* The new job takes the place of the old one, and its log is fetched.
DetailRetried(j) ==
    /\ posting_[j] > 0 /\ newest < MaxJobs
    /\ posting_' = [posting_ EXCEPT ![j] = @ - 1]
    /\ newest' = newest + 1
    /\ job' = [id |-> newest', failed |-> FALSE] /\ title' = newest'
    /\ _reset_log_pane
    /\ fetching' = fetching \cup {newest'}
    /\ announced' = announced + 1
    /\ overtaken' = (overtaken \/ InProgress)
    /\ UNCHANGED <<open, enriching, named, posted>>

DetailRetryFails(j) ==
    /\ posting_[j] > 0
    /\ posting_' = [posting_ EXCEPT ![j] = @ - 1]
    /\ UNCHANGED <<open, job, title, pane, waiting, enriching, fetching, named,
                   announced, newest, posted, overtaken>>

-----------------------------------------------------------------------------
DetailInit ==
    /\ open = FALSE
    /\ job = [id |-> 1, failed |-> FALSE] /\ title = 1 /\ pane = 0 /\ waiting = FALSE
    /\ enriching = 0 /\ fetching = {} /\ posting_ = NoPosts
    /\ named = 0 /\ announced = 0 /\ newest = 1 /\ posted = 0 /\ overtaken = FALSE

\* What happens on the screen by itself, and what the user does there.
DetailWorks ==
    \/ Enriched \/ EnrichFails
    \/ \E j \in JobId : LogFetched(j) \/ LogFails(j) \/ DetailRetried(j) \/ DetailRetryFails(j)
DetailKeys == DetailRetry \/ \E confirmed \in BOOLEAN : DetailDismissed(confirmed)

-----------------------------------------------------------------------------
(* Properties.                                                             *)

\* Unless an answer has overtaken another one, everything on the screen is about
\* one job: the title, the log, and what the confirmation is about to retry, over
\* any number of retries (_retry_job, _reset_log_pane).
OneJobOnScreen ==
    open /\ ~overtaken =>
       /\ title = job.id
       /\ pane \in {0, job.id}
       /\ named \in {0, job.id}

\* The loading indicator is displayed only while a log is on its way, whether
\* fetches fail, are overtaken or are cancelled with the screen (_fetch_log).
WaitingIsForALog == waiting => fetching # {}
=============================================================================
