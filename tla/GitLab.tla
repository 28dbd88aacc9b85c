------------------------------- MODULE GitLab -------------------------------
(***************************************************************************)
(* The GitLab server as ddgl's code uses it: EXTERNAL to src/, so it is    *)
(* modelled from the requests client.py sends and from what the comments   *)
(* of core/attach.py and core/retry.py say of the answers.                 *)
(*                                                                         *)
(* A pipeline is an index of pstat.  A job record is an index of recs;     *)
(* ids grow with creation, which is what AttemptTally.is_newest and the    *)
(* follow check's max() compare.  Retrying a record mints a new record of  *)
(* the same name, and the normal job list hides the superseded one.        *)
(***************************************************************************)
EXTENDS Integers, Sequences, FiniteSets

CONSTANTS
    JobNames,     \* the job names of every pipeline, in creation order
    AllowFailure, \* the names whose failure does not fail the pipeline
    Endings,      \* the statuses in which a job may finish
    PageSize,     \* records per page of a job listing (100 in the code)
    Modes,        \* how GitLab may behave: calm, prompt, lagging, lossy
    MaxPipelines, \* bound on the pipelines of the ref
    MaxRecords    \* bound on the job records of all pipelines

VARIABLES
    recs,  \* every job record ever created; its index is its id
    pstat, \* the status GitLab reports for each pipeline
    green, \* the pipelines that have been success at some time
    mode   \* one of Modes, fixed in a behaviour

gitlabVars == <<recs, pstat, green, mode>>

\* calm: nobody but ddgl retries jobs.  In every other mode GitLab's retry:
\* keyword and humans do.  lagging: an accepted retry and a status change take
\* time to show in the answers.  lossy: besides, an error status may be the
\* answer to a request that was served (a 502 on the way back).
Others == mode # "calm"
Prompt == mode \in {"calm", "prompt"}
Truthful == mode # "lossy"

JobFinal == {"success", "failed", "canceled"}
JobStatus == JobFinal \cup {"active"}
Finished == {"success", "failed", "canceled"}   \* PIPELINE_FINISHED
PipelineStatus == Finished \cup {"running"}
Name == {JobNames[i] : i \in DOMAIN JobNames}

ASSUME GitLabAssumption ==
    /\ JobNames \in Seq(STRING)
    /\ AllowFailure \subseteq Name
    /\ Endings \subseteq JobFinal
    /\ PageSize \in Nat \ {0}
    /\ Modes \subseteq {"calm", "prompt", "lagging", "lossy"}
    /\ MaxPipelines \in Nat
    /\ MaxRecords \in Nat

\* by: the ddgl run that minted the record, 0 when ddgl did not.
\* of: the record it retries, 0 for a first attempt.
\* seen: FALSE while an accepted retry is not yet in GitLab's read answers.
Record == [pipe : Nat \ {0}, name : Name, status : JobStatus,
           by : Nat, of : Nat, seen : BOOLEAN]

NewRecord(p, n, run, r, visible) ==
    [pipe |-> p, name |-> n, status |-> "active",
     by |-> run, of |-> r, seen |-> visible]

-----------------------------------------------------------------------------
(* What GitLab's read endpoints answer.                                    *)

\* include_retried=true: every visible record of the pipeline.
Attempts(rs, p) == {r \in DOMAIN rs : rs[r].pipe = p /\ rs[r].seen}

\* The normal job list: the newest visible record of each name.
Live(rs, p) ==
    {r \in Attempts(rs, p) :
        \A s \in Attempts(rs, p) : rs[s].name = rs[r].name => s <= r}

\* The pipeline status GitLab derives from the live records.
Verdict(rs, p) ==
    LET statuses == {rs[r].status : r \in Live(rs, p)}
        blocking == {r \in Live(rs, p) :
                        rs[r].status = "failed" /\ rs[r].name \notin AllowFailure}
    IN  IF "active" \in statuses THEN "running"
        ELSE IF blocking # {} THEN "failed"
        ELSE IF "canceled" \in statuses THEN "canceled"
        ELSE "success"

\* One element of a job listing: the record's status as of the read, and the
\* page it arrived on.  Listings are newest id first, so the code's list order
\* is page by page, larger ids first.
Entry == [id : Nat \ {0}, st : JobStatus, page : Nat \ {0}]

Before(e, f) == \/ e.page < f.page
                \/ e.page = f.page /\ e.id > f.id

\* The newest k records of S, and the rows of the pages S takes up.
Newest(S, k) == {r \in S : Cardinality({s \in S : s > r}) < k}
FirstPage(S) == Newest(S, PageSize)
RowsOfPages(S) == PageSize * ((Cardinality(S) + PageSize - 1) \div PageSize)

Rows(rs, S, k) == {[id |-> r, st |-> rs[r].status, page |-> k] : r \in S}

-----------------------------------------------------------------------------
(* What happens on the server side.                                        *)

Report(ps) ==
    /\ pstat' = ps
    /\ green' = green \cup {p \in DOMAIN ps : ps[p] = "success"}

\* A change of the records; the pipeline statuses follow at once when GitLab
\* is prompt, and through UpdateStatus otherwise.
Change(rs) ==
    /\ recs' = rs
    /\ Report(IF Prompt THEN [p \in DOMAIN pstat |-> Verdict(rs, p)] ELSE pstat)
    /\ UNCHANGED mode

CreatePipeline ==
    /\ Len(pstat) < MaxPipelines
    /\ Len(recs) + Len(JobNames) <= MaxRecords
    /\ Report(Append(pstat, "running"))
    /\ recs' = recs \o [i \in DOMAIN JobNames |->
                           NewRecord(Len(pstat) + 1, JobNames[i], 0, 0, TRUE)]
    /\ UNCHANGED mode

JobFinishes(r) ==
    /\ recs[r].status = "active"
    /\ recs[r].seen
    /\ \E s \in Endings : Change([recs EXCEPT ![r].status = s])

\* A retry that is not this program's: GitLab's own, or a human's.
OtherRetry(r) ==
    /\ Others
    /\ recs[r].status \in {"failed", "canceled"}
    /\ r \in Live(recs, recs[r].pipe)
    /\ Len(recs) < MaxRecords
    /\ Change(Append(recs, NewRecord(recs[r].pipe, recs[r].name, 0, r, TRUE)))

Publish(r) ==
    /\ ~recs[r].seen
    /\ Change([recs EXCEPT ![r].seen = TRUE])

UpdateStatus(p) ==
    /\ pstat[p] # Verdict(recs, p)
    /\ Report([pstat EXCEPT ![p] = Verdict(recs, p)])
    /\ UNCHANGED <<recs, mode>>

\* POST /jobs/:id/retry accepted: the replacement of r exists from here on.
Mint(r, run) ==
    /\ Len(recs) < MaxRecords
    /\ \E visible \in (IF Prompt THEN {TRUE} ELSE BOOLEAN) :
          Change(Append(recs,
                        NewRecord(recs[r].pipe, recs[r].name, run, r, visible)))

GitLabInit == recs = <<>> /\ pstat = <<>> /\ green = {} /\ mode \in Modes

GitLabNext ==
    \/ CreatePipeline
    \/ \E r \in DOMAIN recs : JobFinishes(r) \/ OtherRetry(r) \/ Publish(r)
    \/ \E p \in DOMAIN pstat : UpdateStatus(p)

GitLabTypeOK ==
    /\ recs \in Seq(Record)
    /\ pstat \in Seq(PipelineStatus)
    /\ green \subseteq DOMAIN pstat
    /\ mode \in Modes
=============================================================================
