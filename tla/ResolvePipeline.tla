--------------------------- MODULE ResolvePipeline ---------------------------
(***************************************************************************)
(* core/pipeline.py with git.py: from what the user asks for to a pipeline.*)
(*                                                                         *)
(* The history is one line of commits, the parent of c being c - 1.  The   *)
(* current branch is topic; pipelines are built for topic or for another   *)
(* ref (a merge request's).  The clone knows topic and the default branch  *)
(* (origin/HEAD) as of its last fetch.  GitLab answers a listing of        *)
(* pipelines by ref name and, as the walk over the history supposes, by    *)
(* sha.  The object cache only decides whether get_pipeline sends a        *)
(* request, and is left out.                                               *)
(***************************************************************************)
EXTENDS GitLab, LoadConfig

CONSTANTS
    LastCommit, \* bound: length of the history
    Situations  \* what a command may be asked for, and in which clone

ASSUME LastCommitAssumption == LastCommit \in Nat \ {0}

VARIABLES
    builds,    \* GitLab: the ref and the commit of each pipeline
    clone,     \* branch: the current one, none outside of a repository; topic,
               \* head: where origin/topic and origin/HEAD point, 0 if not fetched
    ask,       \* what the command is asked for
    phase,     \* where the command is
    queue,     \* the commits still to ask for, nearest first
    chosen,    \* the pipeline found, 0 before
    listings,  \* API cache: the answers to listings of pipelines
    before,    \* observer: how many pipelines there were at the start
    usedCache  \* observer: a listing of pipelines came from the cache

resolveVars == <<clone, ask, phase, queue, chosen, listings, before, usedCache>>

Commit == 1..LastCommit
Busy == {"resolving", "walking", "listing", "awaiting"}

\* A ref: the name of a branch, that of a remote-tracking branch, or a sha.
Ref == [kind : {"branch", "remote", "HEAD"}, commit : {0}]
       \cup [kind : {"sha"}, commit : Commit]
NoRef == [kind |-> "none", commit |-> 0]
Sha(c) == [kind |-> "sha", commit |-> c]

\* ref: --ref.  pipeline: --pipeline.  job: --job.  0 and NoRef: not given.
\* depth: --depth.  failedOnly, withAllowed: the job filters.
Ask == [ref : Ref \cup {NoRef}, pipeline : Nat, job : Nat, depth : Nat,
        failedOnly : BOOLEAN, withAllowed : BOOLEAN]

Clone == [branch : {"branch", "HEAD", "none"}, topic : 0..LastCommit, head : 0..LastCommit]

ASSUME SituationsAssumption == Situations \subseteq [ask : Ask, clone : Clone]

\* An auto-detected ref: git rev-parse says HEAD when no branch is checked out.
get_current_branch == [kind |-> clone.branch, commit |-> 0]
IsExplicit == ask.ref # NoRef
RefAsked == IF IsExplicit THEN ask.ref ELSE get_current_branch

\* Bug: an explicit ref is walked back from like the current branch.
UncappedDepth == ask.depth
\* resolve_pipeline: an explicit ref is not walked back from.
Depth == IF IsExplicit /\ ask.depth > 1 THEN 1 ELSE ask.depth

\* _fallback_revision and get_recent_shas; no commits if git does not know it.
Revision(ref) ==
    CASE ref.kind = "sha" -> ref.commit
      [] ref.kind \in {"branch", "remote"} -> clone.topic
      [] ref.kind = "HEAD" -> clone.head

get_recent_shas(ref) ==
    LET tip == Revision(ref)
        length == IF Depth < tip THEN Depth ELSE tip
    IN  [i \in 1..length |-> tip + 1 - i]

\* The pipelines GitLab lists for a ref.
Lists(ref, build) ==
    CASE ref.kind = "branch" -> build.ref = "topic"
      [] ref.kind = "sha" -> build.sha = ref.commit
      [] OTHER -> FALSE
PipelinesOf(ref) == {p \in DOMAIN builds : Lists(ref, builds[p])}

\* A cache in which value is set for key.
CacheSet(cache, key, value) ==
    [k \in DOMAIN cache \cup {key} |-> IF k = key THEN value ELSE cache[k]]

\* list_pipelines, over the cached answers.
IsListed(ref) == ref \in DOMAIN listings
list_pipelines(ref, found) ==
    \/ IsListed(ref) /\ found = listings[ref]
       /\ usedCache' = TRUE /\ UNCHANGED listings
    \/ ~IsListed(ref) /\ found = PipelinesOf(ref)
       /\ listings' = CacheSet(listings, ref, found)
       /\ UNCHANGED usedCache

Answer(ref) == IF IsListed(ref) THEN listings[ref] ELSE PipelinesOf(ref)

Found(p) == chosen' = p /\ phase' = "listing"

\* Bug: the first one of the answer, oldest first.
Oldest(S) == Min(S)
Latest(S) == Max(S)

-----------------------------------------------------------------------------
(* The command's way to its pipeline.                                      *)

\* resolve_pipeline with an id: the pipeline exists, or the command fails.
ResolveById ==
    /\ phase = "resolving" /\ ask.pipeline \in DOMAIN builds
    /\ Found(ask.pipeline)
    /\ UNCHANGED <<clone, ask, queue, listings, before, usedCache>>

\* find_latest_pipeline: the ref by its name.
AskForRef ==
    /\ phase = "resolving" /\ ask.pipeline = 0
    /\ RefAsked.kind # "none"
    /\ LET found == Answer(RefAsked) IN
       /\ list_pipelines(RefAsked, found)
       /\ IF found # {} THEN Found(Latest(found)) /\ UNCHANGED queue
          ELSE /\ queue' = get_recent_shas(RefAsked)
               /\ phase' = "walking" /\ UNCHANGED chosen
    /\ UNCHANGED <<clone, ask, before>>

\* Then its commits, one by one.
AskForCommit ==
    /\ phase = "walking" /\ queue # <<>>
    /\ queue' = Tail(queue)
    /\ LET found == Answer(Sha(Head(queue))) IN
       /\ list_pipelines(Sha(Head(queue)), found)
       /\ IF found # {} THEN Found(Latest(found))
          ELSE UNCHANGED <<phase, chosen>>
    /\ UNCHANGED <<clone, ask, before>>

\* NoPipelineFoundError
NothingFound == phase = "walking" /\ queue = <<>>

\* GitLab builds a pipeline.  One that is built later than that is found too
\* late to matter.
Build ==
    /\ phase \notin {"listing", "awaiting"}
    /\ CreatePipeline
    /\ \E r \in {"topic", "merge request"}, c \in Commit :
          builds' = Append(builds, [ref |-> r, sha |-> c])

ResolveInit ==
    /\ builds = <<>>
    /\ \E w \in Situations : ask = w.ask /\ clone = w.clone
    /\ phase = "idle" /\ queue = <<>> /\ chosen = 0
    /\ listings = <<>> /\ before = 0 /\ usedCache = FALSE

ResolveTypeOK ==
    /\ DOMAIN builds = DOMAIN pstat
    /\ clone \in Clone /\ ask \in Ask
    /\ phase \in Busy \cup {"idle"}
    /\ queue \in Seq(Commit)
    /\ chosen \in DOMAIN builds \cup {0} /\ before \in 0..Len(builds)
    /\ DOMAIN listings \subseteq Ref
    /\ usedCache \in BOOLEAN

\* How far from what was asked for a pipeline is: 0 for one of the ref, k for
\* one of the k-th commit behind it; Far if it must not be taken.
Far == LastCommit + 1
Distance(p) ==
    LET tip == Revision(RefAsked)
        allowed == IF ask.ref = NoRef THEN ask.depth
                   ELSE CHOOSE d \in {0, 1} : d = 1 <=> ask.depth > 0
    IN  CASE Lists(RefAsked, builds[p]) -> 0
          [] OTHER -> IF \E k \in 1..allowed : builds[p].sha = tip + 1 - k
                      THEN tip + 1 - builds[p].sha ELSE Far

\* The pipeline found is the one meant: nothing that existed when the command
\* started is nearer to what was asked for, or as near and newer, and nothing
\* that is out of reach is taken.  When nothing is found there was nothing.
\* (resolve_pipeline, find_latest_pipeline, while pipelines are being built.)
NearestPipeline ==
    (/\ phase = "listing" \/ NothingFound
     /\ ask.pipeline = 0 /\ ~usedCache) =>
        /\ chosen # 0 => Distance(chosen) # Far
        /\ \A p \in 1..before : Distance(p) # Far =>
              /\ chosen # 0
              /\ \/ Distance(chosen) < Distance(p)
                 \/ Distance(chosen) = Distance(p) /\ chosen >= p
=============================================================================
