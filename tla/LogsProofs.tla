----------------------------- MODULE LogsProofs -----------------------------
(***************************************************************************)
(* ddgl logs, for every number of jobs, records, pages, commits and runs,  *)
(* and every environment and question: its state keeps its types, a token  *)
(* of the environment is not kept, a stored log is whole, the pipeline     *)
(* found is the nearest one, and no match of the listing is lost.          *)
(*                                                                         *)
(* Each invariant is strengthened by what the command holds on the way to  *)
(* it: the tasks for the logs, the queue and the commits already asked for *)
(* for the pipeline, the rows that are newer than a match for the listing. *)
(***************************************************************************)
EXTENDS LogsCommand, GitLabProofs, WellFoundedInduction

\* The latest one of some pipelines is one of them, and none is later.
LEMMA LatestIsLast ==
  ASSUME NEW n \in Nat, NEW S \in SUBSET (1 .. n), S # {}
  PROVE  Latest(S) \in S /\ \A y \in S : y <= Latest(S)
<1> DEFINE T == {n - s : s \in S}
<1>1. T \in SUBSET Nat /\ T # {}
  OBVIOUS
<1> HIDE DEF T
<1>2. PICK t \in T : \A u \in T : ~(<<u, t>> \in OpToRel(<, Nat))
  BY <1>1, NatLessThanWellFounded, WFMin
<1>3. \A u \in T : ~(u < t)
  BY <1>1, <1>2 DEF OpToRel
<1>4. PICK s \in S : t = n - s
  BY DEF T
<1>5. ASSUME NEW y \in S
      PROVE  s >= y /\ y <= s
  <2>1. n - y \in T
    BY DEF T
  <2>2. ~(n - y < n - s)
    BY <1>3, <1>4, <2>1
  <2>3. QED  BY <2>2
<1>6. Latest(S) = CHOOSE x \in S : \A y \in S : x >= y
  BY DEF Latest, Max
<1>7. Latest(S) \in S /\ \A y \in S : Latest(S) >= y
  BY <1>5, <1>6
<1>8. QED  BY <1>7

-----------------------------------------------------------------------------
(* The types, and what they rest on.                                       *)

Builds == [ref : {"topic", "merge request"}, sha : Commit]

\* A cached answer lists pipelines that exist.
BuildsOK ==
    /\ builds \in Seq(Builds)
    /\ \A ref \in DOMAIN listings : listings[ref] \subseteq DOMAIN builds

\* There are tasks only from the listing on, and a pipeline before that.
PhaseOK ==
    /\ phase \notin {"listing", "awaiting"} => tasks = <<>> /\ page = 1
    /\ phase \in {"resolving", "walking"} => chosen = 0
    /\ phase = "listing" => chosen # 0
    /\ page > 0

\* A cached row is one of a record; a stored log is whole or of a chatty job.
CachesOK ==
    /\ \A k \in DOMAIN pages : \A e \in pages[k] : e.id \in DOMAIN recs
    /\ \A r \in DOMAIN logCache : recs[r].name \in Chatty \/ logCache[r] = "whole"

\* A task is one of a record, and has a text when it is done.
TasksOK ==
    \A i \in DOMAIN tasks :
        /\ tasks[i].job \in DOMAIN recs
        /\ tasks[i].st = "done" => tasks[i].text \in Text

LogsTypeInv == TypeOK /\ BuildsOK /\ PhaseOK /\ CachesOK /\ TasksOK

\* The initial state has the types.
LEMMA LogsInitTypes == Init => LogsTypeInv
<1> SUFFICES ASSUME Init PROVE LogsTypeInv
  OBVIOUS
<1>1. GitLabTypeOK
  BY EmptySeq DEF Init, GitLabInit, GitLabTypeOK
<1>2. ConfigTypeOK
  BY DEF Init, ConfigInit, ConfigTypeOK, Source
<1>3. ResolveTypeOK
  <2>1. ask \in Ask /\ clone \in Clone
    BY SituationsAssumption DEF Init, ResolveInit
  <2>2. builds = <<>> /\ pstat = <<>> /\ queue = <<>> /\ listings = <<>>
    BY DEF Init, ResolveInit, GitLabInit
  <2>3. queue \in Seq(Commit) /\ DOMAIN builds = DOMAIN pstat /\ Len(builds) = 0
    BY <2>2, EmptySeq
  <2>4. DOMAIN listings = {}
    BY <2>2
  <2>5. before \in 0 .. Len(builds)
    BY <2>3 DEF Init, ResolveInit
  <2>8. usedCache \in BOOLEAN
    BY DEF Init, ResolveInit
  <2>6. phase \in Busy \cup {"idle"} /\ chosen \in DOMAIN builds \cup {0}
    BY DEF Init, ResolveInit
  <2>7. QED  BY <2>1, <2>3, <2>4, <2>5, <2>6, <2>8 DEF ResolveTypeOK
<1>4. tasks = <<>> /\ tasks \in Seq(Task) /\ DOMAIN tasks = {}
  BY EmptySeq DEF Init
<1>5. DOMAIN logCache = {} /\ DOMAIN pages = {} /\ DOMAIN results = {}
  BY DEF Init, NoLogs
<1>6. TypeOK
  <2>1. page \in Nat /\ runs \in 0 .. MaxRuns
    BY LogsAssumption DEF Init
  <2>4. usedPages \in BOOLEAN
    BY DEF Init
  <2>2. /\ outcome \in {"none", "logs", "empty", "error"}
        /\ outcome # "none" => phase = "idle"
        /\ ended \cup matched \subseteq DOMAIN recs
    BY DEF Init
  <2>3. QED  BY <1>1, <1>2, <1>3, <1>4, <1>5, <2>1, <2>2, <2>4 DEF TypeOK
<1>7. BuildsOK
  BY EmptySeq DEF Init, ResolveInit, BuildsOK
<1>8. PhaseOK
  BY DEF Init, ResolveInit, PhaseOK
<1>9. QED  BY <1>4, <1>5, <1>6, <1>7, <1>8 DEF LogsTypeInv, CachesOK, TasksOK

\* A token that is found has a source, and so has the one that is cached.
LEMMA TokenTypes ==
  ASSUME ConfigTypeOK, NEW s \in Setups
  PROVE  /\ _resolve_token(s) \in Source
         /\ TokenCached(_resolve_token(s)) \in Source
         /\ s.env \in BOOLEAN
<1>1. s.env \in BOOLEAN
  BY SetupsAssumption DEF IsSetup
<1>2. _resolve_token(s) \in Source
  BY <1>1 DEF ConfigTypeOK, _resolve_token, FromConfigFile, Source
<1>3. QED  BY <1>1, <1>2 DEF TokenCached, ConfigTypeOK, Source

\* A run that begins keeps the types,
LEMMA RunStartsKeepsTypes ==
  ASSUME LogsTypeInv, NEW s \in Setups, RunStarts(s)
  PROVE  LogsTypeInv'
<1>1. GitLabTypeOK' /\ recs' = recs /\ pstat' = pstat /\ builds' = builds
  BY DEF LogsTypeInv, TypeOK, RunStarts, gitlabVars, GitLabTypeOK
<1>2. ConfigTypeOK'
  BY TokenTypes DEF LogsTypeInv, TypeOK, RunStarts, load_config, ConfigTypeOK
<1>3. ResolveTypeOK'
  <2>1. Len(builds) \in Nat
    BY LenProperties DEF LogsTypeInv, BuildsOK
  <2>2. before' \in 0 .. Len(builds)
    BY <2>1 DEF RunStarts
  <2>5. usedCache' \in BOOLEAN
    BY DEF RunStarts
  <2>3. /\ UNCHANGED <<clone, ask, queue, listings>>
        /\ phase' = "resolving" /\ chosen' = 0
    BY DEF RunStarts
  <2>4. QED
    BY <1>1, <2>2, <2>3, <2>5 DEF LogsTypeInv, TypeOK, ResolveTypeOK, Busy
<1>4. TypeOK'
  <2>1. runs' \in 0 .. MaxRuns
    BY LogsAssumption DEF LogsTypeInv, TypeOK, RunStarts
  <2>4. usedPages' \in BOOLEAN
    BY DEF RunStarts
  <2>2. /\ UNCHANGED <<logCache, pages, page, tasks>>
        /\ outcome' = "none" /\ results' = <<>>
        /\ ended' \cup matched' \subseteq DOMAIN recs
    BY DEF RunStarts, NoLogs
  <2>3. QED
    BY <1>1, <1>2, <1>3, <2>1, <2>2, <2>4 DEF LogsTypeInv, TypeOK
<1>5. BuildsOK' /\ PhaseOK' /\ CachesOK' /\ TasksOK'
  BY <1>1 DEF LogsTypeInv, BuildsOK, PhaseOK, CachesOK, TasksOK, RunStarts
<1>6. QED  BY <1>4, <1>5 DEF LogsTypeInv

\* and so does one that ends, in whatever way.
LEMMA EndsKeepsTypes ==
  ASSUME LogsTypeInv, NEW how \in {"logs", "empty", "error"}, Ends(how),
         UNCHANGED <<gitlabVars, builds, clone, ask, listings, logCache>>,
         tokenCache' \in Source, chosen' \in {chosen, 0},
         DOMAIN pages' = DOMAIN pages \/ DOMAIN pages' = DOMAIN pages \cup {PageKey},
         \A k \in DOMAIN pages' : /\ pages'[k] \subseteq Entry
                                  /\ \A e \in pages'[k] : e.id \in DOMAIN recs,
         DOMAIN results' \subseteq DOMAIN recs,
         \A r \in DOMAIN results' : results'[r] \in Text,
         ended' \cup matched' \subseteq DOMAIN recs,
         usedPages' \in BOOLEAN, runs' \in 0 .. MaxRuns
  PROVE  LogsTypeInv'
<1>1. GitLabTypeOK' /\ recs' = recs /\ pstat' = pstat /\ builds' = builds
  BY DEF LogsTypeInv, TypeOK, gitlabVars, GitLabTypeOK
<1>2. ConfigTypeOK'
  BY DEF Ends, ConfigTypeOK, Source
<1>3. <<>> \in Seq(Commit) /\ <<>> \in Seq(Task) /\ DOMAIN <<>> = {}
  BY EmptySeq
<1>4. ResolveTypeOK'
  <2>1. Len(builds) \in Nat
    BY LenProperties DEF LogsTypeInv, BuildsOK
  <2>2. /\ UNCHANGED <<clone, ask, listings>>
        /\ phase' = "idle" /\ queue' = <<>> /\ before' = 0
    BY DEF Ends
  <2>4. usedCache' \in BOOLEAN
    BY DEF Ends
  <2>3. QED
    BY <1>1, <1>3, <2>1, <2>2, <2>4 DEF LogsTypeInv, TypeOK, ResolveTypeOK
<1>5. TypeOK'
  BY <1>1, <1>2, <1>3, <1>4 DEF LogsTypeInv, TypeOK, Ends
<1>6. BuildsOK' /\ PhaseOK' /\ CachesOK' /\ TasksOK'
  BY <1>1, <1>3 DEF LogsTypeInv, BuildsOK, PhaseOK, CachesOK, TasksOK, Ends, Busy
<1>7. QED  BY <1>5, <1>6 DEF LogsTypeInv

\* A run that is refused, or that fails, keeps the types.
LEMMA RunRefusedKeepsTypes ==
  ASSUME LogsTypeInv, NEW s \in Setups, RunRefused(s)
  PROVE  LogsTypeInv'
<1>1. tokenCache' \in Source
  BY TokenTypes DEF LogsTypeInv, TypeOK, RunRefused
<1>2. recs' = recs /\ pages' = pages /\ results' = <<>> /\ DOMAIN results' = {}
  BY DEF RunRefused, NoLogs, gitlabVars
<1>3. runs' \in 0 .. MaxRuns
  BY LogsAssumption DEF LogsTypeInv, TypeOK, RunRefused
<1>4. \A k \in DOMAIN pages : /\ pages[k] \subseteq Entry
                              /\ \A e \in pages[k] : e.id \in DOMAIN recs
  BY DEF LogsTypeInv, TypeOK, CachesOK
<1>5. usedPages' \in BOOLEAN /\ ended' \cup matched' \subseteq DOMAIN recs
  BY DEF RunRefused
<1>6. QED
  BY <1>1, <1>2, <1>3, <1>4, <1>5, EndsKeepsTypes DEF RunRefused

LEMMA FailsKeepsTypes ==
  ASSUME LogsTypeInv, Fails
  PROVE  LogsTypeInv'
<1>1. tokenCache' \in Source
  BY DEF LogsTypeInv, TypeOK, ConfigTypeOK, Fails
<1>2. /\ \A k \in DOMAIN pages : /\ pages[k] \subseteq Entry
                                 /\ \A e \in pages[k] : e.id \in DOMAIN recs
      /\ DOMAIN results \subseteq DOMAIN recs
      /\ \A r \in DOMAIN results : results[r] \in Text
      /\ runs \in 0 .. MaxRuns
  BY DEF LogsTypeInv, TypeOK, CachesOK
<1>3. usedPages' \in BOOLEAN /\ ended' \cup matched' \subseteq DOMAIN recs
  BY DEF Fails
<1>4. UNCHANGED <<pages, results, runs, chosen>>
  BY DEF Fails
<1>5. QED
  BY <1>1, <1>2, <1>3, <1>4, EndsKeepsTypes DEF Fails

\* What expires between two runs leaves the types alone.
LEMMA ExpiryKeepsTypes ==
  ASSUME LogsTypeInv,
         \/ ResponsesExpire \/ LogsExpire
         \/ /\ phase = "idle" /\ TokenExpires
            /\ UNCHANGED <<gitlabVars, builds, resolveVars, jobsVars, logObservers>>
  PROVE  LogsTypeInv'
<1>1. DOMAIN <<>> = {}
  OBVIOUS
<1>2. CASE ResponsesExpire
  <2>1. /\ UNCHANGED <<recs, pstat, green, mode, tokenCache, token, envToken, builds,
                       clone, ask, phase, queue, chosen, before, usedCache, logCache,
                       page, tasks, outcome, results, ended, matched, usedPages, runs>>
        /\ listings' = <<>> /\ pages' = <<>>
    BY <1>2 DEF ResponsesExpire, gitlabVars, configVars, logObservers
  <2>2. GitLabTypeOK' /\ ConfigTypeOK' /\ ResolveTypeOK'
    BY <1>1, <2>1 DEF LogsTypeInv, TypeOK, GitLabTypeOK, ConfigTypeOK, ResolveTypeOK
  <2>3. TypeOK'
    BY <1>1, <2>1, <2>2 DEF LogsTypeInv, TypeOK
  <2>4. BuildsOK' /\ PhaseOK' /\ CachesOK' /\ TasksOK'
    BY <1>1, <2>1 DEF LogsTypeInv, BuildsOK, PhaseOK, CachesOK, TasksOK
  <2>5. QED  BY <2>3, <2>4 DEF LogsTypeInv
<1>3. CASE LogsExpire
  <2>1. /\ UNCHANGED <<recs, pstat, green, mode, tokenCache, token, envToken, builds,
                       clone, ask, phase, queue, chosen, listings, before, usedCache,
                       pages, page, tasks, outcome, results, ended, matched,
                       usedPages, runs>>
        /\ logCache' = <<>>
    BY <1>3 DEF LogsExpire, gitlabVars, configVars, resolveVars, logObservers
  <2>2. GitLabTypeOK' /\ ConfigTypeOK' /\ ResolveTypeOK'
    BY <2>1 DEF LogsTypeInv, TypeOK, GitLabTypeOK, ConfigTypeOK, ResolveTypeOK
  <2>3. TypeOK'
    BY <1>1, <2>1, <2>2 DEF LogsTypeInv, TypeOK
  <2>4. BuildsOK' /\ PhaseOK' /\ CachesOK' /\ TasksOK'
    BY <1>1, <2>1 DEF LogsTypeInv, BuildsOK, PhaseOK, CachesOK, TasksOK
  <2>5. QED  BY <2>3, <2>4 DEF LogsTypeInv
<1>4. CASE /\ phase = "idle" /\ TokenExpires
           /\ UNCHANGED <<gitlabVars, builds, resolveVars, jobsVars, logObservers>>
  <2>1. /\ UNCHANGED <<recs, pstat, green, mode, token, envToken, builds,
                       clone, ask, phase, queue, chosen, listings, before, usedCache,
                       logCache, pages, page, tasks, outcome, results, ended, matched,
                       usedPages, runs>>
        /\ tokenCache' = "none"
    BY <1>4 DEF TokenExpires, gitlabVars, resolveVars, jobsVars, logObservers
  <2>2. GitLabTypeOK' /\ ConfigTypeOK' /\ ResolveTypeOK'
    BY <2>1 DEF LogsTypeInv, TypeOK, GitLabTypeOK, ConfigTypeOK, ResolveTypeOK, Source
  <2>3. TypeOK'
    BY <2>1, <2>2 DEF LogsTypeInv, TypeOK
  <2>4. BuildsOK' /\ PhaseOK' /\ CachesOK' /\ TasksOK'
    BY <2>1 DEF LogsTypeInv, BuildsOK, PhaseOK, CachesOK, TasksOK
  <2>5. QED  BY <2>3, <2>4 DEF LogsTypeInv
<1>5. QED  BY <1>2, <1>3, <1>4

\* A task has the type of a task, whether its log was stored or not.
LEMMA NewTaskType ==
  ASSUME LogsTypeInv, NEW r \in DOMAIN recs
  PROVE  /\ NewTask(r) \in Task /\ NewTask(r).job = r
         /\ NewTask(r).st = "done" => r \in DOMAIN logCache
                                      /\ NewTask(r).text = logCache[r]
                                      /\ NewTask(r).text \in Text
         /\ NewTask(r).st # "failed"
<1>1. r \in Nat \ {0}
  BY LenProperties DEF LogsTypeInv, TypeOK, GitLabTypeOK
<1>2. CASE r \in DOMAIN logCache
  <2>1. NewTask(r) = [job |-> r, st |-> "done", text |-> logCache[r]]
    BY <1>2 DEF NewTask
  <2>2. logCache[r] \in Text
    BY <1>2 DEF LogsTypeInv, TypeOK
  <2>3. QED  BY <1>1, <1>2, <2>1, <2>2 DEF Task
<1>3. CASE r \notin DOMAIN logCache
  BY <1>1, <1>3 DEF NewTask, Task
<1>4. QED  BY <1>2, <1>3

\* The job asked for gets the one task.
LEMMA AskForJobKeepsTypes ==
  ASSUME LogsTypeInv, AskForJob
  PROVE  LogsTypeInv'
<1>1. /\ UNCHANGED <<recs, pstat, green, mode, tokenCache, token, envToken, builds,
                     clone, ask, queue, chosen, listings, before, usedCache, logCache,
                     pages, page, outcome, results, ended, matched, usedPages, runs>>
      /\ phase = "resolving" /\ phase' = "awaiting"
      /\ tasks' = <<NewTask(ask.job)>> /\ ask.job \in DOMAIN recs
  BY DEF AskForJob, gitlabVars, configVars, logObservers
<1>2. GitLabTypeOK' /\ ConfigTypeOK' /\ ResolveTypeOK'
  BY <1>1 DEF LogsTypeInv, TypeOK, GitLabTypeOK, ConfigTypeOK, ResolveTypeOK, Busy
<1>3. /\ tasks' \in Seq(Task) /\ DOMAIN tasks' = {1}
      /\ tasks'[1] = NewTask(ask.job)
  <2>1. NewTask(ask.job) \in Task
    BY <1>1, NewTaskType
  <2> DEFINE t == NewTask(ask.job)
  <2>2. t \in Task /\ tasks' = <<t>>
    BY <1>1, <2>1
  <2> HIDE DEF t
  <2>3. <<t>> \in Seq(Task) /\ DOMAIN <<t>> = {1} /\ <<t>>[1] = t
    BY <2>2
  <2>4. QED  BY <2>2, <2>3 DEF t
<1>4. TypeOK'
  BY <1>1, <1>2, <1>3 DEF LogsTypeInv, TypeOK
<1>5. BuildsOK' /\ PhaseOK' /\ CachesOK'
  BY <1>1 DEF LogsTypeInv, BuildsOK, PhaseOK, CachesOK
<1>6. TasksOK'
  <2>1. /\ NewTask(ask.job).job = ask.job
        /\ NewTask(ask.job).st = "done" => NewTask(ask.job).text \in Text
    BY <1>1, NewTaskType
  <2>2. QED  BY <1>1, <1>3, <2>1 DEF TasksOK
<1>7. QED  BY <1>4, <1>5, <1>6 DEF LogsTypeInv

\* What is asked for by name is a ref,
LEMMA RefAskedType ==
  ASSUME LogsTypeInv, RefAsked.kind # "none"
  PROVE  RefAsked \in Ref
<1>1. ask.ref \in Ref \cup {NoRef} /\ clone.branch \in {"branch", "HEAD", "none"}
  BY DEF LogsTypeInv, TypeOK, ResolveTypeOK, Ask, Clone
<1>2. CASE IsExplicit
  BY <1>1, <1>2 DEF RefAsked, IsExplicit
<1>3. CASE ~IsExplicit
  <2>1. RefAsked = [kind |-> clone.branch, commit |-> 0]
    BY <1>3 DEF RefAsked, get_current_branch
  <2>2. QED  BY <1>1, <2>1 DEF Ref
<1>4. QED  BY <1>2, <1>3

\* and the commits walked over are those from its tip on, the tip first.
LEMMA RecentShas ==
  ASSUME LogsTypeInv, RefAsked.kind # "none"
  PROVE  /\ Revision(RefAsked) \in 0 .. LastCommit
         /\ Depth \in Nat
         /\ get_recent_shas(RefAsked) \in Seq(Commit)
         /\ Len(get_recent_shas(RefAsked)) = IF Depth < Revision(RefAsked)
                                             THEN Depth ELSE Revision(RefAsked)
         /\ \A i \in 1 .. Len(get_recent_shas(RefAsked)) :
               get_recent_shas(RefAsked)[i] = Revision(RefAsked) + 1 - i
<1>1. RefAsked \in Ref
  BY RefAskedType
<1> DEFINE tip == Revision(RefAsked)
           length == IF Depth < tip THEN Depth ELSE tip
           shas == get_recent_shas(RefAsked)
<1>2. tip \in 0 .. LastCommit
  <2>1. clone.topic \in 0 .. LastCommit /\ clone.head \in 0 .. LastCommit
    BY DEF LogsTypeInv, TypeOK, ResolveTypeOK, Clone
  <2>2. CASE RefAsked.kind = "sha"
    <3>1. RefAsked.commit \in Commit
      BY <1>1, <2>2 DEF Ref
    <3>2. tip = RefAsked.commit
      BY <2>2 DEF Revision
    <3>3. QED  BY <3>1, <3>2, LastCommitAssumption DEF Commit
  <2>3. CASE RefAsked.kind \in {"branch", "remote"}
    BY <2>1, <2>3 DEF Revision
  <2>4. CASE RefAsked.kind = "HEAD"
    BY <2>1, <2>4 DEF Revision
  <2>5. QED  BY <1>1, <2>2, <2>3, <2>4 DEF Ref
<1>3. Depth \in Nat
  <2>1. ask.depth \in Nat
    BY DEF LogsTypeInv, TypeOK, ResolveTypeOK, Ask
  <2>2. QED  BY <2>1 DEF Depth
<1>4. shas = [i \in 1 .. length |-> tip + 1 - i]
  BY DEF get_recent_shas
<1> HIDE DEF tip
<1>5. length \in Nat /\ length <= tip
  BY <1>2, <1>3
<1> HIDE DEF length
<1>6. \A i \in 1 .. length : tip + 1 - i \in Commit
  BY <1>2, <1>5, LastCommitAssumption DEF Commit
<1> HIDE DEF shas
<1>7. shas \in [1 .. length -> Commit]
  BY <1>4, <1>6
<1>8. shas \in Seq(Commit)
  BY <1>5, <1>7, SeqDef
<1>9. Len(shas) = length
  BY <1>5, <1>7, <1>8, LenProperties
<1>10. \A i \in 1 .. length : shas[i] = tip + 1 - i
  BY <1>4
<1>11. QED  BY <1>2, <1>3, <1>8, <1>9, <1>10 DEF tip, shas, length

\* The answer to a listing, cached or not, is of pipelines that exist, and
\* nothing else is added to the cache.
LEMMA ListPipelines ==
  ASSUME LogsTypeInv, NEW ref, list_pipelines(ref, Answer(ref))
  PROVE  /\ Answer(ref) \subseteq DOMAIN builds
         /\ DOMAIN listings' \subseteq DOMAIN listings \cup {ref}
         /\ \A k \in DOMAIN listings' : listings'[k] \subseteq DOMAIN builds
         /\ usedCache' \in BOOLEAN
         /\ ~usedCache' => ~usedCache /\ Answer(ref) = PipelinesOf(ref)
<1>1. Answer(ref) \subseteq DOMAIN builds
  BY DEF Answer, IsListed, PipelinesOf, LogsTypeInv, BuildsOK
<1>2. CASE /\ IsListed(ref)
           /\ usedCache' = TRUE /\ UNCHANGED listings
  BY <1>1, <1>2 DEF LogsTypeInv, BuildsOK
<1>3. CASE /\ ~IsListed(ref) /\ Answer(ref) = PipelinesOf(ref)
           /\ listings' = CacheSet(listings, ref, Answer(ref))
           /\ UNCHANGED usedCache
  <2>1. usedCache \in BOOLEAN
    BY DEF LogsTypeInv, TypeOK, ResolveTypeOK
  <2>2. /\ DOMAIN listings' = DOMAIN listings \cup {ref}
        /\ listings'[ref] = Answer(ref)
        /\ \A k \in DOMAIN listings : k # ref => listings'[k] = listings[k]
    <3> DEFINE stored == CacheSet(listings, ref, Answer(ref))
    <3>1. /\ DOMAIN stored = DOMAIN listings \cup {ref}
          /\ stored[ref] = Answer(ref)
          /\ \A k \in DOMAIN listings : k # ref => stored[k] = listings[k]
      BY DEF CacheSet
    <3>2. QED  BY <1>3, <3>1
  <2>3. \A k \in DOMAIN listings' : listings'[k] \subseteq DOMAIN builds
    BY <1>1, <2>2 DEF LogsTypeInv, BuildsOK
  <2>4. usedCache' \in BOOLEAN /\ (~usedCache' => ~usedCache)
    BY <1>3, <2>1
  <2>5. QED  BY <1>1, <1>3, <2>2, <2>3, <2>4
<1>4. QED  BY <1>2, <1>3 DEF list_pipelines

\* The way to the pipeline: a pipeline is found, or commits are left to ask for.
LEMMA ResolveKeepsTypes ==
  ASSUME LogsTypeInv, Resolve
  PROVE  LogsTypeInv'
<1>1. /\ UNCHANGED <<recs, pstat, green, mode, tokenCache, token, envToken, builds,
                     clone, ask, before, logCache, pages, page, tasks, outcome,
                     results, ended, usedPages, runs>>
  BY DEF Resolve, ResolveById, AskForRef, AskForCommit, gitlabVars, configVars, jobsVars
<1>2. GitLabTypeOK' /\ ConfigTypeOK'
  BY <1>1 DEF LogsTypeInv, TypeOK, GitLabTypeOK, ConfigTypeOK
<1>3. /\ Len(builds) \in Nat /\ DOMAIN builds = 1 .. Len(builds)
      /\ chosen \in DOMAIN builds \cup {0} /\ queue \in Seq(Commit)
  BY LenProperties DEF LogsTypeInv, TypeOK, ResolveTypeOK, BuildsOK
<1>4. /\ phase \in {"resolving", "walking"} /\ chosen = 0
      /\ tasks = <<>> /\ page = 1 /\ outcome = "none"
  BY DEF LogsTypeInv, TypeOK, PhaseOK, Resolve, ResolveById, AskForRef, AskForCommit
<1>5. /\ \/ phase' = "listing" /\ chosen' \in DOMAIN builds
         \/ phase' = "walking" /\ chosen' = 0
      /\ queue' \in Seq(Commit)
      /\ DOMAIN listings' \subseteq Ref
      /\ \A k \in DOMAIN listings' : listings'[k] \subseteq DOMAIN builds
      /\ usedCache' \in BOOLEAN
  <2>1. CASE ResolveById
    BY <1>3, <2>1 DEF LogsTypeInv, TypeOK, ResolveTypeOK, BuildsOK, ResolveById, Found
  <2>2. CASE AskForRef
    <3> DEFINE found == Answer(RefAsked)
    <3>1. /\ RefAsked.kind # "none" /\ list_pipelines(RefAsked, found)
          /\ IF found # {} THEN Found(Latest(found)) /\ UNCHANGED queue
             ELSE /\ queue' = get_recent_shas(RefAsked)
                  /\ phase' = "walking" /\ UNCHANGED chosen
      BY <2>2 DEF AskForRef
    <3>2. /\ found \subseteq DOMAIN builds
          /\ DOMAIN listings' \subseteq DOMAIN listings \cup {RefAsked}
          /\ \A k \in DOMAIN listings' : listings'[k] \subseteq DOMAIN builds
          /\ usedCache' \in BOOLEAN
      BY <3>1, ListPipelines
    <3>3. DOMAIN listings' \subseteq Ref
      BY <3>1, <3>2, RefAskedType DEF LogsTypeInv, TypeOK, ResolveTypeOK
    <3> HIDE DEF found
    <3>4. CASE found # {}
      <4>1. Latest(found) \in found
        BY <1>3, <3>2, <3>4, LatestIsLast
      <4>2. QED  BY <1>3, <3>1, <3>2, <3>3, <3>4, <4>1 DEF Found
    <3>5. CASE found = {}
      BY <1>4, <3>1, <3>2, <3>3, <3>5, RecentShas
    <3>6. QED  BY <3>4, <3>5
  <2>3. CASE AskForCommit
    <3> DEFINE c == Head(queue)  found == Answer(Sha(c))
    <3>1. /\ queue # <<>> /\ queue' = Tail(queue) /\ list_pipelines(Sha(c), found)
          /\ phase = "walking"
          /\ IF found # {} THEN Found(Latest(found)) ELSE UNCHANGED <<phase, chosen>>
      BY <2>3 DEF AskForCommit
    <3>2. c \in Commit /\ queue' \in Seq(Commit)
      BY <1>3, <3>1, HeadTailProperties
    <3>3. /\ found \subseteq DOMAIN builds
          /\ DOMAIN listings' \subseteq DOMAIN listings \cup {Sha(c)}
          /\ \A k \in DOMAIN listings' : listings'[k] \subseteq DOMAIN builds
          /\ usedCache' \in BOOLEAN
      BY <3>1, ListPipelines
    <3>4. Sha(c) \in Ref
      BY <3>2 DEF Sha, Ref
    <3>5. DOMAIN listings' \subseteq Ref
      BY <3>3, <3>4 DEF LogsTypeInv, TypeOK, ResolveTypeOK
    <3> HIDE DEF found, c
    <3>6. CASE found # {}
      <4>1. Latest(found) \in found
        BY <1>3, <3>3, <3>6, LatestIsLast
      <4>2. QED  BY <1>3, <3>1, <3>2, <3>3, <3>5, <3>6, <4>1 DEF Found
    <3>7. CASE found = {}
      BY <1>4, <3>1, <3>2, <3>3, <3>5, <3>7
    <3>8. QED  BY <3>6, <3>7
  <2>4. QED  BY <2>1, <2>2, <2>3 DEF Resolve
<1>6. matched' \subseteq DOMAIN recs
  <2>1. Matching(chosen') \subseteq DOMAIN recs
    BY DEF Matching, Live, Attempts
  <2>2. matched \subseteq DOMAIN recs
    BY DEF LogsTypeInv, TypeOK
  <2>3. QED  BY <2>1, <2>2 DEF Resolve
<1>7. ResolveTypeOK'
  BY <1>1, <1>5 DEF LogsTypeInv, TypeOK, ResolveTypeOK, Busy
<1>8. TypeOK'
  BY <1>1, <1>2, <1>4, <1>6, <1>7 DEF LogsTypeInv, TypeOK
<1>9. BuildsOK' /\ CachesOK' /\ TasksOK'
  BY <1>1, <1>5 DEF LogsTypeInv, BuildsOK, CachesOK, TasksOK
<1>10. PhaseOK'
  BY <1>1, <1>3, <1>4, <1>5 DEF PhaseOK
<1>11. QED  BY <1>8, <1>9, <1>10 DEF LogsTypeInv

\* The tasks of a page come after those of the pages before.
LEMMA TasksWithIs ==
  ASSUME LogsTypeInv, NEW ids \in SUBSET DOMAIN recs
  PROVE  /\ TasksWith(ids) \in Seq(Task)
         /\ \A i \in DOMAIN tasks : /\ i \in DOMAIN TasksWith(ids)
                                    /\ TasksWith(ids)[i] = tasks[i]
         /\ \A i \in DOMAIN TasksWith(ids) :
               \/ i \in DOMAIN tasks
               \/ \E r \in ids : TasksWith(ids)[i] = NewTask(r)
         /\ \A r \in ids : \E i \in DOMAIN TasksWith(ids) :
               TasksWith(ids)[i] = NewTask(r)
<1> DEFINE n == Cardinality(ids)
           order == SetToSeq(ids)
           new == [i \in 1 .. n |-> NewTask(order[i])]
           all == tasks \o new
<1>1. IsFiniteSet(ids)
  BY RecordSetIsFinite DEF LogsTypeInv, TypeOK
<1>2. /\ n \in Nat /\ order \in [1 .. n -> ids]
      /\ \A r \in ids : \E i \in 1 .. n : order[i] = r
  BY <1>1, SetToSeqLists
<1>3. /\ tasks \in Seq(Task) /\ Len(tasks) \in Nat /\ DOMAIN tasks = 1 .. Len(tasks)
  BY LenProperties DEF LogsTypeInv, TypeOK
<1>4. all = TasksWith(ids)
  BY DEF TasksWith
<1> HIDE DEF n, order
<1>5. new \in [1 .. n -> Task] /\ \A i \in 1 .. n : new[i] = NewTask(order[i])
  BY <1>2, NewTaskType
<1> HIDE DEF new
<1>6. new \in Seq(Task) /\ Len(new) = n
  <2>1. new \in Seq(Task)
    BY <1>2, <1>5, SeqDef
  <2>2. QED  BY <1>2, <1>5, <2>1, LenProperties
<1>7. /\ all \in Seq(Task) /\ Len(all) = Len(tasks) + n
      /\ \A i \in 1 .. (Len(tasks) + n) :
            all[i] = IF i <= Len(tasks) THEN tasks[i] ELSE new[i - Len(tasks)]
  BY <1>3, <1>6, ConcatProperties
<1> HIDE DEF all
<1>8. DOMAIN all = 1 .. (Len(tasks) + n)
  BY <1>7, LenProperties
<1>9. \A i \in DOMAIN tasks : i \in DOMAIN all /\ all[i] = tasks[i]
  BY <1>2, <1>3, <1>7, <1>8
<1>10. ASSUME NEW i \in DOMAIN all, i \notin DOMAIN tasks
       PROVE  \E r \in ids : all[i] = NewTask(r)
  <2>1. i - Len(tasks) \in 1 .. n /\ all[i] = new[i - Len(tasks)]
    BY <1>2, <1>3, <1>7, <1>8, <1>10
  <2>2. order[i - Len(tasks)] \in ids
    BY <1>2, <2>1
  <2>3. QED  BY <1>5, <2>1, <2>2
<1>11. ASSUME NEW r \in ids
       PROVE  \E i \in DOMAIN all : all[i] = NewTask(r)
  <2>1. PICK j \in 1 .. n : order[j] = r
    BY <1>2
  <2>2. /\ Len(tasks) + j \in DOMAIN all
        /\ all[Len(tasks) + j] = new[j]
    <3>1. /\ Len(tasks) + j \in 1 .. (Len(tasks) + n)
          /\ ~(Len(tasks) + j <= Len(tasks)) /\ (Len(tasks) + j) - Len(tasks) = j
      BY <1>2, <1>3
    <3>2. QED  BY <1>7, <1>8, <3>1
  <2>3. QED  BY <1>5, <2>1, <2>2
<1>12. QED  BY <1>4, <1>7, <1>9, <1>10, <1>11

\* A page of the listing: each row that passes gets a task.
LEMMA ReadJobsKeepsTypes ==
  ASSUME LogsTypeInv, ReadJobs
  PROVE  LogsTypeInv'
<1> DEFINE stored == PageKey \in DOMAIN pages
           rows == IF stored THEN pages[PageKey] ELSE Rows(recs, PageRows(page), 1)
           more == ~stored /\ HasNext(page)
           passed == {e.id : e \in {f \in rows : FilterPasses(f.st, f.id)}}
<1>1. /\ phase = "listing"
      /\ pages' = IF stored THEN pages ELSE CacheSet(pages, PageKey, rows)
      /\ \/ /\ more \/ TasksWith(passed) # <<>>
            /\ tasks' = TasksWith(passed)
            /\ IF more THEN page' = page + 1 /\ UNCHANGED phase
               ELSE phase' = "awaiting" /\ UNCHANGED page
            /\ UNCHANGED <<token, envToken, queue, outcome, before, usedCache>>
         \/ ~more /\ TasksWith(passed) = <<>> /\ Ends("empty")
      /\ UNCHANGED <<recs, pstat, green, mode, tokenCache, builds, clone, ask, chosen,
                     listings, logCache, results, ended, matched, runs>>
  BY DEF ReadJobs, gitlabVars
<1>2. usedPages' = (usedPages \/ stored)
  BY DEF ReadJobs
<1>3. rows \subseteq Entry /\ \A e \in rows : e.id \in DOMAIN recs
  <2>1. PageRows(page) \in SUBSET DOMAIN recs
    BY DEF PageRows, InScope, Live, Attempts
  <2>2. /\ Rows(recs, PageRows(page), 1) \subseteq Entry
        /\ \A e \in Rows(recs, PageRows(page), 1) : e.id \in DOMAIN recs
    BY <2>1, RowsProperties DEF LogsTypeInv, TypeOK
  <2>3. QED  BY <2>2 DEF LogsTypeInv, TypeOK, CachesOK
<1>4. passed \in SUBSET DOMAIN recs
  BY <1>3
<1> HIDE DEF stored, rows, more, passed
<1>5. usedPages' \in BOOLEAN
  BY <1>2 DEF LogsTypeInv, TypeOK
<1>6. /\ DOMAIN pages' = DOMAIN pages \/ DOMAIN pages' = DOMAIN pages \cup {PageKey}
      /\ \A k \in DOMAIN pages' : /\ pages'[k] \subseteq Entry
                                  /\ \A e \in pages'[k] : e.id \in DOMAIN recs
  <2> DEFINE next == CacheSet(pages, PageKey, rows)
  <2>1. /\ DOMAIN next = DOMAIN pages \cup {PageKey}
        /\ next[PageKey] = rows
        /\ \A k \in DOMAIN pages : k # PageKey => next[k] = pages[k]
    BY DEF CacheSet
  <2>2. pages' = pages \/ pages' = next
    BY <1>1
  <2> HIDE DEF next
  <2>3. \A k \in DOMAIN pages : /\ pages[k] \subseteq Entry
                                /\ \A e \in pages[k] : e.id \in DOMAIN recs
    BY DEF LogsTypeInv, TypeOK, CachesOK
  <2>4. QED  BY <1>3, <2>1, <2>2, <2>3
<1>7. CASE ~more /\ TasksWith(passed) = <<>> /\ Ends("empty")
  <2>1. UNCHANGED <<gitlabVars, builds, clone, ask, listings, logCache>>
    BY <1>1 DEF gitlabVars
  <2>2. /\ tokenCache' \in Source /\ chosen' \in {chosen, 0}
        /\ DOMAIN results' \subseteq DOMAIN recs
        /\ \A r \in DOMAIN results' : results'[r] \in Text
        /\ ended' \cup matched' \subseteq DOMAIN recs
        /\ runs' \in 0 .. MaxRuns
    BY <1>1 DEF LogsTypeInv, TypeOK, ConfigTypeOK
  <2>3. QED  BY <1>5, <1>6, <1>7, <2>1, <2>2, EndsKeepsTypes
<1>8. CASE /\ tasks' = TasksWith(passed)
           /\ IF more THEN page' = page + 1 /\ UNCHANGED phase
              ELSE phase' = "awaiting" /\ UNCHANGED page
           /\ UNCHANGED <<token, envToken, queue, outcome, before, usedCache>>
  <2>1. GitLabTypeOK' /\ ConfigTypeOK' /\ ResolveTypeOK'
    BY <1>1, <1>8
    DEF LogsTypeInv, TypeOK, GitLabTypeOK, ConfigTypeOK, ResolveTypeOK, Busy
  <2>2. /\ tasks' \in Seq(Task)
        /\ \A i \in DOMAIN tasks : i \in DOMAIN tasks' /\ tasks'[i] = tasks[i]
        /\ \A i \in DOMAIN tasks' :
              i \in DOMAIN tasks \/ \E r \in passed : tasks'[i] = NewTask(r)
    BY <1>4, <1>8, TasksWithIs
  <2>3. outcome = "none" /\ page \in Nat /\ page > 0
    BY <1>1 DEF LogsTypeInv, TypeOK, PhaseOK
  <2>4. page' \in Nat /\ page' > 0
    BY <1>8, <2>3
  <2>5. TypeOK'
    BY <1>1, <1>5, <1>6, <1>8, <2>1, <2>2, <2>3, <2>4 DEF LogsTypeInv, TypeOK
  <2>6. PhaseOK'
    BY <1>1, <1>8, <2>4 DEF LogsTypeInv, PhaseOK
  <2>7. TasksOK'
    BY <1>1, <1>4, <2>2, NewTaskType DEF LogsTypeInv, TasksOK
  <2>8. BuildsOK' /\ CachesOK'
    BY <1>1, <1>6 DEF LogsTypeInv, BuildsOK, CachesOK
  <2>9. QED  BY <2>5, <2>6, <2>7, <2>8 DEF LogsTypeInv
<1>9. QED  BY <1>1, <1>7, <1>8

\* A task that has sent its request gets an answer: only its text and its
\* state change.
LEMMA SetTaskIs ==
  ASSUME LogsTypeInv, NEW i \in DOMAIN tasks, NEW st \in {"done", "failed"},
         NEW text \in Text \cup {"none"}, SetTask(i, st, text)
  PROVE  /\ tasks' \in Seq(Task) /\ DOMAIN tasks' = DOMAIN tasks
         /\ \A j \in DOMAIN tasks : j # i => tasks'[j] = tasks[j]
         /\ tasks'[i].job = tasks[i].job
         /\ tasks'[i].st = st /\ tasks'[i].text = text
<1> DEFINE t == [tasks[i] EXCEPT !.st = st, !.text = text]
<1>1. /\ tasks \in Seq(Task) /\ DOMAIN tasks = 1 .. Len(tasks)
      /\ tasks[i] \in Task
  BY LenProperties, ElementOfSeq DEF LogsTypeInv, TypeOK
<1>2. t \in Task /\ t.job = tasks[i].job /\ t.st = st /\ t.text = text
  BY <1>1 DEF Task
<1>3. tasks' = [tasks EXCEPT ![i] = t]
  BY DEF SetTask
<1> HIDE DEF t
<1>4. tasks' \in Seq(Task)
  BY <1>1, <1>2, <1>3, ExceptSeq
<1>5. QED  BY <1>2, <1>3, <1>4

\* The answer of a task, and its failure, keep the types.
LEMMA TaskKeepsTypes ==
  ASSUME LogsTypeInv, phase \in Busy, NEW i \in DOMAIN tasks,
         TaskReturns(i) \/ TaskFails(i)
  PROVE  LogsTypeInv'
<1> DEFINE r == tasks[i].job
<1>1. /\ UNCHANGED <<recs, pstat, green, mode, tokenCache, token, envToken, builds,
                     clone, ask, phase, queue, chosen, listings, before, usedCache,
                     pages, page, outcome, results, ended, matched, usedPages, runs>>
      /\ \/ SetTask(i, "done", Printed(r))
         \/ SetTask(i, "failed", "none")
  BY DEF TaskReturns, TaskFails, taskUnchanged, gitlabVars, configVars, resolveVars,
         logObservers
<1>2. Printed(r) \in Text
  BY DEF Printed, Text
<1>3. r \in DOMAIN recs
  BY DEF LogsTypeInv, TasksOK
<1>4. /\ DOMAIN logCache' \subseteq DOMAIN recs
      /\ \A q \in DOMAIN logCache' : logCache'[q] \in Text
      /\ \A q \in DOMAIN logCache' : recs[q].name \in Chatty \/ logCache'[q] = "whole"
  <2>1. CASE UNCHANGED logCache
    BY <2>1 DEF LogsTypeInv, TypeOK, CachesOK
  <2>2. CASE /\ _log_is_complete(r, Printed(r))
             /\ logCache' = CacheSet(logCache, r, Printed(r))
    <3>1. Printed(r) = "whole" \/ recs[r].name \in Chatty
      BY <2>2 DEF _log_is_complete
    <3>2. /\ DOMAIN logCache' = DOMAIN logCache \cup {r}
          /\ logCache'[r] = Printed(r)
          /\ \A q \in DOMAIN logCache : q # r => logCache'[q] = logCache[q]
      BY <2>2 DEF CacheSet
    <3> HIDE DEF r
    <3>3. QED  BY <1>2, <1>3, <3>1, <3>2 DEF LogsTypeInv, TypeOK, CachesOK
  <2>3. QED  BY <2>1, <2>2 DEF TaskReturns, TaskFails
<1> HIDE DEF r
<1>5. /\ tasks' \in Seq(Task) /\ DOMAIN tasks' = DOMAIN tasks
      /\ \A j \in DOMAIN tasks :
            /\ tasks'[j].job = tasks[j].job
            /\ tasks'[j].st = "done" => tasks'[j].text \in Text
  <2>1. \A j \in DOMAIN tasks : tasks[j].st = "done" => tasks[j].text \in Text
    BY DEF LogsTypeInv, TasksOK
  <2>2. CASE SetTask(i, "done", Printed(r))
    BY <1>2, <2>1, <2>2, SetTaskIs
  <2>3. CASE SetTask(i, "failed", "none")
    BY <2>1, <2>3, SetTaskIs
  <2>4. QED  BY <1>1, <2>2, <2>3
<1>6. GitLabTypeOK' /\ ConfigTypeOK' /\ ResolveTypeOK'
  BY <1>1 DEF LogsTypeInv, TypeOK, GitLabTypeOK, ConfigTypeOK, ResolveTypeOK
<1>7. TypeOK'
  BY <1>1, <1>4, <1>5, <1>6 DEF LogsTypeInv, TypeOK
<1>8. BuildsOK' /\ CachesOK'
  BY <1>1, <1>4 DEF LogsTypeInv, BuildsOK, CachesOK
<1>9. PhaseOK'
  <2>1. phase \in {"listing", "awaiting"}
    BY DEF LogsTypeInv, PhaseOK
  <2>2. QED  BY <1>1, <2>1 DEF LogsTypeInv, PhaseOK
<1>10. TasksOK'
  BY <1>1, <1>5 DEF LogsTypeInv, TasksOK
<1>11. QED  BY <1>7, <1>8, <1>9, <1>10 DEF LogsTypeInv

\* The results are the texts of the tasks, which are all done by then.
LEMMA LogsCompleteIs ==
  ASSUME LogsTypeInv, LogsComplete
  PROVE  \A r \in DOMAIN results' : \E i \in DOMAIN tasks :
            /\ tasks[i].job = r /\ tasks[i].st = "done"
            /\ results'[r] = tasks[i].text
<1> SUFFICES ASSUME NEW r \in DOMAIN results'
             PROVE  \E i \in DOMAIN tasks :
                       /\ tasks[i].job = r /\ tasks[i].st = "done"
                       /\ results'[r] = tasks[i].text
  OBVIOUS
<1>1. PICK j \in log_tasks : tasks[j].job = r
  BY DEF LogsComplete
<1> DEFINE c == CHOOSE i \in log_tasks : tasks[i].job = r
<1>2. c \in log_tasks /\ tasks[c].job = r
  BY <1>1
<1>3. results'[r] = tasks[c].text
  BY DEF LogsComplete
<1>4. c \in DOMAIN tasks /\ tasks[c].st = "done"
  BY <1>2 DEF LogsComplete, log_tasks
<1>5. QED  BY <1>2, <1>3, <1>4

LEMMA LogsCompleteKeepsTypes ==
  ASSUME LogsTypeInv, LogsComplete
  PROVE  LogsTypeInv'
<1>1. /\ DOMAIN results' \subseteq DOMAIN recs
      /\ \A r \in DOMAIN results' : results'[r] \in Text
  BY LogsCompleteIs DEF LogsTypeInv, TasksOK
<1>2. /\ Ends("logs")
      /\ UNCHANGED <<gitlabVars, tokenCache, builds, clone, ask, chosen, listings,
                     logCache, pages, ended, matched, usedPages, runs>>
  BY DEF LogsComplete, logObservers
<1>3. usedPages' \in BOOLEAN
  BY <1>2 DEF LogsTypeInv, TypeOK
<1>4. /\ \A k \in DOMAIN pages : /\ pages[k] \subseteq Entry
                                 /\ \A e \in pages[k] : e.id \in DOMAIN recs
      /\ ended \cup matched \subseteq DOMAIN recs
      /\ tokenCache \in Source /\ runs \in 0 .. MaxRuns
  BY DEF LogsTypeInv, TypeOK, ConfigTypeOK, CachesOK
<1>5. QED  BY <1>1, <1>2, <1>3, <1>4, EndsKeepsTypes

\* What GitLab does in the meantime leaves what the command holds alone.
LEMMA GitLabWorksIs ==
  ASSUME GitLabWorks
  PROVE  /\ UNCHANGED <<tokenCache, token, envToken, clone, ask, phase, queue, chosen,
                        listings, before, usedCache, logCache, pages, page, tasks,
                        outcome, results, ended, matched, usedPages, runs>>
         /\ \/ /\ Build /\ CreatePipeline /\ phase \notin {"listing", "awaiting"}
               /\ \E b \in Builds : builds' = Append(builds, b)
            \/ \E r \in DOMAIN recs : (JobFinishes(r) \/ OtherRetry(r)) /\ UNCHANGED builds
<1>1. CASE Build
  BY <1>1 DEF GitLabWorks, Build, Builds, configVars, resolveVars, jobsVars, logObservers
<1>2. CASE \E r \in DOMAIN recs : (JobFinishes(r) \/ OtherRetry(r)) /\ UNCHANGED builds
  BY <1>2 DEF GitLabWorks, configVars, resolveVars, jobsVars, logObservers
<1>3. QED  BY <1>1, <1>2 DEF GitLabWorks

\* The records stay, with their names, and a job that has ended has ended.
LEMMA RecordsOfWorks ==
  ASSUME GitLabTypeOK, GitLabWorks
  PROVE  /\ GitLabTypeOK'
         /\ \A r \in DOMAIN recs :
               /\ r \in DOMAIN recs' /\ recs'[r].name = recs[r].name
               /\ recs'[r].pipe = recs[r].pipe
               /\ recs[r].status # "active" => recs'[r].status = recs[r].status
<1>1. CASE CreatePipeline
  BY <1>1, CreateIs
<1>2. ASSUME NEW r \in DOMAIN recs, JobFinishes(r)
      PROVE  /\ GitLabTypeOK'
             /\ \A q \in DOMAIN recs :
                   /\ q \in DOMAIN recs' /\ recs'[q].name = recs[q].name
                   /\ recs'[q].pipe = recs[q].pipe
                   /\ recs[q].status # "active" => recs'[q].status = recs[q].status
  BY <1>2, FinishIs
<1>3. ASSUME NEW r \in DOMAIN recs, OtherRetry(r)
      PROVE  /\ GitLabTypeOK'
             /\ \A q \in DOMAIN recs : q \in DOMAIN recs' /\ recs'[q] = recs[q]
  BY <1>3, OtherRetryIs
<1>4. QED  BY <1>1, <1>2, <1>3, GitLabWorksIs

LEMMA GitLabWorksKeepsTypes ==
  ASSUME LogsTypeInv, GitLabWorks
  PROVE  LogsTypeInv'
<1>1. UNCHANGED <<tokenCache, token, envToken, clone, ask, phase, queue, chosen,
                  listings, before, usedCache, logCache, pages, page, tasks,
                  outcome, results, ended, matched, usedPages, runs>>
  BY GitLabWorksIs
<1>2. /\ GitLabTypeOK' /\ DOMAIN recs \subseteq DOMAIN recs'
      /\ \A r \in DOMAIN recs : recs'[r].name = recs[r].name
  BY RecordsOfWorks DEF LogsTypeInv, TypeOK
<1>3. /\ builds' \in Seq(Builds) /\ DOMAIN builds' = DOMAIN pstat'
      /\ DOMAIN builds \subseteq DOMAIN builds' /\ Len(builds) <= Len(builds')
      /\ Len(builds') \in Nat /\ Len(builds) \in Nat
  <2>1. /\ builds \in Seq(Builds) /\ Len(builds) \in Nat
        /\ DOMAIN builds = 1 .. Len(builds) /\ DOMAIN pstat = DOMAIN builds
        /\ pstat \in Seq(PipelineStatus) /\ Len(pstat) \in Nat
        /\ DOMAIN pstat = 1 .. Len(pstat)
    BY LenProperties DEF LogsTypeInv, TypeOK, ResolveTypeOK, BuildsOK, GitLabTypeOK
  <2>2. CASE CreatePipeline /\ \E b \in Builds : builds' = Append(builds, b)
    <3>1. PICK b \in Builds : builds' = Append(builds, b)
      BY <2>2
    <3>2. builds' \in Seq(Builds) /\ Len(builds') = Len(builds) + 1
      BY <2>1, <3>1, AppendProperties
    <3>3. DOMAIN builds' = 1 .. Len(builds) + 1
      BY <3>2, LenProperties
    <3>4. DOMAIN pstat' = 1 .. Len(pstat) + 1
      BY <2>2, CreateIs DEF LogsTypeInv, TypeOK
    <3>5. Len(pstat) = Len(builds)
      BY <2>1
    <3>6. QED  BY <2>1, <3>2, <3>3, <3>4, <3>5
  <2>3. CASE \E r \in DOMAIN recs : (JobFinishes(r) \/ OtherRetry(r)) /\ UNCHANGED builds
    <3>1. PICK r \in DOMAIN recs : (JobFinishes(r) \/ OtherRetry(r)) /\ UNCHANGED builds
      BY <2>3
    <3>2. DOMAIN pstat' = DOMAIN pstat
      BY <3>1, FinishIs, OtherRetryIs DEF LogsTypeInv, TypeOK
    <3>3. QED  BY <2>1, <3>1, <3>2
  <2>4. QED  BY <2>2, <2>3, GitLabWorksIs
<1>4. ConfigTypeOK'
  BY <1>1 DEF LogsTypeInv, TypeOK, ConfigTypeOK
<1>5. ResolveTypeOK'
  <2>1. before' \in 0 .. Len(builds')
    BY <1>1, <1>3 DEF LogsTypeInv, TypeOK, ResolveTypeOK
  <2>2. QED  BY <1>1, <1>3, <2>1 DEF LogsTypeInv, TypeOK, ResolveTypeOK
<1>6. TypeOK'
  BY <1>1, <1>2, <1>4, <1>5 DEF LogsTypeInv, TypeOK
<1>7. BuildsOK' /\ PhaseOK' /\ TasksOK'
  BY <1>1, <1>2, <1>3 DEF LogsTypeInv, BuildsOK, PhaseOK, TasksOK
<1>8. CachesOK'
  BY <1>1, <1>2 DEF LogsTypeInv, TypeOK, CachesOK
<1>9. QED  BY <1>6, <1>7, <1>8 DEF LogsTypeInv

\* Every step keeps the types.
LEMMA LogsNextTypes == LogsTypeInv /\ [Next]_vars => LogsTypeInv'
<1> SUFFICES ASSUME LogsTypeInv, [Next]_vars PROVE LogsTypeInv'
  OBVIOUS
<1>1. CASE UNCHANGED vars
  BY <1>1 DEF vars, gitlabVars, configVars, resolveVars, jobsVars, logObservers,
     LogsTypeInv, TypeOK, GitLabTypeOK, ConfigTypeOK, ResolveTypeOK,
     BuildsOK, PhaseOK, CachesOK, TasksOK
<1>2. CASE Next
  <2>1. ASSUME NEW s \in Setups, RunStarts(s) \/ RunRefused(s) PROVE LogsTypeInv'
    BY <2>1, RunStartsKeepsTypes, RunRefusedKeepsTypes
  <2>2. ASSUME AskForJob \/ Resolve \/ ReadJobs \/ LogsComplete \/ Fails
        PROVE  LogsTypeInv'
    BY <2>2, AskForJobKeepsTypes, ResolveKeepsTypes, ReadJobsKeepsTypes,
       LogsCompleteKeepsTypes, FailsKeepsTypes
  <2>3. ASSUME phase \in Busy, NEW i \in DOMAIN tasks, TaskReturns(i) \/ TaskFails(i)
        PROVE  LogsTypeInv'
    BY <2>3, TaskKeepsTypes
  <2>4. QED
    BY <1>2, <2>1, <2>2, <2>3, ExpiryKeepsTypes, GitLabWorksKeepsTypes DEF Next
<1>3. QED  BY <1>1, <1>2

LEMMA LogsAlwaysTyped == Spec => []LogsTypeInv
  BY LogsInitTypes, LogsNextTypes, PTL DEF Spec

\* The state of ddgl logs keeps its types: the tasks are of records, and a log
\* that is stored or returned is one (cli/logs.py, core/logs.py).
THEOREM LogsTypeCorrect == Spec => []TypeOK
<1>1. LogsTypeInv => TypeOK
  BY DEF LogsTypeInv
<1>2. QED  BY <1>1, LogsAlwaysTyped, PTL

-----------------------------------------------------------------------------
(* The token.                                                              *)

\* Neither the running command nor the cache has a token of the environment
\* that is not set now.
TokenInv == EnvTokenIsNotKept /\ tokenCache # "env"

\* Only the beginning of a run finds a token; while it runs it keeps it.
LEMMA TokenIsKept ==
  ASSUME \/ AskForJob \/ Resolve \/ ReadJobs \/ LogsComplete \/ Fails
         \/ /\ phase \in Busy
            /\ \E i \in DOMAIN tasks : TaskReturns(i) \/ TaskFails(i)
         \/ ResponsesExpire \/ LogsExpire \/ GitLabWorks
         \/ /\ phase = "idle" /\ TokenExpires
            /\ UNCHANGED <<gitlabVars, builds, resolveVars, jobsVars, logObservers>>
         \/ UNCHANGED vars
  PROVE  /\ tokenCache' = tokenCache \/ tokenCache' = "none"
         /\ phase' \in Busy =>
               phase \in Busy /\ token' = token /\ envToken' = envToken
<1>1. CASE AskForJob
  BY <1>1 DEF AskForJob, configVars, Busy
<1>2. CASE Resolve
  BY <1>2 DEF Resolve, ResolveById, AskForRef, AskForCommit, configVars, Busy
<1>3. CASE ReadJobs
  <2>1. UNCHANGED tokenCache /\ phase = "listing"
    BY <1>3 DEF ReadJobs
  <2>2. UNCHANGED <<token, envToken>> \/ Ends("empty")
    BY <1>3 DEF ReadJobs
  <2>3. QED  BY <2>1, <2>2 DEF Ends, Busy
<1>4. CASE LogsComplete \/ Fails
  BY <1>4 DEF LogsComplete, Fails, Ends, Busy
<1>5. CASE /\ phase \in Busy
           /\ \E i \in DOMAIN tasks : TaskReturns(i) \/ TaskFails(i)
  BY <1>5 DEF TaskReturns, TaskFails, taskUnchanged, configVars, resolveVars
<1>6. CASE ResponsesExpire \/ LogsExpire
  BY <1>6 DEF ResponsesExpire, LogsExpire, configVars, resolveVars
<1>7. CASE GitLabWorks
  BY <1>7 DEF GitLabWorks, configVars, resolveVars
<1>8. CASE /\ phase = "idle" /\ TokenExpires
           /\ UNCHANGED <<gitlabVars, builds, resolveVars, jobsVars, logObservers>>
  BY <1>8 DEF TokenExpires, resolveVars
<1>9. CASE UNCHANGED vars
  BY <1>9 DEF vars, configVars, resolveVars
<1>10. QED
  BY <1>1, <1>2, <1>3, <1>4, <1>5, <1>6, <1>7, <1>8, <1>9

LEMMA TokenInit == Init => TokenInv
  BY DEF Init, ConfigInit, ResolveInit, TokenInv, EnvTokenIsNotKept, Busy

LEMMA TokenNext == TokenInv /\ [Next]_vars => TokenInv'
<1> SUFFICES ASSUME TokenInv, [Next]_vars PROVE TokenInv'
  OBVIOUS
<1>1. ASSUME NEW s \in Setups, RunStarts(s) \/ RunRefused(s)
      PROVE  TokenInv'
  <2>1. s.env \in BOOLEAN
    BY SetupsAssumption DEF IsSetup
  <2>2. FromConfigFile(s) # "env"
    BY DEF FromConfigFile
  <2>3. /\ s.env => _resolve_token(s) = "env"
        /\ ~s.env => _resolve_token(s) # "env"
    BY <2>1, <2>2 DEF _resolve_token, TokenInv
  <2>4. TokenCached(_resolve_token(s)) # "env"
    BY DEF TokenCached, TokenInv
  <2>5. CASE RunStarts(s)
    <3>1. /\ token' = _resolve_token(s) /\ envToken' = s.env
          /\ tokenCache' = TokenCached(token')
      BY <2>5 DEF RunStarts, load_config
    <3>2. EnvTokenIsNotKept'
      BY <2>1, <2>3, <3>1 DEF EnvTokenIsNotKept
    <3>3. QED  BY <2>4, <3>1, <3>2 DEF TokenInv
  <2>6. CASE RunRefused(s)
    BY <2>4, <2>6 DEF RunRefused, Ends, TokenInv, EnvTokenIsNotKept, Busy
  <2>7. QED  BY <1>1, <2>5, <2>6
<1>2. ASSUME tokenCache' = tokenCache \/ tokenCache' = "none",
             phase' \in Busy =>
               phase \in Busy /\ token' = token /\ envToken' = envToken
      PROVE  TokenInv'
  BY <1>2 DEF TokenInv, EnvTokenIsNotKept
<1>3. QED  BY <1>1, <1>2, TokenIsKept DEF Next

\* A token of the environment is used exactly when it is set, and no later
\* command without it gets it from the cache (config/loader.py).
THEOREM EnvTokenNotKept == Spec => []EnvTokenIsNotKept
<1>1. TokenInv => EnvTokenIsNotKept
  BY DEF TokenInv
<1>2. QED  BY <1>1, TokenInit, TokenNext, PTL DEF Spec

-----------------------------------------------------------------------------
(* The logs of jobs that had ended.                                        *)

\* A job that had ended is still ended, and what its task has read is whole.
EndedInv ==
    /\ \A r \in ended : recs[r].status \in JobFinal
    /\ \A i \in DOMAIN tasks :
          (/\ tasks[i].st = "done" /\ tasks[i].job \in ended
           /\ recs[tasks[i].job].name \notin Chatty) => tasks[i].text = "whole"
    /\ EndedLogsAreWhole

\* A log that comes from the store is whole, unless the job is a chatty one.
LEMMA StoredIsWhole ==
  ASSUME LogsTypeInv, NEW r \in DOMAIN recs, NewTask(r).st = "done",
         recs[r].name \notin Chatty
  PROVE  NewTask(r).text = "whole"
  BY NewTaskType DEF LogsTypeInv, CachesOK

LEMMA EndedInit == Init => EndedInv
<1> SUFFICES ASSUME Init PROVE EndedInv
  OBVIOUS
<1>1. ended = {} /\ tasks = <<>> /\ DOMAIN tasks = {}
  BY DEF Init
<1>2. QED  BY <1>1 DEF EndedInv, EndedLogsAreWhole

\* The steps that touch neither the records nor the tasks nor the results.
LEMMA EndedStays ==
  ASSUME EndedInv, UNCHANGED <<recs, tasks, results, ended>>
  PROVE  EndedInv'
  BY DEF EndedInv, EndedLogsAreWhole

LEMMA EndedNext == LogsTypeInv /\ EndedInv /\ [Next]_vars => EndedInv'
<1> SUFFICES ASSUME LogsTypeInv, EndedInv, [Next]_vars PROVE EndedInv'
  OBVIOUS
<1>0. DOMAIN <<>> = {}
  OBVIOUS
<1>1. ASSUME NEW s \in Setups, RunStarts(s) PROVE EndedInv'
  <2>1. /\ recs' = recs /\ results' = <<>> /\ tasks' = tasks
        /\ ended' = {r \in DOMAIN recs : recs[r].status \in JobFinal}
        /\ phase = "idle"
    BY <1>1 DEF RunStarts, NoLogs, gitlabVars
  <2>2. tasks = <<>>
    BY <2>1 DEF LogsTypeInv, PhaseOK
  <2>3. QED  BY <1>0, <2>1, <2>2 DEF EndedInv, EndedLogsAreWhole
<1>2. ASSUME NEW s \in Setups, RunRefused(s) PROVE EndedInv'
  <2>1. ended' = {}
    BY <1>2 DEF RunRefused
  <2>2. QED  BY <2>1 DEF EndedInv, EndedLogsAreWhole
<1>3. CASE Fails
  <2>1. ended' = {}
    BY <1>3 DEF Fails
  <2>2. QED  BY <2>1 DEF EndedInv, EndedLogsAreWhole
<1>4. CASE AskForJob
  <2>1. /\ tasks' = <<NewTask(ask.job)>> /\ ask.job \in DOMAIN recs
        /\ UNCHANGED <<recs, results, ended>>
    BY <1>4 DEF AskForJob, gitlabVars, logObservers
  <2>2. /\ NewTask(ask.job).job = ask.job
        /\ (/\ NewTask(ask.job).st = "done"
            /\ recs[ask.job].name \notin Chatty) => NewTask(ask.job).text = "whole"
    BY <2>1, NewTaskType, StoredIsWhole
  <2> DEFINE t == NewTask(ask.job)
  <2>3. tasks' = <<t>>
    BY <2>1
  <2>4. /\ t.job = ask.job
        /\ t.st = "done" /\ recs[ask.job].name \notin Chatty => t.text = "whole"
    BY <2>2
  <2> HIDE DEF t
  <2>5. DOMAIN tasks' = {1} /\ tasks'[1] = t
    BY <2>3
  <2>6. QED  BY <2>1, <2>4, <2>5 DEF EndedInv, EndedLogsAreWhole
<1>5. CASE Resolve
  BY <1>5, EndedStays DEF Resolve, gitlabVars, jobsVars
<1>6. CASE ReadJobs
  <2> DEFINE stored == PageKey \in DOMAIN pages
             rows == IF stored THEN pages[PageKey] ELSE Rows(recs, PageRows(page), 1)
             passed == {e.id : e \in {f \in rows : FilterPasses(f.st, f.id)}}
  <2>1. /\ UNCHANGED <<recs, results, ended>>
        /\ tasks' = TasksWith(passed) \/ tasks' = <<>>
    BY <1>6 DEF ReadJobs, Ends, gitlabVars
  <2>2. \A e \in rows : e.id \in DOMAIN recs
    <3>1. PageRows(page) \in SUBSET DOMAIN recs
      BY DEF PageRows, InScope, Live, Attempts
    <3>2. QED  BY <3>1, RowsProperties DEF LogsTypeInv, TypeOK, CachesOK
  <2>3. passed \in SUBSET DOMAIN recs
    BY <2>2
  <2> HIDE DEF passed
  <2>4. CASE tasks' = TasksWith(passed)
    <3>1. /\ \A i \in DOMAIN tasks : i \in DOMAIN tasks' /\ tasks'[i] = tasks[i]
          /\ \A i \in DOMAIN tasks' :
                i \in DOMAIN tasks \/ \E r \in passed : tasks'[i] = NewTask(r)
      BY <2>3, <2>4, TasksWithIs
    <3>2. \A r \in passed :
             /\ NewTask(r).job = r
             /\ (/\ NewTask(r).st = "done"
                 /\ recs[r].name \notin Chatty) => NewTask(r).text = "whole"
      BY <2>3, NewTaskType, StoredIsWhole
    <3>3. QED  BY <2>1, <3>1, <3>2 DEF EndedInv, EndedLogsAreWhole
  <2>5. CASE tasks' = <<>>
    BY <1>0, <2>1, <2>5 DEF EndedInv, EndedLogsAreWhole
  <2>6. QED  BY <2>1, <2>4, <2>5
<1>7. CASE LogsComplete
  <2>1. UNCHANGED <<recs, ended>> /\ tasks' = <<>>
    BY <1>7 DEF LogsComplete, Ends, gitlabVars, logObservers
  <2>2. \A r \in DOMAIN results' : \E i \in DOMAIN tasks :
            /\ tasks[i].job = r /\ tasks[i].st = "done"
            /\ results'[r] = tasks[i].text
    BY <1>7, LogsCompleteIs
  <2>3. QED  BY <1>0, <2>1, <2>2 DEF EndedInv, EndedLogsAreWhole
<1>8. ASSUME NEW i \in DOMAIN tasks, TaskReturns(i) \/ TaskFails(i)
      PROVE  EndedInv'
  <2> DEFINE r == tasks[i].job
  <2>1. /\ UNCHANGED <<recs, results, ended>>
        /\ SetTask(i, "done", Printed(r)) \/ SetTask(i, "failed", "none")
    BY <1>8 DEF TaskReturns, TaskFails, taskUnchanged, gitlabVars, logObservers
  <2>2. Printed(r) \in Text
    BY DEF Printed, Text
  <2>3. r \in ended => Printed(r) = "whole"
    BY DEF EndedInv, Printed
  <2>4. /\ DOMAIN tasks' = DOMAIN tasks
        /\ \A j \in DOMAIN tasks : j # i => tasks'[j] = tasks[j]
        /\ tasks'[i].job = r
        /\ tasks'[i].st = "done" => tasks'[i].text = Printed(r)
    BY <2>1, <2>2, SetTaskIs
  <2> HIDE DEF r
  <2>5. QED  BY <2>1, <2>3, <2>4 DEF EndedInv, EndedLogsAreWhole
<1>9. CASE GitLabWorks
  <2>1. UNCHANGED <<tasks, results, ended>>
    BY <1>9, GitLabWorksIs
  <2>2. \A r \in DOMAIN recs :
            /\ r \in DOMAIN recs' /\ recs'[r].name = recs[r].name
            /\ recs[r].status # "active" => recs'[r].status = recs[r].status
    BY <1>9, RecordsOfWorks DEF LogsTypeInv, TypeOK
  <2>3. ended \subseteq DOMAIN recs
    BY DEF LogsTypeInv, TypeOK
  <2>4. \A r \in ended : recs'[r].status \in JobFinal
    BY <2>2, <2>3 DEF EndedInv, JobFinal
  <2>5. QED  BY <2>1, <2>2, <2>3, <2>4 DEF EndedInv, EndedLogsAreWhole
<1>10. CASE \/ ResponsesExpire \/ LogsExpire
            \/ /\ phase = "idle" /\ TokenExpires
               /\ UNCHANGED <<gitlabVars, builds, resolveVars, jobsVars, logObservers>>
            \/ UNCHANGED vars
  BY <1>10, EndedStays
  DEF ResponsesExpire, LogsExpire, gitlabVars, jobsVars, logObservers, vars
<1>11. QED
  BY <1>1, <1>2, <1>3, <1>4, <1>5, <1>6, <1>7, <1>8, <1>9, <1>10 DEF Next

\* The log of a job that had ended before the run is whole, whatever earlier
\* runs have stored (core/logs.py): a partial log is never stored, except that
\* of a job that prints the marker itself.
THEOREM EndedLogsWhole == Spec => []EndedLogsAreWhole
<1>1. EndedInv => EndedLogsAreWhole
  BY DEF EndedInv
<1>2. QED  BY <1>1, EndedInit, EndedNext, LogsAlwaysTyped, PTL DEF Spec

-----------------------------------------------------------------------------
(* The nearest pipeline.                                                   *)

Recent == get_recent_shas(RefAsked)
Missing == Len(Recent) - Len(queue)

\* While the commits are walked over, the queue holds the rest of them, and no
\* pipeline that was there at the start is of the ref or of a commit asked for.
WalkOK ==
    phase = "walking" =>
        /\ ask.pipeline = 0 /\ RefAsked.kind # "none"
        /\ Len(queue) <= Len(Recent)
        /\ \A i \in 1 .. Len(queue) : queue[i] = Recent[Missing + i]
        /\ ~usedCache => \A p \in 1 .. before :
              /\ ~Lists(RefAsked, builds[p])
              /\ \A k \in 1 .. Missing : builds[p].sha # Recent[k]

\* How far a pipeline is from what was asked for, in terms of the commits
\* walked over.
LEMMA DistanceIs ==
  ASSUME LogsTypeInv, RefAsked.kind # "none", NEW p \in DOMAIN builds
  PROVE  /\ Lists(RefAsked, builds[p]) => Distance(p) = 0
         /\ ~Lists(RefAsked, builds[p]) =>
               \/ /\ \A k \in 1 .. Len(Recent) : builds[p].sha # Recent[k]
                  /\ Distance(p) = Far
               \/ \E k \in 1 .. Len(Recent) : builds[p].sha = Recent[k] /\ Distance(p) = k
<1> DEFINE tip == Revision(RefAsked)
           allowed == IF ask.ref = NoRef THEN ask.depth
                      ELSE CHOOSE d \in {0, 1} : d = 1 <=> ask.depth > 0
           sha == builds[p].sha
<1>1. /\ tip \in 0 .. LastCommit /\ Depth \in Nat
      /\ Len(Recent) = IF Depth < tip THEN Depth ELSE tip
      /\ \A i \in 1 .. Len(Recent) : Recent[i] = tip + 1 - i
  BY RecentShas DEF Recent
<1>2. allowed = Depth
  <2>1. ask.depth \in Nat
    BY DEF LogsTypeInv, TypeOK, ResolveTypeOK, Ask
  <2>2. CASE ask.ref = NoRef
    BY <2>2 DEF Depth, IsExplicit
  <2>3. CASE ask.ref # NoRef
    <3>1. Depth = IF ask.depth > 1 THEN 1 ELSE ask.depth
      BY <2>3 DEF Depth, IsExplicit
    <3>2. Depth \in {0, 1} /\ (Depth = 1 <=> ask.depth > 0)
      BY <2>1, <3>1
    <3>3. (CHOOSE d \in {0, 1} : d = 1 <=> ask.depth > 0) = Depth
      BY <3>2
    <3>4. QED  BY <2>3, <3>3
  <2>4. QED  BY <2>2, <2>3
<1>3. sha \in Nat /\ sha > 0
  <2>1. builds[p] \in Builds
    BY ElementOfSeq, LenProperties DEF LogsTypeInv, BuildsOK
  <2>2. builds[p].sha \in Commit
    BY <2>1 DEF Builds
  <2>3. QED  BY <2>2, LastCommitAssumption DEF Commit
<1>4. ~Lists(RefAsked, builds[p]) =>
         Distance(p) = IF \E k \in 1 .. allowed : sha = tip + 1 - k
                       THEN tip + 1 - sha ELSE Far
  BY DEF Distance
<1>5. Lists(RefAsked, builds[p]) => Distance(p) = 0
  BY DEF Distance
<1> HIDE DEF tip, allowed, sha
<1>6. CASE \E k \in 1 .. allowed : sha = tip + 1 - k
  <2>1. PICK k \in 1 .. allowed : sha = tip + 1 - k
    BY <1>6
  <2>2. k \in 1 .. Len(Recent) /\ tip + 1 - sha = k
    BY <1>1, <1>2, <1>3, <2>1
  <2>3. sha = Recent[k]
    BY <1>1, <2>1, <2>2
  <2>4. ~Lists(RefAsked, builds[p]) => Distance(p) = k
    BY <1>4, <1>6, <2>2
  <2>5. QED  BY <1>5, <2>2, <2>3, <2>4 DEF sha
<1>7. CASE ~\E k \in 1 .. allowed : sha = tip + 1 - k
  <2>1. \A k \in 1 .. Len(Recent) : sha # Recent[k]
    BY <1>1, <1>2, <1>7
  <2>2. QED  BY <1>4, <1>5, <1>7, <2>1 DEF sha
<1>8. QED  BY <1>6, <1>7

\* No distance of a commit walked over is that of one out of reach.
LEMMA RecentIsNear ==
  ASSUME LogsTypeInv, RefAsked.kind # "none"
  PROVE  Far \in Nat /\ Far # 0 /\ Len(Recent) \in Nat /\ Len(Recent) < Far
<1>1. /\ Revision(RefAsked) \in 0 .. LastCommit /\ Depth \in Nat
      /\ Len(Recent) = IF Depth < Revision(RefAsked) THEN Depth ELSE Revision(RefAsked)
  BY RecentShas DEF Recent
<1>2. QED  BY <1>1, LastCommitAssumption DEF Far

\* A pipeline listed for the ref by its name is the nearest one.
LEMMA FoundByName ==
  ASSUME LogsTypeInv, RefAsked.kind # "none", NEW q \in DOMAIN builds,
         Lists(RefAsked, builds[q]),
         \A p \in PipelinesOf(RefAsked) : p <= q
  PROVE  /\ Distance(q) # Far
         /\ \A p \in DOMAIN builds : Distance(p) # Far =>
               \/ Distance(q) < Distance(p)
               \/ Distance(q) = Distance(p) /\ q >= p
<1>1. Distance(q) = 0 /\ Far # 0 /\ Len(Recent) \in Nat
  BY DistanceIs, RecentIsNear
<1>2. ASSUME NEW p \in DOMAIN builds, Distance(p) # Far
      PROVE  \/ Distance(q) < Distance(p)
             \/ Distance(q) = Distance(p) /\ q >= p
  <2>1. CASE Lists(RefAsked, builds[p])
    <3>1. p <= q /\ p \in Nat /\ q \in Nat
      BY <2>1, LenProperties DEF PipelinesOf, LogsTypeInv, BuildsOK
    <3>2. QED  BY <1>1, <2>1, <3>1, DistanceIs
  <2>2. CASE ~Lists(RefAsked, builds[p])
    <3>1. PICK k \in 1 .. Len(Recent) : Distance(p) = k
      BY <1>2, <2>2, DistanceIs
    <3>2. QED  BY <1>1, <3>1
  <2>3. QED  BY <2>1, <2>2
<1>3. QED  BY <1>1, <1>2

\* So is the one of the first commit that has any.
LEMMA FoundByCommit ==
  ASSUME LogsTypeInv, RefAsked.kind # "none", NEW q \in DOMAIN builds,
         NEW m \in 1 .. Len(Recent), builds[q].sha = Recent[m],
         \A p \in PipelinesOf(Sha(Recent[m])) : p <= q,
         \A p \in 1 .. before : /\ ~Lists(RefAsked, builds[p])
                                /\ \A k \in 1 .. (m - 1) : builds[p].sha # Recent[k]
  PROVE  /\ Distance(q) # Far
         /\ \A p \in 1 .. before : Distance(p) # Far =>
               \/ Distance(q) < Distance(p)
               \/ Distance(q) = Distance(p) /\ q >= p
<1>1. /\ Far \in Nat /\ Far # 0 /\ Len(Recent) \in Nat /\ Len(Recent) < Far
      /\ \A i \in 1 .. Len(Recent) : Recent[i] = Revision(RefAsked) + 1 - i
      /\ Revision(RefAsked) \in Int
  BY RecentIsNear, RecentShas DEF Recent
<1>2. Distance(q) = 0 \/ Distance(q) = m
  <2>1. CASE Lists(RefAsked, builds[q])
    BY <2>1, DistanceIs
  <2>2. CASE ~Lists(RefAsked, builds[q])
    <3>1. PICK k \in 1 .. Len(Recent) : builds[q].sha = Recent[k] /\ Distance(q) = k
      BY <2>2, DistanceIs
    <3>2. /\ Recent[k] = Revision(RefAsked) + 1 - k
          /\ Recent[m] = Revision(RefAsked) + 1 - m
          /\ Recent[k] = Recent[m]
      BY <1>1, <3>1
    <3>4. k = m
      BY <1>1, <3>2
    <3>3. QED  BY <3>1, <3>4
  <2>3. QED  BY <2>1, <2>2
<1>3. ASSUME NEW p \in 1 .. before, Distance(p) # Far
      PROVE  \/ Distance(q) < Distance(p)
             \/ Distance(q) = Distance(p) /\ q >= p
  <2>1. p \in DOMAIN builds /\ p \in Nat /\ q \in Nat
    BY LenProperties DEF LogsTypeInv, TypeOK, ResolveTypeOK, BuildsOK
  <2>2. PICK k \in 1 .. Len(Recent) : builds[p].sha = Recent[k] /\ Distance(p) = k
    BY <1>3, <2>1, DistanceIs
  <2>3. k >= m
    BY <1>1, <2>2
  <2>4. CASE k = m
    <3>1. p \in PipelinesOf(Sha(Recent[m]))
      BY <2>1, <2>2, <2>4 DEF PipelinesOf, Lists, Sha
    <3>2. p <= q
      BY <3>1
    <3>3. QED  BY <1>2, <2>1, <2>2, <2>4, <3>2
  <2>5. CASE k # m
    BY <1>1, <1>2, <2>2, <2>3, <2>5
  <2>6. QED  BY <2>4, <2>5
<1>4. Distance(q) # Far
  BY <1>1, <1>2
<1>5. QED  BY <1>3, <1>4

\* When the queue is empty there was nothing to find.
LEMMA NothingToFind ==
  ASSUME LogsTypeInv, WalkOK, NothingFound, ~usedCache
  PROVE  \A p \in 1 .. before : Distance(p) = Far
<1> SUFFICES ASSUME NEW p \in 1 .. before PROVE Distance(p) = Far
  OBVIOUS
<1>1. p \in DOMAIN builds
  BY LenProperties DEF LogsTypeInv, TypeOK, ResolveTypeOK, BuildsOK
<1>2. Len(queue) = 0
  BY EmptySeq DEF NothingFound
<1>3. RefAsked.kind # "none"
  BY DEF WalkOK, NothingFound
<1>4. Len(Recent) \in Nat /\ Missing = Len(Recent)
  BY <1>2, <1>3, RecentIsNear DEF Missing
<1>5. /\ ~Lists(RefAsked, builds[p])
      /\ \A k \in 1 .. Len(Recent) : builds[p].sha # Recent[k]
  BY <1>4 DEF WalkOK, NothingFound
<1>6. QED  BY <1>1, <1>3, <1>5, DistanceIs

WalkInv == WalkOK /\ (phase = "listing" => NearestPipeline)

LEMMA WalkInit == Init => WalkInv
  BY DEF Init, ResolveInit, WalkInv, WalkOK

\* Whether the search is right depends on what is searched alone.
LEMMA WalkStays ==
  ASSUME WalkInv,
         UNCHANGED <<builds, clone, ask, phase, queue, chosen, before, usedCache>>
  PROVE  WalkInv'
<1>1. /\ RefAsked' = RefAsked /\ Depth' = Depth /\ Recent' = Recent
      /\ Missing' = Missing /\ Revision(RefAsked)' = Revision(RefAsked)
  BY DEF RefAsked, IsExplicit, get_current_branch, Depth, Recent, Missing,
         get_recent_shas, Revision
<1>2. WalkOK'
  BY <1>1 DEF WalkInv, WalkOK, Lists
<1>3. \A p : Distance(p)' = Distance(p)
  BY <1>1 DEF Distance, Lists
<1>4. NearestPipeline => NearestPipeline'
  BY <1>3 DEF NearestPipeline, NothingFound, Far
<1>5. QED  BY <1>2, <1>4 DEF WalkInv

\* A new pipeline is none of those that were there at the start.
LEMMA WalkBuild ==
  ASSUME LogsTypeInv, WalkInv, GitLabWorks
  PROVE  WalkInv'
<1>1. UNCHANGED <<clone, ask, phase, queue, chosen, before, usedCache>>
  BY GitLabWorksIs
<1>2. CASE UNCHANGED builds
  BY <1>1, <1>2, WalkStays
<1>3. CASE /\ phase \notin {"listing", "awaiting"}
           /\ \E b \in Builds : builds' = Append(builds, b)
  <2>1. /\ RefAsked' = RefAsked /\ Recent' = Recent /\ Missing' = Missing
    BY <1>1 DEF RefAsked, IsExplicit, get_current_branch, Depth, Recent, Missing,
           get_recent_shas, Revision
  <2>2. \A p \in 1 .. before : builds'[p] = builds[p]
    <3>1. PICK b \in Builds : builds' = Append(builds, b)
      BY <1>3
    <3>2. builds \in Seq(Builds) /\ before \in 0 .. Len(builds) /\ Len(builds) \in Nat
      BY LenProperties DEF LogsTypeInv, TypeOK, ResolveTypeOK, BuildsOK
    <3>3. \A p \in 1 .. Len(builds) : builds'[p] = builds[p]
      BY <3>1, <3>2, AppendProperties
    <3>4. QED  BY <3>2, <3>3
  <2>3. WalkOK'
    BY <1>1, <2>1, <2>2 DEF WalkInv, WalkOK, Lists
  <2>4. QED  BY <1>1, <1>3, <2>3 DEF WalkInv
<1>4. QED  BY <1>2, <1>3, GitLabWorksIs

\* The search for the pipeline finds the nearest one or goes on.
LEMMA WalkResolve ==
  ASSUME LogsTypeInv, WalkInv, Resolve
  PROVE  WalkInv'
<1>1. UNCHANGED <<builds, clone, ask, before>>
  BY DEF Resolve, ResolveById, AskForRef, AskForCommit
<1>2. /\ RefAsked' = RefAsked /\ Recent' = Recent /\ Revision(RefAsked)' = Revision(RefAsked)
  BY <1>1 DEF RefAsked, IsExplicit, get_current_branch, Depth, Recent,
         get_recent_shas, Revision
<1>3. \A p : Distance(p)' = Distance(p)
  BY <1>1, <1>2 DEF Distance, Lists
<1>4. /\ builds \in Seq(Builds) /\ Len(builds) \in Nat /\ DOMAIN builds = 1 .. Len(builds)
      /\ before \in 0 .. Len(builds) /\ queue \in Seq(Commit) /\ Len(queue) \in Nat
  BY LenProperties DEF LogsTypeInv, TypeOK, ResolveTypeOK, BuildsOK
<1>5. \A p \in 1 .. before : p \in DOMAIN builds
  BY <1>4
<1>6. CASE ResolveById
  <2>1. phase' = "listing" /\ ask.pipeline # 0
    BY <1>4, <1>6 DEF ResolveById, Found
  <2>2. QED  BY <1>1, <2>1 DEF WalkInv, WalkOK, NearestPipeline
<1>7. CASE AskForRef
  <2> DEFINE found == Answer(RefAsked)
  <2>1. /\ RefAsked.kind # "none" /\ list_pipelines(RefAsked, found)
        /\ ask.pipeline = 0
        /\ IF found # {} THEN Found(Latest(found)) /\ UNCHANGED queue
           ELSE /\ queue' = get_recent_shas(RefAsked)
                /\ phase' = "walking" /\ UNCHANGED chosen
    BY <1>7 DEF AskForRef
  <2>2. /\ found \subseteq DOMAIN builds
        /\ ~usedCache' => found = PipelinesOf(RefAsked)
    BY <2>1, ListPipelines
  <2> HIDE DEF found
  <2>3. CASE found # {}
    <3>1. phase' = "listing" /\ chosen' = Latest(found)
      BY <2>1, <2>3 DEF Found
    <3>2. Latest(found) \in found /\ \A y \in found : y <= Latest(found)
      BY <1>4, <2>2, <2>3, LatestIsLast
    <3>3. ASSUME ~usedCache'
          PROVE  /\ Distance(chosen') # Far
                 /\ \A p \in DOMAIN builds : Distance(p) # Far =>
                       \/ Distance(chosen') < Distance(p)
                       \/ Distance(chosen') = Distance(p) /\ chosen' >= p
      <4> DEFINE q == Latest(found)
      <4>1. /\ q \in DOMAIN builds /\ Lists(RefAsked, builds[q])
            /\ \A p \in PipelinesOf(RefAsked) : p <= q
        BY <2>2, <3>2, <3>3 DEF PipelinesOf
      <4>2. chosen' = q
        BY <3>1
      <4> HIDE DEF q
      <4>3. /\ Distance(q) # Far
            /\ \A p \in DOMAIN builds : Distance(p) # Far =>
                  \/ Distance(q) < Distance(p)
                  \/ Distance(q) = Distance(p) /\ q >= p
        BY <2>1, <4>1, FoundByName
      <4>4. QED  BY <4>2, <4>3
    <3>4. chosen' # 0
      BY <1>4, <2>2, <3>1, <3>2
    <3>5. NearestPipeline'
      BY <1>1, <1>3, <1>5, <3>3, <3>4 DEF NearestPipeline, Far
    <3>6. QED  BY <3>1, <3>5 DEF WalkInv, WalkOK
  <2>4. CASE found = {}
    <3>1. phase' = "walking" /\ queue' = Recent
      BY <2>1, <2>4 DEF Recent
    <3>2. Len(Recent) \in Nat
      BY <2>1, RecentIsNear
    <3>3. Missing' = 0 /\ Len(queue') = Len(Recent)
      BY <1>2, <3>1, <3>2 DEF Missing
    <3>4. ASSUME ~usedCache', NEW p \in 1 .. before
          PROVE  ~Lists(RefAsked, builds[p])
      BY <1>5, <2>2, <2>4, <3>4 DEF PipelinesOf
    <3>5. \A i \in 1 .. Len(Recent) : queue'[i] = Recent[0 + i]
      BY <3>1, <3>2
    <3>6. \A p \in 1 .. before : Lists(RefAsked, builds[p])' = Lists(RefAsked, builds[p])
      BY <1>1, <1>2 DEF Lists
    <3>7. WalkOK'
      BY <1>1, <1>2, <2>1, <3>2, <3>3, <3>4, <3>5, <3>6 DEF WalkOK
    <3>8. QED  BY <3>1, <3>7 DEF WalkInv
  <2>5. QED  BY <2>3, <2>4
<1>8. CASE AskForCommit
  <2> DEFINE c == Head(queue)  found == Answer(Sha(c))  m == Missing + 1
  <2>1. /\ queue # <<>> /\ queue' = Tail(queue) /\ list_pipelines(Sha(c), found)
        /\ phase = "walking"
        /\ IF found # {} THEN Found(Latest(found)) ELSE UNCHANGED <<phase, chosen>>
    BY <1>8 DEF AskForCommit
  <2>2. /\ found \subseteq DOMAIN builds
        /\ ~usedCache' => ~usedCache /\ found = PipelinesOf(Sha(c))
    BY <2>1, ListPipelines
  <2>3. /\ ask.pipeline = 0 /\ RefAsked.kind # "none"
        /\ Len(queue) <= Len(Recent) /\ Len(Recent) \in Nat
        /\ \A i \in 1 .. Len(queue) : queue[i] = Recent[Missing + i]
        /\ ~usedCache => \A p \in 1 .. before :
              /\ ~Lists(RefAsked, builds[p])
              /\ \A k \in 1 .. Missing : builds[p].sha # Recent[k]
    BY <2>1, RecentIsNear DEF WalkInv, WalkOK
  <2>4. /\ Len(queue) # 0 /\ c = queue[1] /\ Len(queue') = Len(queue) - 1
        /\ \A i \in 1 .. (Len(queue) - 1) : queue'[i] = queue[i + 1]
    BY <1>4, <2>1, HeadTailProperties, EmptySeq
  <2>5. m \in 1 .. Len(Recent) /\ Missing = m - 1 /\ c = Recent[m]
    BY <1>4, <2>3, <2>4 DEF Missing
  <2> HIDE DEF c, found, m
  <2>6. CASE found # {}
    <3>1. phase' = "listing" /\ chosen' = Latest(found)
      BY <2>1, <2>6 DEF Found
    <3>2. Latest(found) \in found /\ \A y \in found : y <= Latest(found)
      BY <1>4, <2>2, <2>6, LatestIsLast
    <3>3. ASSUME ~usedCache'
          PROVE  /\ Distance(chosen') # Far
                 /\ \A p \in 1 .. before : Distance(p) # Far =>
                       \/ Distance(chosen') < Distance(p)
                       \/ Distance(chosen') = Distance(p) /\ chosen' >= p
      <4> DEFINE q == Latest(found)
      <4>1. /\ q \in DOMAIN builds /\ builds[q].sha = Recent[m]
            /\ \A p \in PipelinesOf(Sha(Recent[m])) : p <= q
        BY <2>2, <2>5, <3>2, <3>3 DEF PipelinesOf, Lists, Sha
      <4>2. chosen' = q
        BY <3>1
      <4> HIDE DEF q
      <4>3. \A p \in 1 .. before : /\ ~Lists(RefAsked, builds[p])
                                   /\ \A k \in 1 .. (m - 1) : builds[p].sha # Recent[k]
        BY <2>2, <2>3, <2>5, <3>3
      <4>4. /\ Distance(q) # Far
            /\ \A p \in 1 .. before : Distance(p) # Far =>
                  \/ Distance(q) < Distance(p)
                  \/ Distance(q) = Distance(p) /\ q >= p
        BY <2>3, <2>5, <4>1, <4>3, FoundByCommit
      <4>5. QED  BY <4>2, <4>4
    <3>4. chosen' # 0
      BY <1>4, <2>2, <3>1, <3>2
    <3>5. NearestPipeline'
      BY <1>1, <1>3, <3>3, <3>4 DEF NearestPipeline, Far
    <3>6. QED  BY <3>1, <3>5 DEF WalkInv, WalkOK
  <2>7. CASE found = {}
    <3>1. phase' = "walking"
      BY <2>1, <2>7
    <3>2. Missing' = m /\ Len(queue') <= Len(Recent)
      BY <1>2, <1>4, <2>3, <2>4, <2>5 DEF Missing
    <3>3. \A i \in 1 .. Len(queue') : queue'[i] = Recent[m + i]
      <4> SUFFICES ASSUME NEW i \in 1 .. Len(queue')
                   PROVE  queue'[i] = Recent[m + i]
        OBVIOUS
      <4>1. queue'[i] = queue[i + 1] /\ i + 1 \in 1 .. Len(queue)
        BY <1>4, <2>4
      <4>2. queue[i + 1] = Recent[Missing + (i + 1)]
        BY <2>3, <4>1
      <4>3. Missing + (i + 1) = m + i
        BY <2>5
      <4>4. QED  BY <4>1, <4>2, <4>3
    <3>4. ASSUME ~usedCache', NEW p \in 1 .. before
          PROVE  /\ ~Lists(RefAsked, builds[p])
                 /\ \A k \in 1 .. m : builds[p].sha # Recent[k]
      <4>1. builds[p].sha # Recent[m]
        BY <1>5, <2>2, <2>5, <2>7, <3>4 DEF PipelinesOf, Lists, Sha
      <4>2. \A k \in 1 .. (m - 1) : builds[p].sha # Recent[k]
        BY <2>2, <2>3, <2>5, <3>4
      <4>3. \A k \in 1 .. m : k = m \/ k \in 1 .. (m - 1)
        BY <2>5
      <4>4. QED  BY <2>2, <2>3, <3>4, <4>1, <4>2, <4>3
    <3>5. \A p \in 1 .. before : Lists(RefAsked, builds[p])' = Lists(RefAsked, builds[p])
      BY <1>1, <1>2 DEF Lists
    <3>6. WalkOK'
      BY <1>1, <1>2, <2>3, <3>2, <3>3, <3>4, <3>5 DEF WalkOK
    <3>7. QED  BY <3>1, <3>6 DEF WalkInv
  <2>8. QED  BY <2>6, <2>7
<1>9. QED  BY <1>6, <1>7, <1>8 DEF Resolve

LEMMA WalkNext == LogsTypeInv /\ WalkInv /\ [Next]_vars => WalkInv'
<1> SUFFICES ASSUME LogsTypeInv, WalkInv, [Next]_vars PROVE WalkInv'
  OBVIOUS
<1>1. ASSUME phase' \notin {"walking", "listing"} PROVE WalkInv'
  BY <1>1 DEF WalkInv, WalkOK
<1>2. ASSUME NEW s \in Setups, RunStarts(s) \/ RunRefused(s) PROVE WalkInv'
  BY <1>1, <1>2 DEF RunStarts, RunRefused, Ends
<1>3. CASE AskForJob \/ LogsComplete \/ Fails
  BY <1>1, <1>3 DEF AskForJob, LogsComplete, Fails, Ends
<1>4. CASE ReadJobs
  <2>1. UNCHANGED <<builds, clone, ask, chosen>> /\ phase = "listing"
    BY <1>4 DEF ReadJobs
  <2>2. \/ UNCHANGED <<phase, queue, before, usedCache>>
        \/ phase' \notin {"walking", "listing"}
    BY <1>4 DEF ReadJobs, Ends
  <2>3. QED  BY <1>1, <2>1, <2>2, WalkStays
<1>5. ASSUME NEW i \in DOMAIN tasks, TaskReturns(i) \/ TaskFails(i)
      PROVE  WalkInv'
  BY <1>5, WalkStays DEF TaskReturns, TaskFails, taskUnchanged, resolveVars
<1>6. CASE \/ ResponsesExpire \/ LogsExpire
           \/ /\ phase = "idle" /\ TokenExpires
              /\ UNCHANGED <<gitlabVars, builds, resolveVars, jobsVars, logObservers>>
           \/ UNCHANGED vars
  BY <1>6, WalkStays DEF ResponsesExpire, LogsExpire, resolveVars, vars
<1>7. QED
  BY <1>2, <1>3, <1>4, <1>5, <1>6, WalkResolve, WalkBuild DEF Next

\* The pipeline found is the nearest one to what was asked for, of those that
\* existed when the command started, and the latest one of these, although
\* pipelines are built in the meantime (core/pipeline.py).
THEOREM NearestIsFound == Spec => []NearestPipeline
<1>1. LogsTypeInv /\ WalkInv => NearestPipeline
  <2> SUFFICES ASSUME LogsTypeInv, WalkInv PROVE NearestPipeline
    OBVIOUS
  <2>1. CASE phase = "listing"
    BY <2>1 DEF WalkInv
  <2>2. CASE NothingFound /\ ~usedCache
    <3>1. chosen = 0
      BY <2>2 DEF NothingFound, LogsTypeInv, PhaseOK
    <3>2. \A p \in 1 .. before : Distance(p) = Far
      BY <2>2, NothingToFind DEF WalkInv
    <3>3. QED  BY <3>1, <3>2 DEF NearestPipeline
  <2>3. CASE phase # "listing" /\ ~(NothingFound /\ ~usedCache)
    BY <2>3 DEF NearestPipeline
  <2>4. QED  BY <2>1, <2>2, <2>3
<1>2. QED  BY <1>1, WalkInit, WalkNext, LogsAlwaysTyped, PTL DEF Spec

-----------------------------------------------------------------------------
(* The matches of a listing.                                               *)

TaskJobs == {tasks[i].job : i \in DOMAIN tasks}
Newer(r) == {s \in InScope : s > r}
OneScope == ask.failedOnly => Cardinality(Name) <= PageSize

\* A match has a task, or is still to come: as many rows are newer than it as
\* are on the pages read so far.
StillToCome(r) == r \in TaskJobs \/ Cardinality(Newer(r)) >= PageSize * (page - 1)
Matches == matched \cap Live(recs, chosen)

MatchedInv ==
    /\ \A r \in matched : FilterPasses(recs[r].status, r)
    /\ ~usedPages /\ OneScope =>
          /\ phase = "listing" => /\ ask.failedOnly => page = 1
                                  /\ \A r \in Matches : StillToCome(r)
          /\ phase = "awaiting" /\ chosen # 0 => Matches \subseteq TaskJobs
          /\ outcome \in {"logs", "empty"} /\ chosen # 0 => Matches \subseteq DOMAIN results

\* The rows of a listing are finitely many newest records.
LEMMA ScopeIs ==
  ASSUME LogsTypeInv
  PROVE  /\ InScope \in SUBSET Live(recs, chosen)
         /\ Live(recs, chosen) \in SUBSET DOMAIN recs
         /\ \A r \in Live(recs, chosen) : r \in Nat
         /\ IsFiniteSet(InScope) /\ Cardinality(InScope) \in Nat
         /\ \A r : Cardinality(Newer(r)) \in Nat
<1>1. InScope \in SUBSET Live(recs, chosen) /\ Live(recs, chosen) \in SUBSET DOMAIN recs
  BY DEF InScope, Live, Attempts
<1>2. \A r \in DOMAIN recs : r \in Nat
  BY LenProperties DEF LogsTypeInv, TypeOK, GitLabTypeOK
<1>3. IsFiniteSet(InScope) /\ Cardinality(InScope) \in Nat
  BY <1>1, RecordSetIsFinite DEF LogsTypeInv, TypeOK
<1>4. ASSUME NEW r PROVE Cardinality(Newer(r)) \in Nat
  <2>1. Newer(r) \in SUBSET DOMAIN recs
    BY <1>1 DEF Newer
  <2>2. QED  BY <2>1, RecordSetIsFinite DEF LogsTypeInv, TypeOK
<1>5. QED  BY <1>1, <1>2, <1>3, <1>4

\* GitLab's own steps hide newest records, and never put an old one further
\* to the front of the listing.
LEMMA LiveOfWorks ==
  ASSUME LogsTypeInv, GitLabWorks
  PROVE  /\ Live(recs', chosen) \cap DOMAIN recs \subseteq Live(recs, chosen)
         /\ \A r \in Live(recs', chosen) \cap DOMAIN recs :
               Cardinality({s \in Live(recs', chosen) : s > r})
                  >= Cardinality({s \in Live(recs, chosen) : s > r})
<1>1. GitLabTypeOK
  BY DEF LogsTypeInv, TypeOK
<1>2. CASE CreatePipeline
  <2>1. chosen # Len(pstat) + 1
    BY LenProperties DEF LogsTypeInv, TypeOK, ResolveTypeOK, GitLabTypeOK
  <2>2. Live(recs', chosen) = Live(recs, chosen)
    BY <1>1, <1>2, <2>1, CreateLive
  <2>3. \A r : Cardinality({s \in Live(recs, chosen) : s > r}) \in Nat
    <3>1. \A r : {s \in Live(recs, chosen) : s > r} \in SUBSET DOMAIN recs
      BY DEF Live, Attempts
    <3>2. QED  BY <1>1, <3>1, RecordSetIsFinite
  <2>4. QED  BY <2>2, <2>3
<1>3. ASSUME NEW q \in DOMAIN recs, JobFinishes(q) \/ OtherRetry(q)
      PROVE  /\ Live(recs', chosen) \cap DOMAIN recs \subseteq Live(recs, chosen)
             /\ \A r \in Live(recs', chosen) \cap DOMAIN recs :
                   Cardinality({s \in Live(recs', chosen) : s > r})
                      >= Cardinality({s \in Live(recs, chosen) : s > r})
  BY <1>1, <1>3, LiveGoesOn
<1>4. QED  BY <1>2, <1>3, GitLabWorksIs

\* Whether a record passes the filters depends on its status and its name.
LEMMA FiltersOfWorks ==
  ASSUME LogsTypeInv, MatchedInv, GitLabWorks
  PROVE  (\A r \in matched : FilterPasses(recs[r].status, r))'
<1>1. ask' = ask /\ matched' = matched
  BY GitLabWorksIs
<1>2. ASSUME NEW r \in matched
      PROVE  FilterPasses(recs[r].status, r)'
  <2>1. /\ r \in DOMAIN recs' /\ recs'[r].name = recs[r].name
        /\ recs[r].status # "active" => recs'[r].status = recs[r].status
    BY RecordsOfWorks DEF LogsTypeInv, TypeOK
  <2>2. FilterPasses(recs[r].status, r)
    BY DEF MatchedInv
  <2>3. CASE ask.failedOnly
    BY <1>1, <2>1, <2>2, <2>3 DEF FilterPasses
  <2>4. CASE ~ask.failedOnly
    BY <1>1, <2>4 DEF FilterPasses
  <2>5. QED  BY <2>3, <2>4
<1>3. QED  BY <1>1, <1>2

LEMMA MatchedWorks ==
  ASSUME LogsTypeInv, LogsTypeInv', MatchedInv, GitLabWorks
  PROVE  MatchedInv'
<1>1. /\ UNCHANGED <<ask, phase, chosen, page, tasks, outcome, results, matched, usedPages>>
      /\ TaskJobs' = TaskJobs
  BY GitLabWorksIs DEF TaskJobs
<1>2. Matches' \subseteq Matches
  <2>1. matched \subseteq DOMAIN recs
    BY DEF LogsTypeInv, TypeOK
  <2>2. QED  BY <1>1, <2>1, LiveOfWorks DEF Matches
<1>3. ASSUME ~usedPages, OneScope, phase = "listing", NEW r \in Matches'
      PROVE  StillToCome(r)'
  <2>1. /\ ask.failedOnly => page = 1
        /\ r \in TaskJobs \/ Cardinality(Newer(r)) >= PageSize * (page - 1)
    BY <1>2, <1>3 DEF MatchedInv, StillToCome
  <2>2. /\ Cardinality(Newer(r)) \in Nat /\ PageSize \in Nat /\ page \in Nat
        /\ Cardinality(Newer(r)') \in Nat
    <3>1. Cardinality(Newer(r)) \in Nat
      BY ScopeIs
    <3>2. IsFiniteSet(Newer(r)')
      <4>1. Newer(r)' \in SUBSET DOMAIN recs' /\ GitLabTypeOK'
        BY DEF Newer, InScope, Live, Attempts, LogsTypeInv, TypeOK
      <4>2. Len(recs') \in Nat /\ DOMAIN recs' = 1 .. Len(recs')
        BY <4>1, LenProperties DEF GitLabTypeOK
      <4>3. IsFiniteSet(DOMAIN recs')
        BY <4>2, FS_Interval
      <4>4. QED  BY <4>1, <4>3, FS_Subset
    <3>3. QED
      BY <3>1, <3>2, FS_CardinalityType, GitLabAssumption DEF LogsTypeInv, TypeOK
  <2>3. CASE ask.failedOnly
    <3>1. PageSize * (page - 1) = 0
      BY <2>1, <2>2, <2>3
    <3>2. QED  BY <1>1, <2>2, <3>1 DEF StillToCome
  <2>4. CASE ~ask.failedOnly
    <3>1. Newer(r) = {s \in Live(recs, chosen) : s > r}
      BY <2>4 DEF Newer, InScope
    <3>2. Newer(r)' = {s \in Live(recs', chosen) : s > r}
      BY <1>1, <2>4 DEF Newer, InScope
    <3>3. r \in Live(recs', chosen) \cap DOMAIN recs
      BY <1>1 DEF Matches, LogsTypeInv, TypeOK
    <3>4. Cardinality(Newer(r)') >= Cardinality(Newer(r))
      BY <3>1, <3>2, <3>3, LiveOfWorks
    <3> DEFINE A == PageSize * (page - 1)
    <3>5. A \in Int
      BY <2>2
    <3>6. r \in TaskJobs \/ Cardinality(Newer(r)) >= A
      BY <2>1
    <3> HIDE DEF A
    <3>7. r \in TaskJobs \/ Cardinality(Newer(r)') >= A
      BY <2>2, <3>4, <3>5, <3>6
    <3>8. QED  BY <1>1, <3>7 DEF A, StillToCome
  <2>5. QED  BY <2>3, <2>4
<1>4. OneScope' = OneScope
  BY <1>1 DEF OneScope
<1>5. QED
  BY <1>1, <1>2, <1>3, <1>4, FiltersOfWorks DEF MatchedInv

\* One more page is a page's rows more.
LEMMA PagesAddUp ==
  ASSUME NEW a \in Nat, NEW k \in Nat
  PROVE  a * k \in Nat /\ a * (k + 1) = a * k + a
  OBVIOUS

\* A page that GitLab answers: a match that is still to come is on it, or is
\* still to come after it; after the last page none is.
LEMMA MatchedRead ==
  ASSUME LogsTypeInv, MatchedInv, ReadJobs
  PROVE  MatchedInv'
<1> DEFINE stored == PageKey \in DOMAIN pages
           rows == IF stored THEN pages[PageKey] ELSE Rows(recs, PageRows(page), 1)
           more == ~stored /\ HasNext(page)
           passed == {e.id : e \in {f \in rows : FilterPasses(f.st, f.id)}}
<1>1. /\ phase = "listing"
      /\ \/ /\ more \/ TasksWith(passed) # <<>>
            /\ tasks' = TasksWith(passed)
            /\ IF more THEN page' = page + 1 /\ UNCHANGED phase
               ELSE phase' = "awaiting" /\ UNCHANGED page
            /\ UNCHANGED outcome
         \/ ~more /\ TasksWith(passed) = <<>> /\ Ends("empty")
      /\ UNCHANGED <<recs, ask, chosen, results, matched>>
  BY DEF ReadJobs, gitlabVars
<1>2. usedPages' = (usedPages \/ stored)
  BY DEF ReadJobs
<1>3. /\ Live(recs, chosen)' = Live(recs, chosen) /\ InScope' = InScope
      /\ Matches' = Matches /\ OneScope' = OneScope
      /\ (\A r \in matched : FilterPasses(recs[r].status, r))'
  <2>1. Live(recs, chosen)' = Live(recs, chosen) /\ InScope' = InScope
    BY <1>1 DEF InScope, Live, Attempts
  <2>2. \A r \in matched : FilterPasses(recs[r].status, r)' = FilterPasses(recs[r].status, r)
    BY <1>1 DEF FilterPasses
  <2>3. QED  BY <1>1, <2>1, <2>2 DEF MatchedInv, Matches, OneScope
<1>4. outcome = "none"
  BY <1>1 DEF LogsTypeInv, TypeOK
<1>5. /\ page \in Nat /\ page > 0 /\ PageSize \in Nat \ {0}
      /\ Cardinality(InScope) \in Nat /\ IsFiniteSet(InScope)
      /\ \A r : Cardinality(Newer(r)) \in Nat
  BY ScopeIs, GitLabAssumption DEF LogsTypeInv, TypeOK, PhaseOK
<1>6. passed \in SUBSET DOMAIN recs
  <2>1. PageRows(page) \in SUBSET DOMAIN recs
    BY DEF PageRows, InScope, Live, Attempts
  <2>2. \A e \in rows : e.id \in DOMAIN recs
    BY <2>1, RowsProperties DEF LogsTypeInv, TypeOK, CachesOK
  <2>3. QED  BY <2>2
<1>7. CASE usedPages'
  BY <1>3, <1>7 DEF MatchedInv
<1>8. CASE ~OneScope
  BY <1>3, <1>8 DEF MatchedInv
<1>9. CASE ~usedPages' /\ OneScope
  <2>1. /\ ~stored /\ ~usedPages
        /\ ask.failedOnly => page = 1
        /\ \A r \in Matches : StillToCome(r)
    BY <1>1, <1>2, <1>9 DEF MatchedInv
  <2> DEFINE A == PageSize * (page - 1)  B == PageSize * page
  <2>2. A \in Nat /\ B \in Nat /\ B = A + PageSize
    <3>1. page - 1 \in Nat /\ (page - 1) + 1 = page
      BY <1>5
    <3>2. A \in Nat /\ PageSize * ((page - 1) + 1) = A + PageSize
      BY <1>5, <3>1, PagesAddUp
    <3>3. QED  BY <1>5, <3>1, <3>2
  <2>3. \A r \in PageRows(page) : FilterPasses(recs[r].status, r) => r \in passed
    <3> SUFFICES ASSUME NEW r \in PageRows(page), FilterPasses(recs[r].status, r)
                 PROVE  r \in passed
      OBVIOUS
    <3> DEFINE e == [id |-> r, st |-> recs[r].status, page |-> 1]
    <3>1. e \in rows /\ e.id = r /\ e.st = recs[r].status
      BY <2>1 DEF Rows
    <3> HIDE DEF e, rows
    <3>2. e \in {f \in rows : FilterPasses(f.st, f.id)}
      BY <3>1
    <3>3. QED  BY <3>1, <3>2
  <2>4. PageRows(page) = {r \in InScope : Cardinality(Newer(r)) \in A .. (B - 1)}
    BY DEF PageRows, Newer
  <2>5. /\ more => Cardinality(InScope) > B
        /\ ~more => ~(Cardinality(InScope) > B)
    BY <2>1 DEF HasNext
  <2> HIDE DEF A, B, more, passed, rows, stored
  <2>6. ASSUME NEW r \in Matches
        PROVE  r \in InScope /\ FilterPasses(recs[r].status, r)
    <3>1. FilterPasses(recs[r].status, r) /\ r \in Live(recs, chosen)
      BY DEF MatchedInv, Matches
    <3>2. QED  BY <3>1 DEF InScope, FilterPasses
  <2>7. ASSUME NEW r \in Matches, r \notin TaskJobs, Cardinality(Newer(r)) < B
        PROVE  r \in passed
    <3>1. Cardinality(Newer(r)) >= A
      BY <2>1, <2>7 DEF StillToCome, A
    <3>2. Cardinality(Newer(r)) \in A .. (B - 1)
      BY <1>5, <2>2, <2>7, <3>1
    <3>3. QED  BY <2>3, <2>4, <2>6, <3>2
  <2>8. ASSUME NEW r \in InScope, ~more
        PROVE  Cardinality(Newer(r)) < B
    <3>1. Newer(r) \in SUBSET InScope /\ r \notin Newer(r)
      BY ScopeIs DEF Newer
    <3>2. /\ Cardinality(Newer(r)) <= Cardinality(InScope)
          /\ Cardinality(Newer(r)) # Cardinality(InScope)
      BY <1>5, <3>1, FS_Subset
    <3>3. ~(Cardinality(InScope) > B)
      BY <2>5, <2>8
    <3>4. QED  BY <1>5, <2>2, <3>2, <3>3
  <2>9. TasksWith(passed) = tasks' => passed \cup TaskJobs \subseteq TaskJobs'
    <3>1. /\ \A i \in DOMAIN tasks : /\ i \in DOMAIN TasksWith(passed)
                                     /\ TasksWith(passed)[i] = tasks[i]
          /\ \A r \in passed : \E i \in DOMAIN TasksWith(passed) :
                TasksWith(passed)[i] = NewTask(r)
      BY <1>6, TasksWithIs
    <3>2. \A r \in passed : NewTask(r).job = r
      BY <1>6, NewTaskType
    <3>3. QED  BY <3>1, <3>2 DEF TaskJobs
  <2>10. CASE more /\ tasks' = TasksWith(passed) /\ page' = page + 1 /\ phase' = phase
    <3>1. ~ask.failedOnly
      <4>1. ASSUME ask.failedOnly PROVE FALSE
        <5>1. page = 1 /\ B = PageSize
          BY <1>5, <2>1, <4>1 DEF B
        <5>2. /\ Cardinality(Live(recs, chosen)) <= Cardinality(Name)
              /\ Cardinality(Name) \in Nat
              /\ Live(recs, chosen) \in SUBSET DOMAIN recs
          BY LiveIsSmall DEF LogsTypeInv, TypeOK
        <5>3. /\ IsFiniteSet(Live(recs, chosen)) /\ Cardinality(Live(recs, chosen)) \in Nat
          BY <5>2, RecordSetIsFinite DEF LogsTypeInv, TypeOK
        <5>4. Cardinality(InScope) <= Cardinality(Live(recs, chosen))
          BY <5>3, ScopeIs, FS_Subset
        <5>5. Cardinality(Name) <= PageSize
          BY <1>9, <4>1 DEF OneScope
        <5>6. Cardinality(InScope) > B
          BY <2>5, <2>10
        <5>7. QED  BY <1>5, <5>1, <5>2, <5>3, <5>4, <5>5, <5>6
      <4>2. QED  BY <4>1
    <3>2. ASSUME NEW r \in Matches
          PROVE  StillToCome(r)'
      <4>1. CASE r \in TaskJobs
        BY <2>9, <2>10, <4>1 DEF StillToCome
      <4>2. CASE r \notin TaskJobs /\ Cardinality(Newer(r)) < B
        BY <2>7, <2>9, <2>10, <4>2 DEF StillToCome
      <4>3. CASE Cardinality(Newer(r)) >= B
        <5>1. page' - 1 = page
          BY <1>5, <2>10
        <5>2. PageSize * (page' - 1) = B
          BY <5>1 DEF B
        <5>3. Newer(r)' = Newer(r)
          BY <1>3 DEF Newer
        <5>4. QED  BY <4>3, <5>2, <5>3 DEF StillToCome
      <4>4. QED  BY <1>5, <2>2, <4>1, <4>2, <4>3
    <3>3. outcome' = "none"
      BY <1>1, <1>4, <2>10 DEF Ends
    <3>4. QED  BY <1>1, <1>3, <2>10, <3>1, <3>2, <3>3 DEF MatchedInv
  <2>11. CASE ~more
    <3>1. \A r \in Matches : r \in TaskJobs \/ r \in passed
      BY <2>6, <2>7, <2>8, <2>11
    <3>2. CASE tasks' = TasksWith(passed) /\ phase' = "awaiting" /\ outcome' = outcome
      <4>1. Matches \subseteq TaskJobs'
        BY <2>9, <3>1, <3>2
      <4>2. QED  BY <1>3, <1>4, <3>2, <4>1 DEF MatchedInv
    <3>3. CASE TasksWith(passed) = <<>> /\ Ends("empty")
      <4>1. tasks' = <<>> /\ tasks' = TasksWith(passed) /\ DOMAIN tasks' = {}
        BY <3>3 DEF Ends
      <4>2. TaskJobs' = {}
        BY <4>1 DEF TaskJobs
      <4>3. Matches = {}
        BY <2>9, <3>1, <4>1, <4>2
      <4>4. phase' = "idle"
        BY <3>3 DEF Ends
      <4>5. QED  BY <1>3, <4>3, <4>4 DEF MatchedInv
    <3>4. QED  BY <1>1, <2>11, <3>2, <3>3
  <2>12. QED  BY <1>1, <2>10, <2>11
<1>10. QED  BY <1>3, <1>7, <1>8, <1>9

\* Every task has its log among the results.
LEMMA MatchedComplete ==
  ASSUME LogsTypeInv, MatchedInv, LogsComplete
  PROVE  MatchedInv'
<1>1. /\ UNCHANGED <<recs, ask, chosen, matched, usedPages>>
      /\ phase = "awaiting" /\ phase' = "idle"
      /\ DOMAIN results' = {tasks[i].job : i \in log_tasks}
  BY DEF LogsComplete, Ends, gitlabVars, logObservers
<1>2. ASSUME NEW r \in TaskJobs
      PROVE  r \in DOMAIN results'
  <2> DEFINE S == {i \in DOMAIN tasks : tasks[i].job = r}
  <2>1. S # {}
    BY DEF TaskJobs
  <2>2. Len(tasks) \in Nat /\ DOMAIN tasks = 1 .. Len(tasks)
    BY LenProperties DEF LogsTypeInv, TypeOK
  <2>3. S \in SUBSET (1 .. Len(tasks))
    BY <2>2
  <2>4. PICK i \in S : \A j \in S : j <= i
    <3> HIDE DEF S
    <3>1. Latest(S) \in S /\ \A y \in S : y <= Latest(S)
      BY <2>1, <2>2, <2>3, LatestIsLast
    <3>2. QED  BY <3>1
  <2>5. \A j \in DOMAIN tasks : j > i => tasks[j].job # r
    BY <2>2, <2>4
  <2>6. i \in log_tasks /\ tasks[i].job = r
    BY <2>4, <2>5 DEF log_tasks
  <2>7. QED  BY <1>1, <2>6
<1>3. Live(recs, chosen)' = Live(recs, chosen)
  BY <1>1 DEF Live, Attempts
<1>4. Matches' = Matches /\ OneScope' = OneScope
  BY <1>1, <1>3 DEF Matches, OneScope
<1>5. (\A r \in matched : FilterPasses(recs[r].status, r))'
  <2>1. \A r \in matched : FilterPasses(recs[r].status, r)' = FilterPasses(recs[r].status, r)
    BY <1>1 DEF FilterPasses
  <2>2. QED  BY <1>1, <2>1 DEF MatchedInv
<1>6. ~usedPages /\ OneScope /\ chosen # 0 => Matches \subseteq DOMAIN results'
  BY <1>1, <1>2 DEF MatchedInv
<1>7. QED  BY <1>1, <1>4, <1>5, <1>6 DEF MatchedInv

\* The listing begins: nothing is read yet.
LEMMA MatchedResolve ==
  ASSUME LogsTypeInv, LogsTypeInv', MatchedInv, Resolve
  PROVE  MatchedInv'
<1>1. /\ UNCHANGED <<recs, ask, tasks, page, outcome, results, usedPages>>
      /\ phase \in {"resolving", "walking"} /\ phase' \in {"listing", "walking"}
      /\ matched' = IF phase' = "listing" THEN Matching(chosen') ELSE matched
  BY DEF Resolve, ResolveById, AskForRef, AskForCommit, Found, gitlabVars, jobsVars
<1>2. page = 1 /\ outcome = "none"
  BY <1>1 DEF LogsTypeInv, TypeOK, PhaseOK
<1>3. (\A r \in matched : FilterPasses(recs[r].status, r))'
  <2>1. \A r : FilterPasses(recs[r].status, r)' = FilterPasses(recs[r].status, r)
    BY <1>1 DEF FilterPasses
  <2>2. \A r \in matched' : FilterPasses(recs[r].status, r)
    BY <1>1 DEF MatchedInv, Matching
  <2>3. QED  BY <2>1, <2>2
<1>4. ASSUME NEW r PROVE StillToCome(r)'
  <2>1. Cardinality(Newer(r)') \in Nat
    <3>1. Newer(r)' \in SUBSET DOMAIN recs
      BY <1>1 DEF Newer, InScope, Live, Attempts
    <3>2. QED  BY <3>1, RecordSetIsFinite DEF LogsTypeInv, TypeOK
  <2>2. PageSize * (page' - 1) = 0
    BY <1>1, <1>2, GitLabAssumption
  <2>3. QED  BY <2>1, <2>2 DEF StillToCome
<1>5. QED  BY <1>1, <1>2, <1>3, <1>4 DEF MatchedInv

\* The steps that leave the records and what is matched alone.
LEMMA MatchedStays ==
  ASSUME MatchedInv, UNCHANGED <<recs, ask, chosen, matched, usedPages, phase, page,
                                 outcome, results>>,
         TaskJobs' = TaskJobs
  PROVE  MatchedInv'
<1>1. Live(recs, chosen)' = Live(recs, chosen)
  BY DEF Live, Attempts
<1>2. InScope' = InScope /\ Matches' = Matches /\ OneScope' = OneScope
  BY <1>1 DEF InScope, Matches, OneScope
<1>3. \A r : StillToCome(r)' = StillToCome(r)
  BY <1>2 DEF StillToCome, Newer
<1>4. \A r : FilterPasses(recs[r].status, r)' = FilterPasses(recs[r].status, r)
  BY DEF FilterPasses
<1>5. QED  BY <1>2, <1>3, <1>4 DEF MatchedInv

LEMMA MatchedInit == Init => MatchedInv
  BY DEF Init, ResolveInit, MatchedInv

LEMMA MatchedNext == LogsTypeInv /\ LogsTypeInv' /\ MatchedInv /\ [Next]_vars => MatchedInv'
<1> SUFFICES ASSUME LogsTypeInv, LogsTypeInv', MatchedInv, [Next]_vars PROVE MatchedInv'
  OBVIOUS
<1>1. ASSUME NEW s \in Setups, RunStarts(s) PROVE MatchedInv'
  <2>1. matched' = {} /\ phase' = "resolving" /\ outcome' = "none"
    BY <1>1 DEF RunStarts
  <2>2. QED  BY <2>1 DEF MatchedInv
<1>2. ASSUME matched' = {}, phase' = "idle" PROVE MatchedInv'
  BY <1>2 DEF MatchedInv, Matches
<1>3. ASSUME NEW s \in Setups, RunRefused(s) PROVE MatchedInv'
  BY <1>2, <1>3 DEF RunRefused, Ends
<1>4. CASE Fails
  BY <1>2, <1>4 DEF Fails, Ends
<1>5. CASE AskForJob
  <2>1. /\ UNCHANGED <<recs, ask, chosen, matched, outcome>>
        /\ phase = "resolving" /\ phase' = "awaiting"
    BY <1>5 DEF AskForJob, gitlabVars, logObservers
  <2>2. chosen = 0 /\ outcome = "none"
    BY <2>1 DEF LogsTypeInv, TypeOK, PhaseOK
  <2>3. \A r : FilterPasses(recs[r].status, r)' = FilterPasses(recs[r].status, r)
    BY <2>1 DEF FilterPasses
  <2>4. QED  BY <2>1, <2>2, <2>3 DEF MatchedInv
<1>6. ASSUME NEW i \in DOMAIN tasks, TaskReturns(i) \/ TaskFails(i)
      PROVE  MatchedInv'
  <2>1. UNCHANGED <<recs, ask, chosen, matched, usedPages, phase, page, outcome, results>>
    BY <1>6 DEF TaskReturns, TaskFails, taskUnchanged, gitlabVars, resolveVars, logObservers
  <2>2. \A r : Printed(r) \in Text
    BY DEF Printed, Text
  <2>3. /\ DOMAIN tasks' = DOMAIN tasks
        /\ \A j \in DOMAIN tasks : tasks'[j].job = tasks[j].job
    BY <1>6, <2>2, SetTaskIs DEF TaskReturns, TaskFails
  <2>4. TaskJobs' = TaskJobs
    BY <2>3 DEF TaskJobs
  <2>5. QED  BY <2>1, <2>4, MatchedStays
<1>7. CASE \/ ResponsesExpire \/ LogsExpire
           \/ /\ phase = "idle" /\ TokenExpires
              /\ UNCHANGED <<gitlabVars, builds, resolveVars, jobsVars, logObservers>>
           \/ UNCHANGED vars
  BY <1>7, MatchedStays
  DEF ResponsesExpire, LogsExpire, gitlabVars, resolveVars, jobsVars, logObservers,
      vars, TaskJobs
<1>8. QED
  BY <1>1, <1>3, <1>4, <1>5, <1>6, <1>7, MatchedResolve, MatchedRead, MatchedComplete,
     MatchedWorks DEF Next

\* No match is lost on the way from the pages to the results: a job that matched
\* when the listing began, and still does, has its log among the results, however
\* retries shift the rows between two pages (core/jobs.py, cli/logs.py).
THEOREM EveryMatchFetched == Spec => []EveryMatchIsFetched
<1>1. MatchedInv => EveryMatchIsFetched
  BY DEF MatchedInv, EveryMatchIsFetched, OneScope, Matches, Matching
<1>2. QED  BY <1>1, MatchedInit, MatchedNext, LogsAlwaysTyped, PTL DEF Spec
=============================================================================
